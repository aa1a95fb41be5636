------------------------------ MODULE NewShell ------------------------------
(***************************************************************************)
(* Asking for a new terminal (public/js/shell/backends.js: promptCreate),  *)
(* a chain of dialogs and requests that may fail at each, with the lists   *)
(* of recent paths and commands it offers (public/js/shell/recents.js) and *)
(* the removal of an SSH connection, which its first dialog can start.     *)
(*                                                                         *)
(* The lists for this machine are kept by the server, and requests for     *)
(* them may be served in any order or lost; those for a connection are in  *)
(* localStorage.  A list is the set of its names: which is the oldest, and *)
(* goes when it is full, is left open.                                     *)
(***************************************************************************)
EXTENDS Naturals, FiniteSets

CONSTANTS
    None,
    Names,       \* what paths and commands there are
    Spaced,      \* the commands with white space in them
    MaxRecents,  \* how many are kept: 10 paths, 20 commands
    MaxMoves

VARIABLE x

Lists    == {"paths", "commands"}
Backends == {"local", "ssh"}
Waiting  == {"probing", "installing", "connecting"}   \* a status stands over these
Requests == {"loading", "saving", "listing", "storing"}   \* the chain awaits a request
Places   == Waiting \cup Requests \cup {"idle", "backend", "password", "retry", "folder",
                                       "command", "creating", "alert"}

Recents == [Lists -> [Backends -> SUBSET Names]]

\* A request on its way: whose it is, a list to be stored or fetched, or the answer
\* to a fetch, and whether it was sent before the last pruning.
Sent == [by : {"chain", "delete", "prune"}, kind : {"save", "fetch", "answer"},
         list : Lists, names : SUBSET Names, before : BOOLEAN]

TypeOK ==
    /\ x.at \in Places
    /\ x.backend \in Backends /\ x.path \in Names \cup {None} /\ x.command \in Names \cup {None}
    /\ x.known \in BOOLEAN                              \* the connection is stored
    /\ x.removing \in {"no", "asked", "sent"}           \* _isDeletingConn, onDelete
    /\ x.status \in Waiting \cup {"removing", None}     \* the status that is open
    /\ x.recent \in Recents                             \* in this page
    /\ x.stored \in Recents                             \* where they are kept
    /\ x.reqs \subseteq Sent
    /\ x.culprit \in {None} \cup (Lists \X Backends \X Names)   \* proven unusable
    /\ x.revived \in BOOLEAN               \* what was fetched since names the culprit
    /\ x.moves \in 0..MaxMoves

Init ==
    x = [at |-> "idle", backend |-> "local", path |-> None, command |-> None, known |-> FALSE,
         removing |-> "no", status |-> None,
         recent |-> [l \in Lists |-> [b \in Backends |-> {}]],
         stored |-> [l \in Lists |-> [b \in Backends |-> {}]],
         reqs |-> {}, culprit |-> None, revived |-> FALSE, moves |-> 0]

To(s, place) == [s EXCEPT !.at = place]

Send(s, by, kind, l, N) ==
    [s EXCEPT !.reqs = @ \cup {[by |-> by, kind |-> kind, list |-> l, names |-> N,
                                before |-> FALSE]}]

\* The page's list changes at once; the whole list goes to localStorage, or on its
\* way to the server.
Stores(s, by, l, N) ==
    LET b == s.backend
    IN IF b = "local" THEN Send([s EXCEPT !.recent[l][b] = N], by, "save", l, N)
       ELSE [s EXCEPT !.recent[l][b] = N, !.stored[l][b] = N]

\* The list with a name put first, cut to MaxRecents.
Saved(N, n) ==
    LET rest == N \ {n}
    IN {{n} \cup kept : kept \in IF Cardinality(rest) < MaxRecents THEN {rest}
                                 ELSE {rest \ {m} : m \in rest}}

\* Slip: the page's list changes when the request has been answered.
ForgetOnAnswer(s, by, l, n) ==
    IF s.backend = "local" THEN Send(s, by, "save", l, s.recent[l]["local"] \ {n})
    ELSE Stores(s, by, l, s.recent[l]["ssh"] \ {n})

\* _removeRecentPath, _removeRecentCommand and their SSH forms.
Forget(s, by, l, n) == Stores(s, by, l, s.recent[l][s.backend] \ {n})

\* A list that was fetched replaces the page's.
Fetched(s, l, b, N) ==
    [s EXCEPT !.recent[l][b] = N,
              !.revived = @ \/ \E n \in N : s.culprit = <<l, b, n>>]

\* A name that is entered is not held to be of no use any more.
Entered(s, l, n) ==
    IF s.culprit = <<l, s.backend, n>> THEN [s EXCEPT !.culprit = None, !.revived = FALSE]
    ELSE s

\* A name is proven unusable and goes.
Prune(s, l, n) ==
    Forget([s EXCEPT !.culprit = <<l, s.backend, n>>, !.revived = FALSE,
                     !.reqs = {[r EXCEPT !.before = TRUE] : r \in s.reqs}], "prune", l, n)

\* TuiDialog.status closes the one that is open; its own close does nothing then.
ShowStatus(s, what) == [s EXCEPT !.status = what]
CloseStatus(s, what) == [s EXCEPT !.status = IF @ = what THEN None ELSE @]

-----------------------------------------------------------------------------
Goes(S) == x' \in S
Moves(S) == x.moves < MaxMoves /\ x' \in {[s EXCEPT !.moves = @ + 1] : s \in S}
Start == x.at = "idle" /\ Moves({To([x EXCEPT !.path = None, !.command = None], "backend")})

\* The paths of a connection are loaded under a status.
Connecting(s) ==
    ShowStatus(To(Fetched([s EXCEPT !.backend = "ssh", !.known = TRUE], "paths", "ssh",
                          s.stored["paths"]["ssh"]), "connecting"), "connecting")

\* The backend: this machine, a stored connection, or one to be probed.
Backend ==
    /\ x.at = "backend" /\ x.removing # "asked"
    /\ Goes({Send(To([x EXCEPT !.backend = "local"], "loading"), "chain", "fetch", "paths", {}),
             IF x.known THEN Connecting(x) ELSE ShowStatus(To(x, "probing"), "probing")})

\* A connection's delete button, its confirmation (Escape cancels the prompt
\* below as well) and the answer.
AskRemove ==
    /\ x.at = "backend" /\ x.known /\ x.removing = "no"
    /\ Moves({[x EXCEPT !.removing = "asked"]})

ConfirmRemove ==
    /\ x.removing = "asked"
    /\ LET s == [x EXCEPT !.removing = "no"]
       IN Goes({s, To(s, "idle"), ShowStatus([x EXCEPT !.removing = "sent"], "removing")})

Removed ==
    /\ x.removing = "sent"
    /\ LET s == CloseStatus([x EXCEPT !.removing = "no"], "removing")
           Gone(f) == [l \in Lists |-> [f[l] EXCEPT !["ssh"] = {}]]
       IN Goes({s, [s EXCEPT !.known = FALSE, !.recent = Gone(@), !.stored = Gone(@)]})

\* The probe ends: SSH is missing, the key is there, nobody answers, a password
\* is needed, or the request fails.
Probed ==
    /\ x.at = "probing"
    /\ LET s == CloseStatus(x, "probing")
       IN Goes({To(s, "idle"), Connecting(s), To(s, "alert"), To(s, "password")})

Password ==
    /\ x.at = "password"
    /\ Moves({ShowStatus(To(x, "installing"), "installing")})

\* The key is installed, or not, or the request fails.
Installed ==
    /\ x.at = "installing"
    /\ LET s == CloseStatus(x, "installing")
       IN Goes({Connecting(s), To(s, "retry"), To(s, "alert")})

Retry == x.at = "retry" /\ Goes({To(x, "password")})

Connected ==
    /\ x.at = "connecting"
    /\ LET s == CloseStatus(x, "connecting") IN Goes({To(s, "alert"), To(s, "folder")})

\* A suggestion of the open prompt is deleted: the list is stored, and then
\* fetched again, while the prompt goes on.
DeleteRecent(n) ==
    /\ x.at \in {"folder", "command"}
    /\ LET l == IF x.at = "folder" THEN "paths" ELSE "commands"
       IN /\ n \in x.recent[l][x.backend]
          /\ Moves({Forget(x, "delete", l, n)})

\* The folder is saved, and then the commands are fetched.
Folder(n) ==
    /\ x.at = "folder"
    /\ LET s == Entered([x EXCEPT !.path = n], "paths", n)
       IN Moves({IF x.backend = "local" THEN To(Stores(s, "chain", "paths", N), "saving")
                 ELSE To(Fetched(Stores(s, "chain", "paths", N), "commands", "ssh",
                                 s.stored["commands"]["ssh"]), "command")
                    : N \in Saved(x.recent["paths"][x.backend], n)})

\* A command is saved, but for one with white space on this machine.
Command(n) ==
    /\ x.at = "command"
    /\ LET s == Entered([x EXCEPT !.command = n], "commands", n)
       IN Moves(IF n = None \/ (x.backend = "local" /\ n \in Spaced) THEN {To(s, "creating")}
                ELSE {To(Stores(s, "chain", "commands", N),
                         IF x.backend = "local" THEN "storing" ELSE "creating")
                        : N \in Saved(x.recent["commands"][x.backend], n)})

\* The session is created, or the folder or the command is of no use and goes,
\* or it fails for another reason.  Nothing waits for the alert.
Created ==
    /\ x.at = "creating"
    /\ Goes({To(x, "idle"), To(Prune(x, "paths", x.path), "idle")} \cup
            (IF x.command = None THEN {}
             ELSE {To(Prune(x, "commands", x.command), "idle")}))

\* Escape and Cancel: a prompt ends the chain, a status is only closed.
Leave ==
    \/ x.at \in {"backend", "password", "retry", "folder", "command", "alert"}
       /\ x.removing # "asked" /\ Moves({To([x EXCEPT !.status = None], "idle")})
    \/ x.status # None /\ Moves({[x EXCEPT !.status = None]})

-----------------------------------------------------------------------------
(* Requests.                                                                *)

\* What waits for a request that was answered or failed goes on: a deletion
\* fetches the list, and so does the chain once the folder is stored.
GoesOn(s, r) ==
    IF r.by = "prune" \/ (r.by = "delete" /\ r.kind # "save") THEN s
    ELSE IF r.by = "delete" THEN Send(s, "delete", "fetch", r.list, {})
    ELSE IF s.at = "saving" THEN Send(To(s, "listing"), "chain", "fetch", "commands", {})
    ELSE To(s, CASE s.at = "loading" -> "folder"
                 [] s.at = "listing" -> "command"
                 [] s.at = "storing" -> "creating"
                 [] OTHER -> s.at)

Done(r) == [x EXCEPT !.reqs = @ \ {r}]

\* The server stores a list.
ServeSave(r) ==
    /\ r \in x.reqs /\ r.kind = "save"
    /\ Goes({GoesOn([Done(r) EXCEPT !.stored[r.list]["local"] = r.names], r)})

\* The server reads a list.
ServeFetch(r) ==
    /\ r \in x.reqs /\ r.kind = "fetch"
    /\ Goes({[Done(r) EXCEPT !.reqs = @ \cup
                 {[r EXCEPT !.kind = "answer", !.names = x.stored[r.list]["local"]]}]})

\* fetchRecentPaths, fetchRecentCommands: the answer.
Answer(r) ==
    /\ r \in x.reqs /\ r.kind = "answer"
    /\ Goes({GoesOn(Fetched(Done(r), r.list, "local", r.names), r)})

\* A request fails: nothing is stored, or the page's list stays.
Fail(r) == r \in x.reqs /\ Goes({GoesOn(Done(r), r)})

\* Another tab stores its own list.
OtherSaves(l, b, N) == Moves({[x EXCEPT !.stored[l][b] = N]})

Next ==
    \/ Start \/ Backend \/ AskRemove \/ ConfirmRemove \/ Removed \/ Probed \/ Password
    \/ Installed \/ Retry \/ Connected \/ Created \/ Leave
    \/ \E n \in Names : DeleteRecent(n) \/ Folder(n) \/ Command(n)
    \/ Command(None)
    \/ \E r \in x.reqs : ServeSave(r) \/ ServeFetch(r) \/ Answer(r) \/ Fail(r)
    \/ \E l \in Lists, b \in Backends, N \in SUBSET Names : OtherSaves(l, b, N)

Spec == Init /\ [][Next]_x

-----------------------------------------------------------------------------
\* What could not be used the page neither offers nor stores again until it is
\* entered again, whatever requests of deletions and chains are on their way;
\* only a list fetched since can bring it back.
Pruned(s) ==
    (s.culprit # None /\ ~s.revived) =>
        LET l == s.culprit[1]
            n == s.culprit[3]
        IN /\ n \notin s.recent[l][s.culprit[2]]
           /\ s.culprit[2] = "local" =>
                \A r \in s.reqs : (r.kind = "save" /\ r.list = l /\ ~r.before) => n \notin r.names

PrunedStaysPruned == Pruned(x)

\* What makes it inductive: a folder has been entered when the session is asked
\* for.
Fields == {"at", "backend", "path", "command", "known", "removing", "status", "recent",
           "stored", "reqs", "culprit", "revived", "moves"}
Typed(s) ==
    /\ DOMAIN s = Fields /\ s.backend \in Backends /\ s.recent \in Recents
    /\ s.stored \in Recents /\ s.reqs \subseteq Sent /\ s.command \in Names \cup {None}
    /\ s.at \in {"saving", "listing", "command", "storing", "creating"} => s.path \in Names
    /\ s.culprit \in {None} \cup (Lists \X Backends \X Names) /\ s.revived \in BOOLEAN
Inv(s) == Typed(s) /\ Pruned(s)

=============================================================================
