------------------------------ MODULE Locking -------------------------------
(***************************************************************************)
(* Locking the tabs of the app (public/js/shell-sessions.js: lock,         *)
(* sendLockAll, the storage and pageshow listeners, the idle clock).  The  *)
(* tabs of one browser share its localStorage and hear of its changes a    *)
(* little later; other devices are told by the server.                     *)
(***************************************************************************)
EXTENDS Naturals, FiniteSets

CONSTANTS
    Tabs,
    DeviceOf,  \* [Tabs -> the browser that has it]
    None,
    MaxSteps

Devices == {DeviceOf[t] : t \in Tabs}

VARIABLE x

\* A tab is at the secret prompt, computes the key, waits for the server, shows
\* the terminals, or was left and is kept frozen by the browser.
Pages == {"gone", "prompt", "deriving", "joining", "open", "frozen"}

TypeOK ==
    /\ x.page \in [Tabs -> Pages]
    /\ x.cached \in [Devices -> BOOLEAN]     \* shells-e2e-secret-hash
    /\ x.lockReq \in [Devices -> BOOLEAN]    \* shells-lock-req
    /\ x.told \in [Tabs -> Nat]              \* storage events on their way
    /\ x.server \subseteq Tabs               \* lock-all messages on their way
    /\ x.idle \subseteq Tabs                 \* no input for the set time
    /\ x.focus \in Tabs \cup {None}
    /\ x.owes \subseteq Tabs                 \* was there when a lock was requested
    /\ x.missed \subseteq Tabs               \* was frozen when the signal was taken back
    /\ x.steps \in 0..MaxSteps

Init ==
    x = [page |-> [t \in Tabs |-> "open"], cached |-> [d \in Devices |-> TRUE],
         lockReq |-> [d \in Devices |-> FALSE], told |-> [t \in Tabs |-> 0],
         server |-> {}, idle |-> {}, focus |-> None, owes |-> {}, missed |-> {},
         steps |-> 0]

Mates(t) == {u \in Tabs \ {t} : DeviceOf[u] = DeviceOf[t]}
Alive(s, t) == s.page[t] \notin {"gone", "frozen"}

\* A change of shells-lock-req, which every other tab that runs hears of.
Signals(s, t) ==
    [s EXCEPT !.told = [u \in Tabs |-> IF u \in Mates(t) /\ Alive(s, u) THEN @[u] + 1 ELSE @[u]]]

\* The page is loaded anew: with the cached secret it joins by itself.
Reload(s, t) ==
    [s EXCEPT !.page[t] = IF s.cached[DeviceOf[t]] THEN "joining" ELSE "prompt",
              !.told[t] = 0, !.owes = @ \ {t}, !.missed = @ \ {t}, !.idle = @ \ {t}]

\* lock: the secret goes, the others are signalled, and the page is reloaded.
Lock(s, t) ==
    LET d    == DeviceOf[t]
        here == {u \in Mates(t) : s.page[u] # "gone"}
    IN Reload(Signals([s EXCEPT !.cached[d] = FALSE, !.lockReq[d] = TRUE,
                                !.owes = @ \cup here, !.missed = @ \ here], t), t)

-----------------------------------------------------------------------------
Steps(s) == x.steps < MaxSteps /\ x' = [s EXCEPT !.steps = @ + 1]

\* The lock button, with and without "Lock all devices".
LockHere(t) == x.page[t] = "open" /\ Steps(Lock(x, t))

LockAll(t) ==
    /\ x.page[t] = "open"
    /\ Steps(Lock([x EXCEPT !.server = @ \cup {u \in Tabs \ {t} : x.page[u] = "open"}], t))

LockAllArrives(t) ==
    /\ t \in x.server
    /\ x' = LET s == [x EXCEPT !.server = @ \ {t}]
            IN IF s.page[t] = "open" THEN Lock(s, t) ELSE s

\* The idle clock locks the tab that is visible, focused and connected.
Autolock(t) == x.page[t] = "open" /\ t \in x.idle /\ x.focus = t /\ Steps(Lock(x, t))

TimePasses  == x.idle # Tabs /\ Steps([x EXCEPT !.idle = Tabs])
Activity(t) == x.focus = t /\ t \in x.idle /\ x' = [x EXCEPT !.idle = @ \ {t}]
Focus(t)    == Alive(x, t) /\ x.focus # t /\ x' = [x EXCEPT !.focus = t]

\* The storage event, at a lock and when the signal is taken back alike.
StorageEvent(t) ==
    x.told[t] > 0 /\ Alive(x, t) /\ x' = Reload([x EXCEPT !.told[t] = @ - 1], t)

\* The secret is entered, and its key is kept as soon as it has been computed.
EnterSecret(t) == x.page[t] = "prompt" /\ Steps([x EXCEPT !.page[t] = "deriving"])

Derived(t) ==
    /\ x.page[t] = "deriving"
    /\ x' = [x EXCEPT !.page[t] = "joining", !.cached[DeviceOf[t]] = TRUE]

\* The server accepts it, and the signal is taken back: a frozen tab that owes
\* a reload will find no sign of it when it comes back.
Authenticated(t) ==
    /\ x.page[t] = "joining"
    /\ LET d  == DeviceOf[t]
           s  == [x EXCEPT !.page[t] = "open", !.lockReq[d] = FALSE]
           s1 == [s EXCEPT !.missed = @ \cup {u \in s.owes :
                     DeviceOf[u] = d /\ s.page[u] = "frozen" /\ s.told[u] = 0}]
       IN x' = IF x.lockReq[d] THEN Signals(s1, t) ELSE s

\* The tab is left, and the browser keeps it frozen, with the events that were
\* on their way.
Freeze(t) ==
    /\ x.page[t] = "open"
    /\ Steps([x EXCEPT !.page[t] = "frozen", !.focus = IF @ = t THEN None ELSE @])

\* Slip: a page that comes back does not look at the signal.
RestoreAsItWas(t) == x.page[t] = "frozen" /\ x' = [x EXCEPT !.page[t] = "open"]

\* pageshow: a lock was requested meanwhile.
Restore(t) ==
    /\ x.page[t] = "frozen"
    /\ x' = IF x.lockReq[DeviceOf[t]] THEN Reload(x, t) ELSE [x EXCEPT !.page[t] = "open"]

Close(t)   == Alive(x, t) /\ Steps([x EXCEPT !.page[t] = "gone", !.told[t] = 0,
                  !.focus = IF @ = t THEN None ELSE @, !.owes = @ \ {t}, !.missed = @ \ {t}])
Open(t)    == x.page[t] = "gone" /\ Steps(Reload(x, t))

Next ==
    \/ TimePasses
    \/ \E t \in Tabs :
         \/ LockHere(t) \/ LockAll(t) \/ LockAllArrives(t) \/ Autolock(t) \/ Activity(t)
         \/ Focus(t) \/ StorageEvent(t) \/ EnterSecret(t) \/ Derived(t)
         \/ Authenticated(t) \/ Freeze(t) \/ Restore(t) \/ Close(t) \/ Open(t)

Spec == Init /\ [][Next]_x

-----------------------------------------------------------------------------
\* A lock in one tab reaches every tab of that browser that was there: once its
\* storage event has been delivered, or it has come back from the browser's
\* cache, none shows its terminals without having been loaded anew.  The one
\* exception: a tab that was frozen at the lock, and still was when another tab
\* took the signal back, comes back as it was, against the comment on pageshow
\* (a lock "at any point after the page was loaded"), until the next lock.
LockReachesAll ==
    \A t \in x.owes \ x.missed : x.page[t] = "open" => x.told[t] > 0

\* What makes it inductive: such a tab has an event on its way, or is frozen and
\* will find the signal when it comes back.
Fields == {"page", "cached", "lockReq", "told", "server", "idle", "focus", "owes",
           "missed", "steps"}
Typed(s) ==
    /\ DOMAIN s = Fields /\ s.owes \subseteq Tabs /\ s.missed \subseteq Tabs
    /\ s.page \in [Tabs -> Pages] /\ s.told \in [Tabs -> Nat]
    /\ s.lockReq \in [Devices -> BOOLEAN]
Hears(s, t) == s.told[t] > 0 \/ (s.page[t] = "frozen" /\ s.lockReq[DeviceOf[t]])
Inv(s)      == Typed(s) /\ \A t \in s.owes \ s.missed : Hears(s, t)

=============================================================================
