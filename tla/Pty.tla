-------------------------------- MODULE Pty --------------------------------
(***************************************************************************)
(* The process side of a terminal (internal/pty/pty.go): the child, the    *)
(* goroutine that reads the PTY master, the goroutine that reaps the child *)
(* and the exit listeners it calls.  One Term per session.                 *)
(*                                                                         *)
(* The bytes a Term carries are the business of the output modules; here a *)
(* reader is only "reading" or "done".                                     *)
(***************************************************************************)
EXTENDS Naturals, FiniteSets

CONSTANTS Sessions,   \* sessions, each with the Term that Spawn returned
          Pids,       \* process ids the kernel hands out
          NoPid       \* the pid of a Term that was never spawned

ASSUME PtyAssumption == NoPid \notin Pids

VARIABLES child,       \* state of the child process
          pid,         \* its process id, also its process group
          reader,      \* the goroutine that reads the master
          reaper,      \* the goroutine that waits for the child
          subscribed,  \* exit listeners registered so far
          heard        \* listeners dispatchExit copied

ptyVars == <<child, pid, reader, reaper, subscribed, heard>>

\* The listeners session.Create registers, by the name of what they do.
Listeners == {"destroy", "exited"}

ChildState  == {"none", "alive", "doomed", "zombie", "reaped"}
ReaderState == {"none", "reading", "done"}
ReaperState == {"none", "wait", "join", "callbacks", "destroying", "done"}

PtyTypeOK ==
    /\ child \in [Sessions -> ChildState]
    /\ pid \in [Sessions -> Pids \cup {NoPid}]
    /\ reader \in [Sessions -> ReaderState]
    /\ reaper \in [Sessions -> ReaperState]
    /\ subscribed \in [Sessions -> SUBSET Listeners]
    /\ heard \in [Sessions -> SUBSET Listeners]

PtyInit ==
    /\ child = [s \in Sessions |-> "none"]
    /\ pid = [s \in Sessions |-> NoPid]
    /\ reader = [s \in Sessions |-> "none"]
    /\ reaper = [s \in Sessions |-> "none"]
    /\ subscribed = [s \in Sessions |-> {}]
    /\ heard = [s \in Sessions |-> {}]

\* A pid stays taken until the parent has waited for the process; from then on
\* the kernel may give it to another child.
PidsTaken ==
    {pid[t] : t \in {u \in Sessions : child[u] \in {"alive", "doomed", "zombie"}}}

\* Spawn starts the child and both goroutines; nobody has subscribed yet.
Spawn(s) ==
    /\ child[s] = "none"
    /\ \E p \in Pids \ PidsTaken : pid' = [pid EXCEPT ![s] = p]
    /\ child' = [child EXCEPT ![s] = "alive"]
    /\ reader' = [reader EXCEPT ![s] = "reading"]
    /\ reaper' = [reaper EXCEPT ![s] = "wait"]
    /\ UNCHANGED <<subscribed, heard>>

OnExit(s, listener) ==
    /\ subscribed' = [subscribed EXCEPT ![s] = @ \cup {listener}]
    /\ UNCHANGED <<child, pid, reader, reaper, heard>>

\* Kill signals the process group -pid: whatever lives under that number now,
\* another session's shell if the kernel has reused it.
SignalGroup(p) ==
    child' = [t \in Sessions |-> IF child[t] = "alive" /\ pid[t] = p
                                 THEN "doomed" ELSE child[t]]

Kill(s) ==
    /\ SignalGroup(pid[s])
    /\ UNCHANGED <<pid, reader, reaper, subscribed, heard>>

\* The child exits by itself, or the pending SIGKILL takes effect.
ChildDies(s) ==
    /\ child[s] \in {"alive", "doomed"}
    /\ child' = [child EXCEPT ![s] = "zombie"]
    /\ UNCHANGED <<pid, reader, reaper, subscribed, heard>>

\* Read fails: the slave side is closed everywhere, or the master was closed.
ReaderEnds(s) ==
    /\ reader[s] = "reading"
    /\ reader' = [reader EXCEPT ![s] = "done"]
    /\ UNCHANGED <<child, pid, reaper, subscribed, heard>>

\* cmd.Wait returns and the master is closed; the reaper then waits for readDone.
WaitReturns(s) ==
    /\ reaper[s] = "wait" /\ child[s] = "zombie"
    /\ child' = [child EXCEPT ![s] = "reaped"]
    /\ reaper' = [reaper EXCEPT ![s] = "join"]
    /\ UNCHANGED <<pid, reader, subscribed, heard>>

\* dispatchExit copies the listener list under the lock, then calls each.
DispatchExit(s) ==
    /\ reaper[s] = "join" /\ reader[s] = "done"
    /\ heard' = [heard EXCEPT ![s] = subscribed[s]]
    /\ reaper' = [reaper EXCEPT ![s] = "callbacks"]
    /\ UNCHANGED <<child, pid, reader, subscribed>>
=============================================================================
