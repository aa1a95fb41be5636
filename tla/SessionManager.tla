--------------------------- MODULE SessionManager ---------------------------
(***************************************************************************)
(* The session registry and the lifecycle of its sessions                  *)
(* (internal/session/session.go), over the processes of module Pty.        *)
(*                                                                         *)
(* Concurrent parties: one Create call per session, API requests that call *)
(* Destroy, each session's reaper running the auto-destroy callback, the   *)
(* goroutines DestroyAll starts, and connections doing guarded PTY writes. *)
(* Everyone who may run a teardown is an Actor with a pc of its own, so    *)
(* that only the test-and-set of `destroyed` keeps two teardowns apart.    *)
(***************************************************************************)
EXTENDS Pty

CONSTANTS Callers,      \* API requests that may call Destroy
          Writers,      \* goroutines doing TryTermWrite / TryTermResize
          MaxSessions,  \* config.MaxSessions
          NoSession

ASSUME ManagerAssumption ==
    /\ MaxSessions \in Nat
    /\ NoSession \notin Sessions
    /\ IsFiniteSet(Sessions)
    /\ IsFiniteSet(Writers)

VARIABLES create,     \* progress of the Create call that makes the session
          registry,   \* Manager.sessions
          destroyed,  \* Session.destroyed
          termOps,    \* Session.termOps
          inflight,   \* the session whose PTY a writer is inside a syscall of
          pc,         \* progress of every actor in its teardown
          target,     \* the session the actor is tearing down
          exited,     \* sessions whose `exited` channel is closed
          notified,   \* number of times onDestroy ran for a session
          quiesced,   \* sessions whose drain ended with no op in flight
          shutdown    \* progress of DestroyAll

mgrVars == <<create, registry, destroyed, termOps, inflight, pc, target,
             exited, notified, quiesced, shutdown>>
vars == <<ptyVars, mgrVars>>

Actors == ({"api"} \X Callers) \cup ({"reaper", "shutdown"} \X Sessions)

CreateState == {"none", "checked", "spawned", "hooked", "armed",
                "overflow", "listed", "open", "refused"}
TeardownState == {"idle", "claim", "kill", "drain", "delete", "await",
                  "join", "notify"}
\* The states of an actor that won the test-and-set.
OwnerState == {"kill", "drain", "delete", "await", "notify"}

TypeOK ==
    /\ PtyTypeOK
    /\ create \in [Sessions -> CreateState]
    /\ registry \subseteq Sessions
    /\ destroyed \subseteq Sessions
    /\ termOps \in [Sessions -> Nat]
    /\ inflight \in [Writers -> Sessions \cup {NoSession}]
    /\ pc \in [Actors -> TeardownState]
    /\ target \in [Actors -> Sessions \cup {NoSession}]
    /\ exited \subseteq Sessions
    /\ notified \in [Sessions -> Nat]
    /\ quiesced \subseteq Sessions
    /\ shutdown \in {"running", "waiting", "confirmed", "gaveUp"}

Init ==
    /\ PtyInit
    /\ create = [s \in Sessions |-> "none"]
    /\ registry = {}
    /\ destroyed = {}
    /\ termOps = [s \in Sessions |-> 0]
    /\ inflight = [w \in Writers |-> NoSession]
    /\ pc = [a \in Actors |-> "idle"]
    /\ target = [a \in Actors |-> NoSession]
    /\ exited = {}
    /\ notified = [s \in Sessions |-> 0]
    /\ quiesced = {}
    /\ shutdown = "running"
-----------------------------------------------------------------------------
(* Create: the count is checked, the lock dropped, the process spawned, the *)
(* listeners added one by one, and the count checked again at insertion.    *)

CreateMoves(s, from, to) ==
    /\ create[s] = from
    /\ create' = [create EXCEPT ![s] = to]
    /\ UNCHANGED <<destroyed, termOps, inflight, pc, target, exited,
                   notified, quiesced, shutdown>>

RoomLeft == Cardinality(registry) < MaxSessions

CreateCheck(s) ==
    /\ CreateMoves(s, "none", IF RoomLeft THEN "checked" ELSE "refused")
    /\ UNCHANGED <<ptyVars, registry>>

\* A bad cwd, a missing command, an unknown backend, or a failed spawn.
CreateFails(s) ==
    /\ CreateMoves(s, "checked", "refused")
    /\ UNCHANGED <<ptyVars, registry>>

CreateSpawn(s) ==
    /\ CreateMoves(s, "checked", "spawned")
    /\ Spawn(s)
    /\ UNCHANGED registry

CreateHookDestroy(s) ==
    /\ CreateMoves(s, "spawned", "hooked")
    /\ OnExit(s, "destroy")
    /\ UNCHANGED registry

CreateHookExited(s) ==
    /\ CreateMoves(s, "hooked", "armed")
    /\ OnExit(s, "exited")
    /\ UNCHANGED registry

\* Slip: insertion trusts the count taken before the spawn.
CreateInsertUnchecked(s) ==
    /\ CreateMoves(s, "armed", "listed")
    /\ registry' = registry \cup {s}
    /\ UNCHANGED ptyVars

CreateInsert(s) ==
    /\ CreateMoves(s, "armed", IF RoomLeft THEN "listed" ELSE "overflow")
    /\ registry' = IF RoomLeft THEN registry \cup {s} ELSE registry
    /\ UNCHANGED ptyVars

\* The loser of the race for the last slot kills its orphan.
CreateKillOrphan(s) ==
    /\ CreateMoves(s, "overflow", "refused")
    /\ Kill(s)
    /\ UNCHANGED registry

\* onCreate tells the connected clients.
CreateAnnounce(s) ==
    /\ CreateMoves(s, "listed", "open")
    /\ UNCHANGED <<ptyVars, registry>>

Create(s) ==
    \/ CreateCheck(s) \/ CreateFails(s) \/ CreateSpawn(s)
    \/ CreateHookDestroy(s) \/ CreateHookExited(s)
    \/ CreateInsert(s) \/ CreateKillOrphan(s) \/ CreateAnnounce(s)
-----------------------------------------------------------------------------
(* Guarded PTY operations.  A writer got its session from the registry.     *)

\* Slip: the `destroyed` check of beginTermOp is dropped.
BeginTermOpUnguarded(w, s) ==
    /\ inflight[w] = NoSession
    /\ create[s] \in {"listed", "open"}
    /\ inflight' = [inflight EXCEPT ![w] = s]
    /\ termOps' = [termOps EXCEPT ![s] = @ + 1]
    /\ UNCHANGED <<ptyVars, create, registry, destroyed, pc, target, exited,
                   notified, quiesced, shutdown>>

BeginTermOp(w, s) ==
    /\ inflight[w] = NoSession
    /\ create[s] \in {"listed", "open"}
    /\ s \notin destroyed
    /\ inflight' = [inflight EXCEPT ![w] = s]
    /\ termOps' = [termOps EXCEPT ![s] = @ + 1]
    /\ UNCHANGED <<ptyVars, create, registry, destroyed, pc, target, exited,
                   notified, quiesced, shutdown>>

EndTermOp(w) ==
    /\ inflight[w] # NoSession
    /\ termOps' = [termOps EXCEPT ![inflight[w]] = @ - 1]
    /\ inflight' = [inflight EXCEPT ![w] = NoSession]
    /\ UNCHANGED <<ptyVars, create, registry, destroyed, pc, target, exited,
                   notified, quiesced, shutdown>>
-----------------------------------------------------------------------------
(* Teardown, as destroy and the goroutines of DestroyAll run it.            *)

ForShutdown(a) == a[1] = "shutdown"

\* Manager.Destroy looks the id up; the pointer may be stale when it is used.
Lookup(a, s) ==
    /\ a[1] = "api"
    /\ pc[a] = "idle"
    /\ s \in registry
    /\ pc' = [pc EXCEPT ![a] = "claim"]
    /\ target' = [target EXCEPT ![a] = s]
    /\ UNCHANGED <<ptyVars, create, registry, destroyed, termOps, inflight,
                   exited, notified, quiesced, shutdown>>

\* Slip: destroy sets the flag without testing it.
ClaimUntested(a) ==
    /\ pc[a] = "claim"
    /\ destroyed' = destroyed \cup {target[a]}
    /\ pc' = [pc EXCEPT ![a] = "kill"]
    /\ UNCHANGED <<ptyVars, create, registry, termOps, inflight, target,
                   exited, notified, quiesced, shutdown>>

\* The test-and-set under s.mu: one actor owns the teardown, destroy returns
\* false to the others, and a goroutine of DestroyAll waits for the reap.
Claim(a) ==
    /\ pc[a] = "claim"
    /\ \/ /\ target[a] \notin destroyed
          /\ destroyed' = destroyed \cup {target[a]}
          /\ pc' = [pc EXCEPT ![a] = "kill"]
       \/ /\ target[a] \in destroyed
          /\ pc' = [pc EXCEPT ![a] = IF ForShutdown(a) THEN "join" ELSE "idle"]
          /\ UNCHANGED destroyed
    /\ UNCHANGED <<ptyVars, create, registry, termOps, inflight, target,
                   exited, notified, quiesced, shutdown>>

KillOwned(a) ==
    /\ pc[a] = "kill"
    /\ pc' = [pc EXCEPT ![a] = "drain"]
    /\ Kill(target[a])
    /\ UNCHANGED <<create, registry, destroyed, termOps, inflight, target,
                   exited, notified, quiesced, shutdown>>

AfterDrain(a) == IF ForShutdown(a) THEN "await" ELSE "delete"

Drained(a) ==
    /\ pc[a] = "drain"
    /\ termOps[target[a]] = 0
    /\ pc' = [pc EXCEPT ![a] = AfterDrain(a)]
    /\ quiesced' = quiesced \cup {target[a]}
    /\ UNCHANGED <<ptyVars, create, registry, destroyed, termOps, inflight,
                   target, exited, notified, shutdown>>

\* Slip: the drain has no deadline.
DrainUnbounded(a) == FALSE

\* termOpDrainWait runs out while a stalled write is still in its syscall.
DrainTimesOut(a) ==
    /\ pc[a] = "drain"
    /\ termOps[target[a]] # 0
    /\ pc' = [pc EXCEPT ![a] = AfterDrain(a)]
    /\ UNCHANGED <<ptyVars, create, registry, destroyed, termOps, inflight,
                   target, exited, notified, quiesced, shutdown>>

\* Slip: destroy leaves the session in the map.
DeleteForgotten(a) ==
    /\ pc[a] = "delete"
    /\ pc' = [pc EXCEPT ![a] = "notify"]
    /\ UNCHANGED <<ptyVars, create, registry, destroyed, termOps, inflight,
                   target, exited, notified, quiesced, shutdown>>

Delete(a) ==
    /\ pc[a] = "delete"
    /\ pc' = [pc EXCEPT ![a] = "notify"]
    /\ registry' = registry \ {target[a]}
    /\ UNCHANGED <<ptyVars, create, destroyed, termOps, inflight, target,
                   exited, notified, quiesced, shutdown>>

\* Slip: DestroyAll does not wait for the reap.
AwaitNothing(a) ==
    /\ pc[a] \in {"await", "join"}
    /\ pc' = [pc EXCEPT ![a] = IF pc[a] = "await" THEN "notify" ELSE "idle"]
    /\ UNCHANGED <<ptyVars, create, registry, destroyed, termOps, inflight,
                   target, exited, notified, quiesced, shutdown>>

\* <-s.exited: the owner goes on to notify, the other one is finished.
AwaitExit(a) ==
    /\ pc[a] \in {"await", "join"}
    /\ target[a] \in exited
    /\ pc' = [pc EXCEPT ![a] = IF pc[a] = "await" THEN "notify" ELSE "idle"]
    /\ UNCHANGED <<ptyVars, create, registry, destroyed, termOps, inflight,
                   target, exited, notified, quiesced, shutdown>>

\* The onDestroy callbacks.
Notify(a) ==
    /\ pc[a] = "notify"
    /\ pc' = [pc EXCEPT ![a] = "idle"]
    /\ notified' = [notified EXCEPT ![target[a]] = @ + 1]
    /\ UNCHANGED <<ptyVars, create, registry, destroyed, termOps, inflight,
                   target, exited, quiesced, shutdown>>

Teardown(a) ==
    \/ Claim(a) \/ KillOwned(a) \/ Drained(a) \/ DrainTimesOut(a)
    \/ Delete(a) \/ AwaitExit(a) \/ Notify(a)
-----------------------------------------------------------------------------
(* The reaper's callbacks, in the order Create registered them.             *)

ProcessStep(s) ==
    /\ \/ ChildDies(s) \/ ReaderEnds(s) \/ WaitReturns(s) \/ DispatchExit(s)
    /\ UNCHANGED mgrVars

ExitAutoDestroy(s) ==
    /\ reaper[s] = "callbacks"
    /\ "destroy" \in heard[s]
    /\ s \notin destroyed
    /\ reaper' = [reaper EXCEPT ![s] = "destroying"]
    /\ pc' = [pc EXCEPT ![<<"reaper", s>>] = "claim"]
    /\ target' = [target EXCEPT ![<<"reaper", s>>] = s]
    /\ UNCHANGED <<child, pid, reader, subscribed, heard>>
    /\ UNCHANGED <<create, registry, destroyed, termOps, inflight, exited,
                   notified, quiesced, shutdown>>

ExitClose(s) ==
    /\ \/ /\ reaper[s] = "callbacks"
          /\ "destroy" \notin heard[s] \/ s \in destroyed
       \/ /\ reaper[s] = "destroying"
          /\ pc[<<"reaper", s>>] = "idle"
    /\ reaper' = [reaper EXCEPT ![s] = "done"]
    /\ exited' = IF "exited" \in heard[s] THEN exited \cup {s} ELSE exited
    /\ UNCHANGED <<child, pid, reader, subscribed, heard>>
    /\ UNCHANGED <<create, registry, destroyed, termOps, inflight, pc, target,
                   notified, quiesced, shutdown>>
-----------------------------------------------------------------------------
(* DestroyAll: take the whole registry, one goroutine per session, and wait *)
(* for all of them or for destroyAllGrace.                                  *)

DestroyAll ==
    /\ shutdown = "running"
    /\ shutdown' = "waiting"
    /\ registry' = {}
    /\ pc' = [a \in Actors |-> IF ForShutdown(a) /\ a[2] \in registry
                               THEN "claim" ELSE pc[a]]
    /\ target' = [a \in Actors |-> IF ForShutdown(a) /\ a[2] \in registry
                                   THEN a[2] ELSE target[a]]
    /\ UNCHANGED <<ptyVars, create, destroyed, termOps, inflight, exited,
                   notified, quiesced>>

DestroyAllReturns ==
    /\ shutdown = "waiting"
    /\ shutdown' = IF \A a \in Actors : ForShutdown(a) => pc[a] = "idle"
                   THEN "confirmed" ELSE "gaveUp"
    /\ UNCHANGED <<ptyVars, create, registry, destroyed, termOps, inflight,
                   pc, target, exited, notified, quiesced>>
-----------------------------------------------------------------------------
Reaper(s) == \/ WaitReturns(s) /\ UNCHANGED mgrVars
             \/ DispatchExit(s) /\ UNCHANGED mgrVars
             \/ ExitAutoDestroy(s)
             \/ ExitClose(s)

Next ==
    \/ \E s \in Sessions : \/ Create(s)
                           \/ ProcessStep(s)
                           \/ ExitAutoDestroy(s)
                           \/ ExitClose(s)
    \/ \E w \in Writers, s \in Sessions : BeginTermOp(w, s)
    \/ \E w \in Writers : EndTermOp(w)
    \/ \E a \in Actors, s \in Sessions : Lookup(a, s)
    \/ \E a \in Actors : Teardown(a)
    \/ DestroyAll
    \/ DestroyAllReturns

Spec == Init /\ [][Next]_vars

(***************************************************************************)
(* Goroutines are scheduled and timers fire; a SIGKILLed child dies; the   *)
(* reader of a dead child's PTY gets an error.  Nothing forces a child to  *)
(* exit by itself, a client to ask for anything, or a stalled PTY write to *)
(* return.                                                                 *)
(***************************************************************************)
Fairness ==
    /\ \A a \in Actors : WF_vars(Teardown(a))
    /\ \A s \in Sessions :
         /\ WF_vars(Create(s))
         /\ WF_vars(Reaper(s))
         /\ WF_vars(child[s] = "doomed" /\ ChildDies(s) /\ UNCHANGED mgrVars)
         /\ WF_vars(child[s] \in {"zombie", "reaped"} /\ ReaderEnds(s)
                      /\ UNCHANGED mgrVars)
    /\ WF_vars(DestroyAllReturns)

FairSpec == Spec /\ Fairness
-----------------------------------------------------------------------------
(* Properties                                                               *)

Owns(a, s) == target[a] = s /\ pc[a] \in OwnerState

\* A session is torn down by one party: whoever sets `destroyed` first owns the
\* kill, the drain, the removal and the notification, and while it is at work
\* the session has not been reported yet (destroy's test-and-set, shared with
\* the goroutines of DestroyAll and the exit callback).
OneTeardown ==
    \A s \in Sessions : \A a, b \in Actors :
        Owns(a, s) => /\ Owns(b, s) => a = b
                      /\ notified[s] = 0

\* However the API, the exit of the shell and the shutdown race, the onDestroy
\* callbacks run at most once for a session, and never while its shell runs on
\* untouched: clients are told "gone" only of a terminal that was killed.
GoneOnceAndKilled ==
    \A s \in Sessions : /\ notified[s] <= 1
                        /\ notified[s] = 1 => child[s] # "alive"

\* termOps counts exactly the writers inside a PTY syscall of the session.
Inside(s) == {w \in Writers : inflight[w] = s}
OpsCounted == \A s \in Sessions : termOps[s] = Cardinality(Inside(s))

\* Once a teardown's drain has seen no operation in flight, none ever touches
\* that PTY again: a write can not slip in between the drain and the removal.
QuiescedStaysQuiet ==
    \A s \in quiesced : \A w \in Writers : inflight[w] # s

\* MaxSessions bounds the registry, although Create counts the sessions long
\* before it inserts one and any number of Creates run at once.
RegistryBounded == Cardinality(registry) <= MaxSessions

\* When DestroyAll returns because all its goroutines finished, every child it
\* swept has been waited for: "SIGKILLed PTY children are confirmed dead".
ConfirmedDead ==
    shutdown = "confirmed" =>
        \A s \in Sessions :
            target[<<"shutdown", s>>] = s => child[s] = "reaped"

\* A session whose teardown has completed is no longer in the registry: "Count
\* returns the number of live sessions".
GoneIsUnlisted == \A s \in Sessions : notified[s] > 0 => s \notin registry

\* A torn-down session's child ends up reaped, whatever its writers do.
CondemnedIsReaped ==
    \A s \in Sessions : s \in destroyed ~> child[s] = "reaped"

\* Every teardown ends with the notification, unless DestroyAll took it over
\* and gave up waiting.
TeardownCompletes ==
    \A s \in Sessions :
        s \in destroyed ~> notified[s] = 1 \/ shutdown = "gaveUp"

\* Both: whoever owns the teardown of a session brings it to its end.
EveryTeardownEnds == CondemnedIsReaped /\ TeardownCompletes

\* A listed session whose shell exits by itself leaves the registry.
ExitedSessionUnlisted ==
    \A s \in Sessions :
        (s \in registry \ destroyed /\ child[s] = "zombie")
            ~> s \notin registry

\* The manager keeps the promises of SessionLife.  A session swept by
\* DestroyAll is dying from then on, although nobody has claimed it yet.
PhaseOf(s) ==
    IF notified[s] > 0 THEN "gone"
    ELSE IF s \in destroyed \/ target[<<"shutdown", s>>] = s THEN "dying"
    ELSE IF s \in registry THEN "live"
    ELSE "unborn"

Life == INSTANCE SessionLife WITH phase <- [s \in Sessions |-> PhaseOf(s)],
                                  reported <- notified

\* Refinement: the manager implements SessionLife.
ImplementsSessionLife == Life!Spec
=============================================================================
