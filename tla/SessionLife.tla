---------------------------- MODULE SessionLife ----------------------------
(***************************************************************************)
(* What the session manager promises to the rest of the server: a session  *)
(* is unborn, live, dying or gone, moves only forward, at most MaxSessions *)
(* are live, and it is reported gone exactly once.                         *)
(***************************************************************************)
EXTENDS Naturals, FiniteSets

CONSTANTS Sessions, MaxSessions

VARIABLES phase,    \* where in its life a session is
          reported  \* how often it was reported gone

Live(f) == {s \in Sessions : f[s] = "live"}

Init ==
    /\ phase = [s \in Sessions |-> "unborn"]
    /\ reported = [s \in Sessions |-> 0]

\* A session comes to life where there is room for one.
Open(s) ==
    /\ phase[s] = "unborn"
    /\ phase' = [phase EXCEPT ![s] = "live"]
    /\ Cardinality(Live(phase)) < MaxSessions
    /\ UNCHANGED reported

\* Some sessions are condemned, live ones or ones that never came to life.
Condemn(S) ==
    /\ \A s \in S : phase[s] \in {"unborn", "live"}
    /\ phase' = [s \in Sessions |-> IF s \in S THEN "dying" ELSE phase[s]]
    /\ UNCHANGED reported

Bury(s) ==
    /\ phase[s] = "dying"
    /\ phase' = [phase EXCEPT ![s] = "gone"]
    /\ reported' = [reported EXCEPT ![s] = @ + 1]

Next ==
    \/ \E s \in Sessions : Open(s) \/ Bury(s)
    \/ \E S \in SUBSET Sessions : Condemn(S)

Spec == Init /\ [][Next]_<<phase, reported>>
=============================================================================
