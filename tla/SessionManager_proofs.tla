----------------------- MODULE SessionManager_proofs -----------------------
(***************************************************************************)
(* Proofs about module SessionManager, for any number of sessions, API     *)
(* callers and writers.                                                    *)
(***************************************************************************)
EXTENDS SessionManager, FiniteSetTheorems, TLAPS

USE PtyAssumption, ManagerAssumption

\* The strengthening under which OneTeardown, GoneOnceAndKilled,
\* QuiescedStaysQuiet and ConfirmedDead are inductive.
BusyHasTarget == \A a \in Actors : pc[a] # "idle" => target[a] \in Sessions

NothingBeforeSpawn ==
    \A s \in Sessions :
        child[s] = "none" => /\ create[s] \in {"none", "checked", "refused"}
                             /\ s \notin registry /\ s \notin destroyed
                             /\ reaper[s] = "none"
                             /\ \A a \in Actors : target[a] # s

OwnerHasFlag ==
    /\ \A s \in Sessions : \A a \in Actors :
         Owns(a, s) => /\ s \in destroyed
                       /\ pc[a] # "kill" => child[s] # "alive"
    /\ \A s \in Sessions : notified[s] > 0 => s \in destroyed
    /\ quiesced \subseteq destroyed

ExitedIsReaped ==
    \A s \in Sessions :
        s \in exited \/ reaper[s] \in {"join", "callbacks", "destroying", "done"}
            => child[s] = "reaped"

SweptAwaitsExit ==
    /\ \A s \in Sessions :
         /\ shutdown = "running" =>
                target[<<"shutdown", s>>] = NoSession
         /\ pc[<<"shutdown", s>>] # "delete"
         /\ target[<<"shutdown", s>>] = s
                /\ pc[<<"shutdown", s>>] \in {"idle", "notify"} => s \in exited
    /\ shutdown = "confirmed" =>
         \A s \in Sessions : pc[<<"shutdown", s>>] = "idle"

LifeInv ==
    /\ BusyHasTarget
    /\ NothingBeforeSpawn
    /\ OwnerHasFlag
    /\ OneTeardown
    /\ GoneOnceAndKilled
    /\ QuiescedStaysQuiet
    /\ ExitedIsReaped
    /\ SweptAwaitsExit

\* A set of writers is finite, so its cardinality is a number.
LEMMA InsideFinite ==
    ASSUME NEW s \in Sessions
    PROVE  IsFiniteSet(Inside(s)) /\ Cardinality(Inside(s)) \in Nat
<1>1. Inside(s) \in SUBSET Writers
  BY DEF Inside
<1> QED
  BY <1>1, FS_Subset, FS_CardinalityType

\* A writer inside an operation is counted, so the counter is positive.
LEMMA CountedPositive ==
    ASSUME TypeOK, OpsCounted, NEW w \in Writers, inflight[w] # NoSession
    PROVE  inflight[w] \in Sessions /\ termOps[inflight[w]] - 1 \in Nat
<1>1. inflight[w] \in Sessions
  BY DEF TypeOK
<1>2. w \in Inside(inflight[w])
  BY DEF Inside
<1>3. Cardinality(Inside(inflight[w])) # 0
  BY <1>1, <1>2, InsideFinite, FS_EmptySet
<1> QED
  BY <1>1, <1>3, InsideFinite DEF OpsCounted

\* Every action keeps every variable in its type.
LEMMA TypeStep ==
    TypeOK /\ OpsCounted /\ BusyHasTarget /\ [Next]_vars => TypeOK'
<1> USE DEF TypeOK, PtyTypeOK, ChildState, ReaderState, ReaperState, Listeners,
            CreateState, TeardownState
<1> SUFFICES ASSUME TypeOK, OpsCounted, BusyHasTarget, [Next]_vars
             PROVE  TypeOK'
  OBVIOUS
<1>1. ASSUME NEW s \in Sessions, Create(s) PROVE TypeOK'
  <2>1. CASE CreateCheck(s)
    BY <2>1 DEF CreateCheck, CreateMoves, ptyVars
  <2>2. CASE CreateFails(s)
    BY <2>2 DEF CreateFails, CreateMoves, ptyVars
  <2>3. CASE CreateSpawn(s)
    BY <2>3 DEF CreateSpawn, CreateMoves, Spawn, PidsTaken
  <2>4. CASE CreateHookDestroy(s)
    BY <2>4 DEF CreateHookDestroy, CreateMoves, OnExit
  <2>5. CASE CreateHookExited(s)
    BY <2>5 DEF CreateHookExited, CreateMoves, OnExit
  <2>6. CASE CreateInsert(s)
    BY <2>6 DEF CreateInsert, CreateMoves, ptyVars
  <2>7. CASE CreateKillOrphan(s)
    BY <2>7 DEF CreateKillOrphan, CreateMoves, Kill, SignalGroup
  <2>8. CASE CreateAnnounce(s)
    BY <2>8 DEF CreateAnnounce, CreateMoves, ptyVars
  <2> QED
    BY <1>1, <2>1, <2>2, <2>3, <2>4, <2>5, <2>6, <2>7, <2>8 DEF Create
<1>2. ASSUME NEW s \in Sessions, ProcessStep(s) PROVE TypeOK'
  BY <1>2 DEF ProcessStep, ChildDies, ReaderEnds, WaitReturns, DispatchExit,
              mgrVars
<1>3. ASSUME NEW s \in Sessions, ExitAutoDestroy(s) PROVE TypeOK'
  BY <1>3 DEF ExitAutoDestroy, Actors
<1>4. ASSUME NEW s \in Sessions, ExitClose(s) PROVE TypeOK'
  BY <1>4 DEF ExitClose
<1>5. ASSUME NEW w \in Writers, NEW s \in Sessions, BeginTermOp(w, s)
      PROVE TypeOK'
  BY <1>5 DEF BeginTermOp, ptyVars
<1>6. ASSUME NEW w \in Writers, EndTermOp(w) PROVE TypeOK'
  BY <1>6, CountedPositive DEF EndTermOp, ptyVars
<1>7. ASSUME NEW a \in Actors, NEW s \in Sessions, Lookup(a, s) PROVE TypeOK'
  BY <1>7 DEF Lookup, ptyVars
<1>8. ASSUME NEW a \in Actors, Teardown(a) PROVE TypeOK'
  <2>1. CASE Claim(a)
    BY <2>1 DEF Claim, BusyHasTarget, ptyVars
  <2>2. CASE KillOwned(a)
    BY <2>2 DEF KillOwned, Kill, SignalGroup
  <2>3. CASE Drained(a)
    BY <2>3 DEF Drained, BusyHasTarget, AfterDrain, ptyVars
  <2>4. CASE DrainTimesOut(a)
    BY <2>4 DEF DrainTimesOut, AfterDrain, ptyVars
  <2>5. CASE Delete(a)
    BY <2>5 DEF Delete, ptyVars
  <2>6. CASE AwaitExit(a)
    BY <2>6 DEF AwaitExit, ptyVars
  <2>7. CASE Notify(a)
    BY <2>7 DEF Notify, BusyHasTarget, ptyVars
  <2> QED
    BY <1>8, <2>1, <2>2, <2>3, <2>4, <2>5, <2>6, <2>7 DEF Teardown
<1>9. CASE DestroyAll
  BY <1>9 DEF DestroyAll, ForShutdown, ptyVars
<1>10. CASE DestroyAllReturns
  BY <1>10 DEF DestroyAllReturns, ptyVars, Actors, ForShutdown
<1>11. CASE UNCHANGED vars
  BY <1>11 DEF vars, ptyVars, mgrVars
<1> QED
  BY <1>1, <1>2, <1>3, <1>4, <1>5, <1>6, <1>7, <1>8, <1>9, <1>10, <1>11 DEF Next

\* Begin and end keep the counter equal to the number of writers inside.
LEMMA OpsStep == TypeOK /\ OpsCounted /\ [Next]_vars => OpsCounted'
<1> SUFFICES ASSUME TypeOK, OpsCounted, [Next]_vars, NEW t \in Sessions
             PROVE  termOps'[t] = Cardinality(Inside(t)')
  BY DEF OpsCounted
<1>1. ASSUME UNCHANGED <<termOps, inflight>>
      PROVE  termOps'[t] = Cardinality(Inside(t)')
  <2>1. Inside(t)' = Inside(t)
    BY <1>1 DEF Inside
  <2> QED
    BY <1>1, <2>1 DEF OpsCounted
<1>2. ASSUME NEW w \in Writers, NEW s \in Sessions, BeginTermOp(w, s)
      PROVE  termOps'[t] = Cardinality(Inside(t)')
  <2>1. inflight' = [inflight EXCEPT ![w] = s] /\ w \notin Inside(t)
    BY <1>2 DEF BeginTermOp, Inside
  <2>2. CASE t = s
    <3>1. Inside(t)' = Inside(t) \cup {w}
      BY <2>1, <2>2 DEF Inside, TypeOK
    <3>2. termOps'[t] = termOps[t] + 1
      BY <1>2, <2>2 DEF BeginTermOp, TypeOK
    <3> QED
      BY <2>1, <3>1, <3>2, InsideFinite, FS_AddElement, ZenonT(30) DEF OpsCounted
  <2>3. CASE t # s
    <3>1. Inside(t)' = Inside(t)
      BY <1>2, <2>1, <2>3 DEF Inside, TypeOK
    <3>2. termOps'[t] = termOps[t]
      BY <1>2, <2>3 DEF BeginTermOp, TypeOK
    <3> QED
      BY <3>1, <3>2 DEF OpsCounted
  <2> QED
    BY <2>2, <2>3
<1>3. ASSUME NEW w \in Writers, EndTermOp(w)
      PROVE  termOps'[t] = Cardinality(Inside(t)')
  <2>1. /\ inflight' = [inflight EXCEPT ![w] = NoSession]
        /\ termOps' = [termOps EXCEPT ![inflight[w]] = @ - 1]
        /\ inflight[w] \in Sessions
    BY <1>3, CountedPositive DEF EndTermOp
  <2>2. CASE t = inflight[w]
    <3>1. Inside(t)' = Inside(t) \ {w} /\ w \in Inside(t)
      BY <2>1, <2>2 DEF Inside, TypeOK
    <3>2. termOps'[t] = termOps[t] - 1
      BY <2>1, <2>2 DEF TypeOK
    <3> QED
      BY <3>1, <3>2, InsideFinite, FS_RemoveElement, ZenonT(30) DEF OpsCounted
  <2>3. CASE t # inflight[w]
    <3>1. Inside(t)' = Inside(t)
      BY <2>1, <2>3 DEF Inside, TypeOK
    <3>2. termOps'[t] = termOps[t]
      BY <2>1, <2>3 DEF TypeOK
    <3> QED
      BY <3>1, <3>2 DEF OpsCounted
  <2> QED
    BY <2>2, <2>3
<1> QED
  BY <1>1, <1>2, <1>3 DEF Next, vars, mgrVars, Create, CreateCheck, CreateFails,
     CreateSpawn, CreateHookDestroy, CreateHookExited, CreateInsert,
     CreateKillOrphan, CreateAnnounce, CreateMoves, ProcessStep,
     ExitAutoDestroy, ExitClose, Lookup, Teardown, Claim, KillOwned, Drained,
     DrainTimesOut, Delete, AwaitExit, Notify, DestroyAll, DestroyAllReturns

-----------------------------------------------------------------------------
\* The inductive invariant: the types, the writers' count and the life cycle.
InvHyp == TypeOK /\ OpsCounted /\ LifeInv

\* The counter reads zero only when no writer is inside.
LEMMA ZeroIsQuiet ==
    ASSUME InvHyp, NEW s \in Sessions, termOps[s] = 0
    PROVE  \A w \in Writers : inflight[w] # s
<1>1. Inside(s) = {}
  BY InsideFinite, FS_EmptySet DEF InvHyp, OpsCounted
<1> QED
  BY <1>1 DEF Inside

\* Every action keeps the life cycle of a session in order: who owns a teardown,
\* what it has done so far, and what the process has done meanwhile.
LEMMA LifeStep == InvHyp /\ [Next]_vars => LifeInv'
<1> SUFFICES ASSUME InvHyp, [Next]_vars PROVE LifeInv'
  OBVIOUS
<1> USE DEF InvHyp, LifeInv, TypeOK, PtyTypeOK, BusyHasTarget,
            NothingBeforeSpawn, OwnerHasFlag, OneTeardown, GoneOnceAndKilled,
            QuiescedStaysQuiet, ExitedIsReaped, SweptAwaitsExit, Owns, OwnerState
<1>1. ASSUME NEW s \in Sessions, Create(s) PROVE LifeInv'
  <2>1. CASE CreateCheck(s)
    BY <2>1 DEF CreateCheck, CreateMoves, ptyVars
  <2>2. CASE CreateFails(s)
    BY <2>2 DEF CreateFails, CreateMoves, ptyVars
  <2>3. CASE CreateSpawn(s)
    BY <2>3 DEF CreateSpawn, CreateMoves, Spawn, PidsTaken
  <2>4. CASE CreateHookDestroy(s)
    BY <2>4 DEF CreateHookDestroy, CreateMoves, OnExit
  <2>5. CASE CreateHookExited(s)
    BY <2>5 DEF CreateHookExited, CreateMoves, OnExit
  <2>6. CASE CreateInsert(s)
    BY <2>6 DEF CreateInsert, CreateMoves, ptyVars
  <2>7. CASE CreateKillOrphan(s)
    BY <2>7 DEF CreateKillOrphan, CreateMoves, Kill, SignalGroup
  <2>8. CASE CreateAnnounce(s)
    BY <2>8 DEF CreateAnnounce, CreateMoves, ptyVars
  <2> QED
    BY <1>1, <2>1, <2>2, <2>3, <2>4, <2>5, <2>6, <2>7, <2>8 DEF Create
<1>2. ASSUME NEW s \in Sessions, ProcessStep(s) PROVE LifeInv'
  BY <1>2 DEF ProcessStep, ChildDies, ReaderEnds, WaitReturns, DispatchExit,
              mgrVars
<1>3. ASSUME NEW s \in Sessions, ExitAutoDestroy(s) PROVE LifeInv'
  BY <1>3 DEF ExitAutoDestroy, Actors
<1>4. ASSUME NEW s \in Sessions, ExitClose(s) PROVE LifeInv'
  BY <1>4 DEF ExitClose
<1>5. ASSUME NEW w \in Writers, NEW s \in Sessions, BeginTermOp(w, s)
      PROVE LifeInv'
  BY <1>5 DEF BeginTermOp, ptyVars
<1>6. ASSUME NEW w \in Writers, EndTermOp(w) PROVE LifeInv'
  BY <1>6, CountedPositive DEF EndTermOp, ptyVars
<1>7. ASSUME NEW a \in Actors, NEW s \in Sessions, Lookup(a, s) PROVE LifeInv'
  BY <1>7 DEF Lookup, ptyVars, Actors
<1>8. ASSUME NEW a \in Actors, Teardown(a) PROVE LifeInv'
  <2>1. CASE Claim(a)
    BY <2>1 DEF Claim, ptyVars, Actors, ForShutdown
  <2>2. CASE KillOwned(a)
    BY <2>2 DEF KillOwned, Kill, SignalGroup, Actors
  <2>3. CASE Drained(a)
    BY <2>3, ZeroIsQuiet DEF Drained, AfterDrain, ptyVars, Actors, ForShutdown
  <2>4. CASE DrainTimesOut(a)
    BY <2>4 DEF DrainTimesOut, AfterDrain, ptyVars, Actors, ForShutdown
  <2>5. CASE Delete(a)
    BY <2>5 DEF Delete, ptyVars, Actors
  <2>6. CASE AwaitExit(a)
    <3>. USE <2>6 DEF AwaitExit, ptyVars
    <3>1. BusyHasTarget' /\ NothingBeforeSpawn' /\ OwnerHasFlag'
      OBVIOUS
    <3>2. /\ \A s \in Sessions, b \in Actors : Owns(b, s)' => Owns(b, s)
          /\ UNCHANGED <<notified, child, exited, reaper, quiesced, inflight>>
      OBVIOUS
    <3>5. OneTeardown'
      BY <3>2
    <3>6. GoneOnceAndKilled' /\ QuiescedStaysQuiet' /\ ExitedIsReaped'
      BY <3>2
    <3>3. ASSUME NEW s \in Sessions
          PROVE  \/ /\ a = <<"shutdown", s>> /\ target[a] \in exited
                    /\ pc'[a] \in {"notify", "idle"}
                 \/ pc'[<<"shutdown", s>>] = pc[<<"shutdown", s>>]
      BY DEF Actors
    <3>4. SweptAwaitsExit'
      <4>1. UNCHANGED <<shutdown, target, exited>>
        OBVIOUS
      <4>2. ASSUME NEW s \in Sessions, a = <<"shutdown", s>>
            PROVE  shutdown # "confirmed"
        BY <4>2
      <4>3. ASSUME NEW s \in Sessions
            PROVE  /\ pc'[<<"shutdown", s>>] # "delete"
                   /\ target[<<"shutdown", s>>] = s
                         /\ pc'[<<"shutdown", s>>] \in {"idle", "notify"}
                            => s \in exited
                   /\ shutdown = "confirmed" => pc'[<<"shutdown", s>>] = "idle"
        <5>1. CASE a = <<"shutdown", s>> /\ target[a] \in exited
                   /\ pc'[a] \in {"notify", "idle"}
          BY <4>2, <5>1
        <5>2. CASE pc'[<<"shutdown", s>>] = pc[<<"shutdown", s>>]
          BY <5>2
        <5> QED
          BY <3>3, <5>1, <5>2
      <4> QED
        BY <4>1, <4>3
    <3> QED
      BY <3>1, <3>4, <3>5, <3>6
  <2>7. CASE Notify(a)
    <3>. DEFINE u == target[a]
    <3>. USE <2>7 DEF Notify, ptyVars
    <3>1. /\ u \in Sessions /\ Owns(a, u) /\ notified[u] = 0
          /\ u \in destroyed /\ child[u] # "alive"
      OBVIOUS
    <3>2. /\ pc' = [pc EXCEPT ![a] = "idle"]
          /\ notified' = [notified EXCEPT ![u] = 1]
      BY <3>1
    <3>3. OneTeardown' /\ GoneOnceAndKilled' /\ OwnerHasFlag'
      BY <3>1, <3>2
    <3>4. ASSUME NEW s \in Sessions
          PROVE  \/ a = <<"shutdown", s>> /\ pc'[a] = "idle" /\ pc[a] = "notify"
                 \/ pc'[<<"shutdown", s>>] = pc[<<"shutdown", s>>]
      BY <3>2 DEF Actors
    <3>5. SweptAwaitsExit'
      BY <3>4, ZenonT(30)
    <3> QED
      BY <3>1, <3>2, <3>3, <3>5
  <2> QED
    BY <1>8, <2>1, <2>2, <2>3, <2>4, <2>5, <2>6, <2>7 DEF Teardown
<1>9. CASE DestroyAll
  <2>. USE <1>9 DEF DestroyAll, ForShutdown, ptyVars
  <2>1. ASSUME NEW a \in Actors
        PROVE  \/ pc'[a] = pc[a] /\ target'[a] = target[a]
               \/ /\ pc'[a] = "claim" /\ target'[a] \in registry
                  /\ a = <<"shutdown", target'[a]>>
    BY DEF Actors
  <2>2. BusyHasTarget' /\ NothingBeforeSpawn' /\ OwnerHasFlag'
    BY <2>1
  <2>3. OneTeardown' /\ GoneOnceAndKilled' /\ QuiescedStaysQuiet' /\ ExitedIsReaped'
    BY <2>1
  <2>4. SweptAwaitsExit'
    BY <2>1 DEF Actors
  <2> QED
    BY <2>2, <2>3, <2>4
<1>10. CASE DestroyAllReturns
  BY <1>10 DEF DestroyAllReturns, ptyVars, Actors, ForShutdown
<1>11. CASE UNCHANGED vars
  BY <1>11 DEF vars, ptyVars, mgrVars
<1> QED
  BY <1>1, <1>2, <1>3, <1>4, <1>5, <1>6, <1>7, <1>8, <1>9, <1>10, <1>11 DEF Next

\* The inductive invariant holds of an empty registry.
LEMMA InvInit == Init => InvHyp
<1> SUFFICES ASSUME Init PROVE InvHyp
  OBVIOUS
<1>1. TypeOK
  BY DEF Init, PtyInit, TypeOK, PtyTypeOK, ChildState, ReaderState,
         ReaperState, Listeners, CreateState, TeardownState
<1>2. ASSUME NEW s \in Sessions PROVE termOps[s] = Cardinality(Inside(s))
  <2>1. Inside(s) = {}
    BY DEF Init, Inside
  <2> QED
    BY <2>1, FS_EmptySet DEF Init
<1>3. LifeInv
  BY DEF Init, PtyInit, LifeInv, BusyHasTarget, NothingBeforeSpawn, OwnerHasFlag,
   OneTeardown, GoneOnceAndKilled, QuiescedStaysQuiet, ExitedIsReaped, SweptAwaitsExit,
   Owns, OwnerState, Actors
<1> QED
  BY <1>1, <1>2, <1>3 DEF OpsCounted, InvHyp

\* The inductive invariant holds throughout.
LEMMA Invariance == Spec => []InvHyp
<1>1. InvHyp /\ [Next]_vars => InvHyp'
  BY TypeStep, OpsStep, LifeStep DEF InvHyp, LifeInv
<1> QED
  BY <1>1, InvInit, PTL DEF Spec
-----------------------------------------------------------------------------
\* The type invariant, for every set of sessions, callers and writers.
THEOREM TypeCorrect == Spec => []TypeOK
BY Invariance, PTL DEF InvHyp

\* The termOps counter of a session is the number of writers inside its PTY.
THEOREM OpsAreCounted == Spec => []OpsCounted
BY Invariance, PTL DEF InvHyp

\* However Destroy calls, shell exits and DestroyAll interleave, one party owns
\* the teardown of a session.
THEOREM TeardownIsExclusive == Spec => []OneTeardown
<1>1. InvHyp => OneTeardown
  BY DEF InvHyp, LifeInv
<1> QED
  BY <1>1, Invariance, PTL

\* A session is reported gone at most once, and its shell was killed or had
\* exited by then.
THEOREM GoneAtMostOnce == Spec => []GoneOnceAndKilled
<1>1. InvHyp => GoneOnceAndKilled
  BY DEF InvHyp, LifeInv
<1> QED
  BY <1>1, Invariance, PTL

\* A drained PTY is never written again.
THEOREM DrainIsFinal == Spec => []QuiescedStaysQuiet
<1>1. InvHyp => QuiescedStaysQuiet
  BY DEF InvHyp, LifeInv
<1> QED
  BY <1>1, Invariance, PTL

\* When DestroyAll returns before its grace, the children it swept are reaped.
THEOREM ShutdownConfirmsDeaths == Spec => []ConfirmedDead
<1>1. InvHyp => ConfirmedDead
  BY DEF InvHyp, LifeInv, ConfirmedDead, SweptAwaitsExit, ExitedIsReaped
<1> QED
  BY <1>1, Invariance, PTL

\* The registry never outgrows MaxSessions.
THEOREM RegistryIsBounded == Spec => []RegistryBounded
<1>1. ASSUME TypeOK PROVE IsFiniteSet(registry) /\ Cardinality(registry) \in Nat
  BY <1>1, FS_Subset, FS_CardinalityType DEF TypeOK
<1>2. Init => RegistryBounded
  BY FS_EmptySet DEF Init, RegistryBounded
<1>3. ASSUME TypeOK, RegistryBounded, [Next]_vars PROVE RegistryBounded'
  <2>7. IsFiniteSet(registry) /\ Cardinality(registry) \in Nat
    BY <1>1, <1>3
  <2>1. \/ registry' = registry
        \/ \E s \in Sessions : RoomLeft /\ registry' = registry \cup {s}
        \/ \E x : registry' = registry \ {x}
        \/ registry' = {}
    BY <1>3 DEF Next, vars, mgrVars, Create, CreateCheck, CreateFails,
     CreateSpawn, CreateHookDestroy, CreateHookExited, CreateInsert,
     CreateKillOrphan, CreateAnnounce, CreateMoves, ProcessStep, BeginTermOp,
     EndTermOp, ExitAutoDestroy, ExitClose, Lookup, Teardown, Claim, KillOwned,
     Drained, DrainTimesOut, Delete, AwaitExit, Notify, DestroyAll,
     DestroyAllReturns
  <2>2. CASE registry' = registry
    BY <1>3, <2>2 DEF RegistryBounded
  <2>3. CASE \E s \in Sessions : RoomLeft /\ registry' = registry \cup {s}
    <3>1. PICK s \in Sessions : RoomLeft /\ registry' = registry \cup {s}
      BY <2>3
    <3>2. Cardinality(registry \cup {s}) =
             IF s \in registry THEN Cardinality(registry) ELSE Cardinality(registry) + 1
      BY <2>7, FS_AddElement
    <3> QED
      BY <1>3, <2>7, <3>1, <3>2
         DEF RegistryBounded, RoomLeft
  <2>4. CASE \E x : registry' = registry \ {x}
    <3>1. PICK x : registry' = registry \ {x}
      BY <2>4
    <3>2. Cardinality(registry \ {x}) =
             IF x \in registry THEN Cardinality(registry) - 1 ELSE Cardinality(registry)
      BY <2>7, FS_RemoveElement
    <3> QED
      BY <1>3, <2>7, <3>1, <3>2
         DEF RegistryBounded
  <2>5. CASE registry' = {}
    BY <2>5, FS_EmptySet DEF RegistryBounded
  <2> QED
    BY <2>1, <2>2, <2>3, <2>4, <2>5
<1> QED
  BY <1>2, <1>3, TypeCorrect, PTL DEF Spec
-----------------------------------------------------------------------------
(* The manager implements SessionLife.                                      *)

Phase == [s \in Sessions |-> PhaseOf(s)]

\* The four phases of a session, without CASE.
LEMMA PhaseCases ==
    ASSUME InvHyp, NEW s \in Sessions
    PROVE  /\ Phase[s] = PhaseOf(s)
           /\ PhaseOf(s) \in {"unborn", "live", "dying", "gone"}
           /\ PhaseOf(s) = "gone" <=> notified[s] > 0
           /\ PhaseOf(s) = "dying" <=> /\ notified[s] = 0
                                       /\ s \in destroyed \/ target[<<"shutdown", s>>] = s
           /\ PhaseOf(s) = "live" <=> /\ notified[s] = 0 /\ s \in registry
                                      /\ s \notin destroyed
                                      /\ target[<<"shutdown", s>>] # s
<1>1. notified[s] \in Nat
  BY DEF InvHyp, TypeOK
<1>2. notified[s] > 0 \/ notified[s] = 0
  BY <1>1
<1> QED
  BY <1>1, <1>2 DEF Phase, PhaseOf

\* Where nothing of a session's phase has changed, the abstract state has not.
LEMMA SamePhase ==
    ASSUME UNCHANGED <<notified, destroyed>>,
           \A s \in Sessions : target'[<<"shutdown", s>>] = target[<<"shutdown", s>>],
           \A s \in Sessions : \/ s \in registry' <=> s \in registry
                               \/ s \in destroyed \/ notified[s] > 0
                               \/ target[<<"shutdown", s>>] = s
    PROVE  UNCHANGED <<Phase, notified>>
<1>1. ASSUME NEW s \in Sessions PROVE PhaseOf(s)' = PhaseOf(s)
  BY DEF PhaseOf
<1> QED
  BY <1>1 DEF Phase

\* SessionLife counts as the manager does.
LEMMA SameCount == \A S : Life!Cardinality(S) = Cardinality(S)
BY DEF Life!Cardinality, Cardinality

\* Inserting a session that nobody has torn down opens it, where there is room.
LEMMA InsertOpens ==
    ASSUME InvHyp, InvHyp', NEW s \in Sessions, CreateInsert(s)
    PROVE  Life!Open(s) \/ UNCHANGED <<Phase, notified>>
<1>1. UNCHANGED <<destroyed, target, notified>>
  BY DEF CreateInsert, CreateMoves
<1>2. CASE PhaseOf(s) = "unborn" /\ s \notin registry /\ RoomLeft
  <2>1. registry' = registry \cup {s}
    BY <1>2 DEF CreateInsert
  <2>2. PhaseOf(s)' = "live"
    BY <1>1, <1>2, <2>1, PhaseCases DEF PhaseOf
  <2>3. ASSUME NEW t \in Sessions, t # s PROVE PhaseOf(t)' = PhaseOf(t)
    BY <1>1, <2>1, <2>3 DEF PhaseOf
  <2>4. Phase' = [Phase EXCEPT ![s] = "live"]
    BY <2>2, <2>3 DEF Phase
  <2>5. Life!Live(Phase) \in SUBSET registry
    BY PhaseCases DEF Life!Live
  <2>6. IsFiniteSet(registry)
    BY FS_Subset DEF InvHyp, TypeOK
  <2>7. /\ Cardinality(Life!Live(Phase)) \in Nat
        /\ Cardinality(registry) \in Nat
        /\ Cardinality(Life!Live(Phase)) <= Cardinality(registry)
    BY <2>5, <2>6, FS_Subset, FS_CardinalityType
  <2>8. Cardinality(Life!Live(Phase)) < MaxSessions
    BY <1>2, <2>7 DEF RoomLeft
  <2> QED
    BY <1>1, <1>2, <2>4, <2>8, PhaseCases, SameCount DEF Life!Open, Phase
<1>3. CASE PhaseOf(s) # "unborn" \/ s \in registry \/ ~RoomLeft
  BY <1>1, <1>3, PhaseCases, SamePhase DEF CreateInsert
<1> QED
  BY <1>2, <1>3

\* The test-and-set of destroy condemns a session, unless DestroyAll already has.
LEMMA ClaimCondemns ==
    ASSUME InvHyp, NEW a \in Actors, Claim(a)
    PROVE  (\E S \in SUBSET Sessions : Life!Condemn(S)) \/ UNCHANGED <<Phase, notified>>
<1>1. UNCHANGED <<registry, target, notified>> /\ target[a] \in Sessions
  BY DEF Claim, InvHyp, LifeInv, BusyHasTarget
<1>2. CASE target[a] \in destroyed
  BY <1>1, <1>2, SamePhase DEF Claim
<1>3. CASE target[a] \notin destroyed
  <2>. PICK s \in Sessions : s = target[a]
    BY <1>1
  <2>1. destroyed' = destroyed \cup {s} /\ notified[s] = 0
    BY <1>1, <1>3 DEF Claim, InvHyp, TypeOK, LifeInv, OwnerHasFlag
  <2>2. PhaseOf(s)' = "dying"
    BY <1>1, <2>1 DEF PhaseOf
  <2>3. ASSUME NEW t \in Sessions, t # s PROVE PhaseOf(t)' = PhaseOf(t)
    BY <1>1, <2>1, <2>3 DEF PhaseOf
  <2>4. CASE PhaseOf(s) = "dying"
    BY <1>1, <2>2, <2>3, <2>4 DEF Phase
  <2>5. CASE PhaseOf(s) # "dying"
    <3>1. PhaseOf(s) \in {"unborn", "live"}
      BY <1>1, <2>1, <2>5 DEF PhaseOf
    <3>2. Phase' = [t \in Sessions |-> IF t \in {s} THEN "dying" ELSE Phase[t]]
      BY <2>2, <2>3 DEF Phase
    <3>3. Life!Condemn({s})
      BY <1>1, <3>1, <3>2, PhaseCases DEF Life!Condemn, Phase
    <3> QED
      BY <1>1, <3>3
  <2> QED
    BY <2>4, <2>5
<1> QED
  BY <1>2, <1>3

\* DestroyAll condemns whatever was live.
LEMMA SweepCondemns ==
    ASSUME InvHyp, InvHyp', DestroyAll
    PROVE  \E S \in SUBSET Sessions : Life!Condemn(S)
<1>. DEFINE S == {s \in Sessions : PhaseOf(s) = "live"}
<1>1. UNCHANGED <<destroyed, notified>> /\ registry' = {} /\ shutdown = "running"
  BY DEF DestroyAll
<1>2. ASSUME NEW s \in Sessions
      PROVE  /\ target[<<"shutdown", s>>] = NoSession
             /\ target'[<<"shutdown", s>>] = IF s \in registry THEN s ELSE NoSession
  <2>1. <<"shutdown", s>> \in Actors
    BY DEF Actors
  <2>2. target[<<"shutdown", s>>] = NoSession
    BY <1>1 DEF InvHyp, LifeInv, SweptAwaitsExit
  <2> QED
    BY <2>1, <2>2 DEF DestroyAll, ForShutdown
<1>3. ASSUME NEW s \in S PROVE PhaseOf(s)' = "dying"
  BY <1>1, <1>2, <1>3, PhaseCases DEF PhaseOf
<1>4. ASSUME NEW s \in Sessions \ S PROVE PhaseOf(s)' = PhaseOf(s)
  <2>1. CASE s \in registry
    BY <1>1, <1>2, <2>1, PhaseCases DEF PhaseOf
  <2>2. CASE s \notin registry
    BY <1>1, <1>2, <2>2 DEF PhaseOf
  <2> QED
    BY <2>1, <2>2
<1>5. Phase' = [t \in Sessions |-> IF t \in S THEN "dying" ELSE Phase[t]]
  BY <1>3, <1>4 DEF Phase
<1>6. Life!Condemn(S)
  BY <1>1, <1>5, PhaseCases DEF Life!Condemn, Phase
<1> QED
  BY <1>6

\* The callbacks of onDestroy bury the session.
LEMMA NotifyBuries ==
    ASSUME InvHyp, NEW a \in Actors, Notify(a)
    PROVE  \E s \in Sessions : Life!Bury(s)
<1>. PICK s \in Sessions : s = target[a]
  BY DEF Notify, InvHyp, LifeInv, BusyHasTarget
<1>1. Owns(a, s)
  BY DEF Notify, Owns, OwnerState
<1>2. notified[s] = 0 /\ s \in destroyed
  BY <1>1 DEF InvHyp, LifeInv, OneTeardown, OwnerHasFlag
<1>3. /\ UNCHANGED <<registry, target, destroyed>>
      /\ notified' = [notified EXCEPT ![s] = @ + 1] /\ notified'[s] = 1
  BY <1>1, <1>2 DEF Notify, InvHyp, TypeOK
<1>4. PhaseOf(s) = "dying" /\ PhaseOf(s)' = "gone"
  BY <1>1, <1>2, <1>3 DEF PhaseOf
<1>5. ASSUME NEW t \in Sessions, t # s PROVE PhaseOf(t)' = PhaseOf(t)
  <2>1. notified'[t] = notified[t]
    BY <1>3, <1>5 DEF InvHyp, TypeOK
  <2> QED
    BY <1>3, <2>1 DEF PhaseOf
<1>6. Phase' = [Phase EXCEPT ![s] = "gone"] /\ Phase[s] = "dying"
  BY <1>1, <1>4, <1>5 DEF Phase
<1>7. Life!Bury(s)
  BY <1>3, <1>6 DEF Life!Bury, Phase
<1> QED
  BY <1>1, <1>7

\* Every step of the manager is a step of SessionLife or leaves it alone.
LEMMA StepSimulation ==
    ASSUME InvHyp, InvHyp', [Next]_vars
    PROVE  Life!Next \/ UNCHANGED <<Phase, notified>>
<1>1. ASSUME NEW s \in Sessions, CreateInsert(s)
      PROVE  Life!Next \/ UNCHANGED <<Phase, notified>>
  BY <1>1, InsertOpens DEF Life!Next
<1>2. ASSUME NEW a \in Actors, Claim(a)
      PROVE  Life!Next \/ UNCHANGED <<Phase, notified>>
  BY <1>2, ClaimCondemns DEF Life!Next
<1>3. CASE DestroyAll
  BY <1>3, SweepCondemns DEF Life!Next
<1>4. ASSUME NEW a \in Actors, Notify(a)
      PROVE  Life!Next \/ UNCHANGED <<Phase, notified>>
  BY <1>4, NotifyBuries DEF Life!Next
<1>5. ASSUME NEW a \in Actors, Delete(a) PROVE UNCHANGED <<Phase, notified>>
  <2>1. target[a] \in destroyed
    BY <1>5 DEF Delete, InvHyp, LifeInv, BusyHasTarget, OwnerHasFlag, Owns, OwnerState
  <2> QED
    BY <1>5, <2>1, SamePhase DEF Delete
<1>6. ASSUME NEW a \in Actors, NEW s \in Sessions, Lookup(a, s)
      PROVE  UNCHANGED <<Phase, notified>>
  <2>1. \A t \in Sessions : target'[<<"shutdown", t>>] = target[<<"shutdown", t>>]
    BY <1>6 DEF Lookup, InvHyp, TypeOK
  <2> QED
    BY <1>6, <2>1, SamePhase DEF Lookup
<1>7. ASSUME NEW s \in Sessions, ExitAutoDestroy(s) PROVE UNCHANGED <<Phase, notified>>
  <2>1. \A t \in Sessions : target'[<<"shutdown", t>>] = target[<<"shutdown", t>>]
    BY <1>7 DEF ExitAutoDestroy, InvHyp, TypeOK
  <2> QED
    BY <1>7, <2>1, SamePhase DEF ExitAutoDestroy
<1>8. CASE UNCHANGED <<registry, destroyed, target, notified>>
  BY <1>8, SamePhase
<1> QED
  BY <1>1, <1>2, <1>3, <1>4, <1>5, <1>6, <1>7, <1>8 DEF Next, vars, mgrVars, Create,
     CreateCheck, CreateFails, CreateSpawn, CreateHookDestroy, CreateHookExited,
     CreateKillOrphan, CreateAnnounce, CreateMoves, ProcessStep, ExitClose, BeginTermOp,
     EndTermOp, Teardown, KillOwned, Drained, DrainTimesOut, AwaitExit, DestroyAllReturns

\* The manager keeps what SessionLife promises to the rest of the server: a session
\* is opened where there is room, is condemned, and is reported gone once, in this
\* order, whatever the API, the exit of its shell and the shutdown do.
THEOREM ManagerImplementsLife == Spec => ImplementsSessionLife
<1>1. Init => Life!Init
  <2> SUFFICES ASSUME Init PROVE Life!Init
    OBVIOUS
  <2>1. ASSUME NEW s \in Sessions PROVE PhaseOf(s) = "unborn"
    <3>1. <<"shutdown", s>> \in Actors
      BY DEF Actors
    <3> QED
      BY <3>1, ManagerAssumption DEF Init, PhaseOf
  <2> QED
    BY <2>1 DEF Life!Init, Init
<1>2. InvHyp /\ InvHyp' /\ [Next]_vars => [Life!Next]_<<Phase, notified>>
  BY StepSimulation
<1> QED
  BY <1>1, <1>2, Invariance, PTL DEF Spec, ImplementsSessionLife, Life!Spec, Phase
=============================================================================
