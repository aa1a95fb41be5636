--------------------------- MODULE Supervisor_proofs ---------------------------
(***************************************************************************)
(* Proofs about module Supervisor, for any set of versions and requests    *)
(* and any crash limit.                                                    *)
(***************************************************************************)
EXTENDS Supervisor, TLAPS

USE SupervisorAssumption

\* What the files hold at every step: .previous is a build that has run, a missing
\* binary can be put back, and what is staged stays the file that was verified.
FilesTyped ==
    /\ bin \in Content /\ new \in Content /\ digest \in Content
    /\ previous \in Content
    /\ picked \in [Appliers -> Content]
    /\ ran \subseteq Versions

RanKept ==
    /\ previous # None => previous \in ran
    /\ bin = None => previous \in ran

InstalledRuns ==
    pc \in {"wait", "verify", "preflight", "swap", "swapOut"} => bin \in ran

WayBack ==
    pc \in {"rollback", "rollbackOut", "rollbackIn"} => previous \in ran

StagedIsVerified ==
    pc \in {"preflight", "swap", "swapOut", "swapIn"}
        => new # None /\ new = digest

FilesInv ==
    FilesTyped /\ RanKept /\ InstalledRuns /\ WayBack /\ StagedIsVerified

\* The initial state has the first build installed and running.
LEMMA FilesInit == Init => FilesInv
BY DEF Init, FilesInv, FilesTyped, RanKept, InstalledRuns, WayBack,
       StagedIsVerified, Content

\* However the child ended, the supervisor stops, starts the next child,
\* verifies what was staged, or rolls back to a build that exists.
ExitLeadsTo == \/ pc' = "stopped" \/ pc' = "start" \/ pc' = "verify"
               \/ pc' = "rollback" /\ previous # None

\* A step that ends the child touches no file and leads where ExitLeadsTo says.
LEMMA ExitStep ==
    ASSUME Exit
    PROVE  pc = "wait" /\ UNCHANGED <<files, ran>> /\ RequestsEnd /\ ExitLeadsTo
<1>1. ChildEnds
  BY DEF Exit, StopRequested, ExitPortBusy, ExitClean, ExitRestart, ExitCrash,
         ExitKilled
<1>2. ExitLeadsTo
  BY DEF Exit, StopRequested, ExitPortBusy, ExitClean, ExitRestart, ExitCrash,
         ExitKilled, Goto, ExitLeadsTo
<1> QED
  BY <1>1, <1>2 DEF ChildEnds

\* Every step, the machine going down included, keeps the files in order.
LEMMA FilesStep == FilesInv /\ [Next]_vars => FilesInv'
<1> SUFFICES ASSUME FilesInv, [Next]_vars PROVE FilesInv'
  OBVIOUS
<1> USE DEF FilesInv, FilesTyped, RanKept, InstalledRuns, WayBack,
            StagedIsVerified, Content, Goto, files, counters, requests,
            RequestsEnd
<1>1. CASE StartChild
  BY <1>1 DEF StartChild, Startable
<1>2. CASE StartFails
  BY <1>2 DEF StartFails
<1>3. CASE Signal
  BY <1>3 DEF Signal
<1>4. CASE Exit
  <2>1. pc = "wait" /\ UNCHANGED <<files, ran>> /\ RequestsEnd
        /\ ExitLeadsTo
    BY <1>4, ExitStep
  <2>3. FilesTyped'
    BY <2>1
  <2>4. RanKept' /\ InstalledRuns' /\ WayBack' /\ StagedIsVerified'
    BY <2>1 DEF ExitLeadsTo
  <2> QED
    BY <2>3, <2>4
<1>5. CASE VerifyStaged
  <2>1. CASE Proceed("preflight") /\ new # None /\ new = digest
    BY <1>5, <2>1 DEF VerifyStaged, Proceed
  <2>2. CASE Refuse
    BY <1>5, <2>2 DEF VerifyStaged, Refuse, RemoveStaged
  <2> QED
    BY <1>5, <2>1, <2>2 DEF VerifyStaged
<1>6. CASE Preflight
  BY <1>6 DEF Preflight, Proceed, Refuse, RemoveStaged
<1>7. CASE SwapClear
  BY <1>7 DEF SwapClear, FileStep
<1>8. CASE SwapOut \/ SwapOutFails
  BY <1>8 DEF SwapOut, SwapOutFails, FileStep
<1>9. CASE SwapIn
  BY <1>9 DEF SwapIn, FileStep
<1>10. CASE SwapDone
  BY <1>10 DEF SwapDone, FileStep
<1>11. CASE Rollback \/ RollbackFails
  BY <1>11 DEF Rollback, RollbackClear, RollbackOut, RollbackIn, RollbackFails,
               FileStep
<1>12. ASSUME NEW a \in Appliers,
              ApplyStarts(a) \/ ApplyRenames(a) \/ ApplyWritesDigest(a)
                \/ ApplyFails(a)
       PROVE  FilesInv'
  BY <1>12 DEF ApplyStarts, ApplyRenames, ApplyWritesDigest, ApplyFails, Request
<1>13. CASE Crash
  BY <1>13 DEF Crash
<1>14. CASE Boot
  BY <1>14 DEF Boot
<1>15. CASE UNCHANGED vars
  BY <1>15 DEF vars
<1> QED
  BY <1>1, <1>2, <1>3, <1>4, <1>5, <1>6, <1>7, <1>8, <1>9, <1>10, <1>11, <1>12,
     <1>13, <1>14, <1>15 DEF Next, Update

\* FilesInv is an invariant.
LEMMA FilesAlways == Spec => []FilesInv
BY FilesInit, FilesStep, PTL DEF Spec

\* A build that has run stays on the disk through every update and rollback,
\* wherever it breaks off, unless the new build is renamed over an installed one
\* that could not be moved away (swap, rollback).
THEOREM RunBuildSurvives == Spec => ARunBuildSurvives
<1>1. FilesInv /\ [Next]_vars
        => [RunBuilds # {} => RunBuilds' # {} \/ InstallsOverUnmoved]_vars
  <2> SUFFICES ASSUME FilesInv, Next, RunBuilds # {}
               PROVE  RunBuilds' # {} \/ InstallsOverUnmoved
    OBVIOUS
  <2> USE DEF FilesInv, RanKept, InstalledRuns, WayBack, FileStep, RunBuilds
  <2>1. CASE SwapClear
    BY <2>1 DEF SwapClear
  <2>2. CASE SwapOut
    BY <2>2 DEF SwapOut
  <2>3. CASE SwapIn
    BY <2>3 DEF SwapIn, InstallsOverUnmoved
  <2>4. CASE RollbackClear \/ RollbackOut \/ RollbackIn
    BY <2>4 DEF RollbackClear, RollbackOut, RollbackIn
  <2>5. CASE UNCHANGED <<bin, previous, broken>> /\ ran \subseteq ran'
    BY <2>5
  <2> QED
    BY <2>1, <2>2, <2>3, <2>4, <2>5, ExitStep
       DEF Next, StartChild, StartFails, Signal, Update, VerifyStaged, Preflight,
           Proceed, Refuse, SwapOutFails, SwapDone, Rollback, RollbackFails,
           ApplyStarts, ApplyRenames, ApplyWritesDigest, ApplyFails, Request,
           Crash, Boot, files
<1> QED
  BY <1>1, FilesAlways, PTL DEF Spec, ARunBuildSurvives

\* Whenever the supervisor runs without a binary, .previous is there for
\* rollback to put back.
THEOREM MissingBinaryIsRecoverable == Spec => []MissingIsRecoverable
<1>1. FilesInv => MissingIsRecoverable
  BY DEF FilesInv, RanKept, FilesTyped, MissingIsRecoverable
<1> QED
  BY <1>1, FilesAlways, PTL

\* swap installs only the file whose digest verifyStaged checked, and rollback
\* only .previous.
THEOREM OnlyVerifiedInstalled == Spec => InstalledWasVerified
<1>1. FilesInv /\ [Next]_vars
        => [bin' # bin /\ bin' # None => bin' = digest \/ bin' = previous]_vars
  <2> SUFFICES ASSUME FilesInv, Next, bin' # bin, bin' # None
               PROVE  bin' = digest \/ bin' = previous
    OBVIOUS
  <2>1. CASE SwapIn
    BY <2>1 DEF SwapIn, FileStep, FilesInv, StagedIsVerified
  <2>2. CASE RollbackIn
    BY <2>2 DEF RollbackIn
  <2>3. ASSUME ~SwapIn, ~RollbackIn PROVE bin' = bin \/ bin' = None
    BY <2>3 DEF Next, StartChild, StartFails, Signal, Exit, StopRequested,
                ExitPortBusy, ExitClean, ExitRestart, ExitCrash, ExitKilled,
                ChildEnds, Update, VerifyStaged, Preflight, Proceed, Refuse,
                SwapClear, SwapOut, SwapOutFails, SwapDone, Rollback, RollbackClear,
                RollbackOut, RollbackFails, ApplyStarts, ApplyRenames,
                ApplyWritesDigest, ApplyFails, Request, Crash, Boot, files
  <2> QED
    BY <2>1, <2>2, <2>3
<1> QED
  BY <1>1, FilesAlways, PTL DEF Spec, InstalledWasVerified
=============================================================================
