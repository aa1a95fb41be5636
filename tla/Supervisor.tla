------------------------------ MODULE Supervisor ------------------------------
(***************************************************************************)
(* The self-update supervisor (internal/selfupdate/selfupdate.go), the     *)
(* server child that stages updates (internal/release/check.go, Apply) and *)
(* the five files they share.  Every rename, removal and write is a step,  *)
(* and the machine may go down between any two.                            *)
(*                                                                         *)
(* A build is its version number.                                          *)
(***************************************************************************)
EXTENDS Naturals, FiniteSets

CONSTANTS Versions,     \* builds, by version number
          First,        \* the build installed at the beginning
          Unstartable,  \* builds whose process does not start
          Faulty,       \* builds that start, pass the pre-flight and then crash
          Appliers,     \* update requests the server serves at the same time
          CrashLimit,   \* SHELLS_CRASH_LIMIT
          None          \* no file, or no child

ASSUME SupervisorAssumption ==
    /\ Versions \subseteq Nat
    /\ First \in Versions \ (Unstartable \cup Faulty)
    /\ CrashLimit \in Nat \ {0}
    /\ None \notin Versions

VARIABLES bin, new, digest, previous, broken,  \* binary, .new, .new.sha256, ...
          pc,          \* where the supervisor is
          child,       \* the build the server child runs
          told,        \* the child was given SHELLS_UPDATE_REFUSED
          crashes, startFails, refused,
          stop,        \* a TERM or INT waits in sigCh
          apply,       \* progress of each update request in the child
          picked,      \* the release each of them downloads
          ran          \* builds that have been started

files == <<bin, new, digest, previous, broken>>
counters == <<crashes, startFails, refused>>
requests == <<apply, picked>>
vars == <<files, pc, child, told, counters, stop, requests, ran>>

Content == Versions \cup {None}
PcState == {"start", "wait", "verify", "preflight", "swap", "swapOut", "swapIn",
            "swapped", "rollback", "rollbackOut", "rollbackIn", "down", "stopped"}

TypeOK ==
    /\ {bin, new, digest, previous, broken} \subseteq Content
    /\ pc \in PcState
    /\ child \in Content /\ told \in BOOLEAN
    /\ crashes \in 0..CrashLimit /\ startFails \in 0..CrashLimit
    /\ refused \in BOOLEAN /\ stop \in BOOLEAN
    /\ apply \in [Appliers -> {"idle", "download", "renamed", "staged"}]
    /\ picked \in [Appliers -> Content]
    /\ ran \subseteq Versions

Init ==
    /\ bin = First /\ new = None /\ digest = None /\ previous = None
    /\ broken = None
    /\ pc = "start" /\ child = None /\ told = FALSE
    /\ crashes = 0 /\ startFails = 0 /\ refused = FALSE /\ stop = FALSE
    /\ apply = [a \in Appliers |-> "idle"]
    /\ picked = [a \in Appliers |-> None]
    /\ ran = {First}

Goto(l) == pc' = l

\* A counter that is only compared with CrashLimit.
Counted(n) == IF n < CrashLimit THEN n + 1 ELSE n

RequestsEnd == /\ apply' = [a \in Appliers |-> "idle"]
               /\ picked' = [a \in Appliers |-> None]
-----------------------------------------------------------------------------
(* Start and wait.                                                          *)

Startable == bin # None /\ bin \notin Unstartable

StartChild ==
    /\ pc = "start" /\ Startable
    /\ child' = bin /\ told' = refused /\ refused' = FALSE /\ startFails' = 0
    /\ ran' = ran \cup {bin}
    /\ Goto("wait")
    /\ UNCHANGED <<files, crashes, stop, requests>>

\* No such file, a build that does not start, or the system is short of
\* processes or memory.
StartFails ==
    /\ pc = "start"
    /\ refused' = FALSE
    /\ IF startFails + 1 >= CrashLimit /\ previous # None
       THEN Goto("rollback") /\ startFails' = 0
       ELSE Goto("start") /\ startFails' = Counted(startFails)
    /\ UNCHANGED <<files, child, told, crashes, stop, requests, ran>>

Signal ==
    /\ ~stop /\ pc # "stopped" /\ pc # "down" /\ stop' = TRUE
    /\ UNCHANGED <<files, pc, child, told, counters, requests, ran>>

ChildEnds ==
    /\ pc = "wait"
    /\ child' = None /\ told' = FALSE /\ RequestsEnd
    /\ UNCHANGED <<files, startFails, refused, stop, ran>>

StopRequested ==
    /\ stop /\ ChildEnds
    /\ Goto("stopped") /\ UNCHANGED crashes

\* PortBusyCode: another instance owns the port.
ExitPortBusy == ChildEnds /\ Goto("stopped") /\ UNCHANGED crashes

ExitClean ==
    /\ child \notin Faulty
    /\ ChildEnds /\ Goto("start") /\ crashes' = 0

\* handleUpdate exits with restartCode once an Apply has succeeded.
ExitRestart ==
    /\ \E a \in Appliers : apply[a] = "staged"
    /\ ChildEnds /\ Goto("verify") /\ UNCHANGED crashes

\* Slip: the counter is not looked at.
ExitCrashForgiven == ChildEnds /\ Goto("start") /\ UNCHANGED crashes

\* Any other exit code.
ExitCrash ==
    /\ ChildEnds
    /\ IF crashes + 1 >= CrashLimit /\ previous # None
       THEN Goto("rollback") /\ crashes' = 0
       ELSE Goto("start") /\ crashes' = Counted(crashes)

\* A child killed by a signal has ExitCode() = -1, the value of a stop request.
ExitKilled == ChildEnds /\ Goto("stopped") /\ UNCHANGED crashes
-----------------------------------------------------------------------------
(* A staged update: verify, pre-flight, and swap or refuse.  No error of a  *)
(* rename or a removal changes the course of swap or rollback.              *)

RemoveStaged == new' = None /\ digest' = None

Refuse ==
    /\ RemoveStaged /\ refused' = TRUE /\ Goto("start")
    /\ UNCHANGED <<bin, previous, broken, child, told, crashes, startFails, stop,
                   requests, ran>>

Proceed(l) ==
    /\ Goto(l)
    /\ UNCHANGED <<files, child, told, counters, stop, requests, ran>>

\* Slip: the digest is not compared.
VerifyNothing == pc = "verify" /\ Proceed("preflight")

VerifyStaged ==
    /\ pc = "verify"
    /\ IF new # None /\ new = digest THEN Proceed("preflight") ELSE Refuse

\* Health within ten seconds, or not: a slow machine fails a good build.
Preflight ==
    /\ pc = "preflight"
    /\ \/ new \notin Unstartable /\ Proceed("swap")
       \/ Refuse

FileStep(from, to) ==
    /\ pc = from /\ Goto(to)
    /\ UNCHANGED <<child, told, startFails, refused, stop, requests, ran>>

SwapClear ==
    /\ FileStep("swap", "swapOut")
    /\ previous' \in {None, previous}
    /\ UNCHANGED <<bin, new, digest, broken, crashes>>

\* Slip: the running build is not kept.
SwapOutDropped ==
    /\ FileStep("swapOut", "swapIn")
    /\ bin' = None
    /\ UNCHANGED <<new, digest, broken, previous, crashes>>

SwapOut ==
    /\ FileStep("swapOut", "swapIn")
    /\ previous' = bin /\ bin' = None
    /\ UNCHANGED <<new, digest, broken, crashes>>

\* The running build cannot be moved away; the error is not looked at, and the
\* second rename is attempted all the same.
SwapOutFails ==
    /\ FileStep("swapOut", "swapIn")
    /\ UNCHANGED <<files, crashes>>

\* The second rename replaces whatever has the binary's name; that it failed is
\* logged, and nothing else.
SwapIn ==
    /\ FileStep("swapIn", "swapped")
    /\ \/ bin' = new /\ new' = None
       \/ UNCHANGED <<bin, new>>
    /\ UNCHANGED <<digest, previous, broken, crashes>>

SwapDone ==
    /\ FileStep("swapped", "start")
    /\ digest' = None /\ crashes' = 0
    /\ UNCHANGED <<bin, new, previous, broken>>
-----------------------------------------------------------------------------
(* Roll back.                                                               *)

RollbackClear ==
    /\ FileStep("rollback", "rollbackOut")
    /\ broken' \in {None, broken}
    /\ UNCHANGED <<bin, new, digest, previous, crashes>>

RollbackOut ==
    /\ FileStep("rollbackOut", "rollbackIn")
    /\ \/ bin # None /\ broken' = bin /\ bin' = None
       \/ UNCHANGED <<bin, broken>>
    /\ UNCHANGED <<new, digest, previous, crashes>>

RollbackIn ==
    /\ FileStep("rollbackIn", "start")
    /\ bin' = previous /\ previous' = None
    /\ UNCHANGED <<new, digest, broken, crashes>>

\* The rename fails: the binary's directory is gone or read-only.
RollbackFails ==
    /\ FileStep("rollbackIn", "start")
    /\ UNCHANGED <<files, crashes>>
-----------------------------------------------------------------------------
(* Update requests in the server child: Apply.                              *)

Request(a, from, to) ==
    /\ pc = "wait" /\ apply[a] = from /\ apply' = [apply EXCEPT ![a] = to]
    /\ UNCHANGED <<bin, previous, broken, pc, child, told, counters, stop, ran>>

\* The manifest names a release newer than the running one.
ApplyStarts(a) ==
    /\ Request(a, "idle", "download")
    /\ \E v \in Versions : v > child /\ picked' = [picked EXCEPT ![a] = v]
    /\ UNCHANGED <<new, digest>>

ApplyRenames(a) ==
    /\ Request(a, "download", "renamed")
    /\ new' = picked[a]
    /\ UNCHANGED <<digest, picked>>

\* A failure to write the digest is ignored.
ApplyWritesDigest(a) ==
    /\ Request(a, "renamed", "staged")
    /\ digest' \in {picked[a], digest}
    /\ UNCHANGED <<new, picked>>

\* The download breaks off, is too large, or is not what was signed.
ApplyFails(a) ==
    /\ Request(a, "download", "idle")
    /\ picked' = [picked EXCEPT ![a] = None]
    /\ UNCHANGED <<new, digest>>
-----------------------------------------------------------------------------
(* The machine goes down and comes back: the service manager runs whatever  *)
(* is installed under the binary's name.                                    *)

Crash ==
    /\ pc \notin {"down", "stopped"}
    /\ Goto("down")
    /\ child' = None /\ told' = FALSE /\ crashes' = 0 /\ startFails' = 0
    /\ refused' = FALSE /\ stop' = FALSE /\ RequestsEnd
    /\ UNCHANGED <<files, ran>>

Boot ==
    /\ pc = "down" /\ Startable
    /\ Goto("start")
    /\ UNCHANGED <<files, child, told, counters, stop, requests, ran>>
-----------------------------------------------------------------------------
Update == \/ VerifyStaged \/ Preflight
          \/ SwapClear \/ SwapOut \/ SwapOutFails \/ SwapIn \/ SwapDone

Rollback == RollbackClear \/ RollbackOut \/ RollbackIn

Exit == \/ StopRequested \/ ExitPortBusy \/ ExitClean \/ ExitRestart
        \/ ExitCrash \/ ExitKilled

Next ==
    \/ StartChild \/ StartFails \/ Signal \/ Exit \/ Update
    \/ Rollback \/ RollbackFails
    \/ \E a \in Appliers : \/ ApplyStarts(a) \/ ApplyRenames(a)
                          \/ ApplyWritesDigest(a) \/ ApplyFails(a)
    \/ Crash \/ Boot

Spec == Init /\ [][Next]_vars

\* The supervisor runs, a build that can be started is started in the end, a
\* requested stop is seen while the supervisor waits, the renames of a swap and
\* of a rollback do not fail for ever, and a faulty build goes on crashing.
Fairness ==
    /\ WF_vars(StartChild \/ StartFails) /\ SF_vars(StartChild)
    /\ WF_vars(Update) /\ SF_vars(SwapOut)
    /\ WF_vars(Rollback \/ RollbackFails) /\ SF_vars(RollbackIn)
    /\ SF_vars(StopRequested)
    /\ SF_vars(child \in Faulty /\ ExitCrash)

FairSpec == Spec /\ Fairness
-----------------------------------------------------------------------------
(* Properties                                                               *)

RunBuilds == {bin, previous, broken} \cap ran

\* The new build is renamed over an installed one that could not be moved away.
InstallsOverUnmoved == bin # None /\ bin' = new /\ new' = None

\* "rolling back to <binary>.previous after repeated crashes": whatever goes down
\* in an update or a rollback, a build that has run is still on the disk.  The one
\* step that can lose the last of them installs a new build over it.
ARunBuildSurvives ==
    [][RunBuilds # {} => RunBuilds' # {} \/ InstallsOverUnmoved]_vars

\* What is installed is the very file whose digest was checked, although two
\* requests may stage different releases and the child exits between their
\* steps ("the parent never executes or installs anything it did not verify").
InstalledWasVerified ==
    [][bin' # bin /\ bin' # None => bin' = digest \/ bin' = previous]_vars

\* While the supervisor runs, a missing binary can be put back.
MissingIsRecoverable ==
    pc # "down" /\ bin = None => previous # None

\* A faulty release does not stay installed while there is a build to go back
\* to: its crashes are counted across restarts and refused updates.  (Unless the
\* supervisor is stopped or dies, or a swap that cannot move the binary has
\* already removed the build to go back to.)
FaultyIsReplaced ==
    \A b \in Faulty :
        (bin = b /\ previous # None /\ pc = "start")
          ~> (bin # b \/ previous = None \/ pc \in {"stopped", "down"})

\* "rolling back to <binary>.previous": after a swap that failed half-way, the
\* failed starts lead to a rollback.
MissingIsRolledBack ==
    (bin = None /\ pc = "start") ~> pc \in {"rollbackIn", "stopped", "down"}

\* Both: a release that does not run, or did not arrive, gives way to .previous.
BadReleaseGivesWay == FaultyIsReplaced /\ MissingIsRolledBack
=============================================================================
