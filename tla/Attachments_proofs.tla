------------------------- MODULE Attachments_proofs -------------------------
(***************************************************************************)
(* Proofs about Attachments, for any finite set of connections, any        *)
(* sessions, sizes, resizers and limits: the count of a session's clients  *)
(* is exact, and nobody who was attached misses the end of a session.      *)
(***************************************************************************)
EXTENDS Attachments, FiniteSetTheorems, TLAPS

Jobs == [sid : Sessions \cup {None}, size : Nat, sequel : {"idle", "look", "announce"}]

\* The part of the state the proofs look at has its shape.
Shape ==
    /\ pc \in [Conns -> Steps] /\ stage \in [Conns -> Stages]
    /\ job \in [Conns -> Jobs]
    /\ attached \in [Conns -> SUBSET Sessions]
    /\ listed \in [Sessions -> BOOLEAN]
    /\ clients \in [Sessions -> Nat] /\ size \in [Sessions -> Nat]

\* The steps of a handler that is busy with a session.
Working == {"attach", "join", "role", "resize", "setSize", "look", "tell", "detach",
            "resize?", "claim", "announce", "cast", "yield?", "yield"}

\* A handler that goes on knows its session, and one about to join is not
\* attached to it.
HandlersKnow ==
    \A c \in Conns :
       /\ pc[c] \in Working => job[c].sid \in Sessions
       /\ pc[c] = "join" => job[c].sid \notin attached[c]

CountInv == Shape /\ HandlersKnow /\ ClientsCounted

\* A read loop that cleans up belongs to a connection that was closed.
CleanersClosed ==
    \A c \in Conns :
       pc[c] \in {"cleanup", "leave", "yield?", "yield", "unregister"} => stage[c] = "closed"

\* A session is announced gone after it was deleted, to every heir in turn.
HeirsServed ==
    /\ heirs \in [Sessions -> SUBSET Conns] /\ heard \in [Conns -> SUBSET Sessions]
    /\ notice \in [Sessions -> [begun : BOOLEAN, todo : SUBSET Conns,
                                hit : Conns \cup {None}]]
    /\ \A s \in Sessions :
          /\ notice[s].begun => ~listed[s]
          /\ \A c \in heirs[s] :
                /\ stage[c] = "ready" /\ s \in attached[c]
                /\ notice[s].begun => \/ c \in notice[s].todo \/ c = notice[s].hit
                                      \/ s \in heard[c]

HeirInv == CleanersClosed /\ HeirsServed
-----------------------------------------------------------------------------
\* The initial states satisfy both invariants.
LEMMA InitInv == Init => CountInv /\ HeirInv
<1> SUFFICES ASSUME Init PROVE CountInv /\ HeirInv
  OBVIOUS
<1> USE AttachmentsAssumption DEF Init, NoJob
<1>1. Shape
  <2>1. DefaultSize \in Nat
    OBVIOUS
  <2>2. pc \in [Conns -> Steps] /\ stage \in [Conns -> Stages]
    BY DEF Steps, Stages
  <2>3. job \in [Conns -> Jobs]
    BY DEF Jobs
  <2>4. /\ attached \in [Conns -> SUBSET Sessions] /\ listed \in [Sessions -> BOOLEAN]
        /\ clients \in [Sessions -> Nat] /\ size \in [Sessions -> Nat]
    BY <2>1
  <2> QED
    BY <2>2, <2>3, <2>4 DEF Shape
<1>2. HandlersKnow /\ CleanersClosed
  BY DEF HandlersKnow, CleanersClosed, Working
<1>3. ClientsCounted
  <2> SUFFICES ASSUME NEW s \in Sessions
               PROVE  clients[s] = Cardinality(Attached(s)) + Cardinality(Leaving(s))
    BY DEF ClientsCounted
  <2>1. Attached(s) = {} /\ Leaving(s) = {}
    BY DEF Attached, Leaving
  <2>2. Cardinality({}) = 0
    BY FS_EmptySet
  <2> QED
    BY <2>1, <2>2
<1>4. HeirsServed
  <2>1. notice \in [Sessions -> [begun : BOOLEAN, todo : SUBSET Conns,
                                 hit : Conns \cup {None}]]
    OBVIOUS
  <2>2. heirs \in [Sessions -> SUBSET Conns] /\ heard \in [Conns -> SUBSET Sessions]
    OBVIOUS
  <2> QED
    BY <2>1, <2>2 DEF HeirsServed
<1> QED
  BY <1>1, <1>2, <1>3, <1>4 DEF CountInv, HeirInv

\* Steps that leave the map, the counts and the messages' progress to "detach"
\* alone keep the count.
LEMMA CountKept ==
    ASSUME CountInv, Shape', attached' = attached, clients' = clients,
           \A s \in Sessions : listed'[s] => listed[s],
           \A c \in Conns : \/ pc'[c] # "detach" /\ pc[c] # "detach"
                            \/ pc'[c] = pc[c] /\ job'[c].sid = job[c].sid
    PROVE  ClientsCounted'
<1>1. ASSUME NEW s \in Sessions PROVE Attached(s)' = Attached(s) /\ Leaving(s)' = Leaving(s)
  BY <1>1 DEF Attached, Leaving
<1> QED
  BY <1>1 DEF ClientsCounted, CountInv

-----------------------------------------------------------------------------
(* The shape of the state and of the handlers, step by step.                *)

\* One read loop moves and no other; what it leaves alone keeps its type.
LEMMA OneMoves ==
    ASSUME Shape, HandlersKnow,
           NEW c \in Conns, NEW to \in Steps, NEW j \in Jobs,
           pc' = [pc EXCEPT ![c] = to], job' = [job EXCEPT ![c] = j],
           to \in Working => j.sid \in Sessions,
           to = "join" => j.sid \notin attached'[c],
           \A d \in Conns \ {c} : attached'[d] = attached[d],
           stage' \in [Conns -> Stages], attached' \in [Conns -> SUBSET Sessions],
           listed' \in [Sessions -> BOOLEAN],
           clients' \in [Sessions -> Nat], size' \in [Sessions -> Nat]
    PROVE  Shape' /\ HandlersKnow'
<1>1. Shape'
  BY DEF Shape
<1>2. ASSUME NEW d \in Conns
      PROVE  /\ pc'[d] \in Working => job'[d].sid \in Sessions
             /\ pc'[d] = "join" => job'[d].sid \notin attached'[d]
  <2>1. CASE d = c
    BY <2>1 DEF Shape
  <2>2. CASE d # c
    BY <2>2 DEF Shape, HandlersKnow
  <2> QED
    BY <2>1, <2>2
<1> QED
  BY <1>1, <1>2 DEF HandlersKnow

\* The same when the read loop keeps its job.
LEMMA OneGoesOn ==
    ASSUME Shape, HandlersKnow,
           NEW c \in Conns, NEW to \in Steps,
           pc' = [pc EXCEPT ![c] = to], UNCHANGED job,
           to \in Working => job[c].sid \in Sessions,
           to = "join" => job[c].sid \notin attached'[c],
           \A d \in Conns \ {c} : attached'[d] = attached[d],
           stage' \in [Conns -> Stages], attached' \in [Conns -> SUBSET Sessions],
           listed' \in [Sessions -> BOOLEAN],
           clients' \in [Sessions -> Nat], size' \in [Sessions -> Nat]
    PROVE  Shape' /\ HandlersKnow'
<1>1. job[c] \in Jobs /\ job' = [job EXCEPT ![c] = job[c]]
  BY DEF Shape
<1> QED
  BY <1>1, OneMoves

\* What one read loop does besides connecting, joining and the broadcast.
LEMMA NobodyMoves ==
    ASSUME Shape, HandlersKnow, UNCHANGED <<pc, job, attached, clients, size>>,
           stage' \in [Conns -> Stages], listed' \in [Sessions -> BOOLEAN]
    PROVE  Shape' /\ HandlersKnow'
BY DEF Shape, HandlersKnow

\* Connecting, and the broadcasts and notifications that only send.
LEMMA ShapeConnect ==
    ASSUME Shape, HandlersKnow, NEW c \in Conns, Connect(c)
    PROVE  Shape' /\ HandlersKnow'
<1>1. CASE Accept(c) \/ Register(c) \/ Ready(c)
  <2>1. stage' \in [Conns -> Stages] /\ UNCHANGED <<pc, job, attached, clients, size, listed>>
    BY <1>1 DEF Accept, Register, Ready, sessionVars, shareVars, Shape, Stages
  <2> QED
    BY <2>1, NobodyMoves DEF Shape
<1>2. CASE CloseBegins(c)
  <2>1. stage' \in [Conns -> Stages] /\ Goes(c, "cleanup")
        /\ UNCHANGED <<job, attached, clients, size, listed>>
    BY <1>2 DEF CloseBegins, sessionVars, shareVars, Shape, Stages
  <2> QED
    BY <2>1, OneGoesOn DEF Goes, Shape, Steps, Working
<1> QED
  BY <1>1, <1>2 DEF Connect

LEMMA ShapeCleanup ==
    ASSUME Shape, HandlersKnow, NEW c \in Conns, Cleanup(c)
    PROVE  Shape' /\ HandlersKnow'
<1> USE DEF Goes, Shape, Steps, Working, sessionVars, shareVars
<1>1. CASE CleanupLocks(c)
  BY <1>1, OneGoesOn DEF CleanupLocks
<1>2. CASE CleanupReadsRole(c)
  <2>1. job[c].sid \in Sessions
    BY <1>2 DEF CleanupReadsRole, HandlersKnow
  <2>2. PICK to \in {"yield", "leave"} : Goes(c, to)
    BY <1>2 DEF CleanupReadsRole
  <2> QED
    BY <1>2, <2>1, <2>2, OneGoesOn DEF CleanupReadsRole
<1>3. CASE CleanupYields(c)
  BY <1>3, OneGoesOn DEF CleanupYields
<1>4. CASE CleanupUnlocks(c)
  <2>1. NoJob \in Jobs
    BY DEF NoJob, Jobs
  <2>2. /\ pc' = [pc EXCEPT ![c] = "unregister"] /\ job' = [job EXCEPT ![c] = NoJob]
        /\ UNCHANGED <<stage, attached, listed, clients, size>>
    BY <1>4 DEF CleanupUnlocks
  <2>3. "unregister" \in Steps /\ "unregister" \notin Working /\ "unregister" # "join"
    OBVIOUS
  <2> QED
    BY <2>1, <2>2, <2>3, OneMoves
<1>5. CASE Unregister(c)
  <2>1. stage' \in [Conns -> Stages]
    BY <1>5 DEF Unregister, Stages
  <2> QED
    BY <1>5, <2>1, OneGoesOn DEF Unregister
<1>6. ASSUME NEW s \in Sessions, CleanupLeave(c, s) PROVE Shape' /\ HandlersKnow'
  <2>1. /\ attached' \in [Conns -> SUBSET Sessions]
        /\ \A d \in Conns \ {c} : attached'[d] = attached[d]
        /\ UNCHANGED <<stage, listed, size>>
    BY <1>6, SMTT(30) DEF CleanupLeave
  <2>2. CASE listed[s]
    <3> DEFINE j == [job[c] EXCEPT !.sid = s]
    <3>1. j \in Jobs /\ j.sid \in Sessions
      BY DEF Jobs
    <3>2. pc' = [pc EXCEPT ![c] = "yield?"] /\ job' = [job EXCEPT ![c] = j]
      BY <1>6, <2>2 DEF CleanupLeave
    <3>3. clients' \in [Sessions -> Nat]
      BY <1>6, <2>2, SMTT(30) DEF CleanupLeave, OneLess
    <3> HIDE DEF j
    <3> QED
      BY <2>1, <3>1, <3>2, <3>3, OneMoves
  <2>3. CASE ~listed[s]
    <3>1. UNCHANGED <<pc, job, clients>> /\ pc[c] = "leave"
      BY <1>6, <2>3 DEF CleanupLeave
    <3>2. pc' = [pc EXCEPT ![c] = "leave"]
      BY <3>1
    <3> QED
      BY <2>1, <3>1, <3>2, OneGoesOn
  <2> QED
    BY <2>2, <2>3
<1> QED
  BY <1>1, <1>2, <1>3, <1>4, <1>5, <1>6 DEF Cleanup

LEMMA ShapeAttach ==
    ASSUME Shape, HandlersKnow, NEW c \in Conns,
           Attach(c) \/ DetachLeave(c)
             \/ \E s \in Sessions : DetachDelete(c, s) \/ \E z \in Asked : AttachLooksUp(c, s, z)
    PROVE  Shape' /\ HandlersKnow'
<1> USE DEF Goes, Shape, Steps, Working, sessionVars, shareVars
<1>1. NoJob \in Jobs
  BY SMTT(30) DEF NoJob, Jobs
<1>2. CASE AttachTurnedAway(c)
  BY <1>1, <1>2, OneMoves DEF AttachTurnedAway, Ends
<1>3. CASE AttachAdmitted(c)
  <2>1. job[c].sid \in Sessions
    BY <1>3 DEF AttachAdmitted, HandlersKnow
  <2> QED
    BY <1>3, <2>1, OneGoesOn DEF AttachAdmitted
<1>4. CASE Join(c)
  <2>1. job[c].sid \in Sessions
    BY <1>4 DEF Join, HandlersKnow
  <2>2. PICK to \in {"role", "look"} : Goes(c, to)
    BY <1>4 DEF Join
  <2>3. /\ attached' \in [Conns -> SUBSET Sessions] /\ clients' \in [Sessions -> Nat]
        /\ \A d \in Conns \ {c} : attached'[d] = attached[d]
        /\ UNCHANGED <<stage, listed, size, job>>
    BY <1>4, <2>1 DEF Join
  <2> QED
    BY <2>1, <2>2, <2>3, OneGoesOn
<1>5. CASE FirstTakesRole(c)
  <2>1. job[c].sid \in Sessions
    BY <1>5 DEF FirstTakesRole, HandlersKnow
  <2> QED
    BY <1>5, <2>1, OneGoesOn DEF FirstTakesRole
<1>6. CASE AttachLooks(c)
  <2> DEFINE j == [job[c] EXCEPT !.size = size[job[c].sid]]
  <2>1. job[c].sid \in Sessions
    BY <1>6 DEF AttachLooks, HandlersKnow
  <2>2. j \in Jobs /\ j.sid \in Sessions
    BY <2>1, SMTT(30) DEF Jobs
  <2>3. pc' = [pc EXCEPT ![c] = "tell"] /\ job' = [job EXCEPT ![c] = j]
    BY <1>6 DEF AttachLooks
  <2>4. UNCHANGED <<stage, attached, listed, clients, size>>
    BY <1>6, SMTT(30) DEF AttachLooks
  <2> HIDE DEF j
  <2> QED
    BY <2>2, <2>3, <2>4, OneMoves
<1>7. CASE AttachTells(c)
  BY <1>1, <1>7, OneMoves DEF AttachTells, Ends
<1>8. CASE DetachLeave(c)
  <2>1. job[c].sid \in Sessions
    BY <1>8 DEF DetachLeave, HandlersKnow
  <2>2. clients' \in [Sessions -> Nat]
    BY <1>8, <2>1, SMTT(30) DEF DetachLeave, OneLess
  <2>3. /\ pc' = [pc EXCEPT ![c] = "idle"] /\ job' = [job EXCEPT ![c] = NoJob]
        /\ UNCHANGED <<stage, attached, listed, size>>
    BY <1>8 DEF DetachLeave, Ends
  <2> QED
    BY <1>1, <2>2, <2>3, OneMoves
<1>9. ASSUME NEW s \in Sessions, DetachDelete(c, s) PROVE Shape' /\ HandlersKnow'
  <2> DEFINE j == [sid |-> s, size |-> 0, sequel |-> "idle"]
  <2>1. j \in Jobs /\ j.sid \in Sessions
    BY DEF Jobs
  <2>2. /\ pc' = [pc EXCEPT ![c] = "detach"] /\ job' = [job EXCEPT ![c] = j]
        /\ attached' \in [Conns -> SUBSET Sessions]
        /\ \A d \in Conns \ {c} : attached'[d] = attached[d]
        /\ UNCHANGED <<stage, listed, clients, size>>
    BY <1>9 DEF DetachDelete, Begins
  <2> HIDE DEF j
  <2> QED
    BY <2>1, <2>2, OneMoves
<1>10. ASSUME NEW s \in Sessions, NEW z \in Asked, AttachLooksUp(c, s, z)
       PROVE  Shape' /\ HandlersKnow'
  <2>1. CASE listed[s]
    <3> DEFINE j == [sid |-> s, size |-> Clamped(z, DefaultSize), sequel |-> "look"]
    <3>1. j \in Jobs /\ j.sid \in Sessions
      BY AttachmentsAssumption DEF Jobs, Clamped, Asked
    <3>2. /\ pc' = [pc EXCEPT ![c] = "attach"] /\ job' = [job EXCEPT ![c] = j]
          /\ UNCHANGED <<stage, attached, listed, clients, size>>
      BY <1>10, <2>1 DEF AttachLooksUp, Begins
    <3> HIDE DEF j
    <3> QED
      BY <3>1, <3>2, OneMoves
  <2>2. CASE ~listed[s]
    BY <1>10, <2>2, NobodyMoves DEF AttachLooksUp
  <2> QED
    BY <2>1, <2>2, SMTT(30)
<1> QED
  BY <1>2, <1>3, <1>4, <1>5, <1>6, <1>7, <1>8, <1>9, <1>10 DEF Attach

LEMMA ShapeResize ==
    ASSUME Shape, HandlersKnow, NEW c \in Conns,
           Resize(c) \/ \E s \in Sessions, z \in Asked : ResizeBegins(c, s, z) \/ ClaimBegins(c, s, z)
    PROVE  Shape' /\ HandlersKnow'
<1> USE DEF Goes, Shape, Steps, Working, sessionVars, shareVars
<1>1. NoJob \in Jobs
  BY DEF NoJob, Jobs
<1>2. CASE ResizeChecks(c)
  <2>1. job[c].sid \in Sessions
    BY <1>2 DEF ResizeChecks, HandlersKnow
  <2>2. UNCHANGED <<stage, attached, listed, clients, size>>
    BY <1>2 DEF ResizeChecks
  <2>3. CASE Goes(c, "resize") /\ UNCHANGED job
    BY <2>1, <2>2, <2>3, OneGoesOn
  <2>4. CASE Ends(c)
    BY <1>1, <2>2, <2>4, OneMoves DEF Ends
  <2> QED
    BY <1>2, <2>3, <2>4 DEF ResizeChecks
<1>3. CASE ClaimTakesRole(c)
  <2>1. job[c].sid \in Sessions
    BY <1>3 DEF ClaimTakesRole, HandlersKnow
  <2>2. UNCHANGED <<stage, attached, listed, clients, size>>
    BY <1>3 DEF ClaimTakesRole
  <2>3. CASE Goes(c, "resize") /\ UNCHANGED job
    BY <2>1, <2>2, <2>3, OneGoesOn
  <2>4. CASE Ends(c)
    BY <1>1, <2>2, <2>4, OneMoves DEF Ends
  <2> QED
    BY <1>3, <2>3, <2>4 DEF ClaimTakesRole
<1>4. CASE TermResize(c)
  <2>1. job[c].sid \in Sessions
    BY <1>4 DEF TermResize, HandlersKnow
  <2> QED
    BY <1>4, <2>1, OneGoesOn DEF TermResize
<1>5. CASE SetSize(c)
  <2>1. job[c].sid \in Sessions /\ job[c] \in Jobs
    BY <1>5 DEF SetSize, HandlersKnow
  <2>2. PICK to \in {"idle", "look", "announce"} : Goes(c, to)
    BY <1>5, <2>1 DEF SetSize, Jobs
  <2>3. size' \in [Sessions -> Nat] /\ UNCHANGED <<stage, job, attached, listed, clients>>
    BY <1>5, <2>1 DEF SetSize, Jobs
  <2> QED
    BY <2>1, <2>2, <2>3, OneGoesOn
<1>6. CASE CastBegins(c)
  <2>1. job[c].sid \in Sessions
    BY <1>6 DEF CastBegins, HandlersKnow
  <2> QED
    BY <1>6, <2>1, OneGoesOn DEF CastBegins
<1>7. CASE CastTells(c)
  BY <1>7, NobodyMoves, SMTT(30) DEF CastTells, connVars
<1>8. CASE CastEnds(c)
  <2>1. /\ pc' = [pc EXCEPT ![c] = "idle"] /\ job' = [job EXCEPT ![c] = NoJob]
        /\ UNCHANGED <<stage, attached, listed, clients, size>>
    BY <1>8 DEF CastEnds, Ends
  <2> QED
    BY <1>1, <2>1, OneMoves
<1>9. ASSUME NEW d \in Conns, CastChecks(c, d) PROVE Shape' /\ HandlersKnow'
  BY <1>9, NobodyMoves DEF CastChecks, connVars
<1>10. ASSUME NEW s \in Sessions, NEW z \in Asked, ResizeBegins(c, s, z) \/ ClaimBegins(c, s, z)
       PROVE  Shape' /\ HandlersKnow'
  <2>1. PICK to \in {"resize?", "claim"}, n \in Nat :
          /\ pc' = [pc EXCEPT ![c] = to]
          /\ job' = [job EXCEPT ![c] = [sid |-> s, size |-> n, sequel |-> "announce"]]
    BY <1>10, AttachmentsAssumption DEF ResizeBegins, ClaimBegins, Begins, Clamped, Asked
  <2> DEFINE j == [sid |-> s, size |-> n, sequel |-> "announce"]
  <2>2. j \in Jobs /\ j.sid \in Sessions
    BY DEF Jobs
  <2>3. UNCHANGED <<stage, attached, listed, clients, size>> /\ job' = [job EXCEPT ![c] = j]
    BY <1>10, <2>1 DEF ResizeBegins, ClaimBegins
  <2> HIDE DEF j
  <2> QED
    BY <2>1, <2>2, <2>3, OneMoves
<1> QED
  BY <1>2, <1>3, <1>4, <1>5, <1>6, <1>7, <1>8, <1>9, <1>10 DEF Resize

LEMMA ShapeSession ==
    ASSUME Shape, HandlersKnow, NEW s \in Sessions, Condemn(s) \/ Delete(s) \/ Notify(s)
    PROVE  Shape' /\ HandlersKnow'
<1>1. listed' \in [Sessions -> BOOLEAN]
  BY DEF Condemn, Delete, Notify, NotifyBegins, NotifyTells, NotifyChecks, sessionVars, Shape
<1>2. UNCHANGED <<pc, job, attached, clients, size, stage>>
  BY DEF Condemn, Delete, Notify, NotifyBegins, NotifyTells, NotifyChecks, connVars, shareVars
<1> QED
  BY <1>1, <1>2, NobodyMoves DEF Shape

LEMMA ShapeStep == Shape /\ HandlersKnow /\ [Next]_vars => Shape' /\ HandlersKnow'
<1> SUFFICES ASSUME Shape, HandlersKnow, [Next]_vars PROVE Shape' /\ HandlersKnow'
  OBVIOUS
<1>1. CASE UNCHANGED vars
  BY <1>1, NobodyMoves DEF vars, connVars, sessionVars, shareVars, Shape
<1>2. CASE \E c \in Conns : Connect(c) \/ Receive(c) \/ Handle(c)
  <2> PICK c \in Conns : Connect(c) \/ Receive(c) \/ Handle(c)
    BY <1>2
  <2>1. CASE Connect(c)
    BY <2>1, ShapeConnect
  <2>2. CASE Receive(c)
    <3>1. AskedBy(c) \subseteq Asked
      BY AttachmentsAssumption DEF AskedBy, Asked
    <3>2. PICK s \in Sessions :
            \/ DetachDelete(c, s)
            \/ \E z \in Asked : AttachLooksUp(c, s, z) \/ ResizeBegins(c, s, z) \/ ClaimBegins(c, s, z)
      BY <2>2, <3>1 DEF Receive
    <3> QED
      BY <3>2, ShapeAttach, ShapeResize
  <2>3. CASE Handle(c)
    BY <2>3, ShapeCleanup, ShapeAttach, ShapeResize DEF Handle
  <2> QED
    BY <2>1, <2>2, <2>3
<1>3. CASE \E s \in Sessions : Condemn(s) \/ Delete(s) \/ Notify(s)
  BY <1>3, ShapeSession
<1> QED
  BY <1>1, <1>2, <1>3 DEF Next
-----------------------------------------------------------------------------
(* The count of a session's clients.                                        *)

\* Both groups of clients are finite, so their sizes are numbers.
LEMMA GroupsFinite ==
    ASSUME NEW s \in Sessions
    PROVE  /\ IsFiniteSet(Attached(s)) /\ Cardinality(Attached(s)) \in Nat
           /\ IsFiniteSet(Leaving(s)) /\ Cardinality(Leaving(s)) \in Nat
<1>1. Attached(s) \subseteq Conns /\ Leaving(s) \subseteq Conns
  BY DEF Attached, Leaving
<1> QED
  BY <1>1, AttachmentsAssumption, FS_Subset, FS_CardinalityType

\* Where one client gives its place back, the count goes down with its group.
LEMMA CountDetachDelete ==
    ASSUME CountInv, NEW c \in Conns, NEW s \in Sessions, DetachDelete(c, s)
    PROVE  ClientsCounted'
<1>1. /\ c \in Attached(s) /\ c \notin Leaving(s)
      /\ UNCHANGED <<clients, listed>>
  BY DEF DetachDelete, Begins, Attached, Leaving, shareVars, sessionVars
<1>2. ASSUME NEW t \in Sessions, t # s
      PROVE  Attached(t)' = Attached(t) /\ Leaving(t)' = Leaving(t)
  BY <1>2 DEF DetachDelete, Begins, Goes, Attached, Leaving, CountInv, Shape
<1>3. Attached(s)' = Attached(s) \ {c} /\ Leaving(s)' = Leaving(s) \cup {c}
  BY DEF DetachDelete, Begins, Goes, Attached, Leaving, CountInv, Shape
<1>4. /\ Cardinality(Attached(s)') = Cardinality(Attached(s)) - 1
      /\ Cardinality(Leaving(s)') = Cardinality(Leaving(s)) + 1
  <2>1. IsFiniteSet(Attached(s)) /\ IsFiniteSet(Leaving(s))
    BY GroupsFinite
  <2>2. /\ Cardinality(Attached(s) \ {c}) = Cardinality(Attached(s)) - 1
        /\ Cardinality(Leaving(s) \cup {c}) = Cardinality(Leaving(s)) + 1
    BY <1>1, <2>1, FS_AddElement, FS_RemoveElement
  <2> QED
    BY <1>3, <2>2
<1>5. listed[s] => clients'[s] = Cardinality(Attached(s)') + Cardinality(Leaving(s)')
  BY <1>1, <1>4, GroupsFinite DEF CountInv, ClientsCounted
<1> QED
  BY <1>1, <1>2, <1>5 DEF CountInv, ClientsCounted

LEMMA CountDetachLeave ==
    ASSUME CountInv, NEW c \in Conns, DetachLeave(c)
    PROVE  ClientsCounted'
<1>0. job[c].sid \in Sessions
  BY DEF DetachLeave, CountInv, HandlersKnow, Working
<1> PICK s \in Sessions : s = job[c].sid
  BY <1>0
<1>1. /\ pc[c] = "detach" /\ s = job[c].sid /\ c \in Leaving(s)
      /\ UNCHANGED <<attached, listed>>
  BY DEF DetachLeave, Leaving, sessionVars
<1>2. ASSUME NEW t \in Sessions, t # s
      PROVE  Attached(t)' = Attached(t) /\ Leaving(t)' = Leaving(t) /\ clients'[t] = clients[t]
  BY <1>1, <1>2 DEF DetachLeave, Ends, Goes, NoJob, Attached, Leaving, CountInv, Shape
<1>3. Attached(s)' = Attached(s) /\ Leaving(s)' = Leaving(s) \ {c}
  BY <1>1 DEF DetachLeave, Ends, Goes, Attached, Leaving, CountInv, Shape
<1>4. Cardinality(Leaving(s)') = Cardinality(Leaving(s)) - 1 /\ Cardinality(Leaving(s)) # 0
  BY <1>1, <1>3, GroupsFinite, FS_RemoveElement, FS_EmptySet, ZenonT(30)
<1>5. listed[s] => clients'[s] = Cardinality(Attached(s)') + Cardinality(Leaving(s)')
  <2> SUFFICES ASSUME listed[s]
               PROVE  clients'[s] = Cardinality(Attached(s)') + Cardinality(Leaving(s)')
    OBVIOUS
  <2>1. clients[s] = Cardinality(Attached(s)) + Cardinality(Leaving(s)) /\ clients[s] # 0
    BY <1>1, <1>4, GroupsFinite DEF CountInv, ClientsCounted
  <2>2. clients'[s] = clients[s] - 1
    BY <1>1, <2>1 DEF DetachLeave, OneLess, CountInv, Shape
  <2> QED
    BY <1>1, <1>3, <1>4, <2>1, <2>2, GroupsFinite
<1> QED
  BY <1>1, <1>2, <1>5 DEF CountInv, ClientsCounted

LEMMA CountCleanupLeave ==
    ASSUME CountInv, NEW c \in Conns, NEW s \in Sessions, CleanupLeave(c, s)
    PROVE  ClientsCounted'
<1>1. c \in Attached(s) /\ pc[c] = "leave" /\ UNCHANGED listed
  BY DEF CleanupLeave, Attached, sessionVars
<1>2. pc' \in [Conns -> Steps] /\ \A d \in Conns : pc'[d] = "detach" <=> pc[d] = "detach"
  BY DEF CleanupLeave, Goes, CountInv, Shape, Steps
<1>3. \A d \in Conns \ {c} : job'[d] = job[d] /\ attached'[d] = attached[d]
  BY DEF CleanupLeave, CountInv, Shape
<1>4. attached'[c] = attached[c] \ {s}
  BY DEF CleanupLeave, CountInv, Shape
<1>5. ASSUME NEW t \in Sessions PROVE Leaving(t)' = Leaving(t)
  BY <1>1, <1>2, <1>3 DEF Leaving
<1>6. ASSUME NEW t \in Sessions, t # s
      PROVE  Attached(t)' = Attached(t) /\ clients'[t] = clients[t]
  <2>1. Attached(t)' = Attached(t)
    BY <1>3, <1>4, <1>6 DEF Attached
  <2>2. clients'[t] = clients[t]
    BY <1>6 DEF CleanupLeave, CountInv, Shape
  <2> QED
    BY <2>1, <2>2
<1>7. Attached(s)' = Attached(s) \ {c}
  BY <1>3, <1>4 DEF Attached
<1>8. /\ Cardinality(Attached(s) \ {c}) = Cardinality(Attached(s)) - 1
      /\ Cardinality(Attached(s)) # 0
  BY <1>1, GroupsFinite, FS_RemoveElement, FS_EmptySet
<1>9. listed[s] => clients'[s] = Cardinality(Attached(s)') + Cardinality(Leaving(s)')
  <2> SUFFICES ASSUME listed[s]
               PROVE  clients'[s] = Cardinality(Attached(s)') + Cardinality(Leaving(s)')
    OBVIOUS
  <2>1. clients[s] = Cardinality(Attached(s)) + Cardinality(Leaving(s)) /\ clients[s] # 0
    BY <1>8, GroupsFinite DEF CountInv, ClientsCounted
  <2>2. clients'[s] = clients[s] - 1
    BY <2>1 DEF CleanupLeave, OneLess, CountInv, Shape
  <2> QED
    BY <1>5, <1>7, <1>8, <2>1, <2>2, GroupsFinite
<1> QED
  BY <1>1, <1>5, <1>6, <1>9 DEF CountInv, ClientsCounted

\* The one step that raises the count is taken by a client that is not attached.
LEMMA CountJoin ==
    ASSUME CountInv, NEW c \in Conns, Join(c)
    PROVE  ClientsCounted'
<1>0. job[c].sid \in Sessions /\ job[c].sid \notin attached[c]
  BY DEF Join, CountInv, HandlersKnow, Working
<1> PICK s \in Sessions : s = job[c].sid
  BY <1>0
<1>1. c \notin Attached(s) /\ UNCHANGED <<listed, job>>
  BY <1>0 DEF Join, Attached, sessionVars
<1>2. \A d \in Conns : pc'[d] = "detach" <=> pc[d] = "detach"
  BY DEF Join, Goes, CountInv, Shape
<1>3. /\ \A d \in Conns \ {c} : attached'[d] = attached[d]
      /\ attached'[c] = attached[c] \cup {s}
      /\ clients'[s] = clients[s] + 1 /\ \A t \in Sessions \ {s} : clients'[t] = clients[t]
  BY DEF Join, CountInv, Shape
<1>4. ASSUME NEW t \in Sessions PROVE Leaving(t)' = Leaving(t)
  BY <1>1, <1>2 DEF Leaving
<1>5. ASSUME NEW t \in Sessions, t # s PROVE Attached(t)' = Attached(t)
  BY <1>3, <1>5 DEF Attached
<1>6. Attached(s)' = Attached(s) \cup {c}
  BY <1>3 DEF Attached
<1>7. Cardinality(Attached(s) \cup {c}) = Cardinality(Attached(s)) + 1
  BY <1>1, GroupsFinite, FS_AddElement
<1>8. listed[s] => clients'[s] = Cardinality(Attached(s)') + Cardinality(Leaving(s)')
  BY <1>3, <1>4, <1>6, <1>7, GroupsFinite DEF CountInv, ClientsCounted
<1> QED
  BY <1>1, <1>3, <1>4, <1>5, <1>8 DEF CountInv, ClientsCounted

\* The steps that change neither group.
LEMMA CountQuiet ==
    ASSUME CountInv, Shape', NEW c \in Conns,
           \/ Connect(c) \/ Resize(c) \/ (Cleanup(c) /\ ~\E s \in Sessions : CleanupLeave(c, s))
           \/ (Attach(c) /\ ~Join(c))
           \/ \E s \in Sessions, z \in Asked :
                 AttachLooksUp(c, s, z) \/ ResizeBegins(c, s, z) \/ ClaimBegins(c, s, z)
    PROVE  ClientsCounted'
<1>1. UNCHANGED <<attached, clients, listed>>
  <2>1. CASE Connect(c)
    BY <2>1 DEF Connect, Accept, Register, Ready, CloseBegins, sessionVars, shareVars
  <2>2. CASE Resize(c)
    BY <2>2 DEF Resize, ResizeChecks, ClaimTakesRole, TermResize, SetSize, CastBegins,
       CastTells, CastEnds, CastChecks, sessionVars, shareVars, connVars
  <2>3. CASE Cleanup(c) /\ ~\E s \in Sessions : CleanupLeave(c, s)
    BY <2>3 DEF Cleanup, CleanupLocks, CleanupReadsRole, CleanupYields, CleanupUnlocks,
       Unregister, sessionVars, shareVars
  <2>4. CASE Attach(c) /\ ~Join(c)
    BY <2>4 DEF Attach, AttachTurnedAway, AttachAdmitted, FirstTakesRole, AttachLooks,
       AttachTells, sessionVars, shareVars
  <2>5. CASE \E s \in Sessions, z \in Asked :
               AttachLooksUp(c, s, z) \/ ResizeBegins(c, s, z) \/ ClaimBegins(c, s, z)
    BY <2>5 DEF AttachLooksUp, ResizeBegins, ClaimBegins, sessionVars, shareVars
  <2> QED
    BY <2>1, <2>2, <2>3, <2>4, <2>5
<1>2. \/ pc'[c] # "detach" /\ pc[c] # "detach"
      \/ pc'[c] = pc[c] /\ job'[c].sid = job[c].sid
  <2>0. pc \in [Conns -> Steps] /\ job[c].sequel # "detach"
    BY DEF CountInv, Shape, Jobs
  <2> USE <2>0 DEF Goes, Ends, Begins
  <2>1. CASE Connect(c)
    BY <2>1 DEF Connect, Accept, Register, Ready, CloseBegins
  <2>2. CASE Resize(c)
    <3>1. CASE \E d \in Conns : CastChecks(c, d)
      BY <3>1 DEF CastChecks, connVars
    <3>2. CASE CastTells(c)
      BY <3>2 DEF CastTells, connVars
    <3>3. CASE SetSize(c)
      BY <3>3 DEF SetSize
    <3>4. CASE ResizeChecks(c)
      BY <3>4 DEF ResizeChecks
    <3>5. CASE ClaimTakesRole(c)
      BY <3>5 DEF ClaimTakesRole
    <3>6. CASE TermResize(c) \/ CastBegins(c) \/ CastEnds(c)
      BY <3>6 DEF TermResize, CastBegins, CastEnds
    <3> QED
      BY <2>2, <3>1, <3>2, <3>3, <3>4, <3>5, <3>6 DEF Resize
  <2>3. CASE Cleanup(c) /\ ~\E s \in Sessions : CleanupLeave(c, s)
    BY <2>3 DEF Cleanup, CleanupLocks, CleanupReadsRole, CleanupYields, CleanupUnlocks,
       Unregister
  <2>4. CASE Attach(c) /\ ~Join(c)
    BY <2>4 DEF Attach, AttachTurnedAway, AttachAdmitted, FirstTakesRole, AttachLooks,
       AttachTells
  <2>5. CASE \E s \in Sessions, z \in Asked :
               AttachLooksUp(c, s, z) \/ ResizeBegins(c, s, z) \/ ClaimBegins(c, s, z)
    BY <2>5 DEF AttachLooksUp, ResizeBegins, ClaimBegins
  <2> QED
    BY <2>1, <2>2, <2>3, <2>4, <2>5
<1>3. ASSUME NEW d \in Conns, d # c PROVE pc'[d] = pc[d] /\ job'[d].sid = job[d].sid
  <2> USE <1>3 DEF Goes, Ends, Begins, CountInv, Shape
  <2>1. CASE Connect(c)
    BY <2>1 DEF Connect, Accept, Register, Ready, CloseBegins
  <2>2. CASE Resize(c)
    BY <2>2 DEF Resize, ResizeChecks, ClaimTakesRole, TermResize, SetSize, CastBegins,
       CastTells, CastEnds, CastChecks, connVars
  <2>3. CASE Cleanup(c) /\ ~\E s \in Sessions : CleanupLeave(c, s)
    BY <2>3 DEF Cleanup, CleanupLocks, CleanupReadsRole, CleanupYields, CleanupUnlocks,
       Unregister
  <2>4. CASE Attach(c) /\ ~Join(c)
    BY <2>4 DEF Attach, AttachTurnedAway, AttachAdmitted, FirstTakesRole, AttachLooks,
       AttachTells
  <2>5. CASE \E s \in Sessions, z \in Asked :
               AttachLooksUp(c, s, z) \/ ResizeBegins(c, s, z) \/ ClaimBegins(c, s, z)
    BY <2>5 DEF AttachLooksUp, ResizeBegins, ClaimBegins
  <2> QED
    BY <2>1, <2>2, <2>3, <2>4, <2>5
<1> QED
  BY <1>1, <1>2, <1>3, CountKept

LEMMA CountStep == CountInv /\ [Next]_vars => CountInv'
<1> SUFFICES ASSUME CountInv, [Next]_vars PROVE CountInv'
  OBVIOUS
<1>1. Shape' /\ HandlersKnow'
  BY ShapeStep DEF CountInv
<1>2. ClientsCounted'
  <2>1. CASE UNCHANGED vars
    BY <2>1, <1>1, CountKept DEF vars, connVars, sessionVars, shareVars
  <2>2. ASSUME NEW s \in Sessions, Condemn(s) \/ Delete(s) \/ Notify(s) PROVE ClientsCounted'
    <3>1. UNCHANGED <<pc, job, attached, clients>>
      BY <2>2 DEF Condemn, Delete, Notify, NotifyBegins, NotifyTells, NotifyChecks,
         connVars, shareVars
    <3>2. \A t \in Sessions : listed'[t] => listed[t]
      BY <2>2 DEF Condemn, Delete, Notify, NotifyBegins, NotifyTells, NotifyChecks,
         sessionVars, CountInv, Shape
    <3> QED
      BY <3>1, <3>2, <1>1, CountKept
  <2>3. ASSUME NEW c \in Conns, Connect(c) \/ Handle(c) PROVE ClientsCounted'
    BY <2>3, <1>1, CountQuiet, CountCleanupLeave, CountJoin, CountDetachLeave DEF Handle
  <2>4. ASSUME NEW c \in Conns, Receive(c) PROVE ClientsCounted'
    <3>1. AskedBy(c) \subseteq Asked
      BY AttachmentsAssumption DEF AskedBy, Asked
    <3>2. PICK s \in Sessions :
            \/ DetachDelete(c, s)
            \/ \E z \in Asked : AttachLooksUp(c, s, z) \/ ResizeBegins(c, s, z) \/ ClaimBegins(c, s, z)
      BY <2>4, <3>1 DEF Receive
    <3> QED
      BY <3>2, <1>1, CountQuiet, CountDetachDelete
  <2> QED
    BY <2>1, <2>2, <2>3, <2>4 DEF Next
<1> QED
  BY <1>1, <1>2 DEF CountInv

\* Through every overlap of attaching, detaching and closing, a listed session's
\* count of clients is exact, for any number of connections and sessions.
THEOREM ClientsAreCounted == Spec => []ClientsCounted
<1>1. Init => CountInv
  BY InitInv
<1>2. CountInv /\ [Next]_vars => CountInv'
  BY CountStep
<1>3. CountInv => ClientsCounted
  BY DEF CountInv
<1> QED
  BY <1>1, <1>2, <1>3, PTL DEF Spec
-----------------------------------------------------------------------------
(* The end of a session is heard.                                           *)

\* Steps that keep the notifications serve the heirs they leave.
LEMMA HeirsKept ==
    ASSUME HeirsServed, notice' = notice, \A s \in Sessions : listed'[s] => listed[s],
           heirs' \in [Sessions -> SUBSET Conns], heard' \in [Conns -> SUBSET Sessions],
           \A s \in Sessions : \A c \in heirs'[s] :
              c \in heirs[s] /\ stage'[c] = "ready" /\ s \in attached'[c] /\ heard[c] \subseteq heard'[c]
    PROVE  HeirsServed'
BY DEF HeirsServed

\* The steps of a connection other than its own end leave every heir in place.
LEMMA HeirsHandle ==
    ASSUME CountInv, HeirInv, NEW c \in Conns, Connect(c) \/ Receive(c) \/ Handle(c)
    PROVE  HeirsServed'
<1> USE DEF HeirInv, CountInv, sessionVars, shareVars, connVars
<1>1. CASE Connect(c)
  <2>1. CASE CloseBegins(c)
    <3>1. /\ heirs' = [s \in Sessions |-> heirs[s] \ {c}] /\ heard' = [heard EXCEPT ![c] = {}]
          /\ UNCHANGED <<attached, listed, notice>>
          /\ \A d \in Conns \ {c} : stage'[d] = stage[d]
      BY <2>1 DEF CloseBegins, Shape
    <3>2. heirs' \in [Sessions -> SUBSET Conns] /\ heard' \in [Conns -> SUBSET Sessions]
      BY <3>1 DEF HeirsServed
    <3>3. ASSUME NEW s \in Sessions, NEW d \in heirs'[s]
          PROVE  d \in heirs[s] /\ stage'[d] = "ready" /\ s \in attached'[d] /\ heard[d] \subseteq heard'[d]
      BY <3>1, <3>2, <3>3 DEF HeirsServed
    <3> QED
      BY <3>1, <3>2, <3>3, HeirsKept
  <2>2. CASE Accept(c) \/ Register(c) \/ Ready(c)
    <3>1. /\ UNCHANGED <<attached, listed, notice, heirs, heard>>
          /\ \A d \in Conns : stage[d] = "ready" => stage'[d] = "ready"
      BY <2>2 DEF Accept, Register, Ready, Shape
    <3> QED
      BY <3>1, HeirsKept DEF HeirsServed
  <2> QED
    BY <1>1, <2>1, <2>2 DEF Connect
<1>2. ASSUME NEW s \in Sessions, DetachDelete(c, s) PROVE HeirsServed'
  <2>1. /\ attached' = [attached EXCEPT ![c] = @ \ {s}] /\ heirs' = [heirs EXCEPT ![s] = @ \ {c}]
        /\ UNCHANGED <<stage, listed, notice, heard>>
    BY <1>2 DEF DetachDelete
  <2>2. heirs' \in [Sessions -> SUBSET Conns] /\ heard' \in [Conns -> SUBSET Sessions]
    BY <2>1 DEF HeirsServed
  <2>3. ASSUME NEW r \in Sessions, NEW d \in heirs'[r]
        PROVE  d \in heirs[r] /\ stage'[d] = "ready" /\ r \in attached'[d] /\ heard[d] \subseteq heard'[d]
    <3>1. d \in heirs[r] /\ ~(d = c /\ r = s)
      BY <2>1, <2>3 DEF HeirsServed
    <3>2. d \in Conns /\ stage[d] = "ready" /\ r \in attached[d]
      BY <3>1 DEF HeirsServed
    <3>3. r \in attached'[d]
      BY <2>1, <3>1, <3>2 DEF Shape
    <3> QED
      BY <2>1, <3>1, <3>2, <3>3
  <2> QED
    BY <2>1, <2>2, <2>3, HeirsKept
<1>3. ASSUME NEW s \in Sessions, NEW z \in AskedBy(c), AttachLooksUp(c, s, z) PROVE HeirsServed'
  <2>1. UNCHANGED <<stage, attached, listed, notice, heirs>>
    BY <1>3 DEF AttachLooksUp
  <2>2. heard' = heard \/ heard' = [heard EXCEPT ![c] = @ \cup {s}]
    BY <1>3 DEF AttachLooksUp, TellGone
  <2>3. heard' \in [Conns -> SUBSET Sessions] /\ \A d \in Conns : heard[d] \subseteq heard'[d]
    BY <2>2 DEF HeirsServed
  <2> QED
    BY <2>1, <2>3, HeirsKept DEF HeirsServed
<1>4. ASSUME NEW s \in Sessions, CleanupLeave(c, s) PROVE HeirsServed'
  <2>1. /\ stage[c] = "closed" /\ attached' = [attached EXCEPT ![c] = @ \ {s}]
        /\ UNCHANGED <<stage, listed, notice, heirs, heard>>
    BY <1>4 DEF CleanupLeave, CleanersClosed
  <2>2. \A d \in Conns \ {c} : attached'[d] = attached[d]
    BY <2>1 DEF Shape
  <2>3. \A r \in Sessions : c \notin heirs[r]
    BY <2>1 DEF HeirsServed
  <2> QED
    BY <2>1, <2>2, <2>3, HeirsKept DEF HeirsServed
<1>5. CASE Unregister(c)
  <2>1. /\ stage[c] = "closed" /\ stage' = [stage EXCEPT ![c] = "gone"]
        /\ UNCHANGED <<attached, listed, notice, heirs, heard>>
    BY <1>5 DEF Unregister, CleanersClosed
  <2>2. \A d \in Conns \ {c} : stage'[d] = stage[d]
    BY <2>1 DEF Shape
  <2>3. \A r \in Sessions : c \notin heirs[r]
    BY <2>1 DEF HeirsServed
  <2> QED
    BY <2>1, <2>2, <2>3, HeirsKept DEF HeirsServed
<1>6. CASE Join(c)
  <2>1. /\ attached' = [attached EXCEPT ![c] = @ \cup {job[c].sid}]
        /\ UNCHANGED <<stage, listed, notice, heirs, heard>>
    BY <1>6 DEF Join
  <2>2. \A d \in Conns : attached[d] \subseteq attached'[d]
    BY <2>1 DEF Shape
  <2> QED
    BY <2>1, <2>2, HeirsKept DEF HeirsServed
<1>7. ASSUME UNCHANGED <<stage, attached, listed, notice, heirs, heard>> PROVE HeirsServed'
  BY <1>7, HeirsKept DEF HeirsServed
<1>8. CASE Receive(c)
  <2>1. ASSUME NEW s \in Sessions, NEW z \in AskedBy(c), ResizeBegins(c, s, z) \/ ClaimBegins(c, s, z)
        PROVE  HeirsServed'
    BY <1>7, <2>1 DEF ResizeBegins, ClaimBegins
  <2> QED
    BY <1>2, <1>3, <1>8, <2>1 DEF Receive
<1>9. CASE Handle(c)
  <2>1. CASE Resize(c) \/ DetachLeave(c)
    BY <1>7, <2>1 DEF Resize, ResizeChecks, ClaimTakesRole, TermResize, SetSize, CastBegins,
       CastTells, CastEnds, CastChecks, DetachLeave
  <2>2. CASE Attach(c)
    BY <1>6, <1>7, <2>2 DEF Attach, AttachTurnedAway, AttachAdmitted, FirstTakesRole,
       AttachLooks, AttachTells
  <2>3. CASE Cleanup(c)
    BY <1>4, <1>5, <1>7, <2>3 DEF Cleanup, CleanupLocks, CleanupReadsRole, CleanupYields,
       CleanupUnlocks
  <2> QED
    BY <1>9, <2>1, <2>2, <2>3 DEF Handle
<1> QED
  BY <1>1, <1>8, <1>9

\* A deletion names the heirs, and the notification that follows it reaches them.
LEMMA HeirsSession ==
    ASSUME CountInv, HeirInv, NEW s \in Sessions, Condemn(s) \/ Delete(s) \/ Notify(s)
    PROVE  HeirsServed'
<1> USE AttachmentsAssumption DEF HeirInv, CountInv, sessionVars, connVars
<1>1. CASE Condemn(s)
  BY <1>1, HeirsKept DEF Condemn, HeirsServed
<1>2. CASE Delete(s)
  <2>1. /\ listed[s] /\ listed' = [listed EXCEPT ![s] = FALSE]
        /\ heirs' = [heirs EXCEPT ![s] = {c \in Conns : s \in attached[c] /\ stage[c] = "ready"}]
        /\ UNCHANGED <<stage, attached, notice, heard>>
    BY <1>2 DEF Delete
  <2>2. heirs' \in [Sessions -> SUBSET Conns] /\ ~notice[s].begun
    BY <2>1 DEF HeirsServed
  <2>3. ASSUME NEW r \in Sessions
        PROVE  /\ notice'[r].begun => ~listed'[r]
               /\ \A c \in heirs'[r] :
                     /\ stage'[c] = "ready" /\ r \in attached'[c]
                     /\ notice'[r].begun => \/ c \in notice'[r].todo \/ c = notice'[r].hit
                                            \/ r \in heard'[c]
    <3>1. CASE r = s
      BY <2>1, <2>2, <3>1 DEF HeirsServed
    <3>2. CASE r # s
      BY <2>1, <3>2 DEF HeirsServed, Shape
    <3> QED
      BY <3>1, <3>2
  <2> QED
    BY <2>1, <2>2, <2>3 DEF HeirsServed
<1>3. CASE NotifyBegins(s)
  <2>1. /\ ~listed[s] /\ UNCHANGED <<stage, attached, listed, heard, heirs>>
        /\ notice' = [notice EXCEPT ![s] = [begun |-> TRUE, todo |-> Registered, hit |-> None]]
    BY <1>3 DEF NotifyBegins
  <2>2. notice' \in [Sessions -> [begun : BOOLEAN, todo : SUBSET Conns, hit : Conns \cup {None}]]
    BY <2>1 DEF HeirsServed, Registered
  <2>3. \A c \in heirs[s] : c \in notice'[s].todo
    BY <2>1 DEF HeirsServed, Registered
  <2>4. \A r \in Sessions \ {s} : notice'[r] = notice[r]
    BY <2>1 DEF HeirsServed
  <2> QED
    BY <2>1, <2>2, <2>3, <2>4 DEF HeirsServed
<1>4. ASSUME NEW d \in Conns, NotifyChecks(s, d) PROVE HeirsServed'
  <2>1. /\ notice[s].hit = None /\ UNCHANGED <<stage, attached, listed, heard, heirs>>
        /\ notice' = [notice EXCEPT ![s].todo = @ \ {d},
                                     ![s].hit = IF s \in attached[d] THEN d ELSE None]
    BY <1>4 DEF NotifyChecks
  <2> PICK hit \in Conns \cup {None} : hit = IF s \in attached[d] THEN d ELSE None
    OBVIOUS
  <2>2. /\ notice[s] \in [begun : BOOLEAN, todo : SUBSET Conns, hit : Conns \cup {None}]
        /\ notice' = [notice EXCEPT ![s].todo = notice[s].todo \ {d}, ![s].hit = hit]
    BY <2>1 DEF HeirsServed
  <2>3. /\ notice'[s].begun = notice[s].begun /\ notice'[s].todo = notice[s].todo \ {d}
        /\ s \in attached[d] => notice'[s].hit = d
        /\ notice' \in [Sessions -> [begun : BOOLEAN, todo : SUBSET Conns, hit : Conns \cup {None}]]
    BY <2>2 DEF HeirsServed
  <2>4. \A r \in Sessions \ {s} : notice'[r] = notice[r]
    BY <2>1 DEF HeirsServed
  <2> QED
    BY <2>1, <2>2, <2>3, <2>4 DEF HeirsServed
<1>5. CASE NotifyTells(s)
  <2> PICK d \in Conns : d = notice[s].hit
    BY <1>5 DEF NotifyTells, HeirsServed
  <2>1. /\ UNCHANGED <<stage, attached, listed, heirs>>
        /\ notice' = [notice EXCEPT ![s].hit = None]
        /\ heard' = IF stage[d] = "ready" THEN [heard EXCEPT ![d] = @ \cup {s}] ELSE heard
    BY <1>5 DEF NotifyTells, TellGone
  <2>2. /\ notice' \in [Sessions -> [begun : BOOLEAN, todo : SUBSET Conns, hit : Conns \cup {None}]]
        /\ heard' \in [Conns -> SUBSET Sessions]
    BY <2>1 DEF HeirsServed
  <2>3. /\ \A c \in Conns : heard[c] \subseteq heard'[c]
        /\ stage[d] = "ready" => s \in heard'[d]
    BY <2>1 DEF HeirsServed
  <2>4. /\ notice'[s].begun = notice[s].begun /\ notice'[s].todo = notice[s].todo
        /\ \A r \in Sessions \ {s} : notice'[r] = notice[r]
    BY <2>1 DEF HeirsServed
  <2>5. ASSUME NEW c \in heirs[s]
        PROVE  notice'[s].begun => c \in notice'[s].todo \/ s \in heard'[c]
    <3>1. /\ stage[c] = "ready"
          /\ notice[s].begun => \/ c \in notice[s].todo \/ c = d \/ s \in heard[c]
      BY <1>5, <2>1, <2>4 DEF HeirsServed, NotifyTells
    <3> QED
      BY <2>3, <2>4, <3>1, <2>5 DEF HeirsServed
  <2> QED
    BY <2>1, <2>2, <2>3, <2>4, <2>5 DEF HeirsServed
<1> QED
  BY <1>1, <1>2, <1>3, <1>4, <1>5 DEF Notify

\* Only a closed connection cleans up, and it is not opened again.
LEMMA CleanersStep ==
    ASSUME CountInv, CleanersClosed, [Next]_vars
    PROVE  CleanersClosed'
<1>1. CASE UNCHANGED vars
  BY <1>1 DEF vars, connVars, CleanersClosed
<1>2. ASSUME NEW c \in Conns, Connect(c) PROVE CleanersClosed'
  BY <1>2 DEF Connect, Accept, Register, Ready, CloseBegins, Goes, CleanersClosed, CountInv, Shape
<1>3. ASSUME NEW c \in Conns, Cleanup(c) PROVE CleanersClosed'
  BY <1>3 DEF Cleanup, CleanupLocks, CleanupReadsRole, CleanupYields, CleanupUnlocks,
     CleanupLeave, Unregister, Goes, CleanersClosed, CountInv, Shape
<1>4. ASSUME NEW c \in Conns, UNCHANGED stage,
             \A d \in Conns \ {c} : pc'[d] = pc[d],
             \/ pc'[c] = pc[c]
             \/ pc'[c] \notin {"cleanup", "leave", "yield?", "yield", "unregister"}
      PROVE  CleanersClosed'
  BY <1>4 DEF CleanersClosed
<1>5. ASSUME NEW c \in Conns, Receive(c) PROVE CleanersClosed'
  BY <1>4, <1>5 DEF Receive, DetachDelete, AttachLooksUp, ResizeBegins, ClaimBegins, Begins,
     Goes, CountInv, Shape
<1>6. ASSUME NEW c \in Conns, Attach(c) \/ DetachLeave(c) PROVE CleanersClosed'
  BY <1>4, <1>6 DEF Attach, AttachTurnedAway, AttachAdmitted, Join, FirstTakesRole,
     AttachLooks, AttachTells, DetachLeave, Ends, Goes, CountInv, Shape
<1>7. ASSUME NEW c \in Conns, Resize(c) PROVE CleanersClosed'
  <2>1. job[c].sequel \in {"idle", "look", "announce"} /\ pc \in [Conns -> Steps]
    BY DEF CountInv, Shape, Jobs
  <2>2. CASE SetSize(c)
    BY <1>4, <2>1, <2>2 DEF SetSize, Goes
  <2>3. CASE CastTells(c) \/ \E d \in Conns : CastChecks(c, d)
    BY <2>3, <1>4 DEF CastTells, CastChecks, connVars
  <2> QED
    BY <1>4, <1>7, <2>1, <2>2, <2>3 DEF Resize, ResizeChecks, ClaimTakesRole, TermResize,
       CastBegins, CastEnds, Ends, Goes
<1>8. ASSUME NEW s \in Sessions, Condemn(s) \/ Delete(s) \/ Notify(s) PROVE CleanersClosed'
  BY <1>8 DEF Condemn, Delete, Notify, NotifyBegins, NotifyTells, NotifyChecks, connVars,
     CleanersClosed
<1> QED
  BY <1>1, <1>2, <1>3, <1>5, <1>6, <1>7, <1>8 DEF Next, Handle

\* Whoever was attached to a session when it was deleted, and still is, has been
\* told by the time the notification is over, for any number of each.
THEOREM GoneReachesHeirs == Spec => []GoneIsHeard
<1>1. Init => CountInv /\ HeirInv
  BY InitInv
<1>2. CountInv /\ HeirInv /\ [Next]_vars => CountInv' /\ HeirInv'
  <2> SUFFICES ASSUME CountInv, HeirInv, [Next]_vars PROVE CountInv' /\ HeirInv'
    OBVIOUS
  <2>1. ASSUME UNCHANGED vars PROVE HeirsServed'
    <3>1. UNCHANGED <<stage, attached, listed, notice, heard, heirs>>
      BY <2>1 DEF vars, connVars, sessionVars
    <3> QED
      BY <3>1, HeirsKept DEF HeirInv, HeirsServed
  <2>2. HeirsServed'
    BY <2>1, HeirsHandle, HeirsSession DEF Next
  <2> QED
    BY <2>2, CountStep, CleanersStep DEF HeirInv
<1>3. CountInv /\ HeirInv => GoneIsHeard
  BY AttachmentsAssumption DEF HeirInv, HeirsServed, GoneIsHeard, NotifyOver
<1> QED
  BY <1>1, <1>2, <1>3, PTL DEF Spec
=============================================================================
