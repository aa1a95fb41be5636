---------------------------- MODULE Client_proofs ----------------------------
(***************************************************************************)
(* The connection of one browser tab: it holds one socket at a time, its   *)
(* tiles are attached, and what it shows is alive, for any number of       *)
(* sessions, sockets and failures.                                         *)
(*                                                                         *)
(* The actions share three effects, which are lemmas of their own: getWs   *)
(* (Calls), attach and detach (Tells), mount and destroy (Mounts).         *)
(***************************************************************************)
EXTENDS Client, SequenceTheorems, FiniteSetTheorems, TLAPS

(***************************************************************************)
(* The parts of the invariants.                                            *)
(***************************************************************************)

\* A socket that is not over, and what is on its way over it.
Live(w) == link[w] \in {"connecting", "open", "cut", "closing"}
Has(w, m) == m \in Range(wire[w])

\* No socket but this.ws is in use; until it is ready its promise is kept, and
\* the keys, if there are any, are its own.
OneSocket ==
    /\ \A w \in Sockets : Live(w) => w = cur /\ (ready \/ promise = w)
    /\ crypto.of # None => crypto.of = cur /\ link[cur] \in {"open", "cut", "closing"}
    /\ crypto.up => crypto.of # None /\ link[cur] \in {"open", "cut"}
    /\ ready => crypto.up

\* Nothing is sent before the end of the handshake.
AckFirst(q) == \A i \in DOMAIN q : q[i] = Ack => i = 1

\* A connection shakes hands once, before anything else is sent over it and
\* before it is closed.
OneHandshake ==
    \A w \in Sockets :
        /\ link[w] \in {"none", "connecting"} => wire[w] = <<>> /\ pc[w] = "idle"
        /\ served[w] # "no" \/ attached[w] # {} => link[w] = "open" /\ crypto.up
        /\ AckFirst(wire[w]) /\ (Has(w, Ack) => pc[w] = "idle")
        /\ pc[w] = "proving" \/ Has(w, Ack) => crypto # [of |-> w, up |-> TRUE] /\ link[w] # "closing"

\* A message tells of the end of no session that lives, and of none that is
\* not born.
Honest(m) ==
    /\ m.type = "gone" => m.sid \notin alive \cup unborn
    /\ m.type = "created" => m.sid \notin unborn
    /\ m.type = "auth-success" => m.list \cap unborn = {}

\* A session that ended does not come back: what is taken for dead is, and
\* nobody knows a session that is not born.
IdsAreFresh ==
    /\ (dead \cup deleting) \cap (alive \cup unborn) = {}
    /\ (tiles \cup bootList) \cap unborn = {}
    /\ \A s \in Sids : posting[s] # None => s \notin unborn
    /\ \A w \in Sockets :
        /\ (snap[w] \cup known[w]) \cap unborn = {}
        /\ attached[w] \cap unborn = {}
        /\ \A m \in Range(wire[w]) : Honest(m)

\* A tile shows what its session does, or will be marked as closed.
Shown(s) == Has(cur, Gone(s)) \/ s \in attached[cur] \cap alive

\* Once a connection has attached the tiles, they stay so.
TilesAttached ==
    ready /\ cur # None /\ link[cur] = "open" /\ pc[cur] = "idle" => \A s \in tiles \ dead : Shown(s)

\* restore tries no more often than it may.
Tries == boot = "calling" => attempt < Attempts

ClientInv == TypeOK /\ Tries /\ OneSocket /\ OneHandshake /\ IdsAreFresh /\ TilesAttached

(***************************************************************************)
(* Messages.                                                               *)
(***************************************************************************)

\* The kinds of messages are told apart by their type.
LEMMA Kinds ==
    /\ Ack.type = "crypto-ack"
    /\ \A l : Auth(l).type = "auth-success" /\ Auth(l).list = l
    /\ \A s : Created(s).type = "created" /\ Created(s).sid = s
    /\ \A s : Gone(s).type = "gone" /\ Gone(s).sid = s
BY DEF Ack, Auth, Created, Gone

\* The messages that announce the end of the sessions of a finite set.
LEMMA GonersSay ==
    ASSUME NEW S, IsFiniteSet(S)
    PROVE  /\ Goners(S) \in Seq({Gone(s) : s \in S})
           /\ \A s \in S : \E i \in DOMAIN Goners(S) : Goners(S)[i] = Gone(s)
<1> DEFINE n == Cardinality(S)
           q == SetToSeq(S)
<1>1. n \in Nat /\ ExistsBijection(1..n, S)
  BY FS_CardinalityType
<1>2. PICK g \in [1..n -> S] : IsInjective(g)
  BY <1>1 DEF ExistsBijection, Bijection, Injection
<1>3. q \in [1..n -> S] /\ IsInjective(q)
  BY <1>2 DEF SetToSeq
<1> HIDE DEF q
<1>4. q \in Surjection(1..n, S)
  <2>1. IsFiniteSet(1..n) /\ Cardinality(1..n) = n
    BY <1>1, FS_Interval
  <2>2. q \in Injection(1..n, S)
    BY <1>3 DEF Injection
  <2> QED BY <2>1, <2>2, FS_Injection
<1>5. q \in Seq(S) /\ Len(q) = n /\ DOMAIN q = 1..n
  BY <1>1, <1>3
<1>6. \A s \in S : \E i \in 1..n : q[i] = s
  BY <1>4 DEF Surjection
<1>7. Goners(S) = [i \in 1..n |-> Gone(q[i])]
  BY <1>5 DEF Goners, q
<1>8. Goners(S) \in Seq({Gone(s) : s \in S}) /\ DOMAIN Goners(S) = 1..n
  BY <1>1, <1>3, <1>7
<1> QED BY <1>6, <1>7, <1>8

(***************************************************************************)
(* Queues of messages.                                                     *)
(***************************************************************************)

\* Messages of S have been added behind those of the queue q.
Longer(q, p, S) == \E r \in Seq(S) : p = q \o r

\* Every message is one of the four kinds, with a session or a list of sessions.
LEMMA MessagesTyped ==
    /\ Ack \in Messages
    /\ \A l \in SUBSET Sids : Auth(l) \in Messages
    /\ \A s \in Sids : Created(s) \in Messages /\ Gone(s) \in Messages
    /\ \A m \in Messages :
          /\ m.type = "crypto-ack" => m = Ack
          /\ m.type = "auth-success" => m.list \in SUBSET Sids /\ m = Auth(m.list)
          /\ m.type = "created" => m.sid \in Sids /\ m = Created(m.sid)
          /\ m.type = "gone" => m.sid \in Sids /\ m = Gone(m.sid)
BY Kinds DEF Messages

\* What is left of a queue when its first message is handled.
LEMMA TailSays ==
    ASSUME NEW q \in Seq(Messages), q # <<>>
    PROVE  /\ Tail(q) \in Seq(Messages)
           /\ Head(q) \in Messages /\ Head(q) \in Range(q)
           /\ Range(Tail(q)) \subseteq Range(q)
           /\ \A m \in Range(q) : m = Head(q) \/ m \in Range(Tail(q))
           /\ AckFirst(q) => AckFirst(Tail(q)) /\ Ack \notin Range(Tail(q))
<1>1. /\ Len(q) \in Nat /\ Len(q) >= 1 /\ DOMAIN q = 1..Len(q)
      /\ Tail(q) \in Seq(Messages) /\ DOMAIN Tail(q) = 1..(Len(q) - 1)
      /\ \A i \in 1..(Len(q) - 1) : Tail(q)[i] = q[i + 1]
      /\ Head(q) = q[1] /\ \A i \in 1..Len(q) : q[i] \in Messages
  OBVIOUS
<1> DEFINE n == Len(q)
           t == Tail(q)
<1>2. /\ \A i \in 1..(n - 1) : i + 1 \in 1..n /\ i + 1 # 1
      /\ \A j \in 1..n : j = 1 \/ j - 1 \in 1..(n - 1)
      /\ \A i \in 1..(n - 1), j \in 1..n : j > i + 1 => j - 1 \in 1..(n - 1) /\ j - 1 > i
      /\ \A j \in 1..n : (j - 1) + 1 = j
      /\ 1 \in 1..n
  BY <1>1
<1> HIDE DEF n, t
<1>3. /\ DOMAIN t = 1..(n - 1) /\ DOMAIN q = 1..n
      /\ \A i \in 1..(n - 1) : t[i] = q[i + 1]
      /\ Head(q) = q[1]
  BY <1>1 DEF n, t
<1>4. Head(q) \in Range(q) /\ Range(t) \subseteq Range(q)
  BY <1>2, <1>3, SMTT(30) DEF Range
<1>5. \A m \in Range(q) : m = Head(q) \/ m \in Range(t)
  BY <1>2, <1>3 DEF Range
<1>6. AckFirst(q) => AckFirst(t) /\ Ack \notin Range(t)
  BY <1>2, <1>3 DEF Range, AckFirst
<1> QED BY <1>1, <1>4, <1>5, <1>6 DEF t

\* What is known of a queue to which messages of S were added.
LEMMA LongerSays ==
    ASSUME NEW q \in Seq(Messages), NEW S \in SUBSET Messages, NEW p, Longer(q, p, S)
    PROVE  /\ p \in Seq(Messages)
           /\ Range(q) \subseteq Range(p) /\ Range(p) \subseteq Range(q) \cup S
           /\ Ack \notin S /\ AckFirst(q) => AckFirst(p)
<1>1. PICK r \in Seq(S) : p = q \o r
  BY DEF Longer
<1> DEFINE n == Len(q)
           k == Len(r)
<1>2. /\ n \in Nat /\ k \in Nat /\ DOMAIN q = 1..n /\ DOMAIN r = 1..k
      /\ \A i \in 1..n : q[i] \in Messages
      /\ \A i \in 1..k : r[i] \in S
      /\ p \in Seq(Messages) /\ DOMAIN p = 1..(n + k)
      /\ \A i \in 1..(n + k) : p[i] = IF i <= n THEN q[i] ELSE r[i - n]
  <2>1. r \in Seq(Messages)
    OBVIOUS
  <2> QED BY <1>1, <2>1
<1>3. /\ \A i \in 1..n : i \in 1..(n + k) /\ i <= n
      /\ \A i \in 1..(n + k) : i \in 1..n \/ (i - n \in 1..k /\ ~(i <= n))
  BY <1>2
<1> HIDE DEF n, k
<1>4. \A i \in 1..n : p[i] = q[i]
  BY <1>2, <1>3
<1>5. \A i \in 1..(n + k) : i \in 1..n \/ p[i] \in S
  BY <1>2, <1>3
<1>6. Range(q) \subseteq Range(p) /\ Range(p) \subseteq Range(q) \cup S
  BY <1>2, <1>3, <1>4, <1>5 DEF Range
<1>7. Ack \notin S /\ AckFirst(q) => AckFirst(p)
  BY <1>2, <1>3, <1>4, <1>5 DEF AckFirst
<1> QED BY <1>2, <1>6, <1>7

\* One message added, or none, makes the queue longer.
LEMMA OneMore ==
    ASSUME NEW q \in Seq(Messages), NEW m \in Messages
    PROVE  /\ \A S : Longer(q, q, S)
           /\ Longer(q, Append(q, m), {m}) /\ m \in Range(Append(q, m))
<1>1. ASSUME NEW S PROVE Longer(q, q, S)
  <2>1. <<>> \in Seq(S) /\ q \o <<>> = q
    OBVIOUS
  <2> QED BY <2>1 DEF Longer
<1>2. Longer(q, Append(q, m), {m})
  <2>1. <<m>> \in Seq({m}) /\ Append(q, m) = q \o <<m>>
    OBVIOUS
  <2> QED BY <2>1 DEF Longer
<1>3. m \in Range(Append(q, m))
  <2>1. Len(q) + 1 \in DOMAIN Append(q, m) /\ Append(q, m)[Len(q) + 1] = m
    OBVIOUS
  <2> QED BY <2>1 DEF Range
<1> QED BY <1>1, <1>2, <1>3

(***************************************************************************)
(* What getWs, mount and destroy do.                                       *)
(***************************************************************************)

\* A new socket is opened, which happens only when no other is in use.
Opens(w) ==
    /\ link[w] = "none" /\ \A v \in Sockets : ~Live(v)
    /\ crypto.of = None /\ ~crypto.up /\ ~ready
    /\ link' = [link EXCEPT ![w] = "connecting"]
    /\ cur' = w /\ promise' = w

Calls == UNCHANGED <<link, cur, promise>> \/ \E w \in Sockets : Opens(w)

\* The effect of attaching to the sessions news and detaching from olds.
Tells(news, olds, queues) ==
    /\ attached' \in [Sockets -> SUBSET Sids]
    /\ wire' = [w \in Sockets |-> wire'[w]]
    /\ \A w \in Sockets :
          /\ wire'[w] = queues[w] \/ (ready /\ w = cur /\ link[cur] = "open")
          /\ Longer(queues[w], wire'[w], {Gone(s) : s \in news \ alive})
          /\ attached'[w] \subseteq attached[w] \cup (news \cap alive)
          /\ attached'[w] # {} => attached[w] # {} \/ (ready /\ w = cur /\ link[cur] = "open")
    /\ ready /\ cur # None /\ link[cur] = "open" =>
          \A s \in Sids :
             /\ s \in attached[cur] \ olds => s \in attached'[cur]
             /\ s \in news => IF s \in alive THEN s \in attached'[cur]
                              ELSE Gone(s) \in Range(wire'[cur])

\* The effect of adding the tiles news and removing the tiles olds.
Mounts(news, olds, queues) ==
    /\ tiles' = (tiles \cup news) \ olds /\ dead' = dead \ olds
    /\ Calls
    /\ ready /\ cur # None /\ link[cur] = "open" => UNCHANGED <<link, cur, promise>>
    /\ Tells(news \ olds, olds, queues)

\* The socket or the id that is taken is one of those that are free.
LEMMA FreshIsIn ==
    ASSUME NEW S, S # {}
    PROVE  Fresh(S) \in S
BY DEF Fresh

\* getWs opens a socket only when none is in use.
LEMMA GetWsCalls ==
    ASSUME TypeOK, OneSocket, GetWs
    PROVE  Calls
<1>1. CASE Online \/ promise # None
  BY <1>1 DEF GetWs, Calls
<1>2. CASE ~(Online \/ promise # None)
  <2> DEFINE S == {v \in Sockets : link[v] = "none"}
             w == Fresh(S)
  <2>1. S # {} /\ link' = [link EXCEPT ![w] = "connecting"] /\ cur' = w /\ promise' = w
    BY <1>2 DEF GetWs
  <2>2. w \in S
    BY <2>1, FreshIsIn
  <2> HIDE DEF w
  <2>3. ~(ready /\ Open(cur)) /\ promise = None
    BY <1>2 DEF Online
  <2>4. None \notin Sockets
    BY ClientAssumption
  <2>5. ~ready
    <3> SUFFICES ASSUME ready PROVE FALSE
      OBVIOUS
    <3>1. crypto.up /\ crypto.of # None /\ crypto.of = cur /\ link[cur] \in {"open", "cut"}
      BY DEF OneSocket
    <3> QED BY <2>3, <3>1 DEF Open
  <2>6. \A v \in Sockets : ~Live(v)
    BY <2>3, <2>4, <2>5 DEF OneSocket
  <2>7. crypto.of = None
    <3> SUFFICES ASSUME crypto.of # None PROVE FALSE
      OBVIOUS
    <3>1. crypto.of = cur /\ Live(cur)
      BY DEF OneSocket, Live
    <3>2. cur \in Sockets
      BY <3>1 DEF TypeOK
    <3> QED BY <2>6, <3>1, <3>2
  <2>8. ~crypto.up
    BY <2>7 DEF OneSocket
  <2> QED BY <2>1, <2>2, <2>5, <2>6, <2>7, <2>8 DEF Calls, Opens
<1> QED BY <1>1, <1>2

\* attach and detach over the ready socket have the effect Tells, over none they
\* have no effect.
LEMMA TellTells ==
    ASSUME TypeOK, NEW queues \in [Sockets -> Seq(Messages)],
           NEW news \in SUBSET Sids, NEW olds, Tell(olds, news, queues)
    PROVE  Tells(news, olds, queues)
<1> DEFINE T == {Gone(s) : s \in news \ alive}
           G == Goners(news \ alive)
<1>1. IsFiniteSet(news \ alive)
  BY ClientAssumption, FS_Subset
<1>2. G \in Seq(T) /\ \A s \in news \ alive : \E i \in DOMAIN G : G[i] = Gone(s)
  BY <1>1, GonersSay
<1> HIDE DEF G
<1>3. attached \in [Sockets -> SUBSET Sids] /\ alive \subseteq Sids
  BY DEF TypeOK
<1>4. \A w \in Sockets : \A S : Longer(queues[w], queues[w], S)
  <2> TAKE w \in Sockets
  <2>1. queues[w] \in Seq(Messages) /\ Ack \in Messages
    BY MessagesTyped
  <2> QED BY <2>1, OneMore
<1>5. CASE Online /\ link[cur] = "open"
  <2>1. /\ attached' = [attached EXCEPT ![cur] = (@ \ olds) \cup (news \cap alive)]
        /\ wire' = [queues EXCEPT ![cur] = @ \o G]
    BY <1>5 DEF Tell, G
  <2>2. ready /\ cur # None /\ cur \in Sockets
    BY <1>5 DEF Online, Open, TypeOK
  <2>3. attached' \in [Sockets -> SUBSET Sids]
    BY <1>3, <2>1, <2>2
  <2>4. /\ attached'[cur] = (attached[cur] \ olds) \cup (news \cap alive)
        /\ \A w \in Sockets : w # cur => attached'[w] = attached[w]
    BY <1>3, <2>1, <2>2
  <2>5. wire'[cur] = queues[cur] \o G /\ \A w \in Sockets : w # cur => wire'[w] = queues[w]
    BY <2>1, <2>2
  <2>6. wire' = [w \in Sockets |-> wire'[w]]
    BY <2>1
  <2>7. \A w \in Sockets : Longer(queues[w], wire'[w], T)
    <3>1. Longer(queues[cur], wire'[cur], T)
      BY <1>2, <2>5 DEF Longer
    <3> HIDE DEF T
    <3> QED BY <1>4, <2>5, <3>1
  <2>8. \A s \in news \ alive : Gone(s) \in Range(wire'[cur])
    <3> TAKE s \in news \ alive
    <3>1. PICK i \in DOMAIN G : G[i] = Gone(s)
      BY <1>2
    <3> DEFINE q == queues[cur]
               p == wire'[cur]
    <3>2. G \in Seq(T) /\ q \in Seq(Messages) /\ p = q \o G
      BY <1>2, <2>2, <2>5
    <3> HIDE DEF T, q, p
    <3>3. Len(q) + i \in DOMAIN p /\ p[Len(q) + i] = G[i]
      BY <3>1, <3>2
    <3>4. Gone(s) \in Range(p)
      BY <3>1, <3>3 DEF Range
    <3> QED BY <3>4 DEF p
  <2>9. \A s \in Sids :
          /\ s \in attached[cur] \ olds => s \in attached'[cur]
          /\ s \in news => IF s \in alive THEN s \in attached'[cur]
                           ELSE Gone(s) \in Range(wire'[cur])
    BY <2>4, <2>8
  <2>10. \A w \in Sockets :
          /\ wire'[w] = queues[w] \/ (ready /\ w = cur /\ link[cur] = "open")
          /\ attached'[w] \subseteq attached[w] \cup (news \cap alive)
          /\ attached'[w] # {} => attached[w] # {} \/ (ready /\ w = cur /\ link[cur] = "open")
    BY <1>5, <2>2, <2>4, <2>5
  <2> HIDE DEF T
  <2> QED BY <2>3, <2>6, <2>7, <2>9, <2>10 DEF Tells, T
<1>6. CASE ~(Online /\ link[cur] = "open")
  <2>1. attached' = attached /\ wire' = queues
    BY <1>6 DEF Tell
  <2>2. ~(ready /\ cur # None /\ link[cur] = "open")
    BY <1>6 DEF Online, Open
  <2> HIDE DEF T
  <2>3. \A w \in Sockets : Longer(queues[w], wire'[w], T)
    BY <1>4, <2>1
  <2>4. wire' = [w \in Sockets |-> wire'[w]]
    BY <2>1
  <2> QED BY <1>3, <2>1, <2>2, <2>3, <2>4 DEF Tells, T
<1> QED BY <1>5, <1>6

\* mount and destroy have the effect Mounts.
LEMMA MountAndDestroyMounts ==
    ASSUME TypeOK, OneSocket, NEW queues \in [Sockets -> Seq(Messages)],
           NEW news \in SUBSET Sids, NEW olds, MountAndDestroy(news, olds, queues)
    PROVE  Mounts(news, olds, queues)
<1>1. /\ tiles' = (tiles \cup news) \ olds /\ dead' = dead \ olds
      /\ Tell(olds, news \ olds, queues)
      /\ IF news \ tiles # {} THEN GetWs ELSE UNCHANGED <<link, cur, promise>>
  BY DEF MountAndDestroy
<1>2. Calls
  BY <1>1, GetWsCalls DEF Calls
<1>3. ready /\ cur # None /\ link[cur] = "open" => UNCHANGED <<link, cur, promise>>
  BY <1>1 DEF GetWs, Online, Open
<1>4. Tells(news \ olds, olds, queues)
  <2>1. news \ olds \in SUBSET Sids
    OBVIOUS
  <2> QED BY <1>1, <2>1, TellTells
<1> QED BY <1>1, <1>2, <1>3, <1>4 DEF Mounts

\* Mounting a session that has a tile does nothing.
LEMMA MountMounts ==
    ASSUME TypeOK, OneSocket, NEW queues \in [Sockets -> Seq(Messages)],
           NEW s \in Sids, Mount(s, queues)
    PROVE  \E news \in SUBSET {s} : Mounts(news, {}, queues) /\ s \in tiles'
<1>1. CASE s \notin tiles
  <2>1. Mounts({s}, {}, queues)
    BY <1>1, MountAndDestroyMounts DEF Mount
  <2>2. s \in tiles'
    BY <2>1 DEF Mounts
  <2> QED BY <2>1, <2>2
<1>2. CASE s \in tiles
  <2>1. wire' = queues /\ UNCHANGED <<tiles, dead, attached, link, cur, promise>>
    BY <1>2 DEF Mount
  <2>2. Tells({}, {}, queues)
    <3> DEFINE T == {Gone(t) : t \in {} \ alive}
    <3>1. \A w \in Sockets : Longer(queues[w], wire'[w], T)
      <4> TAKE w \in Sockets
      <4>1. queues[w] \in Seq(Messages) /\ Ack \in Messages
        BY MessagesTyped
      <4> HIDE DEF T
      <4> QED BY <2>1, <4>1, OneMore
    <3> HIDE DEF T
    <3>2. wire' = [w \in Sockets |-> wire'[w]] /\ attached' \in [Sockets -> SUBSET Sids]
      BY <2>1 DEF TypeOK
    <3> QED BY <2>1, <3>1, <3>2 DEF Tells, T
  <2>3. {} \ {} = {}
    OBVIOUS
  <2>4. Mounts({}, {}, queues)
    BY <2>1, <2>2, <2>3 DEF Mounts, Calls
  <2> QED BY <1>2, <2>1, <2>4
<1> QED BY <1>1, <1>2

(***************************************************************************)
(* One socket at a time.                                                   *)
(***************************************************************************)

\* Every action that calls getWs, with what the rest of it leaves alone.
LEMMA Callers ==
    ASSUME TypeOK, OneSocket,
           \/ \E w \in Sockets : Sync(w) \/ HandleCreated(w)
           \/ Reconnect \/ BootCalls \/ BootLists
           \/ \E s \in Sids : Posted(s) \/ CloseShell(s) \/ CloseAnswered(s) \/ Discard(s)
    PROVE  Calls /\ UNCHANGED <<ready, crypto>>
<1>1. ASSUME NEW news, NEW olds, NEW queues, MountAndDestroy(news, olds, queues)
      PROVE  Calls
  BY <1>1, GetWsCalls DEF MountAndDestroy, Calls
<1>2. ASSUME NEW s, NEW queues, Mount(s, queues)
      PROVE  Calls
  BY <1>1, <1>2 DEF Mount, Calls
<1>3. ASSUME NEW s, NEW queues, Destroyed({s}, queues)
      PROVE  Calls
  BY <1>1, <1>3 DEF Destroyed
<1>4. ASSUME NEW w \in Sockets, Sync(w)
      PROVE  Calls /\ UNCHANGED <<ready, crypto>>
  BY <1>1, <1>4 DEF Sync
<1>5. ASSUME NEW w \in Sockets, HandleCreated(w)
      PROVE  Calls /\ UNCHANGED <<ready, crypto>>
  BY <1>2, <1>5 DEF HandleCreated
<1>6. ASSUME Reconnect \/ BootCalls
      PROVE  Calls /\ UNCHANGED <<ready, crypto>>
  BY <1>6, GetWsCalls DEF Reconnect, BootCalls
<1>7. ASSUME BootLists
      PROVE  Calls /\ UNCHANGED <<ready, crypto>>
  BY <1>1, <1>7 DEF BootLists
<1>8. ASSUME NEW s \in Sids, Posted(s)
      PROVE  Calls /\ UNCHANGED <<ready, crypto>>
  BY <1>2, <1>8 DEF Posted, Calls
<1>9. ASSUME NEW s \in Sids, CloseShell(s)
      PROVE  Calls /\ UNCHANGED <<ready, crypto>>
  BY <1>3, <1>9 DEF CloseShell, Calls
<1>10. ASSUME NEW s \in Sids, CloseAnswered(s) \/ Discard(s)
       PROVE  Calls /\ UNCHANGED <<ready, crypto>>
  BY <1>3, <1>10 DEF CloseAnswered, Discard
<1> QED BY <1>4, <1>5, <1>6, <1>7, <1>8, <1>9, <1>10

\* Actions that leave the connection as it is.
Quiet ==
    \/ \E w \in Sockets : HandleAck(w) \/ Drop1(w) \/ SyncPrompted(w) \/ AttachAll(w)
                          \/ HandleGone(w) \/ ServerAuth(w)
    \/ BootFails \/ NewShell \/ OthersCreate
    \/ \E o \in Origins : PromptEnds(o) \/ Post(o)
    \/ \E s \in Sids : Ends(s)

\* No such action touches a socket or the keys.
LEMMA QuietSteps ==
    ASSUME Quiet
    PROVE  UNCHANGED <<link, cur, ready, promise, crypto>>
<1>1. ASSUME NEW w \in Sockets,
             HandleAck(w) \/ Drop1(w) \/ SyncPrompted(w) \/ AttachAll(w)
             \/ HandleGone(w) \/ ServerAuth(w)
      PROVE  UNCHANGED <<link, cur, ready, promise, crypto>>
  BY <1>1 DEF HandleAck, Drop1, SyncPrompted, AttachAll, HandleGone, ServerAuth, net, conn
<1>2. ASSUME BootFails \/ NewShell \/ OthersCreate
      PROVE  UNCHANGED <<link, cur, ready, promise, crypto>>
  BY <1>2 DEF BootFails, NewShell, OthersCreate, net, conn
<1>3. ASSUME NEW o \in Origins, PromptEnds(o) \/ Post(o)
      PROVE  UNCHANGED <<link, cur, ready, promise, crypto>>
  BY <1>3 DEF PromptEnds, Post, net, conn
<1>4. ASSUME NEW s \in Sids, Ends(s)
      PROVE  UNCHANGED <<link, cur, ready, promise, crypto>>
  BY <1>4 DEF Ends, net, conn
<1> QED BY <1>1, <1>2, <1>3, <1>4 DEF Quiet

\* No step opens a second socket, or keeps the keys of a socket that is gone.
LEMMA OneSocketKept ==
    ASSUME TypeOK, OneSocket, OneHandshake, Next
    PROVE  OneSocket'
<1> USE DEF Live
<1>0. /\ link \in [Sockets -> {"none", "connecting", "open", "cut", "closing", "closed"}]
      /\ cur \in Sockets \cup {None} /\ promise \in Sockets \cup {None}
      /\ crypto \in [of : Sockets \cup {None}, up : BOOLEAN] /\ ready \in BOOLEAN
      /\ None \notin Sockets
  BY ClientAssumption DEF TypeOK
<1>1. ASSUME UNCHANGED <<link, cur, ready, promise, crypto>>
      PROVE  OneSocket'
  BY <1>1 DEF OneSocket
<1>2. ASSUME Calls, UNCHANGED <<ready, crypto>>
      PROVE  OneSocket'
  <2>1. ASSUME NEW w \in Sockets, Opens(w)
        PROVE  OneSocket'
    BY <1>0, <1>2, <2>1 DEF OneSocket, Opens
  <2> QED BY <1>1, <1>2, <2>1 DEF Calls
<1>3. ASSUME NEW w \in Sockets, HandleAuth(w)
      PROVE  OneSocket'
  BY <1>0, <1>3 DEF OneSocket, HandleAuth, Sealed, net
<1>4. ASSUME NEW w \in Sockets, Opened(w)
      PROVE  OneSocket'
  BY <1>0, <1>4 DEF OneSocket, Opened
<1>5. ASSUME NEW w \in Sockets, Proved(w)
      PROVE  OneSocket'
  <2>1. link[w] # "closing" /\ w = cur
    BY <1>0, <1>5 DEF OneSocket, OneHandshake, Proved
  <2> QED BY <1>0, <1>5, <2>1 DEF OneSocket, Proved
<1>6. ASSUME NEW w \in Sockets, pc[w] = "proving", CloseWs(w),
             UNCHANGED <<cur, ready, promise, crypto>>
      PROVE  OneSocket'
  <2>1. crypto.up => w # cur
    <3> SUFFICES ASSUME crypto.up, w = cur PROVE FALSE
      OBVIOUS
    <3>1. crypto.of = w
      BY <1>0 DEF OneSocket
    <3>2. crypto = [of |-> w, up |-> TRUE]
      BY <1>0, <3>1
    <3> QED BY <1>6, <3>2 DEF OneHandshake
  <2>2. link' = [link EXCEPT ![w] = IF link[w] \in {"open", "cut"} THEN "closing" ELSE link[w]]
    BY <1>6 DEF CloseWs
  <2> QED BY <1>0, <1>6, <2>1, <2>2 DEF OneSocket
<1>7. ASSUME NEW w \in Sockets, ProofFails(w) \/ Refused(w)
      PROVE  OneSocket'
  BY <1>6, <1>7 DEF ProofFails, Refused, conn
<1>8. ASSUME NEW w \in Sockets, Closed(w)
      PROVE  OneSocket'
  BY <1>0, <1>8 DEF OneSocket, Closed, NoCrypto
<1>9. ASSUME NEW w \in Sockets, Lost(w)
      PROVE  OneSocket'
  BY <1>0, <1>9 DEF OneSocket, Lost, conn
<1>10. ASSUME Restart
       PROVE  OneSocket'
  BY <1>0, <1>10 DEF OneSocket, Restart, conn
<1> QED
  BY <1>1, <1>2, <1>3, <1>4, <1>5, <1>7, <1>8, <1>9, <1>10, Callers, QuietSteps
     DEF Next, Handler, Quiet

(***************************************************************************)
(* One handshake for each socket.                                          *)
(***************************************************************************)

\* What most steps do to the queues: one message is handled at most, and no
\* answer to init-crypto is added.
Orderly(queues) ==
    /\ Calls /\ UNCHANGED <<ready, crypto>>
    /\ \A w \in Sockets :
        /\ queues[w] = wire[w] \/ (wire[w] # <<>> /\ queues[w] = Tail(wire[w]))
        /\ Longer(queues[w], wire'[w], Messages \ {Ack})
        /\ wire'[w] = queues[w] \/ link[w] = "open"
        /\ pc'[w] = pc[w] \/ (pc[w] # "idle" /\ pc'[w] # "proving")
        /\ served'[w] # "no" => served[w] # "no"
        /\ attached'[w] # {} => attached[w] # {} \/ (ready /\ w = cur /\ link[cur] = "open")

\* Messages of a set are messages of a larger set.
LEMMA LongerMore ==
    ASSUME NEW q, NEW p, NEW S, NEW T, S \subseteq T, Longer(q, p, S)
    PROVE  Longer(q, p, T)
BY SMTT(30) DEF Longer

\* An orderly step keeps the handshake of each socket in its place.
LEMMA OrderlyHandshake ==
    ASSUME TypeOK, OneSocket, OneHandshake, NEW queues, Orderly(queues)
    PROVE  OneHandshake'
<1> SUFFICES ASSUME NEW w \in Sockets
             PROVE  /\ link'[w] \in {"none", "connecting"} => wire'[w] = <<>> /\ pc'[w] = "idle"
                    /\ served'[w] # "no" \/ attached'[w] # {} => link'[w] = "open" /\ crypto'.up
                    /\ AckFirst(wire'[w]) /\ (Has(w, Ack)' => pc'[w] = "idle")
                    /\ pc'[w] = "proving" \/ Has(w, Ack)' =>
                          crypto' # [of |-> w, up |-> TRUE] /\ link'[w] # "closing"
  BY DEF OneHandshake, AckFirst
<1>1. /\ Calls /\ UNCHANGED <<ready, crypto>>
      /\ queues[w] = wire[w] \/ (wire[w] # <<>> /\ queues[w] = Tail(wire[w]))
      /\ Longer(queues[w], wire'[w], Messages \ {Ack})
      /\ wire'[w] = queues[w] \/ link[w] = "open"
      /\ pc'[w] = pc[w] \/ (pc[w] # "idle" /\ pc'[w] # "proving")
      /\ served'[w] # "no" => served[w] # "no"
      /\ attached'[w] # {} => attached[w] # {} \/ (ready /\ w = cur /\ link[cur] = "open")
  BY DEF Orderly
<1>2. /\ link[w] \in {"none", "connecting"} => wire[w] = <<>> /\ pc[w] = "idle"
      /\ served[w] # "no" \/ attached[w] # {} => link[w] = "open" /\ crypto.up
      /\ AckFirst(wire[w]) /\ (Has(w, Ack) => pc[w] = "idle")
      /\ pc[w] = "proving" \/ Has(w, Ack) => crypto # [of |-> w, up |-> TRUE] /\ link[w] # "closing"
  BY DEF OneHandshake
<1>3. \/ link'[w] = link[w]
      \/ link[w] = "none" /\ link'[w] = "connecting" /\ ~ready
  <2>1. link \in [Sockets -> {"none", "connecting", "open", "cut", "closing", "closed"}]
    BY DEF TypeOK
  <2> QED BY <1>1, <2>1 DEF Calls, Opens
<1>4. wire[w] \in Seq(Messages)
  BY DEF TypeOK
<1>5. /\ AckFirst(queues[w]) /\ queues[w] \in Seq(Messages)
      /\ Range(queues[w]) \subseteq Range(wire[w])
  BY <1>1, <1>2, <1>4, TailSays
<1>6. /\ AckFirst(wire'[w]) /\ Range(wire'[w]) \subseteq Range(queues[w]) \cup (Messages \ {Ack})
  <2> DEFINE S == Messages \ {Ack}
  <2>1. S \in SUBSET Messages /\ Ack \notin S
    OBVIOUS
  <2>2. Longer(queues[w], wire'[w], S)
    BY <1>1
  <2> HIDE DEF S
  <2>3. AckFirst(wire'[w]) /\ Range(wire'[w]) \subseteq Range(queues[w]) \cup S
    BY <1>5, <2>1, <2>2, LongerSays
  <2> QED BY <2>3 DEF S
<1>7. Has(w, Ack)' => Has(w, Ack)
  BY <1>5, <1>6 DEF Has
<1>8. ready => crypto.up
  BY DEF OneSocket
<1>9. link'[w] \in {"none", "connecting"} => wire'[w] = <<>> /\ pc'[w] = "idle"
  BY <1>1, <1>2, <1>3
<1>10. served'[w] # "no" \/ attached'[w] # {} => link'[w] = "open" /\ crypto'.up
  BY <1>1, <1>2, <1>3, <1>8
<1>11. Has(w, Ack)' => pc'[w] = "idle"
  BY <1>1, <1>2, <1>7
<1>12. pc'[w] = "proving" \/ Has(w, Ack)' =>
          crypto' # [of |-> w, up |-> TRUE] /\ link'[w] # "closing"
  BY <1>1, <1>2, <1>3, <1>7
<1> QED BY <1>6, <1>9, <1>10, <1>11, <1>12

\* Steps that attach and detach are orderly.
LEMMA TellsOrderly ==
    ASSUME TypeOK, OneSocket, NEW queues \in [Sockets -> Seq(Messages)],
           NEW news \in SUBSET Sids, NEW olds,
           Tells(news, olds, queues), Calls, UNCHANGED <<ready, crypto, served>>,
           \A w \in Sockets :
              /\ queues[w] = wire[w] \/ (wire[w] # <<>> /\ queues[w] = Tail(wire[w]))
              /\ pc'[w] = pc[w] \/ (pc[w] # "idle" /\ pc'[w] # "proving")
    PROVE  Orderly(queues)
<1> SUFFICES ASSUME NEW w \in Sockets
             PROVE  /\ Longer(queues[w], wire'[w], Messages \ {Ack})
                    /\ wire'[w] = queues[w] \/ link[w] = "open"
                    /\ served'[w] # "no" => served[w] # "no"
                    /\ attached'[w] # {} =>
                          attached[w] # {} \/ (ready /\ w = cur /\ link[cur] = "open")
  BY DEF Orderly
<1> DEFINE S == {Gone(s) : s \in news \ alive}
<1>1. Longer(queues[w], wire'[w], S)
  BY DEF Tells
<1>2. S \subseteq Messages \ {Ack}
  BY MessagesTyped, Kinds
<1> HIDE DEF S
<1>3. Longer(queues[w], wire'[w], Messages \ {Ack})
  BY <1>1, <1>2, LongerMore
<1> QED BY <1>3 DEF Tells

\* Steps that mount and destroy are orderly.
LEMMA MountsOrderly ==
    ASSUME TypeOK, OneSocket, NEW queues \in [Sockets -> Seq(Messages)],
           NEW news \in SUBSET Sids, NEW olds,
           Mounts(news, olds, queues), UNCHANGED <<ready, crypto, served>>,
           \A w \in Sockets :
              /\ queues[w] = wire[w] \/ (wire[w] # <<>> /\ queues[w] = Tail(wire[w]))
              /\ pc'[w] = pc[w] \/ (pc[w] # "idle" /\ pc'[w] # "proving")
    PROVE  Orderly(queues)
<1>1. news \ olds \in SUBSET Sids
  OBVIOUS
<1> QED BY <1>1, TellsOrderly DEF Mounts

\* The queue of the socket a message of which is handled.
LEMMA HandledQueues ==
    ASSUME TypeOK, NEW w \in Sockets, wire[w] # <<>>
    PROVE  /\ Handled(w) \in [Sockets -> Seq(Messages)]
           /\ Handled(w)[w] = Tail(wire[w])
           /\ \A v \in Sockets : v # w => Handled(w)[v] = wire[v]
<1>1. wire \in [Sockets -> Seq(Messages)]
  BY DEF TypeOK
<1>2. Tail(wire[w]) \in Seq(Messages)
  BY <1>1, TailSays
<1> QED BY <1>1, <1>2 DEF Handled

\* One message is added to some queues of open connections.
LEMMA AppendsOrderly ==
    ASSUME TypeOK, NEW m \in Messages, m # Ack, Calls, UNCHANGED <<ready, crypto, pc>>,
           \A w \in Sockets :
              /\ wire'[w] = wire[w] \/ (link[w] = "open" /\ wire'[w] = Append(wire[w], m))
              /\ served'[w] # "no" => served[w] # "no"
              /\ attached'[w] # {} => attached[w] # {}
    PROVE  Orderly(wire)
<1> SUFFICES ASSUME NEW w \in Sockets
             PROVE  Longer(wire[w], wire'[w], Messages \ {Ack})
  BY DEF Orderly
<1>1. wire[w] \in Seq(Messages)
  BY DEF TypeOK
<1>2. \A S : Longer(wire[w], wire[w], S)
  BY <1>1, OneMore
<1>3. Longer(wire[w], Append(wire[w], m), {m}) /\ {m} \subseteq Messages \ {Ack}
  BY <1>1, OneMore
<1> DEFINE S == Messages \ {Ack}
<1>4. Longer(wire[w], Append(wire[w], m), S)
  BY <1>3, LongerMore
<1>5. Longer(wire[w], wire[w], S)
  BY <1>2
<1> HIDE DEF S
<1>6. Longer(wire[w], wire'[w], S)
  BY <1>4, <1>5
<1> QED BY <1>6 DEF S

\* The queues hold messages.
LEMMA WiresTyped ==
    ASSUME TypeOK
    PROVE  wire \in [Sockets -> Seq(Messages)]
BY DEF TypeOK

\* sync mounts what the list has and destroys what it lacks.
LEMMA SyncMounts ==
    ASSUME TypeOK, OneSocket, NEW w \in Sockets, Sync(w)
    PROVE  Mounts(known[w] \ tiles, tiles \ known[w], wire)
<1>1. known[w] \ tiles \in SUBSET Sids
  BY DEF TypeOK
<1> QED BY <1>1, WiresTyped, MountAndDestroyMounts DEF Sync

\* The handler of a created event mounts at most that session.
LEMMA CreatedMounts ==
    ASSUME TypeOK, OneSocket, NEW w \in Sockets, HandleCreated(w)
    PROVE  LET s == Head(wire[w]).sid
           IN  /\ s \in Sids /\ Head(wire[w]) = Created(s) /\ wire[w] # <<>>
               /\ \E news \in SUBSET {s} : Mounts(news, {}, Handled(w)) /\ s \in tiles'
<1>1. /\ wire[w] # <<>> /\ Head(wire[w]).type = "created" /\ Mount(Head(wire[w]).sid, Handled(w))
  BY DEF HandleCreated, Sealed, Next1
<1>2. Head(wire[w]) \in Messages
  BY <1>1, WiresTyped, TailSays
<1>3. Head(wire[w]).sid \in Sids /\ Head(wire[w]) = Created(Head(wire[w]).sid)
  BY <1>1, <1>2, MessagesTyped
<1>4. Handled(w) \in [Sockets -> Seq(Messages)]
  BY <1>1, HandledQueues
<1> DEFINE t == Head(wire[w]).sid
<1>5. t \in Sids /\ Mount(t, Handled(w))
  BY <1>1, <1>3
<1> HIDE DEF t
<1>6. \E news \in SUBSET {t} : Mounts(news, {}, Handled(w)) /\ t \in tiles'
  BY <1>4, <1>5, MountMounts
<1> QED BY <1>1, <1>3, <1>6 DEF t

\* restore mounts what its list has.
LEMMA BootMounts ==
    ASSUME TypeOK, OneSocket, BootLists
    PROVE  Mounts(bootList \ tiles, {}, wire)
<1>1. bootList \ tiles \in SUBSET Sids
  BY DEF TypeOK
<1> QED BY <1>1, WiresTyped, MountAndDestroyMounts DEF BootLists

\* The answer of a POST mounts at most the new session.
LEMMA PostedMounts ==
    ASSUME TypeOK, OneSocket, NEW s \in Sids, Posted(s)
    PROVE  \/ UNCHANGED <<wire, tiles, dead, attached, link, cur, promise>>
           \/ \E news \in SUBSET {s} : Mounts(news, {}, wire)
BY WiresTyped, MountMounts DEF Posted

\* destroy removes one tile.
LEMMA DestroyedMounts ==
    ASSUME TypeOK, OneSocket, NEW s \in Sids, Destroyed({s}, wire)
    PROVE  Mounts({}, {s}, wire)
BY WiresTyped, MountAndDestroyMounts DEF Destroyed

\* What the queues are to the steps that use the connection.
LEMMA CallersOrderly ==
    ASSUME TypeOK, OneSocket, OneHandshake,
           \/ \E w \in Sockets : Sync(w) \/ HandleCreated(w)
           \/ Reconnect \/ BootCalls \/ BootLists
           \/ \E s \in Sids : Posted(s) \/ CloseShell(s) \/ CloseAnswered(s) \/ Discard(s)
    PROVE  \E queues : Orderly(queues)
<1>0. Calls /\ UNCHANGED <<ready, crypto>> /\ wire \in [Sockets -> Seq(Messages)]
  BY Callers, WiresTyped
<1>1. ASSUME UNCHANGED <<wire, attached, served, pc>>
      PROVE  Orderly(wire)
  <2>1. PICK s \in Sids : TRUE
    BY ClientAssumption
  <2>2. Gone(s) \in Messages /\ Gone(s) # Ack
    BY MessagesTyped, Kinds
  <2> QED BY <1>0, <1>1, <2>2, AppendsOrderly
<1>2. ASSUME NEW w \in Sockets, Sync(w)
      PROVE  Orderly(wire)
  <2>1. known[w] \ tiles \in SUBSET Sids /\ pc = [v \in Sockets |-> pc[v]]
    BY DEF TypeOK
  <2>2. UNCHANGED <<ready, crypto, served>> /\ pc[w] = "syncing"
        /\ pc' = [pc EXCEPT ![w] = IF tiles' = {} THEN "prompting" ELSE "attaching"]
    BY <1>2 DEF Sync
  <2>3. \A v \in Sockets : pc'[v] = pc[v] \/ (pc[v] # "idle" /\ pc'[v] # "proving")
    BY <2>1, <2>2
  <2>4. Mounts(known[w] \ tiles, tiles \ known[w], wire)
    BY <1>2, SyncMounts
  <2> QED BY <1>0, <2>1, <2>2, <2>3, <2>4, MountsOrderly
<1>3. ASSUME NEW w \in Sockets, HandleCreated(w)
      PROVE  Orderly(Handled(w))
  <2>1. PICK news \in SUBSET {Head(wire[w]).sid} : Mounts(news, {}, Handled(w))
    BY <1>3, CreatedMounts
  <2>2. news \in SUBSET Sids /\ wire[w] # <<>>
    BY <1>3, CreatedMounts
  <2>3. UNCHANGED <<ready, crypto, served, pc>>
    BY <1>3 DEF HandleCreated
  <2> QED BY <1>0, <2>1, <2>2, <2>3, HandledQueues, MountsOrderly
<1>4. ASSUME Reconnect \/ BootCalls
      PROVE  Orderly(wire)
  BY <1>1, <1>4 DEF Reconnect, BootCalls, view
<1>5. ASSUME BootLists
      PROVE  Orderly(wire)
  <2>1. bootList \ tiles \in SUBSET Sids
    BY DEF TypeOK
  <2>2. UNCHANGED <<ready, crypto, served, pc>>
    BY <1>5 DEF BootLists
  <2> QED BY <1>0, <1>5, <2>1, <2>2, BootMounts, MountsOrderly
<1>6. ASSUME NEW s \in Sids, Posted(s)
      PROVE  Orderly(wire)
  <2>1. UNCHANGED <<ready, crypto, served, pc>>
    BY <1>6 DEF Posted
  <2>2. \A news \in SUBSET {s} : news \in SUBSET Sids
    OBVIOUS
  <2>3. ASSUME NEW news \in SUBSET {s}, Mounts(news, {}, wire)
        PROVE  Orderly(wire)
    BY <1>0, <2>1, <2>2, <2>3, MountsOrderly
  <2> QED BY <1>1, <1>6, <2>1, <2>3, PostedMounts
<1>7. ASSUME NEW s \in Sids, Destroyed({s}, wire), UNCHANGED <<ready, crypto, served, pc>>
      PROVE  Orderly(wire)
  <2>1. {} \in SUBSET Sids
    OBVIOUS
  <2> QED BY <1>0, <1>7, <2>1, DestroyedMounts, MountsOrderly
<1>8. ASSUME NEW s \in Sids, CloseAnswered(s) \/ Discard(s)
      PROVE  Orderly(wire)
  BY <1>7, <1>8 DEF CloseAnswered, Discard
<1>9. ASSUME NEW s \in Sids, wire' = Gone1(s), UNCHANGED <<served, pc>>,
             \A w \in Sockets : attached'[w] \subseteq attached[w]
      PROVE  Orderly(wire)
  <2>1. \A w \in Sockets : s \in attached[w] => link[w] = "open"
    BY <1>9 DEF OneHandshake
  <2>2. Gone(s) \in Messages /\ Gone(s) # Ack
    BY MessagesTyped, Kinds
  <2>3. \A w \in Sockets :
          /\ wire'[w] = wire[w] \/ (link[w] = "open" /\ wire'[w] = Append(wire[w], Gone(s)))
          /\ served'[w] # "no" => served[w] # "no"
          /\ attached'[w] # {} => attached[w] # {}
    BY <1>9, <2>1 DEF Gone1
  <2> QED BY <1>0, <1>9, <2>2, <2>3, AppendsOrderly
<1>10. ASSUME NEW s \in Sids, CloseShell(s)
       PROVE  Orderly(wire)
  BY <1>7, <1>9, <1>10 DEF CloseShell
<1> QED BY <1>2, <1>3, <1>4, <1>5, <1>6, <1>8, <1>10

\* A step that takes one message from one queue and adds none is orderly.
LEMMA DropsOrderly ==
    ASSUME TypeOK, NEW w \in Sockets, wire[w] # <<>>, wire' = Handled(w),
           UNCHANGED <<link, cur, promise, ready, crypto, served, attached, pc>>
    PROVE  Orderly(Handled(w))
<1>1. Handled(w) \in [Sockets -> Seq(Messages)]
  BY HandledQueues
<1>2. \A v \in Sockets : Longer(Handled(w)[v], wire'[v], Messages \ {Ack})
  <2> TAKE v \in Sockets
  <2>1. wire'[v] = Handled(w)[v] /\ Handled(w)[v] \in Seq(Messages) /\ Ack \in Messages
    BY <1>1, MessagesTyped
  <2> DEFINE S == Messages \ {Ack}
  <2> HIDE DEF S
  <2>2. Longer(Handled(w)[v], wire'[v], S)
    BY <2>1, OneMore
  <2> QED BY <2>2 DEF S
<1> QED BY <1>2, HandledQueues DEF Orderly, Calls

\* All quiet steps but the start of the handshake are orderly.
LEMMA QuietOrderly ==
    ASSUME TypeOK, OneSocket, OneHandshake, Quiet, ~ \E w \in Sockets : HandleAck(w)
    PROVE  \E queues : Orderly(queues)
<1>0. /\ UNCHANGED <<link, cur, ready, promise, crypto>> /\ Calls
      /\ wire \in [Sockets -> Seq(Messages)]
      /\ pc = [v \in Sockets |-> pc[v]]
  BY QuietSteps, WiresTyped DEF Calls, TypeOK
<1>1. ASSUME NEW m \in Messages, m # Ack, UNCHANGED pc,
             \A w \in Sockets :
                /\ wire'[w] = wire[w] \/ (link[w] = "open" /\ wire'[w] = Append(wire[w], m))
                /\ served'[w] # "no" => served[w] # "no"
                /\ attached'[w] # {} => attached[w] # {}
      PROVE  Orderly(wire)
  BY <1>0, <1>1, AppendsOrderly
<1>2. ASSUME UNCHANGED <<wire, attached, served, pc>>
      PROVE  Orderly(wire)
  <2>1. PICK s \in Sids : TRUE
    BY ClientAssumption
  <2>2. Gone(s) \in Messages /\ Gone(s) # Ack
    BY MessagesTyped, Kinds
  <2> QED BY <1>1, <1>2, <2>2
<1>3. ASSUME NEW w \in Sockets, Drop1(w) \/ HandleGone(w)
      PROVE  Orderly(Handled(w))
  <2>1. wire[w] # <<>> /\ wire' = Handled(w) /\ UNCHANGED <<served, attached, pc>>
    BY <1>3 DEF Drop1, HandleGone, Sealed, Next1, net, view
  <2> QED BY <1>0, <2>1, DropsOrderly
<1>4. ASSUME NEW w \in Sockets, SyncPrompted(w)
      PROVE  Orderly(wire)
  <2>1. /\ pc[w] = "prompting" /\ pc' = [pc EXCEPT ![w] = "attaching"]
        /\ UNCHANGED <<wire, served, attached>>
    BY <1>4 DEF SyncPrompted, net, view
  <2>2. \A v \in Sockets : pc'[v] = pc[v] \/ (pc[v] # "idle" /\ pc'[v] # "proving")
    BY <1>0, <2>1
  <2>3. \A v \in Sockets : Longer(wire[v], wire'[v], Messages \ {Ack})
    <3> TAKE v \in Sockets
    <3>1. wire'[v] = wire[v] /\ wire[v] \in Seq(Messages) /\ Ack \in Messages
      BY <1>0, <2>1, MessagesTyped
    <3> DEFINE S == Messages \ {Ack}
    <3> HIDE DEF S
    <3>2. Longer(wire[v], wire'[v], S)
      BY <3>1, OneMore
    <3> QED BY <3>2 DEF S
  <2> QED BY <1>0, <2>1, <2>2, <2>3 DEF Orderly
<1>5. ASSUME NEW w \in Sockets, AttachAll(w)
      PROVE  Orderly(wire)
  <2>1. /\ Tell({}, tiles, wire) /\ pc[w] = "attaching"
        /\ pc' = [pc EXCEPT ![w] = "idle"] /\ UNCHANGED served
    BY <1>5 DEF AttachAll, net
  <2>2. tiles \in SUBSET Sids
    BY DEF TypeOK
  <2>3. Tells(tiles, {}, wire)
    BY <1>0, <2>1, <2>2, TellTells
  <2>4. \A v \in Sockets : pc'[v] = pc[v] \/ (pc[v] # "idle" /\ pc'[v] # "proving")
    BY <1>0, <2>1
  <2> QED BY <1>0, <2>1, <2>2, <2>3, <2>4, TellsOrderly
<1>6. ASSUME NEW w \in Sockets, ServerAuth(w)
      PROVE  Orderly(wire)
  <2>1. /\ served[w] = "ready" /\ served' = [served EXCEPT ![w] = "sent"]
        /\ wire' = [wire EXCEPT ![w] = Append(@, Auth(snap[w]))]
        /\ UNCHANGED <<attached, pc>>
    BY <1>6 DEF ServerAuth, view
  <2>2. Auth(snap[w]) \in Messages /\ Auth(snap[w]) # Ack
    BY MessagesTyped, Kinds DEF TypeOK
  <2>3. link[w] = "open"
    BY <2>1 DEF OneHandshake
  <2>4. \A v \in Sockets :
          /\ wire'[v] = wire[v] \/ (link[v] = "open" /\ wire'[v] = Append(wire[v], Auth(snap[w])))
          /\ served'[v] # "no" => served[v] # "no"
    BY <1>0, <2>1, <2>3 DEF TypeOK
  <2> QED BY <1>1, <2>1, <2>2, <2>4
<1>7. ASSUME NEW s \in Sids, wire' = ToAll(Created(s)), UNCHANGED <<served, attached, pc>>
      PROVE  Orderly(wire)
  <2>1. Created(s) \in Messages /\ Created(s) # Ack
    BY MessagesTyped, Kinds
  <2>2. \A v \in Sockets :
          wire'[v] = wire[v] \/ (link[v] = "open" /\ wire'[v] = Append(wire[v], Created(s)))
    BY <1>7 DEF ToAll
  <2> QED BY <1>1, <1>7, <2>1, <2>2
<1>8. ASSUME NEW o \in Origins, Post(o)
      PROVE  \E queues : Orderly(queues)
  <2>1. Fresh(unborn) \in Sids
    BY <1>8, FreshIsIn DEF Post, TypeOK
  <2>2. wire' = ToAll(Created(Fresh(unborn))) /\ UNCHANGED <<served, attached, pc>>
    BY <1>8 DEF Post, net, view
  <2> QED BY <1>7, <2>1, <2>2
<1>9. ASSUME OthersCreate
      PROVE  \E queues : Orderly(queues)
  <2>1. Fresh(unborn) \in Sids
    BY <1>9, FreshIsIn DEF OthersCreate, TypeOK
  <2>2. wire' = ToAll(Created(Fresh(unborn))) /\ UNCHANGED <<served, attached, pc>>
    BY <1>9 DEF OthersCreate, net, view
  <2> QED BY <1>7, <2>1, <2>2
<1>10. ASSUME NEW s \in Sids, Ends(s)
       PROVE  Orderly(wire)
  <2>1. /\ wire' = Gone1(s) /\ UNCHANGED <<served, pc>>
        /\ attached' = [w \in Sockets |-> attached[w] \ {s}]
    BY <1>10 DEF Ends, net
  <2>2. \A w \in Sockets : s \in attached[w] => link[w] = "open"
    BY DEF OneHandshake
  <2>3. Gone(s) \in Messages /\ Gone(s) # Ack
    BY MessagesTyped, Kinds
  <2>4. \A w \in Sockets :
          /\ wire'[w] = wire[w] \/ (link[w] = "open" /\ wire'[w] = Append(wire[w], Gone(s)))
          /\ attached'[w] # {} => attached[w] # {}
    BY <2>1, <2>2 DEF Gone1
  <2> QED BY <1>1, <2>1, <2>3, <2>4
<1>11. ASSUME BootFails \/ NewShell \/ \E o \in Origins : PromptEnds(o)
       PROVE  Orderly(wire)
  BY <1>2, <1>11 DEF BootFails, NewShell, PromptEnds, net, view
<1> QED BY <1>3, <1>4, <1>5, <1>6, <1>8, <1>9, <1>10, <1>11 DEF Quiet

\* A socket shakes hands once, whatever happens to it.
LEMMA OneHandshakeKept ==
    ASSUME TypeOK, OneSocket, OneHandshake, Next
    PROVE  OneHandshake'
<1>0. /\ link \in [Sockets -> {"none", "connecting", "open", "cut", "closing", "closed"}]
      /\ cur \in Sockets \cup {None}
      /\ crypto \in [of : Sockets \cup {None}, up : BOOLEAN] /\ ready \in BOOLEAN
      /\ pc = [v \in Sockets |-> pc[v]] /\ served = [v \in Sockets |-> served[v]]
      /\ attached = [v \in Sockets |-> attached[v]]
      /\ wire \in [Sockets -> Seq(Messages)]
      /\ None \notin Sockets
  BY ClientAssumption DEF TypeOK
<1> DEFINE Good(w) ==
        /\ link[w] \in {"none", "connecting"} => wire[w] = <<>> /\ pc[w] = "idle"
        /\ served[w] # "no" \/ attached[w] # {} => link[w] = "open" /\ crypto.up
        /\ AckFirst(wire[w]) /\ (Has(w, Ack) => pc[w] = "idle")
        /\ pc[w] = "proving" \/ Has(w, Ack) =>
              crypto # [of |-> w, up |-> TRUE] /\ link[w] # "closing"
<1>1. OneHandshake <=> \A w \in Sockets : Good(w)
  BY DEF OneHandshake
<1>2. (\A w \in Sockets : Good(w)') => OneHandshake'
  BY DEF OneHandshake, AckFirst
<1>3. ASSUME NEW w \in Sockets, HandleAck(w)
      PROVE  OneHandshake'
  <2>1. /\ pc[w] = "idle" /\ wire[w] # <<>> /\ Head(wire[w]).type = "crypto-ack"
        /\ wire' = Handled(w) /\ pc' = [pc EXCEPT ![w] = "proving"]
        /\ UNCHANGED <<link, served, attached, crypto>>
    BY <1>3 DEF HandleAck, Next1, net, view, conn
  <2>2. Head(wire[w]) \in Messages /\ Head(wire[w]) \in Range(wire[w])
    BY <1>0, <2>1, TailSays
  <2>3. Head(wire[w]) = Ack
    BY <2>1, <2>2, MessagesTyped
  <2>4. Has(w, Ack)
    BY <2>2, <2>3 DEF Has
  <2>5. AckFirst(Tail(wire[w])) /\ Ack \notin Range(Tail(wire[w]))
    BY <1>0, <2>1, TailSays DEF OneHandshake
  <2>6. wire'[w] = Tail(wire[w]) /\ \A v \in Sockets : v # w => wire'[v] = wire[v]
    BY <2>1, HandledQueues
  <2>7. Good(w)'
    <3>1. pc'[w] = "proving" /\ ~Has(w, Ack)' /\ AckFirst(wire'[w])
      BY <1>0, <2>1, <2>5, <2>6 DEF Has
    <3> QED BY <1>1, <2>1, <2>4, <3>1 DEF AckFirst
  <2>8. \A v \in Sockets : v # w => Good(v)'
    BY <1>0, <1>1, <2>1, <2>6 DEF Has, AckFirst
  <2> QED BY <1>2, <2>7, <2>8
<1>4. ASSUME NEW w \in Sockets, HandleAuth(w)
      PROVE  OneHandshake'
  <2>1. /\ pc[w] = "idle" /\ wire[w] # <<>> /\ crypto = [of |-> w, up |-> TRUE]
        /\ wire' = Handled(w) /\ pc' = [pc EXCEPT ![w] = "syncing"]
        /\ UNCHANGED <<link, served, attached, crypto>>
    BY <1>4 DEF HandleAuth, Sealed, Next1, net, view
  <2>2. ~Has(w, Ack)
    BY <2>1 DEF OneHandshake
  <2>3. AckFirst(Tail(wire[w])) /\ Ack \notin Range(Tail(wire[w]))
    BY <1>0, <2>1, TailSays DEF OneHandshake
  <2>4. wire'[w] = Tail(wire[w]) /\ \A v \in Sockets : v # w => wire'[v] = wire[v]
    BY <2>1, HandledQueues
  <2>5. Good(w)'
    <3>1. pc'[w] = "syncing" /\ ~Has(w, Ack)' /\ AckFirst(wire'[w])
      BY <1>0, <2>1, <2>3, <2>4 DEF Has
    <3> QED BY <1>1, <2>1, <3>1 DEF AckFirst
  <2>6. \A v \in Sockets : v # w => Good(v)'
    BY <1>0, <1>1, <2>1, <2>4 DEF Has, AckFirst
  <2> QED BY <1>2, <2>5, <2>6
<1>5. ASSUME NEW w \in Sockets, Opened(w)
      PROVE  OneHandshake'
  <2>1. /\ link[w] = "connecting" /\ link' = [link EXCEPT ![w] = "open"]
        /\ crypto' = [of |-> w, up |-> FALSE]
        /\ wire' = [wire EXCEPT ![w] = Append(@, Ack)]
        /\ UNCHANGED <<pc, served, attached>>
    BY <1>5 DEF Opened, view
  <2>2. wire[w] = <<>> /\ pc[w] = "idle"
    BY <2>1 DEF OneHandshake
  <2>3. wire'[w] = <<Ack>> /\ \A v \in Sockets : v # w => wire'[v] = wire[v]
    BY <1>0, <2>1, <2>2
  <2>4. \A v \in Sockets : served[v] = "no" /\ attached[v] = {}
    BY <2>1 DEF OneHandshake, OneSocket, Live
  <2>5. AckFirst(<<Ack>>)
    BY DEF AckFirst
  <2>6. Good(w)'
    BY <1>0, <2>1, <2>2, <2>3, <2>4, <2>5 DEF AckFirst
  <2>7. \A v \in Sockets : v # w => Good(v)'
    BY <1>0, <1>1, <2>1, <2>3, <2>4 DEF Has, AckFirst
  <2> QED BY <1>2, <2>6, <2>7
<1>6. ASSUME NEW w \in Sockets, Proved(w)
      PROVE  OneHandshake'
  <2>1. /\ pc[w] = "proving" /\ crypto.of = w /\ crypto' = [of |-> w, up |-> TRUE]
        /\ pc' = [pc EXCEPT ![w] = "idle"] /\ UNCHANGED <<link, wire, attached>>
        /\ \A v \in Sockets : served'[v] = served[v] \/ link[v] = "open"
    BY <1>0, <1>6 DEF Proved, view
  <2>2. ~Has(w, Ack)
    BY <2>1 DEF OneHandshake
  <2> QED BY <1>0, <1>1, <1>2, <2>1, <2>2 DEF Has, AckFirst
<1>7. ASSUME NEW w \in Sockets, pc[w] = "proving", CloseWs(w), pc' = [pc EXCEPT ![w] = "idle"],
             UNCHANGED <<wire, crypto>>
      PROVE  OneHandshake'
  <2>1. ~Has(w, Ack)
    BY <1>7 DEF OneHandshake
  <2>2. /\ attached' = [attached EXCEPT ![w] = {}] /\ served' = [served EXCEPT ![w] = "no"]
        /\ \A v \in Sockets : v # w => link'[v] = link[v]
        /\ link[w] \in {"none", "connecting"} <=> link'[w] \in {"none", "connecting"}
    BY <1>0, <1>7 DEF CloseWs
  <2> QED BY <1>0, <1>1, <1>2, <1>7, <2>1, <2>2 DEF Has, AckFirst
<1>8. ASSUME NEW w \in Sockets, ProofFails(w) \/ Refused(w)
      PROVE  OneHandshake'
  BY <1>7, <1>8 DEF ProofFails, Refused, conn
<1>9. ASSUME NEW w \in Sockets, Closed(w)
      PROVE  OneHandshake'
  <2>1. /\ link[w] \in {"cut", "closing", "connecting"} /\ link' = [link EXCEPT ![w] = "closed"]
        /\ crypto' = NoCrypto /\ UNCHANGED <<served, attached, wire, pc>>
    BY <1>9 DEF Closed
  <2>2. \A v \in Sockets : served[v] = "no" /\ attached[v] = {}
    BY <2>1 DEF OneHandshake, OneSocket, Live
  <2> QED BY <1>0, <1>1, <1>2, <2>1, <2>2 DEF Has, AckFirst, NoCrypto
<1>10. ASSUME NEW w \in Sockets, Lost(w)
       PROVE  OneHandshake'
  <2>1. /\ link[w] = "open" /\ link' = [link EXCEPT ![w] = "cut"]
        /\ attached' = [attached EXCEPT ![w] = {}] /\ served' = [served EXCEPT ![w] = "no"]
        /\ UNCHANGED <<wire, pc, crypto>>
    BY <1>10 DEF Lost, conn
  <2> QED BY <1>0, <1>1, <1>2, <2>1 DEF Has, AckFirst
<1>11. ASSUME Restart
       PROVE  OneHandshake'
  <2>1. /\ link' = [w \in Sockets |-> IF link[w] = "open" THEN "cut" ELSE link[w]]
        /\ attached' = [w \in Sockets |-> {}] /\ served' = [w \in Sockets |-> "no"]
        /\ UNCHANGED <<wire, pc, crypto>>
    BY <1>11 DEF Restart, conn
  <2> QED BY <1>0, <1>1, <1>2, <2>1 DEF Has, AckFirst
<1> HIDE DEF Good
<1>12. ASSUME NEW queues, Orderly(queues)
       PROVE  OneHandshake'
  BY <1>12, OrderlyHandshake
<1> QED
  BY <1>3, <1>4, <1>5, <1>6, <1>8, <1>9, <1>10, <1>11, <1>12, CallersOrderly, QuietOrderly
     DEF Next, Handler, Quiet

(***************************************************************************)
(* Types.                                                                  *)
(***************************************************************************)

ConnTyped ==
    /\ link \in [Sockets -> {"none", "connecting", "open", "cut", "closing", "closed"}]
    /\ cur \in Sockets \cup {None} /\ promise \in Sockets \cup {None}

\* getWs keeps the types of the connection.
LEMMA CallsTyped ==
    ASSUME TypeOK, Calls
    PROVE  ConnTyped'
<1>1. ConnTyped
  BY DEF TypeOK, ConnTyped
<1>2. ASSUME NEW w \in Sockets, Opens(w)
      PROVE  ConnTyped'
  BY <1>1, <1>2 DEF ConnTyped, Opens
<1> QED BY <1>1, <1>2 DEF Calls, ConnTyped

\* attach and detach keep the types of the queues and of the attachments.
LEMMA TellsTyped ==
    ASSUME NEW queues \in [Sockets -> Seq(Messages)],
           NEW news \in SUBSET Sids, NEW olds, Tells(news, olds, queues)
    PROVE  wire' \in [Sockets -> Seq(Messages)] /\ attached' \in [Sockets -> SUBSET Sids]
<1>1. ASSUME NEW w \in Sockets
      PROVE  wire'[w] \in Seq(Messages)
  <2> DEFINE S == {Gone(s) : s \in news \ alive}
  <2>1. Longer(queues[w], wire'[w], S) /\ queues[w] \in Seq(Messages)
    BY DEF Tells
  <2>2. S \in SUBSET Messages
    BY MessagesTyped
  <2> HIDE DEF S
  <2> QED BY <2>1, <2>2, LongerSays
<1> DEFINE Q == Seq(Messages)
<1>2. \A w \in Sockets : wire'[w] \in Q
  BY <1>1
<1>3. wire' = [w \in Sockets |-> wire'[w]] /\ attached' \in [Sockets -> SUBSET Sids]
  BY DEF Tells
<1> HIDE DEF Q
<1>4. wire' \in [Sockets -> Q]
  BY <1>2, <1>3
<1> QED BY <1>3, <1>4 DEF Q

\* The part of the types that mount and destroy are about.
ViewTyped ==
    /\ ConnTyped
    /\ wire \in [Sockets -> Seq(Messages)] /\ attached \in [Sockets -> SUBSET Sids]
    /\ tiles \subseteq Sids /\ dead \subseteq tiles

\* mount and destroy keep the types of what is shown.
LEMMA MountsTyped ==
    ASSUME TypeOK, NEW queues \in [Sockets -> Seq(Messages)],
           NEW news \in SUBSET Sids, NEW olds, Mounts(news, olds, queues)
    PROVE  ViewTyped'
<1>1. news \ olds \in SUBSET Sids /\ tiles \subseteq Sids /\ dead \subseteq tiles
  BY DEF TypeOK
<1>2. tiles' \subseteq Sids /\ dead' \subseteq tiles'
  BY <1>1 DEF Mounts
<1>3. ConnTyped'
  BY CallsTyped DEF Mounts
<1>4. wire' \in [Sockets -> Seq(Messages)] /\ attached' \in [Sockets -> SUBSET Sids]
  BY <1>1, TellsTyped DEF Mounts
<1> QED BY <1>2, <1>3, <1>4 DEF ViewTyped

\* The rest of the types.
RestTyped ==
    /\ alive \subseteq Sids /\ unborn \subseteq Sids /\ alive \cap unborn = {}
    /\ served \in [Sockets -> {"no", "ready", "sent"}]
    /\ snap \in [Sockets -> SUBSET Sids]
    /\ ready \in BOOLEAN /\ timer \in BOOLEAN /\ cancelled \in BOOLEAN
    /\ crypto \in [of : Sockets \cup {None}, up : BOOLEAN]
    /\ pc \in [Sockets -> {"idle", "proving", "syncing", "prompting", "attaching"}]
    /\ known \in [Sockets -> SUBSET Sids]
    /\ prompts \subseteq Origins
    /\ posting \in [Sids -> [by : Origins, key : Sockets] \cup {None}]
    /\ deleting \subseteq Sids
    /\ boot \in {"calling", "connecting", "listing", "prompting", "done"}
    /\ attempt \in 0..Attempts /\ bootList \subseteq Sids
    /\ events \in 0..MaxEvents

\* The two parts of the types.
LEMMA TypesSplit == TypeOK <=> ViewTyped /\ RestTyped
BY DEF TypeOK, ViewTyped, RestTyped, ConnTyped

\* A message added to a queue keeps the types of the queues.
LEMMA WireTypes ==
    ASSUME TypeOK
    PROVE  /\ \A w \in Sockets, m \in Messages :
                 [wire EXCEPT ![w] = Append(@, m)] \in [Sockets -> Seq(Messages)]
           /\ \A s \in Sids : /\ ToAll(Created(s)) \in [Sockets -> Seq(Messages)]
                              /\ Gone1(s) \in [Sockets -> Seq(Messages)]
<1> DEFINE Q == Seq(Messages)
<1>1. wire \in [Sockets -> Q]
  BY WiresTyped
<1>2. \A q \in Q, m \in Messages : Append(q, m) \in Q
  OBVIOUS
<1> HIDE DEF Q
<1>3. \A w \in Sockets, m \in Messages : [wire EXCEPT ![w] = Append(@, m)] \in [Sockets -> Q]
  BY <1>1, <1>2
<1>4. ASSUME NEW s \in Sids
      PROVE  ToAll(Created(s)) \in [Sockets -> Q] /\ Gone1(s) \in [Sockets -> Q]
  BY <1>1, <1>2, MessagesTyped DEF ToAll, Gone1
<1> QED BY <1>3, <1>4 DEF Q

\* The initial states are well typed.
LEMMA InitTyped ==
    ASSUME Init
    PROVE  TypeOK
<1>1. Fresh(Sids) \in Sids /\ Fresh(Sids) = CHOOSE s \in Sids : TRUE
  BY ClientAssumption, FreshIsIn DEF Fresh
<1>2. alive \subseteq Sids /\ unborn = Sids \ alive
  BY <1>1 DEF Init
<1>3. ViewTyped
  BY DEF Init, ViewTyped, ConnTyped
<1>4. RestTyped
  <2>1. attempt \in 0..Attempts /\ events \in 0..MaxEvents
    BY ClientAssumption DEF Init
  <2> QED BY <1>2, <2>1 DEF Init, RestTyped, NoCrypto
<1> QED BY <1>3, <1>4, TypesSplit

\* Every step keeps the types.
LEMMA TypeKept ==
    ASSUME TypeOK, OneSocket, Tries, Next
    PROVE  TypeOK'
<1>0. /\ ViewTyped /\ RestTyped /\ ConnTyped
      /\ wire \in [Sockets -> Seq(Messages)]
      /\ {} \in SUBSET Sids
  BY TypesSplit DEF ViewTyped
<1>q. ASSUME RestTyped', ViewTyped'
      PROVE  TypeOK'
  BY <1>q DEF TypeOK, ViewTyped, RestTyped, ConnTyped
<1>e. Happens => events' \in 0..MaxEvents
  <2>1. MaxEvents \in Nat /\ events \in 0..MaxEvents
    BY <1>0, ClientAssumption DEF RestTyped
  <2> QED BY <2>1 DEF Happens
<1>v. ASSUME UNCHANGED <<link, cur, promise, wire, attached, tiles, dead>>
      PROVE  ViewTyped'
  BY <1>0, <1>v DEF ViewTyped, ConnTyped
<1>h. ASSUME NEW w \in Sockets, wire[w] # <<>>
      PROVE  Handled(w) \in [Sockets -> Seq(Messages)]
  BY <1>h, HandledQueues
<1>1. ASSUME NEW w \in Sockets, HandleAck(w)
      PROVE  TypeOK'
  <2>1. ViewTyped'
    BY <1>0, <1>1, <1>h DEF HandleAck, Next1, ViewTyped, ConnTyped, net, conn, view
  <2>2. RestTyped'
    BY <1>0, <1>1 DEF HandleAck, RestTyped, server, net, conn, pages
  <2> QED BY <1>q, <2>1, <2>2
<1>2. ASSUME NEW w \in Sockets, Proved(w)
      PROVE  TypeOK'
  <2>1. ViewTyped'
    BY <1>v, <1>2 DEF Proved, view
  <2>2. RestTyped'
    BY <1>0, <1>2, ZenonT(30) DEF Proved, RestTyped, server, pages
  <2> QED BY <1>q, <2>1, <2>2
<1>3. ASSUME NEW w \in Sockets, CloseWs(w), UNCHANGED <<cur, promise, wire, tiles, dead, snap>>
      PROVE  ViewTyped' /\ served' \in [Sockets -> {"no", "ready", "sent"}]
  BY <1>0, <1>3 DEF CloseWs, ViewTyped, RestTyped, ConnTyped
<1>4. ASSUME NEW w \in Sockets, ProofFails(w)
      PROVE  TypeOK'
  <2>1. ViewTyped' /\ served' \in [Sockets -> {"no", "ready", "sent"}]
    BY <1>3, <1>4 DEF ProofFails, conn
  <2>2. RestTyped'
    BY <1>0, <1>4, <2>1 DEF ProofFails, RestTyped, server, conn, pages
  <2> QED BY <1>q, <2>1, <2>2
<1>5. ASSUME NEW w \in Sockets, Refused(w)
      PROVE  TypeOK'
  <2>1. ViewTyped' /\ served' \in [Sockets -> {"no", "ready", "sent"}]
    BY <1>3, <1>5 DEF Refused
  <2>2. RestTyped'
    BY <1>0, <1>5, <2>1, <1>e DEF Refused, RestTyped, server, pages
  <2> QED BY <1>q, <2>1, <2>2
<1>6. ASSUME NEW w \in Sockets, Drop1(w)
      PROVE  TypeOK'
  <2>1. ViewTyped'
    BY <1>0, <1>6, <1>h DEF Drop1, ViewTyped, ConnTyped, net, conn, view
  <2>2. RestTyped'
    BY <1>0, <1>6 DEF Drop1, RestTyped, server, net, conn, pages
  <2> QED BY <1>q, <2>1, <2>2
<1>7. ASSUME NEW w \in Sockets, HandleAuth(w)
      PROVE  TypeOK'
  <2>1. ViewTyped'
    BY <1>0, <1>7, <1>h DEF HandleAuth, Sealed, Next1, ViewTyped, ConnTyped, net, view
  <2>2. wire[w] # <<>> /\ Head(wire[w]).type = "auth-success"
    BY <1>7 DEF HandleAuth, Sealed, Next1
  <2>3. Head(wire[w]).list \in SUBSET Sids
    BY <1>0, <2>2, TailSays, MessagesTyped
  <2>4. RestTyped'
    BY <1>0, <1>7, <2>3 DEF HandleAuth, RestTyped, server, net, pages
  <2> QED BY <1>q, <2>1, <2>4
<1>8. ASSUME NEW w \in Sockets, Sync(w)
      PROVE  TypeOK'
  <2>1. known[w] \ tiles \in SUBSET Sids
    BY DEF TypeOK
  <2>2. ViewTyped'
    BY <1>0, <1>8, <2>1, SyncMounts, MountsTyped
  <2>3. RestTyped'
    BY <1>0, <1>8 DEF Sync, RestTyped, server, Origins
  <2> QED BY <1>q, <2>2, <2>3
<1>9. ASSUME NEW w \in Sockets, SyncPrompted(w)
      PROVE  TypeOK'
  <2>1. ViewTyped'
    BY <1>v, <1>9 DEF SyncPrompted, net, conn, view
  <2>2. RestTyped'
    BY <1>0, <1>9 DEF SyncPrompted, RestTyped, server, net, conn, pages
  <2> QED BY <1>q, <2>1, <2>2
<1>10. ASSUME NEW w \in Sockets, AttachAll(w)
       PROVE  TypeOK'
  <2>1. tiles \in SUBSET Sids
    BY DEF TypeOK
  <2>2. wire' \in [Sockets -> Seq(Messages)] /\ attached' \in [Sockets -> SUBSET Sids]
    BY <1>0, <1>10, <2>1, TellTells, TellsTyped DEF AttachAll
  <2>3. ViewTyped'
    BY <1>0, <1>10, <2>2 DEF AttachAll, ViewTyped, ConnTyped, net, conn
  <2>4. RestTyped'
    BY <1>0, <1>10 DEF AttachAll, RestTyped, server, net, conn
  <2> QED BY <1>q, <2>3, <2>4
<1>11. ASSUME NEW w \in Sockets, HandleCreated(w)
       PROVE  TypeOK'
  <2>1. PICK news \in SUBSET {Head(wire[w]).sid} : Mounts(news, {}, Handled(w))
    BY <1>11, CreatedMounts
  <2>2. news \in SUBSET Sids /\ Handled(w) \in [Sockets -> Seq(Messages)]
    BY <1>11, <1>h, CreatedMounts
  <2>3. ViewTyped'
    BY <2>1, <2>2, MountsTyped
  <2>4. RestTyped'
    BY <1>0, <1>11 DEF HandleCreated, RestTyped, server, pages
  <2> QED BY <1>q, <2>3, <2>4
<1>12. ASSUME NEW w \in Sockets, HandleGone(w)
       PROVE  TypeOK'
  <2>1. ViewTyped'
    BY <1>0, <1>12, <1>h DEF HandleGone, Sealed, Next1, ViewTyped, ConnTyped, net, conn
  <2>2. RestTyped'
    BY <1>0, <1>12 DEF HandleGone, RestTyped, server, net, conn, pages
  <2> QED BY <1>q, <2>1, <2>2
<1>13. ASSUME NEW w \in Sockets, Opened(w)
       PROVE  TypeOK'
  <2>1. wire' \in [Sockets -> Seq(Messages)]
    BY <1>13, WireTypes, MessagesTyped DEF Opened
  <2>2. ViewTyped'
    BY <1>0, <1>13, <2>1 DEF Opened, ViewTyped, ConnTyped, view
  <2>3. RestTyped'
    BY <1>0, <1>13 DEF Opened, RestTyped, server, pages
  <2> QED BY <1>q, <2>2, <2>3
<1>14. ASSUME NEW w \in Sockets, ServerAuth(w)
       PROVE  TypeOK'
  <2>1. Auth(snap[w]) \in Messages
    BY <1>0, MessagesTyped DEF RestTyped
  <2>2. wire' \in [Sockets -> Seq(Messages)]
    BY <1>14, <2>1, WireTypes DEF ServerAuth
  <2>3. ViewTyped'
    BY <1>0, <1>14, <2>2 DEF ServerAuth, ViewTyped, ConnTyped, conn, view
  <2>4. RestTyped'
    BY <1>0, <1>14 DEF ServerAuth, RestTyped, server, conn, pages
  <2> QED BY <1>q, <2>3, <2>4
<1>15. ASSUME NEW w \in Sockets, Closed(w)
       PROVE  TypeOK'
  <2>1. ViewTyped'
    BY <1>0, <1>15 DEF Closed, ViewTyped, ConnTyped
  <2>2. RestTyped'
    BY <1>0, <1>15, <1>e DEF Closed, RestTyped, server, NoCrypto, Origins
  <2> QED BY <1>q, <2>1, <2>2
<1>16. ASSUME NEW w \in Sockets, Lost(w)
       PROVE  TypeOK'
  <2>1. ViewTyped'
    BY <1>0, <1>16 DEF Lost, ViewTyped, ConnTyped, conn
  <2>2. RestTyped'
    BY <1>0, <1>16, <1>e DEF Lost, RestTyped, server, conn, pages
  <2> QED BY <1>q, <2>1, <2>2
<1>17. ASSUME Reconnect
       PROVE  TypeOK'
  <2>1. ConnTyped'
    BY <1>17, GetWsCalls, CallsTyped DEF Reconnect
  <2>2. ViewTyped'
    BY <1>0, <1>17, <2>1 DEF Reconnect, ViewTyped, view
  <2>3. RestTyped'
    BY <1>0, <1>17 DEF Reconnect, RestTyped, server, pages
  <2> QED BY <1>q, <2>2, <2>3
<1>18. ASSUME Restart
       PROVE  TypeOK'
  <2>1. ViewTyped'
    BY <1>0, <1>18 DEF Restart, ViewTyped, ConnTyped, conn
  <2>2. RestTyped'
    BY <1>0, <1>18, <1>e DEF Restart, RestTyped, conn, pages
  <2> QED BY <1>q, <2>1, <2>2
<1>19. ASSUME BootCalls
       PROVE  TypeOK'
  <2>1. ConnTyped'
    BY <1>19, GetWsCalls, CallsTyped DEF BootCalls
  <2>2. ViewTyped'
    BY <1>0, <1>19, <2>1 DEF BootCalls, ViewTyped, view
  <2>3. attempt' \in 0..Attempts
    <3>1. Attempts \in Nat /\ attempt \in 0..Attempts /\ attempt < Attempts
      BY <1>0, <1>19, ClientAssumption DEF BootCalls, RestTyped, Tries
    <3> QED BY <1>19, <3>1 DEF BootCalls
  <2>4. RestTyped'
    BY <1>0, <1>19, <2>3 DEF BootCalls, RestTyped, server
  <2> QED BY <1>q, <2>2, <2>4
<1>20. ASSUME BootLists
       PROVE  TypeOK'
  <2>1. bootList \ tiles \in SUBSET Sids
    BY DEF TypeOK
  <2>2. ViewTyped'
    BY <1>0, <1>20, <2>1, BootMounts, MountsTyped
  <2>3. RestTyped'
    BY <1>0, <1>20 DEF BootLists, RestTyped, server, Origins
  <2> QED BY <1>q, <2>2, <2>3
<1>21. ASSUME BootFails \/ NewShell
       PROVE  TypeOK'
  <2>1. ViewTyped'
    BY <1>v, <1>21 DEF BootFails, NewShell, net, conn, view
  <2>2. RestTyped'
    BY <1>0, <1>21, <1>e, ZenonT(30)
       DEF BootFails, NewShell, RestTyped, server, net, conn, Origins
  <2> QED BY <1>q, <2>1, <2>2
<1>22. ASSUME NEW s \in Sids, alive' = alive \cup {s}, unborn' = unborn \ {s},
              wire' = ToAll(Created(s)), UNCHANGED <<conn, view, link>>
       PROVE  /\ ViewTyped' /\ alive' \subseteq Sids
              /\ unborn' \subseteq Sids /\ alive' \cap unborn' = {}
  BY <1>0, <1>22, WireTypes DEF ViewTyped, ConnTyped, RestTyped, conn, view
<1>23. ASSUME OthersCreate
       PROVE  TypeOK'
  <2>1. Fresh(unborn) \in Sids
    BY <1>0, <1>23, FreshIsIn DEF OthersCreate, RestTyped
  <2>2. ViewTyped' /\ alive' \subseteq Sids /\ unborn' \subseteq Sids /\ alive' \cap unborn' = {}
    BY <1>22, <1>23, <2>1 DEF OthersCreate, net
  <2>3. RestTyped'
    BY <1>0, <1>23, <2>2, <1>e DEF OthersCreate, RestTyped, net, conn, pages
  <2> QED BY <1>q, <2>2, <2>3
<1>24. ASSUME NEW o \in Origins, PromptEnds(o)
       PROVE  TypeOK'
  <2>1. ViewTyped'
    BY <1>v, <1>24 DEF PromptEnds, net, conn, view
  <2>2. RestTyped'
    BY <1>0, <1>24 DEF PromptEnds, RestTyped, server, net, conn
  <2> QED BY <1>q, <2>1, <2>2
<1>25. ASSUME NEW o \in Origins, Post(o)
       PROVE  TypeOK'
  <2>1. Fresh(unborn) \in Sids
    BY <1>0, <1>25, FreshIsIn DEF Post, RestTyped
  <2>2. ViewTyped' /\ alive' \subseteq Sids /\ unborn' \subseteq Sids /\ alive' \cap unborn' = {}
    BY <1>22, <1>25, <2>1 DEF Post, net
  <2>3. crypto.of \in Sockets
    BY <1>0, <1>25 DEF Post, OneSocket, RestTyped
  <2>4. RestTyped'
    BY <1>0, <1>25, <2>1, <2>2, <2>3 DEF Post, RestTyped, net, conn
  <2> QED BY <1>q, <2>2, <2>4
<1>26. ASSUME NEW s \in Sids, Posted(s)
       PROVE  TypeOK'
  <2>1. \A news \in SUBSET {s} : news \in SUBSET Sids
    OBVIOUS
  <2>2. ViewTyped'
    BY <1>0, <1>v, <1>26, <2>1, PostedMounts, MountsTyped
  <2>3. RestTyped'
    BY <1>0, <1>26 DEF Posted, RestTyped, server
  <2> QED BY <1>q, <2>2, <2>3
<1>27. ASSUME NEW s \in Sids, Destroyed({s}, wire)
       PROVE  ViewTyped' /\ prompts' \subseteq Origins
  <2>1. ViewTyped'
    BY <1>0, <1>27, DestroyedMounts, MountsTyped
  <2> QED BY <1>0, <1>27, <2>1 DEF Destroyed, RestTyped, Origins
<1>28. ASSUME NEW s \in Sids, wire' = Gone1(s), UNCHANGED <<link, cur, promise, tiles, dead>>,
              attached' \in [Sockets -> SUBSET Sids]
       PROVE  ViewTyped'
  BY <1>0, <1>28, WireTypes DEF ViewTyped, ConnTyped
<1>29. ASSUME NEW s \in Sids, CloseShell(s)
       PROVE  TypeOK'
  <2>1. ViewTyped' /\ prompts' \subseteq Origins
    BY <1>0, <1>27, <1>28, <1>29 DEF CloseShell, ViewTyped, RestTyped
  <2>2. RestTyped'
    BY <1>0, <1>29, <2>1, <1>e DEF CloseShell, RestTyped, ViewTyped
  <2> QED BY <1>q, <2>1, <2>2
<1>30. ASSUME NEW s \in Sids, CloseAnswered(s) \/ Discard(s)
       PROVE  TypeOK'
  <2>1. ViewTyped' /\ prompts' \subseteq Origins
    BY <1>27, <1>30 DEF CloseAnswered, Discard
  <2>2. RestTyped'
    BY <1>0, <1>30, <2>1 DEF CloseAnswered, Discard, RestTyped, server
  <2> QED BY <1>q, <2>1, <2>2
<1>31. ASSUME NEW s \in Sids, Ends(s)
       PROVE  TypeOK'
  <2>1. attached' \in [Sockets -> SUBSET Sids]
    BY <1>0, <1>31 DEF Ends, ViewTyped
  <2>2. ViewTyped'
    BY <1>28, <1>31, <2>1 DEF Ends, net, conn
  <2>3. RestTyped'
    BY <1>0, <1>31, <1>e DEF Ends, RestTyped, net, conn, pages
  <2> QED BY <1>q, <2>2, <2>3
<1> QED
  BY <1>1, <1>2, <1>4, <1>5, <1>6, <1>7, <1>8, <1>9, <1>10, <1>11, <1>12, <1>13, <1>14, <1>15,
     <1>16, <1>17, <1>18, <1>19, <1>20, <1>21, <1>23, <1>24, <1>25, <1>26, <1>29, <1>30, <1>31
     DEF Next, Handler

\* restore starts no attempt beyond the last one.
LEMMA TriesKept ==
    ASSUME TypeOK, Tries, Next
    PROVE  Tries'
<1>1. ASSUME UNCHANGED <<boot, attempt>> \/ boot' # "calling"
      PROVE  Tries'
  BY <1>1 DEF Tries
<1>2. ASSUME NEW w \in Sockets, Handler(w)
      PROVE  Tries'
  BY <1>1, <1>2
     DEF Handler, HandleAck, Proved, ProofFails, Drop1, HandleAuth, Sync, SyncPrompted,
         AttachAll, HandleCreated, HandleGone, pages
<1>3. ASSUME NEW w \in Sockets, Opened(w) \/ Refused(w) \/ ServerAuth(w) \/ Lost(w)
      PROVE  Tries'
  BY <1>1, <1>3 DEF Opened, Refused, ServerAuth, Lost, pages
<1>4. ASSUME NEW w \in Sockets, Closed(w)
      PROVE  Tries'
  BY <1>1, <1>4 DEF Closed, Tries
<1>5. ASSUME Reconnect \/ Restart \/ BootCalls \/ BootLists \/ BootFails \/ NewShell \/ OthersCreate
      PROVE  Tries'
  BY <1>1, <1>5 DEF Reconnect, Restart, BootCalls, BootLists, BootFails, NewShell,
                        OthersCreate, pages
<1>6. ASSUME NEW o \in Origins, PromptEnds(o) \/ Post(o)
      PROVE  Tries'
  BY <1>1, <1>6 DEF PromptEnds, Post
<1>7. ASSUME NEW s \in Sids, Posted(s) \/ CloseShell(s) \/ CloseAnswered(s) \/ Discard(s) \/ Ends(s)
      PROVE  Tries'
  BY <1>1, <1>7 DEF Posted, CloseShell, CloseAnswered, Discard, Ends, pages
<1> QED BY <1>2, <1>3, <1>4, <1>5, <1>6, <1>7 DEF Next

(***************************************************************************)
(* A session that ended does not come back.                                *)
(***************************************************************************)

\* What is said and attached, and what is remembered.
Said == \A w \in Sockets : /\ attached[w] \cap unborn = {}
                           /\ \A m \in Range(wire[w]) : Honest(m)

Kept ==
    /\ (dead \cup deleting) \cap (alive \cup unborn) = {}
    /\ (tiles \cup bootList) \cap unborn = {}
    /\ \A s \in Sids : posting[s] # None => s \notin unborn
    /\ \A w \in Sockets : (snap[w] \cup known[w]) \cap unborn = {}

\* The two parts of IdsAreFresh.
LEMMA IdsSplit == IdsAreFresh <=> Said /\ Kept
BY DEF IdsAreFresh, Said, Kept

\* Sessions are born once and end once.
Ages == unborn' \subseteq unborn /\ alive' \cup unborn' \subseteq alive \cup unborn

\* A message that is true stays true.
LEMMA HonestStays ==
    ASSUME Ages, NEW m, Honest(m)
    PROVE  Honest(m)'
BY DEF Ages, Honest

\* Steps that attach nothing and add true messages only keep what is said true.
LEMMA SaidStays ==
    ASSUME Said, Ages,
           \A w \in Sockets : /\ attached'[w] \subseteq attached[w]
                              /\ \A m \in Range(wire'[w]) : m \in Range(wire[w]) \/ Honest(m)'
    PROVE  Said'
BY HonestStays DEF Said, Ages

\* The server answers gone for what has ended, and attaches what lives.
LEMMA TellsHonest ==
    ASSUME Said, NEW queues \in [Sockets -> Seq(Messages)],
           NEW news \in SUBSET Sids, NEW olds, news \cap unborn = {},
           Tells(news, olds, queues), UNCHANGED <<alive, unborn>>,
           \A w \in Sockets : Range(queues[w]) \subseteq Range(wire[w])
    PROVE  Said'
<1> SUFFICES ASSUME NEW w \in Sockets
             PROVE  /\ attached'[w] \cap unborn' = {}
                    /\ \A m \in Range(wire'[w]) : Honest(m)'
  BY DEF Said
<1> DEFINE S == {Gone(s) : s \in news \ alive}
<1>1. Longer(queues[w], wire'[w], S) /\ queues[w] \in Seq(Messages)
  BY DEF Tells
<1>2. S \in SUBSET Messages
  BY MessagesTyped
<1>3. \A m \in S : Honest(m)
  BY Kinds DEF Honest
<1> HIDE DEF S
<1>4. Range(wire'[w]) \subseteq Range(wire[w]) \cup S
  BY <1>1, <1>2, LongerSays
<1>5. \A m \in Range(wire'[w]) : Honest(m)'
  BY <1>3, <1>4, HonestStays DEF Said, Ages
<1>6. attached'[w] \cap unborn' = {}
  BY DEF Tells, Said
<1> QED BY <1>5, <1>6

\* mount and destroy keep what is said true, and mount nothing unborn.
LEMMA MountsHonest ==
    ASSUME TypeOK, IdsAreFresh, NEW queues \in [Sockets -> Seq(Messages)],
           NEW news \in SUBSET Sids, NEW olds, news \cap unborn = {},
           Mounts(news, olds, queues), UNCHANGED <<alive, unborn>>,
           \A w \in Sockets : Range(queues[w]) \subseteq Range(wire[w])
    PROVE  /\ Said' /\ tiles' \cap unborn' = {} /\ dead' \subseteq dead
<1>1. news \ olds \in SUBSET Sids /\ (news \ olds) \cap unborn = {}
  OBVIOUS
<1>2. Said'
  BY <1>1, IdsSplit, TellsHonest DEF Mounts
<1> QED BY <1>2 DEF Mounts, IdsAreFresh

\* What a queue holds when a message is handled or added.
LEMMA RangesOfWires ==
    ASSUME TypeOK
    PROVE  /\ \A w \in Sockets : wire[w] # <<>> =>
                 \A v \in Sockets : Range(Handled(w)[v]) \subseteq Range(wire[v])
           /\ \A w \in Sockets, m \in Messages :
                 Range(Append(wire[w], m)) \subseteq Range(wire[w]) \cup {m}
<1>1. \A w \in Sockets : wire[w] \in Seq(Messages)
  BY WiresTyped
<1>2. ASSUME NEW w \in Sockets, wire[w] # <<>>, NEW v \in Sockets
      PROVE  Range(Handled(w)[v]) \subseteq Range(wire[v])
  BY <1>1, <1>2, HandledQueues, TailSays
<1>3. ASSUME NEW w \in Sockets, NEW m \in Messages
      PROVE  Range(Append(wire[w], m)) \subseteq Range(wire[w]) \cup {m}
  <2>1. Longer(wire[w], Append(wire[w], m), {m}) /\ {m} \in SUBSET Messages
    BY <1>1, OneMore
  <2> QED BY <1>1, <2>1, LongerSays
<1> QED BY <1>2, <1>3

\* No step brings a session back, or speaks of one that is not born.
LEMMA IdsKept ==
    ASSUME TypeOK, OneSocket, IdsAreFresh, Next
    PROVE  IdsAreFresh'
<1>0. /\ Said /\ Kept /\ alive \cap unborn = {}
      /\ wire \in [Sockets -> Seq(Messages)]
      /\ \A w \in Sockets : Range(wire[w]) \subseteq Range(wire[w])
      /\ tiles \subseteq Sids /\ unborn \subseteq Sids /\ alive \subseteq Sids
      /\ known \in [Sockets -> SUBSET Sids] /\ snap \in [Sockets -> SUBSET Sids]
      /\ attached \in [Sockets -> SUBSET Sids]
      /\ posting = [s \in Sids |-> posting[s]]
  BY IdsSplit DEF TypeOK
<1>q. ASSUME Said', Kept'
      PROVE  IdsAreFresh'
  BY <1>q DEF IdsAreFresh, Said, Kept
<1>s. ASSUME UNCHANGED <<alive, unborn, wire>>,
             \A w \in Sockets : attached'[w] \subseteq attached[w]
      PROVE  Said'
  BY <1>0, <1>s, SaidStays DEF Ages
<1>h. ASSUME NEW w \in Sockets, wire[w] # <<>>, wire' = Handled(w),
             UNCHANGED <<alive, unborn, attached>>
      PROVE  Said'
  BY <1>0, <1>h, RangesOfWires, SaidStays DEF Ages
<1>1. ASSUME NEW w \in Sockets, HandleAck(w) \/ Drop1(w)
      PROVE  IdsAreFresh'
  <2>1. Said'
    BY <1>h, <1>1 DEF HandleAck, Drop1, Next1, server, view
  <2>2. Kept'
    BY <1>0, <1>1 DEF HandleAck, Drop1, Kept, server, net, view, pages
  <2> QED BY <1>q, <2>1, <2>2
<1>2. ASSUME NEW w \in Sockets, Proved(w)
      PROVE  IdsAreFresh'
  <2>1. Said'
    BY <1>s, <1>2 DEF Proved, server, view
  <2>2. Kept'
    BY <1>0, <1>2 DEF Proved, Kept, server, view, pages
  <2> QED BY <1>q, <2>1, <2>2
<1>3. ASSUME NEW w \in Sockets, ProofFails(w) \/ Refused(w) \/ Lost(w)
      PROVE  IdsAreFresh'
  <2>1. \A v \in Sockets : attached'[v] \subseteq attached[v]
    BY <1>0, <1>3 DEF ProofFails, Refused, Lost, CloseWs
  <2>2. Said'
    BY <1>s, <1>3, <2>1 DEF ProofFails, Refused, Lost, server
  <2>3. Kept'
    BY <1>0, <1>3 DEF ProofFails, Refused, Lost, Kept, server, pages
  <2> QED BY <1>q, <2>2, <2>3
<1>4. ASSUME NEW w \in Sockets, HandleAuth(w)
      PROVE  IdsAreFresh'
  <2>1. wire[w] # <<>> /\ Head(wire[w]).type = "auth-success" /\ wire' = Handled(w)
    BY <1>4 DEF HandleAuth, Sealed, Next1
  <2>2. Honest(Head(wire[w]))
    BY <1>0, <2>1, TailSays DEF Said
  <2>3. Head(wire[w]).list \cap unborn = {}
    BY <2>1, <2>2 DEF Honest
  <2>4. Said'
    BY <1>h, <1>4, <2>1 DEF HandleAuth, server, view
  <2>5. Kept'
    BY <1>0, <1>4, <2>3 DEF HandleAuth, Kept, server, net, view, pages
  <2> QED BY <1>q, <2>4, <2>5
<1>5. ASSUME NEW w \in Sockets, Sync(w)
      PROVE  IdsAreFresh'
  <2>1. known[w] \ tiles \in SUBSET Sids /\ (known[w] \ tiles) \cap unborn = {}
    BY <1>0 DEF Kept
  <2>2. Said' /\ tiles' \cap unborn' = {} /\ dead' \subseteq dead
    BY <1>0, <1>5, <2>1, SyncMounts, MountsHonest DEF Sync, server
  <2>3. Kept'
    BY <1>0, <1>5, <2>2 DEF Sync, Kept, server
  <2> QED BY <1>q, <2>2, <2>3
<1>6. ASSUME NEW w \in Sockets, SyncPrompted(w)
      PROVE  IdsAreFresh'
  <2>1. Said'
    BY <1>s, <1>6 DEF SyncPrompted, server, view
  <2>2. Kept'
    BY <1>0, <1>6 DEF SyncPrompted, Kept, server, net, view, pages
  <2> QED BY <1>q, <2>1, <2>2
<1>7. ASSUME NEW w \in Sockets, AttachAll(w)
      PROVE  IdsAreFresh'
  <2>1. tiles \in SUBSET Sids /\ tiles \cap unborn = {}
    BY <1>0 DEF Kept
  <2>2. Tells(tiles, {}, wire)
    BY <1>0, <1>7, <2>1, TellTells DEF AttachAll
  <2>3. Said'
    BY <1>0, <1>7, <2>1, <2>2, TellsHonest DEF AttachAll, server
  <2>4. Kept'
    BY <1>0, <1>7 DEF AttachAll, Kept, server, net
  <2> QED BY <1>q, <2>3, <2>4
<1>8. ASSUME NEW w \in Sockets, HandleCreated(w)
      PROVE  IdsAreFresh'
  <2> DEFINE s == Head(wire[w]).sid
  <2>1. wire[w] # <<>> /\ Head(wire[w]).type = "created" /\ s \in Sids
    BY <1>8, CreatedMounts, Kinds
  <2>2. Honest(Head(wire[w]))
    BY <1>0, <2>1, TailSays DEF Said
  <2>3. s \notin unborn
    BY <2>1, <2>2 DEF Honest
  <2>4. PICK news \in SUBSET {s} : Mounts(news, {}, Handled(w))
    BY <1>8, CreatedMounts
  <2>5. news \in SUBSET Sids /\ news \cap unborn = {}
    BY <2>1, <2>3
  <2>6. Handled(w) \in [Sockets -> Seq(Messages)]
        /\ \A v \in Sockets : Range(Handled(w)[v]) \subseteq Range(wire[v])
    BY <2>1, HandledQueues, RangesOfWires
  <2>7. Said' /\ tiles' \cap unborn' = {} /\ dead' \subseteq dead
    BY <1>8, <2>4, <2>5, <2>6, MountsHonest DEF HandleCreated, server
  <2>8. Kept'
    BY <1>0, <1>8, <2>7 DEF HandleCreated, Kept, server, pages
  <2> QED BY <1>q, <2>7, <2>8
<1>9. ASSUME NEW w \in Sockets, HandleGone(w)
      PROVE  IdsAreFresh'
  <2>1. wire[w] # <<>> /\ Head(wire[w]).type = "gone" /\ wire' = Handled(w)
    BY <1>9 DEF HandleGone, Sealed, Next1
  <2>2. Honest(Head(wire[w]))
    BY <1>0, <2>1, TailSays DEF Said
  <2>3. Head(wire[w]).sid \notin alive \cup unborn
    BY <2>1, <2>2 DEF Honest
  <2>4. Said'
    BY <1>h, <1>9, <2>1 DEF HandleGone, server
  <2>5. Kept'
    BY <1>0, <1>9, <2>3 DEF HandleGone, Kept, server, net, pages
  <2> QED BY <1>q, <2>4, <2>5
<1>10. ASSUME NEW w \in Sockets, NEW m \in Messages, Honest(m),
              wire' = [wire EXCEPT ![w] = Append(@, m)], UNCHANGED <<alive, unborn, attached>>
       PROVE  Said'
  <2>1. \A v \in Sockets : Range(wire'[v]) \subseteq Range(wire[v]) \cup {m}
    BY <1>0, <1>10, RangesOfWires
  <2> QED BY <1>0, <1>10, <2>1, HonestStays, SaidStays DEF Ages
<1>11. ASSUME NEW w \in Sockets, Opened(w)
       PROVE  IdsAreFresh'
  <2>1. Ack \in Messages /\ Honest(Ack)
    BY MessagesTyped, Kinds DEF Honest
  <2>2. Said'
    BY <1>10, <1>11, <2>1 DEF Opened, server, view
  <2>3. Kept'
    BY <1>0, <1>11 DEF Opened, Kept, server, view, pages
  <2> QED BY <1>q, <2>2, <2>3
<1>12. ASSUME NEW w \in Sockets, ServerAuth(w)
       PROVE  IdsAreFresh'
  <2>1. Auth(snap[w]) \in Messages /\ Honest(Auth(snap[w]))
    BY <1>0, MessagesTyped, Kinds DEF Honest, Kept
  <2>2. Said'
    BY <1>10, <1>12, <2>1 DEF ServerAuth, server, view
  <2>3. Kept'
    BY <1>0, <1>12 DEF ServerAuth, Kept, server, view, pages
  <2> QED BY <1>q, <2>2, <2>3
<1>13. ASSUME NEW w \in Sockets, Closed(w)
       PROVE  IdsAreFresh'
  <2>1. Said'
    BY <1>s, <1>13 DEF Closed, server
  <2>2. Kept'
    BY <1>0, <1>13 DEF Closed, Kept, server
  <2> QED BY <1>q, <2>1, <2>2
<1>14. ASSUME Reconnect \/ BootCalls
       PROVE  IdsAreFresh'
  <2>1. Said'
    BY <1>s, <1>14 DEF Reconnect, BootCalls, server, view
  <2>2. Kept'
    BY <1>0, <1>14 DEF Reconnect, BootCalls, Kept, server, view, pages
  <2> QED BY <1>q, <2>1, <2>2
<1>15. ASSUME Restart
       PROVE  IdsAreFresh'
  <2>1. Ages /\ wire' = wire /\ \A v \in Sockets : attached'[v] = {}
    BY <1>15 DEF Restart, Ages
  <2>2. Said'
    BY <1>0, <2>1, SaidStays
  <2>3. Kept'
    BY <1>0, <1>15 DEF Restart, Kept, pages
  <2> QED BY <1>q, <2>2, <2>3
<1>16. ASSUME BootLists
       PROVE  IdsAreFresh'
  <2>1. bootList \ tiles \in SUBSET Sids /\ (bootList \ tiles) \cap unborn = {}
    BY <1>0 DEF Kept, TypeOK
  <2>2. Said' /\ tiles' \cap unborn' = {} /\ dead' \subseteq dead
    BY <1>0, <1>16, <2>1, BootMounts, MountsHonest DEF BootLists, server
  <2>3. Kept'
    BY <1>0, <1>16, <2>2 DEF BootLists, Kept, server
  <2> QED BY <1>q, <2>2, <2>3
<1>17. ASSUME BootFails \/ NewShell \/ \E o \in Origins : PromptEnds(o)
       PROVE  IdsAreFresh'
  <2>1. Said'
    BY <1>s, <1>17 DEF BootFails, NewShell, PromptEnds, server, view
  <2>2. Kept'
    BY <1>0, <1>17 DEF BootFails, NewShell, PromptEnds, Kept, server, net, view
  <2> QED BY <1>q, <2>1, <2>2
<1>18. ASSUME NEW s \in unborn, alive' = alive \cup {s}, unborn' = unborn \ {s},
              wire' = ToAll(Created(s)), UNCHANGED attached
       PROVE  Said'
  <2>1. Ages /\ Created(s) \in Messages /\ Honest(Created(s))'
    BY <1>0, <1>18, MessagesTyped, Kinds DEF Ages, Honest
  <2>2. \A v \in Sockets : Range(wire'[v]) \subseteq Range(wire[v]) \cup {Created(s)}
    BY <1>18, <2>1, RangesOfWires DEF ToAll
  <2> QED BY <1>0, <1>18, <2>1, <2>2, SaidStays
<1>19. ASSUME OthersCreate
       PROVE  IdsAreFresh'
  <2>1. Fresh(unborn) \in unborn
    BY <1>19, FreshIsIn DEF OthersCreate
  <2>2. Said'
    BY <1>18, <1>19, <2>1 DEF OthersCreate, view
  <2>3. Kept'
    BY <1>0, <1>19, <2>1 DEF OthersCreate, Kept, net, view, pages
  <2> QED BY <1>q, <2>2, <2>3
<1>20. ASSUME NEW o \in Origins, Post(o)
       PROVE  IdsAreFresh'
  <2>1. Fresh(unborn) \in unborn
    BY <1>20, FreshIsIn DEF Post
  <2>2. Said'
    BY <1>18, <1>20, <2>1 DEF Post, view
  <2>3. Kept'
    BY <1>0, <1>20, <2>1 DEF Post, Kept, net, view
  <2> QED BY <1>q, <2>2, <2>3
<1>21. ASSUME NEW s \in Sids, Posted(s)
       PROVE  IdsAreFresh'
  <2>1. s \notin unborn
    BY <1>0, <1>21 DEF Posted, Kept
  <2>2. \A news \in SUBSET {s} : news \in SUBSET Sids /\ news \cap unborn = {}
    BY <2>1
  <2>3. Said' /\ tiles' \cap unborn' = {} /\ dead' \subseteq dead
    <3>1. ASSUME NEW news \in SUBSET {s}, Mounts(news, {}, wire)
          PROVE  Said' /\ tiles' \cap unborn' = {} /\ dead' \subseteq dead
      BY <1>0, <1>21, <2>2, <3>1, MountsHonest DEF Posted, server
    <3>2. ASSUME UNCHANGED <<wire, tiles, dead, attached, link, cur, promise>>
          PROVE  Said' /\ tiles' \cap unborn' = {} /\ dead' \subseteq dead
      BY <1>0, <1>s, <1>21, <3>2 DEF Posted, server, Kept
    <3> QED BY <1>21, <3>1, <3>2, PostedMounts
  <2>4. Kept'
    BY <1>0, <1>21, <2>3 DEF Posted, Kept, server
  <2> QED BY <1>q, <2>3, <2>4
<1>22. ASSUME NEW s \in Sids, Destroyed({s}, wire), UNCHANGED <<alive, unborn>>
       PROVE  Said' /\ tiles' \cap unborn' = {} /\ dead' \subseteq dead
  <2>1. {} \in SUBSET Sids /\ {} \cap unborn = {}
    OBVIOUS
  <2> QED BY <1>0, <1>22, <2>1, DestroyedMounts, MountsHonest
<1>23. ASSUME NEW s \in Sids, s \notin unborn, alive' = alive \ {s}, unborn' = unborn,
              wire' = Gone1(s), \A w \in Sockets : attached'[w] \subseteq attached[w]
       PROVE  Said'
  <2>1. Ages /\ Gone(s) \in Messages /\ Honest(Gone(s))'
    BY <1>0, <1>23, MessagesTyped, Kinds DEF Ages, Honest
  <2>2. \A v \in Sockets : Range(wire'[v]) \subseteq Range(wire[v]) \cup {Gone(s)}
    BY <1>23, <2>1, RangesOfWires DEF Gone1
  <2> QED BY <1>0, <1>23, <2>1, <2>2, SaidStays
<1>24. ASSUME NEW s \in Sids, CloseShell(s)
       PROVE  IdsAreFresh'
  <2>0. s \in tiles /\ s \notin unborn
    BY <1>0, <1>24 DEF CloseShell, Kept
  <2>1. CASE /\ deleting' = deleting \cup {s} /\ alive' = alive \ {s}
             /\ wire' = Gone1(s) /\ UNCHANGED <<tiles, dead, attached>>
    <3>1. Said'
      BY <1>23, <1>24, <2>0, <2>1 DEF CloseShell
    <3>2. Kept'
      BY <1>0, <1>24, <2>0, <2>1 DEF CloseShell, Kept
    <3> QED BY <1>q, <3>1, <3>2
  <2>2. CASE Destroyed({s}, wire) /\ UNCHANGED <<alive, deleting>>
    <3>1. Said' /\ tiles' \cap unborn' = {} /\ dead' \subseteq dead
      BY <1>22, <1>24, <2>2 DEF CloseShell
    <3>2. Kept'
      BY <1>0, <1>24, <2>2, <3>1 DEF CloseShell, Kept
    <3> QED BY <1>q, <3>1, <3>2
  <2> QED BY <1>24, <2>1, <2>2 DEF CloseShell
<1>25. ASSUME NEW s \in Sids, CloseAnswered(s) \/ Discard(s)
       PROVE  IdsAreFresh'
  <2>1. Said' /\ tiles' \cap unborn' = {} /\ dead' \subseteq dead
    BY <1>22, <1>25 DEF CloseAnswered, Discard, server
  <2>2. Kept'
    BY <1>0, <1>25, <2>1 DEF CloseAnswered, Discard, Kept, server
  <2> QED BY <1>q, <2>1, <2>2
<1>26. ASSUME NEW s \in Sids, Ends(s)
       PROVE  IdsAreFresh'
  <2>1. s \notin unborn /\ \A w \in Sockets : attached'[w] \subseteq attached[w]
    BY <1>0, <1>26 DEF Ends
  <2>2. Said'
    BY <1>23, <1>26, <2>1 DEF Ends
  <2>3. Kept'
    BY <1>0, <1>26 DEF Ends, Kept, net, pages
  <2> QED BY <1>q, <2>2, <2>3
<1> QED
  BY <1>1, <1>2, <1>3, <1>4, <1>5, <1>6, <1>7, <1>8, <1>9, <1>11, <1>12, <1>13, <1>14, <1>15, <1>16,
     <1>17, <1>19, <1>20, <1>21, <1>24, <1>25, <1>26
     DEF Next, Handler

(***************************************************************************)
(* No tile of a live session is without an attachment.                     *)
(***************************************************************************)

Attaching == ready /\ cur # None /\ link[cur] = "open" /\ pc[cur] = "idle"

\* A queue that is handled keeps its messages but for the first.
Handling(queues) ==
    \A w \in Sockets : queues[w] = wire[w] \/ (wire[w] # <<>> /\ queues[w] = Tail(wire[w]))

\* A message that is not the first one stays in its queue.
LEMMA HandlingKeeps ==
    ASSUME TypeOK, NEW queues, Handling(queues), NEW w \in Sockets, NEW m \in Range(wire[w]),
           queues[w] = wire[w] \/ m # Head(wire[w])
    PROVE  m \in Range(queues[w])
BY WiresTyped, TailSays DEF Handling

\* A tile that is attached now, or was and is not detached, is shown.
LEMMA TellsShown ==
    ASSUME TypeOK, NEW queues \in [Sockets -> Seq(Messages)],
           NEW news \in SUBSET Sids, NEW olds, Tells(news, olds, queues),
           UNCHANGED <<alive, cur>>, ready, cur # None, link[cur] = "open", cur \in Sockets,
           NEW s \in Sids,
           \/ s \in news
           \/ Gone(s) \in Range(queues[cur])
           \/ s \in (attached[cur] \cap alive) \ olds
    PROVE  Shown(s)'
<1>1. CASE s \in news
  BY <1>1 DEF Tells, Shown, Has
<1>2. CASE Gone(s) \in Range(queues[cur])
  <2> DEFINE S == {Gone(t) : t \in news \ alive}
  <2>1. Longer(queues[cur], wire'[cur], S) /\ queues[cur] \in Seq(Messages)
    BY DEF Tells
  <2>2. S \in SUBSET Messages
    BY MessagesTyped
  <2> HIDE DEF S
  <2>3. Range(queues[cur]) \subseteq Range(wire'[cur])
    BY <2>1, <2>2, LongerSays
  <2> QED BY <1>2, <2>3 DEF Shown, Has
<1>3. CASE s \in (attached[cur] \cap alive) \ olds
  BY <1>3 DEF Tells, Shown, Has
<1> QED BY <1>1, <1>2, <1>3

\* mount and destroy leave no tile without an attachment.
LEMMA MountsShown ==
    ASSUME TypeOK, TilesAttached, NEW queues \in [Sockets -> Seq(Messages)],
           NEW news \in SUBSET Sids, NEW olds, Mounts(news, olds, queues), Handling(queues),
           UNCHANGED <<alive, ready>>, pc'[cur] = "idle" => pc[cur] = "idle",
           \A w \in Sockets : queues[w] = wire[w] \/ Head(wire[w]).type # "gone"
    PROVE  TilesAttached'
<1> SUFFICES ASSUME Attaching', NEW s \in tiles' \ dead'
             PROVE  Shown(s)'
  BY DEF TilesAttached, Attaching
<1>1. UNCHANGED <<link, cur>>
  BY DEF Attaching, Mounts, Calls, Opens
<1>2. Attaching /\ cur \in Sockets
  BY <1>1 DEF Attaching, TypeOK
<1>3. news \ olds \in SUBSET Sids /\ Tells(news \ olds, olds, queues)
  BY DEF Mounts
<1>4. s \in Sids /\ s \notin olds /\ s \notin dead /\ (s \in tiles \/ s \in news)
  BY DEF Mounts, TypeOK
<1>5. \/ s \in news \ olds
      \/ Gone(s) \in Range(queues[cur])
      \/ s \in (attached[cur] \cap alive) \ olds
  <2> SUFFICES ASSUME s \in tiles, s \notin attached[cur] \cap alive
               PROVE  Gone(s) \in Range(queues[cur])
    BY <1>4
  <2>1. Has(cur, Gone(s))
    BY <1>2, <1>4 DEF TilesAttached, Attaching, Shown
  <2>2. queues[cur] = wire[cur] \/ Gone(s) # Head(wire[cur])
    BY <1>2, Kinds
  <2> QED BY <1>2, <2>1, <2>2, HandlingKeeps DEF Has
<1> QED BY <1>1, <1>2, <1>3, <1>4, <1>5, TellsShown DEF Attaching

\* Steps that leave the tiles but for what is marked as closed.
LEMMA StaysShown ==
    ASSUME TypeOK, TilesAttached,
           Attaching' => /\ Attaching /\ cur' = cur
                         /\ \A s \in tiles' \ dead' :
                               /\ s \in tiles \ dead
                               /\ Has(cur, Gone(s)) => Has(cur, Gone(s))'
                               /\ s \in attached[cur] \cap alive => Shown(s)'
    PROVE  TilesAttached'
BY DEF TilesAttached, Attaching, Shown

\* No step leaves a tile of the connection in use without an attachment.
LEMMA TilesAttachedKept ==
    ASSUME TypeOK, OneSocket, OneHandshake, TilesAttached, Next
    PROVE  TilesAttached'
<1>0. /\ wire \in [Sockets -> Seq(Messages)]
      /\ pc = [v \in Sockets |-> pc[v]] /\ link = [v \in Sockets |-> link[v]]
      /\ attached \in [Sockets -> SUBSET Sids]
      /\ tiles \subseteq Sids /\ dead \subseteq tiles
      /\ crypto \in [of : Sockets \cup {None}, up : BOOLEAN]
      /\ cur \in Sockets \cup {None} /\ None \notin Sockets
  BY ClientAssumption DEF TypeOK
<1>h. Handling(wire)
  BY DEF Handling
<1>r. ready => crypto = [of |-> cur, up |-> TRUE] /\ cur \in Sockets
  BY <1>0 DEF OneSocket
<1>n. ASSUME ~Attaching'
      PROVE  TilesAttached'
  BY <1>n DEF TilesAttached, Attaching
<1>u. ASSUME UNCHANGED <<alive, link, cur, ready, tiles, dead, attached, wire>>,
             cur # None => (pc'[cur] = "idle" => pc[cur] = "idle")
      PROVE  TilesAttached'
  BY <1>u DEF TilesAttached, Shown, Has
<1>1. ASSUME NEW w \in Sockets, HandleAck(w) \/ HandleAuth(w)
      PROVE  TilesAttached'
  <2>1. /\ wire[w] # <<>> /\ wire' = Handled(w)
        /\ pc' = [pc EXCEPT ![w] = "proving"] \/ pc' = [pc EXCEPT ![w] = "syncing"]
        /\ UNCHANGED <<alive, link, cur, tiles, dead, attached>>
    BY <1>1 DEF HandleAck, HandleAuth, Sealed, Next1, server, net, conn, view
  <2>2. pc'[w] # "idle" /\ \A v \in Sockets : v # w => pc'[v] = pc[v] /\ wire'[v] = wire[v]
    BY <1>0, <2>1, HandledQueues
  <2>3. HandleAuth(w) => w = cur
    BY <1>0 DEF HandleAuth, Sealed, OneSocket
  <2>4. HandleAck(w) => ready' = ready
    BY DEF HandleAck, conn
  <2>5. Attaching' => Attaching /\ cur # w
    BY <1>0, <1>1, <2>1, <2>2, <2>3, <2>4 DEF Attaching
  <2> QED BY <1>0, <2>1, <2>2, <2>5, StaysShown DEF Attaching, Has, Shown
<1>2. ASSUME NEW w \in Sockets, Proved(w)
      PROVE  TilesAttached'
  <2>1. /\ pc[w] = "proving" /\ crypto.of = w /\ pc' = [pc EXCEPT ![w] = "idle"]
        /\ UNCHANGED <<alive, link, cur, ready, tiles, dead, attached, wire>>
    BY <1>2 DEF Proved, server, view
  <2>2. ~ready
    BY <1>0, <1>r, <2>1 DEF OneHandshake
  <2> QED BY <1>n, <2>1, <2>2 DEF Attaching
<1>3. ASSUME NEW w \in Sockets, ProofFails(w) \/ Refused(w)
      PROVE  TilesAttached'
  <2>1. /\ pc[w] = "proving" /\ pc' = [pc EXCEPT ![w] = "idle"] /\ CloseWs(w)
        /\ UNCHANGED <<alive, cur, ready, tiles, dead, wire>>
    BY <1>3 DEF ProofFails, Refused, server, conn
  <2>2. /\ link'[w] # "open"
        /\ \A v \in Sockets : v # w => link'[v] = link[v] /\ attached'[v] = attached[v]
    BY <1>0, <2>1 DEF CloseWs
  <2>3. Attaching' => Attaching /\ cur # w
    BY <1>0, <2>1, <2>2 DEF Attaching
  <2> QED BY <1>0, <2>1, <2>2, <2>3, StaysShown DEF Attaching, Has, Shown
<1>4. ASSUME NEW w \in Sockets, Drop1(w)
      PROVE  TilesAttached'
  <2>1. /\ wire[w] # <<>> /\ wire' = Handled(w)
        /\ \/ crypto # [of |-> w, up |-> TRUE]
           \/ ready = (Head(wire[w]).type = "auth-success")
           \/ Head(wire[w]).type = "gone" /\ Head(wire[w]).sid \notin tiles
        /\ UNCHANGED <<alive, link, cur, ready, tiles, dead, attached, pc>>
    BY <1>4 DEF Drop1, server, net, conn, view
  <2>2. ASSUME Attaching, NEW s \in tiles, Has(cur, Gone(s))
        PROVE  Gone(s) \in Range(Handled(w)[cur])
    <3>1. cur \in Sockets /\ (w = cur => crypto = [of |-> w, up |-> TRUE]) /\ ready
      BY <1>0, <1>r, <2>2 DEF Attaching
    <3>2. w = cur => Gone(s) # Head(wire[w])
      BY <2>1, <2>2, <3>1, Kinds
    <3>3. w = cur => Gone(s) \in Range(Tail(wire[w]))
      BY <1>0, <2>1, <2>2, <3>2, TailSays DEF Has
    <3> QED BY <2>1, <2>2, <3>1, <3>3, HandledQueues DEF Has
  <2> QED BY <2>1, <2>2, StaysShown DEF Attaching, Has, Shown
<1>5. ASSUME NEW w \in Sockets, Sync(w)
      PROVE  TilesAttached'
  <2>1. known[w] \ tiles \in SUBSET Sids
    BY DEF TypeOK
  <2>2. /\ pc' = [pc EXCEPT ![w] = IF tiles' = {} THEN "prompting" ELSE "attaching"]
        /\ UNCHANGED <<alive, ready>>
    BY <1>5 DEF Sync, server
  <2>3. CASE cur \in Sockets
    <3>1. pc'[cur] = "idle" => pc[cur] = "idle"
      BY <1>0, <2>2, <2>3
    <3> QED BY <1>0, <1>5, <1>h, <2>1, <2>2, <3>1, SyncMounts, MountsShown
  <2>4. CASE cur \notin Sockets
    <3>1. ~ready'
      BY <1>r, <2>2, <2>4
    <3> QED BY <1>n, <3>1 DEF Attaching
  <2> QED BY <2>3, <2>4
<1>6. ASSUME NEW w \in Sockets, SyncPrompted(w)
      PROVE  TilesAttached'
  <2>1. /\ pc' = [pc EXCEPT ![w] = "attaching"]
        /\ UNCHANGED <<alive, link, cur, ready, tiles, dead, attached, wire>>
    BY <1>6 DEF SyncPrompted, server, net, conn, view
  <2> QED BY <1>0, <1>u, <2>1
<1>7. ASSUME NEW w \in Sockets, AttachAll(w)
      PROVE  TilesAttached'
  <2> SUFFICES ASSUME Attaching', NEW s \in tiles' \ dead'
               PROVE  Shown(s)'
    BY DEF TilesAttached, Attaching
  <2>1. Tell({}, tiles, wire) /\ UNCHANGED <<alive, link, cur, ready, tiles>>
    BY <1>7 DEF AttachAll, server, net, conn
  <2>2. tiles \in SUBSET Sids
    BY <1>0
  <2>3. Tells(tiles, {}, wire)
    BY <1>0, <2>1, <2>2, TellTells
  <2>4. ready /\ cur # None /\ link[cur] = "open" /\ cur \in Sockets /\ s \in Sids /\ s \in tiles
    BY <1>0, <2>1 DEF Attaching
  <2> QED BY <1>0, <2>1, <2>2, <2>3, <2>4, TellsShown
<1>8. ASSUME NEW w \in Sockets, HandleCreated(w)
      PROVE  TilesAttached'
  <2>1. PICK news \in SUBSET {Head(wire[w]).sid} : Mounts(news, {}, Handled(w))
    BY <1>8, CreatedMounts
  <2>2. news \in SUBSET Sids /\ wire[w] # <<>> /\ Head(wire[w]).type = "created"
    BY <1>8, CreatedMounts, Kinds
  <2>3. Handled(w) \in [Sockets -> Seq(Messages)] /\ Handling(Handled(w))
    BY <2>2, HandledQueues DEF Handling
  <2>4. UNCHANGED <<alive, ready, pc>>
    BY <1>8 DEF HandleCreated, server
  <2>5. \A v \in Sockets : Handled(w)[v] = wire[v] \/ Head(wire[v]).type # "gone"
    BY <2>2, HandledQueues
  <2> QED BY <2>1, <2>2, <2>3, <2>4, <2>5, MountsShown
<1>9. ASSUME NEW w \in Sockets, HandleGone(w)
      PROVE  TilesAttached'
  <2>1. /\ wire[w] # <<>> /\ wire' = Handled(w) /\ Head(wire[w]).type = "gone"
        /\ dead' = dead \cup {Head(wire[w]).sid}
        /\ UNCHANGED <<alive, link, cur, ready, tiles, attached, pc>>
    BY <1>9 DEF HandleGone, Sealed, Next1, server, net, conn
  <2>2. ASSUME NEW s \in tiles \ dead', cur \in Sockets, Has(cur, Gone(s))
        PROVE  Gone(s) \in Range(Handled(w)[cur])
    <3>1. Gone(s) # Head(wire[w])
      BY <2>1, <2>2, Kinds
    <3>2. w = cur => Gone(s) \in Range(Tail(wire[w]))
      BY <1>0, <2>1, <2>2, <3>1, TailSays DEF Has
    <3> QED BY <2>1, <2>2, <3>2, HandledQueues DEF Has
  <2> QED BY <1>0, <2>1, <2>2, StaysShown DEF Attaching, Has, Shown
<1>10. ASSUME NEW w \in Sockets, Opened(w)
       PROVE  TilesAttached'
  <2>1. link[w] = "connecting" /\ UNCHANGED <<ready, cur>>
    BY <1>10 DEF Opened
  <2>2. ~ready
    BY <1>0, <2>1 DEF OneSocket, Live
  <2> QED BY <1>n, <2>1, <2>2 DEF Attaching
<1>11. ASSUME \A w \in Sockets : Range(wire[w]) \subseteq Range(wire'[w]),
              UNCHANGED <<link, cur, ready, tiles, dead, pc>>,
              cur \in Sockets => \A s \in attached[cur] \cap alive : Shown(s)'
       PROVE  TilesAttached'
  BY <1>0, <1>11, StaysShown DEF Attaching, Has
<1>12. \A w \in Sockets, m \in Messages :
          /\ Range(wire[w]) \subseteq Range(Append(wire[w], m))
          /\ m \in Range(Append(wire[w], m))
  <2> TAKE w \in Sockets, m \in Messages
  <2>1. wire[w] \in Seq(Messages) /\ {m} \in SUBSET Messages
    BY <1>0
  <2> QED BY <2>1, OneMore, LongerSays
<1>13. ASSUME NEW w \in Sockets, ServerAuth(w)
       PROVE  TilesAttached'
  <2>1. Auth(snap[w]) \in Messages
    BY MessagesTyped DEF TypeOK
  <2>2. /\ wire' = [wire EXCEPT ![w] = Append(@, Auth(snap[w]))]
        /\ UNCHANGED <<link, cur, ready, tiles, dead, pc, attached, alive>>
    BY <1>13 DEF ServerAuth, server, conn, view
  <2>3. \A v \in Sockets : Range(wire[v]) \subseteq Range(wire'[v])
    BY <1>0, <1>12, <2>1, <2>2
  <2> QED BY <1>11, <2>2, <2>3 DEF Shown
<1>14. ASSUME NEW w \in Sockets, Closed(w)
       PROVE  TilesAttached'
  BY <1>n, <1>14 DEF Closed, Attaching
<1>15. ASSUME NEW w \in Sockets, Lost(w)
       PROVE  TilesAttached'
  <2>1. /\ link[w] = "open" /\ link' = [link EXCEPT ![w] = "cut"]
        /\ UNCHANGED <<cur, ready>>
    BY <1>15 DEF Lost, conn
  <2>2. w = cur
    BY <2>1 DEF OneSocket, Live
  <2> QED BY <1>0, <1>n, <2>1, <2>2 DEF Attaching
<1>16. ASSUME Restart
       PROVE  TilesAttached'
  <2>1. /\ link' = [w \in Sockets |-> IF link[w] = "open" THEN "cut" ELSE link[w]]
        /\ UNCHANGED <<cur, ready>>
    BY <1>16 DEF Restart, conn
  <2> QED BY <1>0, <1>n, <2>1 DEF Attaching
<1>17. ASSUME Reconnect \/ BootCalls
       PROVE  TilesAttached'
  <2>1. /\ UNCHANGED <<alive, ready, tiles, dead, attached, wire, pc>> /\ Calls
    BY <1>17, Callers DEF Reconnect, BootCalls, server, view
  <2>2. CASE UNCHANGED <<link, cur, promise>>
    BY <1>u, <2>1, <2>2
  <2>3. CASE ~ready
    BY <1>n, <2>1, <2>3 DEF Attaching
  <2> QED BY <2>1, <2>2, <2>3 DEF Calls, Opens
<1>18. ASSUME BootLists
       PROVE  TilesAttached'
  <2>1. bootList \ tiles \in SUBSET Sids
    BY DEF TypeOK
  <2>2. UNCHANGED <<alive, ready, pc>>
    BY <1>18 DEF BootLists, server
  <2> QED BY <1>0, <1>18, <1>h, <2>1, <2>2, BootMounts, MountsShown
<1>19. ASSUME BootFails \/ NewShell \/ \E o \in Origins : PromptEnds(o)
       PROVE  TilesAttached'
  BY <1>u, <1>19 DEF BootFails, NewShell, PromptEnds, server, net, conn, view
<1>20. ASSUME NEW s \in Sids, wire' = ToAll(Created(s)), alive \subseteq alive',
              UNCHANGED <<link, cur, ready, tiles, dead, pc, attached>>
       PROVE  TilesAttached'
  <2>1. \A v \in Sockets : Range(wire[v]) \subseteq Range(wire'[v])
    BY <1>12, <1>20, MessagesTyped DEF ToAll
  <2> QED BY <1>11, <1>20, <2>1 DEF Shown
<1>21. ASSUME OthersCreate
       PROVE  TilesAttached'
  <2>1. Fresh(unborn) \in Sids
    BY <1>21, FreshIsIn DEF OthersCreate, TypeOK
  <2> QED BY <1>20, <1>21, <2>1 DEF OthersCreate, net, conn, view
<1>22. ASSUME NEW o \in Origins, Post(o)
       PROVE  TilesAttached'
  <2>1. Fresh(unborn) \in Sids
    BY <1>22, FreshIsIn DEF Post, TypeOK
  <2> QED BY <1>20, <1>22, <2>1 DEF Post, net, conn, view
<1>23. ASSUME NEW s \in Sids, Posted(s)
       PROVE  TilesAttached'
  <2>1. UNCHANGED <<alive, ready, pc>>
    BY <1>23 DEF Posted, server
  <2>2. \A news \in SUBSET {s} : news \in SUBSET Sids
    OBVIOUS
  <2>3. ASSUME NEW news \in SUBSET {s}, Mounts(news, {}, wire)
        PROVE  TilesAttached'
    BY <1>0, <1>h, <2>1, <2>2, <2>3, MountsShown
  <2>4. ASSUME UNCHANGED <<wire, tiles, dead, attached, link, cur, promise>>
        PROVE  TilesAttached'
    BY <1>u, <2>1, <2>4
  <2> QED BY <1>23, <2>3, <2>4, PostedMounts
<1>24. ASSUME NEW s \in Sids, Destroyed({s}, wire), UNCHANGED <<alive, ready, pc>>
       PROVE  TilesAttached'
  <2>1. {} \in SUBSET Sids
    OBVIOUS
  <2> QED BY <1>0, <1>24, <1>h, <2>1, DestroyedMounts, MountsShown
<1>25. ASSUME NEW s \in Sids, wire' = Gone1(s), alive' = alive \ {s},
              \A w \in Sockets : attached[w] \ {s} \subseteq attached'[w],
              UNCHANGED <<link, cur, ready, tiles, dead, pc>>
       PROVE  TilesAttached'
  <2>1. /\ \A v \in Sockets : Range(wire[v]) \subseteq Range(wire'[v])
        /\ \A v \in Sockets : s \in attached[v] => Gone(s) \in Range(wire'[v])
    BY <1>12, <1>25, MessagesTyped DEF Gone1
  <2>2. cur \in Sockets => \A t \in attached[cur] \cap alive : Shown(t)'
    BY <1>25, <2>1 DEF Shown, Has
  <2> QED BY <1>11, <1>25, <2>1, <2>2
<1>26. ASSUME NEW s \in Sids, CloseShell(s)
       PROVE  TilesAttached'
  <2>1. UNCHANGED <<ready, pc>>
    BY <1>26 DEF CloseShell
  <2>2. CASE /\ alive' = alive \ {s} /\ wire' = Gone1(s)
             /\ UNCHANGED <<tiles, dead, attached, link, cur>>
    BY <1>25, <2>1, <2>2
  <2>3. CASE Destroyed({s}, wire) /\ UNCHANGED alive
    BY <1>24, <2>1, <2>3
  <2> QED BY <1>26, <2>2, <2>3 DEF CloseShell
<1>27. ASSUME NEW s \in Sids, CloseAnswered(s) \/ Discard(s)
       PROVE  TilesAttached'
  BY <1>24, <1>27 DEF CloseAnswered, Discard, server
<1>28. ASSUME NEW s \in Sids, Ends(s)
       PROVE  TilesAttached'
  BY <1>25, <1>28 DEF Ends, net, conn
<1> QED
  BY <1>1, <1>2, <1>3, <1>4, <1>5, <1>6, <1>7, <1>8, <1>9, <1>10, <1>13, <1>14, <1>15, <1>16, <1>17,
     <1>18, <1>19, <1>21, <1>22, <1>23, <1>26, <1>27, <1>28
     DEF Next, Handler

(***************************************************************************)
(* The theorems.                                                           *)
(***************************************************************************)

\* The initial states satisfy the invariant.
LEMMA InitInv ==
    ASSUME Init
    PROVE  ClientInv
<1>1. TypeOK
  BY InitTyped
<1>2. None \notin Sockets /\ 0 < Attempts
  BY ClientAssumption
<1>3. Tries
  BY <1>2 DEF Init, Tries
<1>4. OneSocket
  BY DEF Init, OneSocket, Live, NoCrypto
<1>5. \A w \in Sockets : wire[w] = <<>> /\ Range(wire[w]) = {}
  BY DEF Init, Range
<1>6. OneHandshake
  BY <1>5 DEF Init, OneHandshake, AckFirst, Has
<1>7. IdsAreFresh
  BY <1>5 DEF Init, IdsAreFresh
<1>8. TilesAttached
  BY DEF Init, TilesAttached
<1> QED BY <1>1, <1>3, <1>4, <1>6, <1>7, <1>8 DEF ClientInv

\* ClientInv is inductive.
LEMMA ClientInvKept ==
    ASSUME ClientInv, [Next]_vars
    PROVE  ClientInv'
<1>1. CASE Next
  BY <1>1, TypeKept, TriesKept, OneSocketKept, OneHandshakeKept, IdsKept, TilesAttachedKept
     DEF ClientInv
<1>2. CASE UNCHANGED vars
  <2>1. TypeOK' /\ Tries' /\ OneSocket'
    BY <1>2 DEF ClientInv, vars, TypeOK, Tries, OneSocket, Live
  <2>2. OneHandshake' /\ TilesAttached'
    BY <1>2 DEF ClientInv, vars, OneHandshake, AckFirst, Has, TilesAttached, Shown
  <2>3. IdsAreFresh'
    BY <1>2 DEF ClientInv, vars, IdsAreFresh, Honest
  <2> QED BY <2>1, <2>2, <2>3 DEF ClientInv
<1> QED BY <1>1, <1>2

\* Whatever the network, the server, the users and the other browsers do, the
\* parts of ClientInv hold.
LEMMA ClientInvariant == Spec => []ClientInv
<1>1. Init => ClientInv
  BY InitInv
<1>2. ClientInv /\ [Next]_vars => ClientInv'
  BY ClientInvKept
<1> HIDE DEF ClientInv
<1> QED BY <1>1, <1>2, PTL DEF Spec

\* The tab's state has its types, however often it reconnects (all of
\* shell-sessions.js that Client models).
THEOREM TypesCorrect == Spec => []TypeOK
<1>1. ClientInv => TypeOK
  BY DEF ClientInv
<1> QED BY <1>1, ClientInvariant, PTL

\* getWs (the callers of which run in any order, between any two awaits) never
\* opens a socket while another is in use; so a tab at rest has one connection.
THEOREM OneSocketOnly == Spec => []OneConnection
<1>1. ClientInv => OneConnection
  BY DEF ClientInv, OneSocket, Live, OneConnection
<1> QED BY <1>1, ClientInvariant, PTL

\* A tab at rest shows no live session without being attached to it, whatever
\* was lost before (resume and attach after each reconnection, mount, destroy).
THEOREM TilesAreAttached == Spec => []ShownIsAttached
<1>1. ASSUME ClientInv
      PROVE  ShownIsAttached
  <2> SUFFICES ASSUME AtRest, NEW s \in tiles \ dead
               PROVE  s \in attached[cur]
    BY DEF ShownIsAttached
  <2>1. /\ ready /\ cur # None /\ link[cur] = "open"
        /\ cur \in Sockets
    BY <1>1 DEF AtRest, Online, Open, ClientInv, TypeOK
  <2>2. pc[cur] = "idle" /\ wire[cur] = <<>>
    BY <2>1 DEF AtRest
  <2>3. ~Has(cur, Gone(s))
    BY <2>2 DEF Has, Range
  <2> QED BY <1>1, <2>1, <2>2, <2>3 DEF ClientInv, TilesAttached, Shown
<1> QED BY <1>1, ClientInvariant, PTL

\* A tab at rest shows no session as alive that the server does not have, however
\* its list was taken, overtaken or late (sync, gone events, the answer of DELETE).
\* The converse, that none is missing, the code does not give: TLC shows both ways to
\* lose one.
THEOREM NoGhosts == Spec => [](AtRest => tiles \ dead \subseteq alive)
<1>1. ASSUME ClientInv, AtRest
      PROVE  tiles \ dead \subseteq alive
  <2>1. /\ ready /\ cur # None /\ link[cur] = "open"
        /\ cur \in Sockets
    BY <1>1 DEF AtRest, Online, Open, ClientInv, TypeOK
  <2>2. pc[cur] = "idle" /\ wire[cur] = <<>>
    BY <1>1, <2>1 DEF AtRest
  <2>3. \A m : ~Has(cur, m)
    BY <2>2 DEF Has, Range
  <2> QED BY <1>1, <2>1, <2>2, <2>3 DEF ClientInv, TilesAttached, Shown
<1>2. ClientInv => (AtRest => tiles \ dead \subseteq alive)
  BY <1>1
<1> QED BY <1>2, ClientInvariant, PTL

=============================================================================
