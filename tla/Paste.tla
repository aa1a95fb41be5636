------------------------------- MODULE Paste --------------------------------
(***************************************************************************)
(* Files pasted or dropped on a terminal (public/js/shell/paste.js).  The  *)
(* files of one paste are read and uploaded side by side; when the last    *)
(* has an outcome the paths are pasted.  Several pastes may go on at once. *)
(***************************************************************************)
EXTENDS Naturals, Sequences

CONSTANTS
    MaxJobs,   \* how many pastes
    MaxFiles,  \* how many files in one: a conversation has at most 10 images
    MaxLosses

VARIABLE x

\* A paste of files or a drop, one attached picture, a conversation with images.
Kinds == {"files", "attached", "conversation"}
\* A file of the clipboard; one above 10 MB; a picture only the server can fetch.
Sources == {"file", "over", "remote"}
Stages  == {"waiting", "reading", "sent", "uploaded", "failed"}

TypeOK ==
    /\ x.jobs \in Seq([kind : Kinds, stages : Seq(Stages), sources : Seq(Sources),
                       order : Seq(1..MaxFiles), over : BOOLEAN])
    /\ Len(x.jobs) <= MaxJobs
    /\ x.line \in Seq((1..MaxJobs) \X (1..MaxFiles))   \* the paths in the terminal
    /\ x.told \subseteq (1..MaxJobs) \X (1..MaxFiles)  \* the failures that had a toast
    /\ x.ready \in BOOLEAN                             \* cryptoState has its keys
    /\ x.losses \in 0..MaxLosses

Init == x = [jobs |-> <<>>, line |-> <<>>, told |-> {}, ready |-> TRUE, losses |-> 0]

Stage(s, j, i, g) == [s EXCEPT !.jobs[j].stages[i] = g]
Fails(s, j, i)    == [Stage(s, j, i, "failed") EXCEPT !.told = @ \cup {<<j, i>>}]
Silently(s, j, i) == Stage(s, j, i, "failed")

Uploaded(s, j, i) ==
    [Stage(s, j, i, "uploaded") EXCEPT !.jobs[j].order = Append(@, i)]

\* Slip: the paths are taken in the order in which the uploads ended.
PathsAsTheyCame(job) == job.order

\* The members of a set of at most n numbers, in their order.
Orders(n, S) ==
    {q \in UNION {[1..k -> S] : k \in 0..n} :
        /\ \A a, b \in DOMAIN q : a < b => q[a] < q[b]
        /\ \A i \in S : \E a \in DOMAIN q : q[a] = i}

\* Promise.all, and filter(Boolean): in the order of the clipboard.
Paths(job) ==
    LET done == {i \in DOMAIN job.stages : job.stages[i] = "uploaded"}
    IN  CHOOSE q \in Orders(Len(job.stages), done) : TRUE

-----------------------------------------------------------------------------
\* The clipboard's files, dropped files, a picture, the images of a conversation.
Begin ==
    /\ Len(x.jobs) < MaxJobs
    /\ \E kind \in Kinds, n \in 1..MaxFiles : \E src \in [1..n -> Sources] :
         /\ kind = "attached" => n = 1
         /\ kind # "conversation" => "remote" \notin {src[i] : i \in 1..n}
         /\ x' = [x EXCEPT !.jobs = Append(@, [kind |-> kind, sources |-> src, order |-> <<>>,
                                               stages |-> [i \in 1..n |-> "waiting"],
                                               over |-> FALSE])]

\* _uploadPasteImage: what is too large is rejected, without the keys it fails.
Upload(s, j, i) ==
    IF s.jobs[j].sources[i] = "over" \/ ~s.ready THEN Fails(s, j, i)
    ELSE Stage(s, j, i, "reading")

\* A picture of a conversation may be impossible to decode, and one that the
\* browser may not fetch is left to the server.
Start(j, i) ==
    /\ x.jobs[j].stages[i] = "waiting"
    /\ IF x.jobs[j].sources[i] = "remote" THEN x' = Stage(x, j, i, "sent")
       ELSE \/ x' = Upload(x, j, i)
            \/ x.jobs[j].kind = "conversation" /\ x' = Silently(x, j, i)

\* FileReader ends, or cannot read it: a folder.
Read(j, i) ==
    /\ x.jobs[j].stages[i] = "reading"
    /\ x' \in {Fails(x, j, i), Stage(x, j, i, "sent")}

\* The server's answer, or the loss of the request.  Nothing is said about a
\* picture of a conversation that the server could not fetch.
Answer(j, i) ==
    /\ x.jobs[j].stages[i] = "sent"
    /\ x' \in {Uploaded(x, j, i),
               IF x.jobs[j].sources[i] = "remote" THEN Silently(x, j, i) ELSE Fails(x, j, i)}

\* All have an outcome: what was uploaded is pasted.
Finish(j) ==
    /\ ~x.jobs[j].over
    /\ \A i \in DOMAIN x.jobs[j].stages : x.jobs[j].stages[i] \in {"uploaded", "failed"}
    /\ LET paths == Paths(x.jobs[j])
       IN x' = [x EXCEPT !.jobs[j].over = TRUE,
                         !.line = @ \o [k \in DOMAIN paths |-> <<j, paths[k]>>]]

\* The connection and its keys go and come.
Lose  == x.ready /\ x.losses < MaxLosses /\ x' = [x EXCEPT !.ready = FALSE, !.losses = @ + 1]
Ready == ~x.ready /\ x' = [x EXCEPT !.ready = TRUE]

Next ==
    \/ Begin \/ Lose \/ Ready
    \/ \E j \in DOMAIN x.jobs :
         \/ Finish(j)
         \/ \E i \in DOMAIN x.jobs[j].stages : Start(j, i) \/ Read(j, i) \/ Answer(j, i)

Spec == Init /\ [][Next]_x

-----------------------------------------------------------------------------
\* Every file of a finished paste is either in the terminal, once and in the
\* order of the clipboard whatever the order of the uploads, or the user was
\* told of its failure ("Owns all upload feedback"); only the pictures of a
\* conversation may fail silently.
Accounted(s) ==
    \A j \in DOMAIN s.jobs : s.jobs[j].over =>
        /\ \A a, b \in DOMAIN s.line :
             a < b /\ s.line[a][1] = j /\ s.line[b][1] = j => s.line[a][2] < s.line[b][2]
        /\ \A i \in DOMAIN s.jobs[j].stages :
             \/ \E a \in DOMAIN s.line : s.line[a] = <<j, i>>
             \/ <<j, i>> \in s.told
             \/ s.jobs[j].kind = "conversation"
        /\ \A a \in DOMAIN s.line : s.line[a][1] = j => s.line[a] \notin s.told

EveryFileAccounted == Accounted(x)

\* What makes it inductive: only files that were uploaded are in the terminal,
\* those of one paste in their order, and only failures are told.
Job == [kind : Kinds, sources : Seq(Sources), order : Seq(Nat), stages : Seq(Stages), over : BOOLEAN]

Typed(s) ==
    /\ DOMAIN s = {"jobs", "line", "told", "ready", "losses"}
    /\ s.jobs \in Seq(Job) /\ s.line \in Seq(Nat \X Nat)
    /\ \A j \in DOMAIN s.jobs : DOMAIN s.jobs[j].sources = DOMAIN s.jobs[j].stages
InTerminal(s) ==
    \A a \in DOMAIN s.line :
        LET p == s.line[a]
        IN  /\ p[1] \in DOMAIN s.jobs /\ s.jobs[p[1]].over
            /\ p[2] \in DOMAIN s.jobs[p[1]].stages /\ s.jobs[p[1]].stages[p[2]] = "uploaded"
Ordered(s) ==
    \A a, b \in DOMAIN s.line :
        a < b /\ s.line[a][1] = s.line[b][1] => s.line[a][2] < s.line[b][2]
Told(s) ==
    \A p \in s.told :
        /\ p[1] \in DOMAIN s.jobs /\ p[2] \in DOMAIN s.jobs[p[1]].stages
        /\ s.jobs[p[1]].stages[p[2]] = "failed"
Outcomes(s) ==
    \A j \in DOMAIN s.jobs : \A i \in DOMAIN s.jobs[j].stages :
        /\ s.jobs[j].stages[i] = "failed" => <<j, i>> \in s.told \/ s.jobs[j].kind = "conversation"
        /\ s.jobs[j].sources[i] = "remote" => s.jobs[j].kind = "conversation"
        /\ s.jobs[j].over => s.jobs[j].stages[i] \in {"uploaded", "failed"}
        /\ s.jobs[j].over /\ s.jobs[j].stages[i] = "uploaded" =>
             \E a \in DOMAIN s.line : s.line[a] = <<j, i>>
Inv(s) == Typed(s) /\ InTerminal(s) /\ Ordered(s) /\ Told(s) /\ Outcomes(s)

=============================================================================
