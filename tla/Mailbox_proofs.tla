----------------------------- MODULE Mailbox_proofs ----------------------------
(* Safety of the tools of the mailbox: get_thread and reply over a thread      *)
(* others write to, for threads of any length and any limits; save_attachment  *)
(* over files others replace and sweep, for any number of servers, files and   *)
(* destinations; and what is told of a message and found in it again, for      *)
(* messages of any depth and width.                                            *)
EXTENDS MessageParts, Conversation, Attachments, FiniteSetTheorems, WellFoundedInduction,
        SequenceTheorems, TLAPS

--------------------------------------------------------------------------------
(* A thread is a sequence of messages, each with a number of its own.          *)
Message == [id: Nat, from: Sender \cup {Me}, trashed: BOOLEAN]

(* Gmail numbers the messages of a thread in the order it shows them.          *)
Ordered(messages) ==
  \A i, j \in DOMAIN messages : i < j => messages[i].id < messages[j].id

ThreadInv ==
  /\ thread \in Seq(Message) /\ written \in Nat
  /\ \A i \in DOMAIN thread : thread[i].id \in 1..written
  /\ Ordered(thread)

Newest(id, ids) == id \in ids /\ \A n \in ids : n <= id

(* Asked for at least one message, get_thread shows the newest.                *)
ReadInv ==
  read.asked >= 1 => \A id \in read.of : Newest(id, read.of) => id \in read.ids

(* A reply answers the newest message of the thread it saw.                    *)
ReplyInv ==
  /\ reply # NoReply => Newest(reply.id, reply.of)
  /\ answered # NoReply => Newest(answered.id, answered.of)

(* The inductive invariant: what was read and what is being answered was the   *)
(* newest when it was looked up, whatever came or went since.                  *)
ConversationInv == ThreadInv /\ ReadInv /\ ReplyInv

(* A sequence without its i-th element.                                        *)
LEMMA RemoveAtProperties ==
  ASSUME NEW S, NEW s \in Seq(S), NEW i \in 1..Len(s)
  PROVE  /\ RemoveAt(s, i) \in Seq(S) /\ Len(RemoveAt(s, i)) = Len(s) - 1
         /\ \A j \in 1..Len(s) - 1 : RemoveAt(s, i)[j] = IF j < i THEN s[j] ELSE s[j + 1]
<1> DEFINE a == SubSeq(s, 1, i - 1)
           b == SubSeq(s, i + 1, Len(s))
<1>1. Len(s) \in Nat /\ \A j \in 1..Len(s) : s[j] \in S
  OBVIOUS
<1>2. a \in Seq(S) /\ Len(a) = i - 1 /\ \A j \in 1..i - 1 : a[j] = s[j]
  <2>1. \A j \in 1..i - 1 : s[j] \in S
    BY <1>1
  <2> HIDE DEF a
  <2> QED
    BY <1>1, <2>1, SubSeqProperties DEF a
<1>3. b \in Seq(S) /\ Len(b) = Len(s) - i /\ \A j \in 1..Len(s) - i : b[j] = s[i + j]
  <2>1. \A j \in i + 1..Len(s) : s[j] \in S
    BY <1>1
  <2> QED
    BY <1>1, <2>1, SubSeqProperties
<1> HIDE DEF a, b
<1>4. /\ a \o b \in Seq(S) /\ Len(a \o b) = Len(a) + Len(b)
      /\ \A j \in 1..Len(a) + Len(b) : (a \o b)[j] = IF j <= Len(a) THEN a[j] ELSE b[j - Len(a)]
  BY <1>2, <1>3, ConcatProperties
<1>5. RemoveAt(s, i) = a \o b
  BY DEF RemoveAt, a, b
<1>6. Len(a) + Len(b) = Len(s) - 1
  BY <1>1, <1>2, <1>3
<1>7. ASSUME NEW j \in 1..Len(s) - 1 PROVE (a \o b)[j] = IF j < i THEN s[j] ELSE s[j + 1]
  <2>1. CASE j < i
    BY <1>1, <1>2, <1>4, <1>6, <2>1
  <2>2. CASE ~(j < i)
    <3>1. (a \o b)[j] = b[j - (i - 1)]
      BY <1>1, <1>2, <1>4, <1>6, <2>2
    <3>2. j - (i - 1) \in 1..Len(s) - i /\ i + (j - (i - 1)) = j + 1
      BY <1>1, <2>2
    <3> QED
      BY <1>3, <2>2, <3>1, <3>2
  <2> QED
    BY <2>1, <2>2
<1> QED
  BY <1>4, <1>5, <1>6, <1>7

(* The last message is the newest, and no other is.                            *)
LEMMA NewestIsLast ==
  ASSUME ThreadInv, thread # <<>>
  PROVE  /\ Len(thread) \in DOMAIN thread /\ Target = thread[Len(thread)]
         /\ Newest(Target.id, Ids(thread))
         /\ \A id : Newest(id, Ids(thread)) => id = Target.id
<1>1. Len(thread) \in DOMAIN thread /\ Target = thread[Len(thread)]
  BY DEF ThreadInv, Target, Last
<1>2. \A i \in DOMAIN thread : thread[i].id \in Nat /\ thread[i].id <= Target.id
  BY <1>1 DEF ThreadInv, Ordered, Message
<1>3. Newest(Target.id, Ids(thread))
  BY <1>1, <1>2 DEF Newest, Ids
<1>4. ASSUME NEW id, Newest(id, Ids(thread)) PROVE id = Target.id
  <2>1. id \in Nat /\ id <= Target.id
    BY <1>2, <1>4 DEF Newest, Ids
  <2>2. Target.id \in Nat /\ Target.id <= id
    BY <1>1, <1>2, <1>3, <1>4 DEF Newest
  <2> QED
    BY <2>1, <2>2
<1> QED
  BY <1>1, <1>3, <1>4

LEMMA WriteKeeps ==
  ASSUME ThreadInv, NEW s \in Sender \cup {Me}, Write(s)
  PROVE  ThreadInv'
<1> DEFINE m == [id |-> written + 1, from |-> s, trashed |-> FALSE]
<1>1. m \in Message /\ m.id = written + 1 /\ thread' = Append(thread, m) /\ written' = written + 1
  BY DEF ThreadInv, Write, Message
<1> HIDE DEF m
<1>2. thread' \in Seq(Message) /\ written' \in Nat
  BY <1>1 DEF ThreadInv
<1>3. DOMAIN thread' = 1..Len(thread) + 1 /\ DOMAIN thread = 1..Len(thread) /\ Len(thread) \in Nat
      /\ \A i \in 1..Len(thread) : thread'[i] = thread[i]
      /\ thread'[Len(thread) + 1] = m
  BY <1>1 DEF ThreadInv
<1>4. \A i \in DOMAIN thread' : thread'[i].id \in 1..written'
  BY <1>1, <1>3 DEF ThreadInv
<1>5. Ordered(thread')
  BY <1>1, <1>3 DEF ThreadInv, Ordered
<1> QED
  BY <1>2, <1>4, <1>5 DEF ThreadInv

(* The window of a read reaches the last message unless its limit is zero or   *)
(* negative, where Python's slice starts elsewhere.                            *)
LEMMA GetThreadKeeps == ASSUME ConversationInv, GetThread PROVE ConversationInv'
<1>1. PICK asked \in Asked :
        read' = [asked |-> asked, ids |-> Selected(asked), of |-> Ids(thread)]
  BY DEF GetThread
<1>2. ThreadInv' /\ ReplyInv'
  BY DEF GetThread, ConversationInv, ThreadInv, ReplyInv
<1>3. ASSUME asked >= 1 PROVE Target.id \in Selected(asked)
  <2>1. Limit(asked) \in Nat \ {0}
    BY <1>3, ConversationAssumption DEF Limit
  <2>2. Target.id \in Ids(thread)
    BY NewestIsLast DEF GetThread, ConversationInv, Newest
  <2>3. Target.id \in Window(Limit(asked))
    <3> DEFINE n == Limit(asked)
    <3>1. Len(thread) \in DOMAIN thread /\ Len(thread) \in Nat /\ Target = thread[Len(thread)]
      BY NewestIsLast DEF GetThread, ConversationInv, ThreadInv
    <3> HIDE DEF n
    <3>2. n > 0 /\ n # 0 /\ ~(n < 0) /\ Len(thread) > Len(thread) - n
      BY <2>1, <3>1 DEF n
    <3>3. Len(thread) \in {j \in DOMAIN thread :
             CASE n > 0 -> j > Len(thread) - n [] n = 0 -> TRUE [] n < 0 -> j > -n}
      BY <3>1, <3>2, Zenon
    <3> QED
      BY <3>1, <3>3 DEF n, Window
  <2> QED
    BY <2>2, <2>3 DEF Selected
<1>4. ReadInv'
  BY <1>1, <1>3, NewestIsLast DEF GetThread, ConversationInv, ReadInv
<1> QED
  BY <1>2, <1>4 DEF ConversationInv

LEMMA FetchThreadKeeps == ASSUME ConversationInv, FetchThread PROVE ConversationInv'
<1>1. reply'.id = Target.id /\ reply'.of = Ids(thread)
  BY DEF FetchThread
<1> QED
  BY <1>1, NewestIsLast
  DEF FetchThread, ConversationInv, ThreadInv, ReadInv, ReplyInv

LEMMA SendReplyKeeps == ASSUME ConversationInv, SendReply PROVE ConversationInv'
<1>1. ThreadInv'
  BY WriteKeeps DEF ConversationInv, SendReply
<1> QED
  BY <1>1 DEF SendReply, ConversationInv, ReadInv, ReplyInv

LEMMA ArrivesKeeps == ASSUME ConversationInv, Arrives PROVE ConversationInv'
<1>1. ThreadInv'
  BY WriteKeeps DEF ConversationInv, Arrives
<1> QED
  BY <1>1 DEF Arrives, ConversationInv, ReadInv, ReplyInv

LEMMA TrashKeeps == ASSUME ConversationInv, Trash PROVE ConversationInv'
<1>1. PICK i \in DOMAIN thread : thread' = [thread EXCEPT ![i].trashed = TRUE]
  BY DEF Trash
<1>2. thread[i] \in Message
  BY DEF ConversationInv, ThreadInv
<1>3. [thread[i] EXCEPT !.trashed = TRUE] \in Message
      /\ [thread[i] EXCEPT !.trashed = TRUE].id = thread[i].id
  BY <1>2 DEF Message
<1>4. thread' \in Seq(Message) /\ DOMAIN thread' = DOMAIN thread
      /\ \A j \in DOMAIN thread : thread'[j].id = thread[j].id
  BY <1>1, <1>3 DEF ConversationInv, ThreadInv
<1>5. ThreadInv'
  BY <1>4 DEF Trash, ConversationInv, ThreadInv, Ordered
<1> QED
  BY <1>5 DEF Trash, ConversationInv, ReadInv, ReplyInv

(* What remains after a message is deleted is still in order.                  *)
LEMMA DeleteKeeps == ASSUME ConversationInv, Delete PROVE ConversationInv'
<1>1. PICK i \in DOMAIN thread : thread' = RemoveAt(thread, i)
  BY DEF Delete
<1>2. /\ thread \in Seq(Message) /\ Len(thread) \in Nat
      /\ DOMAIN thread = 1..Len(thread) /\ i \in 1..Len(thread)
  BY DEF ConversationInv, ThreadInv
<1>3. /\ thread' \in Seq(Message) /\ Len(thread') = Len(thread) - 1
      /\ \A j \in 1..Len(thread) - 1 : thread'[j] = IF j < i THEN thread[j] ELSE thread[j + 1]
  BY <1>1, <1>2, RemoveAtProperties
<1>4. DOMAIN thread' = 1..Len(thread) - 1
  BY <1>3
<1>5. \A j \in DOMAIN thread' : \E k \in DOMAIN thread :
        thread'[j] = thread[k] /\ k = IF j < i THEN j ELSE j + 1
  BY <1>2, <1>3, <1>4
<1>6. written' = written /\ \A j \in DOMAIN thread' : thread'[j].id \in 1..written
  BY <1>5 DEF Delete, ConversationInv, ThreadInv
<1>7. Ordered(thread')
  <2> SUFFICES ASSUME NEW j \in DOMAIN thread', NEW l \in DOMAIN thread', j < l
               PROVE  thread'[j].id < thread'[l].id
    BY DEF Ordered
  <2>1. PICK m \in DOMAIN thread : thread'[j] = thread[m] /\ m = IF j < i THEN j ELSE j + 1
    BY <1>5
  <2>2. PICK n \in DOMAIN thread : thread'[l] = thread[n] /\ n = IF l < i THEN l ELSE l + 1
    BY <1>5
  <2>3. m < n
    BY <1>2, <1>4, <2>1, <2>2
  <2> QED
    BY <2>1, <2>2, <2>3 DEF ConversationInv, ThreadInv, Ordered
<1>8. ThreadInv'
  BY <1>3, <1>6, <1>7 DEF ConversationInv, ThreadInv
<1> QED
  BY <1>8 DEF Delete, ConversationInv, ReadInv, ReplyInv

LEMMA InitConversation == ConversationInit => ConversationInv
  BY DEF ConversationInit, ConversationInv, ThreadInv, Ordered, ReadInv, ReplyInv, NotRead

LEMMA ConversationStep ==
  ConversationInv /\ [ConversationNext]_conversationVars => ConversationInv'
<1> SUFFICES ASSUME ConversationInv, [ConversationNext]_conversationVars PROVE ConversationInv'
  OBVIOUS
<1>1. CASE ReplyFails
  BY <1>1 DEF ReplyFails, ConversationInv, ThreadInv, ReadInv, ReplyInv
<1>2. CASE UNCHANGED conversationVars
  BY <1>2 DEF conversationVars, ConversationInv, ThreadInv, ReadInv, ReplyInv
<1> QED
  BY <1>1, <1>2, GetThreadKeeps, FetchThreadKeeps, SendReplyKeeps, ArrivesKeeps, TrashKeeps,
     DeleteKeeps DEF ConversationNext

(* Threads stay in order and what the tools hold of them was so, through new   *)
(* messages, deletions, failed replies and any limit asked for.                *)
THEOREM ConversationInvariance == ConversationSpec => []ConversationInv
  BY InitConversation, ConversationStep, PTL DEF ConversationSpec

(* While the thread is as the agent read it, a reply answers a message it was  *)
(* shown: the end a read shows is the end the reply looks up.                  *)
THEOREM RepliesAnswerWhatWasRead == ConversationSpec => []AnswersWhatWasRead
<1>1. ConversationInv => AnswersWhatWasRead
  BY DEF ConversationInv, ReadInv, ReplyInv, AnswersWhatWasRead, Newest
<1> QED
  BY <1>1, ConversationInvariance, PTL

--------------------------------------------------------------------------------
(* A save in progress knows its file and, past its check, a destination inside *)
(* saved/.                                                                     *)
JobInv ==
  \A s \in Server :
    /\ ~At(s, "idle") => job[s].file \in File /\ job[s].dest \in Path
    /\ At(s, "open") \/ At(s, "write") => job[s].dest \in Dest

(* Whoever is about to write where a file is kept was told to overwrite, and   *)
(* has not yet done anything.                                                  *)
KeptInv ==
  \A d \in Path : kept[d] # None =>
    /\ saved[d] = kept[d]
    /\ \A q \in Server : PastCheck(q, d) => At(q, "open") /\ job[q].overwrite

(* The inductive invariant.                                                    *)
AttachInv == AttachTypeOK /\ JobInv /\ KeptInv

JobRecord == [at: {"idle", "read", "check", "open", "write"}, file: File \cup {None},
              dest: Path \cup {None}, overwrite: BOOLEAN, alone: BOOLEAN]

(* How the answers and the steps of a save move its record.                    *)
LEMMA NoJobTyped == NoJob \in JobRecord /\ NoJob.at = "idle"
  BY DEF NoJob, JobRecord, Path

LEMMA AnswersTyped ==
  ASSUME AttachTypeOK, NEW s \in Server, NEW said \in {"saved", "exists", "error"},
         Answers(s, said)
  PROVE  /\ job' \in [Server -> JobRecord] /\ job'[s] = NoJob
         /\ \A q \in Server \ {s} : job'[q] = job[q]
         /\ answer' \in [Server -> [said: {"nothing", "saved", "exists", "error"}, dest: Path \cup {None}]]
<1>1. job \in [Server -> JobRecord]
  BY DEF AttachTypeOK, JobRecord
<1>2. job[s].dest \in Path \cup {None}
  BY <1>1 DEF JobRecord
<1> QED
  BY <1>1, <1>2, NoJobTyped DEF Answers, AttachTypeOK

LEMMA GoesTyped ==
  ASSUME AttachTypeOK, NEW s \in Server, NEW at \in {"check", "open"}, Goes(s, at)
  PROVE  /\ job' \in [Server -> JobRecord] /\ answer' = answer
         /\ \A q \in Server \ {s} : job'[q] = job[q]
         /\ job'[s].at = at /\ job'[s].file = job[s].file /\ job'[s].dest = job[s].dest
         /\ job'[s].overwrite = job[s].overwrite
<1>1. job \in [Server -> JobRecord]
  BY DEF AttachTypeOK, JobRecord
<1>2. /\ [job[s] EXCEPT !.at = at] \in JobRecord
      /\ [job[s] EXCEPT !.at = at].at = at
      /\ [job[s] EXCEPT !.at = at].file = job[s].file
      /\ [job[s] EXCEPT !.at = at].dest = job[s].dest
      /\ [job[s] EXCEPT !.at = at].overwrite = job[s].overwrite
  BY <1>1 DEF JobRecord
<1> QED
  BY <1>1, <1>2 DEF Goes

LEMMA InitAttach == AttachInit => AttachInv
<1> SUFFICES ASSUME AttachInit PROVE AttachInv
  OBVIOUS
<1>1. AttachTypeOK
  BY NoJobTyped DEF AttachInit, AttachTypeOK, NoAnswer, Path, JobRecord
<1> QED
  BY <1>1, NoJobTyped DEF AttachInit, AttachInv, JobInv, KeptInv, PastCheck, At

LEMMA SaveCallKeeps == ASSUME AttachInv, NEW s \in Server, SaveCall(s) PROVE AttachInv'
<1>1. PICK f \in File, d \in Path, o \in BOOLEAN :
        job' = [job EXCEPT ![s] = [NoJob EXCEPT !.at = "read", !.file = f, !.dest = d, !.overwrite = o]]
  BY DEF SaveCall
<1> DEFINE new == [NoJob EXCEPT !.at = "read", !.file = f, !.dest = d, !.overwrite = o]
<1>2. new \in JobRecord /\ new.at = "read" /\ new.file = f /\ new.dest = d
  BY NoJobTyped DEF JobRecord, NoJob
<1> HIDE DEF new
<1>3. job' = [job EXCEPT ![s] = new] /\ job \in [Server -> JobRecord]
  BY <1>1 DEF new, AttachInv, AttachTypeOK, JobRecord
<1>4. AttachTypeOK'
  BY <1>2, <1>3 DEF SaveCall, AttachInv, AttachTypeOK, JobRecord, NoAnswer
<1>5. JobInv' /\ KeptInv'
  BY <1>2, <1>3 DEF SaveCall, AttachInv, JobInv, KeptInv, PastCheck, At
<1> QED
  BY <1>4, <1>5 DEF AttachInv

LEMMA AnswersKeeps ==
  ASSUME AttachInv, NEW s \in Server, NEW said \in {"saved", "exists", "error"},
         Answers(s, said), UNCHANGED <<source, saved, kept>>
  PROVE  AttachInv'
<1>1. /\ job' \in [Server -> JobRecord] /\ job'[s].at = "idle"
      /\ \A q \in Server \ {s} : job'[q] = job[q]
  BY AnswersTyped, NoJobTyped DEF AttachInv
<1>2. AttachTypeOK'
  BY <1>1, AnswersTyped DEF AttachInv, AttachTypeOK, JobRecord
<1>3. JobInv'
  BY <1>1 DEF AttachInv, JobInv, At
<1>4. KeptInv'
  BY <1>1 DEF AttachInv, KeptInv, PastCheck, At
<1> QED
  BY <1>2, <1>3, <1>4 DEF AttachInv

LEMMA ReadSourceKeeps == ASSUME AttachInv, NEW s \in Server, ReadSource(s) PROVE AttachInv'
<1>1. CASE Goes(s, "check")
  <2>1. /\ job' \in [Server -> JobRecord] /\ job'[s].at = "check" /\ answer' = answer
        /\ job'[s].file = job[s].file /\ job'[s].dest = job[s].dest
        /\ \A q \in Server \ {s} : job'[q] = job[q]
    BY <1>1, GoesTyped DEF AttachInv
  <2>2. AttachTypeOK'
    BY <2>1 DEF ReadSource, AttachInv, AttachTypeOK, JobRecord
  <2>3. JobInv'
    BY <2>1 DEF ReadSource, AttachInv, JobInv, At
  <2>4. KeptInv'
    BY <2>1 DEF ReadSource, AttachInv, KeptInv, PastCheck, At
  <2> QED
    BY <2>2, <2>3, <2>4 DEF AttachInv
<1> QED
  BY <1>1, AnswersKeeps DEF ReadSource

(* Nobody else passes the check of a destination that is taken.                *)
LEMMA CheckDestinationKeeps ==
  ASSUME AttachInv, NEW s \in Server, CheckDestination(s) PROVE AttachInv'
<1>1. CASE Inside(job[s].dest) /\ MayWrite(s) /\ Goes(s, "open")
  <2>1. /\ job' \in [Server -> JobRecord] /\ job'[s].at = "open" /\ answer' = answer
        /\ job'[s].file = job[s].file /\ job'[s].dest = job[s].dest
        /\ job'[s].overwrite = job[s].overwrite
        /\ \A q \in Server \ {s} : job'[q] = job[q]
    BY <1>1, GoesTyped DEF AttachInv
  <2>2. AttachTypeOK'
    BY <2>1 DEF CheckDestination, AttachInv, AttachTypeOK, JobRecord
  <2>3. JobInv'
    BY <1>1, <2>1 DEF CheckDestination, AttachInv, JobInv, At, Inside
  <2>4. saved[job[s].dest] = None \/ job'[s].overwrite
    BY <1>1, <2>1 DEF MayWrite
  <2>5. KeptInv'
    BY <2>1, <2>4, AttachAssumption DEF CheckDestination, AttachInv, KeptInv, PastCheck, At
  <2> QED
    BY <2>2, <2>3, <2>5 DEF AttachInv
<1> QED
  BY <1>1, AnswersKeeps DEF CheckDestination

(* The open destroys what was there: only a save told to overwrite is past its *)
(* check where a file is kept, and with that step the file is kept no longer.  *)
LEMMA OpenDestinationKeeps ==
  ASSUME AttachInv, NEW s \in Server, OpenDestination(s) PROVE AttachInv'
<1> DEFINE d == job[s].dest
<1>1. d \in Dest /\ d # Outside /\ job \in [Server -> JobRecord]
  BY AttachAssumption DEF OpenDestination, At, AttachInv, JobInv, AttachTypeOK, JobRecord
<1>2. ASSUME NEW q \in Server
      PROVE  /\ job'[q] \in JobRecord
             /\ job'[q].at = IF q = s THEN "write" ELSE job[q].at
             /\ job'[q].file = job[q].file /\ job'[q].dest = job[q].dest
             /\ job'[q].overwrite = job[q].overwrite
  <2>1. job[q] \in JobRecord
    BY <1>1
  <2>2. ASSUME NEW b \in BOOLEAN
        PROVE  /\ [job[q] EXCEPT !.at = "write", !.alone = b] \in JobRecord
               /\ [job[q] EXCEPT !.alone = b] \in JobRecord
    BY <2>1 DEF JobRecord
  <2>3. CASE q = s
    <3> DEFINE a == \A r \in Server : ~WritingThere(r, d)
    <3>0. ~WritingThere(q, d)
      BY <2>3 DEF OpenDestination, WritingThere, At
    <3>1. job'[q] = [job[q] EXCEPT !.at = "write", !.alone = a]
      BY <2>3, <3>0 DEF OpenDestination
    <3>2. a \in BOOLEAN
      OBVIOUS
    <3> HIDE DEF a
    <3>3. job'[q] \in JobRecord
      BY <2>2, <3>1, <3>2
    <3> QED
      BY <2>1, <2>3, <3>1, <3>3 DEF JobRecord
  <2>4. CASE q # s
    <3>1. job'[q] \in {[job[q] EXCEPT !.alone = FALSE], job[q]}
      BY <2>4 DEF OpenDestination
    <3> QED
      BY <2>1, <2>2, <2>4, <3>1 DEF JobRecord
  <2> QED
    BY <2>3, <2>4
<1>3. job' \in [Server -> JobRecord]
  BY <1>2 DEF OpenDestination
<1>4. kept' \in [Path -> File \cup {None}] /\ (~job[s].overwrite => kept' = kept)
      /\ (job[s].overwrite => kept' = [kept EXCEPT ![d] = None])
  BY DEF OpenDestination, AttachInv, AttachTypeOK
<1>5. saved' = [saved EXCEPT ![d] = Broken] /\ source' = source /\ answer' = answer /\ At(s, "open")
  BY DEF OpenDestination
<1> HIDE DEF d
<1>6. AttachTypeOK'
  BY <1>1, <1>3, <1>4, <1>5 DEF AttachInv, AttachTypeOK, JobRecord, Path
<1>7. JobInv'
  BY <1>1, <1>2, <1>5 DEF d, AttachInv, JobInv, At
<1>8. KeptInv'
  <2> SUFFICES ASSUME NEW e \in Path, kept'[e] # None
               PROVE  /\ saved'[e] = kept'[e]
                      /\ \A q \in Server : PastCheck(q, e)' => At(q, "open")' /\ job'[q].overwrite
    BY DEF KeptInv
  <2>1. PastCheck(s, d)
    BY <1>5 DEF d, PastCheck, At
  <2>2. e # d
    BY <1>1, <1>4, <2>1 DEF AttachInv, AttachTypeOK, KeptInv, Path
  <2>3. kept'[e] = kept[e] /\ saved'[e] = saved[e]
    BY <1>4, <1>5, <2>2 DEF AttachInv, AttachTypeOK
  <2>4. \A q \in Server : PastCheck(q, e)' => q # s /\ PastCheck(q, e)
    BY <1>2, <2>2 DEF d, PastCheck
  <2> QED
    BY <1>2, <2>3, <2>4 DEF AttachInv, KeptInv, At
<1> QED
  BY <1>6, <1>7, <1>8 DEF AttachInv

LEMMA WriteDestinationKeeps ==
  ASSUME AttachInv, NEW s \in Server, WriteDestination(s) PROVE AttachInv'
<1> DEFINE d == job[s].dest
<1>1. d \in Dest /\ d # Outside /\ job[s].file \in File
  BY AttachAssumption DEF WriteDestination, At, AttachInv, JobInv
<1>2. PICK c \in {job[s].file, Broken} :
        saved' = [saved EXCEPT ![d] = c] /\ (job[s].alone => c = job[s].file)
  BY DEF WriteDestination
<1>3. AttachTypeOK'
  BY <1>1, <1>2, AnswersTyped DEF WriteDestination, AttachInv, AttachTypeOK, JobRecord, Path
<1>4. JobInv'
  BY AnswersTyped, NoJobTyped DEF WriteDestination, AttachInv, JobInv, At
<1>5. KeptInv'
  BY <1>1, <1>2, AnswersTyped, NoJobTyped, SMTT(20)
  DEF WriteDestination, AttachInv, AttachTypeOK, KeptInv, PastCheck, At, Path
<1> QED
  BY <1>3, <1>4, <1>5 DEF AttachInv

(* A save that ends without an effect, and what happens to the sources.        *)
LEMMA LeaveKeeps ==
  ASSUME AttachInv, NEW s \in Server, SaveFails(s) \/ Crash(s) PROVE AttachInv'
<1>1. CASE SaveFails(s)
  BY <1>1, AnswersKeeps DEF SaveFails
<1>2. CASE Crash(s)
  BY <1>2, NoJobTyped DEF Crash, AttachInv, AttachTypeOK, JobRecord, JobInv, KeptInv, PastCheck, At
<1> QED
  BY <1>1, <1>2

LEMMA SourceKeeps ==
  ASSUME AttachInv, NEW f \in File, Expires(f) \/ CleanUp(f) \/ Sweep(f) PROVE AttachInv'
<1>1. AttachTypeOK'
  BY DEF AttachInv, AttachTypeOK, Expires, CleanUp, Sweep
<1>2. UNCHANGED <<saved, job, kept>>
  BY DEF Expires, CleanUp, Sweep
<1> QED
  BY <1>1, <1>2 DEF AttachInv, JobInv, KeptInv, PastCheck, At

LEMMA AttachStep == AttachInv /\ [AttachNext]_attachVars => AttachInv'
<1> SUFFICES ASSUME AttachInv, [AttachNext]_attachVars PROVE AttachInv'
  OBVIOUS
<1>1. ASSUME NEW s \in Server, SaveStep(s) PROVE AttachInv'
  BY <1>1, SaveCallKeeps, ReadSourceKeeps, CheckDestinationKeeps, OpenDestinationKeeps,
     WriteDestinationKeeps, LeaveKeeps DEF SaveStep
<1>2. CASE UNCHANGED attachVars
  BY <1>2 DEF attachVars, AttachInv, AttachTypeOK, JobInv, KeptInv, PastCheck, At
<1> QED
  BY <1>1, <1>2, SourceKeeps DEF AttachNext

(* Saves keep their invariant with any number of servers writing to the same   *)
(* destinations, crashes, and sources that expire or are swept meanwhile.      *)
THEOREM AttachInvariance == AttachSpec => []AttachInv
  BY InitAttach, AttachStep, PTL DEF AttachSpec

(* Every variable of the attachments stays in its type.                        *)
THEOREM AttachmentsTyped == AttachSpec => []AttachTypeOK
<1>1. AttachInv => AttachTypeOK
  BY DEF AttachInv
<1> QED
  BY <1>1, AttachInvariance, PTL

(* A file that save_attachment reported as saved, with no other server then    *)
(* past its check of that destination, stays whole until a save is told to     *)
(* overwrite it.                                                               *)
THEOREM SavedFilesAreKept == AttachSpec => []SavedIsKept
<1>1. AttachInv => SavedIsKept
  BY DEF AttachInv, KeptInv, SavedIsKept, Path
<1> QED
  BY <1>1, AttachInvariance, PTL

--------------------------------------------------------------------------------
(* The parts of a message, for messages of any depth and width.  Everything    *)
(* said of a part is said by induction: from what is said of the parts below.  *)

(* Every set of numbers has a least one.                                       *)
LEMMA LeastNumber ==
  ASSUME NEW T \in SUBSET Nat, T # {}
  PROVE  \E n \in T : \A i \in T : n <= i
<1>1. IsWellFoundedOn(OpToRel(<, Nat), Nat)
  BY NatLessThanWellFounded
<1>2. PICK n \in T : \A i \in T : <<i, n>> \notin OpToRel(<, Nat)
  <2> HIDE DEF OpToRel
  <2> QED
    BY <1>1, WFMin
<1>3. \A i \in T : ~(i < n)
  BY <1>2 DEF OpToRel
<1> QED
  BY <1>3

(* Every family of subsets of a finite set has one that includes no other.     *)
LEMMA LeastSubset ==
  ASSUME NEW D, IsFiniteSet(D), NEW F \in SUBSET SUBSET D, F # {}
  PROVE  \E A \in F : \A B \in F : B \subseteq A => B = A
<1>1. IsWellFoundedOn(StrictSubsetOrdering(D), SUBSET D)
  BY FS_StrictSubsetOrderingWellFounded, FS_FiniteSubsetsOfFinite
<1>2. PICK A \in F : \A B \in F : <<B, A>> \notin StrictSubsetOrdering(D)
  BY <1>1, WFMin
<1>3. \A B \in F : B \subseteq A => B = A
  BY <1>2 DEF StrictSubsetOrdering
<1> QED
  BY <1>3

(* Predecessors come to an end: every set of elements has a first one.         *)
Ends(R, D) == \A T \in SUBSET D : T # {} => \E x \in T : \A y \in T : <<y, x>> \notin R

(* What G gives for an element and a function from D to V is in V, and depends *)
(* on the function's values at the element's predecessors only.                *)
Determined(G, R, D, V) ==
  \A x \in D : \A f \in [D -> V] :
    /\ G[<<x, f>>] \in V
    /\ \A g \in [D -> V] : (\A y \in D : <<y, x>> \in R => f[y] = g[y]) => G[<<x, f>>] = G[<<x, g>>]

(* There is a function that G defines recursively.                             *)
IsSolved(G, D, V) == \E f \in [D -> V] : \A x \in D : f[x] = G[<<x, f>>]

(* Over a finite set, a recursive function whose values depend on those at     *)
(* predecessors is defined.                                                    *)
LEMMA RecursionDefines ==
  ASSUME NEW D, IsFiniteSet(D), NEW V, V # {}, NEW R, Ends(R, D), NEW G, Determined(G, R, D, V)
  PROVE  IsSolved(G, D, V)
<1> DEFINE Solves(f, A) == \A x \in D \ A : f[x] = G[<<x, f>>]
           Left == {A \in SUBSET D : /\ \A x \in D \ A : \A y \in D : <<y, x>> \in R => y \notin A
                                     /\ \E f \in [D -> V] : Solves(f, A)}
<1>1. D \in Left
  <2>1. PICK v : v \in V
    OBVIOUS
  <2>2. [x \in D |-> v] \in [D -> V]
    BY <2>1
  <2> QED
    BY <2>2
<1>2. PICK A \in Left : \A B \in Left : B \subseteq A => B = A
  <2> Left \in SUBSET SUBSET D /\ Left # {}
    BY <1>1
  <2> HIDE DEF Left
  <2> QED
    BY LeastSubset
<1>3. PICK f \in [D -> V] : Solves(f, A)
  BY <1>2
<1>4. A = {}
  <2>1. SUFFICES ASSUME A # {} PROVE FALSE
    OBVIOUS
  <2>2. PICK x \in A : \A y \in A : <<y, x>> \notin R
    BY <1>2, <2>1 DEF Ends
  <2> DEFINE g == [f EXCEPT ![x] = G[<<x, f>>]]
             B == A \ {x}
  <2>3. x \in D /\ G[<<x, f>>] \in V
    BY <1>2 DEF Determined
  <2>4. g \in [D -> V] /\ g[x] = G[<<x, f>>] /\ \A y \in D \ {x} : g[y] = f[y]
    BY <2>3
  <2> HIDE DEF g
  <2>5. \A z \in D \ B : \A y \in D : <<y, z>> \in R => y \notin A
    BY <1>2, <2>2
  <2>6. \A z \in D \ B : G[<<z, g>>] = G[<<z, f>>]
    BY <2>2, <2>3, <2>4, <2>5 DEF Determined
  <2>7. Solves(g, B)
    BY <1>3, <2>3, <2>4, <2>6
  <2>8. B \in Left
    BY <1>2, <2>3, <2>4, <2>5, <2>7
  <2> QED
    BY <1>2, <2>2, <2>8
<1> QED
  BY <1>3, <1>4 DEF IsSolved

(* Going down from a part comes to an end, in every message.                   *)
LEMMA PartsEnd ==
  ASSUME NEW m, IsMessage(m), NEW T \in SUBSET DOMAIN m, T # {}
  PROVE  \E p \in T : \A i \in 1..m[p].parts : Append(p, i) \notin T
<1> DEFINE Deeper(p) == {q \in T : Len(q) >= Len(p)}
           F == {Deeper(p) : p \in T}
<1>1. \A p \in T : p \in Seq(Nat) /\ Len(p) \in Nat /\ m[p].parts \in Nat
  BY DEF IsMessage, Part
<1>2. PICK A \in F : \A B \in F : B \subseteq A => B = A
  <2> IsFiniteSet(DOMAIN m)
    BY DEF IsMessage
  <2> F \in SUBSET SUBSET DOMAIN m /\ F # {}
    OBVIOUS
  <2> HIDE DEF F
  <2> QED
    BY LeastSubset
<1>3. PICK p \in T : A = Deeper(p)
  OBVIOUS
<1>4. ASSUME NEW i \in 1..m[p].parts, Append(p, i) \in T PROVE FALSE
  <2>1. Len(Append(p, i)) = Len(p) + 1
    BY <1>1, AppendProperties
  <2>2. Deeper(Append(p, i)) \subseteq A
    BY <1>1, <1>3, <2>1
  <2>3. Deeper(Append(p, i)) = A
    BY <1>2, <1>4, <2>2
  <2>4. p \notin Deeper(Append(p, i))
    BY <1>1, <2>1
  <2> QED
    BY <1>1, <1>3, <2>3, <2>4
<1> QED
  BY <1>4

(* Where an element of the first n of some sequences, one after the other,     *)
(* comes from.                                                                 *)
Places(seqs, n) == {p \in (1..n) \X Nat : p[2] \in DOMAIN seqs[p[1]]}

(* One place comes before another.                                             *)
Before(a, b) == a[1] < b[1] \/ (a[1] = b[1] /\ a[2] < b[2])

(* A sequence holds the elements of the first n of some sequences, in order.   *)
IsFlat(flat, seqs, n) ==
  /\ \A place \in Places(seqs, n) : seqs[place[1]][place[2]] \in ToSet(flat)
  /\ \E from \in [DOMAIN flat -> Places(seqs, n)] :
       /\ \A a \in DOMAIN flat : flat[a] = seqs[from[a][1]][from[a][2]]
       /\ \A a, b \in DOMAIN flat : a < b => Before(from[a], from[b])

(* One sequence more, put after the others.                                    *)
LEMMA FlatMore ==
  ASSUME NEW S, NEW seqs \in Seq(Seq(S)), NEW n \in Nat, n + 1 \in 1..Len(seqs),
         NEW flat \in Seq(S), IsFlat(flat, seqs, n)
  PROVE  flat \o seqs[n + 1] \in Seq(S) /\ IsFlat(flat \o seqs[n + 1], seqs, n + 1)
<1> DEFINE more == seqs[n + 1]
           both == flat \o more
<1>1. more \in Seq(S)
  OBVIOUS
<1>2. /\ both \in Seq(S) /\ Len(both) = Len(flat) + Len(more)
      /\ \A a \in 1..Len(flat) + Len(more) :
           both[a] = IF a <= Len(flat) THEN flat[a] ELSE more[a - Len(flat)]
  BY <1>1, ConcatProperties
<1>3. /\ Len(flat) \in Nat /\ DOMAIN flat = 1..Len(flat)
      /\ Len(more) \in Nat /\ DOMAIN more = 1..Len(more) /\ DOMAIN both = 1..Len(flat) + Len(more)
  BY <1>1, <1>2
<1> HIDE DEF more, both
<1>4. PICK from \in [DOMAIN flat -> Places(seqs, n)] :
        /\ \A a \in DOMAIN flat : flat[a] = seqs[from[a][1]][from[a][2]]
        /\ \A a, b \in DOMAIN flat : a < b => Before(from[a], from[b])
  BY DEF IsFlat
<1> DEFINE next == [a \in DOMAIN both |-> IF a <= Len(flat) THEN from[a] ELSE <<n + 1, a - Len(flat)>>]
<1>5. \A a \in DOMAIN both : a > Len(flat) => a - Len(flat) \in DOMAIN more
  BY <1>3
<1>6. Places(seqs, n) \subseteq Places(seqs, n + 1)
  BY DEF Places
<1>7. ASSUME NEW k \in DOMAIN more PROVE <<n + 1, k>> \in Places(seqs, n + 1)
  <2>1. n + 1 \in 1..n + 1 /\ k \in Nat
    BY <1>3
  <2>2. k \in DOMAIN seqs[n + 1]
    BY DEF more
  <2> QED
    BY <2>1, <2>2 DEF Places
<1>8. ASSUME NEW a \in DOMAIN both
      PROVE  /\ a <= Len(flat) => a \in DOMAIN flat /\ next[a] = from[a]
             /\ a > Len(flat) => next[a] = <<n + 1, a - Len(flat)>>
  BY <1>3
<1>9. next \in [DOMAIN both -> Places(seqs, n + 1)]
  <2>1. ASSUME NEW a \in DOMAIN both PROVE next[a] \in Places(seqs, n + 1)
    <3> HIDE DEF next
    <3>1. CASE a <= Len(flat)
      BY <1>4, <1>6, <1>8, <3>1
    <3>2. CASE a > Len(flat)
      BY <1>5, <1>7, <1>8, <3>2
    <3> QED
      BY <1>3, <3>1, <3>2
  <2> QED
    BY <2>1
<1> HIDE DEF next
<1>10. ASSUME NEW a \in DOMAIN both PROVE both[a] = seqs[next[a][1]][next[a][2]]
  <2>1. CASE a <= Len(flat)
    BY <1>2, <1>3, <1>4, <1>8, <2>1
  <2>2. CASE a > Len(flat)
    <3>1. next[a][1] = n + 1 /\ next[a][2] = a - Len(flat)
      BY <1>8, <2>2
    <3>2. both[a] = more[a - Len(flat)]
      BY <1>2, <1>3, <2>2
    <3> QED
      BY <3>1, <3>2 DEF more
  <2> QED
    BY <1>3, <2>1, <2>2
<1>11. ASSUME NEW a \in DOMAIN both, NEW b \in DOMAIN both, a < b
       PROVE  Before(next[a], next[b])
  <2>1. CASE b <= Len(flat)
    <3>1. a <= Len(flat)
      BY <1>3, <1>11, <2>1
    <3> QED
      BY <1>4, <1>8, <1>11, <2>1, <3>1
  <2>2. CASE a <= Len(flat) /\ b > Len(flat)
    <3>1. next[a] \in Places(seqs, n) /\ next[b] = <<n + 1, b - Len(flat)>>
      BY <1>4, <1>8, <2>2
    <3>2. next[a][1] \in 1..n /\ next[b][1] = n + 1
      BY <3>1 DEF Places
    <3> QED
      BY <3>2 DEF Before
  <2>3. CASE a > Len(flat)
    <3>1. b > Len(flat)
      BY <1>3, <1>11, <2>3
    <3>2. /\ next[a] = <<n + 1, a - Len(flat)>> /\ next[b] = <<n + 1, b - Len(flat)>>
          /\ a - Len(flat) < b - Len(flat)
      BY <1>3, <1>8, <1>11, <2>3, <3>1
    <3> QED
      BY <3>2 DEF Before
  <2> QED
    BY <1>3, <2>1, <2>2, <2>3
<1>12. ASSUME NEW place \in Places(seqs, n + 1)
       PROVE  seqs[place[1]][place[2]] \in ToSet(both)
  <2>1. CASE place \in Places(seqs, n)
    <3>1. PICK a \in DOMAIN flat : flat[a] = seqs[place[1]][place[2]]
      BY <2>1 DEF IsFlat, ToSet
    <3>2. a \in DOMAIN both /\ both[a] = flat[a]
      BY <1>2, <1>3
    <3> QED
      BY <3>1, <3>2 DEF ToSet
  <2>2. CASE place \notin Places(seqs, n)
    <3>1. place[1] = n + 1 /\ place[2] \in DOMAIN more
      BY <2>2 DEF Places, more
    <3>2. PICK k \in 1..Len(more) : k = place[2]
      BY <1>3, <3>1
    <3>3. PICK a \in 1..Len(flat) + Len(more) : a > Len(flat) /\ a - Len(flat) = k
      <4>1. Len(flat) + k \in 1..Len(flat) + Len(more)
        BY <1>3
      <4>2. Len(flat) + k > Len(flat) /\ (Len(flat) + k) - Len(flat) = k
        BY <1>3
      <4> QED
        BY <4>1, <4>2
    <3>4. a \in DOMAIN both /\ both[a] = more[k]
      BY <1>2, <1>3, <3>3
    <3> QED
      BY <3>1, <3>2, <3>4 DEF ToSet, more
  <2> QED
    BY <2>1, <2>2
<1>13. IsFlat(both, seqs, n + 1)
  BY <1>9, <1>10, <1>11, <1>12 DEF IsFlat
<1> QED
  BY <1>2, <1>13 DEF both, more

(* No sequences, put after one another, are the empty sequence.                *)
LEMMA FlatNone ==
  ASSUME NEW S, NEW seqs
  PROVE  <<>> \in Seq(S) /\ IsFlat(<<>>, seqs, 0)
<1>1. Places(seqs, 0) = {} /\ DOMAIN <<>> = {} /\ <<>> \in Seq(S)
  BY DEF Places
<1>2. [a \in {} |-> a] \in [DOMAIN <<>> -> Places(seqs, 0)]
  BY <1>1
<1> QED
  BY <1>1, <1>2 DEF IsFlat

(* FlattenSeq puts the elements of the sequences after one another.            *)
LEMMA FlattenProperties ==
  ASSUME NEW S, NEW seqs \in Seq(Seq(S))
  PROVE  FlattenSeq(seqs) \in Seq(S) /\ IsFlat(FlattenSeq(seqs), seqs, Len(seqs))
<1> DEFINE D == 1..Len(seqs)
           R == {p \in D \X D : p[1] < p[2]}
           Step(i, f) == IF i = 1 THEN seqs[i] ELSE f[i - 1] \o seqs[i]
           G == [x \in D \X [D -> Seq(S)] |-> Step(x[1], x[2])]
<1>0. Len(seqs) \in Nat /\ \A i \in D : seqs[i] \in Seq(S)
  OBVIOUS
<1>1. CASE Len(seqs) = 0
  <2>1. seqs = <<>> /\ FlattenSeq(seqs) = <<>>
    BY <1>1 DEF FlattenSeq
  <2> QED
    BY <1>1, <2>1, FlatNone
<1>2. CASE Len(seqs) # 0
  <2>1. IsFiniteSet(D)
    BY <1>0, FS_Interval
  <2>2. Ends(R, D)
    <3> SUFFICES ASSUME NEW T \in SUBSET D, T # {} PROVE \E x \in T : \A y \in T : <<y, x>> \notin R
      BY DEF Ends
    <3>1. PICK x \in T : \A y \in T : x <= y
      BY LeastNumber
    <3> QED
      BY <3>1
  <2>3. ASSUME NEW i \in D, NEW f \in [D -> Seq(S)]
        PROVE  G[<<i, f>>] = Step(i, f) /\ Step(i, f) \in Seq(S)
    <3>1. Step(i, f) \in Seq(S)
      <4>1. CASE i = 1
        BY <1>0, <4>1
      <4>2. CASE i # 1
        <5>1. i - 1 \in D
          BY <1>0, <4>2
        <5> QED
          BY <1>0, <4>2, <5>1, ConcatProperties
      <4> QED
        BY <4>1, <4>2
    <3>2. G[<<i, f>>] = Step(i, f)
      OBVIOUS
    <3> QED
      BY <3>1, <3>2
  <2>4. ASSUME NEW i \in D, NEW f \in [D -> Seq(S)], NEW g \in [D -> Seq(S)],
               \A y \in D : <<y, i>> \in R => f[y] = g[y]
        PROVE  Step(i, f) = Step(i, g)
    <3>1. i # 1 => i - 1 \in D /\ i - 1 < i
      BY <1>0
    <3> QED
      BY <2>4, <3>1
  <2> HIDE DEF G
  <2>5. \E f \in [D -> Seq(S)] : \A i \in D : f[i] = G[<<i, f>>]
    <3>1. Seq(S) # {}
      OBVIOUS
    <3>2. Determined(G, R, D, Seq(S))
      <4> SUFFICES ASSUME NEW x \in D, NEW f \in [D -> Seq(S)]
                   PROVE  /\ G[<<x, f>>] \in Seq(S)
                          /\ \A g \in [D -> Seq(S)] :
                               (\A y \in D : <<y, x>> \in R => f[y] = g[y]) => G[<<x, f>>] = G[<<x, g>>]
        BY DEF Determined
      <4>1. ASSUME NEW g \in [D -> Seq(S)], \A y \in D : <<y, x>> \in R => f[y] = g[y]
            PROVE  G[<<x, f>>] = G[<<x, g>>]
        <5>1. Step(x, f) = Step(x, g)
          BY <2>4, <4>1
        <5> HIDE DEF R, D, Step
        <5> QED
          BY <2>3, <5>1
      <4> HIDE DEF R, D, Step
      <4> QED
        BY <2>3, <4>1
    <3>3. IsSolved(G, D, Seq(S))
      <4> HIDE DEF R, D, Step
      <4> QED
        BY <2>1, <2>2, <3>1, <3>2, RecursionDefines
    <3> HIDE DEF R, D, Step
    <3> QED
      BY <3>3 DEF IsSolved
  <2>6. PICK f \in [D -> Seq(S)] : f = [i \in D |-> Step(i, f)]
    <3> HIDE DEF Step, D
    <3> QED
      BY <2>3, <2>5
  <2>7. PICK flat : /\ flat = [i \in D |-> IF i = 1 THEN seqs[i] ELSE flat[i - 1] \o seqs[i]]
                    /\ FlattenSeq(seqs) = flat[Len(seqs)]
    BY <1>2, <2>6 DEF FlattenSeq
  <2> DEFINE Good(n) == flat[n] \in Seq(S) /\ IsFlat(flat[n], seqs, n)
             Bad == {n \in D : ~Good(n)}
  <2>8. \A i \in D : flat[i] = IF i = 1 THEN seqs[i] ELSE flat[i - 1] \o seqs[i]
    BY <2>7
  <2>9. Bad = {}
    <3>1. SUFFICES ASSUME Bad # {} PROVE FALSE
      OBVIOUS
    <3> HIDE DEF Good
    <3>2. PICK n \in Bad : \A i \in Bad : n <= i
      <4> Bad \in SUBSET Nat
        OBVIOUS
      <4> HIDE DEF Bad
      <4> QED
        BY <3>1, LeastNumber
    <3>3. CASE n = 1
      <4>1. <<>> \in Seq(S) /\ IsFlat(<<>>, seqs, 0)
        BY FlatNone
      <4>2. <<>> \o seqs[1] \in Seq(S) /\ IsFlat(<<>> \o seqs[1], seqs, 0 + 1)
        <5> DEFINE k == 0
                   e == <<>>
        <5>1. k \in Nat /\ k + 1 \in 1..Len(seqs) /\ e \in Seq(S) /\ IsFlat(e, seqs, k)
          BY <1>0, <1>2, <4>1
        <5> HIDE DEF k, e
        <5>2. e \o seqs[k + 1] \in Seq(S) /\ IsFlat(e \o seqs[k + 1], seqs, k + 1)
          BY <5>1, FlatMore
        <5> QED
          BY <5>2 DEF k, e
      <4>3. flat[1] = seqs[1] /\ seqs[1] \in Seq(S) /\ <<>> \o seqs[1] = seqs[1]
        BY <1>0, <1>2, <2>8
      <4> QED
        BY <3>2, <3>3, <4>2, <4>3 DEF Good
    <3>4. CASE n # 1
      <4>1. n - 1 \in D /\ n - 1 \notin Bad /\ (n - 1) + 1 = n
        BY <1>0, <3>2, <3>4
      <4>2. Good(n - 1)
        BY <4>1
      <4>3. flat[n] = flat[n - 1] \o seqs[n]
        BY <2>8, <3>4
      <4>4. flat[n - 1] \o seqs[n] \in Seq(S) /\ IsFlat(flat[n - 1] \o seqs[n], seqs, n)
        <5> DEFINE k == n - 1
        <5>1. k \in Nat /\ k + 1 \in 1..Len(seqs) /\ flat[k] \in Seq(S) /\ IsFlat(flat[k], seqs, k)
          BY <1>0, <4>1, <4>2 DEF Good
        <5>2. k + 1 = n
          BY <1>0, <4>1
        <5> HIDE DEF k
        <5>3. flat[k] \o seqs[k + 1] \in Seq(S) /\ IsFlat(flat[k] \o seqs[k + 1], seqs, k + 1)
          BY <5>1, FlatMore
        <5> QED
          BY <5>2, <5>3 DEF k
      <4> QED
        BY <3>2, <4>3, <4>4 DEF Good
    <3> QED
      BY <3>3, <3>4
  <2>10. Good(Len(seqs))
    <3>1. Len(seqs) \in D
      BY <1>0, <1>2
    <3> HIDE DEF Good, D
    <3> QED
      BY <2>9, <3>1
  <2> QED
    BY <2>7, <2>10
<1> QED
  BY <1>1, <1>2

(* What is found below the parts of a part, one piece for each.                *)
LEMMA PiecesProperties ==
  ASSUME IsMessage(payload), NEW p \in DOMAIN payload, NEW f \in [DOMAIN payload -> Seq(DOMAIN payload)]
  PROVE  /\ payload[p].parts \in Nat
         /\ Pieces(p, f) \in Seq(Seq(DOMAIN payload)) /\ Len(Pieces(p, f)) = payload[p].parts
         /\ \A i \in 1..payload[p].parts : Pieces(p, f)[i] = f[Append(p, i)]
<1>1. payload[p].parts \in Nat /\ \A i \in 1..payload[p].parts : Append(p, i) \in DOMAIN payload
  BY DEF IsMessage, Part
<1>2. \A i \in 1..payload[p].parts : f[Append(p, i)] \in Seq(DOMAIN payload)
  BY <1>1
<1> DEFINE n == payload[p].parts
           V == Seq(DOMAIN payload)
<1>3. Pieces(p, f) \in [1..n -> V] /\ \A i \in 1..n : Pieces(p, f)[i] = f[Append(p, i)]
  BY <1>2 DEF Pieces
<1>4. Pieces(p, f) \in Seq(V) /\ Len(Pieces(p, f)) = n
  <2>1. n \in Nat
    BY <1>1
  <2> HIDE DEF V, n
  <2>2. \A s \in [1..n -> V] : s \in Seq(V) /\ Len(s) = n
    BY <2>1
  <2> QED
    BY <1>3, <2>2
<1> HIDE DEF V
<1> QED
  BY <1>1, <1>3, <1>4 DEF V

(* A traversal of the message that puts together what it finds for a part from *)
(* what it finds for its parts is defined for every part.                      *)
LEMMA TraversalDefines ==
  ASSUME IsMessage(payload),
         NEW H \in [(DOMAIN payload) \X Seq(Seq(DOMAIN payload)) -> Seq(DOMAIN payload)]
  PROVE  \E f \in [DOMAIN payload -> Seq(DOMAIN payload)] :
           \A p \in DOMAIN payload : f[p] = H[<<p, Pieces(p, f)>>]
<1> DEFINE D == DOMAIN payload
           V == Seq(D)
           R == {x \in D \X D : \E i \in 1..payload[x[2]].parts : x[1] = Append(x[2], i)}
           G == [x \in D \X [D -> V] |-> H[<<x[1], Pieces(x[1], x[2])>>]]
<1>1. IsFiniteSet(D) /\ V # {}
  <2>1. <<>> \in Seq(D)
    OBVIOUS
  <2> QED
    BY <2>1 DEF IsMessage
<1>2. Ends(R, D)
  <2> SUFFICES ASSUME NEW T \in SUBSET D, T # {} PROVE \E x \in T : \A y \in T : <<y, x>> \notin R
    BY DEF Ends
  <2>1. PICK p \in T : \A i \in 1..payload[p].parts : Append(p, i) \notin T
    BY PartsEnd
  <2> QED
    BY <2>1
<1>3. ASSUME NEW p \in D, NEW f \in [D -> V]
      PROVE  G[<<p, f>>] = H[<<p, Pieces(p, f)>>] /\ G[<<p, f>>] \in V
  <2>1. Pieces(p, f) \in Seq(V)
    BY PiecesProperties
  <2> HIDE DEF V, D
  <2>2. G[<<p, f>>] = H[<<p, Pieces(p, f)>>]
    OBVIOUS
  <2>3. H \in [D \X Seq(V) -> V]
    BY DEF D, V
  <2> QED
    BY <2>1, <2>2, <2>3
<1>4. ASSUME NEW p \in D, NEW f \in [D -> V], NEW g \in [D -> V],
             \A y \in D : <<y, p>> \in R => f[y] = g[y]
      PROVE  Pieces(p, f) = Pieces(p, g)
  <2>1. \A i \in 1..payload[p].parts : Append(p, i) \in D
    BY DEF IsMessage
  <2>2. \A i \in 1..payload[p].parts : f[Append(p, i)] = g[Append(p, i)]
    BY <1>4, <2>1
  <2> QED
    BY <2>2 DEF Pieces
<1>5. Determined(G, R, D, V)
  <2> SUFFICES ASSUME NEW p \in D, NEW f \in [D -> V]
               PROVE  /\ G[<<p, f>>] \in V
                      /\ \A g \in [D -> V] :
                           (\A y \in D : <<y, p>> \in R => f[y] = g[y]) => G[<<p, f>>] = G[<<p, g>>]
    BY DEF Determined
  <2>1. ASSUME NEW g \in [D -> V], \A y \in D : <<y, p>> \in R => f[y] = g[y]
        PROVE  G[<<p, f>>] = G[<<p, g>>]
    <3>1. Pieces(p, f) = Pieces(p, g)
      BY <1>4, <2>1
    <3> HIDE DEF G, R, V, D
    <3> QED
      BY <1>3, <3>1
  <2> HIDE DEF G, R, V, D
  <2> QED
    BY <1>3, <2>1
<1>6. IsSolved(G, D, V)
  <2> HIDE DEF G, R, V, D
  <2> QED
    BY <1>1, <1>2, <1>5, RecursionDefines
<1> HIDE DEF G, V, D
<1>7. PICK f \in [D -> V] : \A p \in D : f[p] = G[<<p, f>>]
  BY <1>6 DEF IsSolved
<1>8. \A p \in D : f[p] = H[<<p, Pieces(p, f)>>]
  BY <1>3, <1>7
<1> QED
  BY <1>8 DEF D, V

(* What such a traversal finds for a part is a sequence of parts.              *)
LEMMA TraversalFindsParts ==
  ASSUME IsMessage(payload), NEW f, DOMAIN f = DOMAIN payload,
         \A p \in DOMAIN payload :
           Pieces(p, f) \in Seq(Seq(DOMAIN payload)) => f[p] \in Seq(DOMAIN payload)
  PROVE  \A p \in DOMAIN payload : f[p] \in Seq(DOMAIN payload)
<1> DEFINE D == DOMAIN payload
           Bad == {p \in D : f[p] \notin Seq(D)}
<1>1. SUFFICES ASSUME Bad # {} PROVE FALSE
  OBVIOUS
<1>2. PICK p \in Bad : \A i \in 1..payload[p].parts : Append(p, i) \notin Bad
  <2>1. Bad \in SUBSET D
    OBVIOUS
  <2> HIDE DEF Bad
  <2> QED
    BY <1>1, <2>1, PartsEnd
<1>3. payload[p].parts \in Nat /\ \A i \in 1..payload[p].parts : Append(p, i) \in D
  BY DEF IsMessage, Part
<1> DEFINE n == payload[p].parts
           V == Seq(D)
<1>4. \A i \in 1..n : f[Append(p, i)] \in V
  BY <1>2, <1>3
<1>5. Pieces(p, f) \in [1..n -> V]
  BY <1>4 DEF Pieces
<1>6. Pieces(p, f) \in Seq(V)
  <2> HIDE DEF V
  <2> QED
    BY <1>3, <1>5
<1> QED
  BY <1>6

(* The earliest of some elements of a sequence is one of them.                 *)
LEMMA EarliestProperties ==
  ASSUME NEW seq, NEW indices \in SUBSET Nat, indices # {}
  PROVE  \E i \in indices : Earliest(seq, indices) = seq[i] /\ \A j \in indices : i <= j
<1>1. \E i \in indices : \A j \in indices : i <= j
  BY LeastNumber
<1> QED
  BY <1>1 DEF Earliest

(* The types get_email asks for.                                               *)
TextTypes == {"text/plain", "text/html"}

(* _extract_parts returns parts of the message.                                *)
LEMMA TakenIsParts ==
  ASSUME IsMessage(payload), NEW mime \in TextTypes, NEW p \in DOMAIN payload,
         NEW pieces \in Seq(Seq(DOMAIN payload))
  PROVE  Taken(mime, p, pieces) \in Seq(DOMAIN payload)
<1> DEFINE D == DOMAIN payload
<1>1. <<>> \in Seq(D) /\ <<p>> \in Seq(D)
  OBVIOUS
<1>2. FlattenSeq(pieces) \in Seq(D)
  BY FlattenProperties
<1>3. FirstWithContent(pieces) \in Seq(D)
  <2> DEFINE full == {i \in DOMAIN pieces : pieces[i] # <<>>}
  <2>1. CASE full = {}
    BY <1>1, <2>1 DEF FirstWithContent
  <2>2. CASE full # {}
    <3>1. \E i \in full : Earliest(pieces, full) = pieces[i]
      <4>1. full \in SUBSET Nat
        OBVIOUS
      <4> HIDE DEF full
      <4> QED
        BY <2>2, <4>1, EarliestProperties
    <3>2. Earliest(pieces, full) \in Seq(D)
      BY <3>1
    <3>3. FirstWithContent(pieces) = Earliest(pieces, full)
      BY <2>2 DEF FirstWithContent
    <3> QED
      BY <3>2, <3>3
  <2> QED
    BY <2>1, <2>2
<1> HIDE DEF D
<1>4. Taken(mime, p, pieces) \in {<<>>, <<p>>, FirstWithContent(pieces), FlattenSeq(pieces)}
  BY DEF Taken, TextTypes
<1>5. Taken(mime, p, pieces) \in Seq(D)
  BY <1>1, <1>2, <1>3, <1>4
<1> QED
  BY <1>5 DEF D

(* _extract_parts is defined for every part, and returns parts.                *)
LEMMA TextsDefined ==
  ASSUME IsMessage(payload), NEW mime \in TextTypes
  PROVE  /\ Texts(mime) \in [DOMAIN payload -> Seq(DOMAIN payload)]
         /\ \A p \in DOMAIN payload : Texts(mime)[p] = Taken(mime, p, Pieces(p, Texts(mime)))
<1> DEFINE D == DOMAIN payload
           H == [x \in D \X Seq(Seq(D)) |-> Taken(mime, x[1], x[2])]
<1>1. H \in [D \X Seq(Seq(D)) -> Seq(D)] /\ \A p \in D : \A s \in Seq(Seq(D)) : H[<<p, s>>] = Taken(mime, p, s)
  BY TakenIsParts
<1>2. PICK f \in [D -> Seq(D)] : \A p \in D : f[p] = H[<<p, Pieces(p, f)>>]
  <2> HIDE DEF H
  <2> QED
    BY <1>1, TraversalDefines
<1>3. \A p \in D : f[p] = Taken(mime, p, Pieces(p, f))
  <2>1. \A p \in D : Pieces(p, f) \in Seq(Seq(D))
    BY PiecesProperties
  <2> HIDE DEF H, D
  <2> QED
    BY <1>1, <1>2, <2>1
<1>4. f = [p \in D |-> Taken(mime, p, Pieces(p, f))]
  BY <1>3
<1>5. Texts(mime) = [p \in D |-> Taken(mime, p, Pieces(p, Texts(mime)))]
  BY <1>4 DEF Texts
<1> DEFINE t == Texts(mime)
<1> HIDE DEF t
<1>6. DOMAIN t = D /\ \A p \in D : t[p] = Taken(mime, p, Pieces(p, t))
  BY <1>5 DEF t
<1>7. \A p \in D : t[p] \in Seq(D)
  BY <1>6, TakenIsParts, TraversalFindsParts
<1>8. t = [p \in D |-> t[p]]
  BY <1>5 DEF t
<1>9. t \in [D -> Seq(D)]
  BY <1>7, <1>8
<1> QED
  BY <1>6, <1>9 DEF t

(* The part itself, if it can be downloaded.                                   *)
Own(p) == IF payload[p].filename /\ payload[p].attachmentId THEN <<p>> ELSE <<>>

(* _attachment_parts is defined for every part, and returns parts.             *)
LEMMA AttachmentsDefined ==
  ASSUME IsMessage(payload)
  PROVE  /\ AttachmentParts \in [DOMAIN payload -> Seq(DOMAIN payload)]
         /\ \A p \in DOMAIN payload :
              AttachmentParts[p] = Own(p) \o FlattenSeq(Pieces(p, AttachmentParts))
<1> DEFINE D == DOMAIN payload
           Join(p, pieces) == Own(p) \o FlattenSeq(pieces)
           H == [x \in D \X Seq(Seq(D)) |-> Join(x[1], x[2])]
<1>1. ASSUME NEW p \in D, NEW pieces \in Seq(Seq(D)) PROVE Join(p, pieces) \in Seq(D)
  <2>1. FlattenSeq(pieces) \in Seq(D)
    BY FlattenProperties
  <2>2. Own(p) \in Seq(D)
    <3>1. <<p>> \in Seq(D) /\ <<>> \in Seq(D)
      OBVIOUS
    <3>2. Own(p) \in {<<p>>, <<>>}
      BY DEF Own
    <3> HIDE DEF D
    <3> QED
      BY <3>1, <3>2
  <2> HIDE DEF D
  <2> QED
    BY <2>1, <2>2, ConcatProperties
<1> HIDE DEF Join
<1>2. H \in [D \X Seq(Seq(D)) -> Seq(D)] /\ \A p \in D : \A s \in Seq(Seq(D)) : H[<<p, s>>] = Join(p, s)
  BY <1>1
<1>3. PICK f \in [D -> Seq(D)] : \A p \in D : f[p] = H[<<p, Pieces(p, f)>>]
  <2> HIDE DEF H
  <2> QED
    BY <1>2, TraversalDefines
<1>4. \A p \in D : f[p] = Join(p, Pieces(p, f))
  <2>1. \A p \in D : Pieces(p, f) \in Seq(Seq(D))
    BY PiecesProperties
  <2> HIDE DEF H, D
  <2> QED
    BY <1>2, <1>3, <2>1
<1>5. f = [p \in D |-> Join(p, Pieces(p, f))]
  BY <1>4
<1>6. AttachmentParts = [p \in D |-> Join(p, Pieces(p, AttachmentParts))]
  BY <1>5 DEF AttachmentParts, Join, Own
<1> DEFINE t == AttachmentParts
<1> HIDE DEF t
<1>7. DOMAIN t = D /\ \A p \in D : t[p] = Join(p, Pieces(p, t))
  BY <1>6 DEF t
<1>8. \A p \in D : t[p] \in Seq(D)
  BY <1>1, <1>7, TraversalFindsParts
<1>9. t = [p \in D |-> t[p]]
  BY <1>6 DEF t
<1>10. t \in [D -> Seq(D)]
  BY <1>8, <1>9
<1> QED
  BY <1>7, <1>10 DEF t, Join

(* An attachment is found under its key, and it alone.                         *)
LEMMA KeyFinds ==
  ASSUME IsMessage(payload), NEW p \in ToSet(Downloadable), NEW fetch, NEW other
  PROVE  FindAttachment(Key(p, other), fetch) = p
<1> DEFINE key == Key(p, other)
           found == {i \in DOMAIN Downloadable :
                       key \in {Key(Downloadable[i], fetch), GmailId(fetch, Downloadable[i])}}
<1>1. Downloadable \in Seq(DOMAIN payload)
  BY AttachmentsDefined DEF Downloadable, IsMessage
<1>2. \A i \in found : Downloadable[i] = p
  BY DEF Key, GmailId
<1>3. found # {}
  <2>1. PICK i \in DOMAIN Downloadable : Downloadable[i] = p
    BY DEF ToSet
  <2>2. i \in found
    BY <2>1 DEF Key
  <2> QED
    BY <2>2
<1>4. FindAttachment(key, fetch) = Earliest(Downloadable, found)
  BY <1>3 DEF FindAttachment
<1>5. found \in SUBSET Nat
  BY <1>1
<1> HIDE DEF found, key
<1>6. PICK i \in found : Earliest(Downloadable, found) = Downloadable[i]
  BY <1>3, <1>5, EarliestProperties
<1> QED
  BY <1>2, <1>4, <1>6 DEF key

(* What list_attachments says of an attachment.                                *)
IsEntry(entry) == \E p \in ToSet(Downloadable) : entry = [key |-> Key(p, 0), part |-> p]

(* The inductive invariant of a message: what was listed are its attachments   *)
(* under their keys, and so is what was downloaded.                            *)
MessageInv ==
  /\ payload \in Messages
  /\ \A entry \in listed : IsEntry(entry)
  /\ download # NoDownload => IsEntry(download)

(* It holds at first, and no request breaks it.                                *)
LEMMA MessageInvInit == MessageInit => MessageInv
  BY DEF MessageInit, MessageInv

LEMMA MessageInvStep == MessageInv /\ [MessageNext]_messageVars => MessageInv'
<1> SUFFICES ASSUME MessageInv, [MessageNext]_messageVars PROVE MessageInv'
  OBVIOUS
<1>1. payload' = payload
  BY DEF MessageNext, messageVars, ListAttachments, DownloadAttachment
<1>2. Downloadable' = Downloadable
  BY <1>1 DEF Downloadable, AttachmentParts, Pieces
<1>3. \A entry : IsEntry(entry)' <=> IsEntry(entry)
  BY <1>2 DEF IsEntry
<1>4. CASE ListAttachments
  <2>1. \A entry \in listed' : IsEntry(entry)
    BY <1>4 DEF ListAttachments, IsEntry, Key
  <2> QED
    BY <1>1, <1>3, <1>4, <2>1 DEF MessageInv, ListAttachments
<1>5. CASE DownloadAttachment
  <2>1. PICK entry \in listed : download' = [key |-> entry.key, part |-> FindAttachment(entry.key, fetches')]
    BY <1>5 DEF DownloadAttachment
  <2>2. PICK p \in ToSet(Downloadable) : entry = [key |-> Key(p, 0), part |-> p]
    BY <2>1 DEF MessageInv, IsEntry
  <2>3. FindAttachment(entry.key, fetches') = p
    BY <2>2, KeyFinds, MessagesAssumption DEF MessageInv
  <2>4. IsEntry(download')
    BY <2>1, <2>2, <2>3 DEF IsEntry
  <2> QED
    BY <1>1, <1>2, <1>3, <1>5, <2>4 DEF MessageInv, DownloadAttachment, IsEntry
<1>6. CASE UNCHANGED messageVars
  BY <1>1, <1>3, <1>2, <1>6 DEF MessageInv, messageVars, IsEntry
<1> QED
  BY <1>4, <1>5, <1>6 DEF MessageNext

(* The invariant holds throughout, whatever messages there are.                *)
THEOREM MessageInvariance == MessageSpec => []MessageInv
  BY MessageInvInit, MessageInvStep, PTL DEF MessageSpec

(* What is found and downloaded under a listed key is what was listed.         *)
THEOREM MessageSpecListedIsFound == MessageSpec => []ListedIsFound
<1>1. MessageInv => ListedIsFound
  <2> SUFFICES ASSUME MessageInv, NEW entry \in listed, download.key = entry.key, download # NoDownload
               PROVE  download.part = entry.part
    BY DEF ListedIsFound
  <2>1. PICK p : entry = [key |-> Key(p, 0), part |-> p]
    BY DEF MessageInv, IsEntry
  <2>2. PICK q : download = [key |-> Key(q, 0), part |-> q]
    BY DEF MessageInv, IsEntry
  <2> QED
    BY <2>1, <2>2 DEF Key
<1> QED
  BY <1>1, MessageInvariance, PTL

--------------------------------------------------------------------------------
(* The way to a part.                                                          *)

(* The path to a part: each part on it is there, down to the part itself.      *)
LEMMA UpProperties ==
  ASSUME IsMessage(payload), NEW p \in DOMAIN payload, NEW n \in 0..Len(p)
  PROVE  /\ p \in Seq(Nat) /\ Len(p) \in Nat
         /\ Up(p, n) \in Seq(Nat) /\ Len(Up(p, n)) = n /\ \A k \in 1..n : Up(p, n)[k] = p[k]
<1>1. p \in Seq(Nat) /\ Len(p) \in Nat /\ \A k \in 1..Len(p) : p[k] \in Nat
  <2>1. p \in Seq(Nat)
    BY DEF IsMessage
  <2> QED
    BY <2>1
<1>2. /\ 1 \in Int /\ n \in Int /\ \A k \in 1..n : p[k] \in Nat
      /\ n >= 0
  BY <1>1
<1>3. /\ Up(p, n) \in Seq(Nat) /\ Len(Up(p, n)) = n
      /\ \A k \in 1..n : Up(p, n)[k] = p[1 + k - 1]
  BY <1>1, <1>2, SubSeqProperties DEF Up
<1> QED
  BY <1>1, <1>3

(* The way to a part ends at the part.                                         *)
LEMMA UpAll ==
  ASSUME IsMessage(payload), NEW p \in DOMAIN payload
  PROVE  Up(p, Len(p)) = p
<1>1. p \in Seq(Nat) /\ Len(p) \in 0..Len(p)
  BY DEF IsMessage
<1> QED
  BY <1>1, UpProperties, SeqEqual

(* The way to a part on the way is the way.                                    *)
LEMMA UpUp ==
  ASSUME IsMessage(payload), NEW p \in DOMAIN payload, NEW n \in 0..Len(p), NEW k \in 0..n
  PROVE  Up(Up(p, n), k) = Up(p, k)
<1>1. p \in Seq(Nat) /\ Len(p) \in Nat /\ k \in 0..Len(p)
  BY DEF IsMessage
<1> DEFINE u == Up(p, n)
<1>2. u \in Seq(Nat) /\ Len(u) = n /\ \A i \in 1..n : u[i] = p[i]
  BY UpProperties
<1> HIDE DEF u
<1>3. Up(u, k) \in Seq(Nat) /\ Len(Up(u, k)) = k /\ \A i \in 1..k : Up(u, k)[i] = u[1 + i - 1]
  <2>1. \A i \in 1..k : i \in 1..n /\ u[i] \in Nat
    BY <1>1, <1>2
  <2>2. 1 \in Int /\ k \in Int /\ k >= 0
    BY <1>1
  <2> QED
    BY <1>2, <2>1, <2>2, SubSeqProperties DEF Up
<1>4. Up(p, k) \in Seq(Nat) /\ Len(Up(p, k)) = k /\ \A i \in 1..k : Up(p, k)[i] = p[i]
  BY <1>1, UpProperties
<1>5. \A i \in 1..k : Up(u, k)[i] = Up(p, k)[i]
  <2>1. \A i \in 1..k : i \in 1..n /\ 1 + i - 1 = i
    BY <1>1
  <2> QED
    BY <1>2, <1>3, <1>4, <2>1
<1> QED
  BY <1>3, <1>4, <1>5, SeqEqual DEF u

(* Every part on the way is in the message, and the next one is a part of it.  *)
LEMMA OnTheWay ==
  ASSUME IsMessage(payload), NEW p \in DOMAIN payload
  PROVE  /\ \A n \in 0..Len(p) : Up(p, n) \in DOMAIN payload
         /\ \A n \in 0..Len(p) - 1 : /\ p[n + 1] \in 1..payload[Up(p, n)].parts
                                     /\ Append(Up(p, n), p[n + 1]) = Up(p, n + 1)
<1>1. p \in Seq(Nat) /\ Len(p) \in Nat
  BY DEF IsMessage
<1>2. ASSUME NEW n \in 0..Len(p) - 1, Up(p, n + 1) \in DOMAIN payload
      PROVE  Up(p, n) \in DOMAIN payload /\ p[n + 1] \in 1..payload[Up(p, n)].parts
  <2> DEFINE u == Up(p, n + 1)
  <2>1. n + 1 \in 0..Len(p) /\ n \in 0..n + 1
    BY <1>1
  <2>2. Len(u) = n + 1 /\ \A k \in 1..n + 1 : u[k] = p[k]
    BY <2>1, UpProperties
  <2>3. u # <<>>
    BY <1>1, <2>2
  <2>4. Front(u) \in DOMAIN payload /\ Last(u) \in 1..payload[Front(u)].parts
    BY <1>2, <2>3 DEF IsMessage
  <2>5. Front(u) = Up(u, n)
    BY <1>1, <2>2 DEF Front, Up
  <2>6. Up(u, n) = Up(p, n)
    BY <2>1, UpUp
  <2>7. Last(u) = p[n + 1]
    BY <1>1, <2>2 DEF Last
  <2> HIDE DEF u
  <2> QED
    BY <2>4, <2>5, <2>6, <2>7
<1>3. ASSUME NEW n \in 0..Len(p) - 1
      PROVE  Append(Up(p, n), p[n + 1]) = Up(p, n + 1)
  <2>1. n \in 0..Len(p) /\ n + 1 \in 0..Len(p) /\ p[n + 1] \in Nat
    BY <1>1
  <2>2. Up(p, n) \in Seq(Nat) /\ Len(Up(p, n)) = n /\ \A k \in 1..n : Up(p, n)[k] = p[k]
    BY <2>1, UpProperties
  <2>3. Up(p, n + 1) \in Seq(Nat) /\ Len(Up(p, n + 1)) = n + 1 /\ \A k \in 1..n + 1 : Up(p, n + 1)[k] = p[k]
    BY <2>1, UpProperties
  <2> DEFINE a == Append(Up(p, n), p[n + 1])
  <2>4. a \in Seq(Nat) /\ Len(a) = n + 1 /\ \A k \in 1..n + 1 : a[k] = p[k]
    BY <1>1, <2>1, <2>2, AppendProperties
  <2> HIDE DEF a
  <2>5. a = Up(p, n + 1)
    BY <2>3, <2>4, SeqEqual
  <2> QED
    BY <2>5 DEF a
<1> DEFINE Missing == {k \in 0..Len(p) : Up(p, Len(p) - k) \notin DOMAIN payload}
<1>4. Missing = {}
  <2>1. SUFFICES ASSUME Missing # {} PROVE FALSE
    OBVIOUS
  <2>2. PICK k \in Missing : \A i \in Missing : k <= i
    <3> Missing \in SUBSET Nat
      BY <1>1
    <3> HIDE DEF Missing
    <3> QED
      BY <2>1, LeastNumber
  <2>3. k # 0
    BY <1>1, UpAll
  <2>4. k - 1 \in 0..Len(p) /\ k - 1 \notin Missing /\ Len(p) - (k - 1) = (Len(p) - k) + 1
    <3>1. k \in 0..Len(p) /\ k - 1 \in 0..Len(p) /\ Len(p) - (k - 1) = (Len(p) - k) + 1 /\ ~(k <= k - 1)
      BY <1>1, <2>3
    <3> QED
      BY <2>2, <3>1
  <2>5. Up(p, (Len(p) - k) + 1) \in DOMAIN payload
    BY <2>4
  <2>6. Len(p) - k \in 0..Len(p) - 1
    BY <1>1, <2>3
  <2> QED
    BY <1>2, <2>5, <2>6
<1>5. ASSUME NEW n \in 0..Len(p) PROVE Up(p, n) \in DOMAIN payload
  <2>1. Len(p) - n \in 0..Len(p) /\ Len(p) - (Len(p) - n) = n
    BY <1>1
  <2> QED
    BY <1>4, <2>1
<1>6. ASSUME NEW n \in 0..Len(p) - 1 PROVE p[n + 1] \in 1..payload[Up(p, n)].parts
  <2>1. n + 1 \in 0..Len(p)
    BY <1>1
  <2> QED
    BY <1>2, <1>5, <2>1
<1> QED
  BY <1>3, <1>5, <1>6

(* A part is on the way to another, or is it.                                  *)
Under(p, q) == Len(p) <= Len(q) /\ Up(q, Len(p)) = p

(* What has a part's way as a prefix is below that part.                       *)
LEMMA PrefixIsUnder ==
  ASSUME IsMessage(payload), NEW p \in DOMAIN payload, NEW q \in DOMAIN payload, NEW n \in 0..Len(p)
  PROVE  IsPrefix(Up(p, n), q) <=> n <= Len(q) /\ Up(q, n) = Up(p, n)
<1>1. Len(p) \in Nat /\ n \in 0..n /\ Len(Up(p, n)) = n
  BY UpProperties
<1>2. Up(Up(p, n), n) = Up(p, n)
  BY <1>1, UpUp
<1> QED
  BY <1>1, <1>2 DEF IsPrefix, Up

(* What is below a part is the part itself, or below one of its parts.         *)
LEMMA UnderOneOfThem ==
  ASSUME IsMessage(payload), NEW p \in DOMAIN payload, NEW q \in DOMAIN payload, Under(p, q), q # p
  PROVE  \E i \in 1..payload[p].parts : Under(Append(p, i), q)
<1> DEFINE n == Len(p)
<1>1. p \in Seq(Nat) /\ q \in Seq(Nat) /\ n \in Nat /\ Len(q) \in Nat
  BY DEF IsMessage
<1>2. Up(q, n) = p /\ n <= Len(q)
  BY DEF Under
<1>3. n # Len(q)
  BY <1>2, UpAll
<1>4. n \in 0..Len(q) - 1 /\ n + 1 <= Len(q)
  BY <1>1, <1>2, <1>3
<1>5. q[n + 1] \in 1..payload[p].parts /\ Append(p, q[n + 1]) = Up(q, n + 1)
  BY <1>2, <1>4, OnTheWay
<1>6. Len(Append(p, q[n + 1])) = n + 1
  BY <1>1, AppendProperties
<1>7. Under(Append(p, q[n + 1]), q)
  BY <1>4, <1>5, <1>6 DEF Under
<1> QED
  BY <1>5, <1>7

(* What is below a part of a part is below it, and says of which.              *)
LEMMA UnderAPart ==
  ASSUME IsMessage(payload), NEW p \in DOMAIN payload, NEW i \in 1..payload[p].parts,
         NEW q \in DOMAIN payload, Under(Append(p, i), q)
  PROVE  /\ Len(p) \in Nat /\ Len(q) \in Nat /\ Len(Append(p, i)) = Len(p) + 1
         /\ Len(p) + 1 <= Len(q) /\ Up(q, Len(p)) = p /\ q[Len(p) + 1] = i
         /\ Up(q, Len(p) + 1) = Append(p, i)
<1> DEFINE n == Len(p)
           c == Append(p, i)
<1>1. p \in Seq(Nat) /\ q \in Seq(Nat) /\ n \in Nat /\ Len(q) \in Nat /\ i \in Nat
  <2>1. payload[p].parts \in Nat
    BY DEF IsMessage, Part
  <2> QED
    BY <2>1 DEF IsMessage
<1>2. c \in Seq(Nat) /\ Len(c) = n + 1 /\ c[n + 1] = i /\ \A k \in 1..n : c[k] = p[k]
  BY <1>1, AppendProperties
<1>3. n + 1 <= Len(q) /\ Up(q, n + 1) = c
  BY <1>2 DEF Under
<1> HIDE DEF c
<1>4. n \in 0..Len(q) /\ n + 1 \in 0..Len(q) /\ n + 1 \in 1..n + 1 /\ \A k \in 1..n : k \in 1..n + 1
  BY <1>1, <1>3
<1>5. \A k \in 1..n + 1 : c[k] = q[k]
  BY <1>3, <1>4, UpProperties
<1>6. Up(q, n) \in Seq(Nat) /\ Len(Up(q, n)) = n /\ \A k \in 1..n : Up(q, n)[k] = q[k]
  BY <1>4, UpProperties
<1>7. Up(q, n) = p
  <2>1. \A k \in 1..n : Up(q, n)[k] = p[k]
    BY <1>2, <1>4, <1>5, <1>6
  <2> QED
    BY <1>1, <1>6, <2>1, SeqEqual
<1> QED
  BY <1>1, <1>2, <1>3, <1>4, <1>5, <1>7 DEF c

(* Every part is below the root.                                               *)
LEMMA UnderTop ==
  ASSUME IsMessage(payload), NEW q \in DOMAIN payload
  PROVE  Under(<<>>, q) /\ Len(q) \in Nat
<1>1. q \in Seq(Nat) /\ Len(q) \in Nat /\ 0 \in 0..Len(q)
  BY DEF IsMessage
<1>2. Up(q, 0) \in Seq(Nat) /\ Len(Up(q, 0)) = 0
  BY <1>1, UpProperties
<1>3. Up(q, 0) = <<>>
  BY <1>2
<1> QED
  BY <1>1, <1>3 DEF Under

(* What a part offers, and what is wanted of it.                               *)
OfferedBelow(mime, top) ==
  {path \in DOMAIN payload :
     /\ Under(top, path)
     /\ payload[path].mime = mime /\ payload[path].data
     /\ \A n \in Len(top)..Len(path) : ~payload[Up(path, n)].filename
     /\ \A n \in Len(top)..Len(path) - 1 : payload[Up(path, n)].mime \in Multipart}

WantedBelow(mime, top) ==
  {path \in OfferedBelow(mime, top) :
     \A n \in Len(top)..Len(path) - 1 :
       payload[Up(path, n)].mime = "multipart/alternative" =>
         \A other \in OfferedBelow(mime, top) :
           Under(Up(path, n), other) => path[n + 1] <= other[n + 1]}

(* What the message offers is what its root offers.                            *)
LEMMA OfferedAtTop ==
  ASSUME IsMessage(payload), NEW mime
  PROVE  /\ <<>> \in DOMAIN payload
         /\ OfferedBelow(mime, <<>>) = Offered(mime) /\ WantedBelow(mime, <<>>) = Wanted(mime)
<1>1. <<>> \in DOMAIN payload /\ Len(<<>>) = 0
  BY DEF IsMessage
<1>2. \A q \in DOMAIN payload : Under(<<>>, q) /\ Len(q) \in Nat
  BY UnderTop
<1>3. OfferedBelow(mime, <<>>) = Offered(mime)
  BY <1>1, <1>2 DEF OfferedBelow, Offered
<1>4. ASSUME NEW q \in DOMAIN payload, NEW other \in DOMAIN payload, NEW n \in 0..Len(q) - 1
      PROVE  Under(Up(q, n), other) <=> IsPrefix(Up(q, n), other)
  <2>1. n \in 0..Len(q) /\ Len(Up(q, n)) = n
    <3>1. n \in 0..Len(q)
      BY <1>2
    <3> QED
      BY <3>1, UpProperties
  <2> QED
    BY <2>1, PrefixIsUnder DEF Under
<1>5. Offered(mime) \subseteq DOMAIN payload
  BY DEF Offered
<1>6. WantedBelow(mime, <<>>) = Wanted(mime)
  BY <1>1, <1>3, <1>4, <1>5 DEF WantedBelow, Wanted
<1> QED
  BY <1>1, <1>3, <1>6

(* No type of text is that of a multipart.                                     *)
LEMMA MultipartNoText == \A mime \in TextTypes : mime \notin Multipart
  BY MultipartAssumption DEF TextTypes

(* A multipart offers what its parts offer.                                    *)
LEMMA OfferedByParts ==
  ASSUME IsMessage(payload), NEW mime \in TextTypes, NEW p \in DOMAIN payload,
         ~payload[p].filename, payload[p].mime \in Multipart, NEW q
  PROVE  q \in OfferedBelow(mime, p) <=>
           \E i \in 1..payload[p].parts : q \in OfferedBelow(mime, Append(p, i))
<1>1. ASSUME q \in OfferedBelow(mime, p)
      PROVE  \E i \in 1..payload[p].parts : q \in OfferedBelow(mime, Append(p, i))
  <2>1. q \in DOMAIN payload /\ Under(p, q) /\ payload[q].mime = mime
    BY <1>1 DEF OfferedBelow
  <2>2. q # p
    BY <2>1, MultipartNoText
  <2>3. PICK i \in 1..payload[p].parts : Under(Append(p, i), q)
    BY <2>1, <2>2, UnderOneOfThem
  <2>4. Len(p) \in Nat /\ Len(q) \in Nat /\ Len(Append(p, i)) = Len(p) + 1
    BY <2>1, <2>3, UnderAPart
  <2>5. \A n : n \in Len(Append(p, i))..Len(q) => n \in Len(p)..Len(q)
    BY <2>4
  <2>6. \A n : n \in Len(Append(p, i))..Len(q) - 1 => n \in Len(p)..Len(q) - 1
    BY <2>4
  <2>7. q \in OfferedBelow(mime, Append(p, i))
    BY <1>1, <2>3, <2>5, <2>6 DEF OfferedBelow
  <2> QED
    BY <2>7
<1>2. ASSUME NEW i \in 1..payload[p].parts, q \in OfferedBelow(mime, Append(p, i))
      PROVE  q \in OfferedBelow(mime, p)
  <2> DEFINE c == Append(p, i)
  <2>1. q \in DOMAIN payload /\ Under(c, q)
    BY <1>2 DEF OfferedBelow
  <2>2. /\ Len(p) \in Nat /\ Len(q) \in Nat /\ Len(c) = Len(p) + 1
        /\ Len(p) + 1 <= Len(q) /\ Up(q, Len(p)) = p
    BY <2>1, UnderAPart
  <2> HIDE DEF c
  <2>3. \A n : n \in Len(p)..Len(q) => n = Len(p) \/ n \in Len(c)..Len(q)
    BY <2>2
  <2>4. \A n : n \in Len(p)..Len(q) - 1 => n = Len(p) \/ n \in Len(c)..Len(q) - 1
    BY <2>2
  <2>5. q \in OfferedBelow(mime, c)
    BY <1>2 DEF c
  <2>6. Under(p, q)
    BY <2>2 DEF Under
  <2>7. \A n \in Len(p)..Len(q) : ~payload[Up(q, n)].filename
    BY <2>2, <2>3, <2>5 DEF OfferedBelow
  <2>8. \A n \in Len(p)..Len(q) - 1 : payload[Up(q, n)].mime \in Multipart
    BY <2>2, <2>4, <2>5 DEF OfferedBelow
  <2> QED
    BY <2>5, <2>6, <2>7, <2>8 DEF OfferedBelow
<1> QED
  BY <1>1, <1>2

(* What is wanted of a multipart is what is wanted of its parts, or, if it is  *)
(* a choice, of the first that offers something.                               *)
LEMMA WantedByParts ==
  ASSUME IsMessage(payload), NEW mime \in TextTypes, NEW p \in DOMAIN payload,
         ~payload[p].filename, payload[p].mime \in Multipart,
         NEW i \in 1..payload[p].parts, NEW q \in OfferedBelow(mime, Append(p, i))
  PROVE  q \in WantedBelow(mime, p) <=>
           /\ q \in WantedBelow(mime, Append(p, i))
           /\ payload[p].mime = "multipart/alternative" =>
                \A j \in 1..payload[p].parts : OfferedBelow(mime, Append(p, j)) # {} => i <= j
<1> DEFINE c == Append(p, i)
           Least(n, top) == payload[Up(q, n)].mime = "multipart/alternative" =>
                              \A other \in OfferedBelow(mime, top) :
                                Under(Up(q, n), other) => q[n + 1] <= other[n + 1]
<1>1. q \in DOMAIN payload /\ Under(c, q) /\ q \in OfferedBelow(mime, p)
  BY OfferedByParts DEF OfferedBelow
<1>2. /\ Len(p) \in Nat /\ Len(q) \in Nat /\ Len(c) = Len(p) + 1
      /\ Len(p) + 1 <= Len(q) /\ Up(q, Len(p)) = p /\ q[Len(p) + 1] = i
      /\ Up(q, Len(p) + 1) = c
  BY <1>1, UnderAPart
<1>3. /\ q \in WantedBelow(mime, p) <=> \A n \in Len(p)..Len(q) - 1 : Least(n, p)
      /\ q \in WantedBelow(mime, c) <=> \A n \in Len(c)..Len(q) - 1 : Least(n, c)
  BY <1>1 DEF WantedBelow
<1>4. ASSUME NEW n \in Len(c)..Len(q) - 1, NEW other \in DOMAIN payload, Under(Up(q, n), other)
      PROVE  Under(c, other)
  <2>1. n \in 0..Len(q) /\ Len(c) \in 0..n
    BY <1>2
  <2>2. Len(Up(q, n)) = n
    BY <1>1, <2>1, UpProperties
  <2>3. n <= Len(other) /\ Up(other, n) = Up(q, n)
    BY <1>4, <2>2 DEF Under
  <2>4. Len(other) \in Nat
    BY DEF IsMessage
  <2>5. Up(Up(other, n), Len(c)) = Up(other, Len(c))
    <3>1. n \in 0..Len(other)
      BY <1>2, <2>3, <2>4
    <3> QED
      BY <2>1, <3>1, UpUp
  <2>6. Up(Up(q, n), Len(c)) = Up(q, Len(c))
    BY <1>1, <2>1, UpUp
  <2>7. Up(other, Len(c)) = c /\ Len(c) <= Len(other)
    BY <1>2, <2>1, <2>3, <2>4, <2>5, <2>6
  <2> QED
    BY <2>7 DEF Under
<1>5. ASSUME NEW other \in OfferedBelow(mime, p), Under(c, other) PROVE other \in OfferedBelow(mime, c)
  <2>1. other \in DOMAIN payload
    BY DEF OfferedBelow
  <2>2. Len(p) \in Nat /\ Len(other) \in Nat /\ Len(c) = Len(p) + 1
    BY <1>5, <2>1, UnderAPart
  <2> HIDE DEF c
  <2>3. \A n : n \in Len(c)..Len(other) => n \in Len(p)..Len(other)
    BY <2>2
  <2>4. \A n : n \in Len(c)..Len(other) - 1 => n \in Len(p)..Len(other) - 1
    BY <2>2
  <2> QED
    BY <1>5, <2>3, <2>4 DEF OfferedBelow
<1>6. \A other \in OfferedBelow(mime, c) : other \in OfferedBelow(mime, p)
  BY OfferedByParts
<1>7. \A n \in Len(c)..Len(q) - 1 : Least(n, p) <=> Least(n, c)
  <2>1. OfferedBelow(mime, p) \subseteq DOMAIN payload
    BY DEF OfferedBelow
  <2> HIDE DEF c
  <2> QED
    BY <1>4, <1>5, <1>6, <2>1
<1>8. Least(Len(p), p) <=> (payload[p].mime = "multipart/alternative" =>
                \A j \in 1..payload[p].parts : OfferedBelow(mime, Append(p, j)) # {} => i <= j)
  <2>1. ASSUME NEW other \in OfferedBelow(mime, p) PROVE Under(p, other)
    BY DEF OfferedBelow
  <2>2. ASSUME NEW j \in 1..payload[p].parts, NEW other \in OfferedBelow(mime, Append(p, j))
        PROVE  other[Len(p) + 1] = j /\ other \in OfferedBelow(mime, p)
    <3>1. other \in DOMAIN payload /\ Under(Append(p, j), other)
      BY DEF OfferedBelow
    <3> QED
      BY <3>1, UnderAPart, OfferedByParts
  <2>3. ASSUME NEW other \in OfferedBelow(mime, p)
        PROVE  \E j \in 1..payload[p].parts : other \in OfferedBelow(mime, Append(p, j)) /\ other[Len(p) + 1] = j
    BY <2>2, OfferedByParts
  <2>4. Least(Len(p), p) <=> (payload[p].mime = "multipart/alternative" =>
           \A other \in OfferedBelow(mime, p) : i <= other[Len(p) + 1])
    BY <1>2, <2>1
  <2> QED
    BY <2>2, <2>3, <2>4
<1>9. \A n : n \in Len(p)..Len(q) - 1 <=> n = Len(p) \/ n \in Len(c)..Len(q) - 1
  BY <1>2
<1> HIDE DEF Least, c
<1>10. q \in WantedBelow(mime, p) <=> Least(Len(p), p) /\ q \in WantedBelow(mime, c)
  BY <1>3, <1>7, <1>9
<1> QED
  BY <1>8, <1>10 DEF c

(* What _extract_parts should return for a part.                               *)
IsAnswer(t, mime, p) ==
  /\ t \in Seq(DOMAIN payload)
  /\ ToSet(t) = WantedBelow(mime, p)
  /\ \A a, b \in DOMAIN t : a < b => InOrder(t[a], t[b])
  /\ OfferedBelow(mime, p) # {} => t # <<>>

(* Of a part that offers nothing, nothing is returned.                         *)
LEMMA NoneIsAnswer ==
  ASSUME NEW mime, NEW p, OfferedBelow(mime, p) = {}
  PROVE  IsAnswer(<<>>, mime, p)
<1>1. WantedBelow(mime, p) = {}
  BY DEF WantedBelow
<1>2. <<>> \in Seq(DOMAIN payload) /\ DOMAIN <<>> = {} /\ ToSet(<<>>) = {}
  BY DEF ToSet
<1> QED
  BY <1>1, <1>2 DEF IsAnswer

(* A part that is no multipart offers at most itself.                          *)
LEMMA OfferedByLeaf ==
  ASSUME IsMessage(payload), NEW mime, NEW p \in DOMAIN payload,
         payload[p].filename \/ payload[p].mime \notin Multipart
  PROVE  /\ OfferedBelow(mime, p) =
              IF ~payload[p].filename /\ payload[p].mime = mime /\ payload[p].data THEN {p} ELSE {}
         /\ WantedBelow(mime, p) = OfferedBelow(mime, p)
<1>1. Len(p) \in Nat /\ Up(p, Len(p)) = p /\ Under(p, p)
  <2>1. Len(p) \in Nat /\ Up(p, Len(p)) = p
    BY UpAll DEF IsMessage
  <2> QED
    BY <2>1 DEF Under
<1>2. ASSUME NEW q \in OfferedBelow(mime, p) PROVE q = p /\ ~payload[p].filename
  <2>1. q \in DOMAIN payload /\ Under(p, q) /\ Len(q) \in Nat
    BY DEF OfferedBelow, IsMessage
  <2>2. Len(p) <= Len(q) /\ Up(q, Len(p)) = p
    BY <2>1 DEF Under
  <2>3. ~payload[p].filename
    <3>1. Len(p) \in Len(p)..Len(q)
      BY <1>1, <2>1, <2>2
    <3> QED
      BY <2>2, <3>1 DEF OfferedBelow
  <2>4. Len(p) = Len(q)
    <3>1. SUFFICES ASSUME Len(p) # Len(q) PROVE FALSE
      OBVIOUS
    <3>2. Len(p) \in Len(p)..Len(q) - 1
      BY <1>1, <2>1, <2>2, <3>1
    <3> QED
      BY <2>2, <2>3, <3>2 DEF OfferedBelow
  <2> QED
    BY <2>1, <2>2, <2>3, <2>4, UpAll
<1>3. p \in OfferedBelow(mime, p) <=> ~payload[p].filename /\ payload[p].mime = mime /\ payload[p].data
  <2>1. \A n : n \in Len(p)..Len(p) <=> n = Len(p)
    BY <1>1
  <2>2. \A n : n \notin Len(p)..Len(p) - 1
    BY <1>1
  <2> QED
    BY <1>1, <2>1, <2>2 DEF OfferedBelow
<1>4. WantedBelow(mime, p) = OfferedBelow(mime, p)
  <2>1. \A n : n \notin Len(p)..Len(p) - 1
    BY <1>1
  <2> QED
    BY <1>2, <2>1 DEF WantedBelow
<1>5. OfferedBelow(mime, p) = {p} \/ OfferedBelow(mime, p) = {}
  BY <1>2
<1> QED
  BY <1>2, <1>3, <1>4, <1>5

(* The answers for the parts of any other multipart, one after the other.      *)
LEMMA MixedAnswer ==
  ASSUME IsMessage(payload), NEW mime \in TextTypes, NEW p \in DOMAIN payload,
         ~payload[p].filename,
         payload[p].mime \in Multipart \ {"multipart/alternative"},
         NEW pieces \in Seq(Seq(DOMAIN payload)), Len(pieces) = payload[p].parts,
         \A i \in 1..payload[p].parts : IsAnswer(pieces[i], mime, Append(p, i))
  PROVE  IsAnswer(FlattenSeq(pieces), mime, p)
<1> DEFINE flat == FlattenSeq(pieces)
           n == payload[p].parts
<1>0. n \in Nat /\ \A i \in 1..n : Append(p, i) \in DOMAIN payload
  BY DEF IsMessage, Part
<1>1. flat \in Seq(DOMAIN payload) /\ IsFlat(flat, pieces, n)
  BY FlattenProperties
<1>2. payload[p].mime \in Multipart
  OBVIOUS
<1>3. \A i \in 1..n : DOMAIN pieces[i] \subseteq Nat
  BY DEF IsAnswer
<1>4. PICK from \in [DOMAIN flat -> Places(pieces, n)] :
        /\ \A a \in DOMAIN flat : flat[a] = pieces[from[a][1]][from[a][2]]
        /\ \A a, b \in DOMAIN flat : a < b => Before(from[a], from[b])
  BY <1>1 DEF IsFlat
<1> HIDE DEF flat
<1>5. \A a \in DOMAIN flat : /\ from[a][1] \in 1..n /\ from[a][2] \in DOMAIN pieces[from[a][1]]
                             /\ from[a][2] \in Nat
  BY <1>4 DEF Places
<1>6. ASSUME NEW i \in 1..n, NEW k \in DOMAIN pieces[i] PROVE pieces[i][k] \in ToSet(flat)
  <2>1. <<i, k>> \in Places(pieces, n)
    BY <1>3 DEF Places
  <2> QED
    BY <1>1, <2>1 DEF IsFlat
<1>7. ASSUME NEW i \in 1..n, NEW q
      PROVE  q \in WantedBelow(mime, Append(p, i)) <=>
               q \in OfferedBelow(mime, Append(p, i)) /\ q \in WantedBelow(mime, p)
  <2>1. q \in WantedBelow(mime, Append(p, i)) => q \in OfferedBelow(mime, Append(p, i))
    BY DEF WantedBelow
  <2> QED
    BY <1>2, <2>1, WantedByParts
<1>8. ToSet(flat) = WantedBelow(mime, p)
  <2>1. ASSUME NEW q \in ToSet(flat) PROVE q \in WantedBelow(mime, p)
    <3>1. PICK a \in DOMAIN flat : q = flat[a]
      BY DEF ToSet
    <3>2. q \in ToSet(pieces[from[a][1]])
      BY <1>4, <1>5, <3>1 DEF ToSet
    <3>3. q \in WantedBelow(mime, Append(p, from[a][1]))
      BY <1>5, <3>2 DEF IsAnswer
    <3> QED
      BY <1>5, <1>7, <3>3
  <2>2. ASSUME NEW q \in WantedBelow(mime, p) PROVE q \in ToSet(flat)
    <3>1. q \in OfferedBelow(mime, p)
      BY DEF WantedBelow
    <3>2. PICK i \in 1..n : q \in OfferedBelow(mime, Append(p, i))
      BY <1>2, <3>1, OfferedByParts
    <3>3. q \in ToSet(pieces[i])
      BY <1>7, <3>2 DEF IsAnswer
    <3> QED
      BY <1>6, <3>3 DEF ToSet
  <2> QED
    BY <2>1, <2>2
<1>9. ASSUME NEW a \in DOMAIN flat, NEW b \in DOMAIN flat, a < b PROVE InOrder(flat[a], flat[b])
  <2> DEFINE i == from[a][1]
             j == from[b][1]
  <2>1. i \in 1..n /\ j \in 1..n /\ Before(from[a], from[b])
    BY <1>4, <1>5, <1>9
  <2>2. CASE i = j
    <3>1. from[a][2] < from[b][2]
      BY <1>0, <2>1, <2>2 DEF Before
    <3> DEFINE k == from[a][2]
               l == from[b][2]
    <3>2. k \in DOMAIN pieces[i] /\ l \in DOMAIN pieces[i] /\ k < l
      BY <1>5, <2>2, <3>1
    <3>3. InOrder(pieces[i][k], pieces[i][l])
      <4> HIDE DEF i, k, l
      <4> QED
        BY <2>1, <3>2 DEF IsAnswer
    <3> QED
      BY <1>4, <2>2, <3>3
  <2>3. CASE i # j
    <3>1. i < j
      BY <2>1, <2>3 DEF Before
    <3>2. flat[a] \in OfferedBelow(mime, Append(p, i)) /\ flat[b] \in OfferedBelow(mime, Append(p, j))
      <4>1. flat[a] \in ToSet(pieces[i]) /\ flat[b] \in ToSet(pieces[j])
        BY <1>4, <1>5 DEF ToSet
      <4>2. flat[a] \in WantedBelow(mime, Append(p, i)) /\ flat[b] \in WantedBelow(mime, Append(p, j))
        BY <2>1, <4>1 DEF IsAnswer
      <4> QED
        BY <4>2 DEF WantedBelow
    <3> DEFINE q == flat[a]
               r == flat[b]
    <3>3. /\ q \in DOMAIN payload /\ Under(Append(p, i), q)
          /\ r \in DOMAIN payload /\ Under(Append(p, j), r)
      BY <3>2 DEF OfferedBelow
    <3>4. /\ Len(p) \in Nat /\ Len(q) \in Nat /\ Len(p) + 1 <= Len(q)
          /\ Up(q, Len(p)) = p /\ q[Len(p) + 1] = i
      BY <2>1, <3>3, UnderAPart
    <3>5. /\ Len(r) \in Nat /\ Len(p) + 1 <= Len(r)
          /\ Up(r, Len(p)) = p /\ r[Len(p) + 1] = j
      BY <2>1, <3>3, UnderAPart
    <3> HIDE DEF q, r, i, j
    <3>6. Len(p) \in 0..Len(q) - 1 /\ Len(p) \in 0..Len(q) /\ Len(r) > Len(p)
      BY <3>4, <3>5
    <3>7. IsPrefix(Up(q, Len(p)), r)
      BY <3>3, <3>4, <3>5, <3>6, PrefixIsUnder
    <3>8. InOrder(q, r)
      BY <3>1, <3>4, <3>5, <3>6, <3>7 DEF InOrder
    <3> QED
      BY <3>8 DEF q, r
  <2> QED
    BY <2>2, <2>3
<1>10. ASSUME NEW q \in OfferedBelow(mime, p) PROVE flat # <<>>
  <2>1. PICK i \in 1..n : q \in OfferedBelow(mime, Append(p, i))
    BY <1>2, OfferedByParts
  <2>2. pieces[i] \in Seq(DOMAIN payload) /\ pieces[i] # <<>>
    BY <2>1 DEF IsAnswer
  <2>3. 1 \in DOMAIN pieces[i]
    BY <2>2
  <2>4. ToSet(flat) # {}
    BY <1>6, <2>3
  <2> QED
    BY <2>4 DEF ToSet
<1> QED
  BY <1>1, <1>8, <1>9, <1>10 DEF IsAnswer, flat

(* The first answer with content is that of a multipart/alternative.           *)
LEMMA AlternativeAnswer ==
  ASSUME IsMessage(payload), NEW mime \in TextTypes, NEW p \in DOMAIN payload,
         ~payload[p].filename, payload[p].mime = "multipart/alternative",
         NEW pieces \in Seq(Seq(DOMAIN payload)), Len(pieces) = payload[p].parts,
         \A i \in 1..payload[p].parts : IsAnswer(pieces[i], mime, Append(p, i))
  PROVE  IsAnswer(FirstWithContent(pieces), mime, p)
<1> DEFINE n == payload[p].parts
           full == {i \in DOMAIN pieces : pieces[i] # <<>>}
<1>1. n \in Nat /\ DOMAIN pieces = 1..n
  BY DEF IsMessage, Part
<1>2. payload[p].mime \in Multipart
  BY MultipartAssumption
<1>3. ASSUME NEW i \in 1..n PROVE i \in full <=> OfferedBelow(mime, Append(p, i)) # {}
  <2>1. CASE pieces[i] = <<>>
    BY <1>1, <2>1 DEF IsAnswer
  <2>2. CASE pieces[i] # <<>>
    <3>1. pieces[i] \in Seq(DOMAIN payload) /\ ToSet(pieces[i]) = WantedBelow(mime, Append(p, i))
      BY DEF IsAnswer
    <3>2. 1 \in DOMAIN pieces[i]
      BY <2>2, <3>1
    <3>3. pieces[i][1] \in OfferedBelow(mime, Append(p, i))
      BY <3>1, <3>2 DEF ToSet, WantedBelow
    <3> QED
      BY <1>1, <2>2, <3>3
  <2> QED
    BY <2>1, <2>2
<1>4. CASE full = {}
  <2>1. \A q : q \notin OfferedBelow(mime, p)
    BY <1>2, <1>3, <1>4, OfferedByParts
  <2>2. FirstWithContent(pieces) = <<>>
    BY <1>4 DEF FirstWithContent
  <2> QED
    BY <2>1, <2>2, NoneIsAnswer
<1>5. CASE full # {}
  <2>1. PICK i \in full : Earliest(pieces, full) = pieces[i] /\ \A j \in full : i <= j
    <3>1. full \in SUBSET Nat
      BY <1>1
    <3> HIDE DEF full
    <3> QED
      BY <1>5, <3>1, EarliestProperties
  <2>2. FirstWithContent(pieces) = pieces[i]
    BY <1>5, <2>1 DEF FirstWithContent
  <2>3. i \in 1..n /\ \A j \in 1..n : OfferedBelow(mime, Append(p, j)) # {} => i <= j
    BY <1>1, <1>3, <2>1
  <2>4. \A q \in OfferedBelow(mime, Append(p, i)) :
          q \in WantedBelow(mime, p) <=> q \in WantedBelow(mime, Append(p, i))
    BY <1>2, <2>3, WantedByParts
  <2>5. ASSUME NEW q \in WantedBelow(mime, p) PROVE q \in OfferedBelow(mime, Append(p, i))
    <3>1. q \in OfferedBelow(mime, p)
      BY DEF WantedBelow
    <3>2. PICK j \in 1..n : q \in OfferedBelow(mime, Append(p, j))
      BY <1>2, <3>1, OfferedByParts
    <3>3. \A k \in 1..n : OfferedBelow(mime, Append(p, k)) # {} => j <= k
      BY <1>2, <3>2, WantedByParts
    <3>4. i <= j /\ j <= i
      BY <1>3, <2>1, <2>3, <3>2, <3>3
    <3>5. i = j
      BY <1>1, <2>3, <3>4
    <3> QED
      BY <3>2, <3>5
  <2>6. WantedBelow(mime, p) = WantedBelow(mime, Append(p, i))
    <3>1. \A q \in WantedBelow(mime, Append(p, i)) : q \in OfferedBelow(mime, Append(p, i))
      BY DEF WantedBelow
    <3> QED
      BY <2>4, <2>5, <3>1
  <2>7. IsAnswer(pieces[i], mime, Append(p, i)) /\ pieces[i] # <<>>
    BY <2>1, <2>3
  <2> QED
    BY <2>2, <2>6, <2>7 DEF IsAnswer
<1> QED
  BY <1>4, <1>5

(* _extract_parts returns, for every part of every message, the texts of the   *)
(* first version with content at every choice below it, in order.              *)
LEMMA TextsAreAnswers ==
  ASSUME IsMessage(payload), NEW mime \in TextTypes
  PROVE  \A p \in DOMAIN payload : IsAnswer(Texts(mime)[p], mime, p)
<1> DEFINE D == DOMAIN payload
           t == Texts(mime)
           Bad == {p \in D : ~IsAnswer(t[p], mime, p)}
<1>1. SUFFICES ASSUME Bad # {} PROVE FALSE
  OBVIOUS
<1>2. PICK p \in Bad : \A i \in 1..payload[p].parts : Append(p, i) \notin Bad
  <2>1. Bad \in SUBSET D
    OBVIOUS
  <2> HIDE DEF Bad
  <2> QED
    BY <1>1, <2>1, PartsEnd
<1>3. p \in D /\ ~IsAnswer(t[p], mime, p)
  BY <1>2
<1>4. t \in [D -> Seq(D)] /\ t[p] = Taken(mime, p, Pieces(p, t))
  BY <1>3, TextsDefined
<1> DEFINE pieces == Pieces(p, t)
<1>5. /\ pieces \in Seq(Seq(D)) /\ Len(pieces) = payload[p].parts
      /\ \A i \in 1..payload[p].parts : pieces[i] = t[Append(p, i)]
  BY <1>3, <1>4, PiecesProperties
<1>6. \A i \in 1..payload[p].parts : IsAnswer(t[Append(p, i)], mime, Append(p, i))
  BY <1>2, <1>3 DEF IsMessage
<1>7. \A i \in 1..payload[p].parts : IsAnswer(pieces[i], mime, Append(p, i))
  BY <1>5, <1>6
<1> HIDE DEF Bad, t, pieces
<1>8. CASE payload[p].filename
  <2>1. t[p] = <<>>
    BY <1>4, <1>8 DEF Taken
  <2>2. OfferedBelow(mime, p) = {}
    BY <1>3, <1>8, OfferedByLeaf
  <2> QED
    BY <1>3, <2>1, <2>2, NoneIsAnswer
<1>9. CASE ~payload[p].filename /\ payload[p].mime \notin Multipart /\ payload[p].mime # mime
  <2>1. t[p] = <<>>
    BY <1>4, <1>9, MultipartAssumption DEF Taken
  <2>2. OfferedBelow(mime, p) = {}
    BY <1>3, <1>9, OfferedByLeaf
  <2> QED
    BY <1>3, <2>1, <2>2, NoneIsAnswer
<1>10. CASE ~payload[p].filename /\ payload[p].mime = mime
  <2>1. payload[p].mime \notin Multipart
    BY <1>10, MultipartNoText
  <2>2. t[p] = IF payload[p].data THEN <<p>> ELSE <<>>
    BY <1>4, <1>10, <2>1, MultipartAssumption DEF Taken
  <2>3. CASE payload[p].data
    <3>1. OfferedBelow(mime, p) = {p} /\ WantedBelow(mime, p) = {p}
      BY <1>3, <1>10, <2>1, <2>3, OfferedByLeaf
    <3>2. t[p] = <<p>>
      BY <2>2, <2>3
    <3>3. <<p>> \in Seq(D) /\ DOMAIN <<p>> = {1} /\ ToSet(<<p>>) = {p} /\ <<p>> # <<>>
      BY <1>3 DEF ToSet
    <3>4. IsAnswer(<<p>>, mime, p)
      BY <3>1, <3>3 DEF IsAnswer
    <3> QED
      BY <1>3, <3>2, <3>4
  <2>4. CASE ~payload[p].data
    <3>1. OfferedBelow(mime, p) = {}
      BY <1>3, <1>10, <2>1, <2>4, OfferedByLeaf
    <3> QED
      BY <1>3, <2>2, <2>4, <3>1, NoneIsAnswer
  <2> QED
    BY <2>3, <2>4
<1>11. CASE ~payload[p].filename /\ payload[p].mime = "multipart/alternative"
  <2>1. t[p] = FirstWithContent(pieces)
    BY <1>4, <1>11 DEF Taken, TextTypes, pieces
  <2> QED
    BY <1>3, <1>5, <1>7, <1>11, <2>1, AlternativeAnswer
<1>12. CASE /\ ~payload[p].filename
            /\ payload[p].mime \in Multipart \ {"multipart/alternative"}
  <2>1. payload[p].mime # mime
    BY <1>12, MultipartNoText
  <2>2. t[p] = FlattenSeq(pieces)
    BY <1>4, <1>12, <2>1 DEF Taken, pieces
  <2> QED
    BY <1>3, <1>5, <1>7, <1>12, <2>2, MixedAnswer
<1> QED
  BY <1>8, <1>9, <1>10, <1>11, <1>12

(* What _extract_parts returns of the message.                                 *)
LEMMA ExtractAnswers ==
  ASSUME IsMessage(payload), NEW mime \in TextTypes
  PROVE  /\ Extract(mime) \in Seq(DOMAIN payload) /\ ToSet(Extract(mime)) = Wanted(mime)
         /\ \A i, j \in DOMAIN Extract(mime) : i < j => InOrder(Extract(mime)[i], Extract(mime)[j])
         /\ Offered(mime) # {} => Extract(mime) # <<>>
<1>1. <<>> \in DOMAIN payload /\ OfferedBelow(mime, <<>>) = Offered(mime)
      /\ WantedBelow(mime, <<>>) = Wanted(mime)
  BY OfferedAtTop
<1>2. IsAnswer(Extract(mime), mime, <<>>)
  BY <1>1, TextsAreAnswers DEF Extract
<1> QED
  BY <1>1, <1>2 DEF IsAnswer

(* The body has the first version with content at every choice, in order.      *)
THEOREM MessageSpecBestVersionTaken == MessageSpec => []BestVersionTaken
<1>1. MessageInv => BestVersionTaken
  <2> SUFFICES ASSUME MessageInv, NEW mime \in TextTypes
               PROVE  /\ ToSet(Extract(mime)) = Wanted(mime)
                      /\ \A i, j \in DOMAIN Extract(mime) : i < j => InOrder(Extract(mime)[i], Extract(mime)[j])
    BY DEF BestVersionTaken, TextTypes
  <2> QED
    BY ExtractAnswers, MessagesAssumption DEF MessageInv
<1> QED
  BY <1>1, MessageInvariance, PTL

(* A message with a text has a body, and its HTML is told too.                 *)
THEOREM MessageSpecNothingUnsaid == MessageSpec => []NothingUnsaid
<1>1. MessageInv => NothingUnsaid
  <2> SUFFICES ASSUME MessageInv PROVE NothingUnsaid
    OBVIOUS
  <2> DEFINE plain == Extract("text/plain")
             html == Extract("text/html")
  <2>1. IsMessage(payload)
    BY MessagesAssumption DEF MessageInv
  <2>2. /\ Offered("text/plain") # {} => plain # <<>>
        /\ Offered("text/html") # {} => html # <<>>
        /\ ToSet(html) = Wanted("text/html")
    BY <2>1, ExtractAnswers DEF TextTypes
  <2> HIDE DEF plain, html
  <2>3. Told.body = (IF plain # <<>> THEN plain ELSE html) /\ Told.html = (IF plain # <<>> THEN html ELSE <<>>)
    BY DEF Told, BodyOf, plain, html
  <2>4. ToSet(<<>>) = {}
    BY DEF ToSet
  <2> QED
    BY <2>2, <2>3, <2>4 DEF NothingUnsaid
<1> QED
  BY <1>1, MessageInvariance, PTL

(* _attachment_parts returns the downloadable parts at and below a part.       *)
LEMMA AttachmentsBelow ==
  ASSUME IsMessage(payload)
  PROVE  \A p \in DOMAIN payload :
           ToSet(AttachmentParts[p]) =
             {q \in DOMAIN payload : Under(p, q) /\ payload[q].filename /\ payload[q].attachmentId}
<1> DEFINE D == DOMAIN payload
           Files(p) == {q \in D : Under(p, q) /\ payload[q].filename /\ payload[q].attachmentId}
           t == AttachmentParts
           Bad == {p \in D : ToSet(t[p]) # Files(p)}
<1>1. SUFFICES ASSUME Bad # {} PROVE FALSE
  OBVIOUS
<1>2. PICK p \in Bad : \A i \in 1..payload[p].parts : Append(p, i) \notin Bad
  <2>1. Bad \in SUBSET D
    OBVIOUS
  <2> HIDE DEF Bad
  <2> QED
    BY <1>1, <2>1, PartsEnd
<1> DEFINE pieces == Pieces(p, t)
           n == payload[p].parts
           flat == FlattenSeq(pieces)
<1>3. p \in D /\ ToSet(t[p]) # Files(p)
  BY <1>2
<1>4. t \in [D -> Seq(D)] /\ t[p] = Own(p) \o flat
  BY <1>3, AttachmentsDefined
<1>5. /\ pieces \in Seq(Seq(D)) /\ Len(pieces) = n /\ n \in Nat
      /\ \A i \in 1..n : pieces[i] = t[Append(p, i)]
  BY <1>3, <1>4, PiecesProperties
<1>6. ASSUME NEW i \in 1..n PROVE ToSet(pieces[i]) = Files(Append(p, i))
  <2>1. Append(p, i) \in D /\ Append(p, i) \notin Bad
    BY <1>2, <1>3 DEF IsMessage
  <2> QED
    BY <1>5, <2>1
<1>7. flat \in Seq(D) /\ IsFlat(flat, pieces, n)
  BY <1>5, FlattenProperties
<1>8. ASSUME NEW q PROVE q \in ToSet(flat) <=> \E i \in 1..n : q \in ToSet(pieces[i])
  <2> HIDE DEF flat, pieces, n
  <2>1. ASSUME NEW i \in 1..n, NEW k \in DOMAIN pieces[i] PROVE pieces[i][k] \in ToSet(flat)
    <3>1. pieces[i] \in Seq(D)
      BY <1>5
    <3>2. <<i, k>> \in Places(pieces, n)
      BY <3>1 DEF Places
    <3> QED
      BY <1>7, <3>2 DEF IsFlat
  <2>2. ASSUME NEW a \in DOMAIN flat PROVE \E i \in 1..n : flat[a] \in ToSet(pieces[i])
    <3>1. PICK place \in Places(pieces, n) : flat[a] = pieces[place[1]][place[2]]
      BY <1>7 DEF IsFlat
    <3>2. place[1] \in 1..n /\ place[2] \in DOMAIN pieces[place[1]]
      BY DEF Places
    <3> QED
      BY <3>1, <3>2 DEF ToSet
  <2> QED
    BY <2>1, <2>2 DEF ToSet
<1>9. p \in Seq(Nat) /\ Under(p, p)
  BY <1>3, UpAll DEF Under, IsMessage
<1>10. ASSUME NEW q \in D
       PROVE  Under(p, q) <=> q = p \/ \E i \in 1..n : Under(Append(p, i), q)
  <2>1. ASSUME NEW i \in 1..n, Under(Append(p, i), q) PROVE Under(p, q)
    <3>1. /\ Len(p) \in Nat /\ Len(q) \in Nat /\ Len(p) + 1 <= Len(q) /\ Up(q, Len(p)) = p
      BY <1>3, <2>1, UnderAPart
    <3> QED
      BY <3>1 DEF Under
  <2> QED
    BY <1>3, <1>9, <2>1, UnderOneOfThem
<1>11. ToSet(t[p]) = ToSet(Own(p)) \cup ToSet(flat)
  <2> DEFINE own == Own(p)
  <2>1. own \in Seq(D)
    <3>1. <<p>> \in Seq(D) /\ <<>> \in Seq(D)
      BY <1>3
    <3>2. own \in {<<p>>, <<>>}
      BY DEF Own
    <3> HIDE DEF own, D
    <3> QED
      BY <3>1, <3>2
  <2> HIDE DEF own, flat
  <2>2. Range(own \o flat) = Range(own) \cup Range(flat)
    BY <1>7, <2>1, RangeConcatenation
  <2> QED
    BY <1>4, <2>2 DEF own, ToSet, Range
<1>12. ToSet(Own(p)) = IF payload[p].filename /\ payload[p].attachmentId THEN {p} ELSE {}
  <2>1. DOMAIN <<p>> = {1} /\ <<p>>[1] = p /\ DOMAIN <<>> = {}
    OBVIOUS
  <2> QED
    BY <2>1 DEF Own, ToSet
<1>13. ASSUME NEW q PROVE q \in ToSet(t[p]) <=> q \in Files(p)
  <2> HIDE DEF t, pieces, flat
  <2>1. q \in ToSet(flat) <=> \E i \in 1..n : q \in Files(Append(p, i))
    BY <1>6, <1>8
  <2> QED
    BY <1>3, <1>10, <1>11, <1>12, <2>1
<1> QED
  BY <1>3, <1>13

(* Every attachment of a message that has an id is listed, and nothing else.   *)
THEOREM DownloadableIsComplete ==
  ASSUME IsMessage(payload)
  PROVE  ToSet(Downloadable) =
           {p \in DOMAIN payload : payload[p].filename /\ payload[p].attachmentId}
<1>1. <<>> \in DOMAIN payload
  BY DEF IsMessage
<1>2. \A q \in DOMAIN payload : Under(<<>>, q)
  BY UnderTop
<1> QED
  BY <1>1, <1>2, AttachmentsBelow DEF Downloadable
================================================================================
