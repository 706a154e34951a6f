------------------------------ MODULE Conversation -----------------------------
(* server/gmail_client.py: a thread that others write to and the user tidies   *)
(* while the agent reads its end with get_thread and answers, with             *)
(* reply_to_thread, whatever message is then the last.                         *)
EXTENDS Integers, Sequences, SequencesExt, FiniteSets

CONSTANTS
  Sender,        \* who else writes in the thread
  Me,            \* the account
  MAX_MESSAGES,  \* get_thread's own limit on what it is asked for
  Asked,         \* the values of max_messages the agent passes
  MaxWritten     \* bound: the messages ever written in the thread

ASSUME ConversationAssumption ==
  /\ MAX_MESSAGES \in Nat \ {0} /\ Asked \subseteq Int /\ MaxWritten \in Nat
  /\ Me \notin Sender

VARIABLES
  thread,    \* the messages, oldest first: [id, from, trashed]
  written,   \* how many were ever written; the last one's id
  read,      \* the agent's last get_thread, and, history, the thread it was of
  reply,     \* a reply fetched and not yet sent: what it answers, and the thread it saw
  answered   \* the last reply sent

conversationVars == <<thread, written, read, reply, answered>>

Ids(messages) == {messages[i].id : i \in DOMAIN messages}

NotRead == [asked |-> 0, ids |-> {}, of |-> {}]
NoReply == [id |-> 0, to |-> Me, of |-> {}]

ConversationInit ==
  /\ thread = <<>> /\ written = 0
  /\ read = NotRead
  /\ reply = NoReply /\ answered = NoReply

Write(s) ==
  /\ written < MaxWritten
  /\ written' = written + 1
  /\ thread' = Append(thread, [id |-> written', from |-> s, trashed |-> FALSE])

--------------------------------------------------------------------------------
(* get_thread.                                                                 *)
Limit(asked) == IF asked < MAX_MESSAGES THEN asked ELSE MAX_MESSAGES

IsTruncated(asked) == Len(thread) > Limit(asked)

(* Mutant of Window: the oldest messages are the ones returned.                *)
OldestWindow(n) == {thread[i].id : i \in {j \in DOMAIN thread : j <= n}}

(* all_msgs[-n:]: the last n, but all of them for n = 0, and for a negative n  *)
(* all but the first |n|.                                                      *)
Window(n) ==
  {thread[i].id : i \in {j \in DOMAIN thread :
     CASE n > 0 -> j > Len(thread) - n
       [] n = 0 -> TRUE
       [] n < 0 -> j > -n}}

Selected(asked) == IF IsTruncated(asked) THEN Window(Limit(asked)) ELSE Ids(thread)

GetThread ==
  /\ thread # <<>>
  /\ \E asked \in Asked :
       read' = [asked |-> asked, ids |-> Selected(asked), of |-> Ids(thread)]
  /\ UNCHANGED <<thread, written, reply, answered>>

--------------------------------------------------------------------------------
(* reply_to_thread.                                                            *)

Target == Last(thread)

FetchThread ==
  /\ reply = NoReply
  /\ thread # <<>>
  /\ reply' = [id |-> Target.id, to |-> Target.from, of |-> Ids(thread)]
  /\ UNCHANGED <<thread, written, read, answered>>

(* The answer becomes a message of the thread, the account's own.              *)
SendReply ==
  /\ reply # NoReply
  /\ answered' = reply
  /\ Write(Me)
  /\ reply' = NoReply
  /\ UNCHANGED read

ReplyFails ==
  /\ reply # NoReply
  /\ reply' = NoReply
  /\ UNCHANGED <<thread, written, read, answered>>

--------------------------------------------------------------------------------
(* Others write; the user, or manage_email, trashes a message, which stays in  *)
(* the thread until it is deleted for good.                                    *)
Arrives ==
  /\ \E s \in Sender : Write(s)
  /\ UNCHANGED <<read, reply, answered>>

Trash ==
  /\ \E i \in DOMAIN thread : thread' = [thread EXCEPT ![i].trashed = TRUE]
  /\ UNCHANGED <<written, read, reply, answered>>

Delete ==
  /\ \E i \in DOMAIN thread : thread[i].trashed /\ thread' = RemoveAt(thread, i)
  /\ UNCHANGED <<written, read, reply, answered>>

ConversationNext ==
  GetThread \/ FetchThread \/ SendReply \/ ReplyFails \/ Arrives \/ Trash \/ Delete

ConversationSpec == ConversationInit /\ [][ConversationNext]_conversationVars

--------------------------------------------------------------------------------
(* Properties.                                                                 *)

(* The message a reply answers is one the agent was shown, unless the thread   *)
(* changed after the agent read it: however few messages it asked for, the end *)
(* it is shown is the end that is answered.                                    *)
AnswersWhatWasRead ==
  read.asked >= 1 /\ answered.of = read.of /\ answered # NoReply => answered.id \in read.ids
================================================================================
