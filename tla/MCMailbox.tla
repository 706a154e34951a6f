-------------------------------- MODULE MCMailbox ------------------------------
(* Small instances of the mailbox tools for TLC: a message is read and its     *)
(* attachments downloaded, a thread is read and answered, files are saved.     *)
(* The three share no state, so a behaviour is about one of them, use, and the *)
(* others rest: their product would add states and no behaviour.               *)
EXTENDS MessageParts, Conversation, Attachments, TLC

VARIABLE use

mailboxVars == <<messageVars, conversationVars, attachVars, use>>

--------------------------------------------------------------------------------
(* All messages of depth two, with at most two parts to a multipart.           *)
Leaf(mime, filename, data, id) ==
  <<>> :> [mime |-> mime, filename |-> filename, data |-> data, attachmentId |-> id, parts |-> 0]

Text == Leaf("text/plain", FALSE, TRUE, FALSE)

(* A text, a blank text, HTML, an attachment, and a file that Gmail inlined.   *)
Leaves == {Text, Leaf("text/plain", FALSE, FALSE, FALSE), Leaf("text/html", FALSE, TRUE, FALSE),
           Leaf("text/plain", TRUE, FALSE, TRUE), Leaf("text/html", TRUE, TRUE, FALSE)}

Multi(mime, messages) ==
  [path \in {<<>>} \cup UNION {{<<i>> \o p : p \in DOMAIN messages[i]} : i \in DOMAIN messages} |->
     IF path = <<>>
     THEN [mime |-> mime, filename |-> FALSE, data |-> FALSE, attachmentId |-> FALSE,
           parts |-> Len(messages)]
     ELSE messages[Head(path)][Tail(path)]]

Joined(messages) ==
  {Multi(mime, m) : mime \in Multipart, m \in messages \X messages \cup {<<q>> : q \in messages}}

SmallMessages == Leaves \cup Joined(Leaves)

AllMessages == SmallMessages \cup Joined(SmallMessages)

(* What the agent may ask get_thread for.                                      *)
AskedNumbers == -1..4

Alike == Permutations(Server) \cup Permutations(File)

--------------------------------------------------------------------------------
MailboxInit ==
  /\ use \in {"message", "thread", "save"}
  /\ MessageInit /\ (use # "message" => payload = Text)
  /\ ConversationInit
  /\ AttachInit /\ (use # "save" => \A f \in File : source[f] = "handoff")

MailboxNext ==
  \/ use = "message" /\ MessageNext /\ UNCHANGED <<conversationVars, attachVars, use>>
  \/ use = "thread" /\ ConversationNext /\ UNCHANGED <<messageVars, attachVars, use>>
  \/ use = "save" /\ AttachNext /\ UNCHANGED <<messageVars, conversationVars, use>>

MailboxSpec == MailboxInit /\ [][MailboxNext]_mailboxVars
================================================================================
