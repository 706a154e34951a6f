------------------------------ MODULE SentLog_proofs -----------------------------
(* Safety of the sent log, for every set of servers, request_ids and messages. *)
(* What an entry claims was sent was sent, whoever wrote the file and however  *)
(* it was torn.  That the log also knows what was answered, and stays empty of *)
(* what was erased, is true of servers that run one after another: there the   *)
(* invariant says where the records are at each moment of a save, which is     *)
(* empty on disk between the opening of the file and the write.                *)
EXTENDS SentLog, TLAPS

(* Which thread is where: a thread inside the lock is the tool's in a step that*)
(* takes it or the timer's, a save that has opened its file has not ended, and *)
(* a tool past its start serves a call.                                        *)
ThreadInv ==
  \A p \in Server :
    /\ holder[p] = None <=> crit[p] = "free"
    /\ crit[p] = "open" <=> pen[p] # "none"
    /\ tool[p] = "down" => holder[p] = None
    /\ tool[p] = "start" => holder[p] = "tool"
    /\ holder[p] = "tool" => tool[p] \in {"start", "check", "record"}
    /\ holder[p] = "tool" /\ crit[p] = "open" => tool[p] = "record"
    /\ tool[p] \in {"check", "send", "record"} => call[p] \in Send

(* Every entry, in the file or remembered, is of a message that went out.      *)
Sent(records) ==
  \A r \in Request : records[r] # None => [request |-> r, mail |-> records[r].mail] \in delivered

SentInv ==
  /\ Sent(stored)
  /\ \A p \in Server : Sent(copy[p])
  /\ \A p \in Server : tool[p] = "record" => call[p] \in delivered
  /\ file # "log" => stored = NoRecords

Holds(records, s) == records[s.request] # None /\ records[s.request].mail = s.mail

(* Of servers that have run one after another at most one is up, and it alone  *)
(* has the file open.                                                          *)
OneServer ==
  /\ \A p, q \in Server : tool[p] # "down" /\ tool[q] # "down" => p = q
  /\ \A p \in Server : pen[p] # "gone"
  /\ \A p \in Server : pen[p] = "path" => file = "empty"

Recording(p, r) == holder[p] = "tool" /\ call[p].request = r

(* The log knows what was answered, wherever the one server that is up has it: *)
(* in the file while no save is open, in what it has loaded, and while the save*)
(* is open in what it is about to write, the entry being recorded included.    *)
(* A file that is about to be moved away answers for nothing.                  *)
Known ==
  /\ (\A p \in Server : pen[p] = "none") => \A s \in answered : Holds(stored, s)
  /\ \A p \in Server : crit[p] = "loaded" => \A s \in answered : Holds(copy[p], s)
  /\ \A p \in Server : crit[p] = "open" =>
       /\ \A s \in answered : Recording(p, s.request) \/ Holds(copy[p], s)
       /\ holder[p] = "tool" => Holds(copy[p], call[p])
  /\ \A p \in Server : crit[p] = "torn" => answered = {}
  /\ NoSecondSend

(* What was erased is neither in the file nor in what a thread inside the lock *)
(* may write there: the erasers wait for the lock and clear what is remembered.*)
Forgotten ==
  /\ ErasedStaysErased
  /\ \A p \in Server, r \in erased :
       /\ crit[p] = "loaded" => copy[p][r] = None
       /\ crit[p] = "open" => Recording(p, r) \/ copy[p][r] = None

AloneInv == alone => OneServer /\ Known /\ Forgotten

(* The inductive invariant.                                                    *)
LogInv == TypeOK /\ ThreadInv /\ SentInv /\ AloneInv

--------------------------------------------------------------------------------
LEMMA Bounds ==
  /\ None \notin Entry /\ None \notin Send /\ None # "tool" /\ None # "timer"
  /\ NoRecords \in Log
  BY EntryAssumption DEF NoRecords, Log

(* An entry that ages stays the entry of its message.                          *)
SameSends(l, m) ==
  \A q \in Request : (m[q] = None <=> l[q] = None) /\ (l[q] # None => m[q].mail = l[q].mail)

LEMMA AgedLog ==
  ASSUME NEW l \in Log, NEW r \in Request
  PROVE  Aged(l, r) \in Log /\ SameSends(l, Aged(l, r))
<1>1. CASE l[r] = None
  BY <1>1 DEF Aged, SameSends
<1>2. CASE l[r] # None
  <2>1. /\ l[r] \in Entry /\ [l[r] EXCEPT !.old = TRUE] \in Entry
        /\ [l[r] EXCEPT !.old = TRUE].mail = l[r].mail
    BY <1>2 DEF Log, Entry
  <2>2. Aged(l, r) = [l EXCEPT ![r] = [l[r] EXCEPT !.old = TRUE]]
    BY <1>2 DEF Aged
  <2> QED
    BY <2>1, <2>2, Bounds DEF Log, SameSends
<1> QED
  BY <1>1, <1>2

--------------------------------------------------------------------------------
(* The steps.  A server starts or takes the lock, of its own threads only.     *)
LEMMA StartKeeps ==
  ASSUME LogInv, NEW p \in Server, Start(p)
  PROVE  LogInv'
<1> USE Bounds DEF LogInv, TypeOK, ThreadInv, Start, Acquire, Reach, Become, logVars,
                   threadVars, historyVars
<1>1. TypeOK'
  OBVIOUS
<1>2. ThreadInv'
  OBVIOUS
<1>3. SentInv'
  BY DEF SentInv, Sent
<1>4. AloneInv'
  <2> SUFFICES ASSUME alone' PROVE (OneServer /\ Known /\ Forgotten)'
    BY DEF AloneInv
  <2> USE DEF AloneInv, OneServer
  <2>1. OneServer'
    BY ZenonT(40) DEF SentInv
  <2>2. Known'
    BY DEF Known, Recording, NoSecondSend
  <2>3. Forgotten'
    BY DEF Forgotten, ErasedStaysErased, Recording
  <2> QED
    BY <2>1, <2>2, <2>3
<1> QED
  BY <1>1, <1>2, <1>3, <1>4

LEMMA StartedKeeps ==
  ASSUME LogInv, NEW p \in Server, Started(p), UNCHANGED alone
  PROVE  LogInv'
<1> USE Bounds DEF LogInv, TypeOK, ThreadInv, Started, Release, Reach, Become, logVars,
                   threadVars, historyVars
<1>1. TypeOK'
  OBVIOUS
<1>2. ThreadInv'
  OBVIOUS
<1>3. SentInv'
  BY DEF SentInv, Sent
<1>4. AloneInv'
  <2> SUFFICES ASSUME alone' PROVE (OneServer /\ Known /\ Forgotten)'
    BY DEF AloneInv
  <2> USE DEF AloneInv, OneServer
  <2>1. OneServer'
    OBVIOUS
  <2>2. Known'
    BY DEF Known, NoSecondSend
  <2>3. Forgotten'
    BY DEF Forgotten, ErasedStaysErased
  <2> QED
    BY <2>1, <2>2, <2>3
<1> QED
  BY <1>1, <1>2, <1>3, <1>4

LEMMA LockKeeps ==
  ASSUME LogInv, NEW p \in Server, Lock(p), UNCHANGED alone
  PROVE  LogInv'
<1> USE Bounds DEF LogInv, TypeOK, ThreadInv, Lock, Acquire, Reach, logVars, threadVars,
                   historyVars
<1>1. TypeOK'
  OBVIOUS
<1>2. ThreadInv'
  OBVIOUS
<1>3. SentInv'
  BY DEF SentInv, Sent
<1>4. AloneInv'
  <2> SUFFICES ASSUME alone' PROVE (OneServer /\ Known /\ Forgotten)'
    BY DEF AloneInv
  <2> USE DEF AloneInv, OneServer
  <2>1. OneServer'
    OBVIOUS
  <2>2. Known'
    BY DEF Known, Holds, Recording, NoSecondSend, SentInv
  <2>3. Forgotten'
    BY DEF Forgotten, ErasedStaysErased
  <2> QED
    BY <2>1, <2>2, <2>3
<1> QED
  BY <1>1, <1>2, <1>3, <1>4

(* What a thread works on is what the file holds as it takes the lock.         *)
LEMMA LoadKeeps ==
  ASSUME LogInv, NEW p \in Server, Load(p), UNCHANGED alone
  PROVE  LogInv'
<1> USE Bounds DEF LogInv, TypeOK, ThreadInv, Load, Reach, logVars, threadVars,
                   historyVars
<1>1. TypeOK'
  OBVIOUS
<1>2. ThreadInv'
  OBVIOUS
<1>3. SentInv'
  BY DEF SentInv, Sent
<1>4. AloneInv'
  <2> SUFFICES ASSUME alone' PROVE (OneServer /\ Known /\ Forgotten)'
    BY DEF AloneInv
  <2> USE DEF AloneInv, OneServer
  <2>1. OneServer'
    OBVIOUS
  <2>2. Known'
    <3>1. \A q \in Server \ {p} : crit[q] = "free" /\ crit'[q] = crit[q]
      OBVIOUS
    <3>2. CASE crit'[p] = "loaded"
      BY <3>1, <3>2 DEF Known, Holds, Recording, NoSecondSend
    <3>3. CASE crit'[p] = "torn"
      <4>1. file \in Torn => answered = {}
        BY DEF Known, Holds, SentInv, NoRecords, Torn, Send
      <4>2. answered' = {}
        BY <3>3, <4>1
      <4> QED
        BY <3>1, <3>3, <4>2 DEF Known, NoSecondSend
    <3> QED
      BY <3>2, <3>3
  <2>3. Forgotten'
    BY DEF Forgotten, ErasedStaysErased
  <2> QED
    BY <2>1, <2>2, <2>3
<1> QED
  BY <1>1, <1>2, <1>3, <1>4

(* A torn file was left by a save that was cut off, which took what was        *)
(* answered with it, and a good one that cannot be read is out of reach:       *)
(* nothing that the log must know is moved away.                               *)
LEMMA MoveCorruptKeeps ==
  ASSUME LogInv, NEW p \in Server, MoveCorrupt(p), UNCHANGED alone
  PROVE  LogInv'
<1> USE Bounds DEF LogInv, TypeOK, ThreadInv, MoveCorrupt, Unlinked, Reach, logVars,
                   threadVars, historyVars
<1>1. TypeOK'
  OBVIOUS
<1>2. ThreadInv'
  OBVIOUS
<1>3. SentInv'
  BY DEF SentInv, Sent, NoRecords
<1>4. AloneInv'
  <2> SUFFICES ASSUME alone' PROVE (OneServer /\ Known /\ Forgotten)'
    BY DEF AloneInv
  <2> USE DEF AloneInv, OneServer
  <2>1. OneServer'
    OBVIOUS
  <2>2. Known'
    <3>1. answered = {}
      BY DEF SentInv, Known, Holds, NoRecords, Send, Torn
    <3> QED
      BY <3>1 DEF Known, NoSecondSend
  <2>3. Forgotten'
    BY DEF Forgotten, ErasedStaysErased, NoRecords
  <2> QED
    BY <2>1, <2>2, <2>3
<1> QED
  BY <1>1, <1>2, <1>3, <1>4

(* The tool answers from the log, sends, or is refused.                        *)
LEMMA AlreadySentKeeps ==
  ASSUME LogInv, NEW p \in Server, AlreadySent(p), UNCHANGED alone
  PROVE  LogInv'
<1> USE Bounds DEF LogInv, TypeOK, ThreadInv, AlreadySent, InCheck, Release, Reach,
                   Become, logVars, threadVars, historyVars
<1>1. TypeOK'
  OBVIOUS
<1>2. ThreadInv'
  OBVIOUS
<1>3. SentInv'
  BY DEF SentInv, Sent
<1>4. AloneInv'
  <2> SUFFICES ASSUME alone' PROVE (OneServer /\ Known /\ Forgotten)'
    BY DEF AloneInv
  <2> USE DEF AloneInv, OneServer
  <2>1. OneServer'
    OBVIOUS
  <2>2. Known'
    BY DEF Known, NoSecondSend
  <2>3. Forgotten'
    BY DEF Forgotten, ErasedStaysErased
  <2> QED
    BY <2>1, <2>2, <2>3
<1> QED
  BY <1>1, <1>2, <1>3, <1>4

LEMMA NotSentYetKeeps ==
  ASSUME LogInv, NEW p \in Server, NotSentYet(p), UNCHANGED alone
  PROVE  LogInv'
<1> USE Bounds DEF LogInv, TypeOK, ThreadInv, NotSentYet, InCheck, Hit, Release, Reach,
                   Become, logVars, threadVars, historyVars
<1>1. TypeOK'
  OBVIOUS
<1>2. ThreadInv'
  OBVIOUS
<1>3. SentInv'
  BY DEF SentInv, Sent
<1>4. AloneInv'
  <2> SUFFICES ASSUME alone' PROVE (OneServer /\ Known /\ Forgotten)'
    BY DEF AloneInv
  <2> USE DEF AloneInv, OneServer
  <2>1. OneServer'
    OBVIOUS
  <2>2. Known'
    BY DEF Known, Holds, Recording, NoSecondSend
  <2>3. Forgotten'
    BY DEF Forgotten, ErasedStaysErased
  <2> QED
    BY <2>1, <2>2, <2>3
<1> QED
  BY <1>1, <1>2, <1>3, <1>4

LEMMA DeliverKeeps ==
  ASSUME LogInv, NEW p \in Server, Deliver(p), UNCHANGED alone
  PROVE  LogInv'
<1> USE Bounds DEF LogInv, TypeOK, ThreadInv, Deliver, Become, logVars, threadVars,
                   historyVars
<1>1. TypeOK'
  OBVIOUS
<1>2. ThreadInv'
  OBVIOUS
<1>3. SentInv'
  BY DEF SentInv, Sent
<1>4. AloneInv'
  <2> SUFFICES ASSUME alone' PROVE (OneServer /\ Known /\ Forgotten)'
    BY DEF AloneInv
  <2> USE DEF AloneInv, OneServer
  <2>1. OneServer'
    OBVIOUS
  <2>2. Known'
    BY DEF Known, Holds, Recording, NoSecondSend, SentInv
  <2>3. Forgotten'
    BY DEF Forgotten, ErasedStaysErased, Recording
  <2> QED
    BY <2>1, <2>2, <2>3
<1> QED
  BY <1>1, <1>2, <1>3, <1>4

LEMMA RefusedKeeps ==
  ASSUME LogInv, NEW p \in Server, Refused(p), UNCHANGED alone
  PROVE  LogInv'
<1> USE Bounds DEF LogInv, TypeOK, ThreadInv, Refused, Become, logVars, threadVars,
                   historyVars
<1>1. TypeOK'
  OBVIOUS
<1>2. ThreadInv'
  OBVIOUS
<1>3. SentInv'
  BY DEF SentInv, Sent
<1>4. AloneInv'
  <2> SUFFICES ASSUME alone' PROVE (OneServer /\ Known /\ Forgotten)'
    BY DEF AloneInv
  <2> USE DEF AloneInv, OneServer
  <2>1. OneServer'
    OBVIOUS
  <2>2. Known'
    BY DEF Known, Recording, NoSecondSend
  <2>3. Forgotten'
    BY DEF Forgotten, ErasedStaysErased, Recording
  <2> QED
    BY <2>1, <2>2, <2>3
<1> QED
  BY <1>1, <1>2, <1>3, <1>4

(* A save opens the file: from here to its write the records are in memory.    *)
LEMMA RecordKeeps ==
  ASSUME LogInv, NEW p \in Server, Record(p), UNCHANGED alone
  PROVE  LogInv'
<1> USE Bounds DEF LogInv, TypeOK, ThreadInv, Record, Truncate, Reach, logVars,
                   threadVars, historyVars
<1>1. TypeOK'
  BY DEF Log, Entry, Send, Torn
<1>2. ThreadInv'
  OBVIOUS
<1>3. SentInv'
  BY DEF SentInv, Sent, Send, NoRecords
<1>4. AloneInv'
  <2> SUFFICES ASSUME alone' PROVE (OneServer /\ Known /\ Forgotten)'
    BY DEF AloneInv
  <2> USE DEF AloneInv, OneServer
  <2>1. OneServer'
    OBVIOUS
  <2>2. Known'
    <3>1. copy'[p] = [copy[p] EXCEPT ![call[p].request] = [mail |-> call[p].mail, old |-> FALSE]]
      OBVIOUS
    <3>2. call[p].request \in Request /\ copy[p] \in Log
      BY DEF Send
    <3>3. [mail |-> call[p].mail, old |-> FALSE] \in Entry
      BY DEF Entry, Send
    <3>4. Holds(copy'[p], call[p])
      BY <3>1, <3>2, <3>3 DEF Holds, Log
    <3>5. \A s \in answered : s.request # call[p].request => Holds(copy'[p], s)
      BY DEF Known, Holds
    <3>6. \A q \in Server : q # p => crit'[q] = crit[q] /\ copy'[q] = copy[q]
      OBVIOUS
    <3>7. /\ holder[p] = "tool" /\ crit'[p] = "open" /\ pen'[p] = "path"
          /\ tool' = tool /\ call' = call /\ holder' = holder /\ answered' = answered
      OBVIOUS
    <3>8. \A q \in Server : q # p => crit[q] = "free"
      OBVIOUS
    <3> HIDE DEF Record, Truncate
    <3> QED
      BY <3>4, <3>5, <3>6, <3>7, <3>8 DEF Known, Recording, NoSecondSend
  <2>3. Forgotten'
    BY DEF Forgotten, ErasedStaysErased, Recording, NoRecords
  <2> QED
    BY <2>1, <2>2, <2>3
<1> QED
  BY <1>1, <1>2, <1>3, <1>4

LEMMA DropExpiredKeeps ==
  ASSUME LogInv, NEW p \in Server, DropExpired(p), UNCHANGED alone
  PROVE  LogInv'
<1> USE Bounds DEF LogInv, TypeOK, ThreadInv, DropExpired, Truncate, Expired, Reach,
                   logVars, threadVars, historyVars
<1>1. TypeOK'
  BY DEF Log, Torn
<1>2. ThreadInv'
  OBVIOUS
<1>3. SentInv'
  BY DEF SentInv, Sent, NoRecords
<1>4. AloneInv'
  <2> SUFFICES ASSUME alone' PROVE (OneServer /\ Known /\ Forgotten)'
    BY DEF AloneInv
  <2> USE DEF AloneInv, OneServer
  <2>1. OneServer'
    OBVIOUS
  <2>2. Known'
    BY DEF Known, Holds, Recording, NoSecondSend, NoRecords, SentInv, Log, Entry, Send
  <2>3. Forgotten'
    BY DEF Forgotten, ErasedStaysErased, NoRecords
  <2> QED
    BY <2>1, <2>2, <2>3
<1> QED
  BY <1>1, <1>2, <1>3, <1>4

LEMMA NothingExpiredKeeps ==
  ASSUME LogInv, NEW p \in Server, NothingExpired(p), UNCHANGED alone
  PROVE  LogInv'
<1> USE Bounds DEF LogInv, TypeOK, ThreadInv, NothingExpired, Release, Reach, logVars,
                   threadVars, historyVars
<1>1. TypeOK'
  OBVIOUS
<1>2. ThreadInv'
  OBVIOUS
<1>3. SentInv'
  BY DEF SentInv, Sent
<1>4. AloneInv'
  <2> SUFFICES ASSUME alone' PROVE (OneServer /\ Known /\ Forgotten)'
    BY DEF AloneInv
  <2> USE DEF AloneInv, OneServer
  <2>1. OneServer'
    OBVIOUS
  <2>2. Known'
    BY DEF Known, NoSecondSend
  <2>3. Forgotten'
    BY DEF Forgotten, ErasedStaysErased
  <2> QED
    BY <2>1, <2>2, <2>3
<1> QED
  BY <1>1, <1>2, <1>3, <1>4

(* The write puts them back, and the agent is told.                            *)
LEMMA SavedKeeps ==
  ASSUME LogInv, NEW p \in Server, Saved(p), UNCHANGED alone
  PROVE  LogInv'
<1> USE Bounds DEF LogInv, TypeOK, ThreadInv, Saved, Release, Reach, Become, logVars,
                   threadVars, historyVars
<1>1. TypeOK'
  <2>1. holder[p] = "tool" => call[p] \in Send /\ call[p].request \in Request
    BY DEF Send
  <2>2. stored' \in Log /\ file' \in {"absent", "log"} \cup Torn
    BY DEF Torn
  <2>3. answered' \subseteq Send /\ erased' \subseteq Request
    OBVIOUS
  <2>4. /\ call' \in [Server -> Send \cup {None}]
        /\ tool' \in [Server -> {"down", "start", "idle", "check", "send", "record"}]
    OBVIOUS
  <2> QED
    BY <2>1, <2>2, <2>3, <2>4
<1>2. ThreadInv'
  OBVIOUS
<1>3. SentInv'
  <2>1. Sent(copy[p])
    BY DEF SentInv
  <2>2. Sent(stored') /\ (file' # "log" => stored' = NoRecords)
    BY DEF SentInv, Sent, NoRecords
  <2>3. \A q \in Server : tool'[q] = "record" => call'[q] \in delivered
    BY DEF SentInv
  <2> QED
    BY <2>1, <2>2, <2>3 DEF SentInv, Sent
<1>4. AloneInv'
  <2> SUFFICES ASSUME alone' PROVE (OneServer /\ Known /\ Forgotten)'
    BY DEF AloneInv
  <2> USE DEF AloneInv, OneServer
  <2>1. OneServer'
    OBVIOUS
  <2>2. Known'
    BY DEF Known, Holds, Recording, NoSecondSend, NoRecords, SentInv
  <2>3. Forgotten'
    BY DEF Forgotten, ErasedStaysErased, Recording
  <2> QED
    BY <2>1, <2>2, <2>3
<1> QED
  BY <1>1, <1>2, <1>3, <1>4

(* A save ends without its write, an eraser forgets, a server is killed.       *)
LEMMA SaveFailsKeeps ==
  ASSUME LogInv, NEW p \in Server, SaveFails(p), UNCHANGED alone
  PROVE  LogInv'
<1> USE Bounds DEF LogInv, TypeOK, ThreadInv, SaveFails, Cut, Release, Reach, Become,
                   logVars, threadVars, historyVars
<1>1. TypeOK'
  <2>1. answered' \subseteq Send
    OBVIOUS
  <2>2. /\ call' \in [Server -> Send \cup {None}]
        /\ tool' \in [Server -> {"down", "start", "idle", "check", "send", "record"}]
    OBVIOUS
  <2> QED
    BY <2>1, <2>2
<1>2. ThreadInv'
  OBVIOUS
<1>3. SentInv'
  BY DEF SentInv, Sent
<1>4. AloneInv'
  <2> SUFFICES ASSUME alone' PROVE (OneServer /\ Known /\ Forgotten)'
    BY DEF AloneInv
  <2> USE DEF AloneInv, OneServer
  <2>1. OneServer'
    OBVIOUS
  <2>2. Known'
    BY DEF Known, NoSecondSend
  <2>3. Forgotten'
    BY DEF Forgotten, ErasedStaysErased
  <2> QED
    BY <2>1, <2>2, <2>3
<1> QED
  BY <1>1, <1>2, <1>3, <1>4

LEMMA ForgetKeeps ==
  ASSUME LogInv, NEW p \in Server, Forget(p), UNCHANGED alone
  PROVE  LogInv'
<1> USE Bounds DEF LogInv, TypeOK, ThreadInv, Forget, Unlinked, logVars, threadVars,
                   historyVars
<1>1. TypeOK'
  OBVIOUS
<1>2. ThreadInv'
  OBVIOUS
<1>3. SentInv'
  BY DEF SentInv, Sent, NoRecords
<1>4. AloneInv'
  <2> SUFFICES ASSUME alone' PROVE (OneServer /\ Known /\ Forgotten)'
    BY DEF AloneInv
  <2> USE DEF AloneInv, OneServer
  <2>1. OneServer'
    OBVIOUS
  <2>2. Known'
    BY DEF Known, NoSecondSend
  <2>3. Forgotten'
    BY DEF Forgotten, ErasedStaysErased, NoRecords
  <2> QED
    BY <2>1, <2>2, <2>3
<1> QED
  BY <1>1, <1>2, <1>3, <1>4

LEMMA CrashKeeps ==
  ASSUME LogInv, NEW p \in Server, Crash(p), UNCHANGED alone
  PROVE  LogInv'
<1> USE Bounds DEF LogInv, TypeOK, ThreadInv, Crash, Cut, Release, Reach, Become,
                   logVars, threadVars, historyVars
<1>1. TypeOK'
  OBVIOUS
<1>2. ThreadInv'
  OBVIOUS
<1>3. SentInv'
  BY DEF SentInv, Sent, NoRecords
<1>4. AloneInv'
  <2> SUFFICES ASSUME alone' PROVE (OneServer /\ Known /\ Forgotten)'
    BY DEF AloneInv
  <2> USE DEF AloneInv, OneServer
  <2>1. OneServer'
    OBVIOUS
  <2>2. Known'
    BY DEF Known, NoSecondSend
  <2>3. Forgotten'
    BY DEF Forgotten, ErasedStaysErased
  <2> QED
    BY <2>1, <2>2, <2>3
<1> QED
  BY <1>1, <1>2, <1>3, <1>4

LEMMA SendEmailKeeps ==
  ASSUME LogInv, NEW p \in Server, NEW s \in Send, SendEmail(p, s), UNCHANGED alone
  PROVE  LogInv'
<1> USE Bounds DEF LogInv, TypeOK, ThreadInv, SendEmail, Become, logVars, threadVars,
                   historyVars
<1>1. TypeOK'
  OBVIOUS
<1>2. ThreadInv'
  OBVIOUS
<1>3. SentInv'
  BY DEF SentInv, Sent
<1>4. AloneInv'
  <2> SUFFICES ASSUME alone' PROVE (OneServer /\ Known /\ Forgotten)'
    BY DEF AloneInv
  <2> USE DEF AloneInv, OneServer
  <2>1. OneServer'
    OBVIOUS
  <2>2. Known'
    BY DEF Known, Recording, NoSecondSend
  <2>3. Forgotten'
    BY DEF Forgotten, ErasedStaysErased, Recording
  <2> QED
    BY <2>1, <2>2, <2>3
<1> QED
  BY <1>1, <1>2, <1>3, <1>4

LEMMA AgeKeeps ==
  ASSUME LogInv, NEW r \in Request, Age(r), UNCHANGED alone
  PROVE  LogInv'
<1> USE Bounds DEF LogInv, TypeOK, ThreadInv, Age, logVars, threadVars, historyVars
<1>1. SameSends(stored, stored') /\ \A p \in Server : SameSends(copy[p], copy'[p])
  BY AgedLog
<1>2. /\ file' = file /\ pen' = pen /\ holder' = holder /\ crit' = crit /\ tool' = tool
      /\ call' = call /\ delivered' = delivered /\ answered' = answered /\ erased' = erased
      /\ alone' = alone
  OBVIOUS
<1>3. TypeOK'
  BY AgedLog
<1>4. ThreadInv'
  OBVIOUS
<1>5. SentInv'
  <2>1. stored = NoRecords => stored' = NoRecords
    <3>1. stored' = [q \in Request |-> stored'[q]]
      BY <1>3 DEF Log
    <3> HIDE DEF Age
    <3> QED
      BY <1>1, <3>1 DEF NoRecords, SameSends
  <2> HIDE DEF Age
  <2> QED
    BY <1>1, <1>2, <2>1 DEF SentInv, Sent, SameSends
<1>6. AloneInv'
  <2> SUFFICES ASSUME alone' PROVE (OneServer /\ Known /\ Forgotten)'
    BY DEF AloneInv
  <2> USE DEF AloneInv, OneServer
  <2>1. OneServer'
    OBVIOUS
  <2>2. Known'
    <3> HIDE DEF Age
    <3> QED
      BY SMTT(30), <1>1, <1>2 DEF SameSends, Known, Holds, Recording, NoSecondSend, Send
  <2>3. Forgotten'
    <3> HIDE DEF Age
    <3> QED
      BY <1>1, <1>2 DEF SameSends, Forgotten, ErasedStaysErased, Recording
  <2> QED
    BY <2>1, <2>2, <2>3
<1> QED
  BY <1>3, <1>4, <1>5, <1>6

--------------------------------------------------------------------------------
LEMMA InitLog == Init => LogInv
<1> SUFFICES ASSUME Init PROVE LogInv
  OBVIOUS
<1>1. TypeOK
  BY Bounds DEF Init, TypeOK
<1>2. ThreadInv /\ SentInv
  BY Bounds DEF Init, ThreadInv, SentInv, Sent, NoRecords
<1>3. AloneInv
  BY DEF Init, AloneInv, OneServer, Known, Forgotten, NoSecondSend, ErasedStaysErased
<1> QED
  BY <1>1, <1>2, <1>3 DEF LogInv

LEMMA UnchangedLog ==
  ASSUME LogInv, UNCHANGED vars
  PROVE  LogInv'
<1> USE DEF vars, logVars, threadVars, historyVars
<1>1. TypeOK' /\ ThreadInv'
  BY DEF LogInv, TypeOK, ThreadInv
<1>2. SentInv'
  BY DEF LogInv, SentInv, Sent
<1>3. AloneInv'
  BY DEF LogInv, AloneInv, OneServer, Known, Recording, Forgotten, NoSecondSend,
     ErasedStaysErased
<1> QED
  BY <1>1, <1>2, <1>3 DEF LogInv

LEMMA NextLog == LogInv /\ [Next]_vars => LogInv'
<1> SUFFICES ASSUME LogInv, [Next]_vars PROVE LogInv'
  OBVIOUS
<1>1. ASSUME NEW p \in Server, Start(p) PROVE LogInv'
  BY <1>1, StartKeeps
<1>2. ASSUME UNCHANGED alone, NEW p \in Server,
             \/ Started(p) \/ Lock(p) \/ Load(p) \/ MoveCorrupt(p)
             \/ AlreadySent(p) \/ NotSentYet(p) \/ Deliver(p) \/ Refused(p)
      PROVE  LogInv'
  BY <1>2, StartedKeeps, LockKeeps, LoadKeeps, MoveCorruptKeeps, AlreadySentKeeps,
     NotSentYetKeeps, DeliverKeeps, RefusedKeeps
<1>3. ASSUME UNCHANGED alone, NEW p \in Server,
             \/ Record(p) \/ DropExpired(p) \/ NothingExpired(p) \/ Saved(p) \/ SaveFails(p)
             \/ Forget(p) \/ Crash(p)
      PROVE  LogInv'
  BY <1>3, RecordKeeps, DropExpiredKeeps, NothingExpiredKeeps, SavedKeeps, SaveFailsKeeps,
     ForgetKeeps, CrashKeeps
<1>4. ASSUME UNCHANGED alone, NEW p \in Server, NEW s \in Send, SendEmail(p, s) PROVE LogInv'
  BY <1>4, SendEmailKeeps
<1>5. ASSUME UNCHANGED alone, NEW r \in Request, Age(r) PROVE LogInv'
  BY <1>5, AgeKeeps
<1>6. CASE UNCHANGED vars
  BY <1>6, UnchangedLog
<1> QED
  BY <1>1, <1>2, <1>3, <1>4, <1>5, <1>6 DEF Next

(* The sent log keeps its invariant through torn files, kills at any step of a *)
(* save, cleanups and erasers, with any number of servers at once.             *)
THEOREM LogInvariance == Spec => []LogInv
  BY InitLog, NextLog, PTL DEF Spec

(* Every variable of the sent log stays in its type.                           *)
THEOREM LogTyped == Spec => []TypeOK
<1>1. LogInv => TypeOK
  BY DEF LogInv
<1> QED
  BY <1>1, LogInvariance, PTL

(* send_email and reply answer "already sent" only of a message that Gmail has *)
(* sent, under this request_id and to this recipient with this subject, however*)
(* many servers write the file over each other.                                *)
THEOREM AlreadySentMeansSent == Spec => []AlreadySentIsTrue
<1>1. LogInv => AlreadySentIsTrue
  <2> SUFFICES ASSUME LogInv, NEW p \in Server, InCheck(p), Hit(p) PROVE call[p] \in delivered
    BY DEF AlreadySentIsTrue
  <2>1. call[p] \in Send /\ Sent(copy[p])
    BY DEF LogInv, ThreadInv, SentInv, InCheck
  <2>2. call[p] = [request |-> call[p].request, mail |-> call[p].mail]
    BY <2>1 DEF Send
  <2> QED
    BY <2>1 DEF Sent, Hit, Send
<1> QED
  BY <1>1, LogInvariance, PTL

(* Of servers that run one after another none sends again, on a retry, what the*)
(* agent was told is sent, unless its entry expired, was erased or replaced, or*)
(* a save of the log was cut off.                                              *)
THEOREM RetriesSendNothingTwice == Spec => []NoSecondSendAlone
<1>1. LogInv => NoSecondSendAlone
  BY DEF LogInv, AloneInv, Known, NoSecondSendAlone
<1> QED
  BY <1>1, LogInvariance, PTL

(* Nor does such a server write back what an eraser has forgotten: no thread   *)
(* carries records from before the erase to a save after it.                   *)
THEOREM ErasedIsNotWrittenBack == Spec => []ErasedStaysErasedAlone
<1>1. LogInv => ErasedStaysErasedAlone
  BY DEF LogInv, AloneInv, Forgotten, ErasedStaysErasedAlone
<1> QED
  BY <1>1, LogInvariance, PTL
================================================================================
