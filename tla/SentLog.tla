-------------------------------- MODULE SentLog --------------------------------
(* server/sent_log.py and the two tools that use it: a send is looked up by its*)
(* request_id, sent, and recorded, so that a retry of it can be answered       *)
(* without sending again.  Each server guards the log with a lock of its own   *)
(* threads; the file is shared by every server and guarded by nothing.         *)
EXTENDS Integers

CONSTANTS
  Server,   \* server processes on one data directory
  Request,  \* request_ids
  Mail,     \* (to, subject), or (thread_id, display_subject) of a reply
  None      \* no entry for a request, nobody

Entry == [mail: Mail, old: BOOLEAN]
Log == [Request -> Entry \cup {None}]
NoRecords == [r \in Request |-> None]

(* A save opens the file with "w", which empties it, and writes it in one piece*)
(* before it closes it.  Two saves that overlap may leave the end of the longer*)
(* one behind the shorter.                                                     *)
Torn == {"empty", "garbled"}

VARIABLES
  file,      \* sent_log.json: absent, torn or a log
  stored,    \* the records of the log, none otherwise
  pen,       \* the file a save has open: at the path, or no longer there
  copy,      \* _data
  holder,    \* which thread of the server has _lock
  crit,      \* how far that thread is
  tool,      \* what the server's tool thread is doing
  call,      \* the send or reply it serves
  delivered, \* history: what Gmail has sent
  answered,  \* history: sends reported to the agent that the log must know
  erased,    \* history: requests erased and not recorded since
  alone      \* history: no two servers have run at once

logVars == <<file, stored, pen, copy>>
threadVars == <<holder, crit, tool, call>>
historyVars == <<delivered, answered, erased>>
vars == <<logVars, threadVars, historyVars, alone>>

Send == [request: Request, mail: Mail]

ASSUME EntryAssumption == None \notin Entry \cup Send \cup {"tool", "timer"}

(* Every variable stays in its type.                                           *)
TypeOK ==
  /\ file \in {"absent", "log"} \cup Torn
  /\ stored \in Log
  /\ pen \in [Server -> {"none", "path", "gone"}]
  /\ copy \in [Server -> Log]
  /\ holder \in [Server -> {None, "tool", "timer"}]
  /\ crit \in [Server -> {"free", "load", "torn", "loaded", "open"}]
  /\ tool \in [Server -> {"down", "start", "idle", "check", "send", "record"}]
  /\ call \in [Server -> Send \cup {None}]
  /\ delivered \subseteq Send /\ answered \subseteq Send /\ erased \subseteq Request
  /\ alone \in BOOLEAN

Init ==
  /\ file = "absent" /\ stored = NoRecords
  /\ pen = [p \in Server |-> "none"]
  /\ copy = [p \in Server |-> NoRecords]
  /\ holder = [p \in Server |-> None]
  /\ crit = [p \in Server |-> "free"]
  /\ tool = [p \in Server |-> "down"]
  /\ call = [p \in Server |-> None]
  /\ delivered = {} /\ answered = {} /\ erased = {}
  /\ alone = TRUE

--------------------------------------------------------------------------------
Become(p, t) == tool' = [tool EXCEPT ![p] = t]
Reach(p, c) == crit' = [crit EXCEPT ![p] = c]

Acquire(p, thread) ==
  /\ holder[p] = None
  /\ holder' = [holder EXCEPT ![p] = thread]
  /\ Reach(p, "load")

Release(p) == holder' = [holder EXCEPT ![p] = None] /\ Reach(p, "free")

(* The path loses its file; whoever has it open goes on writing to the old one.*)
Unlinked ==
  /\ file' = "absent" /\ stored' = NoRecords
  /\ pen' = [p \in Server |-> IF pen[p] = "path" THEN "gone" ELSE pen[p]]

(* SentLog(path) at start; check and record; the cleanup timer.                *)
Start(p) ==
  /\ tool[p] = "down"
  /\ Acquire(p, "tool") /\ Become(p, "start")
  /\ alone' = (alone /\ \A q \in Server : tool[q] = "down")
  /\ UNCHANGED <<logVars, call, historyVars>>

SendEmail(p, s) ==
  /\ tool[p] = "idle"
  /\ call' = [call EXCEPT ![p] = s]
  /\ Become(p, "check")
  /\ UNCHANGED <<logVars, holder, crit, historyVars>>

Lock(p) ==
  /\ \/ tool[p] \in {"check", "record"} /\ Acquire(p, "tool")
     \/ tool[p] \notin {"down", "start"} /\ Acquire(p, "timer")
  /\ UNCHANGED <<logVars, tool, call, historyVars>>

(* _load: a file that does not parse, and one that cannot be read, good as it  *)
(* may be, is moved out of the way, by name.  With a good log what the agent   *)
(* relied on is out of reach.                                                  *)
Load(p) ==
  /\ crit[p] = "load"
  /\ \/ /\ file \notin Torn
        /\ Reach(p, "loaded") /\ copy' = [copy EXCEPT ![p] = stored]
        /\ UNCHANGED answered
     \/ /\ file # "absent"
        /\ Reach(p, "torn") /\ UNCHANGED copy
        /\ answered' = IF file = "log" THEN {} ELSE answered
  /\ UNCHANGED <<file, stored, pen, holder, tool, call, delivered, erased>>

MoveCorrupt(p) ==
  /\ crit[p] = "torn"
  /\ Unlinked \/ UNCHANGED <<file, stored, pen>>                     \* or the rename fails
  /\ copy' = [copy EXCEPT ![p] = NoRecords]
  /\ Reach(p, "loaded")
  /\ UNCHANGED <<holder, tool, call, historyVars>>

Started(p) ==
  /\ tool[p] = "start" /\ crit[p] = "loaded"
  /\ Release(p) /\ Become(p, "idle")
  /\ UNCHANGED <<logVars, call, historyVars>>

(* Mutant of Hit: the request_id alone is compared.                            *)
HitById(p) == copy[p][call[p].request] # None

Hit(p) ==
  /\ copy[p][call[p].request] # None
  /\ copy[p][call[p].request].mail = call[p].mail

InCheck(p) == holder[p] = "tool" /\ tool[p] = "check" /\ crit[p] = "loaded"

AlreadySent(p) ==
  /\ InCheck(p) /\ Hit(p)
  /\ Release(p) /\ Become(p, "idle")
  /\ call' = [call EXCEPT ![p] = None]
  /\ UNCHANGED <<logVars, historyVars>>

NotSentYet(p) ==
  /\ InCheck(p) /\ ~Hit(p)
  /\ Release(p) /\ Become(p, "send")
  /\ UNCHANGED <<logVars, call, historyVars>>

(* Gmail sends the message, or refuses it; its answer may be lost.             *)
Deliver(p) ==
  /\ tool[p] = "send"
  /\ delivered' = delivered \cup {call[p]}
  /\ \/ Become(p, "record") /\ UNCHANGED call
     \/ Become(p, "idle") /\ call' = [call EXCEPT ![p] = None]
  /\ UNCHANGED <<logVars, holder, crit, answered, erased>>

Refused(p) ==
  /\ tool[p] = "send"
  /\ Become(p, "idle") /\ call' = [call EXCEPT ![p] = None]
  /\ UNCHANGED <<logVars, holder, crit, historyVars>>

(* _save, opening the file.                                                    *)
Truncate(p, records) ==
  /\ crit[p] = "loaded"
  /\ file' = "empty" /\ stored' = NoRecords
  /\ pen' = [pen EXCEPT ![p] = "path"]
  /\ copy' = [copy EXCEPT ![p] = records]
  /\ Reach(p, "open")
  /\ UNCHANGED <<holder, tool, call, delivered, erased>>

(* Mutant of Record: the entry is written without its timestamp.               *)
RecordUndated(p) ==
  /\ holder[p] = "tool" /\ tool[p] = "record"
  /\ Truncate(p, [copy[p] EXCEPT ![call[p].request] =
                    [mail |-> call[p].mail, old |-> None]])
  /\ UNCHANGED answered

Record(p) ==
  /\ holder[p] = "tool" /\ tool[p] = "record"
  /\ Truncate(p, [copy[p] EXCEPT ![call[p].request] =
                    [mail |-> call[p].mail, old |-> FALSE]])
  /\ UNCHANGED answered

Expired(p) == {r \in Request : copy[p][r] # None /\ copy[p][r].old}

(* Mutant of DropExpired: the cutoff is compared the wrong way round, so that  *)
(* what is recent is dropped.                                                  *)
DropExpiredInverted(p) ==
  /\ holder[p] = "timer"
  /\ Truncate(p, [r \in Request |-> IF r \in Expired(p) THEN copy[p][r] ELSE None])
  /\ answered' = {s \in answered : s.request \notin Expired(p)}

DropExpired(p) ==
  /\ holder[p] = "timer" /\ Expired(p) # {}
  /\ Truncate(p, [r \in Request |-> IF r \in Expired(p) THEN None ELSE copy[p][r]])
  /\ answered' = {s \in answered : s.request \notin Expired(p)}

NothingExpired(p) ==
  /\ holder[p] = "timer" /\ crit[p] = "loaded" /\ Expired(p) = {}
  /\ Release(p)
  /\ UNCHANGED <<logVars, tool, call, historyVars>>

(* _save, the write; a record is then reported to the agent as sent.           *)
Saved(p) ==
  /\ crit[p] = "open"
  /\ \/ pen[p] = "gone" /\ UNCHANGED <<file, stored>>
     \/ pen[p] = "path" /\ file' = "log" /\ stored' = copy[p]
     \/ /\ pen[p] = "path" /\ file # "empty"                 \* written since opened
        /\ file' = "garbled" /\ stored' = NoRecords
  /\ pen' = [pen EXCEPT ![p] = "none"]
  /\ Release(p)
  /\ IF holder[p] = "tool"
       THEN /\ Become(p, "idle") /\ call' = [call EXCEPT ![p] = None]
            /\ answered' = {s \in answered : s.request # call[p].request} \cup {call[p]}
            /\ erased' = erased \ {call[p].request}
       ELSE UNCHANGED <<tool, call, answered, erased>>
  /\ UNCHANGED <<copy, delivered>>

(* The log the agent relies on is gone when a save ends without its write.     *)
Cut(p) == answered' = IF pen[p] = "path" THEN {} ELSE answered

SaveFails(p) ==
  /\ crit[p] = "open"
  /\ pen' = [pen EXCEPT ![p] = "none"]
  /\ Release(p) /\ Cut(p)
  /\ IF holder[p] = "tool" THEN Become(p, "idle") /\ call' = [call EXCEPT ![p] = None]
                           ELSE UNCHANGED <<tool, call>>
  /\ UNCHANGED <<file, stored, copy, delivered, erased>>

(* Mutant of Forget: what is in memory is forgotten, the file is not.          *)
ForgetInMemory(p) ==
  /\ tool[p] = "idle" /\ holder[p] = None
  /\ copy' = [copy EXCEPT ![p] = NoRecords]
  /\ answered' = {}
  /\ erased' = erased \cup {r \in Request : stored[r] # None}
  /\ UNCHANGED <<file, stored, pen, threadVars, delivered>>

(* forget, called by the erasers.                                              *)
Forget(p) ==
  /\ tool[p] = "idle" /\ holder[p] = None
  /\ Unlinked
  /\ copy' = [copy EXCEPT ![p] = NoRecords]
  /\ answered' = {}
  /\ erased' = erased \cup {r \in Request : stored[r] # None}
  /\ UNCHANGED <<threadVars, delivered>>

Crash(p) ==
  /\ tool[p] # "down"
  /\ Become(p, "down") /\ Release(p) /\ Cut(p)
  /\ pen' = [pen EXCEPT ![p] = "none"]
  /\ copy' = [copy EXCEPT ![p] = NoRecords]
  /\ call' = [call EXCEPT ![p] = None]
  /\ UNCHANGED <<file, stored, delivered, erased>>

(* RETENTION_DAYS pass over an entry, wherever it is.                          *)
Aged(records, r) ==
  IF records[r] = None THEN records ELSE [records EXCEPT ![r].old = TRUE]

Age(r) ==
  /\ stored' = Aged(stored, r)
  /\ copy' = [p \in Server |-> Aged(copy[p], r)]
  /\ UNCHANGED <<file, pen, threadVars, historyVars>>

Next ==
  \/ \E p \in Server : Start(p)
  \/ /\ UNCHANGED alone
     /\ \/ \E p \in Server :
             \/ Started(p) \/ Lock(p) \/ Load(p) \/ MoveCorrupt(p)
             \/ AlreadySent(p) \/ NotSentYet(p) \/ Deliver(p) \/ Refused(p)
             \/ Record(p) \/ DropExpired(p) \/ NothingExpired(p) \/ Saved(p) \/ SaveFails(p)
             \/ Forget(p) \/ Crash(p)
             \/ \E s \in Send : SendEmail(p, s)
        \/ \E r \in Request : Age(r)

Spec == Init /\ [][Next]_vars

--------------------------------------------------------------------------------
(* An agent told "already sent" is told the truth: exactly this message went   *)
(* out under this request_id, whatever the file went through since.            *)
AlreadySentIsTrue ==
  \A p \in Server : InCheck(p) /\ Hit(p) => call[p] \in delivered

(* request_id guards against duplicate sends: a message the agent was told is  *)
(* sent is not sent again by a retry, unless its entry expired, was erased,    *)
(* gave way to another message under its request_id, a save was cut short, or  *)
(* the log could not be read since: _load takes that for corruption.           *)
NoSecondSend ==
  \A p \in Server : tool[p] = "send" => call[p] \notin answered

(* History that was erased is not written back: neither a send nor a cleanup   *)
(* puts an entry of before the erase into the file again.                      *)
ErasedStaysErased == \A r \in erased : stored[r] = None

(* Both hold of the tool, the timer and the erasers of servers that run one    *)
(* after another, whatever crashes left behind; the lock of their threads is   *)
(* enough for that.  Of two servers at once neither does.                      *)
NoSecondSendAlone == alone => NoSecondSend

(* The same of the erasers: a server that is alone never writes back what it   *)
(* remembers of before an erase.                                               *)
ErasedStaysErasedAlone == alone => ErasedStaysErased
================================================================================
