------------------------------- MODULE CasaSpool -------------------------------
(* The authorization-callback spool, as server/casa_callback.py uses it.  Casa *)
(* owns the protocol (its code is not in this repository); the operators that  *)
(* stand for casa's own steps are the contract the plugin's comments and tests *)
(* state: a mint publishes pending/ only, the attempt record comes later and a *)
(* moment before the result links, collect moves the result to a journal that  *)
(* outlives a crash, ack tears the whole attempt down and may be repeated.     *)
EXTENDS PluginTypes

VARIABLES
  status,   \* per flow: where casa's record of the attempt stands
  claimed,  \* per flow: does the record say that the result was collected
  result,   \* per flow: the result file
  answer    \* per flow: what the provider's redirect carried

spoolVars == <<status, claimed, result, answer>>

Recorded == {"awaiting_redirect", "result_ready", "done"}
Status == {"unminted", "pending", "acked"} \cup Recorded
ResultFile == {"absent", "landing", "file", "journal"}
Answer == Account \cup {"none", "no_code"}

AttemptRecord == [flow: Flow, status: Recorded, claimed: BOOLEAN]

SpoolTypeOK ==
  /\ status \in [Flow -> Status]
  /\ claimed \in [Flow -> BOOLEAN]
  /\ result \in [Flow -> ResultFile]
  /\ answer \in [Flow -> Answer]

SpoolInit ==
  /\ status = [f \in Flow |-> "unminted"]
  /\ claimed = [f \in Flow |-> FALSE]
  /\ result = [f \in Flow |-> "absent"]
  /\ answer = [f \in Flow |-> "none"]

--------------------------------------------------------------------------------
(* The plugin's side.                                                          *)
Mint(f) ==
  /\ status[f] = "unminted"
  /\ status' = [status EXCEPT ![f] = "pending"]
  /\ UNCHANGED <<claimed, result, answer>>

Attempts == {[flow |-> f, status |-> status[f], claimed |-> claimed[f]] :
               f \in {g \in Flow : status[g] \in Recorded}}

(* attempts() sorts newest first: the record a pass takes next.                *)
Newest(recs) ==
  {r \in recs : \A s \in recs \ {r} :
                  Precedes(AttemptOrder(s.flow), AttemptOrder(r.flow))}

Collect(f) ==
  /\ result[f] = "file"
  /\ result' = [result EXCEPT ![f] = "journal"]
  /\ UNCHANGED <<status, claimed, answer>>

Held(f) == result[f] = "journal"

Ack(f) ==
  /\ status' = [status EXCEPT ![f] = "acked"]
  /\ claimed' = [claimed EXCEPT ![f] = FALSE]
  /\ result' = [result EXCEPT ![f] = "absent"]
  /\ UNCHANGED answer

--------------------------------------------------------------------------------
(* Casa's side: the reconciliation job, the redirect, the sweep.               *)
Materialize(f) ==
  /\ status[f] = "pending"
  /\ status' = [status EXCEPT ![f] = "awaiting_redirect"]
  /\ UNCHANGED <<claimed, result, answer>>

Redirect(f, a) ==
  /\ status[f] \in {"pending", "awaiting_redirect"}
  /\ status' = [status EXCEPT ![f] = "result_ready"]
  /\ result' = [result EXCEPT ![f] = "landing"]
  /\ answer' = [answer EXCEPT ![f] = a]
  /\ UNCHANGED claimed

Land(f) ==
  /\ result[f] = "landing"
  /\ result' = [result EXCEPT ![f] = "file"]
  /\ UNCHANGED <<status, claimed, answer>>

(* The record learns of a collected result, at once or a little later.         *)
NoteClaim(f) ==
  /\ status[f] = "result_ready" /\ Held(f) /\ ~claimed[f]
  /\ claimed' = [claimed EXCEPT ![f] = TRUE]
  /\ UNCHANGED <<status, result, answer>>

(* Expiry, eviction and failed publication all end as a done record.           *)
Retire(f) ==
  /\ status[f] \in {"pending", "awaiting_redirect", "result_ready"}
  /\ status' = [status EXCEPT ![f] = "done"]
  /\ claimed' = [claimed EXCEPT ![f] = FALSE]
  /\ result' = [result EXCEPT ![f] = "absent"]
  /\ UNCHANGED answer
================================================================================
