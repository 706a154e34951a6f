------------------------------ MODULE AtomicStore -----------------------------
(* What server/token_store.py promises of its two credential slots: each holds *)
(* a whole token or nothing, changes in one step, and a step becomes durable   *)
(* when the directory is next synchronised.  A power loss leaves one of the    *)
(* states since then.  TokenStore's operators rely on the first half of this,  *)
(* casa's ack, a settlement receipt, on the second.                            *)
CONSTANTS
  Token,  \* refresh tokens
  None    \* an empty slot

Slot == {"active", "staged"}

VARIABLES
  store,     \* what the slots hold
  survivors  \* what they may hold after a power loss

storeVars == <<store, survivors>>

StoreInit ==
  /\ store = [s \in Slot |-> None]
  /\ survivors = {store}

Holds(content) ==
  /\ store' = content
  /\ survivors' = survivors \cup {content}

Put(s, t) == Holds([store EXCEPT ![s] = t])

Remove(s) == Holds([store EXCEPT ![s] = None])

Sync ==
  /\ survivors' = {store}
  /\ UNCHANGED store

PowerLost ==
  /\ store' \in survivors
  /\ survivors' = {store'}

StoreNext ==
  \/ \E s \in Slot : Remove(s) \/ \E t \in Token : Put(s, t)
  \/ Sync \/ PowerLost

StoreSpec == StoreInit /\ [][StoreNext]_storeVars
================================================================================
