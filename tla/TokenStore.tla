------------------------------ MODULE TokenStore -------------------------------
(* server/token_store.py: the plugin's data directory.  One active credential  *)
(* file, one staged slot and the file of pending notices.  Every write goes to *)
(* a temporary that replaces the file in one rename, so each operator below is *)
(* one step of the file it writes; readers never open the temporary.           *)
(* Assumed: a file that exists can be read.  _read and _load_records take one  *)
(* that cannot be read at the moment for none at all, which is left out.       *)
EXTENDS PluginTypes

VARIABLES
  active,   \* oauth_token.json: a Credential, or None when there is no usable file
  staged,   \* oauth_token.staged.json: a StagedCredential, or None
  notices   \* pending_notices.json: what a startup resolved with nobody listening

storeVars == <<active, staged, notices>>

Credential == [token: Token, flow: Flow \cup {None},
               generation: Nat \cup {None}, account: Account \cup {None}]
StagedCredential == [token: Flow, flow: Flow, generation: Nat]

(* reconcile_stage keys a notice by flow and disposition.                      *)
Key == [flow: Flow, disposition: {"terminal", "wrong_account", "connected"}]
Notice == [key: Key, offered: 0 .. NoticeLimit - 1]

ASSUME NoFileAssumption == None \notin Credential \cup StagedCredential

(* The v1 file: a refresh token and nothing else.                              *)
V1Credential ==
  [token |-> Legacy, flow |-> None, generation |-> None, account |-> None]

StoreTypeOK ==
  /\ active \in Credential \cup {None}
  /\ staged \in StagedCredential \cup {None}
  /\ notices \subseteq Notice

StoreInit ==
  /\ active = IF Upgrade THEN V1Credential ELSE None
  /\ staged = None
  /\ notices = {}

--------------------------------------------------------------------------------
(* Mutant of Stage: a null mint clock is written as it came.                   *)
StageRawClock(token, flow, mintedTs) ==
  /\ staged' = [token |-> token, flow |-> flow, generation |-> mintedTs]
  /\ UNCHANGED <<active, notices>>

Stage(token, flow, mintedTs) ==
  /\ staged' = [token |-> token, flow |-> flow,
                generation |-> IF mintedTs # None THEN mintedTs ELSE 0]
  /\ UNCHANGED <<active, notices>>

WriteActive(cred) == active' = cred /\ UNCHANGED <<staged, notices>>

RemoveActive == active' = None /\ UNCHANGED <<staged, notices>>

DiscardStaged == staged' = None /\ UNCHANGED <<active, notices>>

(* promote's refusal of a slot that no longer holds the flow it verified, and  *)
(* the credential it commits otherwise; unlinking the slot is a later step.    *)
StillStages(flow) == staged # None /\ staged.flow = flow

Promoted(account) == [token |-> staged.token, flow |-> staged.flow,
                      generation |-> staged.generation, account |-> account]

Queued(key) == \E n \in notices : n.key = key

QueueNotice(key) ==
  /\ notices' = IF Queued(key) THEN notices
                ELSE notices \cup {[key |-> key, offered |-> 0]}
  /\ UNCHANGED <<active, staged>>

PeekNotices == {n.key : n \in {m \in notices : m.offered < NoticeLimit}}

RecordNoticesOffered ==
  /\ notices' = {[n EXCEPT !.offered = @ + 1] :
                   n \in {m \in notices : m.offered + 1 < NoticeLimit}}
  /\ UNCHANGED <<active, staged>>
================================================================================
