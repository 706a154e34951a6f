-------------------------------- MODULE AuthFlow -------------------------------
(* server/auth_flow.py over the token store, casa's spool and Google: server   *)
(* processes that recover at startup and run collect passes, both under the    *)
(* collect lock, and may crash at any step.  A step writes at most one file of *)
(* the store, changes the spool at most once or asks Google once, so a crash   *)
(* or a change in the environment can fall between any two effects.            *)
EXTENDS TokenStore, CasaSpool, GmailAuth

VARIABLES
  lock,     \* holder of collect.lock (flock: a dead holder releases it), or None
  pc,       \* where each process is
  frame,    \* the locals of its startup_recover or collect_pass
  serving,  \* the token its Gmail tools use (_client), or None
  subject,  \* the GMAIL_USER_EMAIL it read, or None
  quiet,    \* history: notices whose flow a startup has acked
  offers    \* history: completed passes that returned a notice, saturating

processVars == <<lock, pc, frame, serving, subject>>
historyVars == <<quiet, offers>>
vars == <<storeVars, spoolVars, google, processVars, historyVars>>

Label == {"down", "idle", "load_active", "reconcile", "promote", "unstage",
          "activate", "notice", "ack", "attempts", "loop", "recommit",
          "exchange", "stage", "finish"}

(* task says who called reconcile_stage: startup_recover, step 0 of a pass, or *)
(* the pass after it staged an attempt.  disp is why cur is about to be acked. *)
Disposition == {"none", "terminal", "wrong_account", "connected", "superseded",
                "done", "lost", "refused", "committed"}
Generation == [generation: Nat, flow: Flow]
Frame == [task: {"none", "startup", "step0", "attempt"},
          cur: Flow \cup {None},
          disp: Disposition,
          todo: SUBSET AttemptRecord,
          committed: Generation \cup {None},
          peeked: SUBSET Key]

ASSUME NoGenerationAssumption == None \notin Generation

EmptyFrame == [task |-> "none", cur |-> None, disp |-> "none", todo |-> {},
               committed |-> None, peeked |-> {}]

ProcessTypeOK ==
  /\ lock \in Proc \cup {None}
  /\ pc \in [Proc -> Label]
  /\ frame \in [Proc -> Frame]
  /\ serving \in [Proc -> Token \cup {None}]
  /\ subject \in [Proc -> Subject \cup {None}]

HistoryTypeOK ==
  /\ quiet \subseteq Key
  /\ offers \in [Key -> 0 .. NoticeLimit + 1]

(* Every variable stays in its type.                                           *)
TypeOK == StoreTypeOK /\ SpoolTypeOK /\ GoogleTypeOK /\ ProcessTypeOK /\ HistoryTypeOK

Init ==
  /\ StoreInit /\ SpoolInit /\ GoogleInit
  /\ lock = None
  /\ pc = [p \in Proc |-> "down"]
  /\ frame = [p \in Proc |-> EmptyFrame]
  /\ serving = [p \in Proc |-> None]
  /\ subject = [p \in Proc |-> None]
  /\ quiet = {}
  /\ offers = [k \in Key |-> 0]

--------------------------------------------------------------------------------
Goto(p, l) == pc' = [pc EXCEPT ![p] = l]

(* Mutant of AcquireLock: the result of the non-blocking flock is ignored.     *)
AcquireLockUnchecked(p) == lock' = p

AcquireLock(p) == lock = None /\ lock' = p

(* Mutant of Return: the lock is released on no path.                          *)
ReturnHolding(p) ==
  /\ Goto(p, "idle")
  /\ frame' = [frame EXCEPT ![p] = EmptyFrame]
  /\ UNCHANGED lock

(* The with block of collect_lock is left, whether by return or by exception.  *)
Return(p) ==
  /\ Goto(p, "idle")
  /\ frame' = [frame EXCEPT ![p] = EmptyFrame]
  /\ lock' = None

(* activate(): the tools use the new credential unless the rebuild raises.     *)
Activated(p, cred) == serving' = [serving EXCEPT ![p] = cred.token]

(* The account getProfile names: the one that consented.                       *)
TokenAccount(t) == IF t = Legacy THEN LegacyAccount ELSE answer[t]

CommittedGeneration(cred) ==
  IF cred = None THEN None
  ELSE IF cred.flow = None \/ cred.generation = None THEN None
  ELSE [generation |-> cred.generation, flow |-> cred.flow]

IsActive(f) == active # None /\ active.flow = f

(* Mutant of Resolved: a retained stage does not end the loop over attempts.   *)
ResolvedFallThrough(p, outcome) ==
  \/ frame[p].task = "startup" /\ Return(p)
  \/ /\ frame[p].task # "startup"
     /\ frame' = [frame EXCEPT ![p].cur = None, ![p].disp = "none"]
     /\ Goto(p, CASE frame[p].task = "attempt" -> "loop"
                  [] outcome = "retain" -> "finish"
                  [] OTHER -> "attempts")
     /\ UNCHANGED lock

(* Mutant of Resolved: the commit the attempts are compared with is not read   *)
(* again after a promotion.                                                    *)
ResolvedStale(p, outcome) ==
  \/ frame[p].task = "startup" /\ Return(p)
  \/ /\ frame[p].task # "startup"
     /\ frame' = [frame EXCEPT ![p].cur = None, ![p].disp = "none"]
     /\ Goto(p, CASE outcome = "retain" -> "finish"
                  [] frame[p].task = "attempt" -> "loop"
                  [] OTHER -> "attempts")
     /\ UNCHANGED lock

(* reconcile_stage returns and its caller routes the outcome.                  *)
Resolved(p, outcome) ==
  \/ /\ frame[p].task = "startup"
     /\ Return(p)
  \/ /\ frame[p].task # "startup" /\ outcome = "retain"
     /\ frame' = [frame EXCEPT ![p].cur = None, ![p].disp = "none"]
     /\ Goto(p, "finish")
     /\ UNCHANGED lock
  \/ /\ frame[p].task = "step0" /\ outcome # "retain"
     /\ frame' = [frame EXCEPT ![p].cur = None, ![p].disp = "none"]
     /\ Goto(p, "attempts")
     /\ UNCHANGED lock
  \/ /\ frame[p].task = "attempt" /\ outcome # "retain"
     /\ frame' = [frame EXCEPT ![p].cur = None, ![p].disp = "none",
                    ![p].committed = IF outcome = "promoted"
                                       THEN CommittedGeneration(active) ELSE @]
     /\ Goto(p, "loop")
     /\ UNCHANGED lock

(* The flow in hand is on its way to cb.ack, which startup_recover (notify)    *)
(* precedes with a durable notice when it comes from reconcile_stage.          *)
ToAck(p, f, d) ==
  /\ frame' = [frame EXCEPT ![p].cur = f, ![p].disp = d]
  /\ Goto(p, "ack")

(* Mutant of Settle: a startup acks with nothing on disk to tell the user.     *)
SettleSilently(p, f, d) == ToAck(p, f, d)

Settle(p, f, d) ==
  /\ frame' = [frame EXCEPT ![p].cur = f, ![p].disp = d]
  /\ Goto(p, IF frame[p].task = "startup" THEN "notice" ELSE "ack")

--------------------------------------------------------------------------------
(* startup_recover: read the environment, then load_active under the lock.     *)
Spawn(p, s) ==
  /\ pc[p] = "down"
  /\ subject' = [subject EXCEPT ![p] = s]
  /\ \/ /\ AcquireLock(p)
        /\ frame' = [frame EXCEPT ![p].task = "startup"]
        /\ Goto(p, "load_active")
     \/ /\ lock # None                                       \* busy
        /\ Goto(p, "idle")
        /\ UNCHANGED <<lock, frame>>
  /\ UNCHANGED <<storeVars, spoolVars, google, serving, historyVars>>

ToReconcile(p) ==
  /\ Goto(p, "reconcile")
  /\ UNCHANGED <<spoolVars, google, lock, frame, subject, historyVars>>

(* No credential, one for another inbox, or no verdict on it: it is kept and   *)
(* the process starts unauthenticated.                                         *)
LoadNothing(p) ==
  /\ pc[p] = "load_active"
  /\ \/ active = None
     \/ active # None /\ active.account \notin {None, subject[p]}
     \/ /\ active # None /\ active.account = None
        /\ TokenAccount(active.token) # subject[p]
        /\ "verified" \in VerifyVerdicts(active.token)
     \/ /\ active # None /\ active.account \in {None, subject[p]}
        /\ VerifyVerdicts(active.token) \ {"terminal", "verified"} # {}
  /\ ToReconcile(p)
  /\ UNCHANGED <<storeVars, serving>>

DeadOnDisk(p) ==
  /\ active # None /\ active.account \in {None, subject[p]}
  /\ "terminal" \in VerifyVerdicts(active.token)

LoadDead(p) ==
  /\ pc[p] = "load_active"
  /\ DeadOnDisk(p)
  /\ RemoveActive
  /\ ToReconcile(p)
  /\ UNCHANGED serving

(* A v1 file is verified once and migrated in place before it is activated.    *)
LoadAlive(p) ==
  /\ pc[p] = "load_active"
  /\ active # None
  /\ \/ active.account = subject[p] /\ UNCHANGED storeVars
     \/ /\ active.account = None /\ TokenAccount(active.token) = subject[p]
        /\ WriteActive([active EXCEPT !.flow = None, !.generation = None,
                                      !.account = subject[p]])
  /\ "verified" \in VerifyVerdicts(active.token)
  /\ Activated(p, active) \/ UNCHANGED serving
  /\ ToReconcile(p)

--------------------------------------------------------------------------------
(* reconcile_stage, the step that looks at the slot and asks Google.           *)
NothingStaged(p) ==
  /\ pc[p] = "reconcile"
  /\ staged = None
  /\ Resolved(p, "none")
  /\ UNCHANGED <<storeVars, spoolVars, google, serving, subject, historyVars>>

DiscardResidue(p) ==
  /\ pc[p] = "reconcile"
  /\ staged # None /\ IsActive(staged.flow)
  /\ DiscardStaged
  /\ Resolved(p, "none")
  /\ UNCHANGED <<spoolVars, google, serving, subject, historyVars>>

VerifyStaged(p, verdict) ==
  /\ pc[p] = "reconcile"
  /\ staged # None
  /\ ~IsActive(staged.flow)
  /\ verdict \in VerifyVerdicts(staged.token)
  /\ UNCHANGED <<storeVars, spoolVars, google, serving, subject, historyVars>>

StageRetained(p) ==
  /\ \E v \in {"retryable", "config", "unverified"} : VerifyStaged(p, v)
  /\ Resolved(p, "retain")

StageDead(p) ==
  /\ VerifyStaged(p, "terminal")
  /\ Settle(p, staged.flow, "terminal")
  /\ UNCHANGED lock

StageWrongAccount(p) ==
  /\ VerifyStaged(p, "verified")
  /\ TokenAccount(staged.token) # subject[p]
  /\ Settle(p, staged.flow, "wrong_account")
  /\ UNCHANGED lock

(* Mutant of StageVerified: the verified address is not compared.              *)
StageVerifiedAnyAccount(p) ==
  /\ VerifyStaged(p, "verified")
  /\ frame' = [frame EXCEPT ![p].cur = staged.flow, ![p].disp = "connected"]
  /\ Goto(p, "promote")
  /\ UNCHANGED lock

StageVerified(p) ==
  /\ VerifyStaged(p, "verified")
  /\ TokenAccount(staged.token) = subject[p]
  /\ frame' = [frame EXCEPT ![p].cur = staged.flow, ![p].disp = "connected"]
  /\ Goto(p, "promote")
  /\ UNCHANGED lock

(* promote: commit the slot if it is still the flow that was verified, unlink  *)
(* it, and put the committed credential into service.                          *)
Promote(p) ==
  /\ pc[p] = "promote"
  /\ \/ /\ StillStages(frame[p].cur)
        /\ WriteActive(Promoted(subject[p]))
        /\ Goto(p, "unstage")
        /\ UNCHANGED <<lock, frame>>
     \/ /\ ~StillStages(frame[p].cur)                        \* StagedFlowMismatch
        /\ UNCHANGED storeVars
        /\ Resolved(p, "retain")
  /\ UNCHANGED <<spoolVars, google, serving, subject, historyVars>>

(* Mutant of Unstage: a settled stage is acked and left in the slot.           *)
UnstageConnectedOnly(p) ==
  /\ pc[p] = "unstage"
  /\ IF frame[p].disp = "connected"
       THEN DiscardStaged /\ Goto(p, "activate") /\ UNCHANGED <<lock, frame>>
       ELSE UNCHANGED storeVars /\ Resolved(p, "settled")
  /\ UNCHANGED <<spoolVars, google, serving, subject, historyVars>>

(* discard_staged: within promote, and after the ack of a settled stage.       *)
Unstage(p) ==
  /\ pc[p] = "unstage"
  /\ DiscardStaged
  /\ IF frame[p].disp = "connected"
       THEN Goto(p, "activate") /\ UNCHANGED <<lock, frame>>
       ELSE Resolved(p, "settled")
  /\ UNCHANGED <<spoolVars, google, serving, subject, historyVars>>

(* Mutant of Activate: a runtime that could not be rebuilt is acked as well.   *)
ActivateRegardless(p) ==
  /\ pc[p] = "activate"
  /\ Activated(p, active) \/ UNCHANGED serving
  /\ Settle(p, frame[p].cur, "connected")
  /\ UNCHANGED <<storeVars, spoolVars, google, lock, subject, historyVars>>

Activate(p) ==
  /\ pc[p] = "activate"
  /\ \/ Activated(p, active) /\ Settle(p, frame[p].cur, "connected") /\ UNCHANGED lock
     \/ UNCHANGED serving /\ Resolved(p, "retain")
  /\ UNCHANGED <<storeVars, spoolVars, google, subject, historyVars>>

NoticeKey(p) == [flow |-> frame[p].cur, disposition |-> frame[p].disp]

QueueOutcome(p) ==
  /\ pc[p] = "notice"
  /\ QueueNotice(NoticeKey(p))
  /\ Goto(p, "ack")
  /\ UNCHANGED <<spoolVars, google, lock, frame, serving, subject, historyVars>>

(* cb.ack, and where its caller goes on.                                       *)
AckFlow(p) ==
  /\ pc[p] = "ack"
  /\ Ack(frame[p].cur)
  /\ CASE frame[p].disp \in {"terminal", "wrong_account"} ->
            Goto(p, "unstage") /\ UNCHANGED <<lock, frame>>
       [] frame[p].disp = "connected" -> Resolved(p, "promoted")
       [] OTHER ->
            /\ frame' = [frame EXCEPT ![p].cur = None, ![p].disp = "none"]
            /\ Goto(p, "loop")
            /\ UNCHANGED lock
  /\ quiet' = IF frame[p].task = "startup" THEN quiet \cup {NoticeKey(p)} ELSE quiet
  /\ UNCHANGED <<storeVars, google, serving, subject, offers>>

--------------------------------------------------------------------------------
(* collect_pass: peek the notices, resolve the slot, then newest first.        *)
CollectPass(p) ==
  /\ pc[p] = "idle"
  /\ AcquireLock(p)
  /\ frame' = [frame EXCEPT ![p].task = "step0", ![p].peeked = PeekNotices]
  /\ Goto(p, "reconcile")
  /\ UNCHANGED <<storeVars, spoolVars, google, serving, subject, historyVars>>

(* attempts(): a record that cannot be read is passed over, a directory that   *)
(* cannot be listed is empty, and what was passed over waits for another pass. *)
ListAttempts(p) ==
  /\ pc[p] = "attempts"
  /\ \E listed \in SUBSET Attempts :
       frame' = [frame EXCEPT ![p].task = "attempt",
                              ![p].committed = CommittedGeneration(active),
                              ![p].todo = listed]
  /\ Goto(p, "loop")
  /\ UNCHANGED <<storeVars, spoolVars, google, lock, serving, subject, historyVars>>

(* One iteration takes rec from the list and leaves for l with disposition d.  *)
Take(p, rec, l, d) ==
  /\ pc[p] = "loop"
  /\ rec \in Newest(frame[p].todo)
  /\ frame' = [frame EXCEPT ![p].todo = @ \ {rec}, ![p].cur = rec.flow, ![p].disp = d]
  /\ Goto(p, l)
  /\ UNCHANGED <<storeVars, google, lock, serving, subject, historyVars>>

(* Mutant of Superseded: only the clocks are compared, a tie supersedes nothing.*)
SupersededByClock(p, f) ==
  frame[p].committed # None /\ Stamp(f) < frame[p].committed.generation

Superseded(p, f) ==
  frame[p].committed # None /\ Precedes(AttemptOrder(f), frame[p].committed)

DropSuperseded(p, rec) ==
  /\ Superseded(p, rec.flow)
  /\ Take(p, rec, "ack", "superseded")
  /\ UNCHANGED spoolVars

SkipAwaiting(p, rec) ==
  /\ ~Superseded(p, rec.flow) /\ rec.status = "awaiting_redirect"
  /\ Take(p, rec, "loop", "none")
  /\ UNCHANGED spoolVars

DropDone(p, rec) ==
  /\ ~Superseded(p, rec.flow) /\ rec.status = "done"
  /\ Take(p, rec, "ack", "done")
  /\ UNCHANGED spoolVars

Ready(p, rec) == ~Superseded(p, rec.flow) /\ rec.status = "result_ready"

(* parse_callback_query: one usable code goes on to the exchange, an error or  *)
(* a malformed query is acked.                                                 *)
TakeResult(p, rec) ==
  IF answer[rec.flow] \in Account THEN Take(p, rec, "exchange", "none")
                                  ELSE Take(p, rec, "ack", "refused")

(* _obtain_result: record, retry, committed, held record, unrecoverable.       *)
CollectResult(p, rec) ==
  /\ Ready(p, rec)
  /\ Collect(rec.flow)
  /\ TakeResult(p, rec)

RetryLater(p, rec) ==
  /\ Ready(p, rec) /\ result[rec.flow] # "file" /\ ~rec.claimed
  /\ Take(p, rec, "loop", "none")
  /\ UNCHANGED spoolVars

ClaimedBefore(p, rec) == Ready(p, rec) /\ result[rec.flow] # "file" /\ rec.claimed

AlreadyCommitted(p, rec) ==
  /\ ClaimedBefore(p, rec) /\ IsActive(rec.flow)
  /\ Take(p, rec, "recommit", "committed")
  /\ UNCHANGED spoolVars

(* Mutant of ResumeHeld: the store is not asked whether the flow is committed. *)
ResumeHeldUnchecked(p, rec) ==
  /\ ClaimedBefore(p, rec) /\ Held(rec.flow)
  /\ TakeResult(p, rec)
  /\ UNCHANGED spoolVars

ResumeHeld(p, rec) ==
  /\ ClaimedBefore(p, rec) /\ ~IsActive(rec.flow) /\ Held(rec.flow)
  /\ TakeResult(p, rec)
  /\ UNCHANGED spoolVars

(* Mutant of GiveUpHeld: an unreadable journal is left for the next pass.      *)
GiveUpHeldLater(p, rec) ==
  /\ ClaimedBefore(p, rec) /\ ~IsActive(rec.flow)
  /\ Take(p, rec, "loop", "none")
  /\ UNCHANGED spoolVars

(* The journal is gone, or it cannot be read (an OSError, a cut file).         *)
GiveUpHeld(p, rec) ==
  /\ ClaimedBefore(p, rec) /\ ~IsActive(rec.flow)
  /\ Take(p, rec, "ack", "lost")
  /\ UNCHANGED spoolVars

Iterate(p) ==
  \E rec \in frame[p].todo :
    \/ DropSuperseded(p, rec) \/ SkipAwaiting(p, rec) \/ DropDone(p, rec)
    \/ CollectResult(p, rec) \/ RetryLater(p, rec)
    \/ AlreadyCommitted(p, rec) \/ ResumeHeld(p, rec) \/ GiveUpHeld(p, rec)

EndLoop(p) ==
  /\ pc[p] = "loop" /\ frame[p].todo = {}
  /\ Goto(p, "finish")
  /\ UNCHANGED <<storeVars, spoolVars, google, lock, frame, serving, subject, historyVars>>

(* The committed path activates and acks, or ends the pass.                    *)
Recommit(p) ==
  /\ pc[p] = "recommit"
  /\ \/ Activated(p, active) /\ Goto(p, "ack")
     \/ UNCHANGED serving /\ Goto(p, "finish")
  /\ UNCHANGED <<storeVars, spoolVars, google, lock, frame, subject, historyVars>>

(* exchange_code: only a granted answer reaches the stage; a dead grant is     *)
(* acked, anything else ends the pass with the attempt left alone.  A read that*)
(* breaks off mid-body raises past every handler instead of URLError.          *)
Exchange(p, reply) ==
  /\ pc[p] = "exchange"
  /\ reply \in ExchangeReplies(frame[p].cur)
  /\ google' = GoogleAfter(frame[p].cur, reply)
  /\ \/ /\ ExchangeVerdict(reply) = "ok"
        /\ Goto(p, "stage")
        /\ UNCHANGED <<lock, frame>>
     \/ /\ ExchangeVerdict(reply) = "terminal"
        /\ ToAck(p, frame[p].cur, "refused")
        /\ UNCHANGED lock
     \/ /\ ExchangeVerdict(reply) \in {"retryable", "config"}
        /\ Goto(p, "finish")
        /\ UNCHANGED <<lock, frame>>
     \/ reply \in {"lost", "transport"} /\ Return(p)
  /\ UNCHANGED <<storeVars, spoolVars, serving, subject, historyVars>>

StageToken(p) ==
  /\ pc[p] = "stage"
  /\ Stage(frame[p].cur, frame[p].cur, MintTs[frame[p].cur])
  /\ Goto(p, "reconcile")
  /\ UNCHANGED <<spoolVars, google, lock, frame, serving, subject, historyVars>>

(* record_notices_offered, then the pass returns what it peeked.               *)
FinishPass(p) ==
  /\ pc[p] = "finish"
  /\ RecordNoticesOffered
  /\ offers' = [k \in Key |-> IF k \in frame[p].peeked /\ offers[k] <= NoticeLimit
                                THEN offers[k] + 1 ELSE offers[k]]
  /\ Return(p)
  /\ UNCHANGED <<spoolVars, google, serving, subject, quiet>>

(* An exception that leaves the with block: the callback route closes under    *)
(* cb.ack, cb.collect, cb.held, cb.attempts or cb.resolve, or a file operation *)
(* fails.  A file operation that raises has not changed its file.              *)
CanRaise(p) ==
  \/ pc[p] \in {"promote", "unstage", "ack", "attempts", "exchange", "stage"}
  \/ pc[p] = "load_active" /\ DeadOnDisk(p)
  \/ pc[p] = "reconcile" /\ staged # None /\ IsActive(staged.flow)
  \/ pc[p] = "notice" /\ ~Queued(NoticeKey(p))
  \/ pc[p] = "loop" /\ \E rec \in Newest(frame[p].todo) : Ready(p, rec)
  \/ pc[p] = "finish" /\ notices # {}

Raise(p) ==
  /\ CanRaise(p)
  /\ Return(p)
  /\ UNCHANGED <<storeVars, spoolVars, google, serving, subject, historyVars>>

Crash(p) ==
  /\ pc[p] # "down"
  /\ Goto(p, "down")
  /\ frame' = [frame EXCEPT ![p] = EmptyFrame]
  /\ lock' = IF lock = p THEN None ELSE lock
  /\ serving' = [serving EXCEPT ![p] = None]
  /\ subject' = [subject EXCEPT ![p] = None]
  /\ UNCHANGED <<storeVars, spoolVars, google, historyVars>>

(* start(): mint a state and hand out its link.                                *)
Start(p, f) ==
  /\ pc[p] = "idle"
  /\ Mint(f)
  /\ UNCHANGED <<storeVars, google, processVars, historyVars>>

--------------------------------------------------------------------------------
Recover(p) ==
  \/ \E s \in Subject : Spawn(p, s)
  \/ LoadNothing(p) \/ LoadDead(p) \/ LoadAlive(p)

Reconcile(p) ==
  \/ NothingStaged(p) \/ DiscardResidue(p) \/ StageRetained(p) \/ StageDead(p)
  \/ StageWrongAccount(p) \/ StageVerified(p) \/ Promote(p) \/ Unstage(p)
  \/ Activate(p) \/ QueueOutcome(p) \/ AckFlow(p)

Pass(p) ==
  \/ CollectPass(p) \/ ListAttempts(p) \/ Iterate(p) \/ EndLoop(p) \/ Recommit(p)
  \/ frame[p].cur # None /\ \E r \in ExchangeReplies(frame[p].cur) : Exchange(p, r)
  \/ StageToken(p) \/ FinishPass(p)

CasaAlone == UNCHANGED <<storeVars, google, processVars, historyVars>>

Casa ==
  /\ \E f \in Flow : Materialize(f) \/ Land(f) \/ NoteClaim(f) \/ Retire(f)
  /\ CasaAlone

User ==
  /\ \E f \in Flow :
       \/ \E a \in Account : Redirect(f, a) /\ Consent(f)
       \/ Redirect(f, "no_code") /\ UNCHANGED google
  /\ UNCHANGED <<storeVars, processVars, historyVars>>

Google ==
  /\ \E t \in Token : Invalidate(t)
  /\ UNCHANGED <<storeVars, spoolVars, processVars, historyVars>>

Server(p) ==
  \/ Recover(p) \/ Reconcile(p) \/ Pass(p) \/ Raise(p) \/ Crash(p)
  \/ \E f \in Flow : Start(p, f)

Next == (\E p \in Proc : Server(p)) \/ Casa \/ User \/ Google

Spec == Init /\ [][Next]_vars

(* Fairness.  Sessions keep starting and casa keeps nudging, so every process  *)
(* goes on taking the steps open to it.  Crashes, exceptions, unavailable      *)
(* answers and unreadable records come as often as they like and at any step,  *)
(* but not for ever: after the last of them each step is one of these.         *)
Succeeds(p) ==
  \/ LoadNothing(p) \/ LoadDead(p) \/ LoadAlive(p)
  \/ NothingStaged(p) \/ DiscardResidue(p) \/ StageDead(p)
  \/ StageWrongAccount(p) \/ StageVerified(p) \/ Promote(p) \/ Unstage(p)
  \/ (Activate(p) \/ Recommit(p)) /\ pc'[p] \in {"notice", "ack"}
  \/ QueueOutcome(p) \/ AckFlow(p)
  \/ ListAttempts(p) /\ frame'[p].todo = Attempts
  \/ Iterate(p) \/ EndLoop(p)
  \/ /\ frame[p].cur # None
     /\ \E r \in ExchangeReplies(frame[p].cur) : Exchange(p, r)
     /\ pc'[p] \in {"stage", "ack"}
  \/ StageToken(p) \/ FinishPass(p)
  \/ \E s \in Subject : Spawn(p, s)
  \/ CollectPass(p)

Calm ==
  \/ \E p \in Proc : Succeeds(p) \/ \E f \in Flow : Start(p, f)
  \/ Casa \/ User \/ Google

Fairness ==
  /\ <>[][Calm]_vars
  /\ \A p \in Proc : WF_vars(Succeeds(p))
  /\ \A f \in Flow :
       /\ WF_vars(Land(f) /\ CasaAlone)
       /\ WF_vars(NoteClaim(f) /\ CasaAlone)

FairSpec == Spec /\ Fairness

--------------------------------------------------------------------------------
(* Properties.                                                                 *)

(* The single staged slot is written only when it is empty: a stage that       *)
(* startup or step 0 could not resolve is never replaced by another exchange's *)
(* token (reconcile_stage's retain ends the pass before any exchange).         *)
StageNeverOverwritten ==
  [][staged # None => staged' \in {staged, None}]_vars

(* The stage is unlinked only when its flow is already the committed one, its  *)
(* token is dead at Google, or the process that drops it serves another inbox. *)
StageDroppedOnlyWhenResolved ==
  [][staged # None /\ staged' = None =>
       \/ IsActive(staged.flow)
       \/ google[staged.token] = "dead"
       \/ lock \in Proc /\ TokenAccount(staged.token) # subject[lock]]_vars

(* An ack tears the attempt down at casa, so it must never cost the user a     *)
(* usable authorization: a code nobody exchanged is acked only when a newer    *)
(* link is committed, casa itself ended the attempt or its journal cannot be   *)
(* read; a live credential still in the slot only when it is the wrong inbox's.*)
AckDestroysNothing ==
  [][\A f \in Flow : status[f] # "acked" /\ status'[f] = "acked" =>
       /\ google[f] = "code" =>
            \/ IsActive(f) \/ frame[lock].disp \in {"done", "lost"}
            \/ /\ CommittedGeneration(active) # None
               /\ Precedes(AttemptOrder(f), CommittedGeneration(active))
       /\ staged # None /\ staged.flow = f /\ google[f] = "live" =>
            TokenAccount(f) # subject[lock]]_vars

(* A flow acked as connected is on disk as the active credential, is gone from *)
(* the slot and is what this process serves (activate comes before the ack).   *)
ConnectedIsDurableAndServing ==
  \A p \in Proc :
    pc[p] = "ack" /\ frame[p].disp \in {"connected", "committed"} =>
      /\ IsActive(frame[p].cur)
      /\ staged = None
      /\ serving[p] = active.token

(* A code whose token the store already holds is never exchanged again: Google *)
(* may answer a reused code by revoking the tokens it gave for it.             *)
StoredFlowIsNotExchanged ==
  \A p \in Proc :
    pc[p] = "exchange" => ~IsActive(frame[p].cur) /\ ~StillStages(frame[p].cur)

(* Whatever a startup resolved and acked with nobody listening is still on     *)
(* disk as a notice, or was returned by as many passes as a notice may be.     *)
QuietOutcomeIsNoticed ==
  \A k \in quiet : Queued(k) \/ offers[k] >= NoticeLimit

(* promote always finds the flow that was verified, and only the holder of the *)
(* lock is anywhere inside a recovery or a pass.                               *)
OnlyHolderInside ==
  \A p \in Proc :
    /\ pc[p] \notin {"down", "idle"} => lock = p
    /\ pc[p] = "promote" => StillStages(frame[p].cur)

(* The flow implements what Authorization promises of it: through crashes,     *)
(* retries and other servers, a newer authorization is never replaced by an    *)
(* older one, an unresolved one is never overwritten, and none is dropped that *)
(* the user could still use.  In the code the candidate is the staged slot and *)
(* the connection the active file (promote writes one before it unlinks the    *)
(* other, so for some steps both hold the same grant).                         *)
Abstract == INSTANCE Authorization WITH
  connection <- IF active = None THEN None ELSE active.token,
  candidate <- IF staged = None THEN None ELSE staged.token,
  ended <- {t \in Token : google[t] = "dead"},
  ours <- {t \in Token : lock # None /\ TokenAccount(t) = subject[lock]}

ImplementsAuthorization == Abstract!AuthorizationSpec

(* The inductive invariant behind the safety theorems: who is inside, what is  *)
(* in hand and why, when the slot is free, and how far a promotion has come.   *)
Outside == {"down", "idle"}
Settled == {"terminal", "wrong_account"}
Inside(p) == pc[p] \notin Outside
InPass == {"attempts", "loop", "recommit", "exchange", "stage", "finish"}

LockHeld(p) == Inside(p) <=> lock = p

FlowInHand(p) ==
  /\ pc[p] \in {"promote", "unstage", "activate", "notice", "ack",
                "recommit", "exchange", "stage"} => frame[p].cur \in Flow
  /\ pc[p] \in {"promote", "activate"} => frame[p].disp = "connected"
  /\ pc[p] \in {"unstage", "notice"} => frame[p].disp \in Settled \cup {"connected"}
  /\ pc[p] = "recommit" => frame[p].disp = "committed"
  /\ pc[p] = "ack" /\ frame[p].task = "startup" =>
       frame[p].disp \in Settled \cup {"connected"}
  /\ pc[p] \in InPass => frame[p].task # "startup"

SlotDiscipline(p) ==
  /\ pc[p] \in (InPass \ {"finish"}) \cup {"activate"} => staged = None
  /\ pc[p] \in {"notice", "ack"} /\ frame[p].disp \notin Settled => staged = None
  /\ pc[p] = "promote" => StillStages(frame[p].cur)

CommitDiscipline(p) ==
  /\ pc[p] \in {"activate", "recommit"} => IsActive(frame[p].cur)
  /\ pc[p] = "unstage" /\ frame[p].disp = "connected" => IsActive(frame[p].cur)
  /\ pc[p] \in {"notice", "ack"} /\ frame[p].disp \in {"connected", "committed"} =>
       IsActive(frame[p].cur) /\ serving[p] = active.token

ProcInv(p) == LockHeld(p) /\ FlowInHand(p) /\ SlotDiscipline(p) /\ CommitDiscipline(p)

IndInv == TypeOK /\ \A p \in Proc : ProcInv(p)

(* The inductive invariant about records over time.  Until the user answers,   *)
(* Google has no grant and casa no result; a code or a live token is an        *)
(* account's.                                                                  *)
Unanswered(f) == status[f] \in {"unminted", "pending", "awaiting_redirect"}

GrantInv ==
  \A f \in Flow :
    /\ Unanswered(f) => google[f] = "none" /\ result[f] = "absent"
    /\ google[f] \in {"code", "live"} => answer[f] \in Account

(* A collected result is collected once; the fields of a file belong together, *)
(* and the flow they name was collected and its code is spent.                 *)
Taken(f) == ~Unanswered(f) /\ result[f] \notin {"landing", "file"}
Spent == {"live", "dead"}

StagedInv ==
  staged # None =>
    /\ staged.token = staged.flow /\ staged.generation = Stamp(staged.flow)
    /\ Taken(staged.flow) /\ google[staged.flow] \in Spent

ActiveInv ==
  active # None =>
    /\ google[active.token] \in Spent
    /\ IF active.flow = None THEN active.token = Legacy
       ELSE /\ active.token = active.flow /\ active.generation = Stamp(active.flow)
            /\ active.account # None /\ Taken(active.flow)

NoticeInv ==
  /\ \A n \in notices : n.offered <= offers[n.key]
  /\ QuietOutcomeIsNoticed

(* Of the holder of the lock: the newest commit it compares with is the one on *)
(* disk, the notices it returns are those on disk, and why it goes on with the *)
(* flow in hand is still so.                                                   *)
PassInv(p) ==
  /\ pc[p] # "down" => subject[p] # None
  /\ Inside(p) => frame[p].task # "none"
  /\ frame[p].disp = "connected" =>
       pc[p] \in {"promote", "unstage", "activate", "notice", "ack"}
  /\ pc[p] \in {"load_active", "notice"} => frame[p].task = "startup"
  /\ pc[p] = "ack" => frame[p].disp # "none"
  /\ pc[p] \in {"loop", "recommit", "exchange", "stage"} => frame[p].task = "attempt"
  /\ pc[p] = "ack" /\ frame[p].disp \notin Settled \cup {"connected"} =>
       frame[p].task = "attempt"
  /\ Inside(p) /\ frame[p].task = "attempt" /\ frame[p].disp # "connected" /\ pc[p] # "finish" =>
       frame[p].committed = CommittedGeneration(active)
  /\ Inside(p) /\ frame[p].task \in {"step0", "attempt"} =>
       \A n \in notices : n.key \in frame[p].peeked
  /\ pc[p] = "ack" /\ frame[p].task = "startup" => Queued(NoticeKey(p))

InHand(p, f) ==
  /\ pc[p] \in {"exchange", "stage"} => ~Superseded(p, f) /\ Taken(f) /\ ~IsActive(f)
  /\ pc[p] = "stage" => google[f] \in Spent
  /\ pc[p] = "promote" => TokenAccount(f) = subject[p]
  /\ pc[p] = "unstage" => StillStages(f)
  /\ pc[p] \in {"notice", "ack"} /\ frame[p].disp \in Settled => StillStages(f)
  /\ pc[p] \in {"notice", "ack", "unstage"} =>
       /\ frame[p].disp = "terminal" => google[f] = "dead"
       /\ frame[p].disp = "wrong_account" => TokenAccount(f) # subject[p]
  /\ pc[p] = "ack" /\ frame[p].disp = "superseded" => Superseded(p, f)
  /\ pc[p] = "ack" /\ frame[p].disp = "refused" => Taken(f) /\ google[f] # "code"

InHandInv(p) == \A f \in Flow : f = frame[p].cur => InHand(p, f)

RecordInv ==
  /\ GrantInv /\ StagedInv /\ ActiveInv /\ NoticeInv
  /\ \A p \in Proc : PassInv(p) /\ InHandInv(p)

(* The inbox the Gmail tools read is the configured one.                       *)
ServingMatchesSubject ==
  \A p \in Proc : serving[p] # None => TokenAccount(serving[p]) = subject[p]

(* token_store.py's promise about the notice file: across any sequence of      *)
(* passes and restarts a notice is offered at most NOTICE_OFFER_LIMIT times.   *)
NoticeOfferedAtMostLimit == \A k \in Key : offers[k] <= NoticeLimit

(* A stage never wedges the slot: whatever left it there, some recovery or     *)
(* pass promotes it or settles it.                                             *)
StageEventuallyResolved == staged # None ~> staged = None

(* Every result the user's redirect produced is settled: no attempt stays      *)
(* collectable for ever because of a crash in the middle of an earlier pass.   *)
ResultEventuallySettled ==
  \A f \in Flow : status[f] = "result_ready" ~> status[f] \in {"acked", "done"}
================================================================================
