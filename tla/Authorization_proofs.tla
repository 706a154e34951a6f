-------------------------- MODULE Authorization_proofs -------------------------
(* What the records of the store, of casa and of Google keep of an             *)
(* authorization over time, for every set of processes and links: RecordInv is *)
(* inductive on top of IndInv, and the flow implements Authorization.          *)
EXTENDS AuthFlow_proofs

(* What no step takes back: a collected result, the account that consented, a  *)
(* spent code, a dead grant.                                                   *)
Forward ==
  /\ \A f \in Flow : Taken(f) =>
       /\ Taken(f)' /\ answer'[f] = answer[f]
       /\ google[f] # "code" => google'[f] # "code"
  /\ \A t \in Token : /\ google[t] \in Spent => google'[t] \in Spent
                      /\ google[t] = "dead" => google'[t] = "dead"

LEMMA StillForward ==
  ASSUME GrantInv, UNCHANGED <<spoolVars, google>>
  PROVE  GrantInv' /\ Forward
  BY DEF GrantInv, Forward, Taken, Spent, Unanswered, spoolVars

LEMMA AckForward ==
  ASSUME SpoolTypeOK, GrantInv, NEW f \in Flow, Ack(f), UNCHANGED google
  PROVE  GrantInv' /\ Forward
  BY DEF GrantInv, Forward, Taken, Spent, Unanswered, Ack, SpoolTypeOK

LEMMA CollectForward ==
  ASSUME SpoolTypeOK, GrantInv, NEW f \in Flow, Collect(f), UNCHANGED google
  PROVE  GrantInv' /\ Forward /\ Taken(f)'
  BY DEF GrantInv, Forward, Taken, Spent, Unanswered, Collect, SpoolTypeOK

LEMMA MintForward ==
  ASSUME SpoolTypeOK, GrantInv, NEW f \in Flow, Mint(f), UNCHANGED google
  PROVE  GrantInv' /\ Forward
  BY DEF GrantInv, Forward, Taken, Spent, Unanswered, Mint, SpoolTypeOK

LEMMA ExchangeForward ==
  ASSUME GoogleTypeOK, GrantInv, NEW f \in Flow, NEW r \in ExchangeReplies(f),
         google' = GoogleAfter(f, r), UNCHANGED spoolVars
  PROVE  GrantInv' /\ Forward
<1>1. r \in {"granted", "lost", "unusable"} => google[f] = "code"
  BY DEF ExchangeReplies, Transient, ClientRefused
<1>2. \/ google' = google
      \/ /\ google[f] = "code"
         /\ google' = [google EXCEPT ![f] = "live"] \/ google' = [google EXCEPT ![f] = "dead"]
  BY <1>1 DEF GoogleAfter, GoogleTypeOK, Token
<1> QED
  BY <1>2 DEF GrantInv, Forward, Taken, Spent, Unanswered, spoolVars, GoogleTypeOK, Token

LEMMA EnvironmentForward ==
  ASSUME IndInv, GrantInv, Casa \/ User \/ Google
  PROVE  GrantInv' /\ Forward
<1> USE DEF IndInv, TypeOK, SpoolTypeOK, GoogleTypeOK, GrantInv, Forward, Taken, Spent,
            Unanswered, CasaAlone
<1>1. CASE Casa
  BY <1>1 DEF Casa, Materialize, Land, NoteClaim, Retire, Held
<1>2. CASE User
  <2>1. PICK f \in Flow :
          \/ \E a \in Account : Redirect(f, a) /\ Consent(f)
          \/ Redirect(f, "no_code") /\ UNCHANGED google
    BY <1>2 DEF User
  <2>2. google[f] = "none"
    BY <2>1 DEF Redirect
  <2> QED
    BY <2>1, <2>2 DEF Redirect, Consent, Token
<1>3. CASE Google
  BY <1>3 DEF Google, Invalidate, Token, spoolVars
<1> QED
  BY <1>1, <1>2, <1>3

(* Casa, the user and Google aside, the spool and Google's record change in    *)
(* four steps.                                                                 *)
LEMMA StepForward ==
  ASSUME IndInv, GrantInv, [Next]_vars
  PROVE  GrantInv' /\ Forward
<1> USE DEF storeVars, processVars, historyVars
<1>1. SpoolTypeOK /\ GoogleTypeOK
  BY DEF IndInv, TypeOK
<1>2. CASE UNCHANGED <<spoolVars, google>>
  BY <1>2, StillForward
<1>3. ASSUME NEW p \in Proc, Recover(p) PROVE UNCHANGED <<spoolVars, google>>
  BY <1>3 DEF Recover, Spawn, LoadNothing, LoadDead, LoadAlive, ToReconcile
<1>4. ASSUME NEW p \in Proc, Reconcile(p) PROVE GrantInv' /\ Forward
  <2>1. CASE AckFlow(p)
    <3>1. frame[p].cur \in Flow
      BY <2>1 DEF AckFlow, IndInv, ProcInv, FlowInHand
    <3> QED
      BY <1>1, <2>1, <3>1, AckForward DEF AckFlow
  <2>2. CASE ~AckFlow(p)
    BY <1>2, <1>4, <2>2 DEF Reconcile, NothingStaged, DiscardResidue, StageRetained, StageDead,
         StageWrongAccount, StageVerified, VerifyStaged, Promote, Unstage, Activate, QueueOutcome
  <2> QED
    BY <2>1, <2>2
<1>5. ASSUME NEW p \in Proc, Pass(p) PROVE GrantInv' /\ Forward
  <2>1. CASE Iterate(p)
    <3>1. PICK rec \in frame[p].todo :
            \/ DropSuperseded(p, rec) \/ SkipAwaiting(p, rec) \/ DropDone(p, rec)
            \/ CollectResult(p, rec) \/ RetryLater(p, rec)
            \/ AlreadyCommitted(p, rec) \/ ResumeHeld(p, rec) \/ GiveUpHeld(p, rec)
      BY <2>1 DEF Iterate
    <3>2. rec.flow \in Flow
      BY DEF IndInv, TypeOK, ProcessTypeOK, Frame, AttemptRecord
    <3>3. UNCHANGED google
      BY <3>1 DEF DropSuperseded, SkipAwaiting, DropDone, CollectResult, RetryLater,
           AlreadyCommitted, ResumeHeld, GiveUpHeld, TakeResult, Take
    <3>4. Collect(rec.flow) \/ UNCHANGED spoolVars
      BY <3>1 DEF DropSuperseded, SkipAwaiting, DropDone, CollectResult, RetryLater,
           AlreadyCommitted, ResumeHeld, GiveUpHeld
    <3> QED
      BY <1>1, <1>2, <3>2, <3>3, <3>4, CollectForward
  <2>2. CASE frame[p].cur # None /\ \E r \in ExchangeReplies(frame[p].cur) : Exchange(p, r)
    <3>1. frame[p].cur \in Flow
      BY <2>2 DEF Exchange, IndInv, ProcInv, FlowInHand
    <3> QED
      BY <1>1, <2>2, <3>1, ExchangeForward DEF Exchange
  <2>3. CASE CollectPass(p) \/ ListAttempts(p) \/ EndLoop(p) \/ Recommit(p)
             \/ StageToken(p) \/ FinishPass(p)
    BY <1>2, <2>3 DEF CollectPass, ListAttempts, EndLoop, Recommit, StageToken, FinishPass
  <2> QED
    BY <1>5, <2>1, <2>2, <2>3 DEF Pass
<1>6. ASSUME NEW p \in Proc, NEW f \in Flow, Start(p, f) PROVE GrantInv' /\ Forward
  BY <1>1, <1>6, MintForward DEF Start
<1>7. ASSUME NEW p \in Proc, Raise(p) \/ Crash(p) PROVE UNCHANGED <<spoolVars, google>>
  BY <1>7 DEF Raise, Crash
<1> QED
  BY <1>2, <1>3, <1>4, <1>5, <1>6, <1>7, EnvironmentForward DEF Next, Server, vars

--------------------------------------------------------------------------------
(* A process that is not at its step keeps what it relies on.                  *)
LEMMA OthersKeep ==
  ASSUME IndInv, RecordInv, Forward, NEW q \in Proc,
         pc'[q] = pc[q], frame'[q] = frame[q], subject'[q] = subject[q],
         Inside(q) => UNCHANGED storeVars
  PROVE  PassInv(q)' /\ InHandInv(q)'
<1> USE DEF RecordInv
<1>1. CASE ~Inside(q)
  BY <1>1 DEF PassInv, InHandInv, InHand, Inside, Outside, Settled
<1>2. CASE Inside(q)
  <2>1. UNCHANGED <<active, staged, notices>>
    BY <1>2 DEF storeVars
  <2>2. PassInv(q)'
    BY <2>1 DEF PassInv, Inside, Queued, NoticeKey
  <2>3. ASSUME NEW f \in Flow, Taken(f)
        PROVE  /\ Taken(f)'
               /\ google[f] # "code" => google'[f] # "code"
               /\ google[f] \in Spent => google'[f] \in Spent
               /\ TokenAccount(f)' = TokenAccount(f)
    BY <2>3 DEF Forward, TokenAccount, Token
  <2>4. ASSUME NEW f \in Flow, google[f] = "dead" PROVE google'[f] = "dead"
    BY <2>4 DEF Forward, Token
  <2>5. ASSUME NEW f \in Flow, StillStages(f) PROVE Taken(f) /\ StillStages(f)'
    BY <2>1, <2>5 DEF StagedInv, StillStages
  <2>6. ASSUME NEW f \in Flow
        PROVE  (Superseded(q, f)' <=> Superseded(q, f)) /\ (IsActive(f)' <=> IsActive(f))
    BY <2>1 DEF Superseded, IsActive
  <2>7. ASSUME NEW f \in Flow, f = frame[q].cur PROVE InHand(q, f)'
    <3>1. InHand(q, f)
      BY <2>7 DEF InHandInv
    <3>2. pc[q] = "promote" => StillStages(f)
      BY <2>7 DEF IndInv, ProcInv, SlotDiscipline
    <3>3. pc[q] = "unstage" => frame[q].disp \in Settled \cup {"connected"}
      BY DEF IndInv, ProcInv, FlowInHand
    <3>4. Taken(f) => /\ Taken(f)' /\ TokenAccount(f)' = TokenAccount(f)
                      /\ google[f] # "code" => google'[f] # "code"
                      /\ google[f] \in Spent => google'[f] \in Spent
      BY <2>3, Zenon
    <3>5. google[f] = "dead" => google'[f] = "dead"
      BY <2>4
    <3>6. StillStages(f) => Taken(f) /\ StillStages(f)'
      BY <2>5
    <3>7. CASE pc[q] \in {"exchange", "stage", "promote"}
      BY <2>6, <3>1, <3>2, <3>4, <3>6, <3>7 DEF InHand
    <3>8. CASE pc[q] \in {"unstage", "notice", "ack"}
      BY <2>6, <3>1, <3>3, <3>4, <3>5, <3>6, <3>8 DEF InHand, Settled
    <3> QED
      BY <3>7, <3>8 DEF InHand
  <2>8. InHandInv(q)'
    BY <2>7 DEF InHandInv
  <2> QED
    BY <2>2, <2>8
<1> QED
  BY <1>1, <1>2

(* A process at its step is inside, or it enters, or it leaves the store alone;*)
(* it moves nobody else.                                                       *)
LEMMA StepsInside ==
  ASSUME IndInv, NEW p \in Proc, Server(p)
  PROVE  /\ \A q \in Proc \ {p} :
              pc'[q] = pc[q] /\ frame'[q] = frame[q] /\ subject'[q] = subject[q]
         /\ Inside(p) \/ UNCHANGED storeVars
<1> USE DEF Goto, IndInv, TypeOK, ProcessTypeOK, Inside, Outside
<1> DEFINE Local == \A q \in Proc \ {p} :
              pc'[q] = pc[q] /\ frame'[q] = frame[q] /\ subject'[q] = subject[q]
           Where == Inside(p) \/ UNCHANGED storeVars
<1>1. CASE Recover(p)
  BY <1>1 DEF Recover, Spawn, LoadNothing, LoadDead, LoadAlive, ToReconcile, AcquireLock
<1>2. CASE Reconcile(p)
  <2> USE ResolvedLocal
  <2>1. CASE NothingStaged(p) \/ DiscardResidue(p) \/ StageRetained(p) \/ Promote(p)
    BY <2>1 DEF NothingStaged, DiscardResidue, StageRetained, VerifyStaged, Promote
  <2>2. CASE StageDead(p) \/ StageWrongAccount(p) \/ StageVerified(p) \/ QueueOutcome(p)
    BY <2>2 DEF StageDead, StageWrongAccount, StageVerified, VerifyStaged, QueueOutcome, Settle
  <2>3. CASE Unstage(p) \/ Activate(p) \/ AckFlow(p)
    BY <2>3 DEF Unstage, Activate, AckFlow, Settle
  <2> QED
    BY <1>2, <2>1, <2>2, <2>3 DEF Reconcile
<1>3. CASE Pass(p)
  <2>1. CASE Iterate(p)
    BY <2>1 DEF Iterate, DropSuperseded, SkipAwaiting, DropDone, CollectResult, RetryLater,
         AlreadyCommitted, ResumeHeld, GiveUpHeld, TakeResult, Take
  <2>2. ASSUME NEW r \in ExchangeReplies(frame[p].cur), Exchange(p, r)
        PROVE  Local /\ Where
    BY <2>2 DEF Exchange, ToAck, Return
  <2>3. CASE CollectPass(p) \/ ListAttempts(p) \/ EndLoop(p) \/ Recommit(p)
             \/ StageToken(p) \/ FinishPass(p)
    BY <2>3 DEF CollectPass, ListAttempts, EndLoop, Recommit, StageToken, FinishPass, Return
  <2> QED
    BY <1>3, <2>1, <2>2, <2>3 DEF Pass
<1>4. CASE Raise(p) \/ Crash(p) \/ \E f \in Flow : Start(p, f)
  BY <1>4 DEF Raise, Crash, Return, Start, processVars
<1> QED
  BY <1>1, <1>2, <1>3, <1>4 DEF Server

(* What every step below comes down to.                                        *)
LEMMA StepKeeps ==
  ASSUME IndInv, RecordInv, NEW p \in Proc, Server(p), GrantInv', Forward,
         StagedInv', ActiveInv', NoticeInv', PassInv(p)', InHandInv(p)'
  PROVE  RecordInv'
<1>1. ASSUME NEW q \in Proc \ {p} PROVE PassInv(q)' /\ InHandInv(q)'
  <2>1. Inside(p) => ~Inside(q)
    BY DEF IndInv, ProcInv, LockHeld
  <2> QED
    BY <2>1, StepsInside, OthersKeep
<1> QED
  BY <1>1 DEF RecordInv

--------------------------------------------------------------------------------
(* What a step of p keeps, beside Google's and casa's own records.             *)
Keeps(p) == StagedInv' /\ ActiveInv' /\ NoticeInv' /\ PassInv(p)' /\ InHandInv(p)'

LEMMA StageKept ==
  ASSUME IndInv, RecordInv, Forward, staged' \in {staged, None}
  PROVE  StagedInv'
<1>1. staged # None => staged.flow \in Flow
  BY DEF IndInv, TypeOK, StoreTypeOK, StagedCredential
<1> QED
  BY <1>1 DEF RecordInv, StagedInv, Forward, Token

LEMMA ActiveKept ==
  ASSUME IndInv, RecordInv, Forward, active' \in {active, None}
  PROVE  ActiveInv'
<1>1. active # None =>
        active.token \in Token /\ (active.flow # None => active.flow \in Flow)
  BY DEF IndInv, TypeOK, StoreTypeOK, Credential
<1> QED
  BY <1>1 DEF RecordInv, ActiveInv, Forward

LEMMA NoticesKept ==
  ASSUME NoticeInv, UNCHANGED <<notices, historyVars>>
  PROVE  NoticeInv'
  BY DEF NoticeInv, QuietOutcomeIsNoticed, Queued, historyVars

(* A process that leaves has nothing in hand.                                  *)
LEMMA LeftKeeps ==
  ASSUME IndInv, RecordInv, NEW p \in Proc, pc'[p] \in Outside,
         pc'[p] = "down" \/ (pc[p] # "down" /\ subject' = subject),
         frame'[p] = EmptyFrame
  PROVE  PassInv(p)' /\ InHandInv(p)'
  BY DEF RecordInv, PassInv, InHandInv, InHand, Inside, Outside, Settled, EmptyFrame

(* The callers of reconcile_stage go on with nothing in hand.                  *)
LEMMA ResolvedKeeps ==
  ASSUME IndInv, RecordInv, NEW p \in Proc, NEW o, Inside(p), Resolved(p, o),
         UNCHANGED <<active, notices, subject>>,
         frame[p].disp = "connected" => o \in {"retain", "promoted"},
         pc[p] # "finish"
  PROVE  PassInv(p)' /\ InHandInv(p)'
<1> USE DEF IndInv, TypeOK, ProcessTypeOK, Goto, Inside, Outside
<1>1. CASE frame[p].task = "startup"
  <2>1. pc'[p] \in Outside /\ frame'[p] = EmptyFrame
    BY <1>1 DEF Resolved, Return
  <2> QED
    BY <2>1, LeftKeeps
<1>2. CASE frame[p].task # "startup"
  <2>1. /\ frame'[p].cur = None /\ frame'[p].disp = "none"
        /\ frame'[p].task = frame[p].task /\ frame'[p].peeked = frame[p].peeked
        /\ \/ pc'[p] = "finish"
           \/ pc'[p] = "attempts" /\ frame[p].task = "step0"
           \/ /\ pc'[p] = "loop" /\ frame[p].task = "attempt"
              /\ frame'[p].committed = IF o = "promoted" THEN CommittedGeneration(active)
                                                         ELSE frame[p].committed
              /\ o # "retain"
    BY <1>2 DEF Resolved, Frame
  <2>2. InHandInv(p)'
    BY <2>1, NoneAssumption DEF InHandInv, Token
  <2>3. pc'[p] = "loop" => frame'[p].committed = CommittedGeneration(active)
    BY <2>1 DEF RecordInv, PassInv
  <2>4. CommittedGeneration(active)' = CommittedGeneration(active)
    BY DEF CommittedGeneration
  <2> QED
    BY <2>1, <2>2, <2>3, <2>4 DEF RecordInv, PassInv, Settled
<1> QED
  BY <1>1, <1>2

--------------------------------------------------------------------------------
(* startup_recover.                                                            *)
LEMMA SpawnKeeps ==
  ASSUME IndInv, RecordInv, Forward, NEW p \in Proc, NEW s \in Subject, Spawn(p, s)
  PROVE  Keeps(p)
<1> USE DEF IndInv, TypeOK, ProcessTypeOK, Spawn, Goto, storeVars
<1>1. s # None
  BY FlowAssumption, NoneAssumption
<1>2. StagedInv' /\ ActiveInv' /\ NoticeInv'
  BY StageKept, ActiveKept, NoticesKept DEF RecordInv
<1>3. frame[p].disp # "connected"
  BY DEF RecordInv, PassInv
<1>4. \/ /\ pc'[p] = "load_active" /\ frame'[p].task = "startup"
         /\ frame'[p].disp = frame[p].disp
      \/ pc'[p] = "idle" /\ frame'[p] = frame[p]
  BY DEF Frame
<1>5. subject'[p] = s
  OBVIOUS
<1> QED
  BY <1>1, <1>2, <1>3, <1>4, <1>5
  DEF Keeps, PassInv, InHandInv, InHand, Inside, Outside, Settled

LEMMA LoadKeeps ==
  ASSUME IndInv, RecordInv, Forward, NEW p \in Proc,
         LoadNothing(p) \/ LoadDead(p) \/ LoadAlive(p)
  PROVE  Keeps(p)
<1> USE DEF Goto, ToReconcile
<1>1. /\ pc[p] = "load_active" /\ ToReconcile(p)
      /\ UNCHANGED <<staged, notices>>
  BY DEF LoadNothing, LoadDead, LoadAlive, storeVars, RemoveActive, WriteActive
<1>2. StagedInv' /\ ActiveInv'
  <2>1. StagedInv'
    BY <1>1, StageKept
  <2>2. CASE active' \in {active, None}
    BY <2>1, <2>2, ActiveKept
  <2>3. CASE active' \notin {active, None}
    <3>1. /\ active # None /\ active.account = None
          /\ active' = [active EXCEPT !.flow = None, !.generation = None,
                                      !.account = subject[p]]
      BY <2>3 DEF LoadNothing, LoadDead, LoadAlive, storeVars, RemoveActive, WriteActive
    <3>2. active'.flow = None /\ active'.token = Legacy /\ google[Legacy] \in Spent
      BY <3>1 DEF RecordInv, ActiveInv, IndInv, TypeOK, StoreTypeOK, Credential
    <3> QED
      BY <2>1, <3>2 DEF ActiveInv, Forward, Token
  <2> QED
    BY <2>2, <2>3
<1>3. NoticeInv'
  BY <1>1, NoticesKept DEF RecordInv
<1>4. /\ pc'[p] = "reconcile" /\ frame'[p] = frame[p] /\ subject'[p] = subject[p]
      /\ frame[p].task = "startup" /\ frame[p].disp # "connected" /\ subject[p] # None
  BY <1>1 DEF RecordInv, PassInv, IndInv, TypeOK, ProcessTypeOK
<1> QED
  BY <1>2, <1>3, <1>4 DEF Keeps, PassInv, InHandInv, InHand, Inside, Settled

--------------------------------------------------------------------------------
(* reconcile_stage.                                                            *)
LEMMA StayKeeps ==
  ASSUME IndInv, RecordInv, Forward, active' \in {active, None},
         staged' \in {staged, None}, UNCHANGED <<notices, historyVars>>
  PROVE  StagedInv' /\ ActiveInv' /\ NoticeInv'
  BY StageKept, ActiveKept, NoticesKept DEF RecordInv

LEMMA UnresolvedKeeps ==
  ASSUME IndInv, RecordInv, Forward, NEW p \in Proc,
         NothingStaged(p) \/ DiscardResidue(p) \/ StageRetained(p)
  PROVE  Keeps(p)
<1>1. /\ pc[p] = "reconcile"
      /\ \E o : Resolved(p, o)
      /\ active' = active /\ staged' \in {staged, None}
      /\ UNCHANGED <<notices, subject, historyVars>>
  BY DEF NothingStaged, DiscardResidue, StageRetained, VerifyStaged, DiscardStaged, storeVars
<1>2. frame[p].disp # "connected"
  BY <1>1 DEF RecordInv, PassInv
<1>3. PassInv(p)' /\ InHandInv(p)'
  BY <1>1, <1>2, ResolvedKeeps DEF Inside, Outside
<1> QED
  BY <1>1, <1>3, StayKeeps DEF Keeps

(* Google answers of a live grant that it is not dead, and of a stage that its *)
(* account is the one that consented.                                          *)
LEMMA DeadVerdict ==
  ASSUME NEW t, google[t] \in Spent, "terminal" \in VerifyVerdicts(t)
  PROVE  google[t] = "dead"
  BY DEF Spent, VerifyVerdicts, RefreshReplies, RefreshVerdict, Transient, ClientRefused,
         CredentialDeadCodes

LEMMA StageSettledKeeps ==
  ASSUME IndInv, RecordInv, Forward, NEW p \in Proc,
         StageDead(p) \/ StageWrongAccount(p)
  PROVE  Keeps(p)
<1> DEFINE d == frame'[p].disp
<1>1. /\ pc[p] = "reconcile" /\ staged # None /\ d \in Settled
      /\ Settle(p, staged.flow, d)
      /\ d = "terminal" => "terminal" \in VerifyVerdicts(staged.token)
      /\ d = "wrong_account" => TokenAccount(staged.token) # subject[p]
      /\ UNCHANGED <<storeVars, spoolVars, google, subject, historyVars>>
  BY DEF StageDead, StageWrongAccount, VerifyStaged, Settle, Settled, IndInv, TypeOK,
         ProcessTypeOK, Frame
<1>2. /\ staged.flow \in Flow /\ staged.token = staged.flow
      /\ google[staged.flow] \in Spent
  BY <1>1 DEF RecordInv, StagedInv, IndInv, TypeOK, StoreTypeOK, StagedCredential
<1>3. /\ frame'[p].cur = staged.flow /\ frame'[p].task = frame[p].task
      /\ frame'[p].committed = frame[p].committed /\ frame'[p].peeked = frame[p].peeked
      /\ pc'[p] = IF frame[p].task = "startup" THEN "notice" ELSE "ack"
  BY <1>1 DEF Settle, Goto, IndInv, TypeOK, ProcessTypeOK, Frame
<1>4. StagedInv' /\ ActiveInv' /\ NoticeInv'
  BY <1>1, StayKeeps DEF storeVars
<1>5. InHandInv(p)'
  <2> SUFFICES ASSUME NEW f \in Flow, f = frame'[p].cur PROVE InHand(p, f)'
    BY DEF InHandInv
  <2>1. StillStages(f)'
    BY <1>1, <1>3 DEF StillStages, storeVars
  <2>2. d = "terminal" => google'[f] = "dead"
    BY <1>1, <1>2, <1>3, DeadVerdict
  <2>3. d = "wrong_account" => TokenAccount(f)' # subject'[p]
    BY <1>1, <1>2, <1>3 DEF TokenAccount, spoolVars
  <2> QED
    BY <1>1, <1>3, <2>1, <2>2, <2>3 DEF InHand, Settled
<1>6. PassInv(p)'
  <2>1. /\ subject[p] # None /\ frame[p].task # "none" /\ frame[p].disp # "connected"
        /\ frame[p].task = "attempt" => frame[p].committed = CommittedGeneration(active)
        /\ frame[p].task \in {"step0", "attempt"} =>
             \A n \in notices : n.key \in frame[p].peeked
    BY <1>1 DEF RecordInv, PassInv, Inside, Outside
  <2>2. CommittedGeneration(active)' = CommittedGeneration(active)
    BY <1>1 DEF CommittedGeneration, storeVars
  <2> QED
    BY <1>1, <1>3, <2>1, <2>2 DEF PassInv, Settled, storeVars
<1> QED
  BY <1>4, <1>5, <1>6 DEF Keeps

LEMMA StageVerifiedKeeps ==
  ASSUME IndInv, RecordInv, Forward, NEW p \in Proc, StageVerified(p)
  PROVE  Keeps(p)
<1>1. /\ pc[p] = "reconcile" /\ staged # None
      /\ TokenAccount(staged.token) = subject[p]
      /\ UNCHANGED <<storeVars, spoolVars, google, subject, historyVars>>
  BY DEF StageVerified, VerifyStaged
<1>2. /\ staged.flow \in Flow /\ staged.token = staged.flow
  BY <1>1 DEF RecordInv, StagedInv, IndInv, TypeOK, StoreTypeOK, StagedCredential
<1>3. /\ frame'[p].cur = staged.flow /\ frame'[p].disp = "connected"
      /\ frame'[p].task = frame[p].task /\ frame'[p].peeked = frame[p].peeked
      /\ pc'[p] = "promote"
  BY DEF StageVerified, Goto, IndInv, TypeOK, ProcessTypeOK, Frame
<1>4. StagedInv' /\ ActiveInv' /\ NoticeInv'
  BY <1>1, StayKeeps DEF storeVars
<1>5. TokenAccount(staged.flow)' = subject'[p]
  BY <1>1, <1>2 DEF TokenAccount, spoolVars, storeVars
<1>6. staged' = staged
  BY <1>1 DEF storeVars
<1>7. InHandInv(p)'
  BY <1>3, <1>5, <1>6 DEF InHandInv, InHand
<1>8. PassInv(p)'
  BY <1>1, <1>3 DEF RecordInv, PassInv, Inside, Outside, Settled, storeVars
<1> QED
  BY <1>4, <1>7, <1>8 DEF Keeps

LEMMA PromoteKeeps ==
  ASSUME IndInv, RecordInv, Forward, NEW p \in Proc, Promote(p)
  PROVE  Keeps(p)
<1> DEFINE f == frame[p].cur
<1>1. /\ pc[p] = "promote" /\ StillStages(f) /\ f \in Flow
      /\ frame[p].disp = "connected"
  BY DEF Promote, IndInv, ProcInv, SlotDiscipline, FlowInHand
<1>2. /\ active' = Promoted(subject[p]) /\ UNCHANGED <<staged, notices, lock, frame>>
      /\ UNCHANGED <<spoolVars, google, subject, historyVars>>
      /\ pc'[p] = "unstage"
  BY <1>1 DEF Promote, WriteActive, Goto, IndInv, TypeOK, ProcessTypeOK
<1>3. StagedInv' /\ NoticeInv'
  BY <1>2, StageKept, NoticesKept DEF RecordInv
<1>4. /\ subject[p] # None
      /\ frame[p].task \in {"step0", "attempt"} =>
           \A n \in notices : n.key \in frame[p].peeked
      /\ frame[p].task # "none"
  BY <1>1 DEF RecordInv, PassInv, Inside, Outside
<1>5. ActiveInv'
  <2>1. /\ active'.flow = staged.flow /\ active'.token = staged.token
        /\ active'.generation = staged.generation /\ active'.account = subject[p]
    BY <1>2 DEF Promoted
  <2>2. StagedInv' /\ staged # None /\ staged' = staged
    BY <1>1, <1>2, <1>3 DEF StillStages
  <2>3. /\ staged.token = staged.flow /\ staged.generation = Stamp(staged.flow)
        /\ Taken(staged.flow)' /\ google'[staged.token] \in Spent
    BY <2>2 DEF StagedInv, Taken, Unanswered
  <2>4. Taken(active.flow)'
    BY <2>1, <2>2, <2>3 DEF Taken, Unanswered
  <2>5. staged.flow # None
    BY <2>2, NoneAssumption DEF IndInv, TypeOK, StoreTypeOK, StagedCredential, Token
  <2> QED
    BY <1>4, <2>1, <2>3, <2>4, <2>5 DEF ActiveInv
<1>6. PassInv(p)'
  BY <1>1, <1>2, <1>4 DEF PassInv, Settled, Inside, Outside
<1>7. InHandInv(p)'
  BY <1>1, <1>2 DEF InHandInv, InHand, StillStages
<1> QED
  BY <1>3, <1>5, <1>6, <1>7 DEF Keeps

LEMMA UnstageKeeps ==
  ASSUME IndInv, RecordInv, Forward, NEW p \in Proc, Unstage(p)
  PROVE  Keeps(p)
<1>1. /\ pc[p] = "unstage" /\ UNCHANGED <<active, notices>> /\ staged' = None
      /\ UNCHANGED <<spoolVars, google, subject, historyVars>>
  BY DEF Unstage, DiscardStaged
<1>2. StagedInv' /\ ActiveInv' /\ NoticeInv'
  BY <1>1, StayKeeps
<1>3. CASE frame[p].disp = "connected"
  <2>1. frame' = frame /\ pc'[p] = "activate"
    BY <1>3 DEF Unstage, Goto, IndInv, TypeOK, ProcessTypeOK
  <2>2. PassInv(p)'
    BY <1>1, <1>3, <2>1 DEF RecordInv, PassInv, Inside, Outside
  <2>3. InHandInv(p)'
    BY <2>1 DEF InHandInv, InHand
  <2> QED
    BY <1>2, <2>2, <2>3 DEF Keeps
<1>4. CASE frame[p].disp # "connected"
  <2>1. Resolved(p, "settled")
    BY <1>4 DEF Unstage
  <2>2. PassInv(p)' /\ InHandInv(p)'
    BY <1>1, <1>4, <2>1, ResolvedKeeps DEF Inside, Outside
  <2> QED
    BY <1>2, <2>2 DEF Keeps
<1> QED
  BY <1>3, <1>4

LEMMA ActivateKeeps ==
  ASSUME IndInv, RecordInv, Forward, NEW p \in Proc, Activate(p)
  PROVE  Keeps(p)
<1>1. /\ pc[p] = "activate" /\ frame[p].disp = "connected" /\ frame[p].cur \in Flow
      /\ UNCHANGED <<storeVars, spoolVars, google, subject, historyVars>>
  BY DEF Activate, IndInv, ProcInv, FlowInHand
<1>2. StagedInv' /\ ActiveInv' /\ NoticeInv'
  BY <1>1, StayKeeps DEF storeVars
<1>3. CASE Settle(p, frame[p].cur, "connected")
  <2>1. /\ frame'[p].disp = "connected" /\ frame'[p].task = frame[p].task
        /\ frame'[p].peeked = frame[p].peeked
        /\ pc'[p] = IF frame[p].task = "startup" THEN "notice" ELSE "ack"
    BY <1>3 DEF Settle, Goto, IndInv, TypeOK, ProcessTypeOK, Frame
  <2>2. InHandInv(p)'
    BY <2>1 DEF InHandInv, InHand, Settled
  <2>3. PassInv(p)'
    BY <1>1, <2>1 DEF RecordInv, PassInv, Inside, Outside, storeVars
  <2> QED
    BY <1>2, <2>2, <2>3 DEF Keeps
<1>4. CASE Resolved(p, "retain")
  BY <1>1, <1>2, <1>4, ResolvedKeeps DEF Inside, Outside, storeVars, Keeps
<1> QED
  BY <1>3, <1>4 DEF Activate

LEMMA QueueOutcomeKeeps ==
  ASSUME IndInv, RecordInv, Forward, NEW p \in Proc, QueueOutcome(p)
  PROVE  Keeps(p)
<1> DEFINE k == NoticeKey(p)
<1>1. /\ pc[p] = "notice" /\ pc'[p] = "ack" /\ UNCHANGED frame
      /\ UNCHANGED <<active, staged, spoolVars, google, subject, historyVars>>
      /\ frame[p].task = "startup"
      /\ QueueNotice(k)
  BY DEF QueueOutcome, QueueNotice, Goto, IndInv, TypeOK, ProcessTypeOK, RecordInv, PassInv
<1>2. /\ frame[p].cur \in Flow /\ frame[p].disp \in Settled \cup {"connected"}
  BY <1>1 DEF IndInv, ProcInv, FlowInHand
<1>3. k \in Key
  BY <1>2 DEF NoticeKey, Key, Settled
<1>4. StagedInv' /\ ActiveInv'
  BY <1>1, StageKept, ActiveKept
<1>5. /\ notices \subseteq notices' /\ notices' \subseteq notices \cup {[key |-> k, offered |-> 0]}
      /\ \E n \in notices' : n.key = k
  <2>1. CASE Queued(k)
    BY <1>1, <2>1 DEF QueueNotice, Queued
  <2>2. CASE ~Queued(k)
    <3>1. notices' = notices \cup {[key |-> k, offered |-> 0]}
      BY <1>1, <2>2 DEF QueueNotice
    <3>2. [key |-> k, offered |-> 0].key = k
      OBVIOUS
    <3> HIDE DEF k
    <3> QED
      BY <3>1, <3>2
  <2> QED
    BY <2>1, <2>2
<1>6. NoticeInv'
  <2>1. offers[k] \in 0 .. NoticeLimit + 1
    BY <1>3 DEF IndInv, TypeOK, HistoryTypeOK
  <2> QED
    BY <1>1, <1>5, <2>1, NoticeAssumption
    DEF RecordInv, NoticeInv, QuietOutcomeIsNoticed, Queued, historyVars
<1>7. PassInv(p)'
  <2>1. k' = k
    BY <1>1 DEF NoticeKey
  <2> QED
    BY <1>1, <1>2, <1>5, <2>1 DEF RecordInv, PassInv, Inside, Outside, Queued, Settled
<1>8. InHandInv(p)'
  <2> SUFFICES ASSUME NEW f \in Flow, f = frame[p].cur PROVE InHand(p, f)'
    BY <1>1 DEF InHandInv
  <2>1. InHand(p, f)
    BY DEF RecordInv, InHandInv
  <2> QED
    BY <1>1, <1>2, <2>1 DEF InHand, Settled, StillStages, TokenAccount, spoolVars
<1> QED
  BY <1>4, <1>6, <1>7, <1>8 DEF Keeps

LEMMA AckFlowKeeps ==
  ASSUME IndInv, RecordInv, Forward, NEW p \in Proc, AckFlow(p)
  PROVE  Keeps(p)
<1> DEFINE f == frame[p].cur
           d == frame[p].disp
<1>1. /\ pc[p] = "ack" /\ f \in Flow
      /\ UNCHANGED <<storeVars, google, subject, offers, answer>>
      /\ quiet' \in {quiet, quiet \cup {NoticeKey(p)}}
      /\ quiet' # quiet => frame[p].task = "startup"
  BY DEF AckFlow, Ack, IndInv, ProcInv, FlowInHand
<1>2. StagedInv' /\ ActiveInv'
  BY <1>1, StageKept, ActiveKept DEF storeVars
<1>3. NoticeInv'
  BY <1>1 DEF RecordInv, NoticeInv, QuietOutcomeIsNoticed, Queued, PassInv, storeVars
<1>4. CASE d \in Settled
  <2>1. frame' = frame /\ pc'[p] = "unstage"
    BY <1>4 DEF AckFlow, Settled, Goto, IndInv, TypeOK, ProcessTypeOK
  <2>2. InHand(p, f)
    BY <1>1 DEF RecordInv, InHandInv
  <2>3. InHandInv(p)'
    BY <1>1, <1>4, <2>1, <2>2
    DEF InHandInv, InHand, Settled, StillStages, TokenAccount, storeVars
  <2>4. CommittedGeneration(active)' = CommittedGeneration(active)
    BY <1>1 DEF CommittedGeneration, storeVars
  <2>5. PassInv(p)'
    BY <1>1, <1>4, <2>1, <2>4 DEF RecordInv, PassInv, Inside, Outside, Settled, storeVars
  <2> QED
    BY <1>2, <1>3, <2>3, <2>5 DEF Keeps
<1>5. CASE d = "connected"
  <2>1. Resolved(p, "promoted")
    BY <1>5 DEF AckFlow
  <2>2. PassInv(p)' /\ InHandInv(p)'
    BY <1>1, <2>1, ResolvedKeeps DEF Inside, Outside, storeVars
  <2> QED
    BY <1>2, <1>3, <2>2 DEF Keeps
<1>6. CASE d \notin Settled \cup {"connected"}
  <2>1. /\ frame'[p].cur = None /\ frame'[p].disp = "none"
        /\ frame'[p].task = frame[p].task /\ frame'[p].peeked = frame[p].peeked
        /\ frame'[p].committed = frame[p].committed /\ pc'[p] = "loop"
    BY <1>6 DEF AckFlow, Settled, Goto, IndInv, TypeOK, ProcessTypeOK, Frame
  <2>2. InHandInv(p)'
    BY <2>1, NoneAssumption DEF InHandInv, Token
  <2>3. CommittedGeneration(active)' = CommittedGeneration(active)
    BY <1>1 DEF CommittedGeneration, storeVars
  <2>4. PassInv(p)'
    BY <1>1, <1>6, <2>1, <2>3 DEF RecordInv, PassInv, Inside, Outside, Settled, storeVars
  <2> QED
    BY <1>2, <1>3, <2>2, <2>4 DEF Keeps
<1> QED
  BY <1>4, <1>5, <1>6

--------------------------------------------------------------------------------
(* collect_pass.                                                               *)
LEMMA CollectPassKeeps ==
  ASSUME IndInv, RecordInv, Forward, NEW p \in Proc, CollectPass(p)
  PROVE  Keeps(p)
<1>1. /\ pc[p] = "idle" /\ pc'[p] = "reconcile"
      /\ UNCHANGED <<storeVars, spoolVars, google, subject, historyVars>>
      /\ frame'[p].task = "step0" /\ frame'[p].disp = frame[p].disp
      /\ frame'[p].peeked = PeekNotices
  BY DEF CollectPass, Goto, IndInv, TypeOK, ProcessTypeOK, Frame
<1>2. StagedInv' /\ ActiveInv' /\ NoticeInv'
  BY <1>1, StayKeeps DEF storeVars
<1>3. \A n \in notices : n.key \in PeekNotices
  BY NoticeAssumption DEF PeekNotices, IndInv, TypeOK, StoreTypeOK, Notice
<1>4. subject[p] # None /\ frame[p].disp # "connected"
  BY <1>1 DEF RecordInv, PassInv
<1>5. InHandInv(p)'
  BY <1>1 DEF InHandInv, InHand
<1>6. PassInv(p)'
  BY <1>1, <1>3, <1>4 DEF PassInv, storeVars
<1> QED
  BY <1>2, <1>5, <1>6 DEF Keeps

LEMMA ListAttemptsKeeps ==
  ASSUME IndInv, RecordInv, Forward, NEW p \in Proc, ListAttempts(p)
  PROVE  Keeps(p)
<1>1. /\ pc[p] = "attempts" /\ pc'[p] = "loop"
      /\ UNCHANGED <<storeVars, spoolVars, google, subject, historyVars>>
      /\ frame'[p].task = "attempt" /\ frame'[p].disp = frame[p].disp
      /\ frame'[p].peeked = frame[p].peeked
      /\ frame'[p].committed = CommittedGeneration(active)
      /\ frame[p].task # "startup"
  BY DEF ListAttempts, Goto, IndInv, TypeOK, ProcessTypeOK, Frame, ProcInv, FlowInHand, InPass
<1>2. StagedInv' /\ ActiveInv' /\ NoticeInv'
  BY <1>1, StayKeeps DEF storeVars
<1>3. CommittedGeneration(active)' = CommittedGeneration(active)
  BY <1>1 DEF CommittedGeneration, storeVars
<1>4. frame[p].task \in {"step0", "attempt"}
  BY <1>1 DEF RecordInv, PassInv, Inside, Outside, IndInv, TypeOK, ProcessTypeOK, Frame
<1>5. /\ subject[p] # None /\ frame[p].disp # "connected"
      /\ \A n \in notices : n.key \in frame[p].peeked
  BY <1>1, <1>4 DEF RecordInv, PassInv, Inside, Outside
<1>6. InHandInv(p)'
  BY <1>1 DEF InHandInv, InHand
<1>7. PassInv(p)'
  BY <1>1, <1>3, <1>5 DEF PassInv, storeVars
<1> QED
  BY <1>2, <1>6, <1>7 DEF Keeps

(* An iteration leaves the loop for l with the flow of rec in hand, and has a  *)
(* reason to.                                                                  *)
LEMMA TakeKeeps ==
  ASSUME IndInv, RecordInv, Forward, GrantInv', NEW p \in Proc, NEW rec \in AttemptRecord,
         NEW l \in {"loop", "ack", "exchange", "recommit"}, NEW d, Take(p, rec, l, d),
         d \notin Settled \cup {"connected"}, l = "ack" => d # "none",
         l = "exchange" => ~Superseded(p, rec.flow) /\ Taken(rec.flow)' /\ ~IsActive(rec.flow),
         l = "ack" /\ d = "superseded" => Superseded(p, rec.flow),
         l = "ack" /\ d = "refused" => Taken(rec.flow)' /\ answer'[rec.flow] \notin Account
  PROVE  Keeps(p)
<1> DEFINE f == rec.flow
<1>1. /\ pc[p] = "loop" /\ pc'[p] = l
      /\ UNCHANGED <<storeVars, google, subject, historyVars>>
      /\ frame'[p].task = frame[p].task /\ frame'[p].disp = d /\ frame'[p].cur = f
      /\ frame'[p].peeked = frame[p].peeked /\ frame'[p].committed = frame[p].committed
      /\ f \in Flow
  BY DEF Take, Goto, IndInv, TypeOK, ProcessTypeOK, Frame, AttemptRecord
<1>2. StagedInv' /\ ActiveInv' /\ NoticeInv'
  BY <1>1, StayKeeps DEF storeVars
<1>3. CommittedGeneration(active)' = CommittedGeneration(active)
  BY <1>1 DEF CommittedGeneration, storeVars
<1>4. PassInv(p)'
  <2>1. /\ subject[p] # None /\ frame[p].task = "attempt"
        /\ frame[p].committed = CommittedGeneration(active)
        /\ \A n \in notices : n.key \in frame[p].peeked
    BY <1>1 DEF RecordInv, PassInv, Inside, Outside
  <2> QED
    BY <1>1, <1>3, <2>1 DEF PassInv, Settled, storeVars
<1>5. InHandInv(p)'
  <2>1. /\ Superseded(p, f)' <=> Superseded(p, f)
        /\ IsActive(f)' <=> IsActive(f)
    BY <1>1 DEF Superseded, IsActive, storeVars
  <2>2. answer'[f] \notin Account => google'[f] # "code"
    BY <1>1 DEF GrantInv
  <2>3. InHand(p, f)'
    BY <1>1, <2>1, <2>2 DEF InHand, Settled
  <2> QED
    BY <1>1, <2>3 DEF InHandInv
<1> QED
  BY <1>2, <1>4, <1>5 DEF Keeps

LEMMA IterateKeeps ==
  ASSUME IndInv, RecordInv, Forward, GrantInv', NEW p \in Proc, Iterate(p)
  PROVE  Keeps(p)
<1>1. PICK rec \in frame[p].todo :
        \/ DropSuperseded(p, rec) \/ SkipAwaiting(p, rec) \/ DropDone(p, rec)
        \/ CollectResult(p, rec) \/ RetryLater(p, rec)
        \/ AlreadyCommitted(p, rec) \/ ResumeHeld(p, rec) \/ GiveUpHeld(p, rec)
  BY DEF Iterate
<1>2. rec \in AttemptRecord /\ rec.flow \in Flow
  BY DEF IndInv, TypeOK, ProcessTypeOK, Frame, AttemptRecord
<1>3. CASE DropSuperseded(p, rec) \/ SkipAwaiting(p, rec) \/ DropDone(p, rec)
           \/ RetryLater(p, rec) \/ AlreadyCommitted(p, rec) \/ GiveUpHeld(p, rec)
  BY <1>2, <1>3, TakeKeeps
  DEF DropSuperseded, SkipAwaiting, DropDone, RetryLater, AlreadyCommitted, GiveUpHeld, Settled
<1>4. CASE CollectResult(p, rec) \/ ResumeHeld(p, rec)
  <2>1. /\ TakeResult(p, rec) /\ ~Superseded(p, rec.flow)
        /\ answer'[rec.flow] = answer[rec.flow]
    BY <1>4 DEF CollectResult, ResumeHeld, Ready, ClaimedBefore, Collect, spoolVars
  <2>2. Taken(rec.flow)' /\ ~IsActive(rec.flow)
    <3>1. CASE CollectResult(p, rec)
      <4>1. /\ result[rec.flow] = "file" /\ status' = status
            /\ result' = [result EXCEPT ![rec.flow] = "journal"]
        BY <3>1 DEF CollectResult, Collect
      <4>2. Taken(rec.flow)'
        BY <1>2, <4>1 DEF RecordInv, GrantInv, Taken, Unanswered, IndInv, TypeOK, SpoolTypeOK
      <4>3. ~IsActive(rec.flow)
        BY <1>2, <4>1, NoneAssumption DEF IsActive, RecordInv, ActiveInv, Taken, Token
      <4> QED
        BY <4>2, <4>3
    <3>2. CASE ResumeHeld(p, rec)
      BY <1>2, <3>2 DEF ResumeHeld, Held, RecordInv, GrantInv, Taken, Unanswered, spoolVars
    <3> QED
      BY <1>4, <3>1, <3>2
  <2>3. CASE answer[rec.flow] \in Account
    BY <1>2, <2>1, <2>2, <2>3, TakeKeeps DEF TakeResult, Settled
  <2>4. CASE answer[rec.flow] \notin Account
    BY <1>2, <2>1, <2>2, <2>4, TakeKeeps DEF TakeResult, Settled
  <2> QED
    BY <2>3, <2>4
<1> QED
  BY <1>1, <1>3, <1>4

LEMMA AdvanceKeeps ==
  ASSUME IndInv, RecordInv, Forward, NEW p \in Proc, EndLoop(p) \/ Recommit(p)
  PROVE  Keeps(p)
<1>1. /\ UNCHANGED <<storeVars, spoolVars, google, subject, historyVars>>
      /\ frame' = frame
      /\ pc[p] = "loop" \/ (pc[p] = "recommit" /\ frame[p].disp = "committed")
      /\ pc'[p] = "finish" \/ (pc'[p] = "ack" /\ pc[p] = "recommit")
  BY DEF EndLoop, Recommit, Goto, IndInv, TypeOK, ProcessTypeOK, ProcInv, FlowInHand
<1>2. StagedInv' /\ ActiveInv' /\ NoticeInv'
  BY <1>1, StayKeeps DEF storeVars
<1>3. InHandInv(p)'
  BY <1>1 DEF InHandInv, InHand, Settled
<1>4. CommittedGeneration(active)' = CommittedGeneration(active)
  BY <1>1 DEF CommittedGeneration, storeVars
<1>5. PassInv(p)'
  BY <1>1, <1>4 DEF RecordInv, PassInv, Inside, Outside, Settled, storeVars
<1> QED
  BY <1>2, <1>3, <1>5 DEF Keeps

LEMMA ExchangeKeeps ==
  ASSUME IndInv, RecordInv, Forward, NEW p \in Proc,
         NEW r \in ExchangeReplies(frame[p].cur), Exchange(p, r)
  PROVE  Keeps(p)
<1> DEFINE f == frame[p].cur
<1>1. /\ pc[p] = "exchange" /\ f \in Flow
      /\ UNCHANGED <<storeVars, spoolVars, subject, historyVars>>
      /\ google' = GoogleAfter(f, r)
  BY DEF Exchange, IndInv, ProcInv, FlowInHand
<1>2. StagedInv' /\ ActiveInv' /\ NoticeInv'
  BY <1>1, StayKeeps DEF storeVars
<1>3. /\ subject[p] # None /\ frame[p].task = "attempt" /\ frame[p].disp # "connected"
      /\ frame[p].committed = CommittedGeneration(active)
      /\ \A n \in notices : n.key \in frame[p].peeked
  BY <1>1 DEF RecordInv, PassInv, Inside, Outside
<1>4. ~Superseded(p, f) /\ Taken(f) /\ ~IsActive(f)
  BY <1>1 DEF RecordInv, InHandInv, InHand
<1>5. CommittedGeneration(active)' = CommittedGeneration(active)
  BY <1>1 DEF CommittedGeneration, storeVars
<1>6. CASE ExchangeVerdict(r) = "ok" /\ Goto(p, "stage") /\ UNCHANGED <<lock, frame>>
  <2>1. r = "granted"
    BY <1>6 DEF ExchangeVerdict
  <2>2. google'[f] \in Spent
    BY <1>1, <2>1 DEF GoogleAfter, Spent, IndInv, TypeOK, GoogleTypeOK, Token
  <2>3. pc'[p] = "stage" /\ frame' = frame
    BY <1>6 DEF Goto, IndInv, TypeOK, ProcessTypeOK
  <2>4. InHandInv(p)'
    BY <1>1, <1>4, <2>2, <2>3
    DEF InHandInv, InHand, Superseded, IsActive, Taken, Unanswered, storeVars, spoolVars
  <2>5. PassInv(p)'
    BY <1>1, <1>3, <1>5, <2>3 DEF PassInv, storeVars
  <2> QED
    BY <1>2, <2>4, <2>5 DEF Keeps
<1>7. CASE ExchangeVerdict(r) = "terminal" /\ ToAck(p, f, "refused")
  <2>1. r \in {"invalid_grant", "unusable"}
    BY <1>7 DEF ExchangeVerdict, CredentialDeadCodes, ExchangeReplies, Transient, ClientRefused
  <2>2. r = "invalid_grant" => google[f] # "code"
    BY DEF ExchangeReplies, Transient, ClientRefused
  <2>3. google'[f] # "code"
    BY <1>1, <2>1, <2>2 DEF GoogleAfter, IndInv, TypeOK, GoogleTypeOK, Token
  <2>4. /\ pc'[p] = "ack" /\ frame'[p].cur = f /\ frame'[p].disp = "refused"
        /\ frame'[p].task = frame[p].task /\ frame'[p].peeked = frame[p].peeked
        /\ frame'[p].committed = frame[p].committed
    BY <1>7 DEF ToAck, Goto, IndInv, TypeOK, ProcessTypeOK, Frame
  <2>5. InHandInv(p)'
    BY <1>1, <1>4, <2>3, <2>4 DEF InHandInv, InHand, Settled, Taken, Unanswered, spoolVars
  <2>6. PassInv(p)'
    BY <1>1, <1>3, <1>5, <2>4 DEF PassInv, Settled, storeVars
  <2> QED
    BY <1>2, <2>5, <2>6 DEF Keeps
<1>8. CASE Goto(p, "finish") /\ UNCHANGED <<lock, frame>>
  <2>1. pc'[p] = "finish" /\ frame' = frame
    BY <1>8 DEF Goto, IndInv, TypeOK, ProcessTypeOK
  <2>2. PassInv(p)' /\ InHandInv(p)'
    BY <1>1, <1>3, <2>1 DEF PassInv, InHandInv, InHand, storeVars
  <2> QED
    BY <1>2, <2>2 DEF Keeps
<1>9. CASE Return(p)
  <2>1. pc'[p] \in Outside /\ frame'[p] = EmptyFrame
    BY <1>9 DEF Return, Goto, Outside, IndInv, TypeOK, ProcessTypeOK
  <2>2. pc[p] # "down" /\ subject' = subject
    BY <1>1
  <2> QED
    BY <1>2, <2>1, <2>2, LeftKeeps DEF Keeps
<1> QED
  BY <1>6, <1>7, <1>8, <1>9 DEF Exchange

LEMMA StageTokenKeeps ==
  ASSUME IndInv, RecordInv, Forward, NEW p \in Proc, StageToken(p)
  PROVE  Keeps(p)
<1> DEFINE f == frame[p].cur
<1>1. /\ pc[p] = "stage" /\ f \in Flow /\ pc'[p] = "reconcile"
      /\ UNCHANGED <<active, notices, frame, subject, spoolVars, google, historyVars>>
      /\ staged' = [token |-> f, flow |-> f, generation |-> Stamp(f)]
  BY DEF StageToken, Stage, Stamp, Goto, IndInv, TypeOK, ProcessTypeOK, ProcInv, FlowInHand
<1>2. ActiveInv' /\ NoticeInv'
  BY <1>1, ActiveKept, NoticesKept DEF RecordInv
<1>3. Taken(f) /\ google[f] \in Spent
  BY <1>1 DEF RecordInv, InHandInv, InHand
<1>4. StagedInv'
  <2>1. staged'.token = f /\ staged'.flow = f /\ staged'.generation = Stamp(f)
    BY <1>1
  <2> HIDE DEF f
  <2> QED
    BY <1>1, <1>3, <2>1 DEF StagedInv, Taken, Unanswered, Spent, Stamp, spoolVars
<1>5. CommittedGeneration(active)' = CommittedGeneration(active)
  BY <1>1 DEF CommittedGeneration
<1>6. PassInv(p)'
  BY <1>1, <1>5 DEF RecordInv, PassInv, Inside, Outside
<1>7. InHandInv(p)'
  BY <1>1 DEF InHandInv, InHand
<1> QED
  BY <1>2, <1>4, <1>6, <1>7 DEF Keeps

(* Every notice on disk is among those this pass returns, so it is counted in  *)
(* both places; one that leaves the disk was returned as often as it may be.   *)
LEMMA FinishPassKeeps ==
  ASSUME IndInv, RecordInv, Forward, NEW p \in Proc, FinishPass(p)
  PROVE  Keeps(p)
<1>1. /\ pc[p] = "finish" /\ RecordNoticesOffered /\ Return(p)
      /\ UNCHANGED <<active, staged, spoolVars, google, subject, quiet>>
      /\ offers' = [k \in Key |-> IF k \in frame[p].peeked /\ offers[k] <= NoticeLimit
                                     THEN offers[k] + 1 ELSE offers[k]]
  BY DEF FinishPass, RecordNoticesOffered
<1>2. StagedInv' /\ ActiveInv'
  BY <1>1, StageKept, ActiveKept
<1>3. PassInv(p)' /\ InHandInv(p)'
  BY <1>1, LeftKeeps DEF Return, Goto, Outside, IndInv, TypeOK, ProcessTypeOK
<1>4. \A n \in notices : n.key \in frame[p].peeked /\ n \in Notice
  BY <1>1 DEF RecordInv, PassInv, Inside, Outside, IndInv, TypeOK, StoreTypeOK, ProcessTypeOK,
       Frame, ProcInv, FlowInHand, InPass
<1>5. \A k \in Key : /\ offers[k] \in Nat /\ offers'[k] \in Nat
                     /\ offers'[k] >= offers[k]
                     /\ k \in frame[p].peeked =>
                          offers'[k] = offers[k] + 1 \/ offers'[k] > NoticeLimit
  BY <1>1, NoticeAssumption DEF IndInv, TypeOK, HistoryTypeOK
<1>6. ASSUME NEW n \in notices
      PROVE  /\ n.key \in Key /\ n.offered \in Nat /\ n.offered < NoticeLimit
             /\ n.offered + 1 <= offers'[n.key]
  <2>1. n.key \in Key /\ n.offered \in 0 .. NoticeLimit - 1
    BY <1>4 DEF Notice
  <2>2. n.offered <= offers[n.key]
    BY DEF RecordInv, NoticeInv
  <2> QED
    BY <1>4, <1>5, <2>1, <2>2, NoticeAssumption
<1>7. ASSUME NEW m \in notices' PROVE m.offered <= offers'[m.key]
  <2>1. PICK n \in notices : m = [n EXCEPT !.offered = @ + 1]
    BY <1>1 DEF RecordNoticesOffered
  <2>2. m.key = n.key /\ m.offered = n.offered + 1
    BY <1>4, <2>1 DEF Notice
  <2> QED
    BY <1>6, <2>2
<1>8. ASSUME NEW k \in quiet' PROVE Queued(k)' \/ offers'[k] >= NoticeLimit
  <2>1. k \in Key /\ k \in quiet
    BY <1>1 DEF IndInv, TypeOK, HistoryTypeOK
  <2>2. CASE offers[k] >= NoticeLimit
    BY <1>5, <2>1, <2>2, NoticeAssumption
  <2>3. CASE ~(offers[k] >= NoticeLimit)
    <3>1. PICK n \in notices : n.key = k
      BY <2>1, <2>3 DEF RecordInv, NoticeInv, QuietOutcomeIsNoticed, Queued
    <3>2. CASE n.offered + 1 < NoticeLimit
      <4>1. [n EXCEPT !.offered = @ + 1] \in notices'
        BY <1>1, <3>2 DEF RecordNoticesOffered
      <4>2. [n EXCEPT !.offered = @ + 1].key = k
        BY <1>4, <3>1 DEF Notice
      <4> QED
        BY <4>1, <4>2 DEF Queued
    <3>3. CASE ~(n.offered + 1 < NoticeLimit)
      BY <1>5, <1>6, <2>1, <3>1, <3>3, NoticeAssumption
    <3> QED
      BY <3>2, <3>3
  <2> QED
    BY <2>2, <2>3
<1>9. NoticeInv'
  BY <1>7, <1>8 DEF NoticeInv, QuietOutcomeIsNoticed
<1> QED
  BY <1>2, <1>3, <1>9 DEF Keeps

LEMMA LeaveKeeps ==
  ASSUME IndInv, RecordInv, Forward, NEW p \in Proc, Raise(p) \/ Crash(p)
  PROVE  Keeps(p)
<1>1. UNCHANGED <<storeVars, spoolVars, google, historyVars>>
  BY DEF Raise, Crash
<1>2. StagedInv' /\ ActiveInv' /\ NoticeInv'
  BY <1>1, StayKeeps DEF storeVars
<1>3. /\ pc'[p] \in Outside /\ frame'[p] = EmptyFrame
      /\ pc'[p] = "down" \/ (pc[p] # "down" /\ subject' = subject)
  BY DEF Raise, CanRaise, Return, Crash, Goto, Outside, IndInv, TypeOK, ProcessTypeOK
<1> QED
  BY <1>2, <1>3, LeftKeeps DEF Keeps

LEMMA StartKeeps ==
  ASSUME IndInv, RecordInv, Forward, NEW p \in Proc, NEW f \in Flow, Start(p, f)
  PROVE  Keeps(p)
<1>1. UNCHANGED <<storeVars, processVars, historyVars>>
  BY DEF Start
<1>2. StagedInv' /\ ActiveInv' /\ NoticeInv'
  BY <1>1, StayKeeps DEF storeVars
<1>3. PassInv(p)' /\ InHandInv(p)'
  BY <1>1, OthersKeep DEF processVars
<1> QED
  BY <1>2, <1>3 DEF Keeps

--------------------------------------------------------------------------------
LEMMA RecordInit == Init => RecordInv
<1> SUFFICES ASSUME Init PROVE RecordInv
  OBVIOUS
<1> USE DEF Init, StoreInit, SpoolInit, GoogleInit
<1>1. GrantInv
  BY FlowAssumption DEF GrantInv, Unanswered, Token
<1>2. StagedInv /\ ActiveInv
  BY DEF StagedInv, ActiveInv, V1Credential, Spent, Token
<1>3. NoticeInv
  BY DEF NoticeInv, QuietOutcomeIsNoticed
<1>4. ASSUME NEW p \in Proc PROVE PassInv(p) /\ InHandInv(p)
  BY DEF PassInv, InHandInv, InHand, Inside, Outside, Settled, EmptyFrame
<1> QED
  BY <1>1, <1>2, <1>3, <1>4 DEF RecordInv

LEMMA RecordStep ==
  ASSUME IndInv, RecordInv, [Next]_vars
  PROVE  RecordInv'
<1>1. GrantInv' /\ Forward
  BY StepForward DEF RecordInv
<1>2. CASE UNCHANGED <<storeVars, processVars, historyVars>>
  <2>1. StagedInv' /\ ActiveInv' /\ NoticeInv'
    BY <1>1, <1>2, StayKeeps DEF storeVars
  <2>2. ASSUME NEW q \in Proc PROVE PassInv(q)' /\ InHandInv(q)'
    BY <1>1, <1>2, OthersKeep DEF processVars
  <2> QED
    BY <1>1, <2>1, <2>2 DEF RecordInv
<1>3. ASSUME NEW p \in Proc, Server(p) PROVE RecordInv'
  <2>1. SUFFICES Keeps(p)
    BY <1>1, <1>3, StepKeeps DEF Keeps
  <2>2. CASE Recover(p)
    BY <1>1, <2>2, SpawnKeeps, LoadKeeps DEF Recover
  <2>3. CASE Reconcile(p)
    BY <1>1, <2>3, UnresolvedKeeps, StageSettledKeeps, StageVerifiedKeeps, PromoteKeeps,
       UnstageKeeps, ActivateKeeps, QueueOutcomeKeeps, AckFlowKeeps DEF Reconcile
  <2>4. CASE Pass(p)
    BY <1>1, <2>4, CollectPassKeeps, ListAttemptsKeeps, IterateKeeps, AdvanceKeeps,
       ExchangeKeeps, StageTokenKeeps, FinishPassKeeps DEF Pass
  <2>5. CASE Raise(p) \/ Crash(p)
    BY <1>1, <2>5, LeaveKeeps
  <2>6. CASE \E f \in Flow : Start(p, f)
    BY <1>1, <2>6, StartKeeps
  <2> QED
    BY <1>3, <2>2, <2>3, <2>4, <2>5, <2>6 DEF Server
<1>4. CASE Casa \/ User \/ Google
  BY <1>2, <1>4 DEF Casa, CasaAlone, User, Google
<1> QED
  BY <1>2, <1>3, <1>4 DEF Next, vars

(* What the store, casa and Google know of an authorization stays consistent   *)
(* with what the process at work means to do with it.                          *)
THEOREM RecordInvariance == Spec => []RecordInv
<1>1. IndInv /\ RecordInv /\ [Next]_vars => RecordInv'
  BY RecordStep
<1> QED
  BY <1>1, RecordInit, Invariance, PTL DEF Spec

(* A notice a startup acked in silence is on disk, or was returned as often as *)
(* a notice may be.                                                            *)
THEOREM QuietOutcomesAreNoticed == Spec => []QuietOutcomeIsNoticed
<1>1. RecordInv => QuietOutcomeIsNoticed
  BY DEF RecordInv, NoticeInv
<1> QED
  BY <1>1, RecordInvariance, PTL

LEMMA ExchangesOnlyNew ==
  ASSUME IndInv, RecordInv
  PROVE  StoredFlowIsNotExchanged
<1> SUFFICES ASSUME NEW p \in Proc, pc[p] = "exchange"
             PROVE  ~IsActive(frame[p].cur) /\ ~StillStages(frame[p].cur)
  BY DEF StoredFlowIsNotExchanged
<1>1. frame[p].cur \in Flow /\ staged = None
  BY DEF IndInv, ProcInv, FlowInHand, SlotDiscipline, InPass
<1>2. ~IsActive(frame[p].cur)
  BY <1>1 DEF RecordInv, InHandInv, InHand
<1> QED
  BY <1>1, <1>2 DEF StillStages

(* A code is not sent to Google again once its token is in the store.          *)
THEOREM StoredFlowsAreNotExchanged == Spec => []StoredFlowIsNotExchanged
  BY ExchangesOnlyNew, Invariance, RecordInvariance, PTL

--------------------------------------------------------------------------------
(* The six steps that write the active file or the slot.                       *)
LEMMA StoreSteps ==
  ASSUME [Next]_vars
  PROVE  \/ UNCHANGED <<active, staged>>
         \/ \E p \in Proc : \/ LoadDead(p) \/ LoadAlive(p) \/ DiscardResidue(p)
                           \/ Promote(p) \/ Unstage(p) \/ StageToken(p)
<1> USE DEF storeVars, processVars, historyVars
<1> DEFINE Writes(p) == \/ LoadDead(p) \/ LoadAlive(p) \/ DiscardResidue(p)
                        \/ Promote(p) \/ Unstage(p) \/ StageToken(p)
<1>1. ASSUME NEW p \in Proc, Recover(p) PROVE UNCHANGED <<active, staged>> \/ Writes(p)
  BY <1>1 DEF Recover, Spawn, LoadNothing
<1>2. ASSUME NEW p \in Proc, Reconcile(p) PROVE UNCHANGED <<active, staged>> \/ Writes(p)
  BY <1>2 DEF Reconcile, NothingStaged, StageRetained, StageDead, StageWrongAccount,
       StageVerified, VerifyStaged, Activate, QueueOutcome, AckFlow, QueueNotice
<1>3. ASSUME NEW p \in Proc, Iterate(p) PROVE UNCHANGED <<active, staged>>
  BY <1>3 DEF Iterate, DropSuperseded, SkipAwaiting, DropDone, CollectResult, RetryLater,
       AlreadyCommitted, ResumeHeld, GiveUpHeld, TakeResult, Take
<1>4. ASSUME NEW p \in Proc, Pass(p) PROVE UNCHANGED <<active, staged>> \/ Writes(p)
  BY <1>3, <1>4 DEF Pass, CollectPass, ListAttempts, EndLoop, Recommit, Exchange,
       FinishPass, RecordNoticesOffered
<1>5. ASSUME NEW p \in Proc, Server(p) PROVE UNCHANGED <<active, staged>> \/ Writes(p)
  <2> HIDE DEF Writes
  <2> QED
    BY <1>1, <1>2, <1>4, <1>5 DEF Server, Raise, Crash, Start
<1> HIDE DEF Writes
<1>6. UNCHANGED <<active, staged>> \/ \E p \in Proc : Writes(p)
  BY <1>5 DEF Next, Casa, CasaAlone, User, Google, vars
<1> QED
  BY <1>6 DEF Writes

(* Why a stage may be unlinked: at "reconcile" it is the residue of a commit,  *)
(* at "unstage" it was committed, is dead or is another inbox's.               *)
LEMMA DropReasons ==
  ASSUME IndInv, RecordInv, NEW p \in Proc, DiscardResidue(p) \/ Unstage(p), staged # None
  PROVE  /\ lock = p /\ subject[p] # None
         /\ \/ IsActive(staged.flow)
            \/ google[staged.flow] = "dead"
            \/ TokenAccount(staged.flow) # subject[p]
<1>1. lock = p /\ subject[p] # None
  BY DEF DiscardResidue, Unstage, IndInv, ProcInv, LockHeld, Inside, Outside, RecordInv, PassInv
<1>2. CASE DiscardResidue(p)
  BY <1>1, <1>2 DEF DiscardResidue
<1>3. CASE Unstage(p)
  <2>1. /\ pc[p] = "unstage" /\ frame[p].cur \in Flow
        /\ frame[p].disp \in Settled \cup {"connected"}
        /\ frame[p].disp = "connected" => IsActive(frame[p].cur)
    BY <1>3 DEF Unstage, IndInv, ProcInv, FlowInHand, CommitDiscipline
  <2>2. InHand(p, frame[p].cur)
    BY <2>1 DEF RecordInv, InHandInv
  <2>3. staged.flow = frame[p].cur
    BY <2>1, <2>2 DEF InHand, StillStages
  <2> QED
    BY <1>1, <2>1, <2>2, <2>3 DEF InHand, Settled
<1> QED
  BY <1>2, <1>3

(* What the unlinking of the slot needs: the candidate is connected, dead or   *)
(* not the configured inbox's.                                                *)
LEMMA DropStep ==
  ASSUME IndInv, RecordInv, [Next]_vars, staged # None, staged' = None
  PROVE  \/ IsActive(staged.flow)
         \/ google[staged.token] = "dead"
         \/ lock \in Proc /\ TokenAccount(staged.token) # subject[lock]
<1>1. PICK p \in Proc : DiscardResidue(p) \/ Unstage(p)
  BY StoreSteps
  DEF LoadDead, LoadAlive, RemoveActive, WriteActive, storeVars, Promote, StageToken, Stage,
      IndInv, ProcInv, SlotDiscipline, InPass
<1>2. staged.token = staged.flow
  BY DEF RecordInv, StagedInv
<1>3. /\ lock = p
      /\ \/ IsActive(staged.flow)
         \/ google[staged.flow] = "dead"
         \/ TokenAccount(staged.flow) # subject[p]
  BY <1>1, DropReasons
<1> QED
  BY <1>2, <1>3

(* The slot is unlinked only when nothing is lost with it.                     *)
THEOREM StagesAreDroppedOnlyWhenResolved == Spec => StageDroppedOnlyWhenResolved
  BY DropStep, Invariance, RecordInvariance, PTL DEF Spec, StageDroppedOnlyWhenResolved

--------------------------------------------------------------------------------
(* Attempts are acked in one place.                                            *)
(* What is true of an attempt when it is acked: its code or its staged token   *)
(* is of no more use.                                                         *)
LEMMA AckSteps ==
  ASSUME IndInv, [Next]_vars, NEW f \in Flow, status[f] # "acked", status'[f] = "acked"
  PROVE  \E p \in Proc : AckFlow(p) /\ frame[p].cur = f

<1> USE DEF storeVars, processVars, historyVars, spoolVars, IndInv, TypeOK, SpoolTypeOK
<1>1. status' # status
  OBVIOUS
<1>2. ASSUME NEW p \in Proc, Server(p) PROVE AckFlow(p) /\ frame[p].cur = f
  <2>1. ~Recover(p)
    BY <1>1 DEF Recover, Spawn, LoadNothing, LoadDead, LoadAlive, ToReconcile
  <2>2. Reconcile(p) => AckFlow(p)
    BY <1>1 DEF Reconcile, NothingStaged, DiscardResidue, StageRetained, StageDead,
         StageWrongAccount, StageVerified, VerifyStaged, Promote, Unstage, Activate, QueueOutcome
  <2>3. ~Iterate(p)
    BY <1>1 DEF Iterate, DropSuperseded, SkipAwaiting, DropDone, CollectResult, RetryLater,
         AlreadyCommitted, ResumeHeld, GiveUpHeld, TakeResult, Take, Collect
  <2>4. ~Pass(p)
    BY <1>1, <2>3 DEF Pass, CollectPass, ListAttempts, EndLoop, Recommit, Exchange,
         StageToken, FinishPass
  <2>5. ~(Raise(p) \/ Crash(p))
    BY <1>1 DEF Raise, Crash
  <2>6. ASSUME NEW g \in Flow, Start(p, g) PROVE FALSE
    BY <2>6 DEF Start, Mint
  <2>7. AckFlow(p)
    BY <1>2, <2>1, <2>2, <2>4, <2>5, <2>6 DEF Server
  <2> QED
    BY <2>7 DEF AckFlow, Ack
<1>3. ~Casa
  BY DEF Casa, Materialize, Land, NoteClaim, Retire
<1>4. ~User
  BY DEF User, Redirect
<1>5. ~Google
  BY <1>1 DEF Google
<1> QED
  BY <1>1, <1>2, <1>3, <1>4, <1>5 DEF Next, vars

LEMMA AckStep ==
  ASSUME IndInv, RecordInv, [Next]_vars
  PROVE  \A f \in Flow : status[f] # "acked" /\ status'[f] = "acked" =>
            /\ google[f] = "code" =>
                 \/ IsActive(f) \/ frame[lock].disp \in {"done", "lost"}
                 \/ /\ CommittedGeneration(active) # None
                    /\ Precedes(AttemptOrder(f), CommittedGeneration(active))
            /\ staged # None /\ staged.flow = f /\ google[f] = "live" =>
                 TokenAccount(f) # subject[lock]
<1> TAKE f \in Flow
<1> HAVE status[f] # "acked" /\ status'[f] = "acked"
<1>1. PICK p \in Proc : AckFlow(p) /\ frame[p].cur = f
  BY AckSteps
<1> DEFINE d == frame[p].disp
<1>2. pc[p] = "ack" /\ lock = p
  BY <1>1 DEF AckFlow, IndInv, ProcInv, LockHeld, Inside, Outside
<1>3. InHand(p, f) /\ PassInv(p)
  BY <1>1 DEF RecordInv, InHandInv
<1>4. CASE d \in Settled
  <2>1. staged.flow = f /\ google[f] \in Spent
    BY <1>2, <1>3, <1>4 DEF InHand, StillStages, RecordInv, StagedInv
  <2>2. google[f] = "dead" \/ TokenAccount(f) # subject[p]
    BY <1>2, <1>3, <1>4 DEF InHand, Settled
  <2> QED
    BY <1>2, <2>1, <2>2 DEF Spent
<1>5. CASE d \notin Settled
  <2>1. staged = None
    BY <1>2, <1>5 DEF IndInv, ProcInv, SlotDiscipline
  <2>2. CASE d \in {"connected", "committed"}
    BY <1>1, <1>2, <2>1, <2>2 DEF IndInv, ProcInv, CommitDiscipline
  <2>3. CASE d = "superseded"
    <3>1. frame[p].committed = CommittedGeneration(active)
      BY <1>2, <1>3, <2>3 DEF PassInv, Settled, Inside, Outside
    <3> QED
      BY <1>2, <1>3, <2>1, <2>3, <3>1 DEF InHand, Superseded
  <2>4. CASE d = "refused"
    BY <1>2, <1>3, <2>1, <2>4 DEF InHand
  <2>5. CASE d \in {"done", "lost"}
    BY <1>2, <2>1, <2>5
  <2>6. d \in Disposition /\ d # "none"
    BY <1>2, <1>3 DEF IndInv, TypeOK, ProcessTypeOK, Frame, PassInv
  <2> QED
    BY <1>5, <2>2, <2>3, <2>4, <2>5, <2>6 DEF Disposition, Settled
<1> QED
  BY <1>4, <1>5

(* No ack costs the user an authorization that could still be used.            *)
THEOREM AcksDestroyNothing == Spec => AckDestroysNothing
  BY AckStep, Invariance, RecordInvariance, PTL DEF Spec, AckDestroysNothing

--------------------------------------------------------------------------------
(* The slot is the candidate and the active file the connection.               *)
LEMMA ActiveGeneration ==
  ASSUME IndInv, RecordInv, active # None, active.token \in Flow
  PROVE  CommittedGeneration(active) = AttemptOrder(active.token)
<1>1. active.flow # None /\ active.token = active.flow
      /\ active.generation = Stamp(active.flow)
  BY FlowAssumption DEF RecordInv, ActiveInv
<1>2. active.flow \in Flow
  BY <1>1
<1>3. Stamp(active.flow) \in Nat
  BY <1>2, ClockAssumption DEF Stamp
<1> QED
  BY <1>1, <1>3, NoneAssumption DEF CommittedGeneration, AttemptOrder

LEMMA WorldMoves ==
  ASSUME IndInv, RecordInv, [Next]_vars
  PROVE  /\ {t \in Token : google[t] = "dead"} \subseteq {t \in Token : google'[t] = "dead"}
         /\ Abstract!World
  BY StepForward DEF RecordInv, Forward, Abstract!World, Abstract!Token, Token

LEMMA AuthorizationSteps ==
  ASSUME IndInv, RecordInv, [Next]_vars
  PROVE  Abstract!AuthorizationNext
<1> USE WorldMoves DEF Abstract!AuthorizationNext
<1>1. CASE UNCHANGED <<active, staged>>
  BY <1>1 DEF Abstract!Elsewhere
<1>2. ASSUME NEW p \in Proc, LoadDead(p) PROVE Abstract!Disconnect
  <2>1. /\ active # None /\ "terminal" \in VerifyVerdicts(active.token)
        /\ active' = None /\ staged' = staged
    BY <1>2 DEF LoadDead, DeadOnDisk, RemoveActive
  <2>2. active.token \in Token /\ google[active.token] = "dead"
    BY <2>1, DeadVerdict
    DEF RecordInv, ActiveInv, IndInv, TypeOK, StoreTypeOK, Credential
  <2> QED
    BY <2>1, <2>2 DEF Abstract!Disconnect, Abstract!Token, Token
<1>3. ASSUME NEW p \in Proc, LoadAlive(p) PROVE Abstract!Elsewhere
  <2>1. active # None /\ active' # None /\ active'.token = active.token /\ staged' = staged
    <3>1. active \in Credential /\ subject[p] \in Account \cup {None}
      BY <1>3, FlowAssumption
      DEF LoadAlive, IndInv, TypeOK, StoreTypeOK, ProcessTypeOK
    <3>2. /\ [active EXCEPT !.flow = None, !.generation = None, !.account = subject[p]]
               \in Credential
          /\ [active EXCEPT !.flow = None, !.generation = None, !.account = subject[p]].token
               = active.token
      BY <3>1 DEF Credential
    <3> QED
      BY <1>3, <3>1, <3>2, NoFileAssumption DEF LoadAlive, WriteActive, storeVars
  <2> QED
    BY <2>1 DEF Abstract!Elsewhere
<1>4. ASSUME NEW p \in Proc, DiscardResidue(p) \/ Unstage(p), staged # None
      PROVE  Abstract!LetGo
  <2>1. active' = active /\ staged' = None
    BY <1>4 DEF DiscardResidue, Unstage, DiscardStaged
  <2>2. staged.token = staged.flow /\ staged.token \in Token /\ staged.flow # None
    BY <1>4, NoneAssumption
    DEF RecordInv, StagedInv, IndInv, TypeOK, StoreTypeOK, StagedCredential, Token
  <2>3. IsActive(staged.flow) => active # None /\ active.token = staged.token
    BY <2>2 DEF IsActive, RecordInv, ActiveInv
  <2>4. staged.token # None
    BY <2>2
  <2>5. /\ lock = p /\ p # None
        /\ \/ IsActive(staged.flow)
           \/ google[staged.token] = "dead"
           \/ TokenAccount(staged.token) # subject[lock]
    BY <1>4, <2>2, DropReasons, NoneAssumption
  <2> QED
    BY <1>4, <2>1, <2>2, <2>3, <2>4, <2>5 DEF Abstract!LetGo
<1>5. ASSUME NEW p \in Proc, DiscardResidue(p) \/ Unstage(p), staged = None
      PROVE  UNCHANGED <<active, staged>>
  BY <1>5 DEF DiscardResidue, Unstage, DiscardStaged
<1>6. ASSUME NEW p \in Proc, Promote(p) PROVE Abstract!Connect
  <2>1. /\ pc[p] = "promote" /\ StillStages(frame[p].cur) /\ frame[p].cur \in Flow
        /\ lock = p /\ p # None
    BY <1>6, NoneAssumption
    DEF Promote, IndInv, ProcInv, SlotDiscipline, FlowInHand, LockHeld, Inside, Outside
  <2>2. active' = Promoted(subject[p]) /\ staged' = staged
    BY <1>6, <2>1 DEF Promote, WriteActive
  <2>3. /\ staged # None /\ staged.token = frame[p].cur /\ staged.token \in Token
        /\ TokenAccount(staged.token) = subject[p]
    BY <2>1 DEF RecordInv, StagedInv, InHandInv, InHand, StillStages, Token
  <2>4. active'.token = staged.token /\ active' # None
    <3>1. subject[p] \in Account \cup {None}
      BY FlowAssumption DEF IndInv, TypeOK, ProcessTypeOK
    <3>2. Promoted(subject[p]) \in Credential
      BY <2>3, <3>1, PromotedType DEF IndInv, TypeOK
    <3> QED
      BY <2>2, <3>2, NoFileAssumption DEF Promoted
  <2> QED
    BY <2>1, <2>2, <2>3, <2>4 DEF Abstract!Connect
<1>7. ASSUME NEW p \in Proc, StageToken(p) PROVE \E f \in Flow : Abstract!Obtain(f)
  <2> DEFINE f == frame[p].cur
  <2>1. /\ pc[p] = "stage" /\ f \in Flow /\ staged = None
        /\ active' = active /\ staged'.token = f /\ staged' # None
    <3>1. pc[p] = "stage" /\ f \in Flow /\ staged = None
      BY <1>7 DEF StageToken, IndInv, ProcInv, FlowInHand, SlotDiscipline, InPass
    <3>2. /\ active' = active
          /\ staged' = [token |-> f, flow |-> f, generation |-> Stamp(f)]
      BY <1>7 DEF StageToken, Stage, Stamp
    <3>3. Stamp(f) \in Nat
      BY <3>1, ClockAssumption DEF Stamp
    <3>4. staged' \in StagedCredential
      BY <3>1, <3>2, <3>3 DEF StagedCredential
    <3> QED
      BY <3>1, <3>2, <3>4, NoFileAssumption
  <2>2. ~Superseded(p, f) /\ frame[p].committed = CommittedGeneration(active)
    BY <2>1 DEF RecordInv, InHandInv, InHand, PassInv, Inside, Outside
  <2>3. ~Abstract!Older(f)
    <3>1. CASE active = None \/ active.token \notin Flow
      BY <3>1, NoneAssumption DEF Abstract!Older, Token
    <3>2. CASE active # None /\ active.token \in Flow
      <4>1. CommittedGeneration(active) = AttemptOrder(active.token)
        BY <3>2, ActiveGeneration
      <4>2. CommittedGeneration(active) # None
        <5>1. Stamp(active.token) \in Nat
          BY <3>2, ClockAssumption DEF Stamp
        <5>2. AttemptOrder(active.token) \in Generation
          BY <3>2, <5>1 DEF AttemptOrder, Generation
        <5> QED
          BY <4>1, <5>2, NoGenerationAssumption
      <4>3. ~Precedes(AttemptOrder(f), AttemptOrder(active.token))
        BY <2>2, <4>1, <4>2 DEF Superseded
      <4> HIDE DEF f
      <4> QED
        BY <3>2, <4>3
        DEF Abstract!Older, Abstract!Precedes, Abstract!AttemptOrder, Abstract!Stamp,
            Precedes, AttemptOrder, Stamp
    <3> QED
      BY <3>1, <3>2
  <2>4. Abstract!Obtain(f)
    BY <2>1, <2>3 DEF Abstract!Obtain
  <2> QED
    BY <2>1, <2>4
<1> QED
  BY <1>1, <1>2, <1>3, <1>4, <1>5, <1>6, <1>7, StoreSteps

LEMMA AuthorizationInitially == Init => Abstract!AuthorizationInit
<1> SUFFICES ASSUME Init PROVE Abstract!AuthorizationInit
  OBVIOUS
<1> USE DEF Init, StoreInit, GoogleInit
<1>1. /\ (IF active = None THEN None ELSE active.token) \in {None, Legacy}
      /\ staged = None /\ lock = None /\ \A t \in Token : google[t] # "dead"
  BY DEF V1Credential
<1> QED
  BY <1>1 DEF Abstract!AuthorizationInit

(* Through crashes, retries and other servers' recoveries the sign-in flow does*)
(* to the user's authorizations only what Authorization allows.                *)
THEOREM FlowImplementsAuthorization == Spec => ImplementsAuthorization
<1>1. Init => Abstract!AuthorizationInit
  BY AuthorizationInitially
<1>2. IndInv /\ RecordInv /\ [Next]_vars =>
        [Abstract!AuthorizationNext]_(Abstract!authorizationVars)
  BY AuthorizationSteps
<1> QED
  BY <1>1, <1>2, Invariance, RecordInvariance, PTL
  DEF Spec, ImplementsAuthorization, Abstract!AuthorizationSpec

--------------------------------------------------------------------------------
(* The active credential is of the inbox it was verified for, and what the     *)
(* tools of a process use was so when they took it.                            *)
ServiceInv ==
  /\ active # None /\ active.account # None =>
       active.account \in Subject /\ TokenAccount(active.token) = active.account
  /\ \A p \in Proc : serving[p] # None =>
       /\ pc[p] # "down" /\ TokenAccount(serving[p]) = subject[p]
       /\ serving[p] = Legacy \/ Taken(serving[p])

(* The address is not changed from one lifetime of a server to the next.       *)
OneInbox == \A s, t \in Subject : s = t

(* Who consented to a collected grant does not change.                         *)
LEMMA AccountKept ==
  ASSUME Forward, NEW t \in Token, t = Legacy \/ Taken(t)
  PROVE  TokenAccount(t)' = TokenAccount(t) /\ (t = Legacy \/ Taken(t)')
  BY DEF Forward, TokenAccount, Token

(* What the tools of a process use changes in three steps, all at the active   *)
(* credential; its address changes while nothing is in use.                    *)
LEMMA ServingSteps ==
  ASSUME IndInv, [Next]_vars, NEW q \in Proc, serving'[q] # None
  PROVE  /\ subject'[q] = subject[q] \/ pc[q] = "down"
         /\ pc'[q] # "down" \/ pc[q] = "down"
         /\ \/ serving'[q] = serving[q]
            \/ /\ serving'[q] = active.token
               /\ LoadAlive(q) \/ Activate(q) \/ Recommit(q)
<1> USE DEF IndInv, TypeOK, ProcessTypeOK, Goto
<1> DEFINE Same == /\ subject'[q] = subject[q]
                   /\ pc'[q] # "down" \/ pc[q] = "down"
                   /\ serving'[q] = serving[q]
<1>1. CASE UNCHANGED processVars
  BY <1>1 DEF processVars
<1>2. ASSUME NEW p \in Proc, Server(p), p # q PROVE Same
  <2>1. pc'[q] = pc[q] /\ subject'[q] = subject[q]
    BY <1>2, StepsInside
  <2>2. serving'[q] = serving[q]
    BY <1>2
    DEF Server, Recover, Spawn, LoadNothing, LoadDead, LoadAlive, Activated, ToReconcile,
        Reconcile, NothingStaged, DiscardResidue, StageRetained, StageDead, StageWrongAccount,
        StageVerified, VerifyStaged, Promote, Unstage, Activate, QueueOutcome, AckFlow,
        Pass, CollectPass, ListAttempts, Iterate, DropSuperseded, SkipAwaiting, DropDone,
        CollectResult, RetryLater, AlreadyCommitted, ResumeHeld, GiveUpHeld, TakeResult, Take,
        EndLoop, Recommit, Exchange, StageToken, FinishPass, Raise, Crash, Start, processVars
  <2> QED
    BY <2>1, <2>2
<1>3. CASE Recover(q)
  BY <1>3 DEF Recover, Spawn, LoadNothing, LoadDead, LoadAlive, Activated, ToReconcile
<1>4. CASE Reconcile(q)
  <2>1. subject' = subject /\ pc'[q] # "down"
    BY <1>4 DEF Reconcile, NothingStaged, DiscardResidue, StageRetained, StageDead,
         StageWrongAccount, StageVerified, VerifyStaged, Promote, Unstage, Activate,
         QueueOutcome, AckFlow, Resolved, Return, Settle
  <2>2. serving' = serving \/ (Activate(q) /\ serving'[q] = active.token)
    BY <1>4 DEF Reconcile, NothingStaged, DiscardResidue, StageRetained, StageDead,
         StageWrongAccount, StageVerified, VerifyStaged, Promote, Unstage, Activate, Activated,
         QueueOutcome, AckFlow
  <2> QED
    BY <2>1, <2>2
<1>5. CASE Pass(q)
  <2>1. Iterate(q) => Same
    BY DEF Iterate, DropSuperseded, SkipAwaiting, DropDone, CollectResult, RetryLater,
       AlreadyCommitted, ResumeHeld, GiveUpHeld, TakeResult, Take
  <2>2. CASE ~Iterate(q)
    <3>1. subject' = subject /\ pc'[q] # "down"
      BY <1>5, <2>2 DEF Pass, CollectPass, ListAttempts, EndLoop, Recommit, Exchange, ToAck,
           StageToken, FinishPass, Return
    <3>2. serving' = serving \/ (Recommit(q) /\ serving'[q] = active.token)
      BY <1>5, <2>2 DEF Pass, CollectPass, ListAttempts, EndLoop, Recommit, Activated, Exchange,
           StageToken, FinishPass
    <3> QED
      BY <3>1, <3>2
  <2> QED
    BY <2>1, <2>2
<1>6. CASE Raise(q) \/ Crash(q) \/ \E f \in Flow : Start(q, f)
  BY <1>6 DEF Raise, Return, Crash, Start, processVars
<1>7. ~(\E p \in Proc : Server(p)) => UNCHANGED processVars
  BY DEF Next, Casa, CasaAlone, User, Google, vars
<1> QED
  BY <1>1, <1>2, <1>3, <1>4, <1>5, <1>6, <1>7 DEF Server

LEMMA ActiveAccountStep ==
  ASSUME IndInv, RecordInv, ServiceInv, Forward, [Next]_vars,
         active' # None, active'.account # None
  PROVE  active'.account \in Subject /\ TokenAccount(active.token)' = active'.account
<1>1. CASE active' = active
  <2>1. active.token \in Token /\ (active.token = Legacy \/ Taken(active.token))
    BY <1>1 DEF IndInv, TypeOK, StoreTypeOK, Credential, RecordInv, ActiveInv
  <2> QED
    BY <1>1, <2>1, AccountKept DEF ServiceInv
<1>2. ASSUME NEW p \in Proc, LoadAlive(p), active' # active
      PROVE  active'.account \in Subject /\ TokenAccount(active.token)' = active'.account
  <2>1. /\ active # None /\ active.account = None
        /\ TokenAccount(active.token) = subject[p]
        /\ active' = [active EXCEPT !.flow = None, !.generation = None,
                                    !.account = subject[p]]
        /\ answer' = answer
    BY <1>2 DEF LoadAlive, WriteActive, storeVars, ToReconcile, spoolVars
  <2>2. active'.account = subject[p] /\ active'.token = active.token
    BY <2>1 DEF IndInv, TypeOK, StoreTypeOK, Credential
  <2>3. subject[p] \in Subject
    BY <2>2 DEF IndInv, TypeOK, ProcessTypeOK
  <2> QED
    BY <2>1, <2>2, <2>3 DEF TokenAccount
<1>3. ASSUME NEW p \in Proc, Promote(p)
      PROVE  active'.account \in Subject /\ TokenAccount(active.token)' = active'.account
  <2>1. /\ pc[p] = "promote" /\ StillStages(frame[p].cur) /\ frame[p].cur \in Flow
    BY <1>3 DEF Promote, IndInv, ProcInv, SlotDiscipline, FlowInHand
  <2>2. active' = Promoted(subject[p]) /\ answer' = answer
    BY <1>3, <2>1 DEF Promote, WriteActive, spoolVars
  <2>3. staged.token = frame[p].cur /\ TokenAccount(frame[p].cur) = subject[p]
    BY <2>1 DEF RecordInv, StagedInv, InHandInv, InHand, StillStages
  <2>4. active'.token = frame[p].cur /\ active'.account = subject[p]
    BY <2>2, <2>3 DEF Promoted
  <2>5. subject[p] \in Subject
    BY <2>4 DEF IndInv, TypeOK, ProcessTypeOK
  <2> QED
    BY <2>2, <2>3, <2>4, <2>5 DEF TokenAccount
<1> QED
  BY <1>1, <1>2, <1>3, StoreSteps
  DEF LoadDead, RemoveActive, DiscardResidue, Unstage, DiscardStaged, StageToken, Stage

LEMMA ServiceInit == Init => ServiceInv
  BY DEF Init, StoreInit, V1Credential, ServiceInv

(* Every step keeps the service invariant when there is one inbox.             *)
LEMMA ServiceStep ==
  ASSUME OneInbox, IndInv, RecordInv, ServiceInv, [Next]_vars
  PROVE  ServiceInv'
<1>1. Forward
  BY StepForward DEF RecordInv
<1>2. active' # None /\ active'.account # None =>
        active'.account \in Subject /\ TokenAccount(active.token)' = active'.account
  BY <1>1, ActiveAccountStep
<1>3. ASSUME NEW q \in Proc, serving'[q] # None
      PROVE  /\ pc'[q] # "down" /\ TokenAccount(serving[q])' = subject'[q]
             /\ serving'[q] = Legacy \/ Taken(serving[q])'
  <2>1. CASE serving'[q] = serving[q]
    <3>1. serving[q] # None /\ serving[q] \in Token
      BY <1>3, <2>1 DEF IndInv, TypeOK, ProcessTypeOK
    <3>2. /\ pc[q] # "down" /\ TokenAccount(serving[q]) = subject[q]
          /\ serving[q] = Legacy \/ Taken(serving[q])
      BY <3>1 DEF ServiceInv
    <3>3. pc'[q] # "down" /\ subject'[q] = subject[q]
      BY <1>3, <3>2, ServingSteps
    <3> QED
      BY <1>1, <2>1, <3>1, <3>2, <3>3 DEF Forward, TokenAccount, Token, Taken, Unanswered
  <2>2. CASE serving'[q] # serving[q]
    <3>1. /\ serving'[q] = active.token
          /\ LoadAlive(q) \/ Activate(q) \/ Recommit(q)
      BY <1>3, <2>2, ServingSteps
    <3>2. /\ active # None /\ UNCHANGED <<answer, status, result, subject>>
          /\ pc'[q] # "down" /\ subject[q] # None
      BY <3>1
      DEF LoadAlive, ToReconcile, Activate, Settle, Resolved, Return, Recommit, Goto, spoolVars,
          IsActive, IndInv, TypeOK, ProcessTypeOK, ProcInv, CommitDiscipline, RecordInv, PassInv
    <3>3. TokenAccount(active.token) = subject[q]
      <4>1. CASE active.account # None
        <5>1. active.account \in Subject /\ TokenAccount(active.token) = active.account
          BY <3>2, <4>1 DEF ServiceInv
        <5>2. subject[q] \in Subject
          BY <3>2 DEF IndInv, TypeOK, ProcessTypeOK
        <5> QED
          BY <5>1, <5>2 DEF OneInbox
      <4>2. CASE active.account = None
        <5>1. ~Activate(q) /\ ~Recommit(q)
          BY <3>2, <4>2, NoneAssumption
          DEF Activate, Recommit, IndInv, ProcInv, CommitDiscipline, FlowInHand, IsActive,
              RecordInv, ActiveInv, Token
        <5> QED
          BY <3>1, <3>2, <4>2, <5>1 DEF LoadAlive
      <4> QED
        BY <4>1, <4>2
    <3>4. active.token \in Token /\ (active.token = Legacy \/ Taken(active.token))
      BY <3>2 DEF IndInv, TypeOK, StoreTypeOK, Credential, RecordInv, ActiveInv
    <3> QED
      BY <3>1, <3>2, <3>3, <3>4 DEF TokenAccount, Taken, Unanswered
  <2> QED
    BY <2>1, <2>2
<1> QED
  BY <1>2, <1>3 DEF ServiceInv

(* As long as the configured address stays the same, every process's tools are *)
(* those of that inbox (the committed path of a pass does not compare it).     *)
THEOREM OneInboxServed ==
  ASSUME OneInbox
  PROVE  Spec => []ServingMatchesSubject
<1>1. Init => ServiceInv
  BY ServiceInit
<1>2. IndInv /\ RecordInv /\ ServiceInv /\ [Next]_vars => ServiceInv'
  BY ServiceStep
<1>3. ServiceInv => ServingMatchesSubject
  BY DEF ServiceInv, ServingMatchesSubject
<1> QED
  BY <1>1, <1>2, <1>3, Invariance, RecordInvariance, PTL DEF Spec

================================================================================
