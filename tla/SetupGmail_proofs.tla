---------------------------- MODULE SetupGmail_proofs --------------------------
(* Safety of setup_gmail over the authorization flow, for every set of server  *)
(* processes and links.  A call of the tool adds two kinds of step to the flow,*)
(* the mint (AuthFlow's Start) and the probe that puts a credential in service,*)
(* so the inductive invariants of AuthFlow_proofs and Authorization_proofs are *)
(* reused step by step, and what they give the flow alone holds under the tool.*)
EXTENDS SetupGmail, Authorization_proofs

(* A process at rest in AuthFlow may change what its tools use.                *)
LEMMA ServeAtRest ==
  ASSUME IndInv, NEW p \in Proc, NEW t \in Token, pc[p] = "idle",
         serving' = [serving EXCEPT ![p] = t],
         UNCHANGED <<storeVars, spoolVars, google, lock, pc, frame, subject, historyVars>>
  PROVE  IndInv'
<1> USE DEF storeVars, spoolVars, historyVars
<1>1. TypeOK'
  BY DEF IndInv, TypeOK, StoreTypeOK, SpoolTypeOK, GoogleTypeOK, ProcessTypeOK, HistoryTypeOK
<1>2. ProcInv(p)'
  BY DEF IndInv, ProcInv, LockHeld, FlowInHand, SlotDiscipline, CommitDiscipline,
         Inside, Outside, InPass, IsActive, StillStages
<1>3. \A q \in Proc \ {p} :
        pc'[q] = pc[q] /\ frame'[q] = frame[q] /\ serving'[q] = serving[q]
  BY DEF IndInv, TypeOK, ProcessTypeOK
<1> QED
  BY <1>1, <1>2, <1>3, StepInv DEF IndInv

(* No step of a process moves another one.                                     *)
LEMMA MovesItself ==
  ASSUME IndInv, NEW p \in Proc,
         Recover(p) \/ Reconcile(p) \/ Pass(p) \/ Raise(p) \/ Crash(p),
         NEW q \in Proc \ {p}
  PROVE  pc'[q] = pc[q]
<1> USE DEF Goto, IndInv, TypeOK, ProcessTypeOK
<1>1. CASE Recover(p)
  BY <1>1 DEF Recover, Spawn, LoadNothing, LoadDead, LoadAlive, ToReconcile
<1>2. CASE Reconcile(p)
  <2> USE ResolvedLocal
  <2>1. CASE NothingStaged(p) \/ DiscardResidue(p) \/ StageRetained(p) \/ Promote(p)
    BY <2>1 DEF NothingStaged, DiscardResidue, StageRetained, Promote
  <2>2. CASE StageDead(p) \/ StageWrongAccount(p) \/ StageVerified(p) \/ QueueOutcome(p)
    BY <2>2 DEF StageDead, StageWrongAccount, StageVerified, QueueOutcome, Settle
  <2>3. CASE Unstage(p) \/ Activate(p) \/ AckFlow(p)
    BY <2>3 DEF Unstage, Activate, AckFlow, Settle
  <2> QED
    BY <1>2, <2>1, <2>2, <2>3 DEF Reconcile
<1>3. CASE Pass(p)
  <2>1. CASE Iterate(p)
    BY <2>1 DEF Iterate, DropSuperseded, SkipAwaiting, DropDone, CollectResult, RetryLater,
         AlreadyCommitted, ResumeHeld, GiveUpHeld, TakeResult, Take
  <2>2. ASSUME NEW r \in ExchangeReplies(frame[p].cur), Exchange(p, r)
        PROVE  pc'[q] = pc[q]
    BY <2>2 DEF Exchange, ToAck, Return
  <2>3. CASE CollectPass(p) \/ ListAttempts(p) \/ EndLoop(p) \/ Recommit(p)
             \/ StageToken(p) \/ FinishPass(p)
    BY <2>3 DEF CollectPass, ListAttempts, EndLoop, Recommit, StageToken, FinishPass, Return
  <2> QED
    BY <1>3, <2>1, <2>2, <2>3 DEF Pass
<1>4. CASE Raise(p) \/ Crash(p)
  BY <1>4 DEF Raise, Crash, Return
<1> QED
  BY <1>1, <1>2, <1>3, <1>4

(* Only a mint opens a state: no other step of the flow, of casa or of the     *)
(* user makes one claimable that was not.                                      *)
LEMMA NothingReopens ==
  ASSUME SpoolTypeOK, NEW f \in Flow, Open(f)',
         \/ \E p \in Proc : Recover(p) \/ Reconcile(p) \/ Pass(p) \/ Raise(p) \/ Crash(p)
         \/ Casa \/ User \/ Google
  PROVE  Open(f)
<1> USE DEF Open, spoolVars
<1>1. ASSUME NEW p \in Proc, Recover(p) \/ Raise(p) \/ Crash(p) PROVE Open(f)
  BY <1>1 DEF Recover, Spawn, LoadNothing, LoadDead, LoadAlive, ToReconcile, Raise, Crash
<1>2. ASSUME NEW p \in Proc, Reconcile(p) PROVE Open(f)
  <2>1. CASE AckFlow(p)
    BY <2>1 DEF AckFlow, Ack, SpoolTypeOK
  <2> QED
    BY <1>2, <2>1 DEF Reconcile, NothingStaged, DiscardResidue, StageRetained, StageDead,
         StageWrongAccount, StageVerified, VerifyStaged, Promote, Unstage, Activate,
         QueueOutcome
<1>3. ASSUME NEW p \in Proc, Pass(p) PROVE Open(f)
  <2>1. CASE Iterate(p)
    BY <2>1 DEF Iterate, DropSuperseded, SkipAwaiting, DropDone, CollectResult, RetryLater,
         AlreadyCommitted, ResumeHeld, GiveUpHeld, Collect
  <2> QED
    BY <1>3, <2>1 DEF Pass, CollectPass, ListAttempts, EndLoop, Recommit, Exchange,
         StageToken, FinishPass
<1>4. ASSUME Casa PROVE Open(f)
  BY <1>4 DEF Casa, Materialize, Land, NoteClaim, Retire, SpoolTypeOK
<1>5. ASSUME User \/ Google PROVE Open(f)
  BY <1>5 DEF User, Redirect, Google, SpoolTypeOK
<1> QED
  BY <1>1, <1>2, <1>3, <1>4, <1>5

--------------------------------------------------------------------------------
(* A step that leaves the links, the spool and every process where they are:   *)
(* what a call of p must show when it only moves itself.                       *)
LEMMA CallMoves ==
  ASSUME SetupInv, NEW p \in Proc, NEW at \in Stations, NEW t \in Token \cup {None},
         IndInv', Proceed(p, at, t), UNCHANGED <<link, status, pc>>,
         at # "none" => pc[p] = "idle",
         at \in {"deposit", "link"} => t \in Flow,
         at = "probe" => t \in Token,
         at \in {"attempts", "mint"} =>
           \A f \in Flow : link[f].by = p /\ Live(f) => f \in setup[p].past
  PROVE  SetupInv'
<1> USE DEF SetupInv
<1>1. SetupTypeOK'
  BY ZenonT(40) DEF SetupTypeOK, Proceed, IndInv
<1>2. ASSUME NEW q \in Proc PROVE CallInv(q)'
  <2>1. CASE q = p
    BY <2>1 DEF CallInv, Proceed, SetupTypeOK, Live, Open
  <2>2. CASE q # p
    BY <2>2 DEF CallInv, Proceed, SetupTypeOK, Live, Open
  <2> QED
    BY <2>1, <2>2
<1>3. OneLiveLinkPerServer'
  BY DEF OneLiveLinkPerServer, Overlooked, Live, Open
<1> QED
  BY <1>1, <1>2, <1>3

(* A step outside the calls: links may run out and states may close, processes *)
(* that are inside a call stay at rest.                                        *)
LEMMA CallsUndisturbed ==
  ASSUME SetupInv, IndInv', SetupTypeOK',
         \A q \in Proc : \/ setup'[q] = NotCalled
                         \/ setup'[q] = setup[q] /\ (setup[q].at # "none" => pc'[q] = pc[q]),
         \A f \in Flow : /\ link'[f].by = link[f].by /\ link'[f].past = link[f].past
                         /\ Live(f)' => Live(f)
                         /\ link'[f].fresh => link[f].fresh
  PROVE  SetupInv'
<1> USE DEF SetupInv
<1>1. ASSUME NEW q \in Proc PROVE CallInv(q)'
  BY DEF CallInv, NotCalled
<1>2. OneLiveLinkPerServer'
  BY DEF OneLiveLinkPerServer, Overlooked
<1> QED
  BY <1>1, <1>2

LEMMA CallSetupInv ==
  ASSUME SetupInv, NEW p \in Proc, CallSetup(p)
  PROVE  SetupInv'
<1>1. IndInv'
  BY StutterInv DEF CallSetup, SetupInv
<1>2. CASE IsStored(p)
  <2>1. active.token \in Token
    BY <1>2 DEF IsStored, SetupInv, IndInv, TypeOK, StoreTypeOK, Credential
  <2> QED
    BY <1>1, <1>2, <2>1, CallMoves DEF CallSetup, Stations, vars, spoolVars, processVars
<1>3. CASE ~IsStored(p)
  BY <1>1, <1>3, CallMoves DEF CallSetup, Stations, vars, spoolVars, processVars
<1> QED
  BY <1>2, <1>3

LEMMA ProbeInv ==
  ASSUME SetupInv, NEW p \in Proc, Probe(p)
  PROVE  SetupInv'
<1>1. setup[p].about \in Token /\ pc[p] = "idle"
  BY DEF Probe, SetupInv, CallInv
<1>2. UNCHANGED <<link, status, pc>>
  BY DEF Probe, Looks, vars, spoolVars, processVars
<1>3. IndInv'
  <2>1. CASE UNCHANGED vars
    BY <2>1, StutterInv DEF SetupInv
  <2>2. CASE ~UNCHANGED vars
    BY <1>1, <2>2, ServeAtRest DEF Probe, Looks, SetupInv
  <2> QED
    BY <2>1, <2>2
<1>4. PICK at \in {"already_connected", "unavailable", "retry_later",
                   "configuration_error", "pending"} : Proceed(p, at, setup[p].about)
  BY DEF Probe, Looks
<1> QED
  BY <1>1, <1>2, <1>3, <1>4, CallMoves DEF Stations, Answers

(* A look that finds nothing, or passes over what is there, remembers every    *)
(* live link.                                                                  *)
LEMMA PassesOver ==
  ASSUME SetupInv, NEW p \in Proc, IndInv', pc[p] = "idle",
         setup' = [setup EXCEPT ![p].at = "attempts",
                                ![p].past = {f \in Flow : InPending(f)}],
         UNCHANGED <<vars, link>>
  PROVE  SetupInv'
<1> USE DEF SetupInv
<1>1. SetupTypeOK'
  BY ZenonT(40) DEF SetupTypeOK, Stations, IndInv
<1>2. UNCHANGED <<link, status, pc>>
  BY DEF vars, spoolVars, processVars
<1>3. ASSUME NEW q \in Proc PROVE CallInv(q)'
  <2>1. CASE q = p
    <3>1. setup'[p].at = "attempts" /\ setup'[p].past = {f \in Flow : InPending(f)}
      BY DEF SetupTypeOK
    <3> QED
      BY <1>2, <2>1, <3>1 DEF CallInv, InPending, Live, Open
  <2>2. CASE q # p
    BY <1>2, <2>2 DEF CallInv, SetupTypeOK, Live, Open
  <2> QED
    BY <2>1, <2>2
<1>4. OneLiveLinkPerServer'
  BY <1>2 DEF OneLiveLinkPerServer, Overlooked, Live, Open
<1> QED
  BY <1>1, <1>2, <1>3, <1>4

LEMMA LookInv ==
  ASSUME SetupInv, NEW p \in Proc,
         LookPending(p) \/ LookAttempts(p) \/ RouteClosed(p) \/ Deposit(p)
  PROVE  SetupInv'
<1>1. pc[p] = "idle" /\ setup[p].about \in Token \cup {None}
  BY DEF LookPending, LookAttempts, RouteClosed, Deposit, SetupInv, CallInv, SetupTypeOK
<1>2. UNCHANGED <<vars, link, status, pc>>
  BY DEF LookPending, LookAttempts, RouteClosed, Deposit, Looks, vars, spoolVars, processVars
<1>3. IndInv'
  BY <1>2, StutterInv DEF SetupInv
<1>4. CASE LookPending(p)
  <2>1. CASE Looks(p, "already_pending")
    BY <1>1, <1>2, <1>3, <2>1, CallMoves DEF Looks, Stations, Answers
  <2>2. CASE /\ setup' = [setup EXCEPT ![p].at = "attempts",
                                      ![p].past = {f \in Flow : InPending(f)}]
             /\ UNCHANGED <<vars, link>>
    BY <1>1, <1>3, <2>2, PassesOver
  <2> QED
    BY <1>4, <2>1, <2>2 DEF LookPending
<1>5. CASE LookAttempts(p)
  <2>1. \A f \in Flow : link[f].by = p /\ Live(f) => f \in setup[p].past
    BY <1>5 DEF LookAttempts, SetupInv, CallInv
  <2>2. PICK at \in {"already_pending", "mint"} : Proceed(p, at, setup[p].about)
    BY <1>5 DEF LookAttempts, Looks
  <2> QED
    BY <1>1, <1>2, <1>3, <2>1, <2>2, CallMoves DEF Stations, Answers
<1>6. CASE RouteClosed(p)
  BY <1>1, <1>2, <1>3, <1>6, CallMoves DEF RouteClosed, Looks, Stations, Answers
<1>7. CASE Deposit(p)
  <2>1. setup[p].about \in Flow
    BY <1>7 DEF Deposit, SetupInv, CallInv
  <2>2. PICK at \in {"link", "link_not_handed_over"} : Proceed(p, at, setup[p].about)
    BY <1>7 DEF Deposit, Looks
  <2> QED
    BY <1>1, <1>2, <1>3, <2>1, <2>2, CallMoves DEF Stations, Answers
<1> QED
  BY <1>4, <1>5, <1>6, <1>7

(* The step the property is about: the new link is live, and no other link of  *)
(* this server is but those that the call's look at pending/ passed over.      *)
LEMMA MintLinkInv ==
  ASSUME SetupInv, NEW p \in Proc, NEW f \in Flow, MintLink(p, f)
  PROVE  SetupInv'
<1> USE DEF MintLink, SetupInv
<1>1. IndInv'
  BY StartInv
<1>2. f \in Token /\ p \in Proc \cup {None} /\ setup[p].past \in SUBSET Flow
  BY DEF Token, SetupTypeOK
<1>3. SetupTypeOK'
  BY <1>1, <1>2 DEF SetupTypeOK, Stations, IndInv
<1>4. /\ link'[f] = [by |-> p, fresh |-> TRUE, handed |-> FALSE, past |-> setup[p].past]
      /\ \A g \in Flow \ {f} : link'[g] = link[g] /\ status'[g] = status[g]
  BY DEF SetupTypeOK, Start, Mint, TypeOK, SpoolTypeOK
<1>5. UNCHANGED pc /\ pc[p] = "idle"
  BY DEF Start, processVars
<1>6. \A g \in Flow : link[g].by = p /\ Live(g) => g \in setup[p].past
  BY DEF CallInv
<1>7. ASSUME NEW q \in Proc PROVE CallInv(q)'
  <2>1. CASE q = p
    BY <1>5, <2>1 DEF CallInv, SetupTypeOK
  <2>2. CASE q # p
    <3>1. setup'[q] = setup[q]
      BY <2>2 DEF SetupTypeOK
    <3>2. ASSUME setup[q].at \in {"attempts", "mint"}, NEW g \in Flow, link'[g].by = q,
                 Live(g)'
          PROVE  g \in setup[q].past
      BY <1>4, <2>2, <3>2 DEF CallInv, Live, Open
    <3> QED
      BY <1>5, <3>1, <3>2 DEF CallInv
  <2> QED
    BY <2>1, <2>2
<1>8. OneLiveLinkPerServer'
  <2>1. ASSUME NEW g \in Flow \ {f}, link'[g].by = p, Live(g)'
        PROVE  g \in link'[f].past
    BY <1>4, <1>6, <2>1 DEF Live, Open
  <2>2. ASSUME NEW g \in Flow \ {f}, NEW h \in Flow \ {f}, Live(g)', Live(h)',
               link'[g].by = link'[h].by
        PROVE  g = h \/ Overlooked(g, h)'
    BY <1>4, <2>2 DEF OneLiveLinkPerServer, Overlooked, Live, Open
  <2> QED
    BY <1>4, <2>1, <2>2 DEF OneLiveLinkPerServer, Overlooked
<1>9. \A g \in Flow : link'[g].fresh => link'[g].by \in Proc
  BY <1>4
<1> QED
  BY <1>1, <1>3, <1>7, <1>8, <1>9

(* The two things that happen to a minted link keep its record what it is.     *)
LinkRecord == [by: Proc \cup {None}, fresh: BOOLEAN, handed: BOOLEAN, past: SUBSET Flow]

LEMMA LinkRecordTouched ==
  ASSUME NEW r \in LinkRecord
  PROVE  [r EXCEPT !.handed = TRUE] \in LinkRecord /\ [r EXCEPT !.fresh = FALSE] \in LinkRecord
<1>1. [r EXCEPT !.handed = TRUE] \in LinkRecord
  BY DEF LinkRecord
<1>2. [r EXCEPT !.fresh = FALSE] \in LinkRecord
  BY DEF LinkRecord
<1> QED
  BY <1>1, <1>2

LEMMA LinkFieldsType ==
  ASSUME NEW l \in [Flow -> LinkRecord], NEW f \in Flow
  PROVE  /\ [l EXCEPT ![f].handed = TRUE] \in [Flow -> LinkRecord]
         /\ [l EXCEPT ![f].fresh = FALSE] \in [Flow -> LinkRecord]
<1>1. /\ [l EXCEPT ![f].handed = TRUE] = [l EXCEPT ![f] = [l[f] EXCEPT !.handed = TRUE]]
      /\ [l EXCEPT ![f].fresh = FALSE] = [l EXCEPT ![f] = [l[f] EXCEPT !.fresh = FALSE]]
  OBVIOUS
<1> QED
  BY <1>1, LinkRecordTouched

LEMMA AnsweredInv ==
  ASSUME SetupInv, NEW p \in Proc, Answered(p)
  PROVE  SetupInv'
<1> USE DEF Answered, SetupInv
<1>1. IndInv'
  BY StutterInv
<1>2. setup[p].at = "link" => setup[p].about \in Flow
  BY DEF CallInv
<1>3. link' \in [Flow -> LinkRecord]
  <2>1. link \in [Flow -> LinkRecord]
    BY DEF SetupTypeOK, LinkRecord
  <2>2. CASE setup[p].at = "link"
    BY <1>2, <2>1, <2>2, LinkFieldsType
  <2> QED
    BY <2>1, <2>2
<1>4. \A f \in Flow : /\ link'[f].by = link[f].by /\ link'[f].past = link[f].past
                     /\ link'[f].fresh = link[f].fresh
  BY DEF SetupTypeOK
<1>5. SetupTypeOK'
  BY <1>1, <1>3 DEF SetupTypeOK, NotCalled, Stations, IndInv, LinkRecord
<1>6. \A q \in Proc : \/ setup'[q] = NotCalled
                      \/ setup'[q] = setup[q] /\ pc'[q] = pc[q]
  BY DEF SetupTypeOK, vars, processVars
<1>7. \A f \in Flow : Live(f)' => Live(f)
  BY <1>4 DEF Live, Open, vars, spoolVars
<1> QED
  BY <1>1, <1>4, <1>5, <1>6, <1>7, CallsUndisturbed

LEMMA OtherwiseInv ==
  ASSUME SetupInv, NEW p \in Proc, Otherwise(p)
  PROVE  SetupInv'
<1> USE DEF SetupInv
<1>1. Recover(p) \/ Reconcile(p) \/ Pass(p) \/ Raise(p) \/ Crash(p)
  BY DEF Otherwise
<1>2. IndInv'
  <2>1. Next
    BY <1>1 DEF Next, Server
  <2> QED
    BY <2>1, NextInv
<1>3. /\ UNCHANGED link
      /\ setup' = setup \/ setup' = [setup EXCEPT ![p] = NotCalled]
  BY DEF Otherwise, setupVars
<1>4. SetupTypeOK'
  BY <1>2, <1>3 DEF SetupTypeOK, NotCalled, Stations, IndInv
<1>5. ASSUME NEW q \in Proc
      PROVE  \/ setup'[q] = NotCalled
             \/ setup'[q] = setup[q] /\ (setup[q].at # "none" => pc'[q] = pc[q])
  <2>1. CASE q = p
    <3>1. CASE Crash(p)
      BY <1>3, <2>1, <3>1 DEF Otherwise, setupVars, SetupTypeOK
    <3>2. CASE ~Crash(p)
      BY <2>1, <3>2 DEF Otherwise, setupVars
    <3> QED
      BY <3>1, <3>2
  <2>2. CASE q # p
    BY <1>1, <1>3, <2>2, MovesItself DEF SetupTypeOK
  <2> QED
    BY <2>1, <2>2
<1>6. ASSUME NEW f \in Flow, Live(f)' PROVE Live(f)
  BY <1>1, <1>3, <1>6, NothingReopens DEF Live, IndInv, TypeOK
<1> QED
  BY <1>2, <1>3, <1>4, <1>5, <1>6, CallsUndisturbed

LEMMA OutsideInv ==
  ASSUME SetupInv, OpenLink \/ Environment \/ \E f \in Flow : Expire(f)
  PROVE  SetupInv'
<1> USE DEF SetupInv
<1>1. CASE OpenLink \/ Environment
  <2>1. (User \/ Casa \/ Google) /\ UNCHANGED setupVars
    BY <1>1 DEF OpenLink, Environment
  <2>2. IndInv'
    BY <2>1, NextInv DEF Next
  <2>3. SetupTypeOK'
    BY <2>1, <2>2 DEF SetupTypeOK, setupVars, IndInv
  <2>4. UNCHANGED pc
    BY <2>1 DEF User, Casa, CasaAlone, Google, processVars
  <2>5. ASSUME NEW f \in Flow, Live(f)' PROVE Live(f)
    BY <2>1, <2>5, NothingReopens DEF Live, setupVars, IndInv, TypeOK
  <2> QED
    BY <2>1, <2>2, <2>3, <2>4, <2>5, CallsUndisturbed DEF setupVars
<1>2. ASSUME NEW f \in Flow, Expire(f) PROVE SetupInv'
  <2>1. IndInv'
    BY <1>2, StutterInv DEF Expire
  <2>2. SetupTypeOK'
    <3>1. link' \in [Flow -> LinkRecord]
      BY <1>2, LinkFieldsType DEF Expire, SetupTypeOK, LinkRecord
    <3> QED
      BY <1>2, <2>1, <3>1 DEF Expire, SetupTypeOK, LinkRecord, IndInv
  <2>3. \A g \in Flow : /\ link'[g].by = link[g].by /\ link'[g].past = link[g].past
                        /\ link'[g].fresh => link[g].fresh
    BY <1>2 DEF Expire, SetupTypeOK
  <2>4. \A g \in Flow : Live(g)' => Live(g)
    BY <1>2, <2>3 DEF Expire, Live, Open, vars, spoolVars
  <2>5. UNCHANGED <<setup, pc>>
    BY <1>2 DEF Expire, vars, processVars
  <2> QED
    BY <2>1, <2>2, <2>3, <2>4, <2>5, CallsUndisturbed
<1> QED
  BY <1>1, <1>2

LEMMA SetupInitInv == SetupInit => SetupInv
<1> SUFFICES ASSUME SetupInit PROVE SetupInv
  OBVIOUS
<1>1. IndInv
  BY InitInv DEF SetupInit
<1>2. SetupTypeOK
  BY <1>1 DEF SetupInit, SetupTypeOK, NotCalled, Stations, IndInv
<1> QED
  BY <1>1, <1>2 DEF SetupInit, SetupInv, CallInv, OneLiveLinkPerServer, Live, NotCalled

LEMMA SetupNextInv ==
  ASSUME SetupInv, [SetupNext]_allVars
  PROVE  SetupInv'
<1>1. CASE SetupNext
  BY <1>1, CallSetupInv, ProbeInv, LookInv, MintLinkInv, AnsweredInv, OtherwiseInv,
     OutsideInv DEF SetupNext, SetupStep
<1>2. CASE UNCHANGED allVars
  <2>1. IndInv'
    BY <1>2, StutterInv DEF SetupInv, allVars
  <2> QED
    BY <1>2, <2>1 DEF SetupInv, allVars, setupVars, vars, spoolVars, processVars, SetupTypeOK,
         IndInv, CallInv, OneLiveLinkPerServer, Overlooked, Live, Open
<1> QED
  BY <1>1, <1>2

--------------------------------------------------------------------------------
(* The flow keeps its invariant under the tool, and the tool its own.          *)
THEOREM SetupInvariance == SetupSpec => []SetupInv
<1>1. SetupInit => SetupInv
  BY SetupInitInv
<1>2. SetupInv /\ [SetupNext]_allVars => SetupInv'
  BY SetupNextInv
<1> QED
  BY <1>1, <1>2, PTL DEF SetupSpec

(* No server leaves two links open that the user could both complete, whatever *)
(* the other servers, casa, the clock and its own crashes do, but where it     *)
(* could not read pending/ with the first of them in it.                       *)
THEOREM LinksPerServer == SetupSpec => []OneLiveLinkPerServer
<1>1. SetupInv => OneLiveLinkPerServer
  BY DEF SetupInv
<1> QED
  BY <1>1, SetupInvariance, PTL

(* The README's promise, where one server process ever runs and it can read    *)
(* pending/: the case of each is setup_second's, and setup_unread's.           *)
THEOREM OneServerOneLink ==
  ASSUME \A p, q \in Proc : p = q
  PROVE  SetupSpec => []OneLiveLink
<1>1. SetupInv => OneLiveLink
  BY DEF SetupInv, OneLiveLinkPerServer, OneLiveLink, Live
<1> QED
  BY <1>1, SetupInvariance, PTL

(* No step of the environment makes a stored credential good again.            *)
LEMMA NothingRevives ==
  ASSUME SetupInv, NEW p \in Proc, OpenLink \/ Environment \/ \E f \in Flow : Expire(f)
  PROVE  /\ UNCHANGED <<active, subject, setup>>
         /\ StoredAndLive(p)' => StoredAndLive(p)
<1> USE DEF StoredAndLive, IsStored, storeVars, processVars, setupVars
<1>1. active # None => active.token \in Token
  BY DEF SetupInv, IndInv, TypeOK, StoreTypeOK, Credential
<1>2. google \in [Token -> GrantState]
  BY DEF SetupInv, IndInv, TypeOK, GoogleTypeOK
<1>3. CASE OpenLink
  BY <1>1, <1>2, <1>3 DEF OpenLink, User, Consent
<1>4. CASE Environment
  BY <1>1, <1>2, <1>4 DEF Environment, Casa, CasaAlone, Google, Invalidate
<1>5. CASE \E f \in Flow : Expire(f)
  BY <1>5 DEF Expire, vars
<1> QED
  BY <1>3, <1>4, <1>5

(* With one server, no authorization is asked for while the stored one works.  *)
THEOREM OneServerNoNeedlessLink ==
  ASSUME \A p, q \in Proc : p = q
  PROVE  SetupSpec => NoNeedlessLink
<1>1. ASSUME SetupInit PROVE OneServerInv
  <2>1. \A p \in Proc : setup[p].at = "none"
    BY <1>1 DEF SetupInit, NotCalled
  <2> QED
    BY <2>1 DEF OneServerInv, NeedInv
<1>2. ASSUME SetupInv, OneServerInv, [SetupNext]_allVars PROVE OneServerInv'
  <2> SUFFICES ASSUME NEW p \in Proc PROVE NeedInv(p)'
    BY DEF OneServerInv
  <2> USE DEF OneServerInv
  <2> USE DEF NeedInv, StoredAndLive, IsStored, SetupInv, SetupTypeOK, Proceed, Looks, vars,
              storeVars, processVars, setupVars
  <2>1. CASE CallSetup(p)
    BY <1>2, <2>1 DEF CallSetup
  <2>2. CASE Probe(p)
    <3>1. active = active' /\ google = google' /\ subject = subject'
      BY <2>2 DEF Probe
    <3>2. CASE setup'[p].at = "pending"
      <4>1. PICK reply \in RefreshReplies(setup[p].about) : RefreshVerdict(reply) = "terminal"
        BY <1>2, <2>2, <3>2 DEF Probe
      <4>2. google[setup[p].about] # "live"
        BY <4>1 DEF RefreshReplies, RefreshVerdict, Transient, ClientRefused,
             CredentialDeadCodes
      <4> QED
        BY <1>2, <2>2, <3>1, <3>2, <4>2 DEF Probe
    <3>3. CASE setup'[p].at # "pending"
      BY <1>2, <2>2, <3>1, <3>3 DEF Probe
    <3> QED
      BY <3>2, <3>3
  <2>3. CASE LookPending(p) \/ LookAttempts(p) \/ RouteClosed(p) \/ Deposit(p)
    BY <1>2, <2>3 DEF LookPending, LookAttempts, RouteClosed, Deposit
  <2>4. CASE Answered(p) \/ \E f \in Flow : MintLink(p, f)
    BY <1>2, <2>4 DEF Answered, MintLink, NotCalled
  <2>5. CASE Otherwise(p)
    <3>1. setup'[p].at = "none"
      BY <1>2, <2>5 DEF Otherwise, NotCalled
    <3> QED
      BY <3>1
  <2>6. CASE OpenLink \/ Environment \/ \E f \in Flow : Expire(f)
    BY <1>2, <2>6, NothingRevives
  <2>7. CASE UNCHANGED allVars
    BY <1>2, <2>7 DEF allVars
  <2> QED
    BY <1>2, <2>1, <2>2, <2>3, <2>4, <2>5, <2>6, <2>7 DEF SetupNext, SetupStep
<1>3. OneServerInv /\ [SetupNext]_allVars =>
        [\A p \in Proc, f \in Flow : MintLink(p, f) => ~StoredAndLive(p)]_allVars
  BY DEF OneServerInv, NeedInv, MintLink
<1> QED
  BY <1>1, <1>2, <1>3, SetupInvariance, PTL DEF SetupSpec, NoNeedlessLink

--------------------------------------------------------------------------------
(* The one step of a call that is not a step of the flow: the tools of the     *)
(* process start to use the credential the probe has just seen accepted.       *)
ServesProbed(p) ==
  /\ setup[p].at = "probe"
  /\ serving' = [serving EXCEPT ![p] = setup[p].about]
  /\ UNCHANGED <<storeVars, spoolVars, google, lock, pc, frame, subject, historyVars>>

LEMMA SetupSteps ==
  ASSUME [SetupNext]_allVars
  PROVE  [Next]_vars \/ \E p \in Proc : ServesProbed(p)
<1>1. ASSUME NEW p \in Proc, CallSetup(p) \/ SetupStep(p)
      PROVE  [Next]_vars \/ ServesProbed(p)
  <2>1. CASE Probe(p)
    BY <2>1 DEF Probe, Looks, ServesProbed
  <2>2. CASE \E f \in Flow : MintLink(p, f)
    BY <2>2 DEF MintLink, Next, Server
  <2> QED
    BY <1>1, <2>1, <2>2
    DEF CallSetup, SetupStep, LookPending, LookAttempts, RouteClosed, Deposit, Answered, Looks
<1>2. ASSUME NEW p \in Proc, Otherwise(p) PROVE Next
  BY <1>2 DEF Otherwise, Next, Server
<1> QED
  BY <1>1, <1>2 DEF SetupNext, Expire, OpenLink, Environment, Next, allVars

LEMMA SetupRecordStep ==
  ASSUME IndInv, RecordInv, [SetupNext]_allVars
  PROVE  RecordInv'
<1>1. CASE [Next]_vars
  BY <1>1, RecordStep
<1>2. ASSUME NEW p \in Proc, ServesProbed(p) PROVE RecordInv'
  <2> USE <1>2 DEF ServesProbed, storeVars, spoolVars, historyVars
  <2>1. GrantInv' /\ StagedInv' /\ ActiveInv' /\ NoticeInv'
    BY DEF RecordInv, GrantInv, StagedInv, ActiveInv, NoticeInv, QuietOutcomeIsNoticed,
       Taken, Unanswered, Queued
  <2>2. \A q \in Proc : PassInv(q)' /\ InHandInv(q)'
    BY DEF RecordInv, PassInv, Inside, Queued, NoticeKey, InHandInv, InHand, Superseded,
       Taken, Unanswered, IsActive, StillStages, TokenAccount
  <2> QED
    BY <2>1, <2>2 DEF RecordInv
<1> QED
  BY <1>1, <1>2, SetupSteps

(* The records stay consistent with what the process at work means to do with  *)
(* them, whoever runs setup_gmail and however often.                           *)
THEOREM SetupRecordInvariance == SetupSpec => []RecordInv
<1>1. SetupInit => RecordInv
  BY RecordInit DEF SetupInit
<1>2. SetupInv /\ RecordInv /\ [SetupNext]_allVars => RecordInv'
  BY SetupRecordStep DEF SetupInv
<1> QED
  BY <1>1, <1>2, SetupInvariance, PTL DEF SetupSpec

(* What the flow guarantees of the stage, of the acks and of the notices does  *)
(* not depend on setup_gmail being left alone: the links it mints and the      *)
(* credential its probe brings into service disturb none of it.                *)
THEOREM FlowSafeUnderSetup ==
  SetupSpec => /\ []OnlyHolderInside
               /\ []ConnectedIsDurableAndServing
               /\ []StoredFlowIsNotExchanged
               /\ []QuietOutcomeIsNoticed
               /\ StageNeverOverwritten
               /\ StageDroppedOnlyWhenResolved
               /\ AckDestroysNothing
<1>1. SetupInv /\ RecordInv =>
        /\ OnlyHolderInside /\ ConnectedIsDurableAndServing
        /\ StoredFlowIsNotExchanged /\ QuietOutcomeIsNoticed
  BY ExchangesOnlyNew
  DEF SetupInv, IndInv, ProcInv, LockHeld, Inside, Outside, SlotDiscipline, CommitDiscipline,
      Settled, OnlyHolderInside, ConnectedIsDurableAndServing, RecordInv, NoticeInv
<1> DEFINE Stages == staged # None => staged' \in {staged, None}
           Drops == staged # None /\ staged' = None =>
                      \/ IsActive(staged.flow)
                      \/ google[staged.token] = "dead"
                      \/ lock \in Proc /\ TokenAccount(staged.token) # subject[lock]
           Acks == \A f \in Flow : status[f] # "acked" /\ status'[f] = "acked" =>
                     /\ google[f] = "code" =>
                          \/ IsActive(f) \/ frame[lock].disp \in {"done", "lost"}
                          \/ /\ CommittedGeneration(active) # None
                             /\ Precedes(AttemptOrder(f), CommittedGeneration(active))
                     /\ staged # None /\ staged.flow = f /\ google[f] = "live" =>
                          TokenAccount(f) # subject[lock]
<1>2. ASSUME SetupInv, RecordInv, [SetupNext]_allVars
      PROVE  Stages /\ Drops /\ Acks
  <2>1. CASE [Next]_vars
    BY <1>2, <2>1, StageStep, DropStep, AckStep DEF SetupInv
  <2>2. ASSUME NEW p \in Proc, ServesProbed(p) PROVE Stages /\ Drops /\ Acks
    BY <2>2 DEF ServesProbed, storeVars, spoolVars
  <2> QED
    BY <1>2, <2>1, <2>2, SetupSteps
<1>3. SetupInv /\ RecordInv /\ [SetupNext]_allVars => [Stages]_vars /\ [Drops]_vars /\ [Acks]_vars
  BY <1>2
<1> QED
  BY <1>1, <1>3, SetupInvariance, SetupRecordInvariance, PTL
  DEF SetupSpec, StageNeverOverwritten, StageDroppedOnlyWhenResolved, AckDestroysNothing

(* The user's authorizations are treated as Authorization allows also while    *)
(* setup_gmail runs: it obtains, replaces and lets go of none itself.          *)
THEOREM SetupImplementsAuthorization == SetupSpec => ImplementsAuthorization
<1>1. SetupInit => Abstract!AuthorizationInit
  BY AuthorizationInitially DEF SetupInit
<1>2. ASSUME SetupInv, RecordInv, [SetupNext]_allVars
      PROVE  [Abstract!AuthorizationNext]_(Abstract!authorizationVars)
  <2>1. CASE [Next]_vars
    BY <1>2, <2>1, AuthorizationSteps DEF SetupInv
  <2>2. ASSUME NEW p \in Proc, ServesProbed(p)
        PROVE  UNCHANGED Abstract!authorizationVars
    BY <2>2
    DEF ServesProbed, storeVars, spoolVars, TokenAccount, Abstract!authorizationVars
  <2> QED
    BY <1>2, <2>1, <2>2, SetupSteps
<1> QED
  BY <1>1, <1>2, SetupInvariance, SetupRecordInvariance, PTL
  DEF SetupSpec, ImplementsAuthorization, Abstract!AuthorizationSpec

--------------------------------------------------------------------------------
(* What a call holds between its look at the disk and its probe: a collected   *)
(* grant of the inbox this process is configured for, whatever has become of   *)
(* the file in between.                                                        *)
ProbedInv ==
  \A p \in Proc : setup[p].at = "probe" =>
    /\ TokenAccount(setup[p].about) = subject[p]
    /\ setup[p].about = Legacy \/ Taken(setup[p].about)

LEMMA ProbedStep ==
  ASSUME SetupInv, RecordInv, ServiceInv, ProbedInv, [SetupNext]_allVars
  PROVE  ProbedInv'
<1> SUFFICES ASSUME NEW p \in Proc, setup'[p].at = "probe"
             PROVE  /\ TokenAccount(setup[p].about)' = subject'[p]
                    /\ setup'[p].about = Legacy \/ Taken(setup[p].about)'
  BY DEF ProbedInv
<1>1. CASE CallSetup(p) /\ IsStored(p)
  <2>1. /\ setup'[p].about = active.token /\ pc[p] = "idle"
        /\ UNCHANGED <<answer, status, result, subject>>
        /\ active # None /\ active.account = subject[p]
    BY <1>1 DEF CallSetup, IsStored, Proceed, SetupInv, SetupTypeOK, vars, spoolVars, processVars
  <2>2. subject[p] # None
    BY <2>1 DEF RecordInv, PassInv
  <2>3. TokenAccount(active.token) = subject[p]
    BY <2>1, <2>2 DEF ServiceInv
  <2>4. active.token = Legacy \/ Taken(active.token)
    BY <2>1 DEF RecordInv, ActiveInv
  <2> QED
    BY <2>1, <2>3, <2>4 DEF TokenAccount, Taken, Unanswered
<1>2. CASE ~(CallSetup(p) /\ IsStored(p))
  <2>1. setup'[p] = setup[p] /\ subject'[p] = subject[p]
    <3>1. ASSUME NEW q \in Proc, CallSetup(q) \/ SetupStep(q)
          PROVE  setup'[p] = setup[p] /\ subject'[p] = subject[p]
      BY <1>2, <3>1
      DEF CallSetup, SetupStep, Probe, LookPending, LookAttempts, RouteClosed, MintLink, Start,
          Deposit, Answered, NotCalled, Looks, Proceed, Answers, SetupInv, SetupTypeOK, vars, processVars
    <3>2. ASSUME NEW q \in Proc, Otherwise(q)
          PROVE  setup'[p] = setup[p] /\ subject'[p] = subject[p]
      <4>1. setup'[p] = setup[p] /\ q # p
        BY <3>2 DEF Otherwise, setupVars, NotCalled, SetupInv, SetupTypeOK
      <4>2. Server(q)
        BY <3>2 DEF Otherwise, Server
      <4> QED
        BY <4>1, <4>2, StepsInside DEF SetupInv
    <3>3. CASE OpenLink \/ Environment \/ \E f \in Flow : Expire(f)
      BY <3>3, NothingRevives
    <3> QED
      BY <3>1, <3>2, <3>3 DEF SetupNext, allVars, setupVars, vars, processVars
  <2>2. /\ setup[p].about \in Token
        /\ TokenAccount(setup[p].about) = subject[p]
        /\ setup[p].about = Legacy \/ Taken(setup[p].about)
    BY <2>1 DEF ProbedInv, SetupInv, CallInv
  <2>3. CASE [Next]_vars
    <3>1. Forward
      BY <2>3, StepForward DEF SetupInv, RecordInv
    <3> QED
      BY <2>1, <2>2, <3>1 DEF Forward, TokenAccount, Token, Taken, Unanswered
  <2>4. ASSUME NEW q \in Proc, ServesProbed(q)
        PROVE  UNCHANGED <<answer, status, result>>
    BY <2>4 DEF ServesProbed, spoolVars
  <2> QED
    BY <2>1, <2>2, <2>3, <2>4, SetupSteps DEF TokenAccount, Taken, Unanswered
<1> QED
  BY <1>1, <1>2

(* As long as the configured address stays the same, the tools of a process    *)
(* are those of that inbox also when a probe brought them into service, with a *)
(* token that another process may have replaced on disk since it was read.     *)
THEOREM SetupServesOneInbox ==
  ASSUME OneInbox
  PROVE  SetupSpec => []ServingMatchesSubject
<1>1. SetupInit => ServiceInv /\ ProbedInv
  BY ServiceInit DEF SetupInit, ProbedInv, NotCalled
<1>2. ASSUME SetupInv, RecordInv, ServiceInv, ProbedInv, [SetupNext]_allVars
      PROVE  ServiceInv'
  <2>1. CASE [Next]_vars
    BY <1>2, <2>1, ServiceStep DEF SetupInv
  <2>2. ASSUME NEW p \in Proc, ServesProbed(p) PROVE ServiceInv'
    <3>1. /\ pc[p] = "idle"
          /\ TokenAccount(setup[p].about) = subject[p]
          /\ setup[p].about = Legacy \/ Taken(setup[p].about)
      BY <1>2, <2>2 DEF ServesProbed, ProbedInv, SetupInv, CallInv
    <3>2. /\ serving'[p] = setup[p].about
          /\ \A q \in Proc \ {p} : serving'[q] = serving[q]
      BY <1>2, <2>2 DEF ServesProbed, SetupInv, IndInv, TypeOK, ProcessTypeOK
    <3> QED
      BY <1>2, <2>2, <3>1, <3>2
      DEF ServesProbed, ServiceInv, TokenAccount, Taken, Unanswered, storeVars, spoolVars
  <2> QED
    BY <1>2, <2>1, <2>2, SetupSteps
<1>3. SetupInv /\ RecordInv /\ ServiceInv /\ ProbedInv /\ [SetupNext]_allVars =>
        ServiceInv' /\ ProbedInv'
  BY <1>2, ProbedStep
<1>4. ServiceInv => ServingMatchesSubject
  BY DEF ServiceInv, ServingMatchesSubject
<1> QED
  BY <1>1, <1>3, <1>4, SetupInvariance, SetupRecordInvariance, PTL DEF SetupSpec
================================================================================
