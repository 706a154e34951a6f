----------------------------- MODULE AuthFlow_proofs ---------------------------
(* Safety of AuthFlow for every set of processes and links, with proofs that   *)
(* tlapm checks.                                                               *)
EXTENDS AuthFlow, TLAPS

(* The two ways the code updates a process's locals keep them well typed.      *)
LEMMA InHandType ==
  ASSUME frame \in [Proc -> Frame], NEW p \in Proc,
         NEW f \in Flow \cup {None}, NEW d \in Disposition
  PROVE  [frame EXCEPT ![p].cur = f, ![p].disp = d] \in [Proc -> Frame]
  BY ZenonT(40) DEF Frame

LEMMA EmptyFrameType == EmptyFrame \in Frame
  BY DEF EmptyFrame, Frame, Disposition

LEMMA CommittedGenerationType ==
  ASSUME NEW c \in Credential \cup {None}
  PROVE  CommittedGeneration(c) \in Generation \cup {None}
  BY NoFileAssumption DEF CommittedGeneration, Generation, Credential

LEMMA AttemptsType ==
  ASSUME SpoolTypeOK
  PROVE  Attempts \subseteq AttemptRecord
  BY DEF SpoolTypeOK, Attempts, AttemptRecord, Recorded

LEMMA PromotedType ==
  ASSUME StoreTypeOK, staged # None, NEW a \in Account \cup {None}
  PROVE  Promoted(a) \in Credential
  BY DEF StoreTypeOK, Promoted, Credential, StagedCredential, Token

LEMMA QueueNoticeType ==
  ASSUME notices \subseteq Notice, NEW k \in Key, QueueNotice(k)
  PROVE  notices' \subseteq Notice
  BY NoticeAssumption DEF QueueNotice, Notice

LEMMA RecordNoticesOfferedType ==
  ASSUME notices \subseteq Notice, RecordNoticesOffered
  PROVE  notices' \subseteq Notice
  BY NoticeAssumption DEF RecordNoticesOffered, Notice

LEMMA PeekNoticesType ==
  ASSUME notices \subseteq Notice
  PROVE  PeekNotices \subseteq Key
  BY DEF PeekNotices, Notice

LEMMA FrameFieldsType ==
  ASSUME frame \in [Proc -> Frame], NEW p \in Proc,
         NEW f \in Flow \cup {None}, NEW d \in Disposition, NEW c \in Generation \cup {None}
  PROVE  [frame EXCEPT ![p].cur = f, ![p].disp = d, ![p].committed = c] \in [Proc -> Frame]
<1>1. [frame[p] EXCEPT !.cur = f, !.disp = d, !.committed = c] \in Frame
  BY DEF Frame
<1>2. [frame EXCEPT ![p].cur = f, ![p].disp = d, ![p].committed = c] =
      [frame EXCEPT ![p] = [frame[p] EXCEPT !.cur = f, !.disp = d, !.committed = c]]
  BY DEF Frame
<1> QED
  BY <1>1, <1>2

LEMMA TaskFieldsType ==
  ASSUME frame \in [Proc -> Frame], NEW p \in Proc,
         NEW t \in {"none", "startup", "step0", "attempt"}
  PROVE  [frame EXCEPT ![p].task = t] \in [Proc -> Frame]
  BY DEF Frame

LEMMA PassFieldsType ==
  ASSUME frame \in [Proc -> Frame], NEW p \in Proc,
         NEW t \in {"none", "startup", "step0", "attempt"}, NEW k \in SUBSET Key
  PROVE  [frame EXCEPT ![p].task = t, ![p].peeked = k] \in [Proc -> Frame]
  BY ZenonT(40) DEF Frame

LEMMA ListFieldsType ==
  ASSUME frame \in [Proc -> Frame], NEW p \in Proc,
         NEW c \in Generation \cup {None}, NEW r \in SUBSET AttemptRecord
  PROVE  [frame EXCEPT ![p].task = "attempt", ![p].committed = c, ![p].todo = r]
           \in [Proc -> Frame]
<1>1. [frame[p] EXCEPT !.task = "attempt", !.committed = c, !.todo = r] \in Frame
  BY DEF Frame
<1>2. [frame EXCEPT ![p].task = "attempt", ![p].committed = c, ![p].todo = r] =
      [frame EXCEPT ![p] =
         [frame[p] EXCEPT !.task = "attempt", !.committed = c, !.todo = r]]
  BY DEF Frame
<1> QED
  BY <1>1, <1>2

LEMMA TakeFieldsType ==
  ASSUME frame \in [Proc -> Frame], NEW p \in Proc,
         NEW r, NEW f \in Flow \cup {None}, NEW d \in Disposition
  PROVE  [frame EXCEPT ![p].todo = @ \ {r}, ![p].cur = f, ![p].disp = d]
           \in [Proc -> Frame]
<1>1. [frame[p] EXCEPT !.todo = @ \ {r}, !.cur = f, !.disp = d] \in Frame
  BY DEF Frame
<1>2. [frame EXCEPT ![p].todo = @ \ {r}, ![p].cur = f, ![p].disp = d] =
      [frame EXCEPT ![p] = [frame[p] EXCEPT !.todo = @ \ {r}, !.cur = f, !.disp = d]]
  BY DEF Frame
<1> QED
  BY <1>1, <1>2

LEMMA ResolvedType ==
  ASSUME TypeOK, NEW p \in Proc, NEW o, Resolved(p, o)
  PROVE  /\ lock' \in Proc \cup {None}
         /\ pc' \in [Proc -> Label]
         /\ frame' \in [Proc -> Frame]
<1> USE DEF TypeOK, ProcessTypeOK, StoreTypeOK
<1>1. None \in Flow \cup {None} /\ "none" \in Disposition
  BY DEF Disposition
<1>2. CASE frame[p].task = "startup" /\ Return(p)
  BY <1>2, EmptyFrameType DEF Return, Goto, Label
<1>3. CASE /\ frame' = [frame EXCEPT ![p].cur = None, ![p].disp = "none"]
           /\ Goto(p, "finish") \/ Goto(p, "attempts")
           /\ UNCHANGED lock
  BY <1>1, <1>3, InHandType DEF Goto, Label
<1>4. CASE /\ frame' = [frame EXCEPT ![p].cur = None, ![p].disp = "none",
                    ![p].committed = IF o = "promoted"
                                       THEN CommittedGeneration(active) ELSE @]
           /\ Goto(p, "loop")
           /\ UNCHANGED lock
  <2>1. frame[p].committed \in Generation \cup {None}
    BY DEF Frame
  <2> DEFINE c == IF o = "promoted" THEN CommittedGeneration(active)
                                    ELSE frame[p].committed
  <2>2. c \in Generation \cup {None}
    BY <2>1, CommittedGenerationType
  <2>3. frame' = [frame EXCEPT ![p].cur = None, ![p].disp = "none", ![p].committed = c]
    BY <1>4
  <2> HIDE DEF c
  <2>4. frame' \in [Proc -> Frame]
    BY <1>1, <2>2, <2>3, FrameFieldsType
  <2> QED
    BY <1>4, <2>4 DEF Goto, Label
<1> QED
  BY <1>2, <1>3, <1>4 DEF Resolved

--------------------------------------------------------------------------------
(* While a process is inside, no other is: the invariant of the others can only*)
(* be touched by a step taken inside, or while nobody is.                      *)
LEMMA OthersUndisturbed ==
  ASSUME IndInv, NEW p \in Proc, NEW q \in Proc \ {p},
         pc'[q] = pc[q], frame'[q] = frame[q], serving'[q] = serving[q],
         lock' \in {lock, p, None},
         Inside(p) \/ lock = None \/ UNCHANGED <<storeVars, lock>>
  PROVE  ProcInv(q)'
<1>1. CASE Inside(q)
  <2>1. lock = q
    BY <1>1 DEF IndInv, ProcInv, LockHeld
  <2>2. UNCHANGED <<active, staged, lock>>
    BY <2>1, NoneAssumption DEF IndInv, ProcInv, LockHeld, storeVars
  <2> QED
    BY <2>2 DEF IndInv, ProcInv, LockHeld, FlowInHand, SlotDiscipline, CommitDiscipline,
                Inside, StillStages, IsActive
<1>2. CASE ~Inside(q)
  BY <1>2, NoneAssumption
  DEF IndInv, ProcInv, LockHeld, FlowInHand, SlotDiscipline, CommitDiscipline, Inside,
      Outside, InPass
<1> QED
  BY <1>1, <1>2

LEMMA InitInv == Init => IndInv
<1> SUFFICES ASSUME Init PROVE IndInv
  OBVIOUS
<1>1. StoreTypeOK
  BY FlowAssumption DEF Init, StoreInit, StoreTypeOK, V1Credential, Credential, Token
<1>2. SpoolTypeOK
  BY DEF Init, SpoolInit, SpoolTypeOK, Status, Recorded, ResultFile, Answer
<1>3. GoogleTypeOK
  BY DEF Init, GoogleInit, GoogleTypeOK, GrantState
<1>4. ProcessTypeOK
  BY EmptyFrameType DEF Init, ProcessTypeOK, Label
<1>5. HistoryTypeOK
  BY NoticeAssumption DEF Init, HistoryTypeOK
<1>6. \A p \in Proc : ProcInv(p)
  BY NoneAssumption DEF Init, ProcInv, LockHeld, FlowInHand, SlotDiscipline, CommitDiscipline, Inside,
         Outside, InPass
<1> QED
  BY <1>1, <1>2, <1>3, <1>4, <1>5, <1>6 DEF IndInv, TypeOK

LEMMA ResolvedLocal ==
  ASSUME TypeOK, NEW p \in Proc, NEW o, Resolved(p, o), NEW q \in Proc \ {p}
  PROVE  pc'[q] = pc[q] /\ frame'[q] = frame[q]
  BY DEF TypeOK, ProcessTypeOK, Resolved, Return, Goto

(* What every step below comes down to: the types, the invariant of the process*)
(* that takes the step, and that the step is taken where it may be.            *)
LEMMA StepInv ==
  ASSUME IndInv, NEW p \in Proc, TypeOK', ProcInv(p)',
         \A q \in Proc \ {p} :
           pc'[q] = pc[q] /\ frame'[q] = frame[q] /\ serving'[q] = serving[q],
         lock' \in {lock, p, None},
         Inside(p) \/ lock = None \/ UNCHANGED <<storeVars, lock>>
  PROVE  IndInv'
<1>1. ASSUME NEW q \in Proc \ {p} PROVE ProcInv(q)'
  BY OthersUndisturbed
<1> QED
  BY <1>1 DEF IndInv

LEMMA ResolvedInv ==
  ASSUME IndInv, NEW p \in Proc, NEW o, Inside(p), Resolved(p, o),
         o # "retain" => staged' = None
  PROVE  ProcInv(p)'
  BY NoneAssumption
  DEF IndInv, TypeOK, ProcessTypeOK, Frame, Resolved, Return, Goto, EmptyFrame, ProcInv,
         LockHeld, FlowInHand, SlotDiscipline, CommitDiscipline, Inside, Outside, InPass

LEMMA SpawnInv ==
  ASSUME IndInv, NEW p \in Proc, NEW s \in Subject, Spawn(p, s)
  PROVE  IndInv'
<1> USE DEF Goto, storeVars, spoolVars, historyVars
<1>1. TypeOK'
  <2>1. frame' \in [Proc -> Frame]
    BY TaskFieldsType, ZenonT(40) DEF Spawn, IndInv, TypeOK, ProcessTypeOK
  <2> QED
    BY <2>1 DEF AcquireLock, Spawn, IndInv, TypeOK, StoreTypeOK, SpoolTypeOK, GoogleTypeOK,
                ProcessTypeOK, HistoryTypeOK, Label
<1>2. ProcInv(p)'
  BY NoneAssumption DEF AcquireLock, Spawn, IndInv, TypeOK, ProcessTypeOK, Frame, ProcInv, LockHeld, FlowInHand,
         SlotDiscipline, CommitDiscipline, Inside, Outside, InPass
<1>3. /\ lock' \in {lock, p, None}
      /\ Inside(p) \/ lock = None \/ UNCHANGED <<storeVars, lock>>
  BY DEF AcquireLock, Spawn, Inside, Outside
<1>4. \A q \in Proc \ {p} :
        pc'[q] = pc[q] /\ frame'[q] = frame[q] /\ serving'[q] = serving[q]
  BY DEF Spawn, IndInv, TypeOK, ProcessTypeOK
<1> QED
  BY <1>1, <1>2, <1>3, <1>4, StepInv

LEMMA LoadNothingInv ==
  ASSUME IndInv, NEW p \in Proc, LoadNothing(p)
  PROVE  IndInv'
<1> USE DEF Goto, storeVars, spoolVars, historyVars
<1>1. TypeOK'
  BY FlowAssumption
  DEF ToReconcile, LoadNothing, IndInv, TypeOK, StoreTypeOK, SpoolTypeOK, GoogleTypeOK,
                ProcessTypeOK, HistoryTypeOK, Label
<1>2. ProcInv(p)'
  BY NoneAssumption DEF ToReconcile, LoadNothing, IndInv, TypeOK, ProcessTypeOK, Frame, ProcInv, LockHeld, FlowInHand,
         SlotDiscipline, CommitDiscipline, Inside, Outside, InPass
<1>3. /\ lock' \in {lock, p, None}
      /\ Inside(p) \/ lock = None \/ UNCHANGED <<storeVars, lock>>
  BY DEF ToReconcile, LoadNothing, Inside, Outside
<1>4. \A q \in Proc \ {p} :
        pc'[q] = pc[q] /\ frame'[q] = frame[q] /\ serving'[q] = serving[q]
  BY DEF ToReconcile, LoadNothing, IndInv, TypeOK, ProcessTypeOK
<1> QED
  BY <1>1, <1>2, <1>3, <1>4, StepInv

LEMMA LoadDeadInv ==
  ASSUME IndInv, NEW p \in Proc, LoadDead(p)
  PROVE  IndInv'
<1> USE DEF Goto, storeVars, spoolVars, historyVars
<1>1. TypeOK'
  BY FlowAssumption
  DEF ToReconcile, RemoveActive, LoadDead, IndInv, TypeOK, StoreTypeOK, SpoolTypeOK, GoogleTypeOK,
                ProcessTypeOK, HistoryTypeOK, Label
<1>2. ProcInv(p)'
  BY NoneAssumption DEF ToReconcile, RemoveActive, LoadDead, IndInv, TypeOK, ProcessTypeOK, Frame, ProcInv, LockHeld, FlowInHand,
         SlotDiscipline, CommitDiscipline, Inside, Outside, InPass
<1>3. /\ lock' \in {lock, p, None}
      /\ Inside(p) \/ lock = None \/ UNCHANGED <<storeVars, lock>>
  BY DEF ToReconcile, LoadDead, Inside, Outside
<1>4. \A q \in Proc \ {p} :
        pc'[q] = pc[q] /\ frame'[q] = frame[q] /\ serving'[q] = serving[q]
  BY DEF ToReconcile, LoadDead, IndInv, TypeOK, ProcessTypeOK
<1> QED
  BY <1>1, <1>2, <1>3, <1>4, StepInv

LEMMA LoadAliveInv ==
  ASSUME IndInv, NEW p \in Proc, LoadAlive(p)
  PROVE  IndInv'
<1> USE DEF Goto, storeVars, spoolVars, historyVars
<1>1. TypeOK'
  BY FlowAssumption
  DEF ToReconcile, WriteActive, Activated, Credential, Token, LoadAlive, IndInv, TypeOK, StoreTypeOK, SpoolTypeOK, GoogleTypeOK,
                ProcessTypeOK, HistoryTypeOK, Label
<1>2. ProcInv(p)'
  BY NoneAssumption DEF ToReconcile, WriteActive, LoadAlive, IndInv, TypeOK, ProcessTypeOK, Frame, ProcInv, LockHeld, FlowInHand,
         SlotDiscipline, CommitDiscipline, Inside, Outside, InPass
<1>3. /\ lock' \in {lock, p, None}
      /\ Inside(p) \/ lock = None \/ UNCHANGED <<storeVars, lock>>
  BY DEF ToReconcile, LoadAlive, Inside, Outside
<1>4. \A q \in Proc \ {p} :
        pc'[q] = pc[q] /\ frame'[q] = frame[q] /\ serving'[q] = serving[q]
  BY DEF ToReconcile, Activated, LoadAlive, IndInv, TypeOK, ProcessTypeOK
<1> QED
  BY <1>1, <1>2, <1>3, <1>4, StepInv

LEMMA NothingStagedInv ==
  ASSUME IndInv, NEW p \in Proc, NothingStaged(p)
  PROVE  IndInv'
<1> USE DEF Goto, storeVars, spoolVars, historyVars
<1>1. TypeOK'
  BY ResolvedType, FlowAssumption
  DEF NothingStaged, IndInv, TypeOK, StoreTypeOK, SpoolTypeOK, GoogleTypeOK,
                ProcessTypeOK, HistoryTypeOK, Label
<1>2. ProcInv(p)'
  BY ResolvedInv, NoneAssumption DEF NothingStaged, IndInv, TypeOK, ProcessTypeOK, Frame, ProcInv, LockHeld, FlowInHand,
         SlotDiscipline, CommitDiscipline, Inside, Outside, InPass
<1>3. /\ lock' \in {lock, p, None}
      /\ Inside(p) \/ lock = None \/ UNCHANGED <<storeVars, lock>>
  BY DEF Resolved, Return, NothingStaged, Inside, Outside
<1>4. \A q \in Proc \ {p} :
        pc'[q] = pc[q] /\ frame'[q] = frame[q] /\ serving'[q] = serving[q]
  BY ResolvedLocal DEF NothingStaged, IndInv, TypeOK, ProcessTypeOK
<1> QED
  BY <1>1, <1>2, <1>3, <1>4, StepInv

LEMMA DiscardResidueInv ==
  ASSUME IndInv, NEW p \in Proc, DiscardResidue(p)
  PROVE  IndInv'
<1> USE DEF Goto, storeVars, spoolVars, historyVars
<1>1. TypeOK'
  BY ResolvedType, FlowAssumption
  DEF DiscardStaged, DiscardResidue, IndInv, TypeOK, StoreTypeOK, SpoolTypeOK, GoogleTypeOK,
                ProcessTypeOK, HistoryTypeOK, Label
<1>2. ProcInv(p)'
  BY ResolvedInv, NoneAssumption DEF DiscardStaged, DiscardResidue, IndInv, TypeOK, ProcessTypeOK, Frame, ProcInv, LockHeld, FlowInHand,
         SlotDiscipline, CommitDiscipline, Inside, Outside, InPass
<1>3. /\ lock' \in {lock, p, None}
      /\ Inside(p) \/ lock = None \/ UNCHANGED <<storeVars, lock>>
  BY DEF Resolved, Return, DiscardResidue, Inside, Outside
<1>4. \A q \in Proc \ {p} :
        pc'[q] = pc[q] /\ frame'[q] = frame[q] /\ serving'[q] = serving[q]
  BY ResolvedLocal DEF DiscardResidue, IndInv, TypeOK, ProcessTypeOK
<1> QED
  BY <1>1, <1>2, <1>3, <1>4, StepInv

LEMMA StageRetainedInv ==
  ASSUME IndInv, NEW p \in Proc, StageRetained(p)
  PROVE  IndInv'
<1> USE DEF Goto, storeVars, spoolVars, historyVars
<1>1. TypeOK'
  BY ResolvedType, FlowAssumption
  DEF VerifyStaged, StageRetained, IndInv, TypeOK, StoreTypeOK, SpoolTypeOK, GoogleTypeOK,
                ProcessTypeOK, HistoryTypeOK, Label
<1>2. ProcInv(p)'
  BY ResolvedInv, NoneAssumption DEF VerifyStaged, StageRetained, IndInv, TypeOK, ProcessTypeOK, Frame, ProcInv, LockHeld, FlowInHand,
         SlotDiscipline, CommitDiscipline, Inside, Outside, InPass
<1>3. /\ lock' \in {lock, p, None}
      /\ Inside(p) \/ lock = None \/ UNCHANGED <<storeVars, lock>>
  BY DEF VerifyStaged, Resolved, Return, StageRetained, Inside, Outside
<1>4. \A q \in Proc \ {p} :
        pc'[q] = pc[q] /\ frame'[q] = frame[q] /\ serving'[q] = serving[q]
  BY ResolvedLocal DEF VerifyStaged, StageRetained, IndInv, TypeOK, ProcessTypeOK
<1> QED
  BY <1>1, <1>2, <1>3, <1>4, StepInv

LEMMA StageDeadInv ==
  ASSUME IndInv, NEW p \in Proc, StageDead(p)
  PROVE  IndInv'
<1> USE DEF Goto, storeVars, spoolVars, historyVars
<1>1. TypeOK'
  BY InHandType, FlowAssumption
  DEF VerifyStaged, Settle, StagedCredential, Disposition, StageDead, IndInv, TypeOK, StoreTypeOK, SpoolTypeOK, GoogleTypeOK,
                ProcessTypeOK, HistoryTypeOK, Label
<1>2. ProcInv(p)'
  BY NoneAssumption DEF VerifyStaged, Settle, StagedCredential, StoreTypeOK, Settled, StageDead, IndInv, TypeOK, ProcessTypeOK, Frame, ProcInv, LockHeld, FlowInHand,
         SlotDiscipline, CommitDiscipline, Inside, Outside, InPass
<1>3. /\ lock' \in {lock, p, None}
      /\ Inside(p) \/ lock = None \/ UNCHANGED <<storeVars, lock>>
  BY DEF VerifyStaged, StageDead, Inside, Outside
<1>4. \A q \in Proc \ {p} :
        pc'[q] = pc[q] /\ frame'[q] = frame[q] /\ serving'[q] = serving[q]
  BY DEF VerifyStaged, Settle, StageDead, IndInv, TypeOK, ProcessTypeOK
<1> QED
  BY <1>1, <1>2, <1>3, <1>4, StepInv

LEMMA StageWrongAccountInv ==
  ASSUME IndInv, NEW p \in Proc, StageWrongAccount(p)
  PROVE  IndInv'
<1> USE DEF Goto, storeVars, spoolVars, historyVars
<1>1. TypeOK'
  BY InHandType, FlowAssumption
  DEF VerifyStaged, Settle, StagedCredential, Disposition, StageWrongAccount, IndInv, TypeOK, StoreTypeOK, SpoolTypeOK, GoogleTypeOK,
                ProcessTypeOK, HistoryTypeOK, Label
<1>2. ProcInv(p)'
  BY NoneAssumption DEF VerifyStaged, Settle, StagedCredential, StoreTypeOK, Settled, StageWrongAccount, IndInv, TypeOK, ProcessTypeOK, Frame, ProcInv, LockHeld, FlowInHand,
         SlotDiscipline, CommitDiscipline, Inside, Outside, InPass
<1>3. /\ lock' \in {lock, p, None}
      /\ Inside(p) \/ lock = None \/ UNCHANGED <<storeVars, lock>>
  BY DEF VerifyStaged, StageWrongAccount, Inside, Outside
<1>4. \A q \in Proc \ {p} :
        pc'[q] = pc[q] /\ frame'[q] = frame[q] /\ serving'[q] = serving[q]
  BY DEF VerifyStaged, Settle, StageWrongAccount, IndInv, TypeOK, ProcessTypeOK
<1> QED
  BY <1>1, <1>2, <1>3, <1>4, StepInv

LEMMA StageVerifiedInv ==
  ASSUME IndInv, NEW p \in Proc, StageVerified(p)
  PROVE  IndInv'
<1> USE DEF Goto, storeVars, spoolVars, historyVars
<1>1. TypeOK'
  BY InHandType, FlowAssumption
  DEF VerifyStaged, StagedCredential, Disposition, StageVerified, IndInv, TypeOK, StoreTypeOK, SpoolTypeOK, GoogleTypeOK,
                ProcessTypeOK, HistoryTypeOK, Label
<1>2. ProcInv(p)'
  BY NoneAssumption DEF VerifyStaged, StagedCredential, StoreTypeOK, StillStages, StageVerified, IndInv, TypeOK, ProcessTypeOK, Frame, ProcInv, LockHeld, FlowInHand,
         SlotDiscipline, CommitDiscipline, Inside, Outside, InPass
<1>3. /\ lock' \in {lock, p, None}
      /\ Inside(p) \/ lock = None \/ UNCHANGED <<storeVars, lock>>
  BY DEF VerifyStaged, StageVerified, Inside, Outside
<1>4. \A q \in Proc \ {p} :
        pc'[q] = pc[q] /\ frame'[q] = frame[q] /\ serving'[q] = serving[q]
  BY DEF VerifyStaged, StageVerified, IndInv, TypeOK, ProcessTypeOK
<1> QED
  BY <1>1, <1>2, <1>3, <1>4, StepInv

LEMMA PromoteInv ==
  ASSUME IndInv, NEW p \in Proc, Promote(p)
  PROVE  IndInv'
<1> USE DEF Goto, storeVars, spoolVars, historyVars
<1>1. TypeOK'
  <2>1. active' \in Credential \cup {None} /\ staged' \in StagedCredential \cup {None}
        /\ notices' \subseteq Notice
    <3>1. subject[p] \in Account \cup {None}
      BY FlowAssumption DEF IndInv, TypeOK, StoreTypeOK, SpoolTypeOK, GoogleTypeOK,
                ProcessTypeOK, HistoryTypeOK, Label
    <3> QED
      BY <3>1, PromotedType DEF Promote, IndInv, TypeOK, StoreTypeOK, SpoolTypeOK, GoogleTypeOK,
                ProcessTypeOK, HistoryTypeOK, Label, WriteActive, StillStages
  <2>2. lock' \in Proc \cup {None} /\ pc' \in [Proc -> Label] /\ frame' \in [Proc -> Frame]
    BY ResolvedType DEF Promote, IndInv, TypeOK, StoreTypeOK, SpoolTypeOK, GoogleTypeOK,
                ProcessTypeOK, HistoryTypeOK, Label
  <2> QED
    BY <2>1, <2>2 DEF Promote, IndInv, TypeOK, StoreTypeOK, SpoolTypeOK, GoogleTypeOK,
                ProcessTypeOK, HistoryTypeOK, Label
<1>2. ProcInv(p)'
  <2>1. CASE Resolved(p, "retain")
    BY <2>1, ResolvedInv DEF Promote, Inside, Outside
  <2>2. CASE /\ StillStages(frame[p].cur)
             /\ WriteActive(Promoted(subject[p]))
             /\ pc' = [pc EXCEPT ![p] = "unstage"]
             /\ UNCHANGED <<lock, frame>>
    <3>1. IsActive(frame[p].cur)'
      <4>1. active' \in Credential
        BY <1>1, <2>2, PromotedType, FlowAssumption
        DEF WriteActive, StillStages, IndInv, TypeOK, ProcessTypeOK
      <4>2. active'.flow = frame[p].cur
        BY <2>2 DEF WriteActive, StillStages, Promoted
      <4> QED
        BY <2>2, <4>1, <4>2, NoFileAssumption DEF IsActive
    <3> QED
      BY <2>2, <3>1 DEF Promote, WriteActive, IndInv, TypeOK, ProcessTypeOK, ProcInv, LockHeld, FlowInHand,
         SlotDiscipline, CommitDiscipline, Inside, Outside, InPass
  <2> QED
    BY <2>1, <2>2 DEF Promote
<1>3. /\ lock' \in {lock, p, None}
      /\ Inside(p) \/ lock = None \/ UNCHANGED <<storeVars, lock>>
  BY DEF Resolved, Return, Promote, Inside, Outside
<1>4. \A q \in Proc \ {p} :
        pc'[q] = pc[q] /\ frame'[q] = frame[q] /\ serving'[q] = serving[q]
  BY ResolvedLocal DEF Promote, IndInv, TypeOK, ProcessTypeOK
<1> QED
  BY <1>1, <1>2, <1>3, <1>4, StepInv

LEMMA UnstageInv ==
  ASSUME IndInv, NEW p \in Proc, Unstage(p)
  PROVE  IndInv'
<1> USE DEF Goto, storeVars, spoolVars, historyVars
<1>1. TypeOK'
  BY ResolvedType, FlowAssumption
  DEF DiscardStaged, Unstage, IndInv, TypeOK, StoreTypeOK, SpoolTypeOK, GoogleTypeOK,
                ProcessTypeOK, HistoryTypeOK, Label
<1>2. ProcInv(p)'
  BY ResolvedInv, NoneAssumption DEF DiscardStaged, Settled, IsActive, Unstage, IndInv, TypeOK, ProcessTypeOK, Frame, ProcInv, LockHeld, FlowInHand,
         SlotDiscipline, CommitDiscipline, Inside, Outside, InPass
<1>3. /\ lock' \in {lock, p, None}
      /\ Inside(p) \/ lock = None \/ UNCHANGED <<storeVars, lock>>
  BY DEF Resolved, Return, Unstage, Inside, Outside
<1>4. \A q \in Proc \ {p} :
        pc'[q] = pc[q] /\ frame'[q] = frame[q] /\ serving'[q] = serving[q]
  BY ResolvedLocal DEF Unstage, IndInv, TypeOK, ProcessTypeOK
<1> QED
  BY <1>1, <1>2, <1>3, <1>4, StepInv

LEMMA ActivateInv ==
  ASSUME IndInv, NEW p \in Proc, Activate(p)
  PROVE  IndInv'
<1> USE DEF Goto, storeVars, spoolVars, historyVars
<1>1. TypeOK'
  <2>1. serving' \in [Proc -> Token \cup {None}]
    BY DEF Activate, IndInv, TypeOK, StoreTypeOK, SpoolTypeOK, GoogleTypeOK,
                ProcessTypeOK, HistoryTypeOK, Label, Activated, ProcInv, CommitDiscipline, IsActive, Credential
  <2>2. lock' \in Proc \cup {None} /\ pc' \in [Proc -> Label] /\ frame' \in [Proc -> Frame]
    <3>1. CASE Settle(p, frame[p].cur, "connected") /\ UNCHANGED lock
      BY <3>1, InHandType DEF Activate, Settle, IndInv, TypeOK, StoreTypeOK, SpoolTypeOK, GoogleTypeOK,
                ProcessTypeOK, HistoryTypeOK, Label, Disposition, ProcInv, FlowInHand
    <3> QED
      BY <3>1, ResolvedType DEF Activate, IndInv
  <2> QED
    BY <2>1, <2>2 DEF Activate, IndInv, TypeOK, StoreTypeOK, SpoolTypeOK, GoogleTypeOK,
                ProcessTypeOK, HistoryTypeOK, Label
<1>2. ProcInv(p)'
  BY ResolvedInv, NoneAssumption DEF Activated, Settle, Settled, IsActive, Activate, IndInv, TypeOK, ProcessTypeOK, Frame, ProcInv, LockHeld, FlowInHand,
         SlotDiscipline, CommitDiscipline, Inside, Outside, InPass
<1>3. /\ lock' \in {lock, p, None}
      /\ Inside(p) \/ lock = None \/ UNCHANGED <<storeVars, lock>>
  BY DEF Resolved, Return, Activate, Inside, Outside
<1>4. \A q \in Proc \ {p} :
        pc'[q] = pc[q] /\ frame'[q] = frame[q] /\ serving'[q] = serving[q]
  BY ResolvedLocal DEF Activated, Settle, Activate, IndInv, TypeOK, ProcessTypeOK
<1> QED
  BY <1>1, <1>2, <1>3, <1>4, StepInv

LEMMA QueueOutcomeInv ==
  ASSUME IndInv, NEW p \in Proc, QueueOutcome(p)
  PROVE  IndInv'
<1> USE DEF Goto, storeVars, spoolVars, historyVars
<1>1. TypeOK'
  <2>1. NoticeKey(p) \in Key
    BY DEF QueueOutcome, NoticeKey, Key, Settled, IndInv, ProcInv, FlowInHand
  <2>2. notices' \subseteq Notice
    BY <2>1, QueueNoticeType DEF QueueOutcome, IndInv, TypeOK, StoreTypeOK, SpoolTypeOK, GoogleTypeOK,
                ProcessTypeOK, HistoryTypeOK, Label
  <2> QED
    BY <2>2 DEF QueueOutcome, QueueNotice, IndInv, TypeOK, StoreTypeOK, SpoolTypeOK, GoogleTypeOK,
                ProcessTypeOK, HistoryTypeOK, Label
<1>2. ProcInv(p)'
  <2>1. UNCHANGED <<active, staged>>
    BY DEF QueueOutcome, QueueNotice
  <2> QED
    BY <2>1 DEF QueueOutcome, IsActive, IndInv, TypeOK, ProcessTypeOK, ProcInv, LockHeld, FlowInHand,
         SlotDiscipline, CommitDiscipline, Inside, Outside, InPass
<1>3. /\ lock' \in {lock, p, None}
      /\ Inside(p) \/ lock = None \/ UNCHANGED <<storeVars, lock>>
  BY DEF QueueOutcome, Inside, Outside
<1>4. \A q \in Proc \ {p} :
        pc'[q] = pc[q] /\ frame'[q] = frame[q] /\ serving'[q] = serving[q]
  BY DEF QueueOutcome, IndInv, TypeOK, ProcessTypeOK
<1> QED
  BY <1>1, <1>2, <1>3, <1>4, StepInv

LEMMA AckFlowInv ==
  ASSUME IndInv, NEW p \in Proc, AckFlow(p)
  PROVE  IndInv'
<1> USE DEF Goto, storeVars, spoolVars, historyVars
<1>1. TypeOK'
  <2>1. SpoolTypeOK'
    BY DEF AckFlow, Ack, IndInv, TypeOK, StoreTypeOK, SpoolTypeOK, GoogleTypeOK,
                ProcessTypeOK, HistoryTypeOK, Label, Status, ResultFile
  <2>2. lock' \in Proc \cup {None} /\ pc' \in [Proc -> Label] /\ frame' \in [Proc -> Frame]
    <3>1. CASE frame' = [frame EXCEPT ![p].cur = None, ![p].disp = "none"] /\ Goto(p, "loop") /\ UNCHANGED lock
      BY <3>1, InHandType DEF IndInv, TypeOK, StoreTypeOK, SpoolTypeOK, GoogleTypeOK,
                ProcessTypeOK, HistoryTypeOK, Label, Disposition
    <3>2. CASE Goto(p, "unstage") /\ UNCHANGED <<lock, frame>>
      BY <3>2 DEF IndInv, TypeOK, StoreTypeOK, SpoolTypeOK, GoogleTypeOK,
                ProcessTypeOK, HistoryTypeOK, Label
    <3> QED
      BY <3>1, <3>2, ResolvedType DEF AckFlow, IndInv
  <2>3. quiet' \subseteq Key
    BY DEF AckFlow, NoticeKey, Key, Settled, IndInv, TypeOK, StoreTypeOK, SpoolTypeOK, GoogleTypeOK,
                ProcessTypeOK, HistoryTypeOK, Label, ProcInv, FlowInHand
  <2> QED
    BY <2>1, <2>2, <2>3 DEF AckFlow, IndInv, TypeOK, StoreTypeOK, SpoolTypeOK, GoogleTypeOK,
                ProcessTypeOK, HistoryTypeOK, Label
<1>2. ProcInv(p)'
  BY ResolvedInv, NoneAssumption DEF Settled, AckFlow, IndInv, TypeOK, ProcessTypeOK, Frame, ProcInv, LockHeld, FlowInHand,
         SlotDiscipline, CommitDiscipline, Inside, Outside, InPass
<1>3. /\ lock' \in {lock, p, None}
      /\ Inside(p) \/ lock = None \/ UNCHANGED <<storeVars, lock>>
  BY DEF Resolved, Return, AckFlow, Inside, Outside
<1>4. \A q \in Proc \ {p} :
        pc'[q] = pc[q] /\ frame'[q] = frame[q] /\ serving'[q] = serving[q]
  BY ResolvedLocal DEF AckFlow, IndInv, TypeOK, ProcessTypeOK
<1> QED
  BY <1>1, <1>2, <1>3, <1>4, StepInv

LEMMA CollectPassInv ==
  ASSUME IndInv, NEW p \in Proc, CollectPass(p)
  PROVE  IndInv'
<1> USE DEF Goto, storeVars, spoolVars, historyVars
<1>1. TypeOK'
  BY PassFieldsType, PeekNoticesType, FlowAssumption
  DEF AcquireLock, CollectPass, IndInv, TypeOK, StoreTypeOK, SpoolTypeOK, GoogleTypeOK,
                ProcessTypeOK, HistoryTypeOK, Label
<1>2. ProcInv(p)'
  BY NoneAssumption DEF AcquireLock, CollectPass, IndInv, TypeOK, ProcessTypeOK, Frame, ProcInv, LockHeld, FlowInHand,
         SlotDiscipline, CommitDiscipline, Inside, Outside, InPass
<1>3. /\ lock' \in {lock, p, None}
      /\ Inside(p) \/ lock = None \/ UNCHANGED <<storeVars, lock>>
  BY DEF AcquireLock, CollectPass, Inside, Outside
<1>4. \A q \in Proc \ {p} :
        pc'[q] = pc[q] /\ frame'[q] = frame[q] /\ serving'[q] = serving[q]
  BY DEF CollectPass, IndInv, TypeOK, ProcessTypeOK
<1> QED
  BY <1>1, <1>2, <1>3, <1>4, StepInv

LEMMA ListAttemptsInv ==
  ASSUME IndInv, NEW p \in Proc, ListAttempts(p)
  PROVE  IndInv'
<1> USE DEF Goto, storeVars, spoolVars, historyVars
<1>1. TypeOK'
  <2>1. frame' \in [Proc -> Frame]
    <3>1. PICK listed \in SUBSET Attempts :
            frame' = [frame EXCEPT ![p].task = "attempt",
                                   ![p].committed = CommittedGeneration(active),
                                   ![p].todo = listed]
      BY DEF ListAttempts
    <3>2. listed \in SUBSET AttemptRecord
      BY AttemptsType DEF IndInv, TypeOK
    <3> QED
      BY <3>1, <3>2, ListFieldsType, CommittedGenerationType
      DEF IndInv, TypeOK, StoreTypeOK, ProcessTypeOK
  <2> QED
    BY <2>1 DEF ListAttempts, IndInv, TypeOK, StoreTypeOK, SpoolTypeOK, GoogleTypeOK,
                ProcessTypeOK, HistoryTypeOK, Label
<1>2. ProcInv(p)'
  BY NoneAssumption DEF ListAttempts, IndInv, TypeOK, ProcessTypeOK, Frame, ProcInv, LockHeld, FlowInHand,
         SlotDiscipline, CommitDiscipline, Inside, Outside, InPass
<1>3. /\ lock' \in {lock, p, None}
      /\ Inside(p) \/ lock = None \/ UNCHANGED <<storeVars, lock>>
  BY DEF ListAttempts, Inside, Outside
<1>4. \A q \in Proc \ {p} :
        pc'[q] = pc[q] /\ frame'[q] = frame[q] /\ serving'[q] = serving[q]
  BY DEF ListAttempts, IndInv, TypeOK, ProcessTypeOK
<1> QED
  BY <1>1, <1>2, <1>3, <1>4, StepInv

LEMMA EndLoopInv ==
  ASSUME IndInv, NEW p \in Proc, EndLoop(p)
  PROVE  IndInv'
<1> USE DEF Goto, storeVars, spoolVars, historyVars
<1>1. TypeOK'
  BY FlowAssumption
  DEF EndLoop, IndInv, TypeOK, StoreTypeOK, SpoolTypeOK, GoogleTypeOK,
                ProcessTypeOK, HistoryTypeOK, Label
<1>2. ProcInv(p)'
  BY NoneAssumption DEF EndLoop, IndInv, TypeOK, ProcessTypeOK, Frame, ProcInv, LockHeld, FlowInHand,
         SlotDiscipline, CommitDiscipline, Inside, Outside, InPass
<1>3. /\ lock' \in {lock, p, None}
      /\ Inside(p) \/ lock = None \/ UNCHANGED <<storeVars, lock>>
  BY DEF EndLoop, Inside, Outside
<1>4. \A q \in Proc \ {p} :
        pc'[q] = pc[q] /\ frame'[q] = frame[q] /\ serving'[q] = serving[q]
  BY DEF EndLoop, IndInv, TypeOK, ProcessTypeOK
<1> QED
  BY <1>1, <1>2, <1>3, <1>4, StepInv

LEMMA RecommitInv ==
  ASSUME IndInv, NEW p \in Proc, Recommit(p)
  PROVE  IndInv'
<1> USE DEF Goto, storeVars, spoolVars, historyVars
<1>1. TypeOK'
  BY FlowAssumption
  DEF Activated, IsActive, Credential, ProcInv, CommitDiscipline, Recommit, IndInv, TypeOK, StoreTypeOK, SpoolTypeOK, GoogleTypeOK,
                ProcessTypeOK, HistoryTypeOK, Label
<1>2. ProcInv(p)'
  BY NoneAssumption DEF Activated, IsActive, Settled, Recommit, IndInv, TypeOK, ProcessTypeOK, Frame, ProcInv, LockHeld, FlowInHand,
         SlotDiscipline, CommitDiscipline, Inside, Outside, InPass
<1>3. /\ lock' \in {lock, p, None}
      /\ Inside(p) \/ lock = None \/ UNCHANGED <<storeVars, lock>>
  BY DEF Recommit, Inside, Outside
<1>4. \A q \in Proc \ {p} :
        pc'[q] = pc[q] /\ frame'[q] = frame[q] /\ serving'[q] = serving[q]
  BY DEF Activated, Recommit, IndInv, TypeOK, ProcessTypeOK
<1> QED
  BY <1>1, <1>2, <1>3, <1>4, StepInv

LEMMA ExchangeInv ==
  ASSUME IndInv, NEW p \in Proc, NEW r, Exchange(p, r)
  PROVE  IndInv'
<1> USE DEF Goto, storeVars, spoolVars, historyVars
<1>1. TypeOK'
  <2>1. GoogleTypeOK'
    BY DEF Exchange, GoogleAfter, IndInv, TypeOK, StoreTypeOK, SpoolTypeOK, GoogleTypeOK,
                ProcessTypeOK, HistoryTypeOK, Label, GrantState
  <2>2. lock' \in Proc \cup {None} /\ pc' \in [Proc -> Label] /\ frame' \in [Proc -> Frame]
    <3>1. CASE ToAck(p, frame[p].cur, "refused") /\ UNCHANGED lock
      BY <3>1, InHandType DEF Exchange, ToAck, IndInv, TypeOK, StoreTypeOK, SpoolTypeOK, GoogleTypeOK,
                ProcessTypeOK, HistoryTypeOK, Label, Disposition, ProcInv, FlowInHand
    <3>2. CASE (Goto(p, "stage") \/ Goto(p, "finish")) /\ UNCHANGED <<lock, frame>>
      BY <3>2 DEF IndInv, TypeOK, StoreTypeOK, SpoolTypeOK, GoogleTypeOK,
                ProcessTypeOK, HistoryTypeOK, Label
    <3>3. CASE Return(p)
      BY <3>3, EmptyFrameType DEF Return, IndInv, TypeOK, StoreTypeOK, SpoolTypeOK, GoogleTypeOK,
                ProcessTypeOK, HistoryTypeOK, Label
    <3> QED
      BY <3>1, <3>2, <3>3 DEF Exchange
  <2> QED
    BY <2>1, <2>2 DEF Exchange, IndInv, TypeOK, StoreTypeOK, SpoolTypeOK, GoogleTypeOK,
                ProcessTypeOK, HistoryTypeOK, Label
<1>2. ProcInv(p)'
  BY NoneAssumption DEF ToAck, Return, Settled, Exchange, IndInv, TypeOK, ProcessTypeOK, Frame, ProcInv, LockHeld, FlowInHand,
         SlotDiscipline, CommitDiscipline, Inside, Outside, InPass
<1>3. /\ lock' \in {lock, p, None}
      /\ Inside(p) \/ lock = None \/ UNCHANGED <<storeVars, lock>>
  BY DEF Return, ToAck, Exchange, Inside, Outside
<1>4. \A q \in Proc \ {p} :
        pc'[q] = pc[q] /\ frame'[q] = frame[q] /\ serving'[q] = serving[q]
  BY DEF ToAck, Return, Exchange, IndInv, TypeOK, ProcessTypeOK
<1> QED
  BY <1>1, <1>2, <1>3, <1>4, StepInv

LEMMA StageTokenInv ==
  ASSUME IndInv, NEW p \in Proc, StageToken(p)
  PROVE  IndInv'
<1> USE DEF Goto, storeVars, spoolVars, historyVars
<1>1. TypeOK'
  <2>1. staged' \in StagedCredential
    BY ClockAssumption DEF StageToken, Stage, StagedCredential, IndInv, ProcInv, FlowInHand
  <2> QED
    BY <2>1 DEF StageToken, Stage, IndInv, TypeOK, StoreTypeOK, SpoolTypeOK, GoogleTypeOK,
                ProcessTypeOK, HistoryTypeOK, Label
<1>2. ProcInv(p)'
  BY NoneAssumption DEF Stage, StageToken, IndInv, TypeOK, ProcessTypeOK, Frame, ProcInv, LockHeld, FlowInHand,
         SlotDiscipline, CommitDiscipline, Inside, Outside, InPass
<1>3. /\ lock' \in {lock, p, None}
      /\ Inside(p) \/ lock = None \/ UNCHANGED <<storeVars, lock>>
  BY DEF StageToken, Inside, Outside
<1>4. \A q \in Proc \ {p} :
        pc'[q] = pc[q] /\ frame'[q] = frame[q] /\ serving'[q] = serving[q]
  BY DEF StageToken, IndInv, TypeOK, ProcessTypeOK
<1> QED
  BY <1>1, <1>2, <1>3, <1>4, StepInv

LEMMA FinishPassInv ==
  ASSUME IndInv, NEW p \in Proc, FinishPass(p)
  PROVE  IndInv'
<1> USE DEF Goto, storeVars, spoolVars, historyVars
<1>1. TypeOK'
  <2>1. notices' \subseteq Notice
    BY RecordNoticesOfferedType DEF FinishPass, IndInv, TypeOK, StoreTypeOK, SpoolTypeOK, GoogleTypeOK,
                ProcessTypeOK, HistoryTypeOK, Label
  <2>2. offers' \in [Key -> 0 .. NoticeLimit + 1]
    BY NoticeAssumption DEF FinishPass, IndInv, TypeOK, StoreTypeOK, SpoolTypeOK, GoogleTypeOK,
                ProcessTypeOK, HistoryTypeOK, Label
  <2> QED
    BY <2>1, <2>2, EmptyFrameType DEF FinishPass, Return, RecordNoticesOffered, IndInv, TypeOK, StoreTypeOK, SpoolTypeOK, GoogleTypeOK,
                ProcessTypeOK, HistoryTypeOK, Label
<1>2. ProcInv(p)'
  BY NoneAssumption DEF Return, FinishPass, IndInv, TypeOK, ProcessTypeOK, Frame, ProcInv, LockHeld, FlowInHand,
         SlotDiscipline, CommitDiscipline, Inside, Outside, InPass
<1>3. /\ lock' \in {lock, p, None}
      /\ Inside(p) \/ lock = None \/ UNCHANGED <<storeVars, lock>>
  BY DEF Return, FinishPass, Inside, Outside
<1>4. \A q \in Proc \ {p} :
        pc'[q] = pc[q] /\ frame'[q] = frame[q] /\ serving'[q] = serving[q]
  BY DEF Return, FinishPass, IndInv, TypeOK, ProcessTypeOK
<1> QED
  BY <1>1, <1>2, <1>3, <1>4, StepInv

LEMMA RaiseInv ==
  ASSUME IndInv, NEW p \in Proc, Raise(p)
  PROVE  IndInv'
<1> USE DEF Goto, storeVars, spoolVars, historyVars
<1>1. TypeOK'
  BY EmptyFrameType, FlowAssumption
  DEF Return, Raise, IndInv, TypeOK, StoreTypeOK, SpoolTypeOK, GoogleTypeOK,
                ProcessTypeOK, HistoryTypeOK, Label
<1>2. ProcInv(p)'
  BY NoneAssumption DEF Return, Raise, IndInv, TypeOK, ProcessTypeOK, Frame, ProcInv, LockHeld, FlowInHand,
         SlotDiscipline, CommitDiscipline, Inside, Outside, InPass
<1>3. /\ lock' \in {lock, p, None}
      /\ Inside(p) \/ lock = None \/ UNCHANGED <<storeVars, lock>>
  BY DEF CanRaise, Return, Raise, Inside, Outside
<1>4. \A q \in Proc \ {p} :
        pc'[q] = pc[q] /\ frame'[q] = frame[q] /\ serving'[q] = serving[q]
  BY DEF Return, Raise, IndInv, TypeOK, ProcessTypeOK
<1> QED
  BY <1>1, <1>2, <1>3, <1>4, StepInv

LEMMA CrashInv ==
  ASSUME IndInv, NEW p \in Proc, Crash(p)
  PROVE  IndInv'
<1> USE DEF Goto, storeVars, spoolVars, historyVars
<1>1. TypeOK'
  BY EmptyFrameType, FlowAssumption
  DEF Crash, IndInv, TypeOK, StoreTypeOK, SpoolTypeOK, GoogleTypeOK,
                ProcessTypeOK, HistoryTypeOK, Label
<1>2. ProcInv(p)'
  BY NoneAssumption DEF Crash, IndInv, TypeOK, ProcessTypeOK, Frame, ProcInv, LockHeld, FlowInHand,
         SlotDiscipline, CommitDiscipline, Inside, Outside, InPass
<1>3. /\ lock' \in {lock, p, None}
      /\ Inside(p) \/ lock = None \/ UNCHANGED <<storeVars, lock>>
  BY DEF IndInv, ProcInv, LockHeld, Crash, Inside, Outside
<1>4. \A q \in Proc \ {p} :
        pc'[q] = pc[q] /\ frame'[q] = frame[q] /\ serving'[q] = serving[q]
  BY DEF Crash, IndInv, TypeOK, ProcessTypeOK
<1> QED
  BY <1>1, <1>2, <1>3, <1>4, StepInv

LEMMA StartInv ==
  ASSUME IndInv, NEW p \in Proc, NEW f \in Flow, Start(p, f)
  PROVE  IndInv'
<1> USE DEF Goto, storeVars, spoolVars, historyVars
<1>1. TypeOK'
  BY FlowAssumption
  DEF Mint, Status, processVars, Start, IndInv, TypeOK, StoreTypeOK, SpoolTypeOK, GoogleTypeOK,
                ProcessTypeOK, HistoryTypeOK, Label
<1>2. ProcInv(p)'
  BY NoneAssumption DEF Mint, processVars, IsActive, StillStages, Start, IndInv, TypeOK, ProcessTypeOK, Frame, ProcInv, LockHeld, FlowInHand,
         SlotDiscipline, CommitDiscipline, Inside, Outside, InPass
<1>3. /\ lock' \in {lock, p, None}
      /\ Inside(p) \/ lock = None \/ UNCHANGED <<storeVars, lock>>
  BY DEF processVars, Start, Inside, Outside
<1>4. \A q \in Proc \ {p} :
        pc'[q] = pc[q] /\ frame'[q] = frame[q] /\ serving'[q] = serving[q]
  BY DEF processVars, Start, IndInv, TypeOK, ProcessTypeOK
<1> QED
  BY <1>1, <1>2, <1>3, <1>4, StepInv

LEMMA TakeInv ==
  ASSUME IndInv, NEW p \in Proc, NEW rec \in frame[p].todo, SpoolTypeOK',
         NEW l \in {"ack", "loop", "exchange", "recommit"}, NEW d \in Disposition,
         Take(p, rec, l, d),
         l = "ack" => d \notin Settled \cup {"connected", "committed"},
         l = "recommit" => d = "committed" /\ IsActive(rec.flow)
  PROVE  IndInv'
<1> USE DEF Goto, storeVars, historyVars
<1>1. rec.flow \in Flow
  BY DEF IndInv, TypeOK, ProcessTypeOK, Frame, AttemptRecord
<1>2. frame' \in [Proc -> Frame]
  BY <1>1, TakeFieldsType DEF Take, IndInv, TypeOK, ProcessTypeOK
<1>3. TypeOK'
  BY <1>2 DEF Take, IndInv, TypeOK, StoreTypeOK, GoogleTypeOK, ProcessTypeOK,
              HistoryTypeOK, Label
<1>4. /\ pc'[p] = l /\ frame'[p].cur = rec.flow /\ frame'[p].disp = d
      /\ frame'[p].task = frame[p].task
  BY DEF Take, IndInv, TypeOK, ProcessTypeOK, Frame
<1>5. ProcInv(p)'
  BY <1>1, <1>4
  DEF Take, IndInv, ProcInv, LockHeld, FlowInHand, SlotDiscipline, CommitDiscipline,
      Inside, Outside, InPass, IsActive, Settled
<1>6. \A q \in Proc \ {p} :
        pc'[q] = pc[q] /\ frame'[q] = frame[q] /\ serving'[q] = serving[q]
  BY DEF Take, IndInv, TypeOK, ProcessTypeOK
<1>7. lock' \in {lock, p, None} /\ Inside(p)
  BY DEF Take, Inside, Outside
<1> QED
  BY <1>3, <1>5, <1>6, <1>7, StepInv

LEMMA TakeResultInv ==
  ASSUME IndInv, NEW p \in Proc, NEW rec \in frame[p].todo, SpoolTypeOK', TakeResult(p, rec)
  PROVE  IndInv'
<1>1. /\ {"none", "refused"} \subseteq Disposition
      /\ "refused" \notin Settled \cup {"connected", "committed"}
  BY DEF Disposition, Settled
<1>2. CASE Take(p, rec, "exchange", "none")
  BY <1>1, <1>2, TakeInv
<1>3. CASE Take(p, rec, "ack", "refused")
  BY <1>1, <1>3, TakeInv
<1> QED
  BY <1>2, <1>3 DEF TakeResult

LEMMA IterateInv ==
  ASSUME IndInv, NEW p \in Proc, Iterate(p)
  PROVE  IndInv'
<1>1. PICK rec \in frame[p].todo :
        \/ DropSuperseded(p, rec) \/ SkipAwaiting(p, rec) \/ DropDone(p, rec)
        \/ CollectResult(p, rec) \/ RetryLater(p, rec)
        \/ AlreadyCommitted(p, rec) \/ ResumeHeld(p, rec) \/ GiveUpHeld(p, rec)
  BY DEF Iterate
<1>2. {"none", "superseded", "done", "lost", "committed"} \subseteq Disposition
  BY DEF Disposition
<1>3. SpoolTypeOK
  BY DEF IndInv, TypeOK
<1>4. UNCHANGED spoolVars => SpoolTypeOK'
  BY <1>3 DEF SpoolTypeOK, spoolVars
<1>5. Collect(rec.flow) => SpoolTypeOK'
  BY <1>3 DEF SpoolTypeOK, Collect, ResultFile
<1>6. CASE DropSuperseded(p, rec)
  BY <1>2, <1>4, <1>6, TakeInv DEF DropSuperseded, Settled
<1>7. CASE SkipAwaiting(p, rec)
  BY <1>2, <1>4, <1>7, TakeInv DEF SkipAwaiting
<1>8. CASE DropDone(p, rec)
  BY <1>2, <1>4, <1>8, TakeInv DEF DropDone, Settled
<1>9. CASE CollectResult(p, rec)
  BY <1>5, <1>9, TakeResultInv DEF CollectResult
<1>10. CASE RetryLater(p, rec)
  BY <1>2, <1>4, <1>10, TakeInv DEF RetryLater
<1>11. CASE AlreadyCommitted(p, rec)
  BY <1>2, <1>4, <1>11, TakeInv DEF AlreadyCommitted
<1>12. CASE ResumeHeld(p, rec)
  BY <1>4, <1>12, TakeResultInv DEF ResumeHeld
<1>13. CASE GiveUpHeld(p, rec)
  BY <1>2, <1>4, <1>13, TakeInv DEF GiveUpHeld, Settled
<1> QED
  BY <1>1, <1>6, <1>7, <1>8, <1>9, <1>10, <1>11, <1>12, <1>13

--------------------------------------------------------------------------------
(* Casa, the user and Google touch neither the store nor a process.            *)
LEMMA EnvironmentInv ==
  ASSUME IndInv, Casa \/ User \/ Google
  PROVE  IndInv'
<1> USE DEF storeVars, processVars, historyVars, CasaAlone
<1>1. UNCHANGED <<storeVars, processVars, historyVars>>
  BY DEF Casa, User, Google
<1>2. SpoolTypeOK /\ GoogleTypeOK
  BY DEF IndInv, TypeOK
<1>3. SpoolTypeOK'
  <2>1. CASE Casa
    BY <1>2, <2>1 DEF Casa, SpoolTypeOK, Materialize, Land, NoteClaim, Retire, Status,
                      Recorded, ResultFile
  <2>2. CASE User
    BY <1>2, <2>2 DEF User, SpoolTypeOK, Redirect, Status, Recorded, ResultFile, Answer
  <2>3. CASE Google
    BY <1>2, <2>3 DEF Google, SpoolTypeOK, spoolVars
  <2> QED
    BY <2>1, <2>2, <2>3
<1>4. GoogleTypeOK'
  BY <1>2 DEF Casa, User, Google, Consent, Invalidate, GoogleTypeOK, GrantState, Token
<1>5. TypeOK'
  BY <1>1, <1>3, <1>4 DEF IndInv, TypeOK, StoreTypeOK, ProcessTypeOK, HistoryTypeOK
<1>6. ASSUME NEW p \in Proc PROVE ProcInv(p)'
  BY <1>1 DEF IndInv, ProcInv, LockHeld, FlowInHand, SlotDiscipline, CommitDiscipline,
              Inside, StillStages, IsActive
<1> QED
  BY <1>5, <1>6 DEF IndInv

LEMMA StutterInv ==
  ASSUME IndInv, UNCHANGED vars
  PROVE  IndInv'
<1> USE DEF vars, storeVars, spoolVars, processVars, historyVars
<1>1. TypeOK'
  BY DEF IndInv, TypeOK, StoreTypeOK, SpoolTypeOK, GoogleTypeOK, ProcessTypeOK, HistoryTypeOK
<1>2. ASSUME NEW p \in Proc PROVE ProcInv(p)'
  BY DEF IndInv, ProcInv, LockHeld, FlowInHand, SlotDiscipline, CommitDiscipline, Inside,
         StillStages, IsActive
<1> QED
  BY <1>1, <1>2 DEF IndInv

LEMMA NextInv ==
  ASSUME IndInv, [Next]_vars
  PROVE  IndInv'
<1>1. ASSUME NEW p \in Proc, Recover(p) PROVE IndInv'
  BY <1>1, SpawnInv, LoadNothingInv, LoadDeadInv, LoadAliveInv DEF Recover
<1>2. ASSUME NEW p \in Proc, Reconcile(p) PROVE IndInv'
  BY <1>2, NothingStagedInv, DiscardResidueInv, StageRetainedInv, StageDeadInv,
     StageWrongAccountInv, StageVerifiedInv, PromoteInv, UnstageInv, ActivateInv,
     QueueOutcomeInv, AckFlowInv DEF Reconcile
<1>3. ASSUME NEW p \in Proc, Pass(p) PROVE IndInv'
  BY <1>3, CollectPassInv, ListAttemptsInv, IterateInv, EndLoopInv, RecommitInv,
     ExchangeInv, StageTokenInv, FinishPassInv DEF Pass
<1>4. ASSUME NEW p \in Proc, Server(p) PROVE IndInv'
  BY <1>1, <1>2, <1>3, <1>4, RaiseInv, CrashInv, StartInv DEF Server
<1> QED
  BY <1>4, EnvironmentInv, StutterInv DEF Next

(* The inductive invariant holds in every reachable state.                     *)
THEOREM Invariance == Spec => []IndInv
<1>1. Init => IndInv
  BY InitInv
<1>2. IndInv /\ [Next]_vars => IndInv'
  BY NextInv
<1> QED
  BY <1>1, <1>2, PTL DEF Spec

--------------------------------------------------------------------------------
(* Type correctness: every record the store, the spool and a pass keep is one  *)
(* the code could have written, for any number of processes and links.         *)
THEOREM TypeCorrect == Spec => []TypeOK
<1>1. IndInv => TypeOK
  BY DEF IndInv
<1> QED
  BY <1>1, Invariance, PTL

(* The collect lock does what reconcile_stage and promote rely on: nobody else *)
(* is inside a recovery or a pass, and promote finds the flow it verified.     *)
THEOREM MutualExclusion == Spec => []OnlyHolderInside
<1>1. IndInv => OnlyHolderInside
  BY DEF IndInv, ProcInv, LockHeld, SlotDiscipline, OnlyHolderInside, Inside, Outside
<1> QED
  BY <1>1, Invariance, PTL

(* A flow is acked as connected only when its credential is the active one on  *)
(* disk, the slot is free and the process already serves it.                   *)
THEOREM ConnectedMeansDurable == Spec => []ConnectedIsDurableAndServing
<1>1. IndInv => ConnectedIsDurableAndServing
  BY DEF IndInv, ProcInv, CommitDiscipline, SlotDiscipline, Settled,
         ConnectedIsDurableAndServing
<1> QED
  BY <1>1, Invariance, PTL

(* A step writes the slot only when it is empty.                               *)
LEMMA StageStep ==
  ASSUME IndInv, [Next]_vars, staged # None
  PROVE  staged' \in {staged, None}
<1> USE DEF storeVars, spoolVars, processVars, historyVars, CasaAlone
<1>1. ASSUME NEW p \in Proc PROVE ~StageToken(p)
  BY DEF StageToken, IndInv, ProcInv, SlotDiscipline, InPass
<1>2. ASSUME NEW p \in Proc, Recover(p) PROVE staged' = staged
  BY <1>2 DEF Recover, Spawn, LoadNothing, LoadDead, LoadAlive, RemoveActive, WriteActive
<1>3. ASSUME NEW p \in Proc, Reconcile(p) PROVE staged' \in {staged, None}
  BY <1>3 DEF Reconcile, NothingStaged, DiscardResidue, StageRetained, StageDead,
       StageWrongAccount, StageVerified, VerifyStaged, Promote, Unstage, Activate,
       QueueOutcome, AckFlow, DiscardStaged, WriteActive, QueueNotice
<1>4. ASSUME NEW p \in Proc, Iterate(p) PROVE staged' = staged
  BY <1>4 DEF Iterate, DropSuperseded, SkipAwaiting, DropDone, CollectResult, RetryLater,
       AlreadyCommitted, ResumeHeld, GiveUpHeld, TakeResult, Take
<1>5. ASSUME NEW p \in Proc, Pass(p) PROVE staged' = staged
  BY <1>1, <1>4, <1>5 DEF Pass, CollectPass, ListAttempts, EndLoop, Recommit, Exchange,
       FinishPass, RecordNoticesOffered
<1>6. ASSUME NEW p \in Proc, Server(p) PROVE staged' \in {staged, None}
  BY <1>2, <1>3, <1>5, <1>6 DEF Server, Raise, Crash, Start
<1> QED
  BY <1>6 DEF Next, Casa, User, Google, vars

(* No step writes a second token over a stage that is still unresolved.        *)
THEOREM StageIsNeverOverwritten == Spec => StageNeverOverwritten
  BY StageStep, Invariance, PTL DEF Spec, StageNeverOverwritten
================================================================================
