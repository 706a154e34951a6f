-------------------------- MODULE DurableStore_proofs --------------------------
(* The store's promises, for every set of tokens and any number of writes,     *)
(* failures and power losses.  DurableInv is inductive; PromisedSurvives alone *)
(* is not: that a synchronised directory keeps the token needs the bytes of    *)
(* the temporary on disk before the rename (WriteInv) and the state of the     *)
(* directory among the survivors (DiskInv), and that an unlink spares it needs *)
(* the other slot to hold it (UnlinkInv).                                      *)
EXTENDS DurableStore, TLAPS

(* What processes see and what a disk would keep have the same slots, for only *)
(* temporaries are written in place.                                           *)
LEMMA SlotsOnDisk ==
  ASSUME NEW d \in Directory, NEW u \in SUBSET Name, u \cap Slot = {}
  PROVE  /\ OnDisk(d, u) \in Directory
         /\ \A s \in Slot : OnDisk(d, u)[s] = d[s]
  BY DEF OnDisk, Directory, Name, Slot, Content

(* A step that leaves the directory and the survivors alone.                   *)
LEMMA DiskKept ==
  ASSUME DurableInv, UNCHANGED diskVars
  PROVE  DiskInv' /\ SlotsNeverTorn'
  BY DEF DurableInv, diskVars, DiskInv, SlotsNeverTorn

(* A change of the directory to d that tears no slot, dirties none, and leaves *)
(* every promised token in a slot.                                             *)
LEMMA DiskChanged ==
  ASSUME DurableInv, NEW d \in Directory, NEW u \in SUBSET Name, Changes(d, u),
         u \cap Slot = {}, \A s \in Slot : d[s] # Cut,
         promised' \subseteq promised,
         \A t \in promised' : t \in {d[s] : s \in Slot}
  PROVE  /\ dir' \in Directory /\ dirty' \subseteq Name
         /\ kept' \subseteq Directory /\ kept' # {}
         /\ promised' \subseteq Token
         /\ DiskInv' /\ SlotsNeverTorn' /\ PromisedSurvives'
<1>1. dir' = d /\ dirty' = u /\ kept' = kept \cup {OnDisk(d, u)}
  BY DEF Changes
<1>2. OnDisk(d, u) \in Directory /\ \A s \in Slot : OnDisk(d, u)[s] = d[s]
  BY SlotsOnDisk
<1>3. DiskInv'
  BY <1>1 DEF DiskInv
<1>4. SlotsNeverTorn'
  BY <1>1, <1>2 DEF DurableInv, SlotsNeverTorn
<1>5. PromisedSurvives'
  <2> SUFFICES ASSUME NEW t \in promised', NEW e \in kept \cup {OnDisk(d, u), d}
               PROVE  t \in {e[s] : s \in Slot}
    BY <1>1 DEF PromisedSurvives
  <2>1. CASE e \in kept
    BY <2>1 DEF DurableInv, PromisedSurvives
  <2>2. CASE e = d
    BY <2>2
  <2>3. CASE e = OnDisk(d, u)
    BY <1>2, <2>3
  <2> QED
    BY <2>1, <2>2, <2>3
<1> QED
  BY <1>1, <1>2, <1>3, <1>4, <1>5 DEF DurableInv, DurableTypeOK

(* Once the directory is synchronised it is what a power loss leaves.          *)
LEMMA Synced ==
  ASSUME DurableInv, kept' = {OnDisk(dir, dirty)}, UNCHANGED <<dir, dirty>>,
         NEW t \in Token \cup promised, promised' \subseteq promised \cup {t},
         t \in {dir[s] : s \in Slot} \/ t \in promised
  PROVE  /\ dir' \in Directory /\ dirty' \subseteq Name
         /\ kept' \subseteq Directory /\ kept' # {}
         /\ promised' \subseteq Token
         /\ DiskInv' /\ SlotsNeverTorn' /\ PromisedSurvives'
<1>1. dir \in Directory /\ dirty \subseteq Name /\ dirty \cap Slot = {} /\ promised \subseteq Token
  BY DEF DurableInv, DurableTypeOK, DiskInv
<1>2. OnDisk(dir, dirty) \in Directory /\ \A s \in Slot : OnDisk(dir, dirty)[s] = dir[s]
  BY <1>1, SlotsOnDisk
<1>3. \A q \in promised' : q \in {dir[s] : s \in Slot}
  BY DEF DurableInv, PromisedSurvives
<1>4. PromisedSurvives'
  BY <1>2, <1>3 DEF PromisedSurvives
<1>5. SlotsNeverTorn'
  BY <1>2 DEF DurableInv, SlotsNeverTorn
<1> QED
  BY <1>1, <1>2, <1>4, <1>5 DEF DiskInv

--------------------------------------------------------------------------------
LEMMA InitDurable == DurableInit => DurableInv
<1> SUFFICES ASSUME DurableInit PROVE DurableInv
  OBVIOUS
<1>1. dir = [n \in Name |-> None] /\ dirty = {} /\ kept = {dir} /\ call = NoCall /\ promised = {}
  BY DEF DurableInit
<1>2. dir \in Directory
  BY <1>1 DEF Directory, Content
<1>3. DurableTypeOK
  BY <1>1, <1>2 DEF DurableTypeOK, NoCall, Operation, Syscall, Slot
<1>4. OnDisk(dir, dirty) = dir
  BY <1>1, <1>2 DEF OnDisk, Directory
<1>5. DiskInv /\ WriteInv /\ UnlinkInv
  BY <1>1, <1>4 DEF DiskInv, WriteInv, UnlinkInv, NoCall
<1>6. SlotsNeverTorn /\ PromisedSurvives
  BY <1>1, ContentAssumption DEF SlotsNeverTorn, PromisedSurvives, Name, Slot
<1> QED
  BY <1>3, <1>5, <1>6 DEF DurableInv

(* The start of an operation.                                                  *)
LEMMA OperateKeeps == DurableInv /\ Operate => DurableInv'
<1> SUFFICES ASSUME DurableInv, Operate PROVE DurableInv'
  OBVIOUS
<1>1. UNCHANGED diskVars /\ promised' \subseteq promised
  BY DEF Operate, SignIn, Migrate, Stage, Promote, DiscardStaged, RemoveActive, Begin
<1>2. DiskInv' /\ SlotsNeverTorn'
  BY <1>1, DiskKept
<1>3. PromisedSurvives'
  BY <1>1 DEF diskVars, DurableInv, PromisedSurvives
<1>4. DurableTypeOK'
  BY <1>1 DEF diskVars, DurableInv, DurableTypeOK, Operate, SignIn, Migrate, Stage, Promote,
       DiscardStaged, RemoveActive, Begin, Operation, Syscall, Slot
<1>5. WriteInv' /\ UnlinkInv'
  <2> USE DEF WriteInv, UnlinkInv, Begin, diskVars, Slot
  <2>1. CASE \E t \in Token : Stage(t)
    BY <2>1 DEF Stage
  <2>2. CASE Promote
    BY <2>2 DEF Promote
  <2>3. CASE DiscardStaged
    BY <2>3 DEF DiscardStaged
  <2>4. CASE RemoveActive
    BY <2>4 DEF RemoveActive
  <2>5. CASE Migrate
    BY <2>5 DEF Migrate
  <2> QED
    BY <2>1, <2>2, <2>3, <2>4, <2>5 DEF Operate, SignIn
<1> QED
  BY <1>2, <1>3, <1>4, <1>5 DEF DurableInv

(* What the slots hold is unchanged when only a temporary is written.          *)
LEMMA TemporaryWritten ==
  ASSUME DurableInv, NEW s \in Slot, NEW c \in Content
  PROVE  /\ [dir EXCEPT ![Tmp[s]] = c] \in Directory
         /\ [dir EXCEPT ![Tmp[s]] = c][Tmp[s]] = c
         /\ \A q \in Slot : [dir EXCEPT ![Tmp[s]] = c][q] = dir[q]
         /\ Tmp[s] \in Name /\ Tmp[s] \notin Slot
  BY DEF DurableInv, DurableTypeOK, Directory, Name, Slot, Tmp

(* The system calls of a write, and of an unlink.                              *)
LEMMA ProceedKeeps == DurableInv /\ Proceed => DurableInv'
<1> SUFFICES ASSUME DurableInv, Proceed PROVE DurableInv'
  OBVIOUS
<1> USE DEF Goes
<1>0. /\ dir \in Directory /\ dirty \subseteq Name /\ kept \subseteq Directory /\ kept # {}
      /\ call \in [op: Operation, slot: Slot, token: Token \cup {None}, next: Syscall]
      /\ promised \subseteq Token
  BY DEF DurableInv, DurableTypeOK
<1>s. /\ \A s \in Slot : dir[s] # Cut
      /\ \A t \in promised : t \in {dir[s] : s \in Slot}
      /\ dirty \cap Slot = {}
  BY DEF DurableInv, SlotsNeverTorn, PromisedSurvives, DiskInv
<1>1. CASE Open
  <2> DEFINE d == [dir EXCEPT ![Tmp[call.slot]] = Cut]
             u == dirty \cup {Tmp[call.slot]}
  <2>1. /\ d \in Directory /\ \A q \in Slot : d[q] = dir[q]
        /\ u \subseteq Name /\ u \cap Slot = {} /\ Tmp[call.slot] \in u
    BY <1>0, <1>s, TemporaryWritten DEF Content
  <2>2. Changes(d, u) /\ promised' = promised /\ call' = [call EXCEPT !.next = "write"]
        /\ call.next = "open"
    BY <1>1 DEF Open
  <2> HIDE DEF d, u
  <2>3. /\ dir' \in Directory /\ dirty' \subseteq Name /\ kept' \subseteq Directory /\ kept' # {}
        /\ promised' \subseteq Token /\ DiskInv' /\ SlotsNeverTorn' /\ PromisedSurvives'
    BY <1>s, <2>1, <2>2, DiskChanged
  <2>4. dir' = d /\ dirty' = u
    BY <2>2 DEF Changes
  <2>5. WriteInv' /\ UnlinkInv'
    BY <1>0, <2>1, <2>2, <2>4 DEF DurableInv, WriteInv, UnlinkInv, Slot
  <2> QED
    BY <1>0, <2>2, <2>3, <2>5 DEF DurableInv, DurableTypeOK, Syscall
<1>2. CASE Write
  <2> DEFINE d == [dir EXCEPT ![Tmp[call.slot]] = call.token]
  <2>1. call.token \in Content
    BY <1>0 DEF Content
  <2>2. d \in Directory /\ (\A q \in Slot : d[q] = dir[q]) /\ d[Tmp[call.slot]] = call.token
    BY <1>0, <2>1, TemporaryWritten
  <2>3. dir' = d /\ UNCHANGED <<dirty, kept, promised>> /\ call' = [call EXCEPT !.next = "fsync"]
        /\ call.next = "write"
    BY <1>2 DEF Write
  <2> HIDE DEF d
  <2>4. OnDisk(d, dirty) = OnDisk(dir, dirty)
    <3>1. Tmp[call.slot] \in dirty
      BY <2>3 DEF DurableInv, WriteInv
    <3> QED
      BY <1>0, <3>1 DEF OnDisk, d, Directory
  <2>5. DiskInv' /\ SlotsNeverTorn' /\ PromisedSurvives'
    BY <2>2, <2>3, <2>4 DEF DurableInv, DiskInv, SlotsNeverTorn, PromisedSurvives
  <2>6. WriteInv' /\ UnlinkInv'
    BY <1>0, <2>2, <2>3 DEF DurableInv, WriteInv, UnlinkInv, Slot
  <2> QED
    BY <1>0, <2>2, <2>3, <2>5, <2>6 DEF DurableInv, DurableTypeOK, Syscall
<1>3. CASE Fsync
  <2> DEFINE u == dirty \ {Tmp[call.slot]}
  <2>1. Changes(dir, u) /\ promised' = promised /\ call' = [call EXCEPT !.next = "replace"]
        /\ call.next = "fsync"
    BY <1>3 DEF Fsync
  <2>2. u \subseteq Name /\ u \cap Slot = {} /\ Tmp[call.slot] \notin u
    BY <1>0, <1>s
  <2> HIDE DEF u
  <2>3. /\ dir' \in Directory /\ dirty' \subseteq Name /\ kept' \subseteq Directory /\ kept' # {}
        /\ promised' \subseteq Token /\ DiskInv' /\ SlotsNeverTorn' /\ PromisedSurvives'
    BY <1>0, <1>s, <2>1, <2>2, DiskChanged
  <2>4. dir' = dir /\ dirty' = u
    BY <2>1 DEF Changes
  <2>5. WriteInv' /\ UnlinkInv'
    BY <1>0, <2>1, <2>2, <2>4 DEF DurableInv, WriteInv, UnlinkInv, Slot
  <2> QED
    BY <1>0, <2>1, <2>3, <2>5 DEF DurableInv, DurableTypeOK, Syscall
<1>4. CASE Replace
  <2> DEFINE tmp == Tmp[call.slot]
             d == [dir EXCEPT ![call.slot] = dir[tmp], ![tmp] = None]
  <2>1. /\ call.next = "replace" /\ call' = [call EXCEPT !.next = "sync"]
        /\ promised' = promised \ ({dir[call.slot]} \ {call.token})
    BY <1>4 DEF Replace
  <2>2. /\ call.token \in Token /\ dir[tmp] = call.token /\ tmp \notin dirty
        /\ \/ call.op = "stage" /\ call.slot = "staged"
           \/ call.op = "write_active" /\ call.slot = "active"
           \/ call.op = "promote" /\ call.slot = "active" /\ dir["staged"] = call.token
    BY <2>1 DEF DurableInv, WriteInv
  <2>3. Changes(d, dirty)
    BY <1>4, <2>2 DEF Replace
  <2>4. d \in Directory /\ d[call.slot] = call.token /\ \A q \in Slot \ {call.slot} : d[q] = dir[q]
    BY <1>0, <2>2 DEF Directory, Name, Slot, Tmp, Content
  <2> HIDE DEF d
  <2>5. \A s \in Slot : d[s] # Cut
    BY <1>0, <1>s, <2>2, <2>4, ContentAssumption
  <2>6. \A t \in promised' : t \in {d[s] : s \in Slot}
    <3> SUFFICES ASSUME NEW t \in promised' PROVE \E s \in Slot : d[s] = t
      OBVIOUS
    <3>1. PICK s \in Slot : dir[s] = t
      BY <1>s, <2>1
    <3> QED
      BY <1>0, <2>1, <2>4, <3>1
  <2>7. /\ dir' \in Directory /\ dirty' \subseteq Name /\ kept' \subseteq Directory /\ kept' # {}
        /\ promised' \subseteq Token /\ DiskInv' /\ SlotsNeverTorn' /\ PromisedSurvives'
    BY <1>0, <1>s, <2>1, <2>3, <2>4, <2>5, <2>6, DiskChanged
  <2>8. dir' = d
    BY <2>3 DEF Changes
  <2>9. WriteInv' /\ UnlinkInv'
    BY <1>0, <2>1, <2>2, <2>4, <2>8 DEF WriteInv, UnlinkInv, Slot
  <2> QED
    BY <1>0, <2>1, <2>7, <2>9 DEF DurableInv, DurableTypeOK, Syscall
<1>5. CASE SyncDirectory
  <2>1. /\ call.next = "sync" /\ kept' = {OnDisk(dir, dirty)} /\ UNCHANGED <<dir, dirty>>
        /\ promised' = promised \cup {call.token}
        /\ call' = IF call.op = "promote"
                      THEN [call EXCEPT !.slot = "staged", !.next = "unlink"] ELSE NoCall
    BY <1>5 DEF SyncDirectory, Written
  <2>2. /\ call.token \in Token /\ dir[call.slot] = call.token
        /\ \/ call.op = "stage" /\ call.slot = "staged"
           \/ call.op = "write_active" /\ call.slot = "active"
           \/ call.op = "promote" /\ call.slot = "active" /\ dir["staged"] = call.token
    BY <2>1 DEF DurableInv, WriteInv
  <2>3. /\ dir' \in Directory /\ dirty' \subseteq Name /\ kept' \subseteq Directory /\ kept' # {}
        /\ promised' \subseteq Token /\ DiskInv' /\ SlotsNeverTorn' /\ PromisedSurvives'
    BY <1>0, <2>1, <2>2, Synced
  <2>4. WriteInv' /\ UnlinkInv'
    BY <1>0, <2>1, <2>2 DEF WriteInv, UnlinkInv, Slot, NoCall
  <2> QED
    BY <1>0, <2>1, <2>3, <2>4 DEF DurableInv, DurableTypeOK, Syscall, Operation, Slot, NoCall
<1>6. CASE Unlink
  <2> DEFINE d == [dir EXCEPT ![call.slot] = None]
  <2>1. CASE dir[call.slot] = None
    <3>1. call' = NoCall /\ UNCHANGED <<diskVars, promised>>
      BY <1>6, <2>1 DEF Unlink
    <3>2. DiskInv' /\ SlotsNeverTorn' /\ PromisedSurvives'
      BY <3>1 DEF DurableInv, diskVars, DiskInv, SlotsNeverTorn, PromisedSurvives
    <3> QED
      BY <1>0, <3>1, <3>2 DEF DurableInv, diskVars, DurableTypeOK, WriteInv, UnlinkInv, NoCall,
           Operation, Syscall, Slot
  <2>2. CASE dir[call.slot] # None
    <3>1. /\ Changes(d, dirty \ {call.slot}) /\ promised' = promised /\ call.next = "unlink"
          /\ call' = [call EXCEPT !.next = "sync_unlinked"]
      BY <1>6, <2>2 DEF Unlink
    <3>2. d \in Directory /\ d[call.slot] = None /\ \A q \in Slot \ {call.slot} : d[q] = dir[q]
      BY <1>0 DEF Directory, Name, Slot, Content
    <3> HIDE DEF d
    <3>3. \A s \in Slot : d[s] # Cut
      BY <1>0, <1>s, <3>2, ContentAssumption
    <3>4. \A t \in promised' : t \in {d[s] : s \in Slot}
      <4> SUFFICES ASSUME NEW t \in promised PROVE \E s \in Slot : d[s] = t
        BY <3>1
      <4>1. PICK s \in Slot : dir[s] = t
        BY <1>s
      <4>2. CASE s = call.slot
        BY <1>0, <3>1, <3>2, <4>1, <4>2 DEF DurableInv, UnlinkInv
      <4> QED
        BY <3>2, <4>1, <4>2
    <3>5. /\ dir' \in Directory /\ dirty' \subseteq Name /\ kept' \subseteq Directory /\ kept' # {}
          /\ promised' \subseteq Token /\ DiskInv' /\ SlotsNeverTorn' /\ PromisedSurvives'
      BY <1>0, <1>s, <3>1, <3>2, <3>3, <3>4, DiskChanged
    <3>6. WriteInv' /\ UnlinkInv'
      BY <1>0, <3>1 DEF WriteInv, UnlinkInv
    <3> QED
      BY <1>0, <3>1, <3>5, <3>6 DEF DurableInv, DurableTypeOK, Syscall
  <2> QED
    BY <2>1, <2>2
<1>7. CASE SyncUnlinked
  <2>1. kept' = {OnDisk(dir, dirty)} /\ call' = NoCall /\ UNCHANGED <<dir, dirty, promised>>
    BY <1>7 DEF SyncUnlinked
  <2>2. OnDisk(dir, dirty) \in Directory /\ \A s \in Slot : OnDisk(dir, dirty)[s] = dir[s]
    BY <1>0, <1>s, SlotsOnDisk
  <2>3. DiskInv' /\ SlotsNeverTorn' /\ PromisedSurvives'
    BY <1>s, <2>1, <2>2 DEF DiskInv, SlotsNeverTorn, PromisedSurvives
  <2> QED
    BY <1>0, <2>1, <2>2, <2>3 DEF DurableInv, DurableTypeOK, WriteInv, UnlinkInv, NoCall,
         Operation, Syscall, Slot, DiskInv
<1>8. CASE BreakOff
  <2>1. call' = NoCall /\ UNCHANGED <<diskVars, promised>>
    BY <1>8 DEF BreakOff
  <2>2. DiskInv' /\ SlotsNeverTorn' /\ PromisedSurvives'
    BY <2>1 DEF DurableInv, diskVars, DiskInv, SlotsNeverTorn, PromisedSurvives
  <2> QED
    BY <1>0, <2>1, <2>2 DEF DurableInv, diskVars, DurableTypeOK, WriteInv, UnlinkInv, NoCall,
         Operation, Syscall, Slot
<1> QED
  BY <1>1, <1>2, <1>3, <1>4, <1>5, <1>6, <1>7, <1>8 DEF Proceed, Continue

(* A power loss leaves one of the survivors.                                   *)
LEMMA PowerLossKeeps == DurableInv /\ PowerLoss => DurableInv'
<1> SUFFICES ASSUME DurableInv, PowerLoss PROVE DurableInv'
  OBVIOUS
<1>1. PICK d \in kept : dir' = d /\ kept' = {d}
  BY DEF PowerLoss
<1>2. dirty' = {} /\ call' = NoCall /\ promised' = promised
  BY DEF PowerLoss
<1>3. d \in Directory
  BY DEF DurableInv, DurableTypeOK
<1>4. OnDisk(d, {}) = d
  BY <1>3 DEF OnDisk, Directory
<1>5. DiskInv' /\ SlotsNeverTorn' /\ PromisedSurvives'
  BY <1>1, <1>2, <1>4 DEF DurableInv, DiskInv, SlotsNeverTorn, PromisedSurvives
<1> QED
  BY <1>1, <1>2, <1>3, <1>5 DEF DurableInv, DurableTypeOK, WriteInv, UnlinkInv, NoCall,
       Operation, Syscall, Slot

LEMMA DurableStep == DurableInv /\ [DurableNext]_durableVars => DurableInv'
<1>1. DurableInv /\ UNCHANGED durableVars => DurableInv'
  BY DEF durableVars, diskVars, DurableInv, DurableTypeOK, DiskInv, WriteInv, UnlinkInv,
       SlotsNeverTorn, PromisedSurvives
<1> QED
  BY <1>1, OperateKeeps, ProceedKeeps, PowerLossKeeps DEF DurableNext

(* The system calls of token_store.py keep the inductive invariant.            *)
THEOREM DurableInvariance == DurableSpec => []DurableInv
  BY InitDurable, DurableStep, PTL DEF DurableSpec

(* Once stage() or promote() has returned, the token it wrote is in a slot of  *)
(* every directory a failure, a kill or a power loss can leave, until the flow *)
(* gives it up.                                                                *)
THEOREM PromisesKept == DurableSpec => []PromisedSurvives
  BY DurableInvariance, PTL DEF DurableInv

(* No reader ever finds the active or the staged file cut short.               *)
THEOREM NoTornSlot == DurableSpec => []SlotsNeverTorn
  BY DurableInvariance, PTL DEF DurableInv

--------------------------------------------------------------------------------
(* The refinement.  A write of a temporary and its fsync are stutters, the     *)
(* rename is the Put of the slot, the unlink its Remove, either directory      *)
(* fsync the Sync; every survivor's slots are survivors of the abstract store. *)
LEMMA SlotsChange ==
  ASSUME DurableInv, NEW d \in Directory, NEW u \in SUBSET Name, Changes(d, u),
         u \cap Slot = {}
  PROVE  Abstract!Holds(SlotsOf(d))
<1>1. SlotsOf(OnDisk(d, u)) = SlotsOf(d)
  BY SlotsOnDisk DEF SlotsOf
<1>2. dir' = d /\ kept' = kept \cup {OnDisk(d, u)}
  BY DEF Changes
<1>3. {SlotsOf(e) : e \in kept'} = {SlotsOf(e) : e \in kept} \cup {SlotsOf(d)}
  BY <1>1, <1>2
<1> QED
  BY <1>2, <1>3 DEF Abstract!Holds

LEMMA OneOfThem == DurableInv => SlotsOf(dir) \in {SlotsOf(e) : e \in kept}
<1> SUFFICES ASSUME DurableInv PROVE SlotsOf(dir) \in {SlotsOf(e) : e \in kept}
  OBVIOUS
<1>1. SlotsOf(OnDisk(dir, dirty)) = SlotsOf(dir)
  BY SlotsOnDisk DEF SlotsOf, DurableInv, DurableTypeOK, DiskInv
<1> QED
  BY <1>1 DEF DurableInv, DiskInv

LEMMA SameSlots ==
  ASSUME DurableInv, NEW d \in Directory, NEW u \in SUBSET Name, Changes(d, u),
         u \cap Slot = {}, \A s \in Slot : d[s] = dir[s]
  PROVE  UNCHANGED Abstract!storeVars
<1>1. SlotsOf(d) = SlotsOf(dir)
  BY DEF SlotsOf
<1> QED
  BY <1>1, SlotsChange, OneOfThem DEF Abstract!Holds, Abstract!storeVars

LEMMA SyncImplements ==
  DurableInv /\ kept' = {OnDisk(dir, dirty)} /\ UNCHANGED dir => Abstract!Sync
<1> SUFFICES ASSUME DurableInv, kept' = {OnDisk(dir, dirty)}, UNCHANGED dir PROVE Abstract!Sync
  OBVIOUS
<1>1. SlotsOf(OnDisk(dir, dirty)) = SlotsOf(dir)
  BY SlotsOnDisk DEF SlotsOf, DurableInv, DurableTypeOK, DiskInv
<1>2. {SlotsOf(e) : e \in kept'} = {SlotsOf(dir)}
  BY <1>1
<1> QED
  BY <1>2 DEF Abstract!Sync

LEMMA ProceedImplements ==
  DurableInv /\ Proceed => Abstract!StoreNext \/ UNCHANGED Abstract!storeVars
<1> SUFFICES ASSUME DurableInv, Proceed
             PROVE  Abstract!StoreNext \/ UNCHANGED Abstract!storeVars
  OBVIOUS
<1>0. /\ dir \in Directory /\ dirty \subseteq Name /\ dirty \cap Slot = {}
      /\ call \in [op: Operation, slot: Slot, token: Token \cup {None}, next: Syscall]
  BY DEF DurableInv, DurableTypeOK, DiskInv
<1>1. CASE Open
  <2> DEFINE d == [dir EXCEPT ![Tmp[call.slot]] = Cut]
             u == dirty \cup {Tmp[call.slot]}
  <2>1. Changes(d, u)
    BY <1>1 DEF Open
  <2>2. d \in Directory /\ (\A q \in Slot : d[q] = dir[q]) /\ u \subseteq Name /\ u \cap Slot = {}
    BY <1>0, TemporaryWritten DEF Content
  <2> HIDE DEF d, u
  <2> QED
    BY <2>1, <2>2, SameSlots
<1>2. CASE Write
  <2>1. call.token \in Content /\ dir' = [dir EXCEPT ![Tmp[call.slot]] = call.token] /\ kept' = kept
    BY <1>0, <1>2 DEF Write, Content
  <2>2. SlotsOf(dir') = SlotsOf(dir)
    BY <1>0, <2>1, TemporaryWritten DEF SlotsOf
  <2> QED
    BY <2>1, <2>2 DEF Abstract!storeVars
<1>3. CASE Fsync
  BY <1>0, <1>3, SameSlots DEF Fsync
<1>4. CASE Replace
  <2> DEFINE d == [dir EXCEPT ![call.slot] = dir[Tmp[call.slot]], ![Tmp[call.slot]] = None]
  <2>1. call.token \in Token /\ dir[Tmp[call.slot]] = call.token /\ Tmp[call.slot] \notin dirty
    BY <1>4 DEF Replace, DurableInv, WriteInv
  <2>2. Changes(d, dirty)
    BY <1>4, <2>1 DEF Replace
  <2>3. d \in Directory /\ d[call.slot] = call.token /\ \A q \in Slot \ {call.slot} : d[q] = dir[q]
    BY <1>0, <2>1 DEF Directory, Name, Slot, Tmp, Content
  <2> HIDE DEF d
  <2>4. SlotsOf(d) = [SlotsOf(dir) EXCEPT ![call.slot] = call.token]
    BY <1>0, <2>3 DEF SlotsOf
  <2>5. Abstract!Put(call.slot, call.token)
    BY <1>0, <2>2, <2>3, <2>4, SlotsChange DEF Abstract!Put
  <2> QED
    BY <1>0, <2>1, <2>5 DEF Abstract!StoreNext, Abstract!Slot, Slot
<1>5. CASE SyncDirectory \/ SyncUnlinked
  BY <1>5, SyncImplements DEF SyncDirectory, SyncUnlinked, Abstract!StoreNext
<1>6. CASE Unlink
  <2> DEFINE d == [dir EXCEPT ![call.slot] = None]
  <2>1. CASE UNCHANGED diskVars
    BY <2>1 DEF diskVars, Abstract!storeVars
  <2>2. CASE Changes(d, dirty \ {call.slot})
    <3>1. d \in Directory /\ d[call.slot] = None /\ \A q \in Slot \ {call.slot} : d[q] = dir[q]
      BY <1>0 DEF Directory, Name, Slot, Content
    <3> HIDE DEF d
    <3>2. SlotsOf(d) = [SlotsOf(dir) EXCEPT ![call.slot] = None]
      BY <1>0, <3>1 DEF SlotsOf
    <3>3. Abstract!Remove(call.slot)
      BY <1>0, <2>2, <3>1, <3>2, SlotsChange DEF Abstract!Remove
    <3> QED
      BY <1>0, <3>3 DEF Abstract!StoreNext, Abstract!Slot, Slot
  <2> QED
    BY <1>6, <2>1, <2>2 DEF Unlink
<1>7. CASE BreakOff
  BY <1>7 DEF BreakOff, diskVars, Abstract!storeVars
<1> QED
  BY <1>1, <1>2, <1>3, <1>4, <1>5, <1>6, <1>7 DEF Proceed, Continue

LEMMA StepImplements ==
  DurableInv /\ [DurableNext]_durableVars => [Abstract!StoreNext]_Abstract!storeVars
<1> SUFFICES ASSUME DurableInv, [DurableNext]_durableVars
             PROVE  Abstract!StoreNext \/ UNCHANGED Abstract!storeVars
  OBVIOUS
<1>1. CASE Operate \/ UNCHANGED durableVars
  <2>1. UNCHANGED <<dir, kept>>
    BY <1>1 DEF Operate, SignIn, Migrate, Stage, Promote, DiscardStaged, RemoveActive, Begin, diskVars, durableVars
  <2> QED
    BY <2>1 DEF Abstract!storeVars
<1>2. CASE PowerLoss
  <2>1. PICK d \in kept : dir' = d /\ kept' = {d}
    BY <1>2 DEF PowerLoss
  <2>2. SlotsOf(dir') \in {SlotsOf(e) : e \in kept} /\ {SlotsOf(e) : e \in kept'} = {SlotsOf(dir')}
    BY <2>1
  <2> QED
    BY <2>2 DEF Abstract!PowerLost, Abstract!StoreNext
<1> QED
  BY <1>1, <1>2, ProceedImplements DEF DurableNext

LEMMA InitImplements == DurableInit => Abstract!StoreInit
<1> SUFFICES ASSUME DurableInit PROVE Abstract!StoreInit
  OBVIOUS
<1>1. dir = [n \in Name |-> None] /\ kept = {dir}
  BY DEF DurableInit
<1>2. SlotsOf(dir) = [s \in Abstract!Slot |-> None]
  BY <1>1 DEF SlotsOf, Abstract!Slot, Slot, Name
<1>3. {SlotsOf(e) : e \in kept} = {SlotsOf(dir)}
  BY <1>1
<1> QED
  BY <1>2, <1>3 DEF Abstract!StoreInit

(* The two slots, written one system call at a time, implement the store whose *)
(* slots change in one step and whose last step is durable once synchronised.  *)
THEOREM Refinement == DurableSpec => ImplementsAtomicStore
  BY InitImplements, StepImplements, DurableInvariance, PTL
  DEF DurableSpec, ImplementsAtomicStore, Abstract!StoreSpec
================================================================================
