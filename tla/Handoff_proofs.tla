----------------------------- MODULE Handoff_proofs ----------------------------
(* What a captured file is, how long a published one lasts and how much the    *)
(* folder may hold, for any number of producers, consumers and publications and*)
(* any limits. NoId of these is inductive: that a captured file is whole needs *)
(* that what has its final name was written and synchronised (PublishedInv),   *)
(* which needs how far its producer is (ProducerInv) and what an open          *)
(* descriptor holds (ConsumerInv); that a returned path lasts needs the rename *)
(* on disk (HandedInv), and what the folder holds needs an account of how each *)
(* file in it was allowed (RoomInv).                                           *)
EXTENDS Handoff, FiniteSetTheorems, TLAPS

LEMMA Untouched == NoPub \in PubState /\ NoTake \in TakeState
  BY HandoffAssumption
     DEF NoPub, PubState, PubStep, Listed, NoTake, TakeState, TakeStep, InFolder

LEMMA InitHandoff == HandoffInit => HandoffInv
<1> SUFFICES ASSUME HandoffInit PROVE HandoffInv
  OBVIOUS
<1>1. HandoffTypeOK
  BY HandoffAssumption, Untouched DEF HandoffInit, HandoffTypeOK, Place
<1>2. ProducerInv /\ PublishedInv /\ ConsumerInv
  BY HandoffAssumption
     DEF HandoffInit, ProducerInv, PublishedInv, ConsumerInv, NoPub, NoTake
<1> QED
  BY <1>1, <1>2 DEF HandoffInv

--------------------------------------------------------------------------------
(* The producer's steps.                                                       *)
LEMMA GoesTyped ==
  ASSUME pub \in [Producer -> PubState], NEW p \in Producer, NEW at \in PubStep, Goes(p, at)
  PROVE  pub' \in [Producer -> PubState]
<1>1. [pub[p] EXCEPT !.at = at] \in PubState
  BY DEF PubState
<1> QED
  BY <1>1 DEF Goes

LEMMA IdleTyped ==
  ASSUME pub \in [Producer -> PubState], NEW p \in Producer, pub' = [pub EXCEPT ![p] = NoPub]
  PROVE  pub' \in [Producer -> PubState]
  BY Untouched

LEMMA PublishKeeps == ASSUME HandoffInv, NEW p \in Producer, Publish(p) PROVE HandoffInv'
<1>t. HandoffTypeOK /\ pub \in [Producer -> PubState]
  BY DEF HandoffInv, HandoffTypeOK
<1>i. \A i \in Id : [NoPub EXCEPT !.at = "list", !.id = i] \in PubState
  BY DEF NoPub, PubState, PubStep
<1>0. pub' \in [Producer -> PubState]
  BY <1>t, <1>i DEF Publish
<1>1. HandoffTypeOK'
  BY <1>t, <1>0, HandoffAssumption DEF HandoffTypeOK, Publish, At, FitsFile, folderVars
<1>2. ProducerInv'
  BY HandoffAssumption
     DEF HandoffTypeOK, ProducerInv, HandoffInv, Publish, At, Goes, NoPub, PubState,
         folderVars, FitsFile
<1>3. PublishedInv'
  BY DEF HandoffTypeOK, ProducerInv, PublishedInv, HandoffInv, Publish, At, Goes, NoPub,
         PubState, folderVars, FitsFile
<1>4. ConsumerInv'
  BY DEF HandoffTypeOK, ProducerInv, ConsumerInv, HandoffInv, Publish, At, Goes, NoPub,
         PubState, folderVars, FitsFile
<1> QED
  BY <1>1, <1>2, <1>3, <1>4 DEF HandoffInv

LEMMA ListFolderKeeps == ASSUME HandoffInv, NEW p \in Producer, ListFolder(p) PROVE HandoffInv'
<1>t. HandoffTypeOK /\ pub \in [Producer -> PubState]
  BY DEF HandoffInv, HandoffTypeOK
<1>i. \A l \in SUBSET Listed : [pub[p] EXCEPT !.at = "count", !.listing = l] \in PubState
  BY <1>t DEF PubState, PubStep
<1>0. pub' \in [Producer -> PubState]
  BY <1>t, <1>i DEF ListFolder
<1>1. HandoffTypeOK'
  BY <1>t, <1>0, HandoffAssumption DEF HandoffTypeOK, ListFolder, At, folderVars
<1>2. ProducerInv'
  BY HandoffAssumption
     DEF HandoffTypeOK, ProducerInv, HandoffInv, ListFolder, At, Goes, NoPub, PubState,
         folderVars
<1>3. PublishedInv'
  BY DEF HandoffTypeOK, ProducerInv, PublishedInv, HandoffInv, ListFolder, At, Goes, NoPub,
         PubState, folderVars
<1>4. ConsumerInv'
  BY DEF HandoffTypeOK, ProducerInv, ConsumerInv, HandoffInv, ListFolder, At, Goes, NoPub,
         PubState, folderVars
<1> QED
  BY <1>1, <1>2, <1>3, <1>4 DEF HandoffInv

LEMMA CountEntryKeeps == ASSUME HandoffInv, NEW p \in Producer, CountEntry(p) PROVE HandoffInv'
<1>t. HandoffTypeOK /\ pub \in [Producer -> PubState]
  BY DEF HandoffInv, HandoffTypeOK
<1>c. pub[p].counted \in Nat /\ pub[p].listing \subseteq Listed
  BY <1>t DEF PubState
<1>d. \A e \in pub[p].listing : (IF place[e[1]] = e[2] THEN written[e[1]] ELSE 0) \in Nat
  <2>1. \A i \in Id : written[i] \in Nat
    BY <1>t DEF HandoffTypeOK
  <2>2. \A e \in pub[p].listing : e[1] \in Id
    BY <1>c DEF Listed
  <2> QED
    BY <2>1, <2>2
<1>i. \A l \in SUBSET Listed, m \in Nat :
        [pub[p] EXCEPT !.listing = l, !.counted = m] \in PubState
  BY <1>t DEF PubState
<1>0. pub' \in [Producer -> PubState]
  <2> PICK e \in pub[p].listing :
        pub' = [pub EXCEPT ![p].listing = @ \ {e},
                  ![p].counted = @ + IF place[e[1]] = e[2] THEN written[e[1]] ELSE 0]
    BY DEF CountEntry
  <2> DEFINE m == pub[p].counted + IF place[e[1]] = e[2] THEN written[e[1]] ELSE 0
  <2>1. m \in Nat /\ pub[p].listing \ {e} \in SUBSET Listed
    BY <1>c, <1>d
  <2>2. [pub[p] EXCEPT !.listing = pub[p].listing \ {e}, !.counted = m] \in PubState
    BY <1>i, <2>1
  <2> QED
    BY <1>t, <2>2
<1>1. HandoffTypeOK'
  BY <1>t, <1>0, HandoffAssumption DEF HandoffTypeOK, CountEntry, At, folderVars
<1>2. ProducerInv'
  BY HandoffAssumption
     DEF HandoffTypeOK, ProducerInv, HandoffInv, CountEntry, At, Goes, NoPub, PubState,
         folderVars
<1>3. PublishedInv'
  BY DEF HandoffTypeOK, ProducerInv, PublishedInv, HandoffInv, CountEntry, At, Goes, NoPub,
         PubState, folderVars
<1>4. ConsumerInv'
  BY DEF HandoffTypeOK, ProducerInv, ConsumerInv, HandoffInv, CountEntry, At, Goes, NoPub,
         PubState, folderVars
<1> QED
  BY <1>1, <1>2, <1>3, <1>4 DEF HandoffInv

LEMMA CheckRoomKeeps == ASSUME HandoffInv, NEW p \in Producer, CheckRoom(p) PROVE HandoffInv'
<1>t. HandoffTypeOK /\ pub \in [Producer -> PubState]
  BY DEF HandoffInv, HandoffTypeOK
<1>0. pub' \in [Producer -> PubState]
  BY <1>t, GoesTyped, IdleTyped DEF CheckRoom, PubStep
<1>1. HandoffTypeOK'
  BY <1>t, <1>0, HandoffAssumption DEF HandoffTypeOK, CheckRoom, At, folderVars
<1>2. ProducerInv'
  BY HandoffAssumption
     DEF HandoffTypeOK, ProducerInv, HandoffInv, CheckRoom, At, Goes, NoPub, PubState,
         folderVars
<1>3. PublishedInv'
  BY DEF HandoffTypeOK, ProducerInv, PublishedInv, HandoffInv, CheckRoom, At, Goes, NoPub,
         PubState, folderVars
<1>4. ConsumerInv'
  BY DEF HandoffTypeOK, ProducerInv, ConsumerInv, HandoffInv, CheckRoom, At, Goes, NoPub,
         PubState, folderVars
<1> QED
  BY <1>1, <1>2, <1>3, <1>4 DEF HandoffInv

LEMMA MakeStagingKeeps == ASSUME HandoffInv, NEW p \in Producer, MakeStaging(p) PROVE HandoffInv'
<1>t. HandoffTypeOK /\ pub \in [Producer -> PubState]
  BY DEF HandoffInv, HandoffTypeOK
<1>0. pub' \in [Producer -> PubState]
  BY <1>t, GoesTyped DEF MakeStaging, PubStep
<1>1. HandoffTypeOK'
  <2>1. pub[p].id \in Id
    BY <1>t DEF HandoffInv, ProducerInv, PubState, MakeStaging, At, folderVars
  <2> QED
    BY <1>t, <1>0, <2>1 DEF HandoffTypeOK, MakeStaging, At, folderVars, Place
<1>2. ProducerInv'
  BY HandoffAssumption
     DEF HandoffTypeOK, ProducerInv, HandoffInv, MakeStaging, At, Goes, NoPub, PubState,
         folderVars
<1>3. PublishedInv'
  BY DEF HandoffTypeOK, ProducerInv, PublishedInv, HandoffInv, MakeStaging, At, Goes, NoPub,
         PubState, folderVars
<1>4. ConsumerInv'
  BY DEF HandoffTypeOK, ProducerInv, ConsumerInv, HandoffInv, MakeStaging, At, Goes, NoPub,
         PubState, folderVars
<1> QED
  BY <1>1, <1>2, <1>3, <1>4 DEF HandoffInv

LEMMA WriteBytesKeeps == ASSUME HandoffInv, NEW p \in Producer, WriteBytes(p) PROVE HandoffInv'
<1>t. HandoffTypeOK /\ pub \in [Producer -> PubState]
  BY DEF HandoffInv, HandoffTypeOK
<1>0. pub' \in [Producer -> PubState]
  <2>1. CASE UNCHANGED pub
    BY <1>t, <2>1
  <2>2. CASE Goes(p, "sync_file")
    BY <1>t, <2>2, GoesTyped DEF PubStep
  <2> QED
    BY <2>1, <2>2 DEF WriteBytes
<1>1. HandoffTypeOK'
  <2>1. pub[p].id \in Id
    BY <1>t DEF HandoffInv, ProducerInv, PubState, WriteBytes, At, folderVars
  <2> QED
    BY <1>t, <1>0, <2>1, HandoffAssumption DEF HandoffTypeOK, WriteBytes, At, folderVars
<1>2. ProducerInv'
  BY HandoffAssumption
     DEF HandoffTypeOK, ProducerInv, HandoffInv, WriteBytes, At, Goes, NoPub, PubState,
         folderVars
<1>3. PublishedInv'
  BY DEF HandoffTypeOK, ProducerInv, PublishedInv, HandoffInv, WriteBytes, At, Goes, NoPub,
         PubState, folderVars
<1>4. ConsumerInv'
  BY DEF HandoffTypeOK, ProducerInv, ConsumerInv, HandoffInv, WriteBytes, At, Goes, NoPub,
         PubState, folderVars
<1> QED
  BY <1>1, <1>2, <1>3, <1>4 DEF HandoffInv

LEMMA SyncFileKeeps == ASSUME HandoffInv, NEW p \in Producer, SyncFile(p) PROVE HandoffInv'
<1>t. HandoffTypeOK /\ pub \in [Producer -> PubState]
  BY DEF HandoffInv, HandoffTypeOK
<1>0. pub' \in [Producer -> PubState]
  BY <1>t, GoesTyped DEF SyncFile, PubStep
<1>1. HandoffTypeOK'
  <2>1. pub[p].id \in Id
    BY <1>t DEF HandoffInv, ProducerInv, PubState, SyncFile, At, Syncs, folderVars
  <2> QED
    BY <1>t, <1>0, <2>1 DEF HandoffTypeOK, SyncFile, At, Syncs, folderVars, Mark
<1>2. ProducerInv'
  BY HandoffAssumption
     DEF HandoffTypeOK, ProducerInv, HandoffInv, SyncFile, At, Goes, NoPub, PubState,
         folderVars, Syncs
<1>3. PublishedInv'
  BY DEF HandoffTypeOK, ProducerInv, PublishedInv, HandoffInv, SyncFile, At, Goes, NoPub,
         PubState, folderVars, Syncs
<1>4. ConsumerInv'
  BY DEF HandoffTypeOK, ProducerInv, ConsumerInv, HandoffInv, SyncFile, At, Goes, NoPub,
         PubState, folderVars, Syncs
<1> QED
  BY <1>1, <1>2, <1>3, <1>4 DEF HandoffInv

LEMMA SyncStagingKeeps == ASSUME HandoffInv, NEW p \in Producer, SyncStaging(p) PROVE HandoffInv'
<1>t. HandoffTypeOK /\ pub \in [Producer -> PubState]
  BY DEF HandoffInv, HandoffTypeOK
<1>0. pub' \in [Producer -> PubState]
  BY <1>t, GoesTyped DEF SyncStaging, PubStep
<1>1. HandoffTypeOK'
  <2>1. pub[p].id \in Id
    BY <1>t DEF HandoffInv, ProducerInv, PubState, SyncStaging, At, Syncs, folderVars
  <2> QED
    BY <1>t, <1>0, <2>1 DEF HandoffTypeOK, SyncStaging, At, Syncs, folderVars, Mark
<1>2. ProducerInv'
  BY HandoffAssumption
     DEF HandoffTypeOK, ProducerInv, HandoffInv, SyncStaging, At, Goes, NoPub, PubState,
         folderVars, Syncs
<1>3. PublishedInv'
  BY DEF HandoffTypeOK, ProducerInv, PublishedInv, HandoffInv, SyncStaging, At, Goes, NoPub,
         PubState, folderVars, Syncs
<1>4. ConsumerInv'
  BY DEF HandoffTypeOK, ProducerInv, ConsumerInv, HandoffInv, SyncStaging, At, Goes, NoPub,
         PubState, folderVars, Syncs
<1> QED
  BY <1>1, <1>2, <1>3, <1>4 DEF HandoffInv

LEMMA RenameKeeps == ASSUME HandoffInv, NEW p \in Producer, Rename(p) PROVE HandoffInv'
<1>t. HandoffTypeOK /\ pub \in [Producer -> PubState]
  BY DEF HandoffInv, HandoffTypeOK
<1>0. pub' \in [Producer -> PubState]
  BY <1>t, GoesTyped DEF Rename, PubStep
<1>1. HandoffTypeOK'
  <2>1. pub[p].id \in Id
    BY <1>t DEF HandoffInv, ProducerInv, PubState, Rename, At, folderVars
  <2> QED
    BY <1>t, <1>0, <2>1 DEF HandoffTypeOK, Rename, At, folderVars, Place
<1>2. ProducerInv'
  BY HandoffAssumption
     DEF HandoffTypeOK, ProducerInv, HandoffInv, Rename, At, Goes, NoPub, PubState,
         folderVars
<1>3. PublishedInv'
  BY DEF HandoffTypeOK, ProducerInv, PublishedInv, HandoffInv, Rename, At, Goes, NoPub,
         PubState, folderVars
<1>4. ConsumerInv'
  BY DEF HandoffTypeOK, ProducerInv, ConsumerInv, HandoffInv, Rename, At, Goes, NoPub,
         PubState, folderVars
<1> QED
  BY <1>1, <1>2, <1>3, <1>4 DEF HandoffInv

LEMMA SyncHomeKeeps == ASSUME HandoffInv, NEW p \in Producer, SyncHome(p) PROVE HandoffInv'
<1>t. HandoffTypeOK /\ pub \in [Producer -> PubState]
  BY DEF HandoffInv, HandoffTypeOK
<1>0. pub' \in [Producer -> PubState]
  BY <1>t, IdleTyped DEF SyncHome
<1>1. HandoffTypeOK'
  <2>1. pub[p].id \in Id
    BY <1>t DEF HandoffInv, ProducerInv, PubState, SyncHome, At, Syncs, folderVars
  <2> QED
    BY <1>t, <1>0, <2>1 DEF HandoffTypeOK, SyncHome, At, Syncs, folderVars, Mark
<1>2. ProducerInv'
  BY HandoffAssumption
     DEF HandoffTypeOK, ProducerInv, HandoffInv, SyncHome, At, Goes, NoPub, PubState,
         folderVars, Syncs
<1>3. PublishedInv'
  BY DEF HandoffTypeOK, ProducerInv, PublishedInv, HandoffInv, SyncHome, At, Goes, NoPub,
         PubState, folderVars, Syncs
<1>4. ConsumerInv'
  BY DEF HandoffTypeOK, ProducerInv, ConsumerInv, HandoffInv, SyncHome, At, Goes, NoPub,
         PubState, folderVars, Syncs
<1> QED
  BY <1>1, <1>2, <1>3, <1>4 DEF HandoffInv

LEMMA StorageFailsKeeps == ASSUME HandoffInv, NEW p \in Producer, StorageFails(p) PROVE HandoffInv'
<1>t. HandoffTypeOK /\ pub \in [Producer -> PubState]
  BY DEF HandoffInv, HandoffTypeOK
<1>0. pub' \in [Producer -> PubState]
  BY <1>t, IdleTyped DEF StorageFails
<1>1. HandoffTypeOK'
  <2>1. pub[p].id \in Id
    BY <1>t DEF HandoffInv, ProducerInv, PubState, StorageFails, At, Writing, folderVars
  <2> QED
    BY <1>t, <1>0, <2>1 DEF HandoffTypeOK, StorageFails, At, Writing, folderVars, Place
<1>2. ProducerInv'
  BY HandoffAssumption
     DEF HandoffTypeOK, ProducerInv, HandoffInv, StorageFails, At, Goes, NoPub, PubState,
         folderVars, Writing
<1>3. PublishedInv'
  BY DEF HandoffTypeOK, ProducerInv, PublishedInv, HandoffInv, StorageFails, At, Goes,
         NoPub, PubState, folderVars, Writing
<1>4. ConsumerInv'
  BY DEF HandoffTypeOK, ProducerInv, ConsumerInv, HandoffInv, StorageFails, At, Goes, NoPub,
         PubState, folderVars, Writing
<1> QED
  BY <1>1, <1>2, <1>3, <1>4 DEF HandoffInv

LEMMA ProducerCrashKeeps == ASSUME HandoffInv, NEW p \in Producer, ProducerCrash(p) PROVE HandoffInv'
<1>t. HandoffTypeOK /\ pub \in [Producer -> PubState]
  BY DEF HandoffInv, HandoffTypeOK
<1>0. pub' \in [Producer -> PubState]
  BY <1>t, IdleTyped DEF ProducerCrash
<1>1. HandoffTypeOK'
  BY <1>t, <1>0, HandoffAssumption DEF HandoffTypeOK, ProducerCrash, At, folderVars
<1>2. ProducerInv'
  BY HandoffAssumption
     DEF HandoffTypeOK, ProducerInv, HandoffInv, ProducerCrash, At, Goes, NoPub, PubState,
         folderVars
<1>3. PublishedInv'
  BY DEF HandoffTypeOK, ProducerInv, PublishedInv, HandoffInv, ProducerCrash, At, Goes,
         NoPub, PubState, folderVars
<1>4. ConsumerInv'
  BY DEF HandoffTypeOK, ProducerInv, ConsumerInv, HandoffInv, ProducerCrash, At, Goes,
         NoPub, PubState, folderVars
<1> QED
  BY <1>1, <1>2, <1>3, <1>4 DEF HandoffInv

--------------------------------------------------------------------------------
(* The consumer's steps change nothing but what the consumer holds.            *)
LEMMA ConsumerKeeps == ASSUME HandoffInv, NEW c \in Consumer, ConsumerStep(c) PROVE HandoffInv'
<1> USE DEF HandoffInv
<1>1. UNCHANGED <<folderVars, pub, handed>>
  BY DEF ConsumerStep, CaptureCall, OpenFile, StatFile, ReadFile, UseFile
<1>2. ProducerInv' /\ PublishedInv'
  BY <1>1 DEF folderVars, ProducerInv, PublishedInv
<1>t. take \in [Consumer -> TakeState] /\ NoTake \in TakeState
  BY HandoffAssumption DEF HandoffTypeOK, NoTake, TakeState, TakeStep, InFolder
<1>p. take' \in [Consumer -> TakeState]
  <2>1. CASE CaptureCall(c)
    <3>1. \A i \in Id, q \in InFolder :
            [NoTake EXCEPT !.at = "open", !.id = i, !.path = q] \in TakeState
      BY Untouched DEF TakeState, TakeStep
    <3>2. PICK i \in Id :
            \E path \in Path(i) :
              take' = [take EXCEPT ![c] = [NoTake EXCEPT !.at = "open", !.id = i, !.path = path[2]]]
      BY <2>1 DEF CaptureCall
    <3>3. \A path \in Path(i) : path[2] \in InFolder
      BY DEF Path, InFolder
    <3> QED
      BY <1>t, <3>1, <3>2, <3>3
  <2>2. CASE OpenFile(c) \/ StatFile(c) \/ UseFile(c)
    <3>1. \A at \in TakeStep : [take[c] EXCEPT !.at = at] \in TakeState
      BY <1>t DEF TakeState
    <3> QED
      BY <1>t, <2>2, <3>1 DEF OpenFile, StatFile, UseFile, Refuse, TakeStep
  <2>3. CASE ReadFile(c)
    <3>1. \A n \in 0..MAX_FILE_BYTES : [take[c] EXCEPT !.at = "done", !.got = n] \in TakeState
      BY <1>t DEF TakeState, TakeStep
    <3>2. written[take[c].id] \in 0..MAX_FILE_BYTES
      BY <2>3 DEF ReadFile, HandoffTypeOK, ConsumerInv
    <3> QED
      BY <1>t, <2>3, <3>1, <3>2 DEF ReadFile
  <2> QED
    BY <2>1, <2>2, <2>3 DEF ConsumerStep
<1>3. HandoffTypeOK'
  BY <1>1, <1>p DEF HandoffTypeOK, folderVars
<1>4. ConsumerInv'
  <2>1. /\ \A d \in Consumer : d # c => take'[d] = take[d]
        /\ UNCHANGED <<place, written, size>>
    BY <1>1, <1>t
       DEF folderVars, ConsumerStep, CaptureCall, OpenFile, StatFile, ReadFile, UseFile,
                    Refuse
  <2>2. CASE take'[c] = NoTake
    BY <2>1, <2>2 DEF ConsumerInv, NoTake
  <2>3. CASE CaptureCall(c)
    BY <1>t, <2>1, <2>3 DEF ConsumerInv, CaptureCall, Path, LayoutOK, NoTake
  <2>4. CASE OpenFile(c) /\ take'[c] # NoTake
    BY <1>t, <2>1, <2>4 DEF ConsumerInv, PublishedInv, OpenFile, Refuse, TakeState
  <2>5. CASE StatFile(c) /\ take'[c] # NoTake
    BY <1>t, <2>1, <2>5 DEF ConsumerInv, StatFile, Refuse, TakeState
  <2>6. CASE ReadFile(c)
    BY <1>t, <2>1, <2>6 DEF ConsumerInv, ReadFile, TakeState
  <2>7. CASE UseFile(c)
    BY <1>t, <2>2, <2>7 DEF UseFile, Refuse
  <2> QED
    BY <2>2, <2>3, <2>4, <2>5, <2>6, <2>7 DEF ConsumerStep
<1> QED
  BY <1>2, <1>3, <1>4

--------------------------------------------------------------------------------
(* Casa's sweep, the kernel and a power loss.                                  *)
LEMMA SweepKeeps == ASSUME HandoffInv, NEW i \in Id, Sweep(i) PROVE HandoffInv'
<1> USE DEF HandoffInv, Sweep, InProgress
<1>1. HandoffTypeOK'
  BY DEF HandoffTypeOK, Place
<1>2. ProducerInv'
  BY DEF HandoffTypeOK, ProducerInv
<1>3. PublishedInv' /\ ConsumerInv'
  BY DEF HandoffTypeOK, PublishedInv, ConsumerInv
<1> QED
  BY <1>1, <1>2, <1>3

LEMMA WriteBackKeeps == ASSUME HandoffInv, WriteBack PROVE HandoffInv'
  BY DEF HandoffInv, WriteBack, HandoffTypeOK, ProducerInv, PublishedInv, ConsumerInv

(* Nothing gets its final name by a power loss, and what keeps it was          *)
(* synchronised.                                                               *)
LEMMA PowerLossKeeps == ASSUME HandoffInv, PowerLoss PROVE HandoffInv'
<1> USE DEF HandoffInv
<1>0. /\ pub' = [p \in Producer |-> NoPub] /\ take' = [c \in Consumer |-> NoTake]
      /\ written' \in [Id -> 0..MAX_FILE_BYTES]
      /\ \A i \in Id : written'[i] \in MayHave(i)
      /\ synced' = [i \in Id |-> IF place'[i] \in InFolder THEN Mark ELSE {}]
      /\ UNCHANGED size /\ (handed' = handed \/ handed' = {})
  BY DEF PowerLoss
<1>1. /\ place' \in [Id -> Place]
      /\ \A i \in Id : place'[i] = "published" => place[i] = "published"
  BY DEF PowerLoss, HandoffTypeOK, MayBeAt, Place, InFolder
<1>2. home' \in {"absent", "new", "durable"}
  BY DEF PowerLoss, HandoffTypeOK
<1>3. HandoffTypeOK'
  BY <1>0, <1>1, <1>2, Untouched DEF HandoffTypeOK, Mark
<1>4. ProducerInv' /\ ConsumerInv'
  BY <1>0, HandoffAssumption DEF ProducerInv, ConsumerInv, NoPub, NoTake
<1>5. PublishedInv'
  <2> SUFFICES ASSUME NEW i \in Id, place'[i] = "published"
               PROVE  written'[i] = size'[i] /\ {"bytes", "entry"} \subseteq synced'[i]
    BY DEF PublishedInv
  <2>1. written[i] = size[i] /\ {"bytes", "entry"} \subseteq synced[i]
    BY <1>1 DEF PublishedInv
  <2> QED
    BY <1>0, <2>1 DEF MayHave, InFolder, Mark
<1> QED
  BY <1>3, <1>4, <1>5

--------------------------------------------------------------------------------
LEMMA HandoffStep == HandoffInv /\ [HandoffNext]_handoffVars => HandoffInv'
<1> SUFFICES ASSUME HandoffInv, [HandoffNext]_handoffVars PROVE HandoffInv'
  OBVIOUS
<1>1. ASSUME NEW p \in Producer, ProducerStep(p) PROVE HandoffInv'
  BY <1>1, PublishKeeps, ListFolderKeeps, CountEntryKeeps, CheckRoomKeeps, MakeStagingKeeps, WriteBytesKeeps,
     SyncFileKeeps, SyncStagingKeeps, RenameKeeps, SyncHomeKeeps, StorageFailsKeeps, ProducerCrashKeeps
     DEF ProducerStep
<1>2. CASE UNCHANGED handoffVars
  BY <1>2
     DEF handoffVars, folderVars, HandoffInv, HandoffTypeOK, ProducerInv, PublishedInv,
         ConsumerInv
<1> QED
  BY <1>1, <1>2, ConsumerKeeps, SweepKeeps, WriteBackKeeps, PowerLossKeeps DEF HandoffNext

(* The producers' and consumers' variables keep their types, what they write   *)
(* stays within the limit of a file, and how far each is agrees with what is   *)
(* in the folder.                                                              *)
THEOREM HandoffInvariance == HandoffSpec => []HandoffInv
<1>1. HandoffInv /\ [HandoffNext]_handoffVars => HandoffInv'
  BY HandoffStep
<1> QED
  BY <1>1, InitHandoff, PTL DEF HandoffSpec

(* Every variable of the handoff stays in its type.                            *)
THEOREM HandoffTyped == HandoffSpec => []HandoffTypeOK
<1>1. HandoffInv => HandoffTypeOK
  BY DEF HandoffInv
<1> QED
  BY <1>1, HandoffInvariance, PTL

(* What a consumer captured is the whole file, however many producers and      *)
(* consumers there are and whatever they, the sweep or a power loss did.       *)
THEOREM WholeFilesOnly == HandoffSpec => []CapturedIsWhole
<1>1. HandoffInv => CapturedIsWhole
  BY DEF HandoffInv, ConsumerInv, CapturedIsWhole
<1> QED
  BY <1>1, HandoffInvariance, PTL

--------------------------------------------------------------------------------
(* A returned path lasts.                                                      *)
LEMMA HandedStep == HandoffInv /\ HandedInv /\ [HandoffNext]_handoffVars => HandedInv'
<1> SUFFICES ASSUME HandoffInv, HandedInv, [HandoffNext]_handoffVars PROVE HandedInv'
  OBVIOUS
<1> USE DEF HandoffInv, HandedInv
<1>1. ASSUME NEW p \in Producer, ProducerStep(p) PROVE HandedInv'
  <2>1. CASE MakeStaging(p) \/ Rename(p) \/ StorageFails(p)
    BY <1>1, <2>1
       DEF MakeStaging, Rename, StorageFails, HandoffTypeOK, ProducerInv, At, Writing
  <2>2. CASE SyncFile(p) \/ SyncStaging(p) \/ SyncHome(p)
    BY <1>1, <2>2
       DEF SyncFile, SyncStaging, SyncHome, Syncs, HandoffTypeOK, ProducerInv, At,
                        PubState, Mark
  <2>3. CASE UNCHANGED <<home, place, synced, handed>>
    BY <2>3
  <2> QED
    BY <1>1, <2>1, <2>2, <2>3
       DEF ProducerStep, Publish, ListFolder, CountEntry, CheckRoom, WriteBytes, ProducerCrash,
           folderVars
<1>2. CASE UNCHANGED <<home, place, synced, handed>>
  BY <1>2
<1>3. ASSUME NEW i \in Id, Sweep(i) PROVE HandedInv'
  BY <1>3 DEF Sweep, HandoffTypeOK
<1>4. CASE PowerLoss
  BY <1>4 DEF PowerLoss, MayBeAt, InFolder, Mark, HandoffTypeOK
<1> QED
  BY <1>1, <1>2, <1>3, <1>4
     DEF HandoffNext, ConsumerStep, CaptureCall, OpenFile, StatFile, ReadFile, UseFile, WriteBack,
         handoffVars, folderVars

(* Once publish has returned, its file is found whole until Casa sweeps it,    *)
(* through any number of power losses that leave the producers' directory.     *)
THEOREM PublishedLasts == HandoffSpec => []PublishedIsDurable
<1>1. HandoffInit => HandedInv
  BY DEF HandoffInit, HandedInv
<1>2. HandoffInv /\ HandedInv /\ [HandoffNext]_handoffVars => HandedInv'
  BY HandedStep
<1>3. HandoffInv /\ HandedInv => PublishedIsDurable
  BY DEF HandoffInv, HandoffTypeOK, PublishedInv, HandedInv, PublishedIsDurable
<1> QED
  BY <1>1, <1>2, <1>3, HandoffInvariance, PTL DEF HandoffSpec

--------------------------------------------------------------------------------
(* Counting bytes.                                                             *)
LEMMA BytesAreFinite ==
  ASSUME IsFiniteSet(Id), NEW ids \in SUBSET Id, NEW have
  PROVE  IsFiniteSet(Bytes(ids, have)) /\ Cardinality(Bytes(ids, have)) \in Nat
<1>1. IsFiniteSet(ids)
  BY FS_Subset
<1>2. IsFiniteSet(1..MAX_FILE_BYTES)
  BY FS_Interval, HandoffAssumption
<1>3. IsFiniteSet(ids \X (1..MAX_FILE_BYTES))
  BY <1>1, <1>2, FS_Product
<1>4. Bytes(ids, have) \in SUBSET (ids \X (1..MAX_FILE_BYTES))
  BY DEF Bytes
<1>5. IsFiniteSet(Bytes(ids, have))
  BY <1>3, <1>4, FS_Subset
<1> QED
  BY <1>5, FS_CardinalityType

(* Fewer files, of which less is written, have no more bytes.                  *)
LEMMA FewerBytes ==
  ASSUME IsFiniteSet(Id),
         NEW have \in [Id -> 0..MAX_FILE_BYTES], NEW had \in [Id -> 0..MAX_FILE_BYTES],
         NEW ids \in SUBSET Id, NEW more \in SUBSET Id,
         ids \subseteq more, \A i \in ids : have[i] <= had[i]
  PROVE  Cardinality(Bytes(ids, have)) <= Cardinality(Bytes(more, had))
<1>1. ASSUME NEW x \in Bytes(ids, have) PROVE x \in Bytes(more, had)
  <2>1. /\ x \in ids \X (1..MAX_FILE_BYTES) /\ x[2] <= have[x[1]]
        /\ x[1] \in ids /\ x[2] \in 1..MAX_FILE_BYTES
    BY <1>1 DEF Bytes
  <2>2. have[x[1]] \in Int /\ had[x[1]] \in Int /\ x[2] \in Int /\ have[x[1]] <= had[x[1]]
    BY <2>1, HandoffAssumption
  <2>3. x[2] <= had[x[1]]
    BY <2>1, <2>2
  <2>4. x \in more \X (1..MAX_FILE_BYTES)
    BY <2>1
  <2> QED
    BY <2>3, <2>4 DEF Bytes
<1> QED
  BY <1>1, BytesAreFinite, FS_Subset

LEMMA BytesOfTwo ==
  ASSUME IsFiniteSet(Id), NEW have, NEW ids \in SUBSET Id, NEW more \in SUBSET Id
  PROVE  Cardinality(Bytes(ids \cup more, have))
           <= Cardinality(Bytes(ids, have)) + Cardinality(Bytes(more, have))
<1> DEFINE S == Bytes(ids, have)
           T == Bytes(more, have)
<1>1. Bytes(ids \cup more, have) = S \cup T
  BY DEF Bytes
<1>2. /\ IsFiniteSet(S) /\ Cardinality(S) \in Nat
      /\ IsFiniteSet(T) /\ Cardinality(T) \in Nat
  BY BytesAreFinite
<1> HIDE DEF S, T
<1>3. IsFiniteSet(S \cap T)
  BY <1>2, FS_Intersection
<1>4. Cardinality(S \cap T) \in Nat
  BY <1>3, FS_CardinalityType
<1>5. Cardinality(S \cup T) = Cardinality(S) + Cardinality(T) - Cardinality(S \cap T)
  BY <1>2, FS_Union
<1>6. Cardinality(S \cup T) <= Cardinality(S) + Cardinality(T)
  BY <1>2, <1>4, <1>5
<1> QED
  BY <1>1, <1>6 DEF S, T

LEMMA BytesOfOne ==
  ASSUME NEW i \in Id, NEW have \in [Id -> 0..MAX_FILE_BYTES]
  PROVE  Cardinality(Bytes({i}, have)) = have[i]
<1>1. have[i] \in Nat /\ have[i] <= MAX_FILE_BYTES
  BY HandoffAssumption
<1>2. Bytes({i}, have) = {i} \X (1..have[i])
  BY <1>1, HandoffAssumption DEF Bytes
<1>3. IsFiniteSet(1..have[i]) /\ Cardinality(1..have[i]) = have[i]
  BY <1>1, FS_Interval
<1>4. IsFiniteSet({i}) /\ Cardinality({i}) = 1
  BY FS_Singleton
<1>5. Cardinality({i} \X (1..have[i])) = Cardinality({i}) * Cardinality(1..have[i])
  BY <1>3, <1>4, FS_Product
<1>6. Cardinality({i} \X (1..have[i])) = have[i]
  BY <1>1, <1>3, <1>4, <1>5
<1> QED
  BY <1>2, <1>6

(* One file of each producer but one.                                          *)
FilesOfOthers(last, best) == {i \in Id : \E q \in Producer \ {best} : last[q] = i}

LEMMA BytesOfOthers ==
  ASSUME IsFiniteSet(Producer), NEW best \in Producer, NEW last, NEW have
  PROVE  Cardinality(Bytes(FilesOfOthers(last, best), have))
           <= (Cardinality(Producer) - 1) * MAX_FILE_BYTES
<1> DEFINE D == (Producer \ {best}) \X (1..MAX_FILE_BYTES)
           f == [x \in D |-> <<last[x[1]], x[2]>>]
           R == {f[x] : x \in D}
           S == Bytes(FilesOfOthers(last, best), have)
<1>1. IsFiniteSet(Producer \ {best}) /\ Cardinality(Producer \ {best}) = Cardinality(Producer) - 1
  BY FS_RemoveElement
<1>2. IsFiniteSet(1..MAX_FILE_BYTES) /\ Cardinality(1..MAX_FILE_BYTES) = MAX_FILE_BYTES
  BY HandoffAssumption, FS_Interval
<1>3. IsFiniteSet(D) /\ Cardinality(D) = (Cardinality(Producer) - 1) * MAX_FILE_BYTES
  <2> DEFINE P == Producer \ {best}
             N == 1..MAX_FILE_BYTES
  <2>1. IsFiniteSet(P) /\ IsFiniteSet(N)
    BY <1>1, <1>2
  <2> HIDE DEF P, N
  <2>2. IsFiniteSet(P \X N) /\ Cardinality(P \X N) = Cardinality(P) * Cardinality(N)
    BY <2>1, FS_Product
  <2> QED
    BY <1>1, <1>2, <2>2 DEF P, N
<1>4. f \in Surjection(D, R)
  BY DEF Surjection
<1>5. IsFiniteSet(R) /\ Cardinality(R) <= Cardinality(D)
  BY <1>3, <1>4, FS_Surjection
<1>6. ASSUME NEW x \in S PROVE x \in R
  <2>1. /\ x \in FilesOfOthers(last, best) \X (1..MAX_FILE_BYTES)
        /\ x[1] \in FilesOfOthers(last, best) /\ x[2] \in 1..MAX_FILE_BYTES
    BY <1>6 DEF Bytes
  <2>2. PICK q \in Producer \ {best} : last[q] = x[1]
    BY <2>1 DEF FilesOfOthers
  <2>3. <<q, x[2]>> \in D /\ f[<<q, x[2]>>] = x
    BY <2>1, <2>2
  <2> QED
    BY <2>3
<1>7. IsFiniteSet(S) /\ Cardinality(S) <= Cardinality(R)
  BY <1>5, <1>6, FS_Subset
<1>8. Cardinality(S) \in Nat /\ Cardinality(R) \in Nat /\ Cardinality(D) \in Nat
  BY <1>3, <1>5, <1>7, FS_CardinalityType
<1> HIDE DEF D, R, S
<1>9. Cardinality(S) <= Cardinality(D)
  BY <1>5, <1>7, <1>8
<1> QED
  BY <1>3, <1>9 DEF S

--------------------------------------------------------------------------------
(* The bound of the folder.  A file is settled once its producer is through    *)
(* with it.  The invariant says how what is in the folder is accounted for:    *)
(*   base   files that the check of the producer best had counted;             *)
(*   last   the file that each producer last went on to write;                 *)
(*   seen   what was settled when a producer that is counting listed the       *)
(*          folder.                                                            *)
(* The folder holds the files of base and the last one of each producer, and   *)
(* those of base left room for the last one of best.  A producer that passes   *)
(* its check with more seen than base becomes the new best; one with less had  *)
(* an old list, and its last file before this one is in base.                  *)
Settled == {i \in Id : place[i] # "unused" /\ ~InProgress(i)}
Counting == {p \in Producer : At(p, "count")}
SizeOf(i) == IF i = NoId THEN 0 ELSE size[i]
Counted(p, seen) == {i \in seen[p] \cap Folder : <<i, place[i]>> \notin pub[p].listing}

WrittenInv ==
  \A i \in Id : written[i] <= size[i] /\ (place[i] = "unused" => written[i] = 0)

BaseOK(base, best, last) ==
  /\ base \subseteq Settled
  /\ Cardinality(Bytes(base \cap Folder, written)) + SizeOf(last[best]) <= MAX_TOTAL_BYTES
  /\ \A i \in Folder : i \in base \/ \E q \in Producer : last[q] = i

SeenOK(base, best, last, seen) ==
  \A p \in Counting :
    /\ seen[p] \subseteq Settled
    /\ Cardinality(Bytes(Counted(p, seen), written)) <= pub[p].counted
    /\ last[p] \in Folder => last[p] \in seen[p]
    /\ seen[p] \subseteq base \/ base \subseteq seen[p]
    /\ \A q \in Counting : seen[p] \subseteq seen[q] \/ seen[q] \subseteq seen[p]
    /\ p = best => base \subseteq seen[p]

LastOK(last) ==
  \A p \in Producer :
    /\ pub[p].at \in Writing => last[p] = pub[p].id
    /\ last[p] # NoId => place[last[p]] # "unused" \/ pub[p].id = last[p]
    /\ \A q \in Producer : last[p] = pub[q].id /\ last[p] # NoId => p = q

Accounts == [base: SUBSET Id, best: Producer, last: [Producer -> Id \cup {NoId}],
             seen: [Producer -> SUBSET Id]]

AccountedFor(a) ==
  BaseOK(a.base, a.best, a.last) /\ SeenOK(a.base, a.best, a.last, a.seen) /\ LastOK(a.last)

RoomInv == WrittenInv /\ \E a \in Accounts : AccountedFor(a)

--------------------------------------------------------------------------------
LEMMA WrittenStep == HandoffInv /\ WrittenInv /\ [HandoffNext]_handoffVars => WrittenInv'
<1> SUFFICES ASSUME HandoffInv, WrittenInv, [HandoffNext]_handoffVars PROVE WrittenInv'
  OBVIOUS
<1> USE DEF HandoffInv, WrittenInv
<1>t. /\ written \in [Id -> 0..MAX_FILE_BYTES] /\ size \in [Id -> 0..MAX_FILE_BYTES]
      /\ place \in [Id -> Place] /\ \A p \in Producer : pub[p].id \in Id \cup {NoId}
  BY DEF HandoffTypeOK, PubState
<1>1. ASSUME NEW p \in Producer, ProducerStep(p) PROVE WrittenInv'
  <2>1. CASE Publish(p)
    BY <1>t, <2>1, HandoffAssumption DEF Publish
  <2>2. CASE WriteBytes(p)
    BY <1>t, <2>2, HandoffAssumption DEF WriteBytes, ProducerInv, At
  <2>3. CASE MakeStaging(p) \/ Rename(p) \/ StorageFails(p)
    BY <1>t, <2>3 DEF MakeStaging, Rename, StorageFails
  <2>4. CASE UNCHANGED <<place, size, written>>
    BY <2>4
  <2> QED
    BY <1>1, <2>1, <2>2, <2>3, <2>4
       DEF ProducerStep, ListFolder, CountEntry, CheckRoom, SyncFile, SyncStaging, SyncHome,
           ProducerCrash, folderVars
<1>2. CASE UNCHANGED <<place, size, written>>
  BY <1>2
<1>3. ASSUME NEW i \in Id, Sweep(i) PROVE WrittenInv'
  BY <1>t, <1>3 DEF Sweep, InFolder
<1>4. CASE PowerLoss
  <2>1. \A i \in Id : /\ place'[i] = "unused" => place[i] = "unused"
                      /\ written'[i] <= written[i] /\ written'[i] \in Nat
    BY <1>t, <1>4, HandoffAssumption DEF PowerLoss, MayBeAt, InFolder, MayHave
  <2>2. size' = size
    BY <1>4 DEF PowerLoss
  <2> QED
    BY <1>t, <2>1, <2>2, HandoffAssumption
<1> QED
  BY <1>1, <1>2, <1>3, <1>4
     DEF HandoffNext, ConsumerStep, CaptureCall, OpenFile, StatFile, ReadFile, UseFile, WriteBack,
         handoffVars, folderVars

--------------------------------------------------------------------------------
(* A step that passes no check and counts nothing: what is settled stays, in   *)
(* the folder or not, and a file gets into the folder by the producer that     *)
(* passed the check for it.                                                    *)
Quiet ==
  /\ Settled \subseteq Settled'
  /\ \A i \in Settled : i \in Folder' => i \in Folder
  /\ \A i \in Settled : written'[i] <= written[i]
  /\ \A i \in Folder' : i \in Folder \/ \E p \in Producer : pub[p].at \in Writing /\ pub[p].id = i
  /\ \A i \in Id : place'[i] = "unused" => place[i] = "unused"
  /\ \A i \in Id : size'[i] = size[i] \/ (place[i] = "unused" /\ ~InProgress(i))
  /\ \A p \in Counting' : /\ p \in Counting /\ pub'[p] = pub[p]
                          /\ \A i \in Settled : place'[i] \in {place[i], "gone"}
  /\ \A p \in Producer :
       /\ pub'[p].at \in Writing => pub[p].at \in Writing /\ pub'[p].id = pub[p].id
       /\ \/ pub'[p].id \in {pub[p].id, NoId}
          \/ pub'[p].id \in Id /\ place[pub'[p].id] = "unused" /\ ~InProgress(pub'[p].id)

LEMMA QuietKeeps ==
  ASSUME IsFiniteSet(Id), HandoffInv, HandoffInv', Quiet, NEW a \in Accounts, AccountedFor(a)
  PROVE  \E b \in Accounts : AccountedFor(b)'
<1> DEFINE last == [q \in Producer |->
                      IF /\ a.last[q] # NoId
                         /\ place'[a.last[q]] = "unused" /\ pub'[q].id # a.last[q]
                      THEN NoId ELSE a.last[q]]
<1>t. /\ a.base \in SUBSET Id /\ a.best \in Producer
      /\ a.last \in [Producer -> Id \cup {NoId}] /\ a.seen \in [Producer -> SUBSET Id]
  BY DEF Accounts
<1>T. /\ written \in [Id -> 0..MAX_FILE_BYTES] /\ written' \in [Id -> 0..MAX_FILE_BYTES]
      /\ size \in [Id -> 0..MAX_FILE_BYTES] /\ size' \in [Id -> 0..MAX_FILE_BYTES]
      /\ pub \in [Producer -> PubState] /\ pub' \in [Producer -> PubState]
      /\ place \in [Id -> Place] /\ place' \in [Id -> Place]
  BY DEF HandoffInv, HandoffTypeOK
<1>1. PICK new \in [Producer -> Id \cup {NoId}] : new = last
  BY <1>t
<1>2. \A q \in Producer :
        /\ new[q] = a.last[q] \/ new[q] = NoId
        /\ new[q] = NoId => \/ a.last[q] = NoId
                            \/ place'[a.last[q]] = "unused" /\ pub'[q].id # a.last[q]
        /\ new[q] # NoId => place'[new[q]] # "unused" \/ pub'[q].id = new[q]
  BY <1>1
<1>3. LastOK(new)'
  <2> SUFFICES ASSUME NEW p \in Producer
               PROVE  /\ pub'[p].at \in Writing => new[p] = pub'[p].id
                      /\ \A q \in Producer : new[p] = pub'[q].id /\ new[p] # NoId => p = q
    BY <1>2 DEF LastOK
  <2>1. pub'[p].at \in Writing => new[p] = pub'[p].id
    BY <1>2 DEF Quiet, AccountedFor, LastOK
  <2>2. ASSUME NEW q \in Producer, new[p] = pub'[q].id, new[p] # NoId PROVE p = q
    <3>1. a.last[p] = pub'[q].id /\ a.last[p] # NoId
      BY <1>2, <2>2
    <3>2. pub'[q].id = pub[q].id
      BY <3>1 DEF Quiet, AccountedFor, LastOK, InProgress
    <3> QED
      BY <3>1, <3>2 DEF AccountedFor, LastOK
  <2> QED
    BY <2>1, <2>2
<1>4. BaseOK(a.base, a.best, new)'
  <2>1. a.base \subseteq Settled'
    BY DEF AccountedFor, BaseOK, Quiet
  <2>2. \A i \in Folder' : i \in a.base \/ \E q \in Producer : new[q] = i
    <3> SUFFICES ASSUME NEW i \in Folder' PROVE i \in a.base \/ \E q \in Producer : new[q] = i
      OBVIOUS
    <3>1. i \in Id /\ place'[i] # "unused" /\ i # NoId
      BY HandoffAssumption DEF Folder, InFolder
    <3>2. i \in a.base \/ \E q \in Producer : a.last[q] = i
      BY DEF AccountedFor, BaseOK, LastOK, Quiet
    <3> QED
      BY <1>2, <3>1, <3>2
  <2>3. Cardinality(Bytes(a.base \cap Folder', written'))
          <= Cardinality(Bytes(a.base \cap Folder, written))
    <3>1. a.base \cap Folder' \subseteq a.base \cap Folder
      BY DEF AccountedFor, BaseOK, Quiet
    <3>2. \A i \in a.base \cap Folder' : written'[i] <= written[i]
      BY DEF AccountedFor, BaseOK, Quiet
    <3> QED
      BY <1>t, <1>T, <3>1, <3>2, FewerBytes
  <2>4. SizeOf(new[a.best])' <= SizeOf(a.last[a.best]) /\ SizeOf(a.last[a.best]) \in Nat
        /\ SizeOf(new[a.best])' \in Nat
    <3>1. CASE a.last[a.best] = NoId
      BY <1>t, <1>2, <3>1 DEF SizeOf
    <3>2. CASE a.last[a.best] # NoId
      <4>1. a.last[a.best] \in Id
        BY <1>t, <3>2
      <4>2. place[a.last[a.best]] # "unused" \/ InProgress(a.last[a.best])
        BY <1>t, <3>2 DEF AccountedFor, LastOK, InProgress
      <4>3. size'[a.last[a.best]] = size[a.last[a.best]]
        BY <4>1, <4>2 DEF Quiet
      <4> QED
        BY <1>t, <1>2, <1>T, <3>2, <4>1, <4>3, HandoffAssumption DEF SizeOf
    <3> QED
      BY <3>1, <3>2
  <2>5. Cardinality(Bytes(a.base \cap Folder, written)) + SizeOf(a.last[a.best]) <= MAX_TOTAL_BYTES
    BY DEF AccountedFor, BaseOK
  <2>6. /\ Cardinality(Bytes(a.base \cap Folder, written)) \in Nat
        /\ Cardinality(Bytes(a.base \cap Folder', written')) \in Nat
    BY <1>t, BytesAreFinite
  <2>7. Cardinality(Bytes(a.base \cap Folder', written')) + SizeOf(new[a.best])' <= MAX_TOTAL_BYTES
    BY <2>3, <2>4, <2>5, <2>6, HandoffAssumption
  <2> QED
    BY <2>1, <2>2, <2>7 DEF BaseOK
<1>5. SeenOK(a.base, a.best, new, a.seen)'
  <2> SUFFICES ASSUME NEW p \in Counting'
               PROVE  /\ a.seen[p] \subseteq Settled'
                      /\ Cardinality(Bytes(Counted(p, a.seen)', written')) <= pub'[p].counted
                      /\ new[p] \in Folder' => new[p] \in a.seen[p]
                      /\ a.seen[p] \subseteq a.base \/ a.base \subseteq a.seen[p]
                      /\ \A q \in Counting' : a.seen[p] \subseteq a.seen[q] \/ a.seen[q] \subseteq a.seen[p]
                      /\ p = a.best => a.base \subseteq a.seen[p]
    BY DEF SeenOK
  <2>1. p \in Counting /\ pub'[p] = pub[p] /\ \A q \in Counting' : q \in Counting
    BY DEF Quiet
  <2>2. /\ a.seen[p] \subseteq Settled
        /\ Cardinality(Bytes(Counted(p, a.seen), written)) <= pub[p].counted
        /\ a.last[p] \in Folder => a.last[p] \in a.seen[p]
        /\ a.seen[p] \subseteq a.base \/ a.base \subseteq a.seen[p]
        /\ \A q \in Counting : a.seen[p] \subseteq a.seen[q] \/ a.seen[q] \subseteq a.seen[p]
        /\ p = a.best => a.base \subseteq a.seen[p]
    BY <2>1 DEF AccountedFor, SeenOK
  <2>3. a.seen[p] \subseteq Settled'
    BY <2>2 DEF Quiet
  <2>4. Cardinality(Bytes(Counted(p, a.seen)', written')) <= pub'[p].counted
    <3> DEFINE now == Counted(p, a.seen)'
               before == Counted(p, a.seen)
    <3>1. now \subseteq before /\ \A i \in now : i \in Settled
      BY <2>1, <2>2 DEF Counted, Quiet, Folder, InFolder
    <3>2. now \in SUBSET Id /\ before \in SUBSET Id
      BY DEF Counted, Folder
    <3>3. \A i \in now : written'[i] <= written[i]
      BY <3>1 DEF Quiet
    <3> HIDE DEF now, before
    <3>4. Cardinality(Bytes(now, written')) <= Cardinality(Bytes(before, written))
      BY <1>T, <3>1, <3>2, <3>3, FewerBytes
    <3>5. Cardinality(Bytes(now, written')) \in Nat /\ Cardinality(Bytes(before, written)) \in Nat
      BY <3>2, BytesAreFinite
    <3>6. pub[p].counted \in Nat /\ pub'[p].counted = pub[p].counted
      BY <1>T, <2>1 DEF PubState, Counting
    <3> QED
      BY <2>2, <3>4, <3>5, <3>6 DEF now, before
  <2>5. new[p] \in Folder' => new[p] \in a.seen[p]
    <3> SUFFICES ASSUME new[p] \in Folder' PROVE new[p] \in a.seen[p]
      OBVIOUS
    <3>1. p \in Producer /\ new[p] \in Id /\ new[p] = a.last[p] /\ new[p] # NoId
      BY <1>2, HandoffAssumption DEF Folder, Counting
    <3>2. CASE a.last[p] \in Folder
      BY <2>2, <3>1, <3>2
    <3>3. ASSUME NEW q \in Producer, pub[q].at \in Writing, pub[q].id = a.last[p] PROVE FALSE
      BY <2>1, <3>1, <3>3 DEF AccountedFor, LastOK, Counting, At, Writing
    <3> QED
      BY <3>1, <3>2, <3>3 DEF Quiet
  <2> QED
    BY <2>1, <2>2, <2>3, <2>4, <2>5
<1>6. [a EXCEPT !.last = new] \in Accounts /\ AccountedFor([a EXCEPT !.last = new])'
  BY <1>3, <1>4, <1>5, <1>t DEF Accounts, AccountedFor
<1> QED
  BY <1>6

--------------------------------------------------------------------------------
(* A producer lists the folder: what is settled now is more than any producer  *)
(* that is counting has seen, or than the last check had counted.              *)
LEMMA ListKeepsRoom ==
  ASSUME IsFiniteSet(Id), HandoffInv, NEW p \in Producer, ListFolder(p),
         NEW a \in Accounts, AccountedFor(a)
  PROVE  \E b \in Accounts : AccountedFor(b)'
<1>t. /\ a.base \in SUBSET Id /\ a.best \in Producer
      /\ a.last \in [Producer -> Id \cup {NoId}] /\ a.seen \in [Producer -> SUBSET Id]
  BY DEF Accounts
<1>T. pub \in [Producer -> PubState] /\ place \in [Id -> Place]
  BY DEF HandoffInv, HandoffTypeOK
<1>1. /\ pub[p].at = "list" /\ pub'[p].at = "count" /\ pub'[p].id = pub[p].id
      /\ pub'[p].counted = pub[p].counted
      /\ pub'[p].listing = {e \in Listed : place[e[1]] = e[2]}
      /\ \A q \in Producer : q # p => pub'[q] = pub[q]
      /\ UNCHANGED <<place, size, written>>
  BY <1>T DEF ListFolder, At, folderVars, PubState
<1>2. /\ Settled' = Settled /\ Folder' = Folder /\ Counting' = Counting \cup {p}
      /\ \A i \in Id : SizeOf(i)' = SizeOf(i)
      /\ SizeOf(NoId)' = SizeOf(NoId)
  BY <1>1 DEF Settled, Folder, InProgress, Counting, At, SizeOf
<1>3. PICK new \in [Producer -> SUBSET Id] : new = [a.seen EXCEPT ![p] = Settled]
  <2>1. Settled \in SUBSET Id
    BY DEF Settled
  <2> QED
    BY <1>t, <2>1
<1>4. BaseOK(a.base, a.best, a.last)'
  BY <1>1, <1>2, <1>t DEF AccountedFor, BaseOK
<1>5. LastOK(a.last)'
  BY <1>1, <1>t DEF AccountedFor, LastOK, Writing
<1>6. SeenOK(a.base, a.best, a.last, new)'
  <2>1. ASSUME NEW q \in Counting, q # p
        PROVE  /\ q \in Producer /\ new[q] = a.seen[q] /\ pub'[q] = pub[q]
               /\ Counted(q, new)' = Counted(q, a.seen)
               /\ new[q] \subseteq Settled
    BY <1>1, <1>2, <1>3, <1>t, <2>1 DEF Counting, Counted, AccountedFor, SeenOK
  <2>2. new[p] = Settled
    BY <1>3, <1>t
  <2>3. Cardinality(Bytes(Counted(p, new)', written')) <= pub'[p].counted
    <3>1. Counted(p, new)' = {}
      BY <1>1, <1>2, <1>T DEF Counted, Folder, InFolder, Listed
    <3>2. Bytes(Counted(p, new)', written') = {}
      BY <3>1 DEF Bytes
    <3>3. pub'[p].counted \in Nat
      BY <1>1, <1>T DEF PubState
    <3> QED
      BY <3>2, <3>3, FS_EmptySet
  <2>4. a.last[p] \in Folder => a.last[p] \in Settled
    <3> SUFFICES ASSUME a.last[p] \in Folder PROVE a.last[p] \in Settled
      OBVIOUS
    <3>1. a.last[p] \in Id /\ place[a.last[p]] # "unused" /\ a.last[p] # NoId
      BY HandoffAssumption DEF Folder, InFolder
    <3>2. place[pub[p].id] = "unused"
      BY <1>1 DEF HandoffInv, ProducerInv
    <3>3. ~InProgress(a.last[p])
      BY <3>1, <3>2 DEF InProgress, AccountedFor, LastOK
    <3> QED
      BY <3>1, <3>3 DEF Settled
  <2>5. a.base \subseteq Settled
    BY DEF AccountedFor, BaseOK
  <2> QED
    BY <1>1, <1>2, <2>1, <2>2, <2>3, <2>4, <2>5 DEF AccountedFor, SeenOK
<1>7. [a EXCEPT !.seen = new] \in Accounts /\ AccountedFor([a EXCEPT !.seen = new])'
  BY <1>3, <1>4, <1>5, <1>6, <1>t DEF Accounts, AccountedFor
<1> QED
  BY <1>7

(* It counts an entry: a settled file it passes over has left the folder.      *)
LEMMA CountKeepsRoom ==
  ASSUME IsFiniteSet(Id), HandoffInv, NEW p \in Producer, CountEntry(p),
         NEW a \in Accounts, AccountedFor(a)
  PROVE  \E b \in Accounts : AccountedFor(b)'
<1>t. /\ a.base \in SUBSET Id /\ a.best \in Producer
      /\ a.last \in [Producer -> Id \cup {NoId}] /\ a.seen \in [Producer -> SUBSET Id]
  BY DEF Accounts
<1>T. /\ pub \in [Producer -> PubState] /\ place \in [Id -> Place]
      /\ written \in [Id -> 0..MAX_FILE_BYTES]
  BY DEF HandoffInv, HandoffTypeOK
<1>e. PICK e \in pub[p].listing :
        pub' = [pub EXCEPT ![p].listing = @ \ {e},
                  ![p].counted = @ + IF place[e[1]] = e[2] THEN written[e[1]] ELSE 0]
  BY DEF CountEntry
<1>1. /\ pub[p].at = "count" /\ pub'[p].at = "count" /\ pub'[p].id = pub[p].id
      /\ pub'[p].listing = pub[p].listing \ {e}
      /\ pub'[p].counted = pub[p].counted + IF place[e[1]] = e[2] THEN written[e[1]] ELSE 0
      /\ \A q \in Producer : q # p => pub'[q] = pub[q]
      /\ UNCHANGED <<place, size, written>>
  BY <1>T, <1>e DEF CountEntry, At, folderVars, PubState
<1>2. /\ Settled' = Settled /\ Folder' = Folder /\ Counting' = Counting
      /\ \A i \in Id : SizeOf(i)' = SizeOf(i)
      /\ SizeOf(NoId)' = SizeOf(NoId)
  BY <1>1 DEF Settled, Folder, InProgress, Counting, At, SizeOf
<1>4. BaseOK(a.base, a.best, a.last)'
  BY <1>1, <1>2, <1>t DEF AccountedFor, BaseOK
<1>5. LastOK(a.last)'
  BY <1>1, <1>t DEF AccountedFor, LastOK, Writing
<1>6. Cardinality(Bytes(Counted(p, a.seen)', written)) <= pub'[p].counted
  <2> DEFINE now == Counted(p, a.seen)'
             before == Counted(p, a.seen)
  <2>0. /\ Cardinality(Bytes(before, written)) <= pub[p].counted
        /\ pub[p].counted \in Nat
        /\ now \in SUBSET Id /\ before \in SUBSET Id
        /\ e[1] \in Id /\ written[e[1]] \in Nat /\ e = <<e[1], e[2]>>
    BY <1>1, <1>T, <1>e, HandoffAssumption
       DEF AccountedFor, SeenOK, Counting, At, PubState, Counted, Folder, Listed
  <2>1. Cardinality(Bytes(now, written)) \in Nat /\ Cardinality(Bytes(before, written)) \in Nat
    BY <2>0, BytesAreFinite
  <2>2. CASE place[e[1]] = e[2]
    <3>1. now \subseteq before \cup {e[1]} /\ before \cup {e[1]} \in SUBSET Id /\ {e[1]} \in SUBSET Id
      BY <1>1, <1>2, <2>0 DEF Counted
    <3> HIDE DEF now, before
    <3>2. Cardinality(Bytes(now, written)) <= Cardinality(Bytes(before \cup {e[1]}, written))
      BY <1>T, <2>0, <3>1, FewerBytes, HandoffAssumption
    <3>3. Cardinality(Bytes(before \cup {e[1]}, written))
            <= Cardinality(Bytes(before, written)) + Cardinality(Bytes({e[1]}, written))
      BY <2>0, <3>1, BytesOfTwo
    <3>4. Cardinality(Bytes({e[1]}, written)) = written[e[1]]
      BY <1>T, <2>0, BytesOfOne
    <3>5. Cardinality(Bytes(before \cup {e[1]}, written)) \in Nat
      BY <3>1, BytesAreFinite
    <3> QED
      BY <1>1, <2>0, <2>1, <2>2, <3>2, <3>3, <3>4, <3>5 DEF now
  <2>3. CASE place[e[1]] # e[2]
    <3>1. now \subseteq before
      BY <1>1, <1>2, <2>0, <2>3 DEF Counted
    <3> HIDE DEF now, before
    <3>2. Cardinality(Bytes(now, written)) <= Cardinality(Bytes(before, written))
      BY <1>T, <2>0, <3>1, FewerBytes, HandoffAssumption
    <3> QED
      BY <1>1, <2>0, <2>1, <2>3, <3>2 DEF now
  <2> QED
    BY <2>2, <2>3
<1>7. SeenOK(a.base, a.best, a.last, a.seen)'
  <2>1. ASSUME NEW q \in Counting, q # p
        PROVE  /\ q \in Producer /\ pub'[q] = pub[q]
               /\ Counted(q, a.seen)' = Counted(q, a.seen)
    BY <1>1, <1>2, <1>t, <2>1 DEF Counting, Counted
  <2> QED
    BY <1>1, <1>2, <1>6, <2>1 DEF AccountedFor, SeenOK
<1> QED
  BY <1>4, <1>5, <1>7 DEF AccountedFor

(* It passes the check.                                                        *)
LEMMA PassKeepsRoom ==
  ASSUME IsFiniteSet(Id), HandoffInv, NEW p \in Producer, CheckRoom(p), Goes(p, "make"),
         HasRoom(pub[p].counted, size[pub[p].id]), NEW a \in Accounts, AccountedFor(a)
  PROVE  \E b \in Accounts : AccountedFor(b)'
<1>t. /\ a.base \in SUBSET Id /\ a.best \in Producer
      /\ a.last \in [Producer -> Id \cup {NoId}] /\ a.seen \in [Producer -> SUBSET Id]
  BY DEF Accounts
<1>T. /\ pub \in [Producer -> PubState] /\ place \in [Id -> Place]
      /\ written \in [Id -> 0..MAX_FILE_BYTES] /\ size \in [Id -> 0..MAX_FILE_BYTES]
  BY DEF HandoffInv, HandoffTypeOK
<1>1. /\ pub[p].at = "count" /\ pub'[p].at = "make" /\ pub'[p].id = pub[p].id
      /\ pub[p].listing = {}
      /\ \A q \in Producer : q # p => pub'[q] = pub[q]
      /\ UNCHANGED <<place, size, written>>
      /\ pub[p].counted + size[pub[p].id] <= MAX_TOTAL_BYTES
  BY <1>T DEF CheckRoom, At, Goes, HasRoom, folderVars, PubState
<1>i. pub[p].id \in Id /\ pub[p].id # NoId /\ place[pub[p].id] = "unused"
      /\ \A q \in Producer : pub[q].id = pub[p].id => q = p
  BY <1>1, <1>T, HandoffAssumption DEF HandoffInv, ProducerInv, PubState
<1>2. /\ Settled' = Settled /\ Folder' = Folder /\ Counting' = Counting \ {p} /\ p \in Counting
      /\ \A i \in Id : SizeOf(i)' = SizeOf(i)
      /\ SizeOf(NoId)' = SizeOf(NoId)
  BY <1>1 DEF Settled, Folder, InProgress, Counting, At, SizeOf
<1>3. PICK new \in [Producer -> Id \cup {NoId}] : new = [a.last EXCEPT ![p] = pub[p].id]
  BY <1>t, <1>i
<1>n. new[p] = pub[p].id /\ \A q \in Producer : q # p => new[q] = a.last[q]
  BY <1>3, <1>t
<1>4. LastOK(new)'
  BY <1>1, <1>i, <1>n DEF AccountedFor, LastOK
<1>5. /\ a.last[p] \in Folder => a.last[p] \in a.seen[p]
      /\ a.seen[p] \subseteq Settled
      /\ a.seen[p] \subseteq a.base \/ a.base \subseteq a.seen[p]
      /\ \A q \in Counting : a.seen[p] \subseteq a.seen[q] \/ a.seen[q] \subseteq a.seen[p]
      /\ p = a.best => a.base \subseteq a.seen[p]
      /\ Cardinality(Bytes(Counted(p, a.seen), written)) <= pub[p].counted
  BY <1>2 DEF AccountedFor, SeenOK
<1>6. ASSUME NEW q \in Counting'
      PROVE  /\ q \in Counting /\ q # p /\ q \in Producer /\ pub'[q] = pub[q] /\ new[q] = a.last[q]
             /\ Counted(q, a.seen)' = Counted(q, a.seen)
  BY <1>1, <1>2, <1>n, <1>6 DEF Counting, Counted
<1>7. CASE a.base \subseteq a.seen[p]
  <2>1. BaseOK(a.seen[p], p, new)'
    <3>0. a.seen[p] \cap Folder = Counted(p, a.seen)
      BY <1>1 DEF Counted
    <3>1. Cardinality(Bytes(a.seen[p] \cap Folder, written)) <= pub[p].counted
      BY <1>5, <3>0
    <3>2. SizeOf(new[p])' = size[pub[p].id] /\ size[pub[p].id] \in Nat
      BY <1>1, <1>i, <1>n, <1>T, HandoffAssumption DEF SizeOf
    <3>3. Cardinality(Bytes(a.seen[p] \cap Folder, written)) \in Nat /\ pub[p].counted \in Nat
      BY <1>t, <1>T, BytesAreFinite DEF PubState
    <3>4. Cardinality(Bytes(a.seen[p] \cap Folder, written)) + SizeOf(new[p])' <= MAX_TOTAL_BYTES
      BY <1>1, <3>1, <3>2, <3>3, HandoffAssumption
    <3>5. \A i \in Folder : i \in a.seen[p] \/ \E q \in Producer : new[q] = i
      BY <1>5, <1>7, <1>n DEF AccountedFor, BaseOK
    <3> QED
      BY <1>1, <1>2, <1>5, <3>4, <3>5 DEF BaseOK
  <2>2. SeenOK(a.seen[p], p, new, a.seen)'
    BY <1>1, <1>2, <1>5, <1>6 DEF AccountedFor, SeenOK
  <2>3. [a EXCEPT !.base = a.seen[p], !.best = p, !.last = new] \in Accounts
    BY <1>t DEF Accounts
  <2>4. AccountedFor([a EXCEPT !.base = a.seen[p], !.best = p, !.last = new])'
    BY <1>4, <2>1, <2>2 DEF AccountedFor, Accounts
  <2> QED
    BY <2>3, <2>4
<1>8. CASE ~(a.base \subseteq a.seen[p])
  <2>1. BaseOK(a.base, a.best, new)'
    <3>1. new[a.best] = a.last[a.best]
      BY <1>5, <1>8, <1>n, <1>t
    <3>2. \A i \in Folder : i \in a.base \/ \E q \in Producer : new[q] = i
      BY <1>5, <1>8, <1>n DEF AccountedFor, BaseOK
    <3> QED
      BY <1>1, <1>2, <1>t, <3>1, <3>2 DEF AccountedFor, BaseOK
  <2>2. SeenOK(a.base, a.best, new, a.seen)'
    BY <1>1, <1>2, <1>5, <1>6 DEF AccountedFor, SeenOK
  <2>3. [a EXCEPT !.last = new] \in Accounts /\ AccountedFor([a EXCEPT !.last = new])'
    BY <1>4, <1>t, <2>1, <2>2 DEF AccountedFor, Accounts
  <2> QED
    BY <2>3
<1> QED
  BY <1>7, <1>8

--------------------------------------------------------------------------------
LEMMA OthersAreQuiet ==
  ASSUME HandoffInv, HandoffInv', WrittenInv, UNCHANGED <<place, size, written>>,
         \A p \in Producer : pub'[p] = pub[p] \/ pub'[p] = NoPub
  PROVE  Quiet
  BY HandoffAssumption
     DEF Quiet, HandoffInv, HandoffTypeOK, Settled, Folder, InProgress, Counting, At, Writing, NoPub

LEMMA ProducerIsQuiet ==
  ASSUME HandoffInv, HandoffInv', NEW p \in Producer, ProducerStep(p),
         ~ListFolder(p), ~CountEntry(p), CheckRoom(p) => pub' = [pub EXCEPT ![p] = NoPub]
  PROVE  Quiet
<1>T. /\ pub \in [Producer -> PubState] /\ pub' \in [Producer -> PubState]
      /\ place \in [Id -> Place] /\ place' \in [Id -> Place]
      /\ written \in [Id -> 0..MAX_FILE_BYTES] /\ size \in [Id -> 0..MAX_FILE_BYTES]
      /\ NoPub.at = "idle" /\ NoPub.id = NoId
  BY DEF HandoffInv, HandoffTypeOK, NoPub
<1>r. \A i \in Id : written[i] \in Nat
  BY <1>T, HandoffAssumption
<1>0. /\ \A q \in Producer \ {p} : pub'[q] = pub[q]
      /\ \A i \in Id : i # pub[p].id => place'[i] = place[i] /\ written'[i] = written[i]
      /\ \A i \in Id : place'[i] = "unused" => place[i] = "unused"
  BY <1>T
     DEF ProducerStep, Publish, ListFolder, CountEntry, CheckRoom, MakeStaging, WriteBytes,
              SyncFile, SyncStaging, Rename, SyncHome, StorageFails, ProducerCrash, Goes, folderVars
<1>1. \A i \in Settled : /\ i \in Id /\ i # pub[p].id /\ place[i] # "unused" /\ ~InProgress(i)
                         /\ place'[i] = place[i] /\ written'[i] = written[i]
  BY <1>0 DEF Settled, InProgress
<1>2. \A i \in Folder' : i \in Folder \/ \E q \in Producer : pub[q].at \in Writing /\ pub[q].id = i
  BY <1>0, <1>T
     DEF Folder, InFolder, Writing, At, ProducerStep, Publish, ListFolder, CountEntry,
         CheckRoom,
              MakeStaging, WriteBytes, SyncFile, SyncStaging, Rename, SyncHome, StorageFails,
              ProducerCrash, folderVars
<1>3. \A i \in Id : size'[i] = size[i] \/ (place[i] = "unused" /\ ~InProgress(i))
  BY <1>T
     DEF InProgress, ProducerStep, Publish, ListFolder, CountEntry, CheckRoom, MakeStaging,
         WriteBytes,
              SyncFile, SyncStaging, Rename, SyncHome, StorageFails, ProducerCrash, Goes, folderVars
<1>4. /\ pub'[p].at # "count"
      /\ pub'[p].at \in Writing => pub[p].at \in Writing /\ pub'[p].id = pub[p].id
      /\ \/ pub'[p].id \in {pub[p].id, NoId}
         \/ pub'[p].id \in Id /\ place[pub'[p].id] = "unused" /\ ~InProgress(pub'[p].id)
  <2>1. CASE Publish(p)
    <3>1. PICK i \in Id :
            /\ place[i] = "unused" /\ \A q \in Producer : pub[q].id # i
            /\ pub' = [pub EXCEPT ![p] = [NoPub EXCEPT !.at = "list", !.id = i]]
      BY <2>1 DEF Publish
    <3>2. pub'[p].id = i /\ pub'[p].at = "list"
      BY <1>T, <3>1 DEF NoPub
    <3> QED
      BY <3>1, <3>2 DEF InProgress, Writing
  <2>2. CASE pub' = [pub EXCEPT ![p] = NoPub]
    BY <1>T, <2>2 DEF Writing
  <2>3. CASE MakeStaging(p) \/ WriteBytes(p) \/ SyncFile(p) \/ SyncStaging(p) \/ Rename(p)
    BY <1>T, <2>3
       DEF MakeStaging, WriteBytes, SyncFile, SyncStaging, Rename, Goes, At, Writing, PubState
  <2> QED
    BY <2>1, <2>2, <2>3 DEF ProducerStep, CheckRoom, SyncHome, StorageFails, ProducerCrash
<1>5. \A q \in Counting' : q \in Counting /\ pub'[q] = pub[q]
  BY <1>0, <1>4 DEF Counting, At
<1>6. Settled \subseteq Settled'
  <2> SUFFICES ASSUME NEW i \in Settled, NEW q \in Producer, pub'[q].id = i PROVE FALSE
    BY <1>1 DEF Settled, InProgress
  <2> QED
    BY <1>0, <1>1, <1>4, HandoffAssumption DEF InProgress
<1>7. \A q \in Producer :
        /\ pub'[q].at \in Writing => pub[q].at \in Writing /\ pub'[q].id = pub[q].id
        /\ \/ pub'[q].id \in {pub[q].id, NoId}
           \/ pub'[q].id \in Id /\ place[pub'[q].id] = "unused" /\ ~InProgress(pub'[q].id)
  BY <1>0, <1>4
<1>8. \A i \in Settled : (i \in Folder' => i \in Folder) /\ written'[i] <= written[i]
  BY <1>1, <1>r DEF Folder
<1>9. \A i \in Settled : place'[i] \in {place[i], "gone"}
  BY <1>1
<1> QED
  BY <1>0, <1>2, <1>3, <1>5, <1>6, <1>7, <1>8, <1>9 DEF Quiet

LEMMA SweepIsQuiet ==
  ASSUME HandoffInv, HandoffInv', NEW i \in Id, Sweep(i)
  PROVE  Quiet
<1>T. place \in [Id -> Place] /\ \A j \in Id : written[j] \in Nat
  BY HandoffAssumption DEF HandoffInv, HandoffTypeOK
<1> QED
  BY <1>T DEF Quiet, Sweep, Settled, Folder, InFolder, InProgress, Counting, At, Writing

(* After a power loss no producer counts.                                      *)
LEMMA PowerLossIsQuiet ==
  ASSUME HandoffInv, HandoffInv', PowerLoss
  PROVE  Quiet
<1>T. /\ place \in [Id -> Place] /\ place' \in [Id -> Place]
      /\ written \in [Id -> 0..MAX_FILE_BYTES]
  BY DEF HandoffInv, HandoffTypeOK
<1>0. /\ size' = size /\ \A p \in Producer : pub'[p].at = "idle" /\ pub'[p].id = NoId
      /\ \A i \in Id : written'[i] \in MayHave(i)
  BY DEF PowerLoss, NoPub
<1>1. \A i \in Id : /\ place'[i] = "unused" <=> place[i] = "unused"
                    /\ place'[i] \in InFolder => place[i] \in InFolder
  BY <1>T DEF PowerLoss, MayBeAt, InFolder
<1>2. \A i \in Id : written'[i] <= written[i]
  <2>1. \A i \in Id : written[i] \in Nat
    BY <1>T, HandoffAssumption
  <2>2. \A i \in Id : written'[i] = written[i] \/ written'[i] \in 0..written[i]
    BY <1>0 DEF MayHave
  <2> QED
    BY <2>1, <2>2
<1> QED
  BY <1>0, <1>1, <1>2, HandoffAssumption
     DEF Quiet, Settled, Folder, InProgress, Counting, At, Writing

--------------------------------------------------------------------------------
LEMMA RoomInitially == IsFiniteSet(Id) /\ Producer # {} /\ HandoffInit => RoomInv
<1> SUFFICES ASSUME IsFiniteSet(Id), Producer # {}, HandoffInit PROVE RoomInv
  OBVIOUS
<1>1. WrittenInv
  BY DEF HandoffInit, WrittenInv
<1>2. PICK p \in Producer : TRUE
  OBVIOUS
<1> DEFINE a == [base |-> {}, best |-> p, last |-> [q \in Producer |-> NoId],
                 seen |-> [q \in Producer |-> {}]]
<1>3. a \in Accounts
  BY DEF Accounts
<1>4. /\ Folder = {} /\ Counting = {} /\ \A q \in Producer : pub[q].at = "idle" /\ pub[q].id = NoId
  BY DEF HandoffInit, Folder, InFolder, Counting, At, NoPub
<1>5. SizeOf(NoId) = 0 /\ Cardinality(Bytes({} \cap Folder, written)) = 0
  <2>1. Bytes({} \cap Folder, written) = {}
    BY DEF Bytes
  <2> QED
    BY <2>1, FS_EmptySet DEF SizeOf
<1>6. AccountedFor(a)
  BY <1>2, <1>4, <1>5, HandoffAssumption DEF AccountedFor, BaseOK, SeenOK, LastOK, Writing
<1> QED
  BY <1>1, <1>3, <1>6 DEF RoomInv

LEMMA RoomStep ==
  IsFiniteSet(Id) /\ HandoffInv /\ HandoffInv' /\ RoomInv /\ [HandoffNext]_handoffVars => RoomInv'
<1> SUFFICES ASSUME IsFiniteSet(Id), HandoffInv, HandoffInv', RoomInv, [HandoffNext]_handoffVars
             PROVE  RoomInv'
  OBVIOUS
<1>w. WrittenInv'
  BY WrittenStep DEF RoomInv
<1>a. PICK a \in Accounts : AccountedFor(a)
  BY DEF RoomInv
<1>q. Quiet => RoomInv'
  BY <1>a, <1>w, QuietKeeps DEF RoomInv, Accounts
<1>1. ASSUME NEW p \in Producer, ProducerStep(p) PROVE RoomInv'
  <2>1. CASE ListFolder(p)
    BY <1>a, <1>w, <2>1, ListKeepsRoom DEF RoomInv, Accounts
  <2>2. CASE CountEntry(p)
    BY <1>a, <1>w, <2>2, CountKeepsRoom DEF RoomInv, Accounts
  <2>3. CASE CheckRoom(p) /\ HasRoom(pub[p].counted, size[pub[p].id]) /\ Goes(p, "make")
    BY <1>a, <1>w, <2>3, PassKeepsRoom DEF RoomInv, Accounts
  <2>4. CASE /\ ~ListFolder(p) /\ ~CountEntry(p)
             /\ CheckRoom(p) => pub' = [pub EXCEPT ![p] = NoPub]
    BY <1>1, <1>q, <2>4, ProducerIsQuiet
  <2> QED
    BY <2>1, <2>2, <2>3, <2>4 DEF CheckRoom
<1>2. CASE UNCHANGED <<place, size, written, pub>>
  BY <1>2, <1>q, OthersAreQuiet DEF RoomInv
<1>3. ASSUME NEW i \in Id, Sweep(i) PROVE RoomInv'
  BY <1>3, <1>q, SweepIsQuiet
<1>4. CASE PowerLoss
  BY <1>4, <1>q, PowerLossIsQuiet
<1> QED
  BY <1>1, <1>2, <1>3, <1>4
     DEF HandoffNext, ConsumerStep, CaptureCall, OpenFile, StatFile, ReadFile, UseFile, WriteBack,
         handoffVars, folderVars

LEMMA RoomBounds ==
  ASSUME IsFiniteSet(Id), IsFiniteSet(Producer), HandoffInv, RoomInv
  PROVE  OverrunIsBounded
<1>a. PICK a \in Accounts : AccountedFor(a)
  BY DEF RoomInv
<1>t. /\ a.base \in SUBSET Id /\ a.best \in Producer
      /\ a.last \in [Producer -> Id \cup {NoId}]
  BY DEF Accounts
<1>T. written \in [Id -> 0..MAX_FILE_BYTES] /\ size \in [Id -> 0..MAX_FILE_BYTES]
  BY DEF HandoffInv, HandoffTypeOK
<1> DEFINE Base == a.base \cap Folder
           Best == {a.last[a.best]} \cap Id
           Rest == FilesOfOthers(a.last, a.best)
<1>1. Base \in SUBSET Id /\ Best \in SUBSET Id /\ Rest \in SUBSET Id /\ Folder \in SUBSET Id
  BY DEF FilesOfOthers, Folder
<1>2. Folder \subseteq (Base \cup Best) \cup Rest
  BY <1>a, <1>1 DEF AccountedFor, BaseOK, FilesOfOthers
<1>3. Cardinality(Bytes(Best, written)) <= SizeOf(a.last[a.best])
  <2>1. CASE a.last[a.best] = NoId
    <3>1. Best = {} /\ SizeOf(a.last[a.best]) = 0
      BY <2>1, HandoffAssumption DEF SizeOf
    <3>2. Bytes(Best, written) = {}
      BY <3>1 DEF Bytes
    <3> QED
      BY <3>1, <3>2, FS_EmptySet
  <2>2. CASE a.last[a.best] # NoId
    <3>1. a.last[a.best] \in Id /\ Best = {a.last[a.best]}
      BY <1>t, <2>2
    <3>2. Cardinality(Bytes(Best, written)) = written[a.last[a.best]]
      BY <1>T, <3>1, BytesOfOne
    <3> QED
      BY <2>2, <3>1, <3>2 DEF RoomInv, WrittenInv, SizeOf
  <2> QED
    BY <2>1, <2>2
<1>4. Cardinality(Bytes(Rest, written)) <= (Cardinality(Producer) - 1) * MAX_FILE_BYTES
  BY <1>t, BytesOfOthers
<1>5. Cardinality(Bytes(Base, written)) + SizeOf(a.last[a.best]) <= MAX_TOTAL_BYTES
  BY <1>a DEF AccountedFor, BaseOK
<1>6. SizeOf(a.last[a.best]) \in Nat
  BY <1>t, <1>T, HandoffAssumption DEF SizeOf
<1>7. Cardinality(Producer) \in Nat
  BY FS_CardinalityType
<1> HIDE DEF Base, Best, Rest
<1>8. /\ Cardinality(Bytes(Folder, written)) <= Cardinality(Bytes((Base \cup Best) \cup Rest, written))
      /\ Cardinality(Bytes((Base \cup Best) \cup Rest, written))
           <= Cardinality(Bytes(Base \cup Best, written)) + Cardinality(Bytes(Rest, written))
      /\ Cardinality(Bytes(Base \cup Best, written))
           <= Cardinality(Bytes(Base, written)) + Cardinality(Bytes(Best, written))
  <2>1. Cardinality(Bytes(Folder, written)) <= Cardinality(Bytes((Base \cup Best) \cup Rest, written))
    BY <1>1, <1>2, <1>T, FewerBytes, HandoffAssumption
  <2>2. Base \cup Best \in SUBSET Id
    BY <1>1
  <2> QED
    BY <1>1, <2>1, <2>2, BytesOfTwo
<1>9. /\ Cardinality(Bytes(Folder, written)) \in Nat /\ Cardinality(Bytes(Base, written)) \in Nat
      /\ Cardinality(Bytes(Best, written)) \in Nat /\ Cardinality(Bytes(Rest, written)) \in Nat
      /\ Cardinality(Bytes(Base \cup Best, written)) \in Nat
      /\ Cardinality(Bytes((Base \cup Best) \cup Rest, written)) \in Nat
  <2>1. Base \cup Best \in SUBSET Id /\ (Base \cup Best) \cup Rest \in SUBSET Id
    BY <1>1
  <2> QED
    BY <1>1, <2>1, BytesAreFinite
<1> QED
  <2> DEFINE over == (Cardinality(Producer) - 1) * MAX_FILE_BYTES
  <2>1. over \in Int
    BY <1>7, HandoffAssumption
  <2> HIDE DEF over
  <2>2. Cardinality(Bytes(Rest, written)) <= over
    BY <1>4 DEF over
  <2>3. Cardinality(Bytes(Folder, written)) <= MAX_TOTAL_BYTES + over
    BY <1>3, <1>5, <1>6, <1>8, <1>9, <2>1, <2>2, HandoffAssumption
  <2> QED
    BY <2>3 DEF over, OverrunIsBounded

(* However many producers publish at once, each counting in its own time a     *)
(* folder that changes under it, the folder exceeds its limit by at most one   *)
(* file of each producer but one.                                              *)
THEOREM FolderStaysBounded ==
  ASSUME IsFiniteSet(Id), IsFiniteSet(Producer), Producer # {}
  PROVE  HandoffSpec => []OverrunIsBounded
<1>1. HandoffInit => RoomInv
  BY RoomInitially
<1>2. HandoffInv /\ HandoffInv' /\ RoomInv /\ [HandoffNext]_handoffVars => RoomInv'
  BY RoomStep
<1>3. HandoffInv /\ RoomInv => OverrunIsBounded
  BY RoomBounds
<1> QED
  BY <1>1, <1>2, <1>3, HandoffInvariance, PTL DEF HandoffSpec
================================================================================
