----------------------------- MODULE Erasure_proofs ----------------------------
(* Safety of the erasers, for every set of tokens and any number of failures,  *)
(* kills, power losses and concurrent saves of other sessions.  An eraser      *)
(* deletes from the same directory the store writes, so the store's inductive  *)
(* invariant is carried along: DurableInv survives a deletion because a spent  *)
(* token is promised to nobody, and the eraser deletes only spent tokens       *)
(* because that is what the files it did not keep were asked about.            *)
EXTENDS Erasure, DurableStore_proofs

(* The types of the eraser's own variables.                                    *)
OwnTypes ==
  /\ live \subseteq Token /\ unused \subseteq Token \ live
  /\ others \subseteq Other
  /\ erase \in [at: {"idle", "read", "revoke", "forget", "walk"}, kind: Kind \cup {"data"},
                keep: SUBSET (Name \cup Other), todo: SUBSET (Token \cup Name \cup Other),
                failed: BOOLEAN, unreadable: BOOLEAN, errors: BOOLEAN, found: SUBSET Token]
  /\ answer \in {"none", "complete", "incomplete"}
  /\ faults \in 0..MaxFaults

LEMMA Together ==
  ASSUME DurableInv', OwnTypes', LockInv', RevokeInv', ForgetInv', WalkInv'
  PROVE  EraseInv'
  BY DEF EraseInv, EraseTypeOK, OwnTypes, DurableInv

LEMMA FaultCounted ==
  faults \in 0..MaxFaults /\ (Fault \/ NoFault) => faults' \in 0..MaxFaults
  BY EraseAssumption DEF Fault, NoFault

LEMMA IdleTyped ==
  Idle \in [at: {"idle", "read", "revoke", "forget", "walk"}, kind: Kind \cup {"data"},
            keep: SUBSET (Name \cup Other), todo: SUBSET (Token \cup Name \cup Other),
            failed: BOOLEAN, unreadable: BOOLEAN, errors: BOOLEAN, found: SUBSET Token]
  BY DEF Idle

(* The store's invariant when tokens are given up and nothing else changes.    *)
LEMMA GivenUp ==
  ASSUME DurableInv, promised' \subseteq promised, UNCHANGED <<diskVars, call>>
  PROVE  DurableInv'
  BY DEF DurableInv, DurableTypeOK, DiskInv, WriteInv, UnlinkInv, SlotsNeverTorn,
         PromisedSurvives, diskVars

(* An eraser at rest satisfies the three phase conditions.                     *)
LEMMA AtRest == erase'.at = "idle" => RevokeInv' /\ ForgetInv' /\ WalkInv'
  BY DEF RevokeInv, ForgetInv, WalkInv

LEMMA InitErase == EraseInit => EraseInv
<1> SUFFICES ASSUME EraseInit PROVE EraseInv
  OBVIOUS
<1>1. DurableInv
  BY InitDurable DEF EraseInit
<1>2. OwnTypes
  BY IdleTyped, EraseAssumption DEF EraseInit, OwnTypes
<1>3. LockInv /\ RevokeInv /\ ForgetInv /\ WalkInv
  BY DEF EraseInit, DurableInit, LockInv, Idle, RevokeInv, ForgetInv, WalkInv
<1> QED
  BY <1>1, <1>2, <1>3 DEF EraseInv, EraseTypeOK, OwnTypes, DurableInv

--------------------------------------------------------------------------------
LEMMA SignInKeeps == EraseInv /\ SignInStep => EraseInv'
<1> SUFFICES ASSUME EraseInv, SignInStep PROVE EraseInv'
  OBVIOUS
<1>1. Operate \/ Continue \/ BreakOff
  BY DEF SignInStep, Operate, SignIn, EraseInv, EraseTypeOK
<1>2. DurableInv'
  BY <1>1, OperateKeeps, ProceedKeeps DEF Proceed, EraseInv
<1>3. OwnTypes'
  <2>1. faults' \in 0..MaxFaults
    BY FaultCounted DEF SignInStep, EraseInv, EraseTypeOK
  <2> QED
    BY <2>1 DEF SignInStep, EraseInv, EraseTypeOK, OwnTypes
<1>4. erase' = erase /\ erase.at = "idle"
  BY DEF SignInStep
<1>5. LockInv'
  <2>1. CASE Operate
    BY <1>4, <2>1 DEF Operate, SignIn, Stage, Promote, Migrate, DiscardStaged, RemoveActive, Begin, LockInv, Free
  <2>2. CASE Continue
    <3>1. call \in [op: Operation, slot: Slot, token: Token \cup {None}, next: Syscall]
      BY DEF EraseInv, EraseTypeOK, DurableTypeOK
    <3>2. ~Free
      BY <2>2 DEF EraseInv, LockInv, Continue, Open, Write, Fsync, Replace, SyncDirectory,
           Unlink, SyncUnlinked, NoCall
    <3> QED
      BY <1>4, <2>2, <3>1, <3>2 DEF LockInv, Free, Continue, Open, Write, Fsync, Replace,
           SyncDirectory, Written, Unlink, SyncUnlinked, Goes
  <2>3. CASE BreakOff
    BY <1>4, <2>3 DEF BreakOff, LockInv
  <2> QED
    BY <1>1, <2>1, <2>2, <2>3
<1> QED
  BY <1>2, <1>3, <1>4, <1>5, AtRest, Together

(* What the steps between the read of the files and the walk have in common:   *)
(* they leave the directory and the lock alone.                                *)
LEMMA AskingKeeps ==
  ASSUME EraseInv, NEW t \in Token, Revoked(t) \/ AlreadyInvalid(t) \/ Unconfirmed(t)
  PROVE  EraseInv'
<1>1. /\ erase.at = "revoke" /\ t \in erase.todo
      /\ UNCHANGED <<diskVars, call, unused, others, answer>> /\ (Fault \/ NoFault)
      /\ \/ erase' = [erase EXCEPT !.todo = @ \ {t}]
         \/ erase' = [erase EXCEPT !.todo = @ \ {t}, !.failed = TRUE,
                                   !.keep = @ \cup {n \in Name : dir[n] = t}]
      /\ live' \subseteq live /\ promised' \subseteq promised
  BY DEF Revoked, AlreadyInvalid, Unconfirmed, GrantEnds, durableVars
<1>2. DurableInv'
  BY <1>1, GivenUp DEF EraseInv
<1>3. OwnTypes'
  <2>1. faults' \in 0..MaxFaults
    BY <1>1, FaultCounted DEF EraseInv, EraseTypeOK
  <2> QED
    BY <1>1, <2>1 DEF EraseInv, EraseTypeOK, OwnTypes
<1>4. LockInv' /\ ForgetInv' /\ WalkInv'
  BY <1>1 DEF EraseInv, EraseTypeOK, LockInv, ForgetInv, WalkInv, Free
<1>5. RevokeInv'
  <2> SUFFICES ASSUME NEW n \in Present(dir) \ erase'.keep
               PROVE  dir[n] \in erase'.todo \/ Spent(dir[n])'
    BY <1>1 DEF RevokeInv, diskVars, Present
  <2>1. n \notin erase.keep
    BY <1>1 DEF EraseInv, EraseTypeOK
  <2>2. dir[n] \in erase.todo \/ Spent(dir[n])
    BY <1>1, <2>1 DEF EraseInv, RevokeInv
  <2>3. Spent(dir[n]) => Spent(dir[n])'
    BY <1>1 DEF Spent, diskVars
  <2>4. dir[n] = t => Spent(t)'
    <3> SUFFICES ASSUME dir[n] = t PROVE Spent(t)'
      OBVIOUS
    <3>1. ~Unconfirmed(t)
      <4> SUFFICES ASSUME Unconfirmed(t) PROVE FALSE
        OBVIOUS
      <4>1. erase'.keep = erase.keep \cup {m \in Name : dir[m] = t}
        BY DEF Unconfirmed, EraseInv, EraseTypeOK
      <4> QED
        BY <4>1 DEF Present
    <3>2. CASE Revoked(t)
      BY <3>2 DEF Revoked, GrantEnds, Spent
    <3>3. CASE AlreadyInvalid(t)
      BY <3>3 DEF AlreadyInvalid, Spent
    <3> QED
      BY <3>1, <3>2, <3>3
  <2>5. erase'.todo = erase.todo \ {t}
    BY <1>1 DEF EraseInv, EraseTypeOK
  <2> QED
    BY <1>1, <2>2, <2>3, <2>4, <2>5 DEF diskVars
<1> QED
  BY <1>2, <1>3, <1>4, <1>5, Together

(* The read of the credential files, the end of the questions, the listing.    *)
LEMMA PhasesKeep ==
  ASSUME EraseInv, ReadCredentials \/ AllAsked \/ ForgetAndList \/ Report
  PROVE  EraseInv'
<1>1. UNCHANGED <<durableVars, live, unused>> /\ (Fault \/ NoFault) /\ erase.at # "idle"
  BY DEF ReadCredentials, AllAsked, ForgetAndList, Report
<1>2. DurableInv'
  BY <1>1, GivenUp DEF EraseInv, durableVars
<1>3. UNCHANGED <<dir, call, promised>>
  BY <1>1 DEF durableVars, diskVars
<1>4. OwnTypes /\ dir \in Directory
  BY DEF EraseInv, EraseTypeOK, DurableTypeOK, OwnTypes
<1>5. faults' \in 0..MaxFaults
  BY <1>1, <1>4, FaultCounted DEF OwnTypes
<1>6. CASE ReadCredentials
  <2>1. /\ erase.at = "read" /\ UNCHANGED <<others, answer>>
    BY <1>6 DEF ReadCredentials
  <2> DEFINE read(u) == [erase EXCEPT !.at = "revoke", !.keep = u, !.unreadable = (u # {}),
                           !.todo = {dir[n] : n \in Present(dir) \ u},
                           !.found = {dir[n] : n \in Present(dir)} \ {Cut}]
  <2>2. PICK u \in SUBSET Name : erase' = read(u) /\ \A n \in Name : dir[n] = Cut => n \in u
    <3> DEFINE cuts == {n \in Name : dir[n] = Cut}
    <3>1. PICK broken \in SUBSET {n \in Name : dir[n] \in Token} : erase' = read(broken \cup cuts)
      BY <1>6 DEF ReadCredentials
    <3>2. broken \cup cuts \in SUBSET Name /\ \A n \in Name : dir[n] = Cut => n \in broken \cup cuts
      OBVIOUS
    <3> HIDE DEF read, cuts
    <3> QED
      BY <3>1, <3>2
  <2>3. {dir[n] : n \in Present(dir) \ u} \subseteq Token /\ {dir[n] : n \in Present(dir)} \ {Cut} \subseteq Token
    BY <1>4, <2>2 DEF Present, Directory, Content
  <2>4. erase'.at = "revoke" /\ erase'.kind = erase.kind /\ erase'.keep = u
        /\ erase'.todo = {dir[n] : n \in Present(dir) \ u}
    BY <1>4, <2>2 DEF OwnTypes
  <2>5. OwnTypes'
    <3>1. (u # {}) \in BOOLEAN
      OBVIOUS
    <3>2. erase' \in [at: {"idle", "read", "revoke", "forget", "walk"}, kind: Kind \cup {"data"},
                      keep: SUBSET (Name \cup Other), todo: SUBSET (Token \cup Name \cup Other),
                      failed: BOOLEAN, unreadable: BOOLEAN, errors: BOOLEAN, found: SUBSET Token]
      BY <1>4, <2>2, <2>3, <3>1 DEF OwnTypes
    <3> QED
      BY <1>1, <1>4, <1>5, <2>1, <3>2 DEF OwnTypes
  <2>6. LockInv' /\ RevokeInv' /\ ForgetInv' /\ WalkInv'
    BY <1>3, <2>1, <2>4 DEF EraseInv, LockInv, RevokeInv, ForgetInv, WalkInv, Free, Present
  <2> QED
    BY <1>2, <2>5, <2>6, Together
<1>7. CASE AllAsked
  <2>1. /\ erase.at = "revoke" /\ erase.todo = {} /\ UNCHANGED <<others, answer>>
        /\ erase' = [erase EXCEPT !.at = "forget"]
    BY <1>7 DEF AllAsked
  <2>2. erase'.at = "forget" /\ erase'.kind = erase.kind /\ erase'.keep = erase.keep
    BY <1>4, <2>1 DEF OwnTypes
  <2>3. OwnTypes'
    BY <1>1, <1>4, <1>5, <2>1 DEF OwnTypes
  <2>4. LockInv' /\ RevokeInv' /\ ForgetInv' /\ WalkInv'
    BY <1>1, <1>3, <2>1, <2>2
    DEF EraseInv, LockInv, RevokeInv, ForgetInv, WalkInv, Free, Present, Spent
  <2> QED
    BY <1>2, <2>3, <2>4, Together
<1>8. CASE ForgetAndList
  <2>1. /\ erase.at = "forget" /\ others' \subseteq others /\ UNCHANGED answer
        /\ erase' = [erase EXCEPT !.at = "walk", !.todo = (Present(dir) \cup others') \ erase.keep]
    BY <1>8 DEF ForgetAndList
  <2>2. erase'.at = "walk" /\ erase'.kind = erase.kind
        /\ erase'.todo = (Present(dir) \cup others') \ erase.keep
    BY <1>4, <2>1 DEF OwnTypes
  <2>3. OwnTypes'
    BY <1>1, <1>4, <1>5, <2>1 DEF OwnTypes, Present
  <2>4. WalkInv'
    <3>1. CASE erase.kind = "everything"
      BY <1>1, <1>3, <2>1, <2>2, <3>1 DEF EraseInv, ForgetInv, WalkInv, Present, Spent
    <3>2. CASE erase.kind # "everything"
      BY <2>1, <2>2, <3>2 DEF EraseInv, ForgetInv, WalkInv, SIGN_IN_FILES
    <3> QED
      BY <3>1, <3>2
  <2>5. LockInv' /\ RevokeInv' /\ ForgetInv'
    BY <1>3, <2>1, <2>2 DEF EraseInv, LockInv, RevokeInv, ForgetInv, Free
  <2> QED
    BY <1>2, <2>3, <2>4, <2>5, Together
<1>9. CASE Report
  <2>1. erase' = Idle /\ UNCHANGED others /\ answer' \in {"complete", "incomplete"}
    BY <1>9 DEF Report
  <2>2. OwnTypes'
    BY <1>1, <1>4, <1>5, <2>1, IdleTyped DEF OwnTypes
  <2>3. LockInv' /\ RevokeInv' /\ ForgetInv' /\ WalkInv'
    BY <1>3, <2>1, AtRest DEF EraseInv, LockInv, Free, Idle
  <2> QED
    BY <1>2, <2>2, <2>3, Together
<1> QED
  BY <1>6, <1>7, <1>8, <1>9

(* A deletion, the one step of an eraser that touches the disk: the entry is no*)
(* slot, or holds a spent token, and so no promised token goes with it.        *)
LEMMA RemovalKeeps ==
  ASSUME EraseInv, NEW n \in Name \cup Other, RemoveEntry(n)
  PROVE  EraseInv'
<1>1. /\ erase.at = "walk" /\ n \in erase.todo
      /\ UNCHANGED <<call, promised, live, unused, answer>> /\ (Fault \/ NoFault)
      /\ others' \subseteq others
      /\ \/ erase' = [erase EXCEPT !.todo = @ \ {n}]
         \/ erase' = [erase EXCEPT !.todo = @ \ {n}, !.errors = TRUE]
      /\ \/ n \in Present(dir) /\ Changes([dir EXCEPT ![n] = None], dirty \ {n})
         \/ UNCHANGED diskVars
  BY DEF RemoveEntry
<1>2. /\ OwnTypes /\ dir \in Directory /\ dirty \subseteq Name /\ promised \subseteq Token
  BY DEF EraseInv, EraseTypeOK, DurableTypeOK, OwnTypes
<1>3. /\ erase'.at = "walk" /\ erase'.kind = erase.kind /\ erase'.todo = erase.todo \ {n}
  BY <1>1, <1>2 DEF OwnTypes
<1>4. OwnTypes'
  <2>1. faults' \in 0..MaxFaults
    BY <1>1, <1>2, FaultCounted DEF OwnTypes
  <2> QED
    BY <1>1, <1>2, <2>1 DEF OwnTypes
<1>5. LockInv' /\ RevokeInv' /\ ForgetInv'
  BY <1>1, <1>3 DEF EraseInv, LockInv, RevokeInv, ForgetInv, Free
<1>6. call = NoCall
  BY <1>1 DEF EraseInv, LockInv
<1>7. CASE UNCHANGED diskVars
  <2>1. DurableInv'
    BY <1>1, <1>7, GivenUp DEF EraseInv
  <2>2. WalkInv'
    BY <1>1, <1>3, <1>7 DEF EraseInv, WalkInv, diskVars, Present, Spent
  <2> QED
    BY <1>4, <1>5, <2>1, <2>2, Together
<1>8. CASE n \in Present(dir) /\ Changes([dir EXCEPT ![n] = None], dirty \ {n})
  <2> DEFINE d == [dir EXCEPT ![n] = None]
             u == dirty \ {n}
  <2>1. n \in Name /\ d \in Directory /\ d[n] = None /\ \A m \in Name \ {n} : d[m] = dir[m]
    BY <1>2, <1>8 DEF Present, Directory, Content
  <2>2. u \in SUBSET Name /\ u \cap Slot = {} /\ Changes(d, u)
    BY <1>2, <1>8 DEF EraseInv, DurableInv, DiskInv
  <2> HIDE DEF d, u
  <2>3. \A s \in Slot : d[s] # Cut
    BY <2>1, ContentAssumption DEF EraseInv, DurableInv, SlotsNeverTorn, Name
  <2>4. n \in Slot => dir[n] \notin promised
    BY <1>1, <1>8 DEF EraseInv, WalkInv, Spent
  <2>5. \A t \in promised' : t \in {d[s] : s \in Slot}
    <3> SUFFICES ASSUME NEW t \in promised PROVE \E s \in Slot : d[s] = t
      BY <1>1
    <3>1. PICK s \in Slot : dir[s] = t
      BY DEF EraseInv, DurableInv, PromisedSurvives
    <3> QED
      BY <2>1, <2>4, <3>1 DEF Name
  <2>6. /\ dir' \in Directory /\ dirty' \subseteq Name /\ kept' \subseteq Directory /\ kept' # {}
        /\ promised' \subseteq Token /\ DiskInv' /\ SlotsNeverTorn' /\ PromisedSurvives'
    BY <1>1, <2>1, <2>2, <2>3, <2>5, DiskChanged DEF EraseInv
  <2>7. DurableInv'
    BY <1>1, <1>6, <2>6 DEF EraseInv, DurableInv, DurableTypeOK, WriteInv, UnlinkInv, NoCall
  <2>8. dir' = d
    BY <2>2 DEF Changes
  <2>9. WalkInv'
    BY <1>1, <1>3, <2>1, <2>8 DEF EraseInv, WalkInv, Present, Spent
  <2> QED
    BY <1>4, <1>5, <2>7, <2>9, Together
<1> QED
  BY <1>1, <1>7, <1>8

(* What happens around an eraser: it begins or is refused, it dies, another    *)
(* session changes its files, a grant is withdrawn, the power fails.           *)
LEMMA SurroundingsKeep ==
  ASSUME EraseInv,
         \/ \E kind \in Kind : EraseBegins(kind)
         \/ EraseContended \/ EraseDies \/ OtherSession \/ Withdrawn \/ PowerFails
  PROVE  EraseInv'
<1>1. OwnTypes /\ (Fault \/ NoFault)
  BY DEF EraseInv, EraseTypeOK, OwnTypes, EraseBegins, EraseContended, EraseDies, OtherSession,
       Withdrawn, PowerFails
<1>2. faults' \in 0..MaxFaults
  BY <1>1, FaultCounted DEF OwnTypes
<1>3. ASSUME NEW kind \in Kind, EraseBegins(kind) PROVE EraseInv'
  <2>1. /\ UNCHANGED <<durableVars, live, unused, others>> /\ answer' = "none" /\ Free
        /\ erase' = [Idle EXCEPT !.kind = kind,
                      !.at = IF kind = "data" THEN "forget" ELSE "read",
                      !.keep = IF kind = "data" THEN SIGN_IN_FILES ELSE {}]
    BY <1>3 DEF EraseBegins
  <2>2. DurableInv'
    BY <2>1, GivenUp DEF EraseInv, durableVars
  <2>3. OwnTypes'
    BY <1>1, <1>2, <2>1, EraseAssumption DEF OwnTypes, Idle, SIGN_IN_FILES, Name, Slot, Other
  <2>4. LockInv' /\ RevokeInv' /\ ForgetInv' /\ WalkInv'
    BY <2>1, EraseAssumption
    DEF EraseInv, LockInv, RevokeInv, ForgetInv, WalkInv, Idle, Free, durableVars
  <2> QED
    BY <2>2, <2>3, <2>4, Together
<1>4. CASE EraseContended \/ EraseDies \/ OtherSession
  <2>1. UNCHANGED <<durableVars, live, unused>> /\ (erase' = erase \/ erase' = Idle)
        /\ others' \subseteq Other /\ answer' \in {"none", "complete", "incomplete"}
    BY <1>1, <1>4 DEF EraseContended, EraseDies, OtherSession, OwnTypes
  <2>2. DurableInv'
    BY <2>1, GivenUp DEF EraseInv, durableVars
  <2>3. OwnTypes'
    BY <1>1, <1>2, <2>1, IdleTyped DEF OwnTypes
  <2>4. LockInv' /\ RevokeInv' /\ ForgetInv' /\ WalkInv'
    BY <2>1 DEF EraseInv, LockInv, RevokeInv, ForgetInv, WalkInv, Idle, Free, Present, Spent,
         durableVars, diskVars
  <2> QED
    BY <2>2, <2>3, <2>4, Together
<1>5. CASE Withdrawn
  <2>1. /\ UNCHANGED <<diskVars, call, unused, others, erase, answer>>
        /\ live' \subseteq live /\ promised' \subseteq promised
    BY <1>5 DEF Withdrawn, GrantEnds
  <2>2. DurableInv'
    BY <2>1, GivenUp DEF EraseInv
  <2>3. OwnTypes'
    BY <1>1, <1>2, <2>1 DEF OwnTypes
  <2>4. LockInv' /\ RevokeInv' /\ ForgetInv' /\ WalkInv'
    BY <2>1 DEF EraseInv, LockInv, RevokeInv, ForgetInv, WalkInv, Free, Present, Spent, diskVars
  <2> QED
    BY <2>2, <2>3, <2>4, Together
<1>6. CASE PowerFails
  <2>1. PowerLoss /\ erase' = Idle /\ UNCHANGED <<live, unused, others, answer>>
    BY <1>6 DEF PowerFails
  <2>2. DurableInv'
    BY <2>1, PowerLossKeeps DEF EraseInv
  <2>3. OwnTypes'
    BY <1>1, <1>2, <2>1, IdleTyped DEF OwnTypes
  <2>4. LockInv' /\ RevokeInv' /\ ForgetInv' /\ WalkInv'
    BY <2>1, AtRest DEF PowerLoss, LockInv, Idle
  <2> QED
    BY <2>2, <2>3, <2>4, Together
<1> QED
  BY <1>3, <1>4, <1>5, <1>6

LEMMA EraseStep == EraseInv /\ [EraseNext]_eraseVars => EraseInv'
<1>1. EraseInv /\ UNCHANGED eraseVars => EraseInv'
  <2> SUFFICES ASSUME EraseInv, UNCHANGED eraseVars PROVE EraseInv'
    OBVIOUS
  <2>1. DurableInv'
    BY GivenUp DEF EraseInv, eraseVars, durableVars
  <2>2. OwnTypes' /\ LockInv' /\ RevokeInv' /\ ForgetInv' /\ WalkInv'
    BY DEF EraseInv, EraseTypeOK, OwnTypes, LockInv, RevokeInv, ForgetInv, WalkInv, Free,
         Present, Spent, eraseVars, durableVars, diskVars
  <2> QED
    BY <2>1, <2>2, Together
<1> QED
  BY <1>1, SignInKeeps, AskingKeeps, PhasesKeep, RemovalKeeps, SurroundingsKeep
  DEF EraseNext, EraserStep

--------------------------------------------------------------------------------
(* The erasers and the sign-in flow keep the inductive invariant, and with it  *)
(* the types of both.                                                          *)
THEOREM EraseInvariance == EraseSpec => []EraseInv
  BY InitErase, EraseStep, PTL DEF EraseSpec

(* Every variable of the erasers stays in its type.                            *)
THEOREM EraseTyped == EraseSpec => []EraseTypeOK
<1>1. EraseInv => EraseTypeOK
  BY DEF EraseInv
<1> QED
  BY <1>1, EraseInvariance, PTL

(* No eraser loses a token the store has promised to keep, unless Google has   *)
(* said that it is dead.                                                       *)
THEOREM ErasersKeepPromises == EraseSpec => []PromisedSurvives
<1>1. EraseInv => PromisedSurvives
  BY DEF EraseInv, DurableInv
<1> QED
  BY <1>1, EraseInvariance, PTL

(* erase_everything deletes a credential file only when the token in it is dead*)
(* at Google: no file of a token whose revocation went unconfirmed, none that  *)
(* cannot be read.                                                             *)
THEOREM OnlyDeadTokensErased == EraseSpec => NoLiveTokenErased
<1> DEFINE Deletes == erase.kind = "everything" /\ erase.at = "walk" /\ erase'.at = "walk" =>
                        \A n \in Present(dir) \ Present(dir') : dir[n] \in Token \ live
<1>1. EraseInv /\ [EraseNext]_eraseVars => [Deletes]_eraseVars
  <2> SUFFICES ASSUME EraseInv, EraseNext, erase.kind = "everything", erase.at = "walk",
                      erase'.at = "walk", NEW n \in Present(dir) \ Present(dir')
               PROVE  dir[n] \in Token \ live
    OBVIOUS
  <2>1. dir' # dir
    OBVIOUS
  <2>2. ~PowerFails
    BY DEF PowerFails, Idle
  <2>3. PICK m \in Name \cup Other : RemoveEntry(m)
    BY <2>1, <2>2 DEF EraseNext, SignInStep, EraseBegins, EraseContended, EraserStep,
         ReadCredentials, AllAsked, ForgetAndList, Report, Revoked, AlreadyInvalid, Unconfirmed,
         EraseDies, OtherSession, Withdrawn, durableVars, diskVars
  <2>4. m \in Present(dir) /\ m \in erase.todo /\ dir' = [dir EXCEPT ![m] = None]
    BY <2>1, <2>3 DEF RemoveEntry, Changes, diskVars
  <2>5. n = m
    BY <2>4 DEF Present, EraseInv, EraseTypeOK, DurableTypeOK, Directory
  <2> QED
    BY <2>4, <2>5 DEF EraseInv, WalkInv, Spent
<1> QED
  BY <1>1, EraseInvariance, PTL DEF EraseSpec, NoLiveTokenErased

--------------------------------------------------------------------------------
LEMMA AnswerStep == EraseInv /\ AnswerInv /\ [EraseNext]_eraseVars => AnswerInv'
<1> SUFFICES ASSUME EraseInv, AnswerInv, [EraseNext]_eraseVars PROVE AnswerInv'
  OBVIOUS
<1>1. OwnTypes
  BY DEF EraseInv, EraseTypeOK, OwnTypes
<1>2. CASE erase'.at = "idle"
  BY <1>2 DEF AnswerInv
<1>3. CASE erase' = erase /\ (live' \subseteq live \/ erase.at = "idle")
  BY <1>3 DEF AnswerInv
<1>4. ASSUME NEW kind \in Kind, EraseBegins(kind) PROVE AnswerInv'
  BY <1>4, EraseAssumption DEF EraseBegins, AnswerInv, Idle
<1>5. CASE ReadCredentials
  <2>1. PICK broken \in SUBSET {n \in Name : dir[n] \in Token} :
          erase' = [erase EXCEPT !.at = "revoke", !.keep = broken \cup {n \in Name : dir[n] = Cut},
                      !.unreadable = (broken \cup {n \in Name : dir[n] = Cut}) # {},
                      !.todo = {dir[n] : n \in Present(dir) \ (broken \cup {n \in Name : dir[n] = Cut})},
                      !.found = {dir[n] : n \in Present(dir)} \ {Cut}]
    BY <1>5 DEF ReadCredentials
  <2> DEFINE u == broken \cup {n \in Name : dir[n] = Cut}
  <2>2. /\ erase'.at = "revoke" /\ erase'.kind = erase.kind /\ erase'.keep = u
        /\ erase'.unreadable = (u # {}) /\ erase'.todo = {dir[n] : n \in Present(dir) \ u}
        /\ erase'.found = {dir[n] : n \in Present(dir)} \ {Cut}
    BY <1>1, <2>1 DEF OwnTypes
  <2> HIDE DEF u
  <2>3. erase.kind = "everything"
    BY <1>5 DEF ReadCredentials, EraseInv, LockInv
  <2> QED
    BY <2>2, <2>3 DEF AnswerInv
<1>6. ASSUME NEW t \in Token, Revoked(t) \/ AlreadyInvalid(t) \/ Unconfirmed(t)
      PROVE  AnswerInv'
  <2>1. /\ erase.at = "revoke" /\ erase'.at = "revoke" /\ erase'.kind = erase.kind
        /\ erase'.found = erase.found /\ erase'.todo = erase.todo \ {t}
        /\ erase'.unreadable = erase.unreadable /\ live' \subseteq live
    BY <1>1, <1>6 DEF Revoked, AlreadyInvalid, Unconfirmed, GrantEnds, OwnTypes
  <2>2. CASE Revoked(t) \/ AlreadyInvalid(t)
    <3>1. erase'.keep = erase.keep /\ erase'.failed = erase.failed
      BY <1>1, <2>2 DEF Revoked, AlreadyInvalid, OwnTypes
    <3>2. t \notin live'
      BY <2>2 DEF Revoked, AlreadyInvalid, GrantEnds
    <3> QED
      BY <2>1, <3>1, <3>2 DEF AnswerInv
  <2>3. CASE Unconfirmed(t)
    <3>1. erase'.failed = TRUE
      BY <1>1, <2>3 DEF Unconfirmed, OwnTypes
    <3>2. erase.kind = "everything"
      BY <2>1 DEF EraseInv, LockInv
    <3> QED
      BY <2>1, <3>1, <3>2 DEF AnswerInv
  <2> QED
    BY <1>6, <2>2, <2>3
<1>7. CASE AllAsked
  <2>1. /\ erase.at = "revoke" /\ erase.todo = {} /\ erase'.at = "forget" /\ UNCHANGED live
        /\ erase'.kind = erase.kind /\ erase'.keep = erase.keep /\ erase'.found = erase.found
        /\ erase'.failed = erase.failed /\ erase'.unreadable = erase.unreadable
    BY <1>1, <1>7 DEF AllAsked, OwnTypes
  <2> QED
    BY <2>1 DEF AnswerInv
<1>8. CASE ForgetAndList \/ \E n \in Name \cup Other : RemoveEntry(n)
  <2>1. /\ erase.at \in {"forget", "walk"} /\ erase'.at = "walk" /\ UNCHANGED live
        /\ erase'.kind = erase.kind /\ erase'.keep = erase.keep /\ erase'.found = erase.found
        /\ erase'.failed = erase.failed /\ erase'.unreadable = erase.unreadable
    BY <1>1, <1>8 DEF ForgetAndList, RemoveEntry, OwnTypes
  <2> QED
    BY <2>1 DEF AnswerInv
<1>9. CASE SignInStep \/ EraseContended \/ OtherSession \/ Withdrawn \/ UNCHANGED eraseVars
  BY <1>3, <1>9 DEF SignInStep, EraseContended, OtherSession, Withdrawn, GrantEnds, eraseVars
<1>10. CASE Report \/ EraseDies \/ PowerFails
  BY <1>2, <1>10 DEF Report, EraseDies, PowerFails, Idle
<1> QED
  BY <1>4, <1>5, <1>6, <1>7, <1>8, <1>9, <1>10 DEF EraseNext, EraserStep

(* An eraser answers "complete" only when nothing of the chosen kind is left   *)
(* and every token that was stored when it began is dead at Google.            *)
THEOREM CompleteIsEarned == EraseSpec => CompleteIsTrue
<1> DEFINE Earned == answer # "complete" /\ answer' = "complete" =>
                       IF erase.kind = "everything"
                         THEN Present(dir') = {} /\ others' = {} /\ erase.found \cap live' = {}
                         ELSE Present(dir') \subseteq Slot /\ others' \subseteq {"notices"}
<1>1. EraseInit => AnswerInv
  BY DEF EraseInit, AnswerInv, Idle
<1>2. EraseInv /\ AnswerInv /\ [EraseNext]_eraseVars => [Earned]_eraseVars
  <2> SUFFICES ASSUME EraseInv, AnswerInv, EraseNext, answer # "complete", answer' = "complete"
               PROVE  Earned
    OBVIOUS
  <2>1. Report
    BY DEF EraseNext, SignInStep, EraseBegins, EraseContended, EraserStep, ReadCredentials,
       AllAsked, ForgetAndList, Revoked, AlreadyInvalid, Unconfirmed, RemoveEntry, EraseDies,
       OtherSession, Withdrawn, PowerFails
  <2>2. /\ erase.at = "walk" /\ ~erase.failed /\ ~erase.unreadable
        /\ (Present(dir) \cup others) \ erase.keep = {}
        /\ UNCHANGED <<dir, others, live>>
    BY <2>1 DEF Report, Complete, durableVars, diskVars
  <2>3. CASE erase.kind = "everything"
    BY <2>2, <2>3 DEF AnswerInv
  <2>4. CASE erase.kind # "everything"
    <3>1. erase.keep = SIGN_IN_FILES /\ others \subseteq Other
      BY <2>2, <2>4 DEF AnswerInv, EraseInv, EraseTypeOK
    <3> QED
      BY <2>2, <2>4, <3>1 DEF SIGN_IN_FILES, Present, Name, Slot, Other, Tmp
  <2> QED
    BY <2>3, <2>4
<1> QED
  BY <1>1, <1>2, AnswerStep, EraseInvariance, PTL DEF EraseSpec, CompleteIsTrue
================================================================================
