------------------------------ MODULE DurableStore ----------------------------
(* server/token_store.py one system call at a time: the write of a temporary,  *)
(* its fsync, the rename over the slot, the fsync of the directory, the unlink *)
(* of a slot.  Any call may fail (the caller sees an exception) or be the last *)
(* one before the process is killed; the machine may lose power at any point.  *)
(* A directory change is durable, in the order made, at the latest when the    *)
(* directory is fsynced; a file's bytes when the file is.  The collect lock    *)
(* keeps two of these operations from running at once.                         *)
CONSTANTS
  Token,  \* refresh tokens
  None,   \* a missing file
  Cut     \* a file without all its bytes: no readable credential

Slot == {"active", "staged"}
Tmp == [active |-> "active.tmp", staged |-> "staged.tmp"]
Name == Slot \cup {Tmp[s] : s \in Slot}
Content == Token \cup {None, Cut}
Directory == [Name -> Content]

ASSUME ContentAssumption ==
  /\ None \notin Token /\ Cut \notin Token /\ None # Cut
  /\ Token \cap Slot = {}

VARIABLES
  dir,      \* the directory as processes see it
  dirty,    \* the names in it whose bytes are not on disk
  kept,     \* the directories a power loss may leave
  call,     \* the operation in progress and its next system call
  promised  \* history: tokens a write has returned for, until they are given up

diskVars == <<dir, dirty, kept>>
durableVars == <<diskVars, call, promised>>

Operation == {"none", "stage", "promote", "write_active", "discard_staged", "remove_active"}
Syscall == {"none", "open", "write", "fsync", "replace", "sync", "unlink", "sync_unlinked"}
NoCall == [op |-> "none", slot |-> "active", token |-> None, next |-> "none"]

DurableTypeOK ==
  /\ dir \in Directory
  /\ dirty \subseteq Name
  /\ kept \subseteq Directory /\ kept # {}
  /\ call \in [op: Operation, slot: Slot, token: Token \cup {None}, next: Syscall]
  /\ promised \subseteq Token

DurableInit ==
  /\ dir = [n \in Name |-> None]
  /\ dirty = {}
  /\ kept = {dir}
  /\ call = NoCall
  /\ promised = {}

--------------------------------------------------------------------------------
Free == call.op = "none"

Goes(next) == call' = [call EXCEPT !.next = next]

Begin(op, slot, token, next) ==
  /\ Free
  /\ call' = [op |-> op, slot |-> slot, token |-> token, next |-> next]
  /\ UNCHANGED diskVars

(* What a power loss leaves of a directory: dirty bytes may be gone.           *)
OnDisk(d, unsynced) == [n \in Name |-> IF n \in unsynced THEN Cut ELSE d[n]]

Changes(d, unsynced) ==
  /\ dir' = d
  /\ dirty' = unsynced
  /\ kept' = kept \cup {OnDisk(d, unsynced)}

(* The operations, as the flow calls them: a stage only into an empty slot, a  *)
(* promotion of what the slot holds, the two removals, and the write-back of a *)
(* v1 credential that records no account.  Dropping a token gives it up, unless*)
(* the drop is of the residue a promotion left in the slot.                    *)
Stage(t) ==
  /\ dir["staged"] = None
  /\ \A n \in Name : dir[n] # t
  /\ t \notin promised
  /\ Begin("stage", "staged", t, "open")
  /\ UNCHANGED promised

Promote ==
  /\ dir["staged"] \in Token
  /\ dir["staged"] # dir["active"]
  /\ Begin("promote", "active", dir["staged"], "open")
  /\ UNCHANGED promised

DiscardStaged ==
  /\ dir["staged"] # None
  /\ Begin("discard_staged", "staged", None, "unlink")
  /\ promised' = promised \ ({dir["staged"]} \ {dir["active"]})

Migrate ==
  /\ dir["active"] \in Token
  /\ Begin("write_active", "active", dir["active"], "open")
  /\ UNCHANGED promised

RemoveActive ==
  /\ dir["active"] # None
  /\ Begin("remove_active", "active", None, "unlink")
  /\ promised' = promised \ {dir["active"]}

--------------------------------------------------------------------------------
(* _durable_write.                                                             *)
Open ==
  /\ call.next = "open"
  /\ Changes([dir EXCEPT ![Tmp[call.slot]] = Cut], dirty \cup {Tmp[call.slot]})
  /\ Goes("write")
  /\ UNCHANGED promised

Write ==
  /\ call.next = "write"
  /\ dir' = [dir EXCEPT ![Tmp[call.slot]] = call.token]
  /\ Goes("fsync")
  /\ UNCHANGED <<dirty, kept, promised>>

(* Mutant of Fsync: the temporary is renamed with its bytes still in memory.   *)
FsyncSkipped ==
  /\ call.next = "fsync"
  /\ Goes("replace")
  /\ UNCHANGED <<diskVars, promised>>

Fsync ==
  /\ call.next = "fsync"
  /\ Changes(dir, dirty \ {Tmp[call.slot]})
  /\ Goes("replace")
  /\ UNCHANGED promised

(* Mutant of Replace: a promotion moves the staged file itself over the active *)
(* one, so that both slots change in one step.                                 *)
ReplaceMovesStaged ==
  /\ call.next = "replace"
  /\ Changes([dir EXCEPT ![call.slot] = call.token, !["staged"] =
                IF call.op = "promote" THEN None ELSE call.token], dirty)
  /\ promised' = promised \ ({dir[call.slot]} \ {call.token})
  /\ Goes("sync")

Replace ==
  /\ call.next = "replace"
  /\ LET tmp == Tmp[call.slot]
         moved == IF tmp \in dirty THEN (dirty \ {tmp}) \cup {call.slot} ELSE dirty
     IN  Changes([dir EXCEPT ![call.slot] = dir[tmp], ![tmp] = None], moved)
  /\ promised' = promised \ ({dir[call.slot]} \ {call.token})
  /\ Goes("sync")

(* The write is over: stage returns, promote goes on to unlink the slot.       *)
Written ==
  /\ call' = IF call.op = "promote" THEN [call EXCEPT !.slot = "staged", !.next = "unlink"]
                                    ELSE NoCall
  /\ promised' = promised \cup {call.token}

(* Mutant of SyncDirectory: the write is over once the rename is.              *)
SyncForgotten ==
  /\ call.next = "sync"
  /\ Written
  /\ UNCHANGED diskVars

(* _fsync_dir after a rename.                                                  *)
SyncDirectory ==
  /\ call.next = "sync"
  /\ kept' = {OnDisk(dir, dirty)}
  /\ Written
  /\ UNCHANGED <<dir, dirty>>

(* discard_staged and remove_active: a file that is gone already needs no sync.*)
Unlink ==
  /\ call.next = "unlink"
  /\ \/ /\ dir[call.slot] # None
        /\ Changes([dir EXCEPT ![call.slot] = None], dirty \ {call.slot})
        /\ Goes("sync_unlinked")
        /\ UNCHANGED promised
     \/ /\ dir[call.slot] = None
        /\ call' = NoCall
        /\ UNCHANGED <<diskVars, promised>>

SyncUnlinked ==
  /\ call.next = "sync_unlinked"
  /\ kept' = {OnDisk(dir, dirty)}
  /\ call' = NoCall
  /\ UNCHANGED <<dir, dirty, promised>>

(* A system call raises before it has done anything, or the process is killed  *)
(* between two of them: the temporary and the slot stay as they are.           *)
BreakOff ==
  /\ ~Free
  /\ call' = NoCall
  /\ UNCHANGED <<diskVars, promised>>

PowerLoss ==
  /\ \E d \in kept : dir' = d /\ kept' = {d}
  /\ dirty' = {}
  /\ call' = NoCall
  /\ UNCHANGED promised

SignIn == (\E t \in Token : Stage(t)) \/ Promote \/ DiscardStaged \/ RemoveActive

Operate == SignIn \/ Migrate

Continue == Open \/ Write \/ Fsync \/ Replace \/ SyncDirectory \/ Unlink \/ SyncUnlinked

Proceed == Continue \/ BreakOff

DurableNext == Operate \/ Proceed \/ PowerLoss

DurableSpec == DurableInit /\ [][DurableNext]_durableVars

--------------------------------------------------------------------------------
(* Properties.                                                                 *)

(* The one refresh token a spent code was exchanged for is never lost once     *)
(* stage() has returned: whatever fails, is killed or loses power, until the   *)
(* flow gives the token up, every state the disk may come back in has it whole *)
(* in the staged slot or in the active one (casa's ack relies on it).          *)
PromisedSurvives ==
  \A t \in promised, d \in kept \cup {dir} : t \in {d[s] : s \in Slot}

(* Neither slot is ever seen, or found after a power loss, without all its     *)
(* bytes (credential_files' caution is about the temporaries).                 *)
SlotsNeverTorn == \A d \in kept \cup {dir}, s \in Slot : d[s] # Cut

(* The slots implement the abstract store.                                     *)
SlotsOf(d) == [s \in Slot |-> d[s]]

Abstract == INSTANCE AtomicStore
  WITH store <- SlotsOf(dir), survivors <- {SlotsOf(d) : d \in kept}

ImplementsAtomicStore == Abstract!StoreSpec

(* The inductive invariant: what a synchronised directory would keep is among  *)
(* the survivors, no slot is dirty, a temporary about to be renamed has the    *)
(* call's bytes on disk, and a slot about to be unlinked holds no promised     *)
(* token that the other slot does not hold.                                    *)
WriteInv ==
  /\ call.next \in {"open", "write", "fsync", "replace", "sync"} =>
       /\ call.token \in Token
       /\ \/ call.op = "stage" /\ call.slot = "staged"
          \/ call.op = "write_active" /\ call.slot = "active"
          \/ call.op = "promote" /\ call.slot = "active" /\ dir["staged"] = call.token
  /\ call.next = "write" => Tmp[call.slot] \in dirty
  /\ call.next \in {"fsync", "replace"} => dir[Tmp[call.slot]] = call.token
  /\ call.next = "replace" => Tmp[call.slot] \notin dirty
  /\ call.next = "sync" => dir[call.slot] = call.token

UnlinkInv ==
  call.next = "unlink" /\ dir[call.slot] \in promised =>
    \E s \in Slot : s # call.slot /\ dir[s] = dir[call.slot]

DiskInv ==
  /\ dirty \cap Slot = {}
  /\ OnDisk(dir, dirty) \in kept

DurableInv ==
  /\ DurableTypeOK
  /\ DiskInv
  /\ WriteInv
  /\ UnlinkInv
  /\ SlotsNeverTorn
  /\ PromisedSurvives
================================================================================
