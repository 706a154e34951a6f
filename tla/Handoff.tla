--------------------------------- MODULE Handoff -------------------------------
(* server/casa_handoff.py: the folder through which a file moves from one      *)
(* plugin to another.  A producer counts what the folder holds, writes its file*)
(* in a staging directory, synchronises it and renames the directory to its    *)
(* final name; a consumer checks the path's layout, opens the file, checks what*)
(* it opened and reads it.  Nothing is locked: the producers and consumers are *)
(* any plugins' processes, and Casa sweeps old files away.                     *)
EXTENDS Integers, FiniteSets

CONSTANTS
  Producer,         \* processes that publish, one file at a time
  Consumer,         \* processes that capture
  Id,               \* publications
  NoId,             \* no publication
  MAX_FILE_BYTES,   \* the limit of a file, in units
  MAX_TOTAL_BYTES   \* the limit of the folder

ASSUME HandoffAssumption ==
  /\ MAX_FILE_BYTES \in Nat /\ MAX_TOTAL_BYTES \in Nat
  /\ NoId \notin Id

VARIABLES
  home,     \* the producers' directory, which all of them share
  place,    \* where the directory of a publication is
  size,     \* the bytes its file is to have
  written,  \* the bytes its file has
  synced,   \* what of it has been synchronised
  pub,      \* what each producer is doing
  take,     \* what each consumer is doing
  handed    \* history: publications whose path was returned and is to last

folderVars == <<home, place, size, written, synced>>
handoffVars == <<folderVars, pub, take, handed>>

Place == {"unused", "staging", "published", "gone"}
Mark == {"bytes", "entry", "rename"}
InFolder == {"staging", "published"}
Listed == Id \X InFolder

NoPub == [at |-> "idle", id |-> NoId, listing |-> {}, counted |-> 0]
NoTake == [at |-> "idle", id |-> NoId, path |-> "published", got |-> 0]

PubStep == {"idle", "list", "count", "make", "write", "sync_file", "sync_staging", "rename",
            "sync_home"}
PubState == [at: PubStep, id: Id \cup {NoId}, listing: SUBSET Listed, counted: Nat]
TakeStep == {"idle", "open", "stat", "read", "done"}
TakeState == [at: TakeStep, id: Id \cup {NoId}, path: InFolder, got: 0..MAX_FILE_BYTES]

HandoffTypeOK ==
  /\ home \in {"absent", "new", "durable"}
  /\ place \in [Id -> Place]
  /\ size \in [Id -> 0..MAX_FILE_BYTES]
  /\ written \in [Id -> 0..MAX_FILE_BYTES]
  /\ synced \in [Id -> SUBSET Mark]
  /\ pub \in [Producer -> PubState]
  /\ take \in [Consumer -> TakeState]
  /\ handed \subseteq Id

HandoffInit ==
  /\ home \in {"absent", "durable"}
  /\ place = [i \in Id |-> "unused"]
  /\ size = [i \in Id |-> 0] /\ written = size
  /\ synced = [i \in Id |-> {}]
  /\ pub = [p \in Producer |-> NoPub]
  /\ take = [c \in Consumer |-> NoTake]
  /\ handed = {}

--------------------------------------------------------------------------------
(* publish.                                                                    *)
At(p, at) == pub[p].at = at

Goes(p, at) == pub' = [pub EXCEPT ![p].at = at]

(* Mutant of FitsFile: no limit on the file.                                   *)
FitsAny(bytes) == bytes \in Nat

FitsFile(bytes) == bytes <= MAX_FILE_BYTES

(* A call with its bytes in hand; a larger file is refused before anything.    *)
Publish(p) ==
  /\ At(p, "idle")
  /\ \E i \in Id, n \in 0..MAX_FILE_BYTES + 1 :
       /\ FitsFile(n)
       /\ place[i] = "unused" /\ \A q \in Producer : pub[q].id # i
       /\ size' = [size EXCEPT ![i] = n]
       /\ pub' = [pub EXCEPT ![p] = [NoPub EXCEPT !.at = "list", !.id = i]]
  /\ UNCHANGED <<home, place, written, synced, take, handed>>

(* _folder_bytes lists a directory and then visits what it listed; an entry    *)
(* that is no longer where it was listed is passed over.                       *)
ListFolder(p) ==
  /\ At(p, "list")
  /\ pub' = [pub EXCEPT ![p].at = "count",
               ![p].listing = {e \in Listed : place[e[1]] = e[2]}]
  /\ UNCHANGED <<folderVars, take, handed>>

CountEntry(p) ==
  /\ At(p, "count")
  /\ \E e \in pub[p].listing :
       pub' = [pub EXCEPT ![p].listing = @ \ {e},
                 ![p].counted = @ + IF place[e[1]] = e[2] THEN written[e[1]] ELSE 0]
  /\ UNCHANGED <<folderVars, take, handed>>

(* Mutant of HasRoom: the file itself is not counted.                          *)
HasRoomBefore(counted, bytes) == counted <= MAX_TOTAL_BYTES

(* _check_room.  The reserve of free space is the disk's business: it may      *)
(* refuse any file.                                                            *)
HasRoom(counted, bytes) == counted + bytes <= MAX_TOTAL_BYTES

CheckRoom(p) ==
  /\ At(p, "count") /\ pub[p].listing = {}
  /\ \/ HasRoom(pub[p].counted, size[pub[p].id]) /\ Goes(p, "make")
     \/ pub' = [pub EXCEPT ![p] = NoPub]
  /\ UNCHANGED <<folderVars, take, handed>>

MakeStaging(p) ==
  /\ At(p, "make")
  /\ home' = IF home = "absent" THEN "new" ELSE home
  /\ place' = [place EXCEPT ![pub[p].id] = "staging"]
  /\ Goes(p, "write")
  /\ UNCHANGED <<size, written, synced, take, handed>>

WriteBytes(p) ==
  /\ At(p, "write")
  /\ LET i == pub[p].id
     IN  \/ /\ written[i] < size[i]
            /\ written' = [written EXCEPT ![i] = @ + 1]
            /\ UNCHANGED pub
         \/ /\ written[i] = size[i]
            /\ Goes(p, "sync_file")
            /\ UNCHANGED written
  /\ UNCHANGED <<home, place, size, synced, take, handed>>

Syncs(p, mark) == synced' = [synced EXCEPT ![pub[p].id] = @ \cup {mark}]

(* Mutant of SyncFile: the bytes are left to the kernel.                       *)
SyncFileSkipped(p) ==
  /\ At(p, "sync_file")
  /\ Goes(p, "sync_staging")
  /\ UNCHANGED <<folderVars, take, handed>>

SyncFile(p) ==
  /\ At(p, "sync_file")
  /\ Syncs(p, "bytes")
  /\ Goes(p, "sync_staging")
  /\ UNCHANGED <<home, place, size, written, take, handed>>

SyncStaging(p) ==
  /\ At(p, "sync_staging")
  /\ Syncs(p, "entry")
  /\ Goes(p, "rename")
  /\ UNCHANGED <<home, place, size, written, take, handed>>

Rename(p) ==
  /\ At(p, "rename")
  /\ place' = [place EXCEPT ![pub[p].id] = "published"]
  /\ Goes(p, "sync_home")
  /\ UNCHANGED <<home, size, written, synced, take, handed>>

(* Mutant of SyncHome: the path is returned as soon as it exists.              *)
SyncHomeSkipped(p) ==
  /\ At(p, "sync_home")
  /\ handed' = handed \cup {pub[p].id}
  /\ pub' = [pub EXCEPT ![p] = NoPub]
  /\ UNCHANGED <<folderVars, take>>

(* The directory that holds the publication is synchronised and its path       *)
(* returned.                                                                   *)
SyncHome(p) ==
  /\ At(p, "sync_home")
  /\ Syncs(p, "rename")
  /\ handed' = handed \cup {pub[p].id}
  /\ pub' = [pub EXCEPT ![p] = NoPub]
  /\ UNCHANGED <<home, place, size, written, take>>

Writing == {"make", "write", "sync_file", "sync_staging", "rename", "sync_home"}

(* A system call fails: what is staged is removed, as far as that works; what  *)
(* is renamed stays.                                                           *)
StorageFails(p) ==
  /\ pub[p].at \in Writing
  /\ LET i == pub[p].id
     IN  \/ place[i] = "staging" /\ place' = [place EXCEPT ![i] = "gone"]
         \/ UNCHANGED place
  /\ pub' = [pub EXCEPT ![p] = NoPub]
  /\ UNCHANGED <<home, size, written, synced, take, handed>>

ProducerCrash(p) ==
  /\ ~At(p, "idle")
  /\ pub' = [pub EXCEPT ![p] = NoPub]
  /\ UNCHANGED <<folderVars, take, handed>>

--------------------------------------------------------------------------------
(* capture.  The agent passes a path: one that was returned to it, or one it   *)
(* saw or made up, of a publication in progress for instance.                  *)
Path(i) == {<<i, "published">>, <<i, "staging">>}

LayoutOK(path) == path[2] = "published"

Refuse(c) == take' = [take EXCEPT ![c] = NoTake]

CaptureCall(c) ==
  /\ take[c].at = "idle"
  /\ \E i \in Id : \E path \in Path(i) :
       /\ LayoutOK(path)
       /\ take' = [take EXCEPT ![c] = [NoTake EXCEPT !.at = "open", !.id = i, !.path = path[2]]]
  /\ UNCHANGED <<folderVars, pub, handed>>

(* read_regular: from here on the consumer holds the file, not the path.       *)
OpenFile(c) ==
  /\ take[c].at = "open"
  /\ IF place[take[c].id] = take[c].path THEN take' = [take EXCEPT ![c].at = "stat"]
                                         ELSE Refuse(c)
  /\ UNCHANGED <<folderVars, pub, handed>>

(* A file the sweep has unlinked since has no link left and is refused.        *)
StatFile(c) ==
  /\ take[c].at = "stat"
  /\ IF place[take[c].id] \in InFolder THEN take' = [take EXCEPT ![c].at = "read"]
                                       ELSE Refuse(c)
  /\ UNCHANGED <<folderVars, pub, handed>>

ReadFile(c) ==
  /\ take[c].at = "read"
  /\ take' = [take EXCEPT ![c].at = "done", ![c].got = written[take[c].id]]
  /\ UNCHANGED <<folderVars, pub, handed>>

UseFile(c) ==
  /\ take[c].at = "done"
  /\ Refuse(c)
  /\ UNCHANGED <<folderVars, pub, handed>>

--------------------------------------------------------------------------------
InProgress(i) == \E p \in Producer : pub[p].id = i

(* Casa removes what is older than the retention.                              *)
Sweep(i) ==
  /\ place[i] \in InFolder /\ ~InProgress(i)
  /\ place' = [place EXCEPT ![i] = "gone"]
  /\ handed' = handed \ {i}
  /\ UNCHANGED <<home, size, written, synced, pub, take>>

(* The kernel writes the new directory back in its own time.                   *)
WriteBack ==
  /\ home = "new"
  /\ home' = "durable"
  /\ UNCHANGED <<place, size, written, synced, pub, take, handed>>

(* What a power loss may leave of a publication: until the producers' directory*)
(* is synchronised its directory may be at its staging name, or missing; bytes *)
(* or an entry not synchronised may be missing.  A new home may be gone with   *)
(* all it holds, what was returned since it was made included: publish does not*)
(* synchronise the folder that os.makedirs put it in.                          *)
MayBeAt(i) ==
  {place[i]} \cup
    IF place[i] \in InFolder /\ "rename" \notin synced[i] THEN {"staging", "gone"} ELSE {}

MayHave(i) == IF {"bytes", "entry"} \subseteq synced[i] THEN {written[i]} ELSE 0..written[i]

PowerLoss ==
  /\ \/ /\ place' \in [Id -> Place] /\ \A i \in Id : place'[i] \in MayBeAt(i)
        /\ UNCHANGED <<home, handed>>
     \/ /\ home = "new"
        /\ place' = [i \in Id |-> IF place[i] \in InFolder THEN "gone" ELSE place[i]]
        /\ home' = "absent" /\ handed' = {}
  /\ written' \in [Id -> 0..MAX_FILE_BYTES] /\ \A i \in Id : written'[i] \in MayHave(i)
  /\ synced' = [i \in Id |-> IF place'[i] \in InFolder THEN Mark ELSE {}]
  /\ pub' = [p \in Producer |-> NoPub]
  /\ take' = [c \in Consumer |-> NoTake]
  /\ UNCHANGED size

ProducerStep(p) ==
  \/ Publish(p) \/ ListFolder(p) \/ CountEntry(p) \/ CheckRoom(p)
  \/ MakeStaging(p) \/ WriteBytes(p) \/ SyncFile(p) \/ SyncStaging(p) \/ Rename(p) \/ SyncHome(p)
  \/ StorageFails(p) \/ ProducerCrash(p)

ConsumerStep(c) == CaptureCall(c) \/ OpenFile(c) \/ StatFile(c) \/ ReadFile(c) \/ UseFile(c)

HandoffNext ==
  \/ \E p \in Producer : ProducerStep(p)
  \/ \E c \in Consumer : ConsumerStep(c)
  \/ (\E i \in Id : Sweep(i)) \/ WriteBack \/ PowerLoss

HandoffSpec == HandoffInit /\ [][HandoffNext]_handoffVars

--------------------------------------------------------------------------------
(* Properties.                                                                 *)

(* What a consumer took is the whole file its producer published, whatever was *)
(* being written, swept, cut off or lost to a power failure meanwhile.         *)
CapturedIsWhole == \A c \in Consumer : take[c].at = "done" => take[c].got = size[take[c].id]

(* The files in the folder, and the bytes of a set of files of which this much *)
(* is written, each byte told by its file and its position.                    *)
Folder == {i \in Id : place[i] \in InFolder}
Bytes(ids, have) == {x \in ids \X (1..MAX_FILE_BYTES) : x[2] <= have[x[1]]}

(* The limit of the whole folder is enforced by each producer before it writes:*)
(* not atomically, and with a count that passes over files that move under it. *)
(* Still the folder never exceeds the limit by more than one file of each      *)
(* producer but one: with one producer, never.                                 *)
OverrunIsBounded ==
  Cardinality(Bytes(Folder, written))
    <= MAX_TOTAL_BYTES + (Cardinality(Producer) - 1) * MAX_FILE_BYTES

(* Once publish has returned a path, the whole file is found there until Casa  *)
(* sweeps it, through any power loss, save one that takes the producers' whole *)
(* directory because it had only just been made.                               *)
PublishedIsDurable ==
  \A i \in handed : place[i] = "published" /\ written[i] = size[i]

--------------------------------------------------------------------------------
(* The inductive invariant of the proofs.                                      *)
(* How far a producer is tells what there is of its publication, and no two    *)
(* producers write one publication.                                            *)
ProducerInv ==
  \A p \in Producer :
    /\ pub[p].at = "idle" <=> pub[p].id = NoId
    /\ \A q \in Producer : pub[p].id = pub[q].id /\ pub[p].id \in Id => p = q
    /\ pub[p].at \in {"list", "count", "make"} => place[pub[p].id] = "unused"
    /\ pub[p].at \in {"write", "sync_file", "sync_staging", "rename"} =>
         place[pub[p].id] = "staging"
    /\ pub[p].at \in {"sync_file", "sync_staging", "rename", "sync_home"} =>
         written[pub[p].id] = size[pub[p].id]
    /\ pub[p].at \in {"sync_staging", "rename", "sync_home"} => "bytes" \in synced[pub[p].id]
    /\ pub[p].at \in {"rename", "sync_home"} => "entry" \in synced[pub[p].id]
    /\ pub[p].at = "sync_home" => place[pub[p].id] = "published"

(* What has its final name is whole and on disk.                               *)
PublishedInv ==
  \A i \in Id : place[i] = "published" =>
    written[i] = size[i] /\ {"bytes", "entry"} \subseteq synced[i]

(* A consumer passed a published path, and the file it holds, swept or not,    *)
(* was published.                                                              *)
ConsumerInv ==
  \A c \in Consumer :
    /\ take[c].at # "idle" => take[c].id \in Id /\ take[c].path = "published"
    /\ take[c].at \in {"stat", "read", "done"} =>
         /\ place[take[c].id] \in {"published", "gone"}
         /\ written[take[c].id] = size[take[c].id]
    /\ take[c].at = "done" => take[c].got = size[take[c].id]

HandoffInv == HandoffTypeOK /\ ProducerInv /\ PublishedInv /\ ConsumerInv

(* What was returned has its final name, and has it on disk.                   *)
HandedInv == \A i \in handed : place[i] = "published" /\ "rename" \in synced[i]
================================================================================
