------------------------------- MODULE Attachments ------------------------------
(* server/attachments.py: the plugin's own files.  save_attachment copies a    *)
(* downloaded file into saved/, in place and with nothing locked: it checks    *)
(* that the destination is free, opens it, which truncates it, and writes.     *)
(* A timer removes the files of the old cache.  What capture and read_regular  *)
(* do with a source is Handoff's subject; here a source is readable or gone.   *)
EXTENDS FiniteSets

CONSTANTS
  Server,   \* server processes, each running one tool at a time
  File,     \* contents that were downloaded
  Dest,     \* destinations under saved/
  Outside,  \* a destination that escapes it
  None,     \* no file
  Broken    \* a file that is empty, cut short or a mixture of two

ASSUME AttachAssumption ==
  /\ None \notin File \cup Dest /\ Broken \notin File /\ None # Broken
  /\ Outside \notin Dest

VARIABLES
  source,   \* where each downloaded file is
  saved,    \* what each destination holds
  job,      \* the save each server is in
  answer,   \* what the last save of each server answered
  kept      \* history: what was answered as saved, with no other server about to write there

attachVars == <<source, saved, job, answer, kept>>

Path == Dest \cup {Outside}

NoJob == [at |-> "idle", file |-> None, dest |-> None, overwrite |-> FALSE, alone |-> TRUE]
NoAnswer == [said |-> "nothing", dest |-> None]

AttachTypeOK ==
  /\ source \in [File -> {"handoff", "cache", "expired", "gone"}]
  /\ saved \in [Path -> File \cup {None, Broken}] /\ saved[Outside] = None
  /\ job \in [Server -> [at: {"idle", "read", "check", "open", "write"}, file: File \cup {None},
                         dest: Path \cup {None}, overwrite: BOOLEAN, alone: BOOLEAN]]
  /\ answer \in [Server -> [said: {"nothing", "saved", "exists", "error"}, dest: Path \cup {None}]]
  /\ kept \in [Path -> File \cup {None}]

AttachInit ==
  /\ source \in [File -> {"handoff", "cache"}]
  /\ saved = [d \in Path |-> None]
  /\ job = [s \in Server |-> NoJob]
  /\ answer = [s \in Server |-> NoAnswer]
  /\ kept = [d \in Path |-> None]

--------------------------------------------------------------------------------
(* save_attachment.                                                            *)
At(s, at) == job[s].at = at

Goes(s, at) == job' = [job EXCEPT ![s].at = at] /\ UNCHANGED answer

Answers(s, said) ==
  /\ job' = [job EXCEPT ![s] = NoJob]
  /\ answer' = [answer EXCEPT ![s] = [said |-> said, dest |-> job[s].dest]]

(* A path under saved/ as the source is refused with nothing done.             *)
SaveCall(s) ==
  /\ At(s, "idle")
  /\ \E f \in File, d \in Path, o \in BOOLEAN :
       job' = [job EXCEPT ![s] = [NoJob EXCEPT !.at = "read", !.file = f, !.dest = d,
                                    !.overwrite = o]]
  /\ answer' = [answer EXCEPT ![s] = NoAnswer]
  /\ UNCHANGED <<source, saved, kept>>

ReadSource(s) ==
  /\ At(s, "read")
  /\ IF source[job[s].file] = "gone" THEN Answers(s, "error") ELSE Goes(s, "check")
  /\ UNCHANGED <<source, saved, kept>>

(* Mutant of Inside: the path is joined and used as it is.                     *)
InsideAny(d) == d \in Path

Inside(d) == d \in Dest

(* Mutant of MayWrite: a file that exists is replaced whatever the call says.  *)
AlwaysMayWrite(s) == job[s].overwrite \in BOOLEAN

MayWrite(s) == saved[job[s].dest] = None \/ job[s].overwrite

(* validate_save_destination, and the test of what is there.                   *)
CheckDestination(s) ==
  /\ At(s, "check")
  /\ \/ ~Inside(job[s].dest) /\ Answers(s, "error")
     \/ Inside(job[s].dest) /\ MayWrite(s) /\ Goes(s, "open")
     \/ Inside(job[s].dest) /\ ~MayWrite(s) /\ Answers(s, "exists")
  /\ UNCHANGED <<source, saved, kept>>

WritingThere(q, d) == At(q, "write") /\ job[q].dest = d

(* The destination is created, or emptied; both of two writers are no longer   *)
(* alone.                                                                      *)
OpenDestination(s) ==
  /\ At(s, "open")
  /\ LET d == job[s].dest
     IN  /\ saved' = [saved EXCEPT ![d] = Broken]
         /\ job' = [q \in Server |->
              CASE q = s -> [job[q] EXCEPT !.at = "write",
                               !.alone = \A r \in Server : ~WritingThere(r, d)]
                [] WritingThere(q, d) -> [job[q] EXCEPT !.alone = FALSE]
                [] OTHER -> job[q]]
         /\ kept' = IF job[s].overwrite THEN [kept EXCEPT ![d] = None] ELSE kept
  /\ UNCHANGED <<source, answer>>

(* A save past its check will write, whatever is at its destination by then.   *)
PastCheck(q, d) == job[q].at \in {"open", "write"} /\ job[q].dest = d

WriteDestination(s) ==
  /\ At(s, "write")
  /\ \E c \in IF job[s].alone THEN {job[s].file} ELSE {job[s].file, Broken} :
       saved' = [saved EXCEPT ![job[s].dest] = c]
  /\ LET d == job[s].dest
         contended == ~job[s].alone \/ \E q \in Server \ {s} : PastCheck(q, d)
     IN  kept' = [kept EXCEPT ![d] = IF contended THEN None ELSE job[s].file]
  /\ Answers(s, "saved")
  /\ UNCHANGED source

(* A directory that cannot be made, a full disk: whatever the call has done    *)
(* so far stays.                                                               *)
SaveFails(s) ==
  /\ job[s].at \in {"open", "write"}
  /\ Answers(s, "error")
  /\ UNCHANGED <<source, saved, kept>>

Crash(s) ==
  /\ ~At(s, "idle")
  /\ job' = [job EXCEPT ![s] = NoJob]
  /\ UNCHANGED <<source, saved, answer, kept>>

--------------------------------------------------------------------------------
(* Seven days and a minute pass for a file of the old cache.                   *)
Expires(f) ==
  /\ source[f] = "cache"
  /\ source' = [source EXCEPT ![f] = "expired"]
  /\ UNCHANGED <<saved, job, answer, kept>>

(* _run_cleanup, at startup and from the timer's thread while a tool runs.     *)
CleanUp(f) ==
  /\ source[f] = "expired"
  /\ source' = [source EXCEPT ![f] = "gone"]
  /\ UNCHANGED <<saved, job, answer, kept>>

(* Casa's sweep of the handoff folder.                                         *)
Sweep(f) ==
  /\ source[f] = "handoff"
  /\ source' = [source EXCEPT ![f] = "gone"]
  /\ UNCHANGED <<saved, job, answer, kept>>

SaveStep(s) ==
  \/ SaveCall(s) \/ ReadSource(s) \/ CheckDestination(s) \/ OpenDestination(s)
  \/ WriteDestination(s) \/ SaveFails(s) \/ Crash(s)

AttachNext ==
  \/ \E s \in Server : SaveStep(s)
  \/ \E f \in File : Expires(f) \/ CleanUp(f) \/ Sweep(f)

AttachSpec == AttachInit /\ [][AttachNext]_attachVars

--------------------------------------------------------------------------------
(* Properties.                                                                 *)

(* A file that was answered as saved is there, whole, until a call with        *)
(* overwrite replaces it: whatever sources expire meanwhile and however many   *)
(* other saves fail or die half way.  The exception is the one the code leaves *)
(* open: another server that was past its check of the same destination, or    *)
(* writing there, when the file was answered as saved.                         *)
SavedIsKept == \A d \in Dest : kept[d] # None => saved[d] = kept[d]
================================================================================
