--------------------------------- MODULE Erasure -------------------------------
(* server/erasure.py over the credential store of DurableStore: the eraser     *)
(* holds the collect lock, reads every credential file, asks Google to revoke  *)
(* each token, and deletes what it need not keep, while other sessions of the  *)
(* plugin go on saving data, calls fail and the machine may stop.              *)
EXTENDS DurableStore, Naturals

CONSTANTS
  Kind,      \* the erasers the operator chooses from
  MaxFaults  \* bound on failures, kills, power losses and other sessions' saves

ASSUME EraseAssumption ==
  /\ Kind \subseteq {"everything", "data"}
  /\ MaxFaults \in Nat
  /\ Token \cap Name = {}

(* What else the directory holds; only the walk deletes the last two, and only *)
(* the sign-in code writes the first.                                          *)
Other == {"notices", "sent_log", "saved"}

(* Mutant of SIGN_IN_FILES: the staged slot is left out.                       *)
SignInFilesWithoutStage == {"active", "notices"}

SIGN_IN_FILES == Slot \cup {"notices"}

VARIABLES
  live,    \* refresh tokens Google honours
  unused,  \* refresh tokens Google has not issued yet
  others,  \* the entries of Other in the directory
  erase,   \* the erase in progress
  answer,  \* what the last erase answered
  faults   \* failures so far

eraseVars == <<durableVars, live, unused, others, erase, answer, faults>>

Idle == [at |-> "idle", kind |-> "data", keep |-> {}, todo |-> {}, failed |-> FALSE,
         unreadable |-> FALSE, errors |-> FALSE, found |-> {}]

EraseTypeOK ==
  /\ DurableTypeOK
  /\ live \subseteq Token /\ unused \subseteq Token \ live
  /\ others \subseteq Other
  /\ erase \in [at: {"idle", "read", "revoke", "forget", "walk"}, kind: Kind \cup {"data"},
                keep: SUBSET (Name \cup Other), todo: SUBSET (Token \cup Name \cup Other),
                failed: BOOLEAN, unreadable: BOOLEAN, errors: BOOLEAN, found: SUBSET Token]
  /\ answer \in {"none", "complete", "incomplete"}
  /\ faults \in 0..MaxFaults

EraseInit ==
  /\ DurableInit
  /\ live = {} /\ unused = Token
  /\ others = Other
  /\ erase = Idle /\ answer = "none"
  /\ faults = 0

--------------------------------------------------------------------------------
Fault == faults < MaxFaults /\ faults' = faults + 1

NoFault == UNCHANGED faults

Present(d) == {n \in Name : d[n] # None}

(* The sign-in flow writes the store while it holds the collect lock; Google   *)
(* issues a token before it is staged.                                         *)
SignInStep ==
  /\ erase.at = "idle"
  /\ \/ \E t \in unused : Stage(t) /\ live' = live \cup {t} /\ unused' = unused \ {t} /\ NoFault
     \/ (Promote \/ Migrate \/ DiscardStaged \/ RemoveActive)
          /\ UNCHANGED <<live, unused>> /\ NoFault
     \/ Continue /\ UNCHANGED <<live, unused>> /\ NoFault
     \/ BreakOff /\ UNCHANGED <<live, unused>> /\ Fault
  /\ answer' = "none"
  /\ UNCHANGED <<others, erase>>

--------------------------------------------------------------------------------
(* erase: the lock is taken, or the call ends as incomplete.                   *)
EraseBegins(kind) ==
  /\ erase.at = "idle" /\ Free
  /\ erase' = [Idle EXCEPT !.kind = kind,
                 !.at = IF kind = "data" THEN "forget" ELSE "read",
                 !.keep = IF kind = "data" THEN SIGN_IN_FILES ELSE {}]
  /\ answer' = "none" /\ NoFault
  /\ UNCHANGED <<durableVars, live, unused, others>>

EraseContended ==
  /\ erase.at = "idle" /\ ~Free
  /\ answer' = "incomplete" /\ NoFault
  /\ UNCHANGED <<durableVars, live, unused, others, erase>>

(* Mutant of ReadCredentials: whatever is in a file is offered as a token.     *)
ReadCredentialsAsTokens ==
  /\ erase.at = "read"
  /\ erase' = [erase EXCEPT !.at = "revoke", !.todo = {dir[n] : n \in Present(dir)},
                            !.found = {dir[n] : n \in Present(dir)} \ {Cut}]
  /\ NoFault
  /\ UNCHANGED <<durableVars, live, unused, others, answer>>

(* credential_files, and what the eraser makes of it: a file it cannot read is *)
(* kept and never offered to Google.                                           *)
ReadCredentials ==
  /\ erase.at = "read"
  /\ \E broken \in SUBSET {n \in Name : dir[n] \in Token} :
       LET unreadable == broken \cup {n \in Name : dir[n] = Cut}
       IN  /\ IF broken = {} THEN NoFault ELSE Fault
           /\ erase' = [erase EXCEPT !.at = "revoke", !.keep = unreadable,
                          !.unreadable = unreadable # {},
                          !.todo = {dir[n] : n \in Present(dir) \ unreadable},
                          !.found = {dir[n] : n \in Present(dir)} \ {Cut}]
  /\ UNCHANGED <<durableVars, live, unused, others, answer>>

(* revoke_token, one token at a time.  Google ends every token of the grant a  *)
(* revoked one belongs to; the answer may be lost on its way back.             *)
GrantEnds(t) ==
  \E ended \in SUBSET live :
    /\ t \in ended
    /\ live' = live \ ended
    /\ promised' = promised \ ended

Revoked(t) ==
  /\ erase.at = "revoke" /\ t \in erase.todo
  /\ t \in live
  /\ GrantEnds(t)
  /\ erase' = [erase EXCEPT !.todo = @ \ {t}] /\ NoFault
  /\ UNCHANGED <<diskVars, call, unused, others, answer>>

(* Mutant of AlreadyInvalid: only a 200 counts as revoked.                     *)
AlreadyInvalidFails(t) ==
  /\ erase.at = "revoke" /\ t \in erase.todo
  /\ t \notin live
  /\ erase' = [erase EXCEPT !.todo = @ \ {t}, !.failed = TRUE,
                 !.keep = @ \cup {n \in Name : dir[n] = t}] /\ NoFault
  /\ UNCHANGED <<durableVars, live, unused, others, answer>>

AlreadyInvalid(t) ==
  /\ erase.at = "revoke" /\ t \in erase.todo
  /\ t \notin live
  /\ promised' = promised \ {t}
  /\ erase' = [erase EXCEPT !.todo = @ \ {t}] /\ NoFault
  /\ UNCHANGED <<diskVars, call, live, unused, others, answer>>

(* Mutant of Unconfirmed: only one file of a token is kept.                    *)
UnconfirmedKeepsOne(t) ==
  /\ erase.at = "revoke" /\ t \in erase.todo
  /\ GrantEnds(t) \/ UNCHANGED <<live, promised>>
  /\ \E n \in Name : dir[n] = t /\ erase' = [erase EXCEPT !.todo = @ \ {t}, !.failed = TRUE,
                                               !.keep = @ \cup {n}]
  /\ Fault
  /\ UNCHANGED <<diskVars, call, unused, others, answer>>

Unconfirmed(t) ==
  /\ erase.at = "revoke" /\ t \in erase.todo
  /\ GrantEnds(t) \/ UNCHANGED <<live, promised>>
  /\ erase' = [erase EXCEPT !.todo = @ \ {t}, !.failed = TRUE,
                 !.keep = @ \cup {n \in Name : dir[n] = t}]
  /\ Fault
  /\ UNCHANGED <<diskVars, call, unused, others, answer>>

AllAsked ==
  /\ erase.at = "revoke" /\ erase.todo = {}
  /\ erase' = [erase EXCEPT !.at = "forget"] /\ NoFault
  /\ UNCHANGED <<durableVars, live, unused, others, answer>>

(* before_delete forgets the sent log, unless this server never loaded one;    *)
(* the walk then lists the directory.                                          *)
ForgetAndList ==
  /\ erase.at = "forget"
  /\ \/ others' = others \ {"sent_log"}
     \/ others' = others
  /\ erase' = [erase EXCEPT !.at = "walk",
                 !.todo = (Present(dir) \cup others') \ erase.keep]
  /\ NoFault
  /\ UNCHANGED <<durableVars, live, unused, answer>>

(* One entry of the walk, in any order (the code sorts them).  An unlink here  *)
(* is not followed by an fsync of the directory.                               *)
RemoveEntry(n) ==
  /\ erase.at = "walk" /\ n \in erase.todo
  /\ \/ /\ n \in Present(dir)
        /\ Changes([dir EXCEPT ![n] = None], dirty \ {n})
        /\ erase' = [erase EXCEPT !.todo = @ \ {n}] /\ NoFault
        /\ UNCHANGED others
     \/ /\ n \in others
        /\ others' = others \ {n}
        /\ erase' = [erase EXCEPT !.todo = @ \ {n}] /\ NoFault
        /\ UNCHANGED diskVars
     \/ /\ IF n \in Present(dir) \cup others THEN Fault ELSE NoFault
        /\ erase' = [erase EXCEPT !.todo = @ \ {n}, !.errors = TRUE]
        /\ UNCHANGED <<diskVars, others>>
  /\ UNCHANGED <<call, promised, live, unused, answer>>

(* Mutant of Complete: nothing is looked for once the walk is over.            *)
CompleteUnchecked == ~erase.failed /\ ~erase.unreadable /\ ~erase.errors

Complete ==
  /\ ~erase.failed /\ ~erase.unreadable /\ ~erase.errors
  /\ (Present(dir) \cup others) \ erase.keep = {}

(* The walk is over: what is left is listed and the call answered.             *)
Report ==
  /\ erase.at = "walk" /\ erase.todo = {}
  /\ answer' = IF Complete THEN "complete" ELSE "incomplete"
  /\ erase' = Idle /\ NoFault
  /\ UNCHANGED <<durableVars, live, unused, others>>

EraserStep ==
  \/ ReadCredentials \/ AllAsked \/ ForgetAndList \/ Report
  \/ \E t \in Token : Revoked(t) \/ AlreadyInvalid(t) \/ Unconfirmed(t)
  \/ \E n \in Name \cup Other : RemoveEntry(n)

--------------------------------------------------------------------------------
(* The eraser's process is killed, or an error none of its handlers expects    *)
(* ends the call; the lock goes with it.                                       *)
EraseDies ==
  /\ erase.at # "idle"
  /\ erase' = Idle
  /\ Fault
  /\ UNCHANGED <<durableVars, live, unused, others, answer>>

(* Another session saves an attachment or records a send, or clears one away.  *)
OtherSession ==
  /\ \E o \in Other \ {"notices"} :
       others' = IF o \in others THEN others \ {o} ELSE others \cup {o}
  /\ answer' = "none"
  /\ Fault
  /\ UNCHANGED <<durableVars, live, unused, erase>>

(* The user withdraws a grant at Google.                                       *)
Withdrawn ==
  /\ \E t \in live : GrantEnds(t)
  /\ Fault
  /\ UNCHANGED <<diskVars, call, unused, others, erase, answer>>

PowerFails ==
  /\ PowerLoss
  /\ erase' = Idle /\ answer' = answer
  /\ Fault
  /\ UNCHANGED <<live, unused, others>>

EraseNext ==
  \/ SignInStep
  \/ (\E kind \in Kind : EraseBegins(kind)) \/ EraseContended \/ EraserStep
  \/ EraseDies \/ OtherSession \/ Withdrawn \/ PowerFails

EraseSpec == EraseInit /\ [][EraseNext]_eraseVars

(* The sign-in calls and the eraser run on while their process lives, and the  *)
(* operator repeats an erase that did not complete.                            *)
EraseLiveSpec ==
  /\ EraseSpec
  /\ WF_eraseVars(SignInStep /\ Continue)
  /\ WF_eraseVars(EraserStep)
  /\ WF_eraseVars(answer # "complete" /\ \E kind \in Kind : EraseBegins(kind))

--------------------------------------------------------------------------------
(* Properties.                                                                 *)

(* erase_everything deletes no file that may be the last copy of a grant Google*)
(* still honours: not one whose revocation was refused or went unanswered, in  *)
(* whichever of the four files the token is, and not one it cannot read.       *)
NoLiveTokenErased ==
  [][erase.kind = "everything" /\ erase.at = "walk" /\ erase'.at = "walk" =>
       \A n \in Present(dir) \ Present(dir') : dir[n] \in Token \ live]_eraseVars

(* "complete" lets Casa remove the plugin: nothing of the chosen kind is left, *)
(* whatever other sessions did during the walk, and no grant that was stored   *)
(* when the erase began is live.                                               *)
CompleteIsTrue ==
  [][answer # "complete" /\ answer' = "complete" =>
       IF erase.kind = "everything"
         THEN Present(dir') = {} /\ others' = {} /\ erase.found \cap live' = {}
         ELSE Present(dir') \subseteq Slot /\ others' \subseteq {"notices"}]_eraseVars

(* An erase that was refused, cut off or answered incomplete can be repeated to*)
(* the end: unless a file cut short stays, the operator's repetitions reach    *)
(* "complete" once Google answers and the disk works.                          *)
EraseCompletes == <>[](\A n \in Name : dir[n] # Cut) => []<>(answer = "complete")

(* The inductive invariant of an erase_everything: every file it will not keep *)
(* holds a token still to be asked about or one that is spent, neither live nor*)
(* promised; the other eraser never walks to a slot.                           *)
Spent(c) == c \in Token \ (live \cup promised)

RevokeInv ==
  erase.at = "revoke" => \A n \in Present(dir) \ erase.keep : dir[n] \in erase.todo \/ Spent(dir[n])

ForgetInv ==
  erase.at = "forget" =>
    IF erase.kind = "everything" THEN \A n \in Present(dir) \ erase.keep : Spent(dir[n])
                                 ELSE erase.keep = SIGN_IN_FILES

WalkInv ==
  erase.at = "walk" =>
    IF erase.kind = "everything" THEN \A n \in Present(dir) \cap erase.todo : Spent(dir[n])
                                 ELSE erase.todo \cap Slot = {}

LockInv ==
  /\ Free => call = NoCall
  /\ erase.at # "idle" => Free
  /\ erase.at \in {"read", "revoke"} => erase.kind = "everything"

EraseInv == EraseTypeOK /\ DurableInv /\ LockInv /\ RevokeInv /\ ForgetInv /\ WalkInv

(* What makes "complete" true: as long as no revocation failed and no file was *)
(* unreadable nothing is kept, and every token found is dead or still asked    *)
(* about; the other eraser keeps exactly the sign-in files.                    *)
AnswerInv ==
  erase.at # "idle" =>
    IF erase.kind = "everything"
      THEN ~erase.failed /\ ~erase.unreadable =>
             /\ erase.keep = {}
             /\ \A t \in erase.found \cap live : erase.at = "revoke" /\ t \in erase.todo
      ELSE erase.keep = SIGN_IN_FILES
================================================================================
