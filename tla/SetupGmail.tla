------------------------------- MODULE SetupGmail -----------------------------
(* setup_gmail of server/server.py over the authorization flow: the tool that  *)
(* decides whether a link is needed, mints it and deposits it with Casa, which *)
(* posts it in the user's chat (server/casa_broker.py).  A call takes several  *)
(* steps and no lock; the tools of one process run one at a time on its event  *)
(* loop, so a process inside a call is at rest in AuthFlow, but another server *)
(* process, casa, the user and the clock all move between two steps of it.     *)
EXTENDS AuthFlow

VARIABLES
  setup,  \* per process: where its call of setup_gmail is, the token or link in hand, and
          \* the links in pending/ that its look passed over
  link    \* per link: who minted it, is it within its lifetime, has Casa posted it, and
          \* which links the look before its mint passed over

setupVars == <<setup, link>>
allVars == <<vars, setupVars>>

(* A call that has decided rests at its answer until the answer is returned.   *)
Answers == {"unavailable", "already_connected", "retry_later", "configuration_error",
            "already_pending", "link_not_handed_over", "link"}
Stations == {"none", "probe", "pending", "attempts", "mint", "deposit"} \cup Answers

SetupTypeOK ==
  /\ TypeOK
  /\ setup \in [Proc -> [at: Stations, about: Token \cup {None}, past: SUBSET Flow]]
  /\ link \in [Flow -> [by: Proc \cup {None}, fresh: BOOLEAN, handed: BOOLEAN,
                         past: SUBSET Flow]]

NotCalled == [at |-> "none", about |-> None, past |-> {}]

SetupInit ==
  /\ Init
  /\ setup = [p \in Proc |-> NotCalled]
  /\ link = [f \in Flow |-> [by |-> None, fresh |-> FALSE, handed |-> FALSE, past |-> {}]]

--------------------------------------------------------------------------------
Proceed(p, at, about) == setup' = [setup EXCEPT ![p].at = at, ![p].about = about]

(* A step of the call that only reads.                                         *)
Looks(p, at) ==
  /\ Proceed(p, at, setup[p].about)
  /\ UNCHANGED <<vars, link>>

(* _stored_credential: the credential on disk, if it is for this inbox; a v1   *)
(* file names no account and is left to load_active.                           *)
IsStored(p) == active # None /\ active.account = subject[p]

CallSetup(p) ==
  /\ pc[p] = "idle" /\ setup[p].at = "none"
  /\ IF IsStored(p) THEN Proceed(p, "probe", active.token)
                    ELSE Proceed(p, "pending", None)
  /\ UNCHANGED <<vars, link>>

(* _stored_credential_failure, and _bring_into_service when there is none.     *)
Probe(p) ==
  /\ setup[p].at = "probe"
  /\ \E reply \in RefreshReplies(setup[p].about) :
       \/ RefreshVerdict(reply) = "ok" /\ serving[p] # None /\ Looks(p, "already_connected")
       \/ /\ RefreshVerdict(reply) = "ok" /\ serving[p] = None
          /\ serving' = [serving EXCEPT ![p] = setup[p].about]
          /\ Proceed(p, "already_connected", setup[p].about)
          /\ UNCHANGED <<storeVars, spoolVars, google, lock, pc, frame, subject,
                         historyVars, link>>
       \/ RefreshVerdict(reply) = "ok" /\ serving[p] = None /\ Looks(p, "unavailable")
       \/ RefreshVerdict(reply) = "retryable" /\ Looks(p, "retry_later")
       \/ RefreshVerdict(reply) = "config" /\ Looks(p, "configuration_error")
       \/ RefreshVerdict(reply) = "terminal" /\ Looks(p, "pending")

(* A link the user can still open: casa would claim its state.                 *)
Open(f) == status[f] \in {"pending", "awaiting_redirect"}
Live(f) == Open(f) /\ link[f].fresh

(* Mutant of InPending: any published state counts, whatever its mint clock.   *)
InPendingByName(f) == Open(f)

(* Mutant of InPending: pending/ is taken to hold only what attempts/ lists.   *)
InPendingRecorded(f) == status[f] = "awaiting_redirect" /\ link[f].fresh

(* pending/<hash>.json is there until casa claims the state; its mtime is the  *)
(* mint clock, _mint_is_live's claim gate.                                     *)
InPending(f) == Open(f) /\ link[f].fresh

(* A record without a mint clock proves nothing.                               *)
InAttempts(f) == status[f] = "awaiting_redirect" /\ link[f].fresh /\ MintTs[f] # None

(* _outstanding_authorization reads pending/ and then attempts/.  An entry that *)
(* cannot be read is passed over, a directory that cannot be listed is empty;  *)
(* the redirect address is looked up once more for the answer.                 *)
LookPending(p) ==
  /\ setup[p].at = "pending"
  /\ \/ (\E f \in Flow : InPending(f)) /\ Looks(p, "already_pending")
     \/ /\ setup' = [setup EXCEPT ![p].at = "attempts",
                                  ![p].past = {f \in Flow : InPending(f)}]
        /\ UNCHANGED <<vars, link>>

LookAttempts(p) ==
  /\ setup[p].at = "attempts"
  /\ \/ (\E f \in Flow : InAttempts(f)) /\ Looks(p, "already_pending")
     \/ Looks(p, "mint")

(* The callback route is closed wherever the spool is resolved.                *)
RouteClosed(p) ==
  /\ setup[p].at \in {"pending", "attempts", "mint"}
  /\ Looks(p, "unavailable")

(* start: the state is published before anybody has its link.                  *)
MintLink(p, f) ==
  /\ setup[p].at = "mint"
  /\ Start(p, f)
  /\ setup' = [setup EXCEPT ![p] = [at |-> "deposit", about |-> f, past |-> {}]]
  /\ link' = [link EXCEPT ![f] = [by |-> p, fresh |-> TRUE, handed |-> FALSE,
                                  past |-> setup[p].past]]

(* deposit_link: a refusal, no broker and an answer that is lost all raise.    *)
Deposit(p) ==
  /\ setup[p].at = "deposit"
  /\ Looks(p, "link") \/ Looks(p, "link_not_handed_over")

(* The answer is returned; Casa posts the link its reference stands for.       *)
Answered(p) ==
  /\ setup[p].at \in Answers
  /\ setup' = [setup EXCEPT ![p] = NotCalled]
  /\ link' = IF setup[p].at = "link" THEN [link EXCEPT ![setup[p].about].handed = TRUE]
                                     ELSE link
  /\ UNCHANGED vars

SetupStep(p) ==
  \/ Probe(p) \/ LookPending(p) \/ LookAttempts(p) \/ RouteClosed(p)
  \/ (\E f \in Flow : MintLink(p, f)) \/ Deposit(p) \/ Answered(p)

(* Mutant of Otherwise: the tools of one process run on several threads.       *)
OtherwiseThreaded(p) ==
  \/ /\ Recover(p) \/ Reconcile(p) \/ Pass(p) \/ Raise(p)
     /\ UNCHANGED setupVars
  \/ /\ Crash(p)
     /\ setup' = [setup EXCEPT ![p] = NotCalled]
     /\ UNCHANGED link

(* The rest of the process, while no call is in progress; a kill ends a call   *)
(* without an answer.                                                          *)
Otherwise(p) ==
  \/ /\ setup[p].at = "none"
     /\ Recover(p) \/ Reconcile(p) \/ Pass(p) \/ Raise(p)
     /\ UNCHANGED setupVars
  \/ /\ Crash(p)
     /\ setup' = [setup EXCEPT ![p] = NotCalled]
     /\ UNCHANGED link

(* Thirty minutes after the mint casa refuses the claim; of a state that was   *)
(* claimed or swept nobody reads the age.                                      *)
Expire(f) ==
  /\ Live(f)
  /\ link' = [link EXCEPT ![f].fresh = FALSE]
  /\ UNCHANGED <<vars, setup>>

(* Only a posted link can be opened, and only within its lifetime.             *)
OpenLink ==
  /\ User
  /\ \A f \in Flow : status'[f] # status[f] => link[f].handed /\ link[f].fresh
  /\ UNCHANGED setupVars

Environment == (Casa \/ Google) /\ UNCHANGED setupVars

SetupNext ==
  \/ \E p \in Proc : CallSetup(p) \/ SetupStep(p) \/ Otherwise(p)
  \/ \E f \in Flow : Expire(f)
  \/ OpenLink \/ Environment

SetupSpec == SetupInit /\ [][SetupNext]_allVars

(* Fairness.  A call runs to its end, the clock advances, and whoever was told *)
(* to run setup_gmail again does so however busy the process is; crashes come  *)
(* as often as they like, but not for ever.  Nothing is assumed of Google, of  *)
(* the user, or of casa's sweep of expired states.                             *)
SetupFairness ==
  /\ <>[][\A p \in Proc : ~Crash(p)]_allVars
  /\ \A p \in Proc :
       /\ WF_allVars(SetupStep(p))
       /\ SF_allVars(CallSetup(p))
       /\ WF_allVars(setup[p].at = "none" /\ Succeeds(p) /\ UNCHANGED setupVars)
  /\ \A f \in Flow : WF_allVars(Expire(f))

SetupFairSpec == SetupSpec /\ SetupFairness

--------------------------------------------------------------------------------
(* Properties.                                                                 *)

(* One of the two was live in pending/ when the call that minted the other     *)
(* looked there, and the look passed over it.                                  *)
Overlooked(f, g) == f \in link[g].past \/ g \in link[f].past

(* Two links the user can complete at the same time were never both minted by  *)
(* one server, however its calls, its crashes and casa's own lag in recording  *)
(* a mint interleave, unless pending/ could not be read just before the second *)
(* mint while it held the first one (_outstanding_authorization, _flow_start). *)
OneLiveLinkPerServer ==
  \A f, g \in Flow :
    Live(f) /\ Live(g) /\ link[f].by = link[g].by => f = g \/ Overlooked(f, g)

(* The README's promise of any number of servers that can read pending/: never *)
(* two live links.                                                             *)
OneLiveLink == \A f, g \in Flow : Live(f) /\ Live(g) => f = g \/ Overlooked(f, g)

StoredAndLive(p) == IsStored(p) /\ google[active.token] = "live"

(* One server's setup_gmail does not ask for a new authorization while the one *)
(* on disk is for its inbox and still good at Google, whatever Google answered *)
(* to the probe and whatever this process has in service.                      *)
NoNeedlessLink ==
  [][\A p \in Proc, f \in Flow :
       MintLink(p, f) => ~StoredAndLive(p)]_allVars

(* already_connected is said only where the tools work: what this process has  *)
(* in service is good at Google, not only the credential on disk that was      *)
(* probed (_bring_into_service).                                               *)
ConnectedIsUsable ==
  [][\A p \in Proc :
       Probe(p) /\ setup'[p].at = "already_connected" => google[serving'[p]] = "live"]_allVars

(* already_pending is not the last word: the outstanding link is used or runs  *)
(* out, and a later call mints or answers otherwise, although a link that was  *)
(* never handed over can be claimed by nobody and casa's sweep may never come. *)
PendingAnswerEnds ==
  \A p \in Proc :
    setup[p].at = "already_pending" ~>
      setup[p].at \in {"mint"} \cup (Answers \ {"already_pending"})

(* The part of the inductive invariant about calls: a process past its look at *)
(* pending/ has no live link of its own but those the look passed over, and    *)
(* what is in hand has its type.                                               *)
CallInv(p) ==
  /\ setup[p].at # "none" => pc[p] = "idle"
  /\ setup[p].at \in {"deposit", "link"} => setup[p].about \in Flow
  /\ setup[p].at = "probe" => setup[p].about \in Token
  /\ setup[p].at \in {"attempts", "mint"} =>
       \A f \in Flow : link[f].by = p /\ Live(f) => f \in setup[p].past

SetupInv ==
  /\ SetupTypeOK
  /\ IndInv
  /\ \A p \in Proc : CallInv(p)
  /\ \A f \in Flow : link[f].fresh => link[f].by \in Proc
  /\ OneLiveLinkPerServer

(* With one server nothing changes the credential during its call, so what the *)
(* probe found still holds when the link is minted.                            *)
NeedInv(p) ==
  /\ setup[p].at = "probe" => IsStored(p) /\ active.token = setup[p].about
  /\ setup[p].at \in {"pending", "attempts", "mint"} => ~StoredAndLive(p)

OneServerInv == \A p \in Proc : NeedInv(p)
================================================================================
