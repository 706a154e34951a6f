# TLA+ for the casa Gmail plugin

Specifications, model checks and proofs of the plugin's own logic: how a Gmail
authorization travels from a link to a credential in service; how that credential
is kept on disk and erased; how the sent log keeps a retry from sending twice; how
files pass between plugins; and what the mailbox tools tell the agent. The hard
part is everywhere the same: several server processes, kills, power losses,
answers that never arrive, and another process's step between any two of ours.

## The system

| component | source | state | operations |
|---|---|---|---|
| authorization flow | `server/auth_flow.py` | `collect.lock`; locals of a pass | `start`, `startup_recover`, `reconcile_stage`, `collect_pass` |
| token store | `server/token_store.py` | active credential, the one staged slot, pending notices, temporaries | `stage`, `promote`, `write_active`, `remove_active`, `discard_staged`, `queue_notice`, `peek_notices`, `record_notices_offered` |
| Google sign-in | `server/auth.py` | credential in service | `load_active`, `refresh_and_verify`, `exchange_code`, `activate`, `probe_refresh` |
| casa's callback spool | `server/casa_callback.py` (client; casa's half is not in the repository) | pending states, attempt records, results, journals | `mint`, `attempts`, `pending_mint_times`, `collect`, `held`, `ack` |
| link deposit | `server/casa_broker.py` | none | `deposit_link` |
| server runtime and tools | `server/server.py` | `_client`, `_authenticated` | `_startup`, `setup_gmail`, `gmail_auth_collect`, mailbox tools |
| erasers | `server/erasure.py` | the data directory | `erase_gmail`, `erase_gmail_data`, `revoke_token` |
| sent log | `server/sent_log.py` | `sent_log.json`, a copy and a lock per process | `check`, `record`, `cleanup`, `forget` |
| file handoff | `server/casa_handoff.py` | the shared folder | `publish`, `capture` |
| attachments | `server/attachments.py` | cache and saved directories | `save_attachment`, cleanup |
| Gmail client | `server/gmail_client.py` | none of its own; Gmail's | MIME walk, attachment keys, `get_thread`, `reply_to_thread`, request wrappers |

How they meet. `setup_gmail` probes the stored credential, looks for a link that is
still open, mints a state into casa's spool (`start`) and hands the link to casa,
which posts it. The user's redirect ends as a result in the spool.
`gmail_auth_collect` runs a *collect pass* under the collect lock: it resolves what
is in the staged slot, then takes the attempts newest first, collects each result,
exchanges the code at Google, stages the token, verifies it, promotes it to the
active credential, rebuilds the runtime, and only then acks the attempt, which
makes casa tear it down. A starting server runs `startup_recover` under the same
lock; it has nobody to talk to, so it leaves notices for a later pass to return.
The erasers take that lock too. The sent log, the saved files and the handoff
folder are shared by every server process and locked by none of them.

What makes it hard: every step can be the last, the spool, the store and the folder
change under whoever reads them, Google answers with anything or not at all, a code
and its token exist once, and notices, acks, syncs and unlinks have to be ordered so
that no prefix of the work loses an authorization, a message or a file.

## The modules

| module | models | extends |
|---|---|---|
| `PluginTypes` | links, tokens, addresses, the order of attempts | `Integers` |
| `TokenStore` | `token_store.py`, one file change a step | `PluginTypes` |
| `CasaSpool` | `casa_callback.py`, and casa's side of the protocol as an external contract | `PluginTypes` |
| `GmailAuth` | verdicts of `auth.py` and Google's record of each grant | `PluginTypes` |
| `Authorization` | abstract: one connection and one candidate, and when each may go | `PluginTypes` |
| `AuthFlow` | `auth_flow.py` with `load_active` and `activate`: the sign-in system | `TokenStore`, `CasaSpool`, `GmailAuth` |
| `SetupGmail` | `setup_gmail` and `deposit_link` composed with all of `AuthFlow` | `AuthFlow` |
| `AtomicStore` | abstract: two slots that change in one step, durable once synchronised | |
| `DurableStore` | `token_store.py` one system call a step, with power losses | |
| `Erasure` | `erasure.py` and `revoke_token`, composed with `DurableStore` | `DurableStore` |
| `SentLog` | `sent_log.py` inside `send_email` and `reply_to_thread` | `Integers` |
| `Handoff` | `casa_handoff.py` one system call a step | `FiniteSets` |
| `Attachments` | `save_attachment` and the cache's cleanup | `FiniteSets` |
| `MessageParts` | the MIME walk, the body, and the attachments' keys across fetches | `SequencesExt` |
| `Conversation` | `get_thread` and `reply_to_thread` on a thread that others change | `SequencesExt` |
| `*_proofs` | theorems about `AuthFlow` (two modules), `SetupGmail`, `DurableStore`, `Erasure`, `SentLog`, `Handoff`, and `MessageParts`, `Conversation` and `Attachments` (`Mailbox_proofs`) | the module, `TLAPS` |
| `MC*` | instances for TLC; `MCMailbox` composes the last three, `MCSharedFiles` the sent log and the handoff | |

### The sign-in system (`AuthFlow`, `SetupGmail`)

* `active`, `staged`, `notices` are the three files of the store. A file whose
  content `_read` cannot use is the same as no file. A file that is good but cannot be
  read at the moment is left out: see Abstractions. A v1 file (a refresh token alone) is
  the credential whose flow, generation and account are `None`.
* `status`, `claimed`, `result`, `answer` are casa's record of an attempt and its
  result: minted (pending only), materialised, redirected, landed, collected into
  a journal, acked, retired. An `answer` is the account that consented or
  `"no_code"`: an error and a malformed query, which are handled alike.
* `google` is Google's record: no consent, a good code, a live token, dead. One
  value names a link, its state hash and the token its code can become.
* `lock`, `pc`, `frame`, `serving`, `subject` are the processes: the holder of
  `flock`, the place in the code, the locals of a recovery or pass, the token
  behind `_client`, and `GMAIL_USER_EMAIL` as it was read.
* `quiet` and `offers` are history: which outcomes a startup acked, and how often
  a completed pass returned each notice.
* `setup` is where a call of `setup_gmail` is; `link` is who minted a link, whether
  it is within its thirty minutes and whether casa has posted it. Both also record,
  as history, which live links the look at `pending/` passed over (`past`).

One action is one effect: at most one file of the store changes, the spool
changes at most once, or Google is asked once. `promote` is therefore `Promote`
(commit), `Unstage` (unlink) and `Activate`; a settled stage is `QueueOutcome`
(startup only), `AckFlow`, `Unstage`. Between any two of them the process may
`Crash` (the kernel drops the lock, memory is lost), casa, the user and Google
may move, and every call that can raise may `Raise`, which leaves the `with`
block and releases the lock. `_obtain_result` with its retries is the six ways
one attempt can leave the loop: `CollectResult`, `RetryLater`, `AlreadyCommitted`,
`ResumeHeld`, `GiveUpHeld` and, before it, `DropSuperseded`, `SkipAwaiting`,
`DropDone`. `frame.task` says who called `reconcile_stage`, and `Resolved` routes
its outcome the way each caller does.

A call of `setup_gmail` is `CallSetup`, `Probe`, `LookPending`, `LookAttempts`,
`MintLink`, `Deposit`, `Answered`, with other processes, casa, the user and the clock
in between. `pending_mint_times` and `attempts` swallow read errors: a directory that
cannot be listed is empty and an entry that cannot be read is not there. So either
look may find nothing whatever there is, and the pass's `ListAttempts` may list any
part of the attempts. The tools of one process run one at a time on its event loop
(`Otherwise` only moves a process that is in no call).

`Authorization` is the user's view of all this. `AuthFlow` maps the active file to
its connection and the staged slot to its candidate: a grant becomes the candidate
only while there is none and unless a newer one is connected, it is connected only
if it is the configured inbox's, and either goes only when it is dead, the
connection already, or the wrong inbox's.

### The store and the erasers (`DurableStore`, `Erasure`)

`dir` is the directory as processes see it, `dirty` the names whose bytes are not on
disk, `kept` the directories a power loss may leave. `_durable_write` is `Open`,
`Write`, `Fsync`, `Replace`, `SyncDirectory`; an unlink is `Unlink`, `SyncUnlinked`;
any of them may be the last (`BreakOff`) and power may fail at any point. `promised`
is history: a token enters when its write returns, and leaves when the flow gives it
up or Google says it is dead. The abstract `AtomicStore` sees the two slots only.

An erase is `EraseBegins`, `ReadCredentials` (what cannot be read is kept), one
`Revoked`, `AlreadyInvalid` or `Unconfirmed` per token, `ForgetAndList`, one
`RemoveEntry` per entry, `Report`. Revoking one token ends any set of tokens, since
several may belong to one grant. Other sessions add files while the walk goes on.

### The sent log (`SentLog`)

The same grain: `_load` reads, then (a step later) renames a file that did not parse
or could not be read;
`_save` empties the file, then (a step later) writes it; the writer's descriptor
follows the inode, so a rename or an unlink in between takes the writer with it. A
tool thread and a cleanup timer share each server's lock; servers share the file.
`answered` and `erased` are history: what the agent may rely on, and what must not
return. `alone` is history too: no two servers have run at once.

### Files (`Handoff`, `Attachments`)

A publication is listed, counted entry by entry, checked for room, made, written
unit by unit, synchronised, renamed and synchronised again; a capture opens, stats
and reads. `synced` says which of its bytes, its entry and its rename are on disk.
`handed` is history: paths returned that have not been swept. `save_attachment` is
the check of the source, the check of the destination, the open (which empties it)
and the write; `kept` is history: what was answered as saved.

### Messages (`MessageParts`, `Conversation`)

A message maps the paths of its parts, the sequences of child numbers that lead to
them, to the parts: Gmail's `partId` is that path. The code's two walks are recursive
functions on the paths (`Texts` for `_extract_parts`, with one level of it in `Taken`,
and `AttachmentParts`); `Told` puts the body together, and `Key` and `FindAttachment`
follow the attachments' keys over several fetches. `Multipart` is a constant, the MIME
types that start with `multipart/`: the walk treats them alike but for
`multipart/alternative`. The walk over the texts is compared
with a definition without recursion (`Wanted`): a text belongs to the body if nothing
with content precedes it at any choice on its path. `Conversation` keeps the thread
as Gmail has it, what the agent last read of it and what a reply answers.

## Runs

| run | instance | shows |
|---|---|---|
| `sign_in` | 2 servers, 1 link, 2 inboxes, v1 file, fair | what recovery and a pass promise at every step; every stage and every result is settled in the end |
| `setup` | 1 server, 2 links with tied clocks | when `setup_gmail` mints, whatever of the spool it can read; no stage is overwritten, no ack destroys a usable authorization; `AuthFlow` implements `Authorization` |
| `setup_live` | 1 server, 1 link, fair | `already_pending` is not the last word |
| `shared_files` | sent log: 2 servers, 2 request_ids, 2 messages; handoff: 2 producers, 1 consumer, 3 publications, limits of 1 | "already sent" is never wrong; a server that is alone neither repeats a send nor brings erased history back; only whole files are captured, a returned path lasts, the folder's overrun is bounded |
| `erase` | 2 tokens, both erasers, 2 faults, fair | no torn slot, no promised or live token lost, `complete` is true and can be reached; the store implements `AtomicStore` throughout |
| `mailbox` | every message of two levels of multiparts; threads of up to 4; 2 servers and 2 files | the body is what the message offers and no text of it is lost; a listed attachment is found; a reply answers what was read; a saved file is kept |
| `inbox`, `repeat` | 1 server, 1 link | violated: see below |
| `setup_second`, `setup_connected` | 2 servers and 2 links; 1 server and 1 link | violated |
| `sent_repeat`, `sent_erase` | 2 servers | violated |

Bounds. `sign_in`, `setup` and the handoff are finite without a counter to cap
(`offers` saturates one past the limit). Two servers are what a lock or its absence is
about; two links are the least that can be out of order and compete for the slot, and
their clocks tie, one link having no clock, so that the hash decides, as in
`attempt_order`; two inboxes give the right one and a wrong one. `NoticeLimit` is 1
where notices are not the question and the code's own 3 in `repeat`. `MaxFaults = 2`
lets a kill meet a power loss; the theorems have no such bound. In the handoff a file
of zero or one unit against limits of one unit is the least that can be cut short,
fill the folder and overrun it; three publications let both producers write beside a
finished one. In `mailbox` a message is a leaf of five kinds (text, blank text, HTML,
attachment, a file Gmail inlined) or one or two parts in each of three kinds of
multipart (alternative, mixed, and related for every other), two levels deep: an
alternative inside an alternative and a mixed part inside an alternative both occur;
the theorems are for any tree and any multipart types. `MAX_MESSAGES = 3` with threads
of up to `MaxWritten = 4` and `Asked` from -1 to 4 reach both sides of every
comparison. The three parts of `mailbox` share no state, nor do the two of
`shared_files`, so a behaviour explores one of them. In the sent log, the constraint
`Bounded` keeps to one request_id once two servers run together (what two add is
explored for servers that run alone). Symmetry is used only where no liveness is
checked, over servers, producers, publications, messages and files, which no
definition tells apart.

Every property of a passing run has a mutant: a definition changed the way a plausible
bug would change that code (a dropped guard, a missing sync, a swapped order), under
which TLC finds the property violated. Mutants stand before the definition they
change.

### Fairness

* `FairSpec` (`sign_in`): casa keeps nudging and sessions keep starting (a process
  that can take a successful step in the end takes one), casa links a result it
  announced and notes a claim, and crashes, exceptions, unavailable answers and
  unreadable attempts come at any step and as often as they like, but not for ever
  (`<>[][Calm]_vars`). Without the last nothing can be promised: a server that is
  killed in every pass settles nothing. It also stands for an assumption on Google:
  `exchange_code` sets no timeout, so a request that never returns is excluded, not
  checked.
* `SetupFairSpec` (`setup_live`): a call runs to its end, the clock advances, and
  whoever was told to run `setup_gmail` again does so however busy the process is.
  Nothing is assumed of Google, of the user, or of casa's sweep.
* `EraseLiveSpec` (`erase`): the sign-in calls and the eraser run on while their
  process lives, and the operator repeats an erase that did not complete. The
  faults are bounded, so they end.

## What the failing runs show

* `inbox`: the README of the repository says that a credential of another inbox is
  not served. `load_active` and `reconcile_stage` compare; the committed path of
  `_locked_pass` does not. A promotion whose ack was cut off by a crash, then a
  changed `GMAIL_USER_EMAIL`, then a pass: the old inbox is in service. The passing
  run `sign_in` has the same property under one configured inbox.
* `repeat`: a notice is said to be offered at most `NOTICE_OFFER_LIMIT` times over
  any passes and restarts. Retiring a notice forgets its key; when the ack it
  announced failed, the next startup settles the same stage and queues it anew.
* `setup_second`: the README says that re-running `setup_gmail` does not leave two
  live links. The look and the mint are two steps under no lock, and two servers can
  both look first. One server by itself keeps the promise where it can read `pending/`
  (`OneLiveLinkPerServer`).
* `setup_connected`: `_bring_into_service` (`server.py:183`) is done as soon as
  `_authenticated` is set, whatever token that stands for. A credential that is revoked
  while it serves, a newer one promoted whose activation fails, and `setup_gmail`
  answers `already_connected` of the newer one while the tools hold the dead one: what
  `server.py:167` calls a lie.
* `sent_repeat`: a second server that starts while a send is recorded can rename
  the finished file away as corrupt (it read it half written and renames by
  name). The record of a send already reported is gone and a retry sends again. As
  short a behaviour has a second server that checked before the first one's save, and
  sends too; TLC reports one or the other.
* `sent_erase`: a record in another server that loaded before an erase and saves
  after it puts the erased history back.

Differences from the docs, or limits the code leaves open, that the models contain and
that no property claims away, those that touch one being excepted in it by name:

* Where `pending/` cannot be listed (`casa_callback.py:173`), or an entry of it cannot
  be read, `pending_mint_times` answers as if nothing were there, and one server by
  itself mints a second live link beside the first, which `README.md:100` says it will
  not. `OneLiveLinkPerServer` and `OneLiveLink` except such links (`Overlooked`); that
  there is no other way is what they say.
* The erasers' unlinks (`erasure.py:87`, `:141`) are not synchronised: a power loss
  after `complete` may bring a dead token's file back.
* `erasure.py:44` lists the files of the sign-in without the temporaries of a write
  that was cut off, which `erase_gmail_data` therefore deletes: `CompleteIsTrue`
  allows only the slots and the notices to stay.
* The room check (`casa_handoff.py:240`) and the write are two steps: the folder can
  exceed its limit, by at most one file of each other producer (`OverrunIsBounded`).
* The first publication's new directory (`casa_handoff.py:285`) is made by
  `os.makedirs` and its parent is not synchronised: a power loss may take it, and what
  was published in it, after the path was returned. `PublishedIsDurable` says so.
* Two servers saving to one destination (`attachments.py:79`) can both find it free,
  and the second empties what the first has saved: `SavedIsKept` excepts by name a
  server past its check of the same destination. Nothing is synchronised there.
* A save that fails or dies after the open (`attachments.py:84`), which empties the
  file, leaves a broken one that the next call answers `exists` for, and the skill
  (`SKILL.md:167`) reads "destination exists" as "already processed". `SavedIsKept` is
  about files answered as saved.
* `get_thread` caps what it is asked for (`min(max_messages, 50)`), but for 0 the slice
  `all_msgs[-max_messages:]` is the whole thread, and for a negative number all but its
  first messages (`gmail_client.py:258`). `AnswersWhatWasRead` is about numbers of one
  or more.
* A sent log that cannot be read at the moment is renamed aside like a corrupt one
  (`sent_log.py:24`), and a lone server's retry then sends again: `NoSecondSendAlone`
  excepts it by name, as it does a save that was cut short.

## Proofs

For any sets of processes, links, tokens, addresses, requests, messages, files and
publications, any clocks and any limits:

| module | theorem | statement |
|---|---|---|
| `AuthFlow_proofs` | `Invariance`, `TypeCorrect` | `Spec => []IndInv`, `Spec => []TypeOK` |
| | `MutualExclusion` | `Spec => []OnlyHolderInside` |
| | `ConnectedMeansDurable` | `Spec => []ConnectedIsDurableAndServing` |
| | `StageIsNeverOverwritten` | `Spec => StageNeverOverwritten` |
| `Authorization_proofs` | `RecordInvariance` | `Spec => []RecordInv` |
| | `FlowImplementsAuthorization` | `Spec => ImplementsAuthorization` |
| | `AcksDestroyNothing`, `StagesAreDroppedOnlyWhenResolved` | `Spec => AckDestroysNothing`, `StageDroppedOnlyWhenResolved` |
| | `StoredFlowsAreNotExchanged`, `QuietOutcomesAreNoticed` | `Spec => []StoredFlowIsNotExchanged`, `[]QuietOutcomeIsNoticed` |
| | `OneInboxServed` | with one configured address: `Spec => []ServingMatchesSubject` |
| `SetupGmail_proofs` | `SetupInvariance` | `SetupSpec => []SetupInv` |
| | `LinksPerServer` | `SetupSpec => []OneLiveLinkPerServer` |
| | `OneServerOneLink`, `OneServerNoNeedlessLink` | with one server: `[]OneLiveLink`, `NoNeedlessLink` |
| | `SetupRecordInvariance` | `SetupSpec => []RecordInv` |
| | `FlowSafeUnderSetup` | `SetupSpec =>` each safety property of the flow above |
| | `SetupImplementsAuthorization` | `SetupSpec => ImplementsAuthorization` |
| | `SetupServesOneInbox` | with one configured address: `SetupSpec => []ServingMatchesSubject` |
| `DurableStore_proofs` | `DurableInvariance`, `NoTornSlot`, `PromisesKept` | `DurableSpec => []DurableInv`, `[]SlotsNeverTorn`, `[]PromisedSurvives` |
| | `Refinement` | `DurableSpec => ImplementsAtomicStore` |
| `Erasure_proofs` | `EraseInvariance`, `EraseTyped`, `ErasersKeepPromises` | `EraseSpec => []EraseInv`, `[]EraseTypeOK`, `[]PromisedSurvives` |
| | `OnlyDeadTokensErased`, `CompleteIsEarned` | `EraseSpec => NoLiveTokenErased`, `CompleteIsTrue` |
| `SentLog_proofs` | `LogInvariance`, `LogTyped`, `AlreadySentMeansSent` | `Spec => []LogInv`, `[]TypeOK`, `[]AlreadySentIsTrue` |
| | `RetriesSendNothingTwice`, `ErasedIsNotWrittenBack` | `Spec => []NoSecondSendAlone`, `[]ErasedStaysErasedAlone` |
| `Handoff_proofs` | `HandoffInvariance`, `HandoffTyped` | `HandoffSpec => []HandoffInv`, `[]HandoffTypeOK` |
| | `WholeFilesOnly`, `PublishedLasts` | `HandoffSpec => []CapturedIsWhole`, `[]PublishedIsDurable` |
| | `FolderStaysBounded` | with finitely many producers and publications: `HandoffSpec => []OverrunIsBounded` |
| `Mailbox_proofs` | `ConversationInvariance`, `RepliesAnswerWhatWasRead` | `ConversationSpec => []ConversationInv`, `[]AnswersWhatWasRead` |
| | `MessageInvariance`, `MessageSpecListedIsFound` | `MessageSpec => []MessageInv`, `[]ListedIsFound` |
| | `MessageSpecBestVersionTaken`, `MessageSpecNothingUnsaid` | `MessageSpec => []BestVersionTaken`, `[]NothingUnsaid` |
| | `DownloadableIsComplete` | `IsMessage(payload)` implies that `Downloadable` has every part with a filename and an attachmentId, and no other |
| | `AttachInvariance`, `AttachmentsTyped`, `SavedFilesAreKept` | `AttachSpec => []AttachInv`, `[]AttachTypeOK`, `[]SavedIsKept` |

They rest on the named assumptions of the modules: a hash orders links totally
(`ClockAssumption`), `None`, a cut file and the names of slots are not values of any
other kind, the limits are numbers, no text type is a multipart type, configured
addresses are addresses, and a message is a finite tree (`IsMessage`: the root is
there, a part's children are there, and every other part is a child of one that is).
Two kinds of theorem have a hypothesis of their own. One server, or one configured
address, is a way of running the plugin; the failing runs show what happens otherwise.
`FolderStaysBounded` counts bytes and so wants finitely many producers, at least one
of them, and finitely many publications: any prefix of a behaviour has no more.

None of the safety properties is inductive. The inductive invariants and why:

* `IndInv` (`AuthFlow`): that an ack as connected finds its credential active needs
  that `Activate` found it active, which needs that the `Unstage` before it did, which
  needs that `Promote` committed the flow that `StageVerified` verified, which needs
  that nobody else touched the slot in between. Per process: who is inside holds the
  lock and the holder is inside (`LockHeld`); which places have a flow in hand and why
  (`FlowInHand`); where the slot is known to be free or to hold the verified flow
  (`SlotDiscipline`); how far a promotion has come (`CommitDiscipline`). Because
  `LockHeld` is an equivalence, at most one process is inside, so a step of one
  leaves the conjuncts of the others alone (`OthersUndisturbed`).
* `RecordInv` (`AuthFlow`), on top of `IndInv`, relates records written at different
  times. `GrantInv`: until the user answers there is no grant and no result.
  `StagedInv` and `ActiveInv`: a file's token, flow and clock belong together and its
  code is spent. `NoticeInv`: a notice counts no more offers than were made.
  `PassInv`: the commit a pass compares with is the one on disk, after a promotion
  too, and it returns every notice on disk. `InHandInv`: the link in hand is not
  older than the connection and not committed when its code is sent, and a stage
  about to be dropped is still dead, or still another inbox's. `Forward` is what no
  step takes back (a collected result, who consented, a spent code, a dead grant);
  with the lock it is why a step of another actor leaves these alone (`OthersKeep`).
  `AuthorizationSteps` then maps the six steps that write the active file or the slot
  (`StoreSteps`): `StageToken` to `Obtain`, `Promote` to `Connect`, `DiscardResidue`
  and `Unstage` to `LetGo`, `LoadDead` to `Disconnect`; the migration of a v1 file in
  `LoadAlive` leaves the connection, and everything else is `Elsewhere`.
* `SetupInv` (`SetupGmail`): `IndInv`, plus: a process in a call is at rest, and one
  past its look at `pending/` has no live link of its own but those the look passed
  over (`past`), which a mint then writes into its link's record. That nobody else can
  give it one is `NothingReopens`: only a mint makes a state claimable. Two live links
  of one server were minted one after the other, so the second one's record names the
  first, and a link that is not live any more never is again. A step of
  `SetupGmail` is a step of the flow or leaves the flow alone but for a mint or a
  probe (`SetupSteps`), so `RecordInv`, the flow's properties and its refinement
  carry over step by step. That the probe serves the right inbox needs one conjunct
  more (`ProbedInv`): what is being probed is a grant of this process's address,
  whatever has become of the file it was read from.
* `DurableInv` (`DurableStore`): no slot is dirty, what a sync would keep is already
  among the survivors, a temporary about to be renamed has its bytes on disk, and a
  slot about to be unlinked holds no promised token that the other does not. The
  refinement maps each system call to a slot's change, a sync, a loss or a stutter.
* `EraseInv` (`Erasure`): `DurableInv` (the erasers' unlinks keep it), plus: every file
  that will not be kept holds a token still to be asked about or one that is dead;
  `AnswerInv` carries what `complete` needs.
* `HandoffInv` (`Handoff`): how far a producer has come tells what there is of its
  publication, what has its final name is whole and synchronised, and a consumer
  holds a file that was published.
* `RoomInv` (`Handoff`), on top of `HandoffInv`, accounts for every file in the
  folder. There is no order among the producers' counts: each lists at one moment,
  visits at others, checks at another, and writes long after. The invariant says that
  there are a set `base` of files that some producer `best` had counted when it
  passed its check, and for each producer the `last` file it went on to write, such
  that `base` and these are all there is, and that `base` and the file of `best` fit
  the limit. What was settled when a counting producer listed (`seen`) and `base` form
  a chain: who passes with more than `base` becomes `best`, and who passes with less
  has seen its own last file, which is in `base` then. The four of them are bound
  under an existential quantifier in the invariant; the steps that neither list nor
  count nor pass keep them for one reason (`Quiet`).
* `LogInv` (`SentLog`): each entry in the file, in a process's copy or on its way into
  the file is of a message that went out (`SentInv`), which needs no more than that
  who is in which step holds the lock (`ThreadInv`). `AloneInv` is about servers that
  run one after another: `Known` says where what was answered is while a save has
  emptied the file (in the copy that is about to be written) and that nothing is
  relied on while a load that found no usable log has not moved the file aside,
  `Forgotten` that
  what was erased is in neither, and `OneServer` that nobody else has the file open.
* `ConversationInv`: the messages of a thread are numbered in their order, what
  `get_thread` showed ends with the newest it saw if any was asked for, and what a
  reply answers was the newest it saw. That trashing keeps the order rests on
  `RemoveAtProperties`.
* `AttachInv`: a save past its check has a destination inside `saved/`, and whoever is
  past the check of a destination whose file is kept was told to overwrite it and has
  not opened it yet.
* `MessageInv` (`MessageParts`): the message is one of those considered, and what was
  listed or downloaded are its attachments under their keys, which name each alone.
  What is told of a message depends on no request, but is about recursive functions
  over trees of any shape, so the induction is over the parts. It is made by the
  minimal counterexample: any set of parts has one none of whose children is in it
  (`PartsEnd`, from the well-foundedness of the subsets of a finite set). That a walk
  is defined at all is `RecursionDefines`: where values depend on those at
  predecessors, and these come to an end, a recursive function exists; it serves both
  walks and `FlattenSeq` (`FlattenProperties` says what that returns, and in which
  order). `OfferedBelow` and `WantedBelow` say of one part what `Offered` and `Wanted`
  say of the message. `OfferedByParts` and `WantedByParts` relate them to a
  multipart's parts, `MixedAnswer` and `AlternativeAnswer` say that one level of the
  walk makes a part's answer from those of its parts, and `TextsAreAnswers` is the
  induction.

Only model-checked: liveness (`StageEventuallyResolved`, `ResultEventuallySettled`,
`PendingAnswerEnds`, `EraseCompletes`), which TLAPS cannot prove under fairness. Every
invariant and every action property that a passing run checks is a theorem too, under
the hypothesis named above where it has one. `sign_in` also checks both inductive
invariants of the flow, the types being the first conjunct of `IndInv`.

## Abstractions

* Casa is what the plugin's comments and tests say of it. An attempt may be retired
  at any moment; only the thirty minutes of a claim are timed, by one flag that
  stands for the mint clock in its file and in its record.
* In `TokenStore` a file operation that raises has not changed its file. What it may
  leave below that is `DurableStore`, where a directory's changes reach the disk in
  the order made, as a journaling file system does, and `kept` over-approximates:
  any prefix since the last sync may be what is left.
* A file of the store that exists can be read. `_read` (`token_store.py:75`) and
  `_load_records` (`:275`) answer a read error like a missing file: a pass would take
  the slot for free and could stage over a token it did not see, `promote` would refuse
  a flow that is there, `setup_gmail` would mint beside a good credential, and a notice
  queued then would replace those before it. Every property of the slot, of the notices
  and of needless links assumes that this does not happen.
* A pass's messages are not state; only notices are. An exception late in a pass
  loses the messages of attempts it has already acked.
* `cb.resolve` succeeds or raises; an exception of `mint` is the closed route
  ("unavailable"). Addresses compare equal or not (the code lowers their case).
* `read_env` is reduced to `GMAIL_USER_EMAIL`; a process without it exits.
* The walk of an erase visits its entries in any order; the code sorts them.
* In `SentLog` a file is written in one piece when it is closed, only processes
  fail (not the machine).
* In `Handoff` the sweep spares a publication in progress (its retention is longer
  than any write), the reserve of free space may refuse any file, and a path's layout
  is its place: staging or final.
* In `Attachments` a destination is inside `saved/` or not.
* In `MessageParts` a text is there or blank; decoding is left out. Every part below
  the root has a `partId`, as Gmail gives it: for one without, `gmail_client.py:132`
  would use the attachment's id, which holds for one fetch only. In `Conversation`
  a message is who wrote it and whether it is in the trash.

Not modelled: how names and paths are cleaned and parsed (`clean_filename`, `new_id`,
`.index`), how a message, a link or a consent URL is built, search, labels other
than the trash, and send-as aliases (requests and formatting without state); the
runtime's reset after an erase (`server.py:614`), which touches one process's memory
only; the vendored libraries; the skill and the manifest.

## Plan

1. What two servers at once do keep of the sent log: `NoSecondSend` and
   `ErasedStaysErased` are refuted for them, and `AlreadySentIsTrue` is all that is
   proved.
2. The handoff's names and the callback's paths against a reference definition.
