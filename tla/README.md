# cfctl in TLA+

TLA+ models of cfctl, the governed Cloudflare control plane: the plan lock, the
life of a plan on its execution lanes, the admission policy, standing
authorities, the event lane, managed D1 imports, analytics-token renewal, the
keyring store and the evidence keys. They are model-checked with TLC; every
safety property of the runs, and both refinements, are also proved with TLAPS.
The reference is the Rust and TypeScript source under `src/`; `PROJECT.json`
maps every definition to the lines it stands for.

    tlc -workers 2 -config MCPlanLifecycle.cfg MCPlanLifecycle
    tlapm PlanLifecycleProofs.tla

## 1. The system

cfctl turns every mutation of a Cloudflare account into a *plan*: a
hash-bound document that is drafted, reviewed, approved, consumed and executed
once, with a journal of checkpoints and a read-back at the end. There is no
daemon: each command is a process, and processes meet only in the files of a
state directory, in the platform keyring, in a SQLite registry, and at
Cloudflare.

| Component | State | Operations | Interacts with |
|---|---|---|---|
| plan lock (`cfctl-storage`) | one lock file per operation: pid, creation time, nonce | `lock_plan`, `PlanLock::drop` | every command that writes a plan |
| plan lifecycle (`cfctl-core`, `plan_commands`, `api_boundary`, `api_execution`, `rectification`) | canonical PlanV2 and its PlanV1 projection: status, stage, journal, artifacts | approve, cancel, run, rectify | lock, store, admission policy, Cloudflare |
| delegated and governed CLI execution (`delegated_execution`, `governed_cli`), workspace D1 operations | the same documents; an external program | run, recovery checkpoint, verification, rectification in stages | plan lifecycle, Wrangler, cloudflared |
| admission policy (`cfctl-core`, `cfctl-storage`, `policy_commands`) | bundles with a status, the active pointer | stage, approve, activate, rollback, tighten | plan preparation pins it, run checks the pin |
| standing authority (`cfctl-core`, `keys_commands`, `plan_commands`) | grant: status, run log, minted tokens | approve, revoke, run under policy, lineage recovery | plans consumed without an approval of their own |
| event lane (`bridge/event-ingress`, `event_batch`, `cfctl-registry`) | Queue messages and leases, evidence, events and jobs by dedupe key | webhook, pull, ingest, acknowledge | one-use batch plans, Cloudflare Queues |
| D1 imports (`d1_import`, `import_*`, `rectification`) | plans of an import and its continuations, checkpoints with evidence | run, poll, continue, post_import read, rectify | plan lifecycle, the provider's import job |
| analytics-token renewal (`keys_commands`, `analytics_recovery`) | publisher and staging profile, credential slots, attempt and recovery records | renew, recover, roll back, revoke | standing authority, plans, credential store |
| keyring store (`cfctl-auth`) | inventory, root item, generations of chunks, migration journals | put, get, delete | every secret |
| evidence integrity keys (`evidence_keys`, `evidence_key_commands`) | key registry, marker file, intent, recovery plans, quarantine | initialize, resume, reset, rotate, retire, recover | keyring store, every evidence writer |
| evidence store | immutable bodies, descriptors, proof envelopes | write, verify | every lane |
| credentials | profiles, OAuth tokens | login, refresh, select, import | an input of every lane |
| registry projection | scopes, resources, observations | sync, rebuild | evidence |
| catalog, planner, workspace, agent, CLI | capability documents, impact, instructions | ingest, search, discover, render | plan preparation |

What is hard here:

* **Processes interleave between file-system calls.** The lock is a file with a
  lifetime of 15 minutes that is never renewed, while a run waits for the
  network; taking it over is check, remove and create, and Drop is read and
  remove.
* **Writes are not atomic together.** A plan is two files, an activation three
  writes, a standing admission three writes of two documents, a keyring value a
  dozen items, a key authority two stores. A write that took effect may still
  report an error.
* **The effect at Cloudflare is uncertain** after a lost response, HTTP 429 or
  5xx, or a program that failed half-way; the classification depends on the
  capability.
* **Checked values age.** The policy pin, the authority snapshot, the profile
  and the plan itself are read before awaits and used after them.
* **Recovery reads what an earlier process left.** Import continuations, token
  renewal and key initialization conclude from durable records what a process
  that died may have done.
* **The Queue delivers at least once**, leases expire, and requests of the
  batch lane are retried.

`PROJECT.json` lists these hazards line by line, each with the properties that
would catch it.

## 2. The modules

Each component has a module with its state and actions, an `MC` module with the
symmetry sets and constants of its runs, and a `Proofs` module with its theorems
(the plan lock's are in `PlanLifecycleProofs`). `OneUseTransaction` and `AtomicSecret` are abstract: what a
plan and a keyring value promise. Operators whose name has a suffix after an
underscore (`Release_IgnoresNonce`) are defects: a plausible wrong version of
the definition that follows, used to confirm that the properties notice it.

| Module | Uses |
|---|---|
| `PlanLifecycle` | `EXTENDS PlanLock`; `INSTANCE OneUseTransaction` |
| `KeyringStore` | `INSTANCE AtomicSecret` |
| `EvidenceKeys` | a keyring value as `AtomicSecret` allows it to behave |
| `AnalyticsRenewal` | a mint or revocation as `StandingAuthority` and `PlanLifecycle` allow it to end |
| `ImportProtocol` | the plan lock as held or free; how it can be lost is `PlanLock` |

### PlanLock

One plan's lock file and the processes that want it. Every file-system call is
one step: `TryLock`, `CheckExpired`, `RemoveExpired`, `Recreate` are the calls
of `lock_plan`; `CreatePlanLock` and `WriteRecord` those of `create_plan_lock`,
since the file exists empty before its record is written; `Release` and
`DropRemove` are the read and the remove of `PlanLock::drop`. The nonce is
represented by the creating process. `lockStolen` remembers that a live owner's
file was removed, `examined` who has read this very file. Ages are counted in
ticks up to one more than `LockTtl`.

### PlanLifecycle and OneUseTransaction

`EXTENDS PlanLock` and adds one plan. `v2` is the canonical document, `v1` the
projection, `run[p]` the command of a process: its copy of the plan (`mem`),
the document it is saving (`save`), and where it goes on (`then`). A save is
two steps (`WriteCanonical`, `WriteProjection`), either of which may fail
before or after taking effect. The journal is a set of stages:
`record_transaction_stage` only appends stages of higher rank, so a set and its
maximum determine the sequence. `capability.kind` chooses the lane and, on the
API lane, the treatment of HTTP 429/5xx and of verification. Notes:

* The command is chosen when the lock is held; `plans resume` is an unlocked
  check followed by `run_plan` and adds no behaviour.
* `Expired` is set only on a copy whose command then returns an error.
* All preflight failures are `Refuse`. On the API lane a failed write of
  verification evidence is a failed save: both end the command with the stored
  document as it was.
* A mutation is never retried by the transport (retry limit 0), a governed
  program is started once.
* A crash is the death of a process, not a power loss.
* The additional etag condition of the R2 rectification is left out.

The delegated lane (`execute_delegated_plan`) shares `PersistAttempt`, `Sink`,
`Readback` and `Finalize` with the API lane; `RunProgram` takes the place of
`Dispatch`, `PrepareHandoff` that of both for the governed UI:

* `Outcomes` of a program: exit status 0; a receipt of precondition reads that
  stopped before the mutation (`NotAttempted`); a failing exit status, after
  which part of the mutation may have happened; a started program without a
  receipt (timeout, lost output); a program that was not started. Only the
  first keeps the status of the plan, the others ask for rectification
  (`ReceiptStatus`), and only the first is verified (`Verifiable`).
* Once there is a receipt, any failure (evidence, a save, the sink) goes to
  `delegated_post_response_failure`: `BeginRecovery` on the copy as it was
  before the failure, then `Recover`, one checkpoint at `RecoveryStage`. Its
  own failure ends the command.
* A workspace D1 migration or projection can be rectified between the response
  and the verification response: `RectifyCheckpoint` makes the missing
  checkpoints, `RectifyPlan` reads back and closes or saves as it is.
* The governed UI (`handoff`) prepares an action and sends nothing.

`OneUseTransaction` has an authority (open, withdrawn, spent), one request and
one verdict. `ImplementsOneUse` maps status, crossings, effect and the closed
verdict to it. A verdict counts once the command that gives it is past its
save, because on the delegated lane a closing save that took effect and
reported an error is replaced by the recovery checkpoint.

### AdmissionPolicy

Bundles, the active pointer, administrators who activate or roll back under an
OS lock (released when the process dies), and plans that are prepared and run.
Activation is the writes `ActivateTarget`, `PublishPointer`,
`SupersedePrevious`; `InterruptActivation` stops it anywhere. Readers take no
lock: pointer and bundle are separate steps. `seen` (history) collects the
policies selected since a plan's run began. Rules are bound by the content hash
and therefore constant. `revoke()` has no caller; moving a state root is not
modelled.

### StandingAuthority

One grant, mints and deletes under it. The admission section keeps its three
writes apart; sections with one write are one step. The plan lock is reduced to
free, held or stale, which is all that lineage recovery sees of it. The clock
may be stepped either way. The bounds on a child token are checks of its input
and leave no state. The refusal of a guarded save is a second line of defence:
under the authority lock it never applies.

### EventPipeline

The Worker, the Queue (external: messages are absent, ready, leased or gone),
batches, evidence and the registry. A batch slot runs one plan after another.
The plan's own checkpoints are PlanLifecycle's subject; here a batch has the
status its plan ends with. A refused answer stands for 4xx, the last 429 or
5xx, an oversized batch and an unreadable body. A registry that cannot be opened
ends the process with the plan as it is and is a `Crash`. The Worker sends no
resource references; `Refs` is for the other producers the ledger accepts.
Retention and dead-lettering of the Queue are not modelled: `NoEventLost` says
that cfctl loses nothing the Queue keeps.

### ImportProtocol

A managed D1 import (`Root`) and its poll continuations (`Children`). A plan is
its status, stage and boundary outcome. `Send*` are the four requests,
`Receive` the classification of an answer, `DurableApply` and its evidence the
checkpoint that must exist before `FollowUp` may send the next one. A
continuation is derived (`DeriveAuthority`), saved, approved and run in separate
steps, so two preparations can pass the sibling check before either is visible;
the run checks again. `Exhaustion`, `OwnCompletion`, `ChildLifecycle` and
`LinearCompletion` are the predicates with which the code reads durable receipts
of one or several plans. `PostImportProof` and `Rectify` close locally. The
provider's job is external. The two MLN lanes differ in what they need to be
closed; `m0143` is exercised by `MCImportCircular.cfg`. The OSINT lane is not a
lane of the model: it runs like the reviewed one with a read-back of its own,
but `plans rectify` sends it to `rectify_approved_mln_import`
(`rectification.rs:77`) and not to `rectify_completed_reviewed_import`, so
`ReviewedImportCloses` says nothing about it.

### AnalyticsRenewal

One publisher profile. Every durable write and every await of
`renew_analytics_profile_locked` is an action and `Stop` may end the run before
each; a per-profile session lock admits one run at a time, but an operator may
import a credential beside it (`ImportToken`). `attempt` and `record` are the
two files that outlive a run. Tokens are numbered, 0 stands for none; a child,
its slot and its generation share a number. `unknown` are predecessors nobody
can name, which recovery must keep. An import may come at any moment but one:
`ImportToken` is disabled at `switch`, between the comparison of the profile
and its replacement, because `docs/runtime-policy.md:247` asks for a quiescent
activation window there and the code does nothing to serialize it. A revoke plan
is run once (`RunPlan`), and then verified or left unsettled, with or without its
effect, or it is cancelled or expires before (`LapsePlan`). `plans rectify` moves
none of them: for `account-api-tokens-delete-token` it answers that there is no
safe compensation and changes no status (`rectification.rs:207-221`).

### KeyringStore and AtomicSecret

One key of the macOS store. A value is a generation (manifest and chunks) named
by an inventory item; the root item belongs to older layouts. A mutation is the
list of item writes it has left: first the ones that reconcile what an
interrupted predecessor left, then its own. Any write may fail, with or without
effect, and the process may die between any two. Initial states are every older
layout (absent, raw, chunked by v1), optionally with items owned by the
superseded adapter. Writing such an item is the four calls of
`migrate_item_ownership`, each a step (`MigrateJournal`, `MigrateDelete`,
`MigrateRepublish`, `MigrateRetire`), any of which may fail
(`MigrationFails`; `MigrationLeavesJournal` when the value is read back all the
same). `get` takes no lock: it reads inventory and root one after the other,
each in two calls, the item (`ReadInventory`, `ReadRoot`) and, if that was
absent, its journal (`ReadInventoryJournal`, `ReadRootJournal`), and then the
chunks. The chunks are one step: each is written once, before its generation is
published, and erased once, so a get that finds all of them one by one would
also have found all of them when it read the first. The holder of the mutation
lock reads an item in one step (`RawGet`), since nobody else writes. The second
read of the root in `get_unmanaged` is the one that counts, for a root never
becomes a legacy manifest. `AtomicSecret`
promises that a put replaces and a delete removes in one step; the refinement
holds except for keys whose ownership migration was journaled (see section 4).

### EvidenceKeys

Registry (keyring), marker (file), initialization intent, recovery plans and the
artifacts authenticated so far. Commands and writers hold the exclusive
lifecycle lock, each write is a step, and every command may stop before or after
each. Root and generation identities are drawn from a counter. Adoption of an
existing registry is held unavailable by the code and not modelled.

## 3. The runs

| Run | Instance | Distinct states | Shows |
|---|---|---|---|
| `plan_lock` | 3 processes, 2 faults, TTL 2 | 86 704 | `MutualExclusion`, `DropKeepsSuccessor`, `OrphanIsReclaimed` |
| `plan_lifecycle` | 2 processes, 2 faults, every kind of capability | 2 729 280 | `AtMostOneCrossing`, `CrossingIsJournaled`, `AuthorityPrecedesBoundary`, `VerifiedMeansApplied`, `ProjectionNeverAhead`, `JournalKeepsBoundary`, `ImplementsOneUse` |
| `plan_lifecycle_live` | 2 processes, no faults | 607 560 | `CrossingResolves` |
| `admission_policy` | 2 bundles, 2 administrators, 2 plans, 2 interruptions | 348 544 | `PointerSelectsActive`, `ConsumedUnderSelectedPolicy`, `DecisionKeepsFloor` |
| `standing_authority` | 2 mints, 1 delete, 1 fault, budget 1 | 2 345 812 | `CrossingIsAccounted`, `RollingBudget`, `LineageBound`, `NoLostUpdate` |
| `standing_live` | 1 mint, 1 delete, 2 faults | 42 339 | `LineageRecovers` |
| `event_pipeline` | 2 batches, 3 messages, two of them colliding and one foreign, 1 retry | 1 808 253 | `AckedIsRecorded`, `NoEventLost`, `JobsMatchLedger` |
| `event_live` | 1 batch slot, 2 copies of a delivery and another one, 1 fault | 73 190 | `EventIsRecorded` |
| `d1_import` | 1 import, 2 continuations, 2 polls each, 2 crashes, lanes `reviewed` and `m0142` | 87 823 | `NoReplay`, `OneContinuation`, `TerminalIsTrue`, `ReviewedImportCloses` |
| `keyring` | 2 values, 3 generations of 1 chunk, 2 faults, items of both adapters | 4 458 036 | `NothingStranded`, `RetrySucceeds`, `ReadIsCurrent`, `ImplementsAtomicSecret` |
| `evidence_keys` | 2 processes, 2 recovery plans, 4 identities, 3 interruptions | 98 920 | `ArtifactsVerify`, `NeverStranded`, `SplitIsAttributed`, `MalformedBytesKept` |
| `analytics_renewal` | 4 tokens, 5 revoke plans, 2 stops, 1 import | 77 050 | `LiveTokensAreFenced`, `ActiveIsUsable`, `UnknownPredecessorKept`, `ImportSurvives`, `PendingIsReconciled` |

Bounds. Two processes are enough for every race of a lock with one holder and
one taker; the third in `plan_lock` adds a taker that overtakes another. Two
faults allow a crash during the recovery from a crash; three in `evidence_keys`
interrupt initialization, its rollback and a recovery. `LockTtl = 1` in
PlanLifecycle lets the lock go stale at any point of a run, `MaxCrossings = 2`
makes a second crossing visible. `MaxRunsPerDay = 1` with `Day = 1` and four
readings of the clock reach both sides of the 24-hour boundary and an expired
grant. One retry is enough to tell a repeated request from the first; the two
batches of `event_pipeline` hold the same message at the same time once a lease
has expired. Two continuations race for one exhaustion or follow each other;
two polls distinguish the first, the last and the exhaustion. Three generations
let a put replace, fail and be repeated; one chunk and a manifest already make a
generation that can be half written. Four tokens are the first, a child, its
successor and an import.

`plan_lifecycle` and its live companion are constrained to states in which no
live owner's lock has been removed (`LockIntact`): most properties claim nothing
beyond. Two do, `AuthorityPrecedesBoundary` and `VerifiedMeansApplied`; TLC
checks them within the constraint and section 5 proves them without it.
`AutoSampled` combines auto-execution with one kind of each lane, since the
one is read before the boundary and the other after it. `CHECK_DEADLOCK FALSE`
appears where a system may really stop: bundles and plans at their end, bounded
identities, generations or tokens used up.

Every module states its types (`TypeOK`, `LockTypeOK`), and all are proved.

### Fairness

* `plan_lock`: the calls of `lock_plan` and of Drop return, clocks run,
  and the operator repeats a command that found the plan locked.
* `plan_lifecycle_live`: a command that has started goes on; its awaits are
  bounded by the timeouts of the HTTP client and of the governed program.
* `standing_live`: the admission section has no awaits, the plan lock of a dead
  run becomes stale, and the operator runs `plans rectify` as the error message
  asks.
* `event_live`: leases time out, the operator keeps running batches, and a
  message that is visible again and again is at last returned by a pull
  (strong fairness, a property of the Queue). Only messages the plan accepts
  are considered: one that is not fails every batch it is in.
* `d1_import`: a started process goes on, and the operator follows the printed
  next step, the post_import read and `plans rectify`.
* `analytics_renewal`: the publisher repeats its renewal, the creation of a
  revoke plan does not fail for ever (strong fairness, it depends on local
  storage only), and a revoke plan does not stay a draft: it is run, cancelled,
  or the clock takes it past its expiry. That a plan which was run ends verified
  is not assumed.

## 4. Disagreements with the documentation

Seven configurations beside the runs state a sentence of the repository that the
code does not keep; TLC finds each one violated.

| Configuration and property | Sentence | Why not |
|---|---|---|
| `MCPlanLockNewer`, `NewerLockKept` | nonce ownership prevents deleting a newer lock (`docs/runtime-policy.md:113`) | the takeover path compares no nonce (`cfctl-storage/src/lib.rs:1067`) |
| `MCPlanOneUse`, `OneUse` | plans are one-use transactions (`docs/v2-security.md:36`) | the lock is not renewed during a run longer than `LOCK_TTL` |
| `MCPlanAmbiguity`, `AmbiguityIsRectifiable` | 429/5xx of a rollback is reconciled by rectify (`capability-procedures.md:1039`) | stored as failed first (`cfctl-cloudflare/src/lib.rs:3504`); a crash keeps it so |
| `MCEventOneRequest`, `OneRequestEach` | exactly one pull and acknowledgement (`event_batch.rs:58`) | the read dispatch retries both (`cfctl-cloudflare/src/lib.rs:2901`) |
| `MCImportCircular`, `PrintedNextStepCloses` | a completed 0143 import prints: run the post_import read, then `plans rectify` (`import_resume.rs:1034`) | the read wants the import plan verified and closed (`read_execution.rs:309`), rectify wants the read's proof and a running plan (`rectification.rs:1175`) |
| `MCKeyringJournal`, `JournalIsInert` | a stop after the republish leaves an inert journal the primary shadows (`macos_keyring_platform.rs:584`) | a later delete removes only the primary (776-786), and the journal answers again |
| `MCKeyringTorn`, `AbsentIsAbsent` | the journal answers in exactly the window in which the item is absent, so a migration never reads as a missing credential (`macos_keyring_platform.rs:569-571`, `725-727`) | item and journal are two calls without a lock: the item is read between delete and republish, the journal after it was retired |

The first two need two takers of one stale lock, or a run that outlives the
lock's 15 minutes; what holds without them is stated with `~lockStolen`.

More can be read off the models:

* `docs/runtime-policy.md` calls cancellation monotonic. A run that lost its
  lock to a cancellation saves its consumption over it.
* `README.md` says the journal persists every checkpoint. A checkpoint whose
  save took effect but reported an error can be replaced by the next one made
  on the older copy; `JournalKeepsBoundary` states exactly which.
* On the delegated lane a closing save that reports an error leaves
  RectificationRequired at Closed, also over a document that already said
  Verified; the rectification of workspace D1 plans no longer accepts it.
* A comment in `cfctl-cloudflare` says an uncertain write is reconciled by the
  lifecycle. For capabilities without a rule of their own, HTTP 429 and 5xx are
  closed as failed without a read-back (`RejectedOutright`).
* `README.md` calls activation atomic. It is three writes, and an interruption
  leaves a second active bundle; `PointerSelectsActive` is what survives.
* `README.md` says any drift invalidates approval. The policy pin is not
  compared again at consumption; `ConsumedUnderSelectedPolicy` is what the
  check does give.
* `docs/capability-safety-contracts.md:22` lets a cancelled pre-consumption
  continuation be replaced. Its checkpoint directory does not exist, reading it
  fails, and with it the replacement (`CheckpointsReadable`, `Replaceable`).
* An exhausted import root is not rectifiable after its continuation completed;
  a second post_import read makes rectify refuse; the MLN rectifications do not
  resume between verification attempt and response.
* A lock-free keyring `get` that found no inventory, before the first managed
  put published it or between two calls of its migration, can return the root
  marker as if it were the value. One that read the root in the middle of its
  migration can answer absent for a secret that was stored throughout.
  `ReadIsCurrent` states both exceptions, and that there is no third.
* Renewal plans a revocation only while none is recorded
  (`keys_commands.rs:843-847`) and refuses until the recorded plan is verified
  (`915`). When that plan failed, asks for rectification, was cancelled or
  expired, no command makes it verified, and every later renewal answers that
  the revocation is pending. `PendingIsReconciled` excepts it
  (`RevokePlanSpent`).
* In token renewal the repair of a pending revocation saves the profiles it
  read before an await; a stop between the reconciled save and the close keeps
  the attempt open; the sink file of a stopped run stays until the next one,
  although a comment says otherwise (`keys_commands.rs:1105`).

## 5. The proofs

The theorems hold for every value of the constants under the named assumptions
of the modules: sets of model values are disjoint where the code tells their
members apart, bounds are natural numbers, and those of them are positive
without which an initial state or a step of the code would not exist: the first
token exists (`MaxTokens`), the first identity can be drawn (`MaxIds`), an
import polls (`MaxPolls`), a managed key has a generation (`MaxGen`) and a
generation a chunk (`N`). PlanLock assumes `PartialRecordTtl <= LockTtl`,
StandingAuthority a finite set of operations. No theorem has a hypothesis other
than the specification, except `ImplementsOneUseHolds`; what the keyring
store's theorems except (a journal that is left, a get that falls between the
calls of a migration or before the first publication) is part of the properties.

Each inductive invariant holds initially and is kept by every action, by one
lemma per action or per class of actions that write the same state.

* **PlanLifecycleProofs, the lock.** `LockTypeCorrect`, `OwnerKeepsFileHolds`,
  `MutualExclusionHolds`, `DropKeepsSuccessorHolds`. `OwnerKeepsFile` is
  inductive with the types: while nothing was stolen an owner's file is at the
  path, so an exclusive create cannot succeed for another. Mutual exclusion
  follows, one file having one owner. `DropKeepsSuccessor` speaks of steps and
  needs `DropInv`: a guard past its nonce test has not examined a file of
  someone else that is at the path now.
* **PlanLifecycleProofs, the plan.** `TypeCorrect`, `AuthorityPrecedesBoundaryHolds`,
  `AtMostOneCrossingHolds`, `CrossingIsJournaledHolds`,
  `VerifiedMeansAppliedHolds`, `ProjectionNeverAheadHolds`,
  `JournalKeepsBoundaryHolds`, `ImplementsOneUseHolds`. None is inductive as it
  stands.
  * `CrossingInv` relates each process's position to its copy, the document
    being saved and the stored one (a process at `dispatch` holds the lock, its
    boundary attempt is stored, and nothing has crossed; a plan that shows a
    consumption is never loaded into a run again), and needs the lock's
    invariant to say that no other process is past loading. For the delegated
    lane it also says that a run before its request holds no outcome, and that a
    save made with one leaves a copy that shows the boundary attempt, from which
    the recovery checkpoint starts.
  * `AuthorityInv` and `BackedInv` extend `AuthorityPrecedesBoundary` and
    `VerifiedMeansApplied` to the copies in memory and the saves under way, and
    tie the answer a command works with to what happened at the provider. They do
    not assume the lock.
  * `JournalInv` says how far the stored document can be from the copy in
    memory at each position: equal, or one checkpoint ahead where a command
    survives the failure of a save.
  * `ImplementsOneUse` is the refinement of `OneUseTransaction`, step by step,
    from all of these. It is proved for the behaviours in which no live owner's
    lock is removed (`Spec /\ []~lockStolen`): `plan_lock` shows that a removal
    can happen, and with it the one-use promise is lost.
* **AdmissionPolicyProofs.** `PolicyTypeCorrect`, `PointerSelectsActiveHolds`,
  `ConsumedUnderSelectedPolicyHolds`, `DecisionKeepsFloorHolds`, from one
  invariant `PolicyInv`: an activation in progress has an active target and
  knows the selected bundle (`ActivationSound`), and a plan carries a decision
  that respects its pin (`PlanSound`).
* **StandingAuthorityProofs.** `StandingTypeCorrect`,
  `CrossingIsAccountedHolds`, `RollingBudgetHolds`, `LineageBoundHolds`, and the
  action property `NoLostUpdateHolds`. `StandingInv` adds that a run inside the
  admission section holds the authority lock, and that a reservation that is
  only in memory was made on the document that is stored (`ReservationOf`): this
  carries the budget and the minted tokens over the gap between load and save.
* **EventPipelineProofs.** `EventTypeCorrect`, `AckedIsRecordedHolds`,
  `NoEventLostHolds`, `JobsMatchLedgerHolds`. `EventInv` adds that a batch about
  to ingest has stored the evidence of its messages and one about to acknowledge
  has them recorded (`BatchInv`), and that an accepted delivery became a message
  (`AcceptedInv`). The type theorem rests on `RequestInv`, which bounds the
  requests of a plan by its position.
* **ImportProtocolProofs.** `ImportTypeCorrect`, `NoReplayHolds`,
  `OneContinuationHolds`, `TerminalIsTrueHolds`. `ImportInv` reads off the
  position of the root's process which requests cannot have been sent yet
  (`OneShot`), extends the sibling rule to continuations that are admitted and
  have not crossed (`NoRival`), fixes how far a plan has come at each position of
  its process (`Phase`) and makes a completion in memory the provider's
  (`Truth`).
* **EvidenceKeysProofs.** `KeysTypeCorrect`, `ArtifactsVerifyHolds`,
  `SplitIsAttributedHolds`, `MalformedBytesKeptHolds`, `NeverStrandedHolds`.
  `KeyInv` says what the holder of the lifecycle lock has established before
  each of its writes (`CommandInv`); that no other process is inside a command
  (`LockInv`) keeps it true between them. `MalformedBytesKept` speaks of
  steps: `BytesAccountedFor`, part of `KeyInv`, holds after each, and none puts
  malformed bytes back (`NeverMalformedAgain`).
* **AnalyticsRenewalProofs.** `RenewalTypeCorrect`, `LiveTokensAreFencedHolds`,
  `ActiveIsUsableHolds`, `UnknownPredecessorKeptHolds`, and the action property
  `ImportSurvivesHolds`. `RenewalInv` has a part about the stored state (the
  shape of a profile, a verified revocation is of a dead token, no revocation of
  the active token is planned) and one about the run: the profile is the one it
  expects or an import displaced it (`Position`), a durable record names its
  mint (`FenceInv`), what it may still roll back to is live, stored and not
  planned for revocation (`UsableInv`), and the unknown predecessor is no
  predecessor of an ordinary renewal (`KeptRun`).
* **KeyringStoreProofs.** `KeyringTypeCorrect`, `NothingStrandedHolds`,
  `RetrySucceedsHolds`, `ReadIsCurrentHolds`, `ImplementsAtomicSecretHolds`.
  None is inductive: what a write may do depends on the writes that came before
  it, and the list that is left has a length that depends on `N`. `KeyringInv`
  has five parts.
  * `StoreInv` says what the items can look like between any two writes: which
    generations an inventory names (`Shape`), that parts and legacy chunks are
    named (`Named`, `LegacyInv`), that a published generation is complete and one
    in service is marked in the root (`RootInv`, `ServedInv`), and what a journal
    can hold. The exception in `ServedInv` is a deleted inventory that its
    journal brought back.
  * `OpInv` describes the list of writes by the inventory: a partly done segment
    (`Staging`, `Cleaning`, `CleaningLegacy`, at some position `k`) and a fixed
    tail. `DoingAdvances` reads the next write off it as one of a dozen moves of
    the inventory, the root or a part (`InvMove`, `RootMove`, `PartMove`); from
    there on lists play no part, and one lemma for each item shows that the move
    keeps the store, whole, interrupted or refused (`Landed`).
  * `MigInv` says that the journal of an item under migration holds the value of
    the write in progress, and that the inventory is migrated only while the root
    marks the key.
  * `ReaderInv` says of a get in progress that what it has read, and what it may
    still read in a journal, allows only answers that were current since it
    began, or one of the two exceptions. It survives (`Undisturbed`) because the
    values of drawn generations do not change, the root only becomes the marker
    or goes when the secret does, parts appear only in the generation being
    staged, and the journal of an inventory found absent is only retired, under
    a marked root.
  * `Outcome` sharpens `RetrySucceeds`: an error without a fault needs an item
    whose journal outlived its migration (`Stuck`).
  * The refinement follows from `SecretIs`, which gives the secret in terms of
    inventory, root and values only, and `EffectCrosses`: of all writes, only the
    one that publishes, the one that records a deletion and the one that ends it
    change the secret.

Only model-checked: `OrphanIsReclaimed`, `CrossingResolves`, `LineageRecovers`,
`EventIsRecorded`, `ReviewedImportCloses` and `PendingIsReconciled`. Liveness
under fairness is out of the prover's reach.

What a recursive definition computes for every input cannot be proved here; the
modules avoid recursion.

## 6. Plan

Done: plan lock; plan lifecycle with the API, delegated, workspace D1 and UI
lanes and its refinement of `OneUseTransaction`; admission policy; standing
authority; event lane; D1 imports; token renewal; keyring store and its
refinement of `AtomicSecret`; evidence keys; the proofs of section 5.

Next modules: plan sets and compensation; the evidence store's bodies,
descriptors and indexes; OAuth refresh and the fallback between keyring and
file; private state roots; the rest of the registry.

## 7. Not modelled

Catalog ingestion, request building and schema validation, pagination, the
parsing of program output and the provider-specific verifiers are
transformations of data without shared state. The same is true of most of the
workspace D1 code: manifests, ledgers and qualifications are compared, and a
difference makes a run refuse or a read-back fail. Workspace discovery and agent
integration only read files or write text. OAuth login and refresh are inputs of
the modelled lanes. The site, the fan-out Worker, packaging and the legacy
scripts are outside the control plane's core. Plan sets, compensation, private
state roots and the registry's rebuild are in the plan.
