--------------------------- MODULE ImportProtocol ---------------------------
(***************************************************************************)
(* A managed D1 import: init, upload, ingest, bounded polls, each followed *)
(* by a durable checkpoint before the next request may leave, the poll     *)
(* continuations (children) that take over an exhausted poll budget, and   *)
(* the local rectification that closes the operation.                      *)
(*                                                                         *)
(* A plan is its status, its transaction stage and the outcome recorded in *)
(* its boundary artifact; hashes, bookmarks and receipts are abstracted to *)
(* the facts the exactness checks read from them.  The plan lock is held   *)
(* from RunAdmit, or from the first step of a rectification, until run     *)
(* goes back to "idle" (how it can be lost is PlanLock's subject).         *)
(***************************************************************************)
EXTENDS Naturals, Sequences, FiniteSets

CONSTANTS Root,          \* operation id of the import plan
          Children,      \* operation ids of poll continuations
          Lanes,         \* which governed import: "reviewed", "m0142", "m0143"
          MaxPolls,      \* max_poll_attempts of the contract
          MaxProofs,     \* bound: post_import reads bound to the root
          MaxCrashes     \* bound: process crashes in one behaviour

ASSUME ImportAssumption ==
  /\ Root \notin Children
  /\ Lanes \subseteq {"reviewed", "m0142", "m0143"}
  /\ MaxPolls \in Nat \ {0} /\ MaxProofs \in Nat /\ MaxCrashes \in Nat

Ops == {Root} \cup Children

Statuses == {"none", "draft", "approved", "cancelled", "consumed", "running",
             "rect", "verified", "rectified"}

CrossedStages == {"consumption", "attempt", "response", "sink", "vattempt",
                  "vresponse", "closed"}

Stages == {"none", "approval"} \cup CrossedStages

Outcomes == {"none", "accepted", "exhausted", "init_failure", "failure", "unknown"}

Steps == {"none", "init", "upload", "ingest", "poll", "complete", "exhausted"}

Results == {"none", "ok", "session", "progress", "complete", "bad", "uncertain"}

Receipts == [step : Steps, n : 0 .. MaxPolls, res : Results]

Checkpoints == [step : Steps, n : 0 .. MaxPolls, res : Results, ev : BOOLEAN]

Positions == {"idle", "derived", "admitted", "consumed", "send", "record",
              "evidence", "response", "sink", "verify", "reverify", "abandon", "join"}

NoReceipt == [step |-> "none", n |-> 0, res |-> "none"]

Ask(step, n) == [step |-> step, n |-> n, res |-> "none"]

VARIABLES
  lane,      \* the capability of the root plan
  plan,      \* durable plan document of every operation
  parent,    \* parent_operation_id a poll continuation is bound to
  ckpt,      \* d1-import-checkpoints/<operation>, in sequence order
  run,       \* where the process working on the operation is
  resp,      \* the receipt that process holds in memory
  import,    \* external: the provider's import job
  sent,      \* ghost: requests the provider may have seen, per action
  proof,     \* governed post_import proofs bound to the root
  crashes

vars == <<lane, plan, parent, ckpt, run, resp, import, sent, proof, crashes>>

----------------------------------------------------------------------------
(* What the durable checkpoints and the plan document establish.            *)

At(op, status, stage) == plan[op].status = status /\ plan[op].stage = stage

Crossed(op) == plan[op].stage \in CrossedStages

\* Reading the checkpoints of an operation that never recorded one fails:
\* its directory does not exist.
CheckpointsReadable(op) == ckpt[op] # <<>>

IsReceipt(c, step, n, res) == c.step = step /\ c.n = n /\ c.res = res /\ c.ev

\* Every bounded poll in order right after position i, the exhaustion last.
ExhaustionAfter(op, i) ==
  /\ Len(ckpt[op]) = i + MaxPolls + 1
  /\ \A k \in 1 .. MaxPolls : IsReceipt(ckpt[op][i + k], "poll", k, "progress")
  /\ IsReceipt(ckpt[op][i + MaxPolls + 1], "exhausted", 0, "none")

AcceptedIngest(i) == IsReceipt(ckpt[Root][i], "ingest", 0, "progress")

RootExhaustion ==
  \E i \in DOMAIN ckpt[Root] : AcceptedIngest(i) /\ ExhaustionAfter(Root, i)

\* exact_resume_poll_exhaustion also rereads the root's accepted ingest.
ChildExhaustion(c) ==
  /\ ExhaustionAfter(c, 0)
  /\ \E i \in DOMAIN ckpt[Root] : AcceptedIngest(i)

Exhaustion(op) == IF op = Root THEN RootExhaustion ELSE ChildExhaustion(op)

CompleteAt(op) == {i \in DOMAIN ckpt[op] : ckpt[op][i].step = "complete"}

OwnCompletion(op) ==
  /\ Cardinality(CompleteAt(op)) = 1
  /\ \A i \in CompleteAt(op) : ckpt[op][i].ev
  /\ \E i \in DOMAIN ckpt[Root] :
       /\ ckpt[Root][i].step = "ingest" /\ ckpt[Root][i].ev
       /\ ckpt[Root][i].res \in {"progress", "complete"}

Saved(c) == plan[c].status # "none"

\* validate_canonical_poll_child_lifecycle: a child stands at the sealed sink,
\* either running with its own completion or exhausted with its artifact.
ChildLifecycle(c) ==
  \/ At(c, "running", "sink") /\ OwnCompletion(c) /\ plan[c].outcome = "accepted"
  \/ At(c, "rect", "sink") /\ ChildExhaustion(c) /\ plan[c].outcome = "exhausted"

LinearCompletion ==
  LET claimed == {c \in Children : Saved(c)}
      done    == {c \in claimed : At(c, "running", "sink")}
  IN  /\ \A c \in claimed : ChildLifecycle(c)
      /\ Cardinality(done) = 1
      /\ \A c \in claimed : Exhaustion(parent[c])

ProviderComplete ==
  /\ CheckpointsReadable(Root)
  /\ IF CompleteAt(Root) = {} THEN LinearCompletion ELSE OwnCompletion(Root)

\* Only a cancelled, uncrossed sibling without a provider checkpoint may be
\* replaced; the checkpoints are read first, and a failed read refuses.
Replaceable(s) ==
  /\ CheckpointsReadable(s)
  /\ plan[s].status = "cancelled" /\ ~Crossed(s) /\ ckpt[s] = <<>>

SiblingFree(c, p) ==
  \A s \in Children \ {c} : Saved(s) /\ parent[s] = p => Replaceable(s)

DeriveAuthority(c, p) ==
  /\ Exhaustion(p)
  /\ plan[p].outcome = "exhausted"
  /\ SiblingFree(c, p)

InitFailure ==
  /\ Len(ckpt[Root]) = 1
  /\ \E res \in {"session", "bad"} : IsReceipt(ckpt[Root][1], "init", 0, res)

----------------------------------------------------------------------------
Blank == [status |-> "none", stage |-> "none", outcome |-> "none"]

Init ==
  /\ lane \in Lanes
  /\ plan = [op \in Ops |-> IF op = Root THEN [Blank EXCEPT !.status = "draft"] ELSE Blank]
  /\ parent = [c \in Children |-> Root]
  /\ ckpt = [op \in Ops |-> <<>>]
  /\ run = [op \in Ops |-> "idle"]
  /\ resp = [op \in Ops |-> NoReceipt]
  /\ import = "none"
  /\ sent = [a \in {"init", "upload", "ingest"} |-> 0]
  /\ proof = 0
  /\ crashes = 0

Move(op, status, stage) ==
  plan' = [plan EXCEPT ![op].status = status, ![op].stage = stage]

Go(op, position) == run' = [run EXCEPT ![op] = position]

\* `call d1-resume-...`: the sibling check and the save are two steps, and no
\* lock spans them.
PrepareDerive(c) ==
  /\ run[c] = "idle" /\ ~Saved(c)
  /\ \E p \in Ops \ {c} :
       /\ Saved(p) /\ DeriveAuthority(c, p)
       /\ parent' = [parent EXCEPT ![c] = p]
  /\ Go(c, "derived")
  /\ UNCHANGED <<lane, plan, ckpt, resp, import, sent, proof, crashes>>

PrepareSave(c) ==
  /\ run[c] = "derived"
  /\ Move(c, "draft", "none") /\ Go(c, "idle")
  /\ UNCHANGED <<lane, parent, ckpt, resp, import, sent, proof, crashes>>

Approve(op) ==
  /\ run[op] = "idle" /\ plan[op].status = "draft"
  /\ Move(op, "approved", "approval")
  /\ UNCHANGED <<lane, parent, ckpt, run, resp, import, sent, proof, crashes>>

Cancel(op) ==
  /\ run[op] = "idle" /\ plan[op].status \in {"draft", "approved"}
  /\ Move(op, "cancelled", plan[op].stage)
  /\ UNCHANGED <<lane, parent, ckpt, run, resp, import, sent, proof, crashes>>

\* Defect: a consumed plan may be run again after its process died.
RunAdmit_RetriesConsumed(op) ==
  /\ run[op] = "idle" /\ plan[op].status \in {"approved", "consumed"}
  /\ op \in Children => DeriveAuthority(op, parent[op])
  /\ Go(op, "admitted")
  /\ UNCHANGED <<lane, plan, parent, ckpt, resp, import, sent, proof, crashes>>

\* Defect: the authority derived by the preparation is trusted.
RunAdmit_TrustsPreparation(op) ==
  /\ run[op] = "idle" /\ plan[op].status = "approved"
  /\ Go(op, "admitted")
  /\ UNCHANGED <<lane, plan, parent, ckpt, resp, import, sent, proof, crashes>>

\* `plans run`: a child derives its authority again before it may consume.
RunAdmit(op) ==
  /\ run[op] = "idle" /\ plan[op].status = "approved"
  /\ op \in Children => DeriveAuthority(op, parent[op])
  /\ Go(op, "admitted")
  /\ UNCHANGED <<lane, plan, parent, ckpt, resp, import, sent, proof, crashes>>

Consume(op) ==
  /\ run[op] = "admitted"
  /\ Move(op, "consumed", "consumption") /\ Go(op, "consumed")
  /\ UNCHANGED <<lane, parent, ckpt, resp, import, sent, proof, crashes>>

Attempt(op) ==
  /\ run[op] = "consumed"
  /\ Move(op, "consumed", "attempt") /\ Go(op, "send")
  /\ resp' = [resp EXCEPT ![op] = IF op = Root THEN Ask("init", 0) ELSE Ask("poll", 1)]
  /\ UNCHANGED <<lane, parent, ckpt, import, sent, proof, crashes>>

----------------------------------------------------------------------------
(* Requests.  An uncertain result leaves open whether the provider acted.   *)

Receive(op, res) ==
  /\ resp' = [resp EXCEPT ![op].res = res]
  /\ Go(op, "record")
  /\ UNCHANGED <<lane, plan, parent, ckpt, proof, crashes>>

Sending(op, step) == run[op] = "send" /\ resp[op].step = step

\* "session" is an upload session the local URL or filename rules reject.
SendInit(op) ==
  /\ Sending(op, "init")
  /\ \E res \in {"ok", "session", "bad", "uncertain"} : Receive(op, res)
  /\ sent' = [sent EXCEPT !.init = @ + 1]
  /\ UNCHANGED import

SendUpload(op) ==
  /\ Sending(op, "upload")
  /\ \E res \in {"ok", "bad", "uncertain"} : Receive(op, res)
  /\ sent' = [sent EXCEPT !.upload = @ + 1]
  /\ UNCHANGED import

SendIngest(op) ==
  /\ Sending(op, "ingest")
  /\ \E res \in {"progress", "complete", "bad", "uncertain"} :
       /\ Receive(op, res)
       /\ import' \in CASE res = "progress" -> {"active"}
                        [] res = "complete" -> {"complete"}
                        [] OTHER -> {"none", "active", "complete", "failed"}
  /\ sent' = [sent EXCEPT !.ingest = @ + 1]

SendPoll(op) ==
  /\ Sending(op, "poll")
  /\ \E res \in {"progress", "complete", "bad", "uncertain"} :
       /\ res = "progress" => import = "active"
       /\ res = "complete" => import = "complete"
       /\ Receive(op, res)
  /\ UNCHANGED <<import, sent>>

\* External: the accepted job ends while nobody polls.
ProviderFinishes ==
  /\ import = "active"
  /\ import' \in {"complete", "failed"}
  /\ UNCHANGED <<lane, plan, parent, ckpt, run, resp, sent, proof, crashes>>

----------------------------------------------------------------------------
(* persist_d1_import_checkpoint: the checkpoint file, then for every receipt *)
(* but an accepted init the immutable Apply evidence with the same hash.     *)

FollowUp(r) ==
  CASE r.step = "init"   /\ r.res = "ok" -> [at |-> "send", next |-> Ask("upload", 0)]
    [] r.step = "upload" /\ r.res = "ok" -> [at |-> "send", next |-> Ask("ingest", 0)]
    [] r.step \in {"ingest", "poll"} /\ r.res = "progress" /\ r.n < MaxPolls
         -> [at |-> "send", next |-> Ask("poll", r.n + 1)]
    [] r.step = "poll" /\ r.res = "progress" /\ r.n = MaxPolls
         -> [at |-> "record", next |-> Ask("exhausted", 0)]
    [] r.step \in {"ingest", "poll"} /\ r.res = "complete"
         -> [at |-> "record", next |-> Ask("complete", 0)]
    [] OTHER -> [at |-> "response", next |-> r]

Continue(op) ==
  LET f == FollowUp(resp[op])
  IN  Go(op, f.at) /\ resp' = [resp EXCEPT ![op] = f.next]

DurableApply(r) == ~(r.step = "init" /\ r.res = "ok")

RecordCheckpoint(op) ==
  LET r == resp[op]
  IN  /\ run[op] = "record"
      /\ ckpt' = [ckpt EXCEPT ![op] =
                    Append(@, [step |-> r.step, n |-> r.n, res |-> r.res, ev |-> FALSE])]
      /\ IF DurableApply(r) THEN Go(op, "evidence") /\ UNCHANGED resp
                            ELSE Continue(op)
      /\ UNCHANGED <<lane, plan, parent, import, sent, proof, crashes>>

WriteApplyEvidence(op) ==
  /\ run[op] = "evidence"
  /\ ckpt' = [ckpt EXCEPT ![op][Len(ckpt[op])].ev = TRUE]
  /\ Continue(op)
  /\ UNCHANGED <<lane, plan, parent, import, sent, proof, crashes>>

\* A checkpoint that cannot be persisted ends the protocol as unknown.
PersistFails(op) ==
  /\ run[op] \in {"record", "evidence"}
  /\ Go(op, "response")
  /\ resp' = [resp EXCEPT ![op] = [NoReceipt EXCEPT !.res = "uncertain"]]
  /\ UNCHANGED <<lane, plan, parent, ckpt, import, sent, proof, crashes>>

----------------------------------------------------------------------------
(* The boundary response, the sealed sink and the verification.             *)

\* Defect: an exhausted poll budget counts as an accepted import.
OutcomeOf_AcceptsExhaustion(r) ==
  CASE r.step \in {"complete", "exhausted"} -> "accepted"
    [] r.step \notin {"complete", "exhausted"} /\ r.res = "uncertain" -> "unknown"
    [] OTHER -> "failure"

OutcomeOf(r) ==
  CASE r.step = "complete"   -> "accepted"
    [] r.step = "exhausted"  -> "exhausted"
    [] r.step \notin {"complete", "exhausted"} /\ r.res = "uncertain" -> "unknown"
    [] r.step = "init" /\ r.res # "uncertain" -> "init_failure"
    [] OTHER -> "failure"

PersistBoundaryResponse(op) ==
  LET out == OutcomeOf(resp[op])
  IN  /\ run[op] = "response"
      /\ plan' = [plan EXCEPT ![op] =
                    [status  |-> IF out = "accepted" THEN "running" ELSE "rect",
                     stage   |-> "response",
                     outcome |-> out]]
      /\ Go(op, "sink")
      /\ UNCHANGED <<lane, parent, ckpt, resp, import, sent, proof, crashes>>

PersistSecretSink(op) ==
  /\ run[op] = "sink"
  /\ Move(op, plan[op].status, "sink")
  /\ Go(op, IF plan[op].outcome = "accepted" THEN "verify" ELSE "idle")
  /\ resp' = [resp EXCEPT ![op] = NoReceipt]
  /\ UNCHANGED <<lane, parent, ckpt, import, sent, proof, crashes>>

\* The durable completion cannot be re-established against the present
\* checkout: the root moves on to its verification attempt as recovery, a
\* child only changes its status.
CompletionUnproven(op) ==
  /\ run[op] = "verify" /\ plan[op].stage = "sink"
  /\ Move(op, "rect", IF op = Root THEN "vattempt" ELSE "sink") /\ Go(op, "idle")
  /\ UNCHANGED <<lane, parent, ckpt, resp, import, sent, proof, crashes>>

\* The approved lanes stop here, running, and wait for the post_import proof.
AwaitProof(op) ==
  /\ lane # "reviewed" /\ run[op] = "verify"
  /\ Go(op, "idle")
  /\ UNCHANGED <<lane, plan, parent, ckpt, resp, import, sent, proof, crashes>>

\* The reviewed lane verifies at once, one stage per step: in the executing
\* process, or in the local rectifier of a completed import.
VerifyStep(op) ==
  /\ lane = "reviewed" /\ run[op] \in {"verify", "reverify"}
  /\ \/ /\ plan[op].stage = "sink"
        /\ Move(op, plan[op].status, "vattempt") /\ UNCHANGED run
     \/ /\ plan[op].stage = "vattempt"
        /\ Move(op, "verified", "vresponse") /\ UNCHANGED run
     \/ /\ plan[op].stage = "vresponse"
        /\ Move(op, "verified", "closed") /\ Go(op, "idle")
  /\ UNCHANGED <<lane, parent, ckpt, resp, import, sent, proof, crashes>>

----------------------------------------------------------------------------
(* plans rectify, and the governed read it waits for.                       *)

InitOnly == Len(ckpt[Root]) = 1 /\ ckpt[Root][1].step = "init"

\* Defect: a verification attempt already persisted is not taken up again.
RectifyReviewed_SinkOnly ==
  /\ lane = "reviewed" /\ run[Root] = "idle" /\ CheckpointsReadable(Root) /\ ~InitOnly
  /\ plan[Root].status \in {"running", "rect"} /\ plan[Root].stage = "sink"
  /\ ProviderComplete
  /\ plan[Root].outcome = "accepted"
  /\ Go(Root, "reverify")
  /\ UNCHANGED <<lane, plan, parent, ckpt, resp, import, sent, proof, crashes>>

RectifyReviewed ==
  /\ lane = "reviewed" /\ run[Root] = "idle" /\ CheckpointsReadable(Root) /\ ~InitOnly
  /\ \/ plan[Root].status \in {"running", "rect"} /\ plan[Root].stage \in {"sink", "vattempt"}
     \/ At(Root, "verified", "vresponse")
  /\ ProviderComplete
  /\ plan[Root].outcome = "accepted"
  /\ Go(Root, "reverify")
  /\ UNCHANGED <<lane, plan, parent, ckpt, resp, import, sent, proof, crashes>>

\* An init that was answered but refused locally is brought forward to the
\* sealed sink from its one durable checkpoint.
RectifyInitRecover ==
  /\ run[Root] = "idle" /\ InitFailure
  /\ \/ /\ At(Root, "consumed", "attempt")
        /\ plan' = [plan EXCEPT ![Root] =
                      [status |-> "rect", stage |-> "response", outcome |-> "init_failure"]]
     \/ /\ At(Root, "rect", "response") /\ plan[Root].outcome = "init_failure"
        /\ Move(Root, "rect", "sink")
  /\ UNCHANGED <<lane, parent, ckpt, run, resp, import, sent, proof, crashes>>

\* An unuploaded session is abandoned: the first stage is persisted here.
RectifyAbandon ==
  /\ run[Root] = "idle" /\ At(Root, "rect", "sink")
  /\ InitFailure /\ ckpt[Root][1].res = "session"
  /\ Move(Root, "rect", "vattempt") /\ Go(Root, "abandon")
  /\ UNCHANGED <<lane, parent, ckpt, resp, import, sent, proof, crashes>>

\* The approved lanes join the completion to exactly one post_import proof: a
\* second read bound to the same import makes the join refuse.
RectifyJoin ==
  /\ lane # "reviewed" /\ run[Root] = "idle" /\ At(Root, "running", "sink")
  /\ ProviderComplete /\ proof = 1
  /\ Move(Root, "running", "vattempt") /\ Go(Root, "join")
  /\ UNCHANGED <<lane, parent, ckpt, resp, import, sent, proof, crashes>>

RectifyClose ==
  /\ run[Root] \in {"abandon", "join"}
  /\ \/ /\ plan[Root].stage = "vattempt"
        /\ Move(Root, IF run[Root] = "join" THEN "verified" ELSE "rectified", "vresponse")
        /\ UNCHANGED run
     \/ /\ plan[Root].stage = "vresponse"
        /\ Move(Root, plan[Root].status, "closed") /\ Go(Root, "idle")
  /\ UNCHANGED <<lane, parent, ckpt, resp, import, sent, proof, crashes>>

\* What the two post_import reads ask of the import plan they are bound to.
ProofAdmits ==
  CASE lane = "m0142" -> At(Root, "running", "sink")
    [] lane = "m0143" -> At(Root, "verified", "closed")
    [] OTHER          -> FALSE

PostImportProof ==
  /\ proof < MaxProofs
  /\ ProofAdmits /\ ProviderComplete
  /\ proof' = proof + 1
  /\ UNCHANGED <<lane, plan, parent, ckpt, run, resp, import, sent, crashes>>

----------------------------------------------------------------------------
\* External: the process ends; the stale plan lock expires.
Crash(op) ==
  /\ run[op] # "idle" /\ crashes < MaxCrashes
  /\ crashes' = crashes + 1
  /\ Go(op, "idle")
  /\ resp' = [resp EXCEPT ![op] = NoReceipt]
  /\ UNCHANGED <<lane, plan, parent, ckpt, import, sent, proof>>

Execute(op) ==
  \/ RunAdmit(op) \/ Consume(op) \/ Attempt(op)
  \/ SendInit(op) \/ SendUpload(op) \/ SendIngest(op) \/ SendPoll(op)
  \/ RecordCheckpoint(op) \/ WriteApplyEvidence(op) \/ PersistFails(op)
  \/ PersistBoundaryResponse(op) \/ PersistSecretSink(op)
  \/ CompletionUnproven(op) \/ AwaitProof(op) \/ VerifyStep(op)

Rectify ==
  \/ RectifyReviewed \/ RectifyInitRecover \/ RectifyAbandon \/ RectifyJoin
  \/ RectifyClose

Next ==
  \/ \E c \in Children : PrepareDerive(c) \/ PrepareSave(c)
  \/ \E op \in Ops : Approve(op) \/ Cancel(op) \/ Execute(op) \/ Crash(op)
  \/ ProviderFinishes \/ Rectify \/ PostImportProof

Spec == Init /\ [][Next]_vars

\* A started process goes on, and the operator follows the printed next step:
\* the post_import read, then `plans rectify`.
Fairness ==
  /\ \A op \in Ops : WF_vars(run[op] # "idle" /\ Execute(op))
  /\ WF_vars(Rectify) /\ WF_vars(PostImportProof)

FairSpec == Spec /\ Fairness

----------------------------------------------------------------------------
TypeOK ==
  /\ lane \in Lanes
  /\ plan \in [Ops -> [status : Statuses, stage : Stages, outcome : Outcomes]]
  /\ parent \in [Children -> Ops]
  /\ ckpt \in [Ops -> Seq(Checkpoints)]
  /\ run \in [Ops -> Positions]
  /\ resp \in [Ops -> Receipts]
  /\ import \in {"none", "active", "complete", "failed"}
  /\ sent \in [{"init", "upload", "ingest"} -> Nat]
  /\ proof \in 0 .. MaxProofs
  /\ crashes \in 0 .. MaxCrashes

\* "init, upload, and ingest are one-shot boundaries": whatever crashes,
\* rectifications and poll continuations happen, the provider sees each of
\* the three mutating actions at most once, and the next one only after the
\* receipt of the one before it is durable.
NoReplay ==
  /\ \A a \in {"init", "upload", "ingest"} : sent[a] <= 1
  /\ sent.upload > 0 =>
       \E i \in DOMAIN ckpt[Root] : ckpt[Root][i].step = "init" /\ ckpt[Root][i].res = "ok"
  /\ sent.ingest > 0 =>
       \E i \in DOMAIN ckpt[Root] : IsReceipt(ckpt[Root][i], "upload", 0, "ok")

\* One exact exhaustion admits at most one continuation across its boundary,
\* although two preparations may both pass the sibling check before either
\* saves its plan: the check is repeated after the plan is visible.
OneContinuation ==
  \A c, d \in Children :
    (c # d /\ Crossed(c) /\ Crossed(d)) => parent[c] # parent[d]

\* A verified import, root or continuation, rests on a job the provider really
\* finished, and a rectified one on a session into which nothing was uploaded.
TerminalIsTrue ==
  \A op \in Ops :
    /\ plan[op].status = "verified" => import = "complete"
    /\ plan[op].status = "rectified" => sent.upload = 0 /\ sent.ingest = 0

\* A completed reviewed import that reached the sealed sink is closed by the
\* executing process or by the local rectifier, whatever crashes in between.
ReviewedImportCloses ==
  (lane = "reviewed" /\ plan[Root].stage = "sink" /\ plan[Root].outcome = "accepted")
    ~> At(Root, "verified", "closed")

\* What a completed approved import prints: "Run the exact
\* mln-0143-data-invariants post_import read bound to operation {}, then run
\* `cfctl plans rectify {}`" (import_resume.rs).
PrintedNextStepCloses ==
  (lane = "m0143" /\ run[Root] = "idle" /\ At(Root, "running", "sink"))
    ~> At(Root, "verified", "closed")
=============================================================================
