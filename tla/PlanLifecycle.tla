--------------------------- MODULE PlanLifecycle ---------------------------
(***************************************************************************)
(* The life of one PlanV2: approve, cancel, run and rectify commands of     *)
(* several processes on one stored plan, from the draft to the checkpoint   *)
(* that closes it, under the plan lock of PlanLock.                         *)
(*                                                                          *)
(* The plan is stored twice: the canonical PlanV2 document is replaced      *)
(* first and its PlanV1 projection second.  Each replacement is one step,   *)
(* may fail, may fail after it took effect (the directory sync reports an   *)
(* error after the rename), and may be followed by a crash.  A command      *)
(* works on the copy it loaded under the lock and never loads again.        *)
(*                                                                          *)
(* What Cloudflare or the governed program does with the one mutation is an *)
(* outcome chosen by Dispatch.  Two lanes follow it: the dynamic API        *)
(* adapter, and the delegated one, which runs an external program.          *)
(***************************************************************************)
EXTENDS PlanLock

CONSTANT MaxCrossings  \* bound: requests sent in a behaviour

ASSUME CrossingsAssumption == MaxCrossings \in Nat

VARIABLES
    v2,          \* the canonical document
    v1,          \* the compatibility projection, NoDoc when absent
    run,         \* each process's command: position, memory and pending save
    crossings,   \* history: mutation requests handed to the transport
    applied,     \* external: the mutation has taken effect at Cloudflare
    expired,     \* the clock has passed expires_at
    capability   \* the planned capability, fixed for the behaviour

storeVars == <<v2, v1>>
worldVars == <<crossings, applied, expired, capability>>
planVars == <<v2, v1, run, crossings, applied, expired, capability>>
vars == <<lockVars, planVars>>

-----------------------------------------------------------------------------
\* TransactionStageV1, by rank.
PlanPrepared == 0
ApprovalPersisted == 1
ConsumptionPersisted == 2
BoundaryAttemptPersisted == 3
BoundaryResponsePersisted == 4
SecretSinkPersisted == 5
VerificationAttemptPersisted == 6
VerificationResponsePersisted == 7
Closed == 10

Stages == {PlanPrepared, ApprovalPersisted, ConsumptionPersisted, BoundaryAttemptPersisted,
           BoundaryResponsePersisted, SecretSinkPersisted, VerificationAttemptPersisted,
           VerificationResponsePersisted, Closed}

\* The values of PlanStatus that reach the store.  Expired is only ever set
\* on a copy whose command then returns the error.
Statuses == {"Absent", "Draft", "Approved", "Cancelled", "Consumed", "Running",
             "Verified", "Failed", "RectificationRequired"}

\* How the one request ended: an accepted or a refused mutation, HTTP 429 or
\* 5xx, no response, or an error before dispatch.  Of a governed program: exit
\* status 0; a receipt that nothing was attempted ("rejected"); a failing exit
\* status, after which part of the mutation may have happened ("ambiguous");
\* no receipt of a started program; a program that was not started.
Outcomes == {"success", "rejected", "ambiguous", "lost", "unsent"}

\* A plan document: the journal is the set of stages with a checkpoint, stage
\* its tail, receipt the outcome bound by the boundary-response artifact.
Docs == [status: Statuses, stage: Stages, journal: SUBSET Stages, receipt: Outcomes \cup {"none"}]

NoDoc == [status |-> "Absent", stage |-> PlanPrepared, journal |-> {}, receipt |-> "none"]

DraftDoc == [NoDoc EXCEPT !.status = "Draft", !.journal = {PlanPrepared}]

\* What a capability does with HTTP 429 and 5xx, verification and rectify:
\*   plain       treated as a rejection; success is read back
\*   unverified  treated as a rejection; success needs no read-back
\*   rechecked   as plain; a failed read-back of a success can be repeated by
\*               rectify (Email Routing DNS, private R2 upload)
\*   reconciled  read back as a success is (Worker secret, challenge rule)
\*   deferred    left to a GET-only rectification (Worker version rollback)
\*   parked      left for inspection (Pages project and variables)
\* and the adapters that do not dispatch an API request:
\*   delegated   a governed program (Wrangler, cloudflared, reply routing)
\*   workspace   the same, for the D1 migrations and projections of a workspace,
\*               which rectify can read back
\*   handoff     the governed UI: an action is prepared, nothing is sent
Kinds == {"plain", "unverified", "rechecked", "reconciled", "deferred", "parked",
          "delegated", "workspace", "handoff"}

Capabilities == [auto: BOOLEAN, kind: Kinds]

Commands == {"approve", "cancel", "run", "rectify"}

RunPc == {"none", "act", "attempt", "dispatch", "respond", "sink", "verify", "defer",
          "readback", "close", "recover", "recheck", "save2", "save1", "done"}

Runs == [cmd: Commands \cup {"none"}, pc: RunPc, mem: Docs, save: Docs, then: RunPc,
         outcome: Outcomes \cup {"none"}, recovery: BOOLEAN]

NoRun == [cmd |-> "none", pc |-> "none", mem |-> NoDoc, save |-> NoDoc, then |-> "done",
          outcome |-> "none", recovery |-> FALSE]

TypeOK ==
    /\ LockTypeOK
    /\ v2 \in Docs /\ v1 \in Docs
    /\ run \in [Proc -> Runs]
    /\ crossings \in 0 .. MaxCrossings
    /\ applied \in BOOLEAN /\ expired \in BOOLEAN
    /\ capability \in Capabilities

\* A prepared draft; a crash while it was first stored may have left it
\* without a projection.
Init ==
    /\ LockInit
    /\ v2 = DraftDoc /\ v1 \in {NoDoc, DraftDoc}
    /\ run = [p \in Proc |-> NoRun]
    /\ crossings = 0 /\ applied = FALSE /\ expired = FALSE
    /\ capability \in Capabilities

-----------------------------------------------------------------------------

\* load_stored_plan_record: both documents exist and differ.
ProjectionDrift == v1 # NoDoc /\ v1 # v2

\* record_transaction_stage: a checkpoint advances past the tail and binds
\* the status it is recorded with.
CanRecord(doc, stage) == doc.stage < stage

Record(doc, stage, status) ==
    [doc EXCEPT !.status = status, !.stage = stage, !.journal = @ \cup {stage}]

\* The adapter is a governed program, and it has returned a receipt.
Delegated == capability.kind \in {"delegated", "workspace"}
HasReceipt(p) == run[p].outcome \in {"success", "rejected", "ambiguous"}

\* The command of p is at pc, holding the plan lock.
AtPc(p, pc) == at[p] = "held" /\ run[p].pc = pc

\* The command of p returns; its copy of the plan is gone.
Done(p) == run' = [run EXCEPT ![p] = [NoRun EXCEPT !.cmd = run[p].cmd, !.pc = "done"]]

\* store.save_plan(doc), then continue at pc with doc as the copy.
Save(p, doc, pc) ==
    run' = [run EXCEPT ![p].save = doc, ![p].pc = "save2", ![p].then = pc]

\* persist_transaction_stage of the copy with the given status.
Persist(p, stage, status, pc) ==
    /\ CanRecord(run[p].mem, stage)
    /\ Save(p, Record(run[p].mem, stage, status), pc)

-----------------------------------------------------------------------------
\* Locking: every command calls lock_plan first and drops the guard last.

AcquireLock(p) == (Begin(p) \/ AcquireStep(p)) /\ UNCHANGED planVars

ReleaseLock(p) ==
    /\ AtPc(p, "done")
    /\ Release(p)
    /\ run' = [run EXCEPT ![p] = NoRun]
    /\ UNCHANGED <<storeVars, worldVars>>

FinishDrop(p) == DropRemove(p) /\ UNCHANGED planVars

CrashProcess(p) ==
    /\ Crash(p)
    /\ run' = [run EXCEPT ![p] = NoRun]
    /\ UNCHANGED <<storeVars, worldVars>>

-----------------------------------------------------------------------------
\* The head of each command, under the lock.

\* load_validated_plan refuses drift; cancel takes the canonical body.
LoadPlan(p, cmd) ==
    /\ AtPc(p, "none")
    /\ run' = IF ProjectionDrift /\ cmd # "cancel"
              THEN [run EXCEPT ![p].cmd = cmd, ![p].pc = "done"]
              ELSE [run EXCEPT ![p].cmd = cmd, ![p].pc = "act", ![p].mem = v2]
    /\ UNCHANGED <<lockVars, storeVars, worldVars>>

\* Defect: a consumed plan whose request has not left may still be cancelled.
Cancellable_Consumed(doc) ==
    doc.status \in {"Draft", "Approved", "Cancelled", "Consumed"}

Cancellable(doc) == doc.status \in {"Draft", "Approved", "Cancelled"}

\* A preflight of approve, run or rectify fails (contract, catalog, pins,
\* credential, attestation, live precondition, cost), or the status does not
\* admit the command.  Nothing is written.
Refuse(p) ==
    /\ AtPc(p, "act")
    /\ run[p].cmd = "cancel" => ~Cancellable(run[p].mem)
    /\ Done(p)
    /\ UNCHANGED <<lockVars, storeVars, worldVars>>

ApprovePlan(p) ==
    /\ AtPc(p, "act") /\ run[p].cmd = "approve"
    /\ run[p].mem.status = "Draft" /\ ~expired
    /\ Persist(p, ApprovalPersisted, "Approved", "done")
    /\ UNCHANGED <<lockVars, storeVars, worldVars>>

\* PlanV1::cancel: closes a draft or an approval, and saves a cancelled plan
\* again as it is.
CancelPlan(p) ==
    /\ AtPc(p, "act") /\ run[p].cmd = "cancel"
    /\ Cancellable(run[p].mem)
    /\ IF run[p].mem.status = "Cancelled"
       THEN Save(p, run[p].mem, "done")
       ELSE Persist(p, Closed, "Cancelled", "done")
    /\ UNCHANGED <<lockVars, storeVars, worldVars>>

\* Defect: the auto-execute policy is not consulted for a draft.
Consume_WithoutApproval(p) ==
    /\ AtPc(p, "act") /\ run[p].cmd = "run"
    /\ ~expired
    /\ run[p].mem.status \in {"Approved", "Draft"}
    /\ Persist(p, ConsumptionPersisted, "Consumed", "attempt")
    /\ UNCHANGED <<lockVars, storeVars, worldVars>>

\* run_plan after its preflights: mark_consumed on the copy loaded before
\* them, and its save.
Consume(p) ==
    /\ AtPc(p, "act") /\ run[p].cmd = "run"
    /\ ~expired
    /\ \/ run[p].mem.status = "Approved"
       \/ run[p].mem.status = "Draft" /\ capability.auto
    /\ Persist(p, ConsumptionPersisted, "Consumed", "attempt")
    /\ UNCHANGED <<lockVars, storeVars, worldVars>>

-----------------------------------------------------------------------------
\* The boundary.

\* Defect: the boundary attempt is recorded on the copy and saved only with
\* the response.
PersistAttempt_InMemory(p) ==
    /\ AtPc(p, "attempt")
    /\ CanRecord(run[p].mem, BoundaryAttemptPersisted)
    /\ run' = [run EXCEPT ![p].pc = "dispatch",
                          ![p].mem = Record(@, BoundaryAttemptPersisted, @.status)]
    /\ UNCHANGED <<lockVars, storeVars, worldVars>>

PersistAttempt(p) ==
    /\ AtPc(p, "attempt")
    /\ Persist(p, BoundaryAttemptPersisted, run[p].mem.status, "dispatch")
    /\ UNCHANGED <<lockVars, storeVars, worldVars>>

\* Defect: a transport error leaves the status of the consumed plan.
OutcomeStatus_LostUnclassified(outcome) ==
    CASE outcome = "success" -> "Running"
      [] outcome \in {"rejected", "ambiguous"} -> "Failed"
      [] OTHER -> "Consumed"

\* The status the executor leaves on the copy; a transport error and an error
\* before dispatch end in process_api_transport_failure.
OutcomeStatus(outcome) ==
    CASE outcome = "success" -> "Running"
      [] outcome = "rejected" -> "Failed"
      [] outcome = "ambiguous" -> IF capability.kind = "reconciled"
                                  THEN "RectificationRequired" ELSE "Failed"
      [] OTHER -> "RectificationRequired"

\* The boundary was called: its outcome and the status of the copy.
Called(p, outcome, status) ==
    run' = [run EXCEPT ![p].pc = "respond", ![p].outcome = outcome, ![p].mem.status = status]

\* The mutation has left, with the effects an outcome leaves possible.
Cross(outcome) ==
    /\ crossings < MaxCrossings
    /\ crossings' = crossings + 1
    /\ CASE outcome = "success" -> applied' = TRUE
         [] outcome = "rejected" -> UNCHANGED applied
         [] OTHER -> applied' \in {applied, TRUE}

\* Defect: a mutation without a response is sent again, as a read is.
Dispatch_RetriesLost(p) ==
    /\ AtPc(p, "dispatch") /\ ~Delegated /\ capability.kind # "handoff"
    /\ Cross("success")
    /\ Called(p, "success", OutcomeStatus("success")) \/ UNCHANGED run
    /\ UNCHANGED <<lockVars, storeVars, expired, capability>>

\* A mutation is sent at most once per call: send_with_dispatch does not
\* retry it.
Dispatch(p) ==
    /\ AtPc(p, "dispatch") /\ ~Delegated /\ capability.kind # "handoff"
    /\ \E outcome \in Outcomes :
          /\ Called(p, outcome, OutcomeStatus(outcome))
          /\ IF outcome = "unsent" THEN UNCHANGED <<crossings, applied>> ELSE Cross(outcome)
    /\ UNCHANGED <<lockVars, storeVars, expired, capability>>

\* The program was not started, or its precondition reads stopped it.
NotAttempted(outcome) == outcome \in {"unsent", "rejected"}

\* The delegated lane keeps the status of a success and asks for rectification
\* otherwise: a failing program may have applied a part.
ReceiptStatus(p, outcome) ==
    IF outcome = "success" THEN run[p].mem.status ELSE "RectificationRequired"

\* A governed program is started at most once.
RunProgram(p) ==
    /\ AtPc(p, "dispatch") /\ Delegated
    /\ \E outcome \in Outcomes :
          /\ Called(p, outcome, ReceiptStatus(p, outcome))
          /\ IF NotAttempted(outcome) THEN UNCHANGED <<crossings, applied>> ELSE Cross(outcome)
    /\ UNCHANGED <<lockVars, storeVars, expired, capability>>

\* The governed UI prepares an action for the operator and sends nothing.
PrepareHandoff(p) ==
    /\ AtPc(p, "dispatch") /\ capability.kind = "handoff"
    /\ Called(p, "unsent", "RectificationRequired")
    /\ UNCHANGED <<lockVars, storeVars, worldVars>>

Boundary(p) == Dispatch(p) \/ RunProgram(p) \/ PrepareHandoff(p)

\* Record of the response receipt with the outcome it binds.
PersistResponse(p, status) ==
    LET doc == run[p].mem
    IN /\ CanRecord(doc, BoundaryResponsePersisted)
       /\ Save(p, [Record(doc, BoundaryResponsePersisted, status) EXCEPT !.receipt = run[p].outcome],
               "sink")

Respond(p) ==
    /\ AtPc(p, "respond")
    /\ PersistResponse(p, run[p].mem.status)
    /\ UNCHANGED <<lockVars, storeVars, worldVars>>

\* The apply evidence of a response cannot be written: the receipt is still
\* persisted, and the command ends in recovery after the sink.
RespondWithoutEvidence(p) ==
    /\ AtPc(p, "respond") /\ HasReceipt(p) /\ ~Delegated
    /\ Fault
    /\ LET doc == [Record(run[p].mem, BoundaryResponsePersisted, "RectificationRequired")
                     EXCEPT !.receipt = run[p].outcome]
       IN /\ CanRecord(run[p].mem, BoundaryResponsePersisted)
          /\ run' = [run EXCEPT ![p].save = doc, ![p].pc = "save2", ![p].then = "sink",
                                ![p].recovery = TRUE]
    /\ UNCHANGED <<lockFile, at, lockStolen, storeVars, worldVars>>

\* persist_secret_lifecycle; only a complete response goes on to verification,
\* on the delegated lane only a success.
Verifiable(p) ==
    /\ ~run[p].recovery /\ HasReceipt(p)
    /\ Delegated => run[p].outcome = "success"

Sink(p) ==
    /\ AtPc(p, "sink")
    /\ Persist(p, SecretSinkPersisted, run[p].mem.status,
               IF Verifiable(p) THEN "verify" ELSE "done")
    /\ UNCHANGED <<lockVars, storeVars, worldVars>>

\* The input secret cannot be deleted or the output sink fails.
SinkFails(p) ==
    /\ AtPc(p, "sink") /\ Fault
    /\ Persist(p, SecretSinkPersisted, "RectificationRequired",
               IF Delegated /\ HasReceipt(p) THEN "recover" ELSE "done")
    /\ UNCHANGED <<lockFile, at, lockStolen, storeVars, worldVars>>

-----------------------------------------------------------------------------
\* delegated_post_response_failure: whatever fails once a receipt is at hand
\* (its evidence, a checkpoint, the sink, the verification evidence) ends in
\* one more checkpoint on the copy as it was before the failure.

BeginRecovery(p) ==
    run' = [run EXCEPT ![p].mem.status = "RectificationRequired", ![p].recovery = TRUE,
                       ![p].save = NoDoc, ![p].pc = "recover", ![p].then = "done"]

\* The apply or the verification evidence of a governed program cannot be
\* written.
ReceiptWithoutEvidence(p) ==
    /\ AtPc(p, "respond") \/ AtPc(p, "readback")
    /\ HasReceipt(p) /\ Delegated
    /\ Fault
    /\ BeginRecovery(p)
    /\ UNCHANGED <<lockFile, at, lockStolen, storeVars, worldVars>>

RecoveryStage(doc) ==
    CASE doc.stage = BoundaryAttemptPersisted -> BoundaryResponsePersisted
      [] doc.stage = VerificationResponsePersisted -> Closed
      [] OTHER -> VerificationResponsePersisted

Recover(p) ==
    /\ AtPc(p, "recover")
    /\ LET doc == run[p].mem
           stage == RecoveryStage(doc)
       IN /\ CanRecord(doc, stage)
          /\ run' = [run EXCEPT
                ![p].save = [Record(doc, stage, "RectificationRequired") EXCEPT
                               !.receipt = IF stage = BoundaryResponsePersisted
                                           THEN run[p].outcome ELSE @],
                ![p].pc = "save2", ![p].then = "done", ![p].recovery = TRUE]
    /\ UNCHANGED <<lockVars, storeVars, worldVars>>

-----------------------------------------------------------------------------
\* verify_api_plan and finalization.

\* Defect: HTTP 429 and 5xx fall through to verification for every capability.
RejectedOutright_ClientErrorsOnly(p) == run[p].outcome = "rejected"

\* The response is taken as a refusal: no verification, the plan closes.
RejectedOutright(p) ==
    \/ run[p].outcome = "rejected"
    \/ run[p].outcome = "ambiguous" /\ capability.kind \in {"plain", "unverified", "rechecked"}

CloseRejected(p) ==
    /\ AtPc(p, "verify") /\ RejectedOutright(p)
    /\ run' = [run EXCEPT ![p].pc = "close", ![p].mem.status = "Failed"]
    /\ UNCHANGED <<lockVars, storeVars, worldVars>>

BeginVerification(p) ==
    /\ AtPc(p, "verify") /\ ~RejectedOutright(p)
    /\ IF run[p].outcome = "ambiguous" /\ capability.kind \in {"deferred", "parked"}
       THEN Persist(p, VerificationAttemptPersisted, "RectificationRequired", "defer")
       ELSE Persist(p, VerificationAttemptPersisted, run[p].mem.status, "readback")
    /\ UNCHANGED <<lockVars, storeVars, worldVars>>

DeferVerification(p) ==
    /\ AtPc(p, "defer")
    /\ Persist(p, VerificationResponsePersisted, "RectificationRequired", "close")
    /\ UNCHANGED <<lockVars, storeVars, worldVars>>

\* The operation-specific verifier passes only on the effect it looks for; a
\* capability without one is verified by the successful response.
ReadbackMayPass == capability.kind = "unverified" \/ applied

Readback(p) ==
    /\ AtPc(p, "readback")
    /\ \/ /\ ReadbackMayPass
          /\ Persist(p, VerificationResponsePersisted, "Verified", "close")
       \/ /\ capability.kind # "unverified"
          /\ Persist(p, VerificationResponsePersisted, "RectificationRequired", "close")
    /\ UNCHANGED <<lockVars, storeVars, worldVars>>

Finalize(p) ==
    /\ AtPc(p, "close")
    /\ IF run[p].mem.status \in {"Verified", "Failed"}
       THEN Persist(p, Closed, run[p].mem.status, "done")
       ELSE Save(p, run[p].mem, "done")
    /\ UNCHANGED <<lockVars, storeVars, worldVars>>

\* The *_rectification_eligible tests; for every other plan of this lane
\* rectify leaves the document alone (at most it drafts another plan).
RectificationEligible(doc) ==
    /\ doc.status = "RectificationRequired"
    /\ \/ capability.kind = "deferred" /\ BoundaryAttemptPersisted \in doc.journal
       \/ /\ capability.kind = "rechecked"
          /\ doc.stage = VerificationResponsePersisted /\ doc.receipt = "success"
       \/ /\ capability.kind = "workspace"
          /\ doc.stage \in BoundaryResponsePersisted .. VerificationResponsePersisted
          /\ BoundaryResponsePersisted \in doc.journal

\* The checkpoints a workspace D1 rectification has to make before it closes.
RectifyCheckpoint(p) ==
    /\ capability.kind = "workspace"
    /\ \/ AtPc(p, "act") /\ run[p].cmd = "rectify" /\ RectificationEligible(run[p].mem)
       \/ AtPc(p, "recheck")
    /\ run[p].mem.stage < VerificationResponsePersisted
    /\ Persist(p, IF run[p].mem.stage < VerificationAttemptPersisted
                  THEN VerificationAttemptPersisted ELSE VerificationResponsePersisted,
               "RectificationRequired", "recheck")
    /\ UNCHANGED <<lockVars, storeVars, worldVars>>

\* The read-back of a rectification passes and closes the plan, or the plan is
\* saved as it is.
RectifyPlan(p) ==
    /\ \/ AtPc(p, "act") /\ run[p].cmd = "rectify" /\ RectificationEligible(run[p].mem)
       \/ AtPc(p, "recheck")
    /\ capability.kind = "workspace" => run[p].mem.stage = VerificationResponsePersisted
    /\ \/ applied /\ Persist(p, Closed, "Verified", "done")
       \/ Save(p, run[p].mem, "done")
    /\ UNCHANGED <<lockVars, storeVars, worldVars>>

-----------------------------------------------------------------------------
\* write_current_plan: the canonical document, then the projection.

\* Defect: the projection is replaced first.
WriteCanonical_ProjectionFirst(p) ==
    /\ AtPc(p, "save2")
    /\ v1' = run[p].save
    /\ run' = [run EXCEPT ![p].pc = "save1"]
    /\ UNCHANGED <<lockVars, v2, worldVars>>

WriteCanonical(p) ==
    /\ AtPc(p, "save2")
    /\ v2' = run[p].save
    /\ run' = [run EXCEPT ![p].pc = "save1"]
    /\ UNCHANGED <<lockVars, v1, worldVars>>

WriteProjection(p) ==
    /\ AtPc(p, "save1")
    /\ v1' = run[p].save
    /\ IF run[p].then = "done"
       THEN Done(p)
       ELSE run' = [run EXCEPT ![p].mem = run[p].save, ![p].save = NoDoc,
                               ![p].pc = run[p].then, ![p].then = "done"]
    /\ UNCHANGED <<lockVars, v2, worldVars>>

\* Defect: every caller ignores the error and goes on with its old copy.
SaveFailed_Ignored(p) ==
    run' = [run EXCEPT ![p].save = NoDoc, ![p].pc = run[p].then, ![p].then = "done"]

\* save_plan returned an error: the copy is not replaced.  The response
\* handler goes on to the secret sink, a delegated run with a receipt to its
\* recovery checkpoint; every other caller returns.
SaveFailed(p) ==
    CASE run[p].then = "sink" /\ ~Delegated ->
            run' = [run EXCEPT ![p].mem.status = "RectificationRequired", ![p].recovery = TRUE,
                               ![p].save = NoDoc, ![p].pc = "sink", ![p].then = "done"]
      [] Delegated /\ HasReceipt(p) /\ ~run[p].recovery -> BeginRecovery(p)
      [] OTHER -> Done(p)

\* The document is untouched, or it was replaced and the directory sync failed.
WriteFails(p) ==
    /\ Fault
    /\ \/ AtPc(p, "save2") /\ v2' \in {v2, run[p].save} /\ UNCHANGED v1
       \/ AtPc(p, "save1") /\ v1' \in {v1, run[p].save} /\ UNCHANGED v2
    /\ SaveFailed(p)
    /\ UNCHANGED <<lockFile, at, lockStolen, worldVars>>

-----------------------------------------------------------------------------

\* Clocks: the lock file ages, the plan passes expires_at.
TimePasses ==
    \/ Tick /\ UNCHANGED planVars
    \/ /\ ~expired /\ expired' = TRUE
       /\ UNCHANGED <<lockVars, storeVars, run, crossings, applied, capability>>

\* One step of the command that p is executing, without crash or I/O error.
CommandStep(p) ==
    \/ Refuse(p) \/ ApprovePlan(p) \/ CancelPlan(p) \/ Consume(p)
    \/ RectifyCheckpoint(p) \/ RectifyPlan(p)
    \/ PersistAttempt(p) \/ Boundary(p) \/ Respond(p) \/ Sink(p) \/ Recover(p)
    \/ CloseRejected(p) \/ BeginVerification(p) \/ DeferVerification(p) \/ Readback(p)
    \/ Finalize(p) \/ WriteCanonical(p) \/ WriteProjection(p)

FaultStep(p) ==
    \/ RespondWithoutEvidence(p) \/ ReceiptWithoutEvidence(p) \/ SinkFails(p)
    \/ WriteFails(p) \/ CrashProcess(p)

Next ==
    \/ \E p \in Proc : \/ AcquireLock(p)
                       \/ \E cmd \in Commands : LoadPlan(p, cmd)
                       \/ CommandStep(p)
                       \/ FaultStep(p)
                       \/ ReleaseLock(p) \/ FinishDrop(p)
    \/ TimePasses

Spec == Init /\ [][Next]_vars

\* A command that has started runs on: its awaits are bounded by the timeouts
\* of the HTTP client.
Fairness == \A p \in Proc : WF_vars(CommandStep(p))

FairSpec == Spec /\ Fairness

-----------------------------------------------------------------------------
\* Safety.

\* One-use execution: while no live owner's lock has been removed, the plan's
\* mutation is handed to the transport at most once, whatever crashes, failed
\* writes and repeated commands happen.
AtMostOneCrossing == ~lockStolen => crossings <= 1

\* Write-ahead: a request that may have left is announced by a durable
\* boundary attempt, and the plan is no longer a draft, an approval or a
\* cancellation that another command could act on.
CrossingIsJournaled ==
    ~lockStolen /\ crossings > 0 =>
        /\ BoundaryAttemptPersisted \in v2.journal
        /\ v2.status \notin {"Absent", "Draft", "Approved", "Cancelled"}

\* No stored document, whatever the lock did, shows a boundary attempt whose
\* consumption, and approval or auto-execute admission, it does not show.
AuthorityPrecedesBoundary ==
    \A doc \in {v1, v2} : BoundaryAttemptPersisted \in doc.journal =>
        /\ ConsumptionPersisted \in doc.journal
        /\ capability.auto \/ ApprovalPersisted \in doc.journal

\* A plan is reported verified only if its mutation took effect; ambiguous
\* and lost responses are never promoted without a read-back.
VerifiedMeansApplied ==
    \A doc \in {v1, v2} : doc.status = "Verified" => applied

\* The projection never shows a later stage than the canonical document.
ProjectionNeverAhead == ~lockStolen => v1.stage <= v2.stage

\* Under the lock the canonical journal only advances, and what it has shown it
\* keeps, except for a checkpoint whose own save reported an error: on the API
\* lane the secret-sink checkpoint may replace the receipt of a response, on the
\* delegated lane the recovery checkpoint may replace the sink's or the
\* verification attempt's.
JournalKeepsBoundary ==
    [][~lockStolen' =>
          /\ v2.stage <= v2'.stage
          /\ v2.journal \ v2'.journal \subseteq
                IF Delegated THEN {SecretSinkPersisted, VerificationAttemptPersisted}
                ELSE {BoundaryResponsePersisted}]_vars

\* Liveness: with no crash, I/O error or lock takeover, a plan whose request
\* was sent ends verified, failed or in rectification.
CrossingResolves ==
    crossings > 0 ~> \/ v2.status \in {"Verified", "Failed", "RectificationRequired"}
                     \/ faults > 0 \/ lockStolen

-----------------------------------------------------------------------------
\* Refinement: the stored plan is a one-use transaction.

\* A verdict counts once the command that gives it is past its save: on the
\* delegated lane a closing save that took effect and reported an error is
\* replaced by the recovery checkpoint.
Saving == \E p \in Proc : run[p].pc \in {"save2", "save1", "recover"}

Verdict ==
    LET given == ~Saving /\ v2.stage = Closed
    IN  CASE given /\ v2.status = "Verified" -> "verified"
          [] given /\ v2.status = "Failed" -> "failed"
          [] OTHER -> "none"

Authority ==
    CASE v2.status \in {"Draft", "Approved"} -> "open"
      [] v2.status = "Cancelled" -> "withdrawn"
      [] OTHER -> "spent"

Abstract == INSTANCE OneUseTransaction
              WITH authority <- Authority, sent <- crossings,
                   effect <- applied, verdict <- Verdict

\* While no live owner's lock is removed, every step of the commands, crashes
\* and failed writes included, is a step of the one-use transaction or leaves
\* it alone.
ImplementsOneUse == Abstract!Spec

-----------------------------------------------------------------------------
\* What the documentation says of the program.

\* docs/v2-security.md: "Plans are one-use transactions."
OneUse == crossings <= 1

\* docs/runbooks/capability-procedures.md, on the Worker rollback: "A lost
\* response, HTTP 429, or HTTP 5xx is classified as an ambiguous outcome and
\* reconciled only through `cfctl plans rectify`": when no command is at work,
\* a plan with such a receipt is open to rectification or already verified.
AmbiguityIsRectifiable ==
    (/\ capability.kind = "deferred"
     /\ v2.receipt \in {"ambiguous", "lost"}
     /\ \A p \in Proc : run[p] = NoRun)
    => v2.status \in {"RectificationRequired", "Verified"}
=============================================================================
