------------------------- MODULE StandingAuthority -------------------------
(***************************************************************************)
(* One standing authority and the token mints and deletes that run under    *)
(* it (`keys mint --under-policy`, `keys revoke --under-policy`).           *)
(*                                                                          *)
(* An operation is one invocation with the plan it creates, executed at     *)
(* most once.  Its admission is a critical section under the authority's    *)
(* OS lock with three writes: the reservation in the authority, the         *)
(* consumption and the boundary attempt in the plan.  The lock is released  *)
(* before the request is sent.  Sections with a single write (approve,      *)
(* revoke, lineage) are one step.                                           *)
(*                                                                          *)
(* The plan lock appears by its effect on lineage recovery: it refuses the  *)
(* plans of live runs until it is stale.  A token is named by the operation *)
(* that mints it.  The wall clock may be stepped either way.                *)
(***************************************************************************)
EXTENDS Integers, FiniteSets

CONSTANTS
    Op,             \* the standing operations
    Mints,          \* those that create a token; the others delete one
    NoOp,           \* holder of a free authority lock
    ForeignToken,   \* a token this authority did not mint
    MaxRunsPerDay,  \* max_runs_per_day
    Day,            \* 24 hours, in ticks
    ExpiresAt,      \* expires_at of the authority
    MaxTime,        \* bound: the latest reading of the clock
    MaxFaults       \* bound: crashes and failed writes in a behaviour

ASSUME OpAssumption ==
    /\ Mints \subseteq Op /\ IsFiniteSet(Op)
    /\ NoOp \notin Op /\ ForeignToken \notin Op
ASSUME BoundsAssumption ==
    /\ MaxRunsPerDay \in Nat /\ Day \in Nat /\ ExpiresAt \in Nat
    /\ MaxTime \in Nat /\ MaxFaults \in Nat

VARIABLES
    authority,  \* the authority document
    guard,      \* holder of the authority lock
    plan,       \* each operation's stored plan: its journal of this lane
    planLock,   \* each operation's plan lock file
    run,        \* each operation's invocation
    tokens,     \* external: the tokens that exist
    created,    \* history: the tokens that have been created
    clock,
    faults

docVars == <<authority, plan>>
lockVars == <<guard, planLock>>
worldVars == <<tokens, created>>
vars == <<docVars, lockVars, run, worldVars, clock, faults>>

-----------------------------------------------------------------------------

Times == 0 .. MaxTime
Never == -1
Tokens == Mints \cup {ForeignToken}

\* StandingAuthorityV1: run_log as the time of each operation's reservation.
Authorities == [status: {"PendingApproval", "Active", "Revoked"},
                reserved: [Op -> Times \cup {Never}], minted: SUBSET Tokens]

DraftAuthority == [status |-> "PendingApproval", reserved |-> [o \in Op |-> Never], minted |-> {}]

Receipts == {"none", "success", "failure"}
PlanDocs == [consumed: BOOLEAN, attempt: BOOLEAN, receipt: Receipts]
DraftPlan == [consumed |-> FALSE, attempt |-> FALSE, receipt |-> "none"]

RunPc == {"idle", "recover", "snapshot", "preflight", "admit", "reserve", "consume", "attempt",
          "dispatch", "respond", "sink", "reconcile", "done"}

\* copy is the authority in memory, durable whether the receipt was saved.
Runs == [pc: RunPc, todo: SUBSET Op, target: Tokens, copy: Authorities,
         outcome: Receipts, durable: BOOLEAN]

NoRun == [pc |-> "idle", todo |-> {}, target |-> ForeignToken, copy |-> DraftAuthority,
          outcome |-> "none", durable |-> FALSE]

TypeOK ==
    /\ authority \in Authorities
    /\ guard \in Op \cup {NoOp}
    /\ plan \in [Op -> PlanDocs]
    /\ planLock \in [Op -> {"free", "held", "stale"}]
    /\ run \in [Op -> Runs]
    /\ tokens \subseteq Tokens /\ created \subseteq Tokens
    /\ clock \in Times /\ faults \in 0 .. MaxFaults

Init ==
    /\ authority = DraftAuthority /\ guard = NoOp
    /\ plan = [o \in Op |-> DraftPlan] /\ planLock = [o \in Op |-> "free"]
    /\ run = [o \in Op |-> NoRun]
    /\ tokens = {ForeignToken} /\ created = {}
    /\ clock = 0 /\ faults = 0

-----------------------------------------------------------------------------
\* The grant.

\* ensure_operational_at; the approval is bound to content that never changes.
Operational(a) == a.status = "Active" /\ clock <= ExpiresAt

\* Defect: a run exactly a day old no longer counts.
RunsInLastDay_Exclusive(a) == {q \in Op : a.reserved[q] # Never /\ clock - a.reserved[q] < Day}

\* runs_in_last_day: a reservation in the future of a stepped clock counts.
RunsInLastDay(a) == {q \in Op : a.reserved[q] # Never /\ clock - a.reserved[q] <= Day}

\* Defect: a delete needs no lineage.
Authorized_AnyToken(a, o) ==
    Operational(a) /\ Cardinality(RunsInLastDay(a)) < MaxRunsPerDay

\* authorize_token_create and authorize_token_delete; the bounds on name,
\* permission groups, resources and expiry of a child are input checks.
Authorized(a, o) ==
    /\ Operational(a)
    /\ Cardinality(RunsInLastDay(a)) < MaxRunsPerDay
    /\ o \notin Mints => run[o].target \in a.minted

\* save_authority_guarded refuses to take back a revocation.
SaveAuthorityGuarded(a) ==
    /\ authority.status = "Revoked" => a.status = "Revoked"
    /\ authority' = a

Approve ==
    /\ guard = NoOp
    /\ authority.status = "PendingApproval" /\ clock <= ExpiresAt
    /\ SaveAuthorityGuarded([authority EXCEPT !.status = "Active"])
    /\ UNCHANGED <<plan, lockVars, run, worldVars, clock, faults>>

Revoke ==
    /\ guard = NoOp
    /\ SaveAuthorityGuarded([authority EXCEPT !.status = "Revoked"])
    /\ UNCHANGED <<plan, lockVars, run, worldVars, clock, faults>>

-----------------------------------------------------------------------------
\* Lineage.

\* Defect: lineage of a revoked grant is not reconciled.
Reconcilable_WhileActive(q) ==
    /\ q \in Mints /\ plan[q].consumed /\ plan[q].receipt = "success"
    /\ authority.status = "Active"

\* validated_standing_lineage_token_id: the receipt alone decides.
Reconcilable(q) == q \in Mints /\ plan[q].consumed /\ plan[q].receipt = "success"

\* reconcile_standing_lineage_from_plan under the authority lock.
ReconcileLineage(q) ==
    IF Reconcilable(q)
    THEN guard = NoOp /\ SaveAuthorityGuarded([authority EXCEPT !.minted = @ \cup {q}])
    ELSE UNCHANGED authority

\* lock_plan on the plan of q, and the drop of that guard.
LockAndRelease(q) == planLock[q] # "held" /\ planLock' = [planLock EXCEPT ![q] = "free"]

\* `plans rectify q`.
Rectify(q) ==
    /\ plan[q].consumed /\ q \notin authority.minted
    /\ LockAndRelease(q)
    /\ ReconcileLineage(q)
    /\ UNCHANGED <<plan, guard, run, worldVars, clock, faults>>

-----------------------------------------------------------------------------
\* One invocation.

Goto(o, pc) == run' = [run EXCEPT ![o].pc = pc]

\* The invocation returns; the plan guard is dropped.
Return(o) ==
    /\ run' = [run EXCEPT ![o] = [NoRun EXCEPT !.pc = "done"]]
    /\ planLock' = [planLock EXCEPT ![o] = "free"]

\* preflight_standing_authority lists the plans consumed under the authority.
Preflight(o) ==
    /\ run[o].pc = "idle"
    /\ run' = [run EXCEPT ![o].pc = "recover", ![o].todo = {q \in Op : plan[q].consumed}]
    /\ UNCHANGED <<docVars, lockVars, worldVars, clock, faults>>

RecoverLineage(o, q) ==
    /\ run[o].pc = "recover" /\ q \in run[o].todo
    /\ LockAndRelease(q)
    /\ ReconcileLineage(q)
    /\ run' = [run EXCEPT ![o].todo = @ \ {q}]
    /\ UNCHANGED <<plan, guard, worldVars, clock, faults>>

\* A consumed plan is locked: the invocation fails before it plans anything
\* and may be repeated.
RecoveryLocked(o) ==
    /\ run[o].pc = "recover" /\ \E q \in run[o].todo : planLock[q] = "held"
    /\ run' = [run EXCEPT ![o] = NoRun]
    /\ UNCHANGED <<docVars, lockVars, worldVars, clock, faults>>

\* The tokens an operation may be asked for; a mint names none.
Targets(o) == IF o \in Mints THEN {ForeignToken} ELSE Tokens

\* The authority is operational: the plan is created and its lock taken.
CreatePlan(o, target) ==
    /\ run[o].pc = "recover" /\ run[o].todo = {}
    /\ Operational(authority)
    /\ run' = [run EXCEPT ![o].pc = "snapshot", ![o].target = target]
    /\ planLock' = [planLock EXCEPT ![o] = "held"]
    /\ UNCHANGED <<docVars, guard, worldVars, clock, faults>>

\* run_plan_under_standing_authority loads the authority without its lock.
Snapshot(o) ==
    /\ run[o].pc = "snapshot"
    /\ run' = [run EXCEPT ![o].pc = "preflight", ![o].copy = authority]
    /\ UNCHANGED <<docVars, lockVars, worldVars, clock, faults>>

\* authorize_standing_execution on the snapshot, after the live preflights.
AuthorizeSnapshot(o) ==
    /\ run[o].pc = "preflight" /\ Authorized(run[o].copy, o)
    /\ Goto(o, "admit")
    /\ UNCHANGED <<docVars, lockVars, worldVars, clock, faults>>

\* A preflight fails, or the grant does not admit the run (again).
Refuse(o) ==
    /\ \/ run[o].pc \in {"snapshot", "preflight"}
       \/ run[o].pc = "admit" /\ guard = NoOp /\ ~Authorized(authority, o)
    /\ Return(o)
    /\ UNCHANGED <<docVars, guard, worldVars, clock, faults>>

\* Defect: the reservation is made on the snapshot.
AdmissionCopy_Snapshot(o) == run[o].copy

\* admit_standing_plan reloads the authority under its lock.
AdmissionCopy(o) == authority

\* lock_authority, authorize_standing_execution_at, reserve_run in memory.
Admit(o) ==
    /\ run[o].pc = "admit" /\ guard = NoOp
    /\ Authorized(AdmissionCopy(o), o) /\ AdmissionCopy(o).reserved[o] = Never
    /\ guard' = o
    /\ run' = [run EXCEPT ![o].pc = "reserve",
                          ![o].copy = [AdmissionCopy(o) EXCEPT !.reserved[o] = clock]]
    /\ UNCHANGED <<docVars, planLock, worldVars, clock, faults>>

SaveReservation(o) ==
    /\ run[o].pc = "reserve"
    /\ SaveAuthorityGuarded(run[o].copy)
    /\ run' = [run EXCEPT ![o].pc = "consume", ![o].copy = DraftAuthority]
    /\ UNCHANGED <<plan, lockVars, worldVars, clock, faults>>

SaveConsumption(o) ==
    /\ run[o].pc = "consume"
    /\ plan' = [plan EXCEPT ![o].consumed = TRUE]
    /\ Goto(o, "attempt")
    /\ UNCHANGED <<authority, lockVars, worldVars, clock, faults>>

\* Defect: the lock is released and the request sent before the attempt is
\* saved.
SaveAttempt_AfterDispatch(o) ==
    /\ run[o].pc = "attempt"
    /\ guard' = NoOp
    /\ Goto(o, "dispatch")
    /\ UNCHANGED <<docVars, planLock, worldVars, clock, faults>>

\* The last write of the admission, and the end of its lock.
SaveAttempt(o) ==
    /\ run[o].pc = "attempt"
    /\ plan' = [plan EXCEPT ![o].attempt = TRUE]
    /\ guard' = NoOp
    /\ Goto(o, "dispatch")
    /\ UNCHANGED <<authority, planLock, worldVars, clock, faults>>

\* External: what Cloudflare does with the request.
Dispatch(o) ==
    /\ run[o].pc = "dispatch"
    /\ \E outcome \in {"success", "failure"}, effect \in BOOLEAN :
          /\ outcome = "success" => effect  \* a lost response is a failure with either effect
          /\ run' = [run EXCEPT ![o].pc = "respond", ![o].outcome = outcome]
          /\ IF ~effect THEN UNCHANGED worldVars
             ELSE IF o \in Mints
             THEN tokens' = tokens \cup {o} /\ created' = created \cup {o}
             ELSE tokens' = tokens \ {run[o].target} /\ UNCHANGED created
    /\ UNCHANGED <<docVars, lockVars, clock, faults>>

Respond(o) ==
    /\ run[o].pc = "respond"
    /\ plan' = [plan EXCEPT ![o].receipt = run[o].outcome]
    /\ run' = [run EXCEPT ![o].pc = "sink", ![o].durable = TRUE]
    /\ UNCHANGED <<authority, lockVars, worldVars, clock, faults>>

\* The sink checkpoint replaces a receipt whose save reported an error;
\* lineage follows a receipt that was saved.
Sink(o) ==
    /\ run[o].pc = "sink"
    /\ plan' = IF run[o].durable THEN plan ELSE [plan EXCEPT ![o].receipt = "none"]
    /\ IF run[o].durable
       THEN Goto(o, "reconcile") /\ UNCHANGED planLock
       ELSE Return(o)
    /\ UNCHANGED <<authority, guard, worldVars, clock, faults>>

Reconcile(o) ==
    /\ run[o].pc = "reconcile"
    /\ ReconcileLineage(o)
    /\ Return(o)
    /\ UNCHANGED <<plan, guard, worldVars, clock, faults>>

-----------------------------------------------------------------------------
\* Faults.

Fault == faults < MaxFaults /\ faults' = faults + 1

\* A write reports an error, with or without having taken effect.  In the
\* admission it ends the run; a response goes on to the sink without a durable
\* receipt; a sink or lineage error is reported and left to rectify.
WriteFails(o) ==
    /\ Fault
    /\ \/ /\ run[o].pc = "reserve" /\ authority' \in {authority, run[o].copy}
          /\ UNCHANGED plan /\ Return(o)
       \/ /\ run[o].pc = "consume"
          /\ plan' \in {plan, [plan EXCEPT ![o].consumed = TRUE]}
          /\ UNCHANGED authority /\ Return(o)
       \/ /\ run[o].pc = "attempt"
          /\ plan' \in {plan, [plan EXCEPT ![o].attempt = TRUE]}
          /\ UNCHANGED authority /\ Return(o)
       \/ /\ run[o].pc = "respond"
          /\ plan' \in {plan, [plan EXCEPT ![o].receipt = run[o].outcome]}
          /\ Goto(o, "sink") /\ UNCHANGED <<authority, planLock>>
       \/ /\ run[o].pc = "sink" /\ UNCHANGED docVars
          /\ IF run[o].durable THEN Goto(o, "reconcile") /\ UNCHANGED planLock ELSE Return(o)
       \/ /\ run[o].pc = "reconcile" /\ UNCHANGED docVars
          /\ Return(o)
    /\ guard' = IF guard = o THEN NoOp ELSE guard
    /\ UNCHANGED <<worldVars, clock>>

\* The process dies: the OS releases the authority lock, the plan lock file
\* stays.
Crash(o) ==
    /\ run[o].pc \notin {"idle", "done"} /\ Fault
    /\ run' = [run EXCEPT ![o] = [NoRun EXCEPT !.pc = "done"]]
    /\ guard' = IF guard = o THEN NoOp ELSE guard
    /\ UNCHANGED <<docVars, planLock, worldVars, clock>>

\* A plan lock passes LOCK_TTL, whether or not its owner still runs.
LockGoesStale(o) ==
    /\ planLock[o] = "held"
    /\ planLock' = [planLock EXCEPT ![o] = "stale"]
    /\ UNCHANGED <<docVars, guard, run, worldVars, clock, faults>>

ClockMoves ==
    /\ clock' \in Times \ {clock}
    /\ UNCHANGED <<docVars, lockVars, run, worldVars, faults>>

-----------------------------------------------------------------------------

\* The synchronous section under the authority lock.
AdmissionStep(o) == SaveReservation(o) \/ SaveConsumption(o) \/ SaveAttempt(o)

RunStep(o) ==
    \/ Preflight(o) \/ RecoveryLocked(o) \/ Snapshot(o) \/ AuthorizeSnapshot(o) \/ Refuse(o)
    \/ \E q \in Op : RecoverLineage(o, q)
    \/ \E t \in Targets(o) : CreatePlan(o, t)
    \/ Admit(o) \/ AdmissionStep(o)
    \/ Dispatch(o) \/ Respond(o) \/ Sink(o) \/ Reconcile(o)

Next ==
    \/ Approve \/ Revoke \/ ClockMoves
    \/ \E o \in Op : RunStep(o) \/ Rectify(o) \/ WriteFails(o) \/ Crash(o) \/ LockGoesStale(o)

Spec == Init /\ [][Next]_vars

\* The admission section makes no awaits; file clocks run; the operator
\* rectifies the plans the documentation tells them to.
Fairness ==
    \A o \in Op : WF_vars(AdmissionStep(o)) /\ WF_vars(LockGoesStale(o)) /\ WF_vars(Rectify(o))

FairSpec == Spec /\ Fairness

-----------------------------------------------------------------------------

\* Every effect at Cloudflare is accounted for by durable state that precedes
\* it: attempt, before it consumption, before it a reserved run.
CrossingIsAccounted ==
    \A o \in Op :
        /\ run[o].pc \in {"dispatch", "respond", "sink"} \/ o \in created => plan[o].attempt
        /\ plan[o].attempt => plan[o].consumed
        /\ plan[o].consumed => authority.reserved[o] # Never

\* No window of 24 hours, wherever it starts and however the clock was
\* stepped, holds more reservations than the grant allows.
RollingBudget ==
    \A t \in Times :
        Cardinality({o \in Op : authority.reserved[o] \in t .. (t + Day)}) <= MaxRunsPerDay

\* The lineage index names only tokens this authority created, and a standing
\* delete never removes a token it did not create.
LineageBound == authority.minted \subseteq created /\ ForeignToken \in tokens

\* Concurrent runs, recoveries and revocations lose none of each other's
\* updates of the authority document: lineage and reservations only grow, and
\* a revocation is final and admits no further reservation.
NoLostUpdate ==
    [][/\ authority.minted \subseteq authority'.minted
       /\ \A o \in Op : authority.reserved[o] # Never =>
             authority'.reserved[o] = authority.reserved[o]
       /\ authority.status = "Revoked" =>
             authority'.status = "Revoked" /\ authority'.reserved = authority.reserved]_vars

\* A successful receipt reaches the lineage index even when the run crashed
\* or its own reconciliation failed, and even if the grant was revoked since,
\* unless the sink checkpoint replaced the receipt.
LineageRecovers ==
    \A q \in Mints : plan[q].receipt = "success" ~>
        (q \in authority.minted \/ plan[q].receipt = "none")
=============================================================================
