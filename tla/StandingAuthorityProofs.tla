---------------------- MODULE StandingAuthorityProofs ----------------------
(***************************************************************************)
(* Proofs about a standing authority, for any operations, budget, day,      *)
(* expiry and number of faults.                                             *)
(***************************************************************************)
EXTENDS StandingAuthority, FiniteSetTheorems, TLAPS

-----------------------------------------------------------------------------
\* Types.

LEMMA DraftTypes == DraftAuthority \in Authorities /\ NoRun \in Runs /\ DraftPlan \in PlanDocs
<1>1. DraftAuthority \in Authorities
  BY DEF DraftAuthority, Authorities
<1>2. NoRun \in Runs
  BY <1>1 DEF NoRun, Runs, RunPc, Receipts, Tokens
<1>3. DraftPlan \in PlanDocs
  BY DEF DraftPlan, PlanDocs, Receipts
<1> QED BY <1>1, <1>2, <1>3

LEMMA RunFields ==
  ASSUME TypeOK, NEW o \in Op
  PROVE  /\ run[o] \in Runs /\ run[o].copy \in Authorities /\ run[o].target \in Tokens
         /\ run[o].outcome \in Receipts /\ plan[o] \in PlanDocs
BY DEF TypeOK, Runs

\* What a step does to a plan: only the plan's own run writes it.
PlanChange(o) ==
  \/ plan'[o] = plan[o]
  \/ run[o].pc = "consume" /\ plan'[o] = [plan[o] EXCEPT !.consumed = TRUE]
  \/ run[o].pc = "attempt" /\ plan'[o] = [plan[o] EXCEPT !.attempt = TRUE]
  \/ run[o].pc = "respond" /\ plan'[o] = [plan[o] EXCEPT !.receipt = run[o].outcome]
  \/ run[o].pc = "sink" /\ plan'[o] = [plan[o] EXCEPT !.receipt = "none"]

LEMMA PlanStep ==
  ASSUME TypeOK, [Next]_vars
  PROVE  plan' \in [Op -> PlanDocs] /\ \A o \in Op : PlanChange(o)
<1> DEFINE Goal == plan' \in [Op -> PlanDocs] /\ \A o \in Op : PlanChange(o)
<1>1. CASE plan' = plan
  BY <1>1 DEF PlanChange, TypeOK
<1>2. ASSUME NEW o \in Op, NEW p \in PlanDocs, plan' = [plan EXCEPT ![o] = p],
             \/ run[o].pc = "consume" /\ p = [plan[o] EXCEPT !.consumed = TRUE]
             \/ run[o].pc = "attempt" /\ p = [plan[o] EXCEPT !.attempt = TRUE]
             \/ run[o].pc = "respond" /\ p = [plan[o] EXCEPT !.receipt = run[o].outcome]
             \/ run[o].pc = "sink" /\ p = [plan[o] EXCEPT !.receipt = "none"]
      PROVE  Goal
  <2>1. plan' \in [Op -> PlanDocs] /\ plan'[o] = p /\ \A q \in Op \ {o} : plan'[q] = plan[q]
    BY <1>2 DEF TypeOK
  <2> QED BY <1>2, <2>1 DEF PlanChange
<1>3. ASSUME NEW o \in Op, RunStep(o) \/ WriteFails(o), plan' # plan PROVE Goal
  <2> DEFINE c == [plan[o] EXCEPT !.consumed = TRUE]
             a == [plan[o] EXCEPT !.attempt = TRUE]
             r == [plan[o] EXCEPT !.receipt = run[o].outcome]
             n == [plan[o] EXCEPT !.receipt = "none"]
  <2>1. c \in PlanDocs /\ a \in PlanDocs /\ r \in PlanDocs /\ n \in PlanDocs
    BY RunFields DEF PlanDocs, Receipts
  <2>2. \/ run[o].pc = "consume" /\ plan' = [plan EXCEPT ![o] = c]
        \/ run[o].pc = "attempt" /\ plan' = [plan EXCEPT ![o] = a]
        \/ run[o].pc = "respond" /\ plan' = [plan EXCEPT ![o] = r]
        \/ run[o].pc = "sink" /\ plan' = [plan EXCEPT ![o] = n]
    <3>1. CASE RunStep(o)
      BY <1>3, <3>1 DEF RunStep, AdmissionStep, Preflight, RecoveryLocked, Snapshot, AuthorizeSnapshot,
           Refuse, CreatePlan, Admit, SaveReservation, SaveConsumption, SaveAttempt, Dispatch, Respond,
           Sink, Reconcile, RecoverLineage, docVars
    <3>2. CASE WriteFails(o)
      BY <1>3, <3>2 DEF WriteFails, docVars
    <3> QED BY <1>3, <3>1, <3>2
  <2> HIDE DEF c, a, r, n
  <2>3. CASE run[o].pc = "consume" /\ plan' = [plan EXCEPT ![o] = c]
    BY <1>2, <2>1, <2>3 DEF c
  <2>4. CASE run[o].pc = "attempt" /\ plan' = [plan EXCEPT ![o] = a]
    BY <1>2, <2>1, <2>4 DEF a
  <2>5. CASE run[o].pc = "respond" /\ plan' = [plan EXCEPT ![o] = r]
    BY <1>2, <2>1, <2>5 DEF r
  <2>6. CASE run[o].pc = "sink" /\ plan' = [plan EXCEPT ![o] = n]
    BY <1>2, <2>1, <2>6 DEF n
  <2> QED BY <2>2, <2>3, <2>4, <2>5, <2>6
<1> HIDE DEF Goal
<1>4. ASSUME plan' # plan PROVE \E o \in Op : RunStep(o) \/ WriteFails(o)
  BY <1>4 DEF Next, Approve, Revoke, ClockMoves, Crash, LockGoesStale, Rectify, docVars, vars
<1>5. Goal
  BY <1>1, <1>3, <1>4 DEF Goal
<1> QED BY <1>5 DEF Goal

Admission == {"reserve", "consume", "attempt"}
Early == {"idle", "recover", "snapshot", "preflight", "admit", "done"}

\* A run advances by one step of the admission or of the request.
RunAdvance(o) ==
  /\ run'[o].target = run[o].target
  /\ \/ /\ run[o].pc = "admit" /\ run'[o].pc = "reserve"
        /\ guard = NoOp /\ guard' = o
        /\ Authorized(authority, o) /\ authority.reserved[o] = Never
        /\ authority' = authority
        /\ run'[o].copy = [authority EXCEPT !.reserved[o] = clock]
     \/ /\ run[o].pc = "reserve" /\ run'[o].pc = "consume"
        /\ authority' = run[o].copy /\ guard' = guard
     \/ /\ run[o].pc = "consume" /\ run'[o].pc = "attempt"
        /\ plan'[o].consumed /\ guard' = guard
     \/ /\ run[o].pc = "attempt" /\ run'[o].pc = "dispatch"
        /\ plan'[o].attempt
     \/ /\ run[o].pc = "dispatch" /\ run'[o].pc = "respond"
        /\ run'[o].outcome = "success" /\ o \in Mints => o \in created'
     \/ /\ run[o].pc = "respond" /\ run'[o].pc = "sink"
        /\ run'[o].outcome = run[o].outcome
     \/ /\ run[o].pc = "sink" /\ run'[o].pc = "reconcile"
        /\ run'[o].outcome = run[o].outcome

RunChange(o) == run'[o] = run[o] \/ run'[o].pc \in Early \/ RunAdvance(o)

\* Replacing one run: the others stay.
LEMMA RunUpdate ==
  ASSUME TypeOK, NEW o \in Op, NEW r \in Runs, run' = [run EXCEPT ![o] = r],
         r.pc \in Early \/ (run'[o] = r => RunAdvance(o))
  PROVE  run' \in [Op -> Runs] /\ \A q \in Op : RunChange(q)
<1>1. run' \in [Op -> Runs] /\ run'[o] = r /\ \A q \in Op \ {o} : run'[q] = run[q]
  BY DEF TypeOK
<1> QED BY <1>1 DEF RunChange

\* A return ends the run.
LEMMA ReturnShape ==
  ASSUME TypeOK, NEW o \in Op, Return(o)
  PROVE  /\ run' \in [Op -> Runs] /\ \A q \in Op : RunChange(q)
         /\ run'[o].pc = "done"
         /\ planLock' \in [Op -> {"free", "held", "stale"}]
<1> DEFINE r == [NoRun EXCEPT !.pc = "done"]
<1>1. r \in Runs /\ r.pc = "done"
  BY DraftTypes DEF Runs, RunPc
<1>2. run' = [run EXCEPT ![o] = r] /\ planLock' \in [Op -> {"free", "held", "stale"}]
  BY DEF Return, TypeOK
<1> HIDE DEF r
<1>3. run'[o] = r
  BY <1>2 DEF TypeOK
<1> QED BY <1>1, <1>2, <1>3, RunUpdate DEF Early

\* The steps of one run keep the runs well typed and advance it as above.
LEMMA RunStepShape ==
  ASSUME TypeOK, NEW o \in Op, RunStep(o)
  PROVE  run' \in [Op -> Runs] /\ \A q \in Op : RunChange(q)
<1> DEFINE Goal == run' \in [Op -> Runs] /\ \A q \in Op : RunChange(q)
<1>f. run[o] \in Runs /\ authority \in Authorities /\ plan[o] \in PlanDocs
  BY RunFields DEF TypeOK
<1>u. ASSUME NEW r \in Runs, run' = [run EXCEPT ![o] = r] PROVE run'[o] = r
  BY <1>u DEF TypeOK
<1>p. ASSUME NEW p, plan' = [plan EXCEPT ![o] = p] PROVE plan'[o] = p
  BY <1>p DEF TypeOK
<1>1. CASE Preflight(o)
  <2> DEFINE r == [run[o] EXCEPT !.pc = "recover", !.todo = {q \in Op : plan[q].consumed}]
  <2>1. r \in Runs /\ r.pc \in Early
    BY <1>f DEF Runs, RunPc, Early
  <2>2. run' = [run EXCEPT ![o] = r]
    BY <1>1 DEF Preflight
  <2> QED BY <2>1, <2>2, RunUpdate
<1>2. ASSUME NEW q \in Op, RecoverLineage(o, q) PROVE Goal
  <2> DEFINE r == [run[o] EXCEPT !.todo = @ \ {q}]
  <2>1. r \in Runs /\ r.pc \in Early
    BY <1>f, <1>2 DEF Runs, RunPc, Early, RecoverLineage
  <2>2. run' = [run EXCEPT ![o] = r]
    BY <1>2 DEF RecoverLineage
  <2> QED BY <2>1, <2>2, RunUpdate
<1>3. CASE RecoveryLocked(o)
  BY <1>3, DraftTypes, RunUpdate DEF RecoveryLocked, NoRun, Early
<1>4. ASSUME NEW t \in Targets(o), CreatePlan(o, t) PROVE Goal
  <2> DEFINE r == [run[o] EXCEPT !.pc = "snapshot", !.target = t]
  <2>1. r \in Runs /\ r.pc \in Early
    BY <1>f, <1>4 DEF Runs, RunPc, Early, Targets, Tokens
  <2>2. run' = [run EXCEPT ![o] = r]
    BY <1>4 DEF CreatePlan
  <2> QED BY <2>1, <2>2, RunUpdate
<1>5. CASE Snapshot(o)
  <2> DEFINE r == [run[o] EXCEPT !.pc = "preflight", !.copy = authority]
  <2>1. r \in Runs /\ r.pc \in Early
    BY <1>f DEF Runs, RunPc, Early
  <2>2. run' = [run EXCEPT ![o] = r]
    BY <1>5 DEF Snapshot
  <2> QED BY <2>1, <2>2, RunUpdate
<1>6. CASE AuthorizeSnapshot(o)
  <2> DEFINE r == [run[o] EXCEPT !.pc = "admit"]
  <2>1. r \in Runs /\ r.pc \in Early
    BY <1>f DEF Runs, RunPc, Early
  <2>2. run' = [run EXCEPT ![o] = r]
    BY <1>6 DEF AuthorizeSnapshot, Goto
  <2> QED BY <2>1, <2>2, RunUpdate
<1>7. CASE Refuse(o) \/ Reconcile(o)
  BY <1>7, ReturnShape DEF Refuse, Reconcile
<1>8. CASE Admit(o)
  <2> DEFINE c == [authority EXCEPT !.reserved[o] = clock]
             r == [run[o] EXCEPT !.pc = "reserve", !.copy = c]
  <2>1. c \in Authorities
    BY <1>f DEF Authorities, TypeOK
  <2>2. run' = [run EXCEPT ![o] = r]
    BY <1>8 DEF Admit, AdmissionCopy
  <2> HIDE DEF c
  <2>3. r \in Runs /\ r.pc = "reserve" /\ r.target = run[o].target /\ r.copy = c
    BY <1>f, <2>1 DEF Runs, RunPc
  <2> HIDE DEF r
  <2>4. run'[o] = r
    BY <2>2, <2>3, <1>u
  <2>5. RunAdvance(o)
    BY <1>8, <2>3, <2>4 DEF RunAdvance, Admit, AdmissionCopy, docVars, c
  <2> QED BY <2>2, <2>3, <2>5, RunUpdate
<1>9. CASE SaveReservation(o)
  <2> DEFINE r == [run[o] EXCEPT !.pc = "consume", !.copy = DraftAuthority]
  <2>1. r \in Runs /\ r.pc = "consume" /\ r.target = run[o].target
    BY <1>f, DraftTypes DEF Runs, RunPc
  <2>2. run' = [run EXCEPT ![o] = r]
    BY <1>9 DEF SaveReservation
  <2> HIDE DEF r
  <2>3. RunAdvance(o)
    BY <1>9, <2>1, <2>2, <1>u DEF RunAdvance, SaveReservation, SaveAuthorityGuarded, lockVars
  <2> QED BY <2>1, <2>2, <2>3, RunUpdate
<1>10. CASE SaveConsumption(o)
  <2> DEFINE r == [run[o] EXCEPT !.pc = "attempt"]
             p == [plan[o] EXCEPT !.consumed = TRUE]
  <2>1. r \in Runs /\ r.pc = "attempt" /\ r.target = run[o].target /\ p.consumed
    BY <1>f DEF Runs, RunPc, PlanDocs
  <2>2. run' = [run EXCEPT ![o] = r] /\ plan' = [plan EXCEPT ![o] = p]
    BY <1>10 DEF SaveConsumption, Goto
  <2> HIDE DEF r, p
  <2>3. run'[o] = r /\ plan'[o] = p
    BY <2>1, <2>2, <1>u, <1>p
  <2>4. RunAdvance(o)
    BY <1>10, <2>1, <2>3 DEF RunAdvance, SaveConsumption, lockVars
  <2> QED BY <2>1, <2>2, <2>4, RunUpdate
<1>11. CASE SaveAttempt(o)
  <2> DEFINE r == [run[o] EXCEPT !.pc = "dispatch"]
             p == [plan[o] EXCEPT !.attempt = TRUE]
  <2>1. r \in Runs /\ r.pc = "dispatch" /\ r.target = run[o].target /\ p.attempt
    BY <1>f DEF Runs, RunPc, PlanDocs
  <2>2. run' = [run EXCEPT ![o] = r] /\ plan' = [plan EXCEPT ![o] = p]
    BY <1>11 DEF SaveAttempt, Goto
  <2> HIDE DEF r, p
  <2>3. run'[o] = r /\ plan'[o] = p
    BY <2>1, <2>2, <1>u, <1>p
  <2>4. RunAdvance(o)
    BY <1>11, <2>1, <2>3 DEF RunAdvance, SaveAttempt
  <2> QED BY <2>1, <2>2, <2>4, RunUpdate
<1>12. CASE Dispatch(o)
  <2> PICK outcome \in {"success", "failure"}, effect \in BOOLEAN :
         /\ outcome = "success" => effect
         /\ run' = [run EXCEPT ![o].pc = "respond", ![o].outcome = outcome]
         /\ effect /\ o \in Mints => created' = created \cup {o}
    BY <1>12 DEF Dispatch
  <2> DEFINE r == [run[o] EXCEPT !.pc = "respond", !.outcome = outcome]
  <2>1. r \in Runs /\ r.pc = "respond" /\ r.target = run[o].target /\ r.outcome = outcome
    BY <1>f DEF Runs, RunPc, Receipts
  <2>2. run' = [run EXCEPT ![o] = r]
    OBVIOUS
  <2> HIDE DEF r
  <2>3. RunAdvance(o)
    BY <1>12, <2>1, <2>2, <1>u DEF RunAdvance, Dispatch
  <2> QED BY <2>1, <2>2, <2>3, RunUpdate
<1>13. CASE Respond(o)
  <2> DEFINE r == [run[o] EXCEPT !.pc = "sink", !.durable = TRUE]
  <2>1. r \in Runs /\ r.pc = "sink" /\ r.target = run[o].target /\ r.outcome = run[o].outcome
    BY <1>f DEF Runs, RunPc
  <2>2. run' = [run EXCEPT ![o] = r]
    BY <1>13 DEF Respond
  <2> HIDE DEF r
  <2>3. RunAdvance(o)
    BY <1>13, <2>1, <2>2, <1>u DEF RunAdvance, Respond
  <2> QED BY <2>1, <2>2, <2>3, RunUpdate
<1>14. CASE Sink(o)
  <2>1. CASE Return(o)
    BY <2>1, ReturnShape
  <2>2. CASE Goto(o, "reconcile")
    <3> DEFINE r == [run[o] EXCEPT !.pc = "reconcile"]
    <3>1. r \in Runs /\ r.pc = "reconcile" /\ r.target = run[o].target /\ r.outcome = run[o].outcome
      BY <1>f DEF Runs, RunPc
    <3>2. run' = [run EXCEPT ![o] = r]
      BY <2>2 DEF Goto
    <3> HIDE DEF r
    <3>3. RunAdvance(o)
      BY <1>14, <3>1, <3>2, <1>u DEF RunAdvance, Sink
    <3> QED BY <3>1, <3>2, <3>3, RunUpdate
  <2> QED BY <1>14, <2>1, <2>2 DEF Sink
<1> QED BY <1>1, <1>2, <1>3, <1>4, <1>5, <1>6, <1>7, <1>8, <1>9, <1>10, <1>11, <1>12, <1>13, <1>14
     DEF RunStep, AdmissionStep

\* A failed write ends the run or moves it on; so does a crash.
LEMMA FaultShape ==
  ASSUME TypeOK, NEW o \in Op, WriteFails(o) \/ Crash(o)
  PROVE  /\ run' \in [Op -> Runs] /\ \A q \in Op : RunChange(q)
         /\ run'[o].pc \notin Admission
<1>f. run[o] \in Runs
  BY RunFields
<1>1. CASE Return(o)
  BY <1>1, ReturnShape DEF Admission
<1>2. CASE Crash(o)
  <2> DEFINE r == [NoRun EXCEPT !.pc = "done"]
  <2>1. r \in Runs /\ r.pc = "done"
    BY DraftTypes DEF Runs, RunPc
  <2>2. run' = [run EXCEPT ![o] = r]
    BY <1>2 DEF Crash
  <2> HIDE DEF r
  <2>3. run'[o] = r
    BY <2>2 DEF TypeOK
  <2> QED BY <2>1, <2>2, <2>3, RunUpdate DEF Early, Admission
<1>3. ASSUME NEW pc \in {"sink", "reconcile"}, Goto(o, pc),
             \/ run[o].pc = "respond" /\ pc = "sink"
             \/ run[o].pc = "sink" /\ pc = "reconcile"
      PROVE  /\ run' \in [Op -> Runs] /\ \A q \in Op : RunChange(q)
             /\ run'[o].pc \notin Admission
  <2> DEFINE r == [run[o] EXCEPT !.pc = pc]
  <2>1. r \in Runs /\ r.pc = pc /\ r.target = run[o].target /\ r.outcome = run[o].outcome
    BY <1>f DEF Runs, RunPc
  <2>2. run' = [run EXCEPT ![o] = r]
    BY <1>3 DEF Goto
  <2> HIDE DEF r
  <2>3. run'[o] = r
    BY <2>2 DEF TypeOK
  <2>4. RunAdvance(o)
    BY <1>3, <2>1, <2>3 DEF RunAdvance
  <2> QED BY <2>1, <2>2, <2>3, <2>4, RunUpdate DEF Admission
<1> QED BY <1>1, <1>2, <1>3 DEF WriteFails

\* What a step does to the authority document.
AuthorityChange ==
  \/ authority' = authority
  \/ /\ guard = NoOp
     /\ \/ authority' = [authority EXCEPT !.status = "Revoked"]
        \/ authority.status = "PendingApproval" /\ authority' = [authority EXCEPT !.status = "Active"]
        \/ \E q \in Op : Reconcilable(q) /\ authority' = [authority EXCEPT !.minted = @ \cup {q}]
  \/ \E o \in Op : /\ run[o].pc = "reserve" /\ run'[o].pc # "reserve"
                   /\ authority' = run[o].copy

LEMMA AuthorityStep == ASSUME TypeOK, [Next]_vars PROVE AuthorityChange
<1>1. ASSUME NEW q \in Op, ReconcileLineage(q) PROVE AuthorityChange
  BY <1>1 DEF AuthorityChange, ReconcileLineage, SaveAuthorityGuarded
<1>2. CASE Approve \/ Revoke
  BY <1>2 DEF Approve, Revoke, AuthorityChange, SaveAuthorityGuarded
<1>3. ASSUME NEW o \in Op, RunStep(o) PROVE AuthorityChange
  <2>1. CASE SaveReservation(o)
    <3> DEFINE r == [run[o] EXCEPT !.pc = "consume", !.copy = DraftAuthority]
    <3>1. run' = [run EXCEPT ![o] = r] /\ r.pc = "consume"
      BY <2>1, RunFields DEF SaveReservation, Runs
    <3> HIDE DEF r
    <3>2. run'[o].pc # "reserve"
      BY <3>1 DEF TypeOK
    <3> QED BY <2>1, <3>2 DEF SaveReservation, SaveAuthorityGuarded, AuthorityChange
  <2>2. CASE Reconcile(o)
    BY <1>1, <2>2 DEF Reconcile
  <2>3. ASSUME NEW q \in Op, RecoverLineage(o, q) PROVE AuthorityChange
    BY <1>1, <2>3 DEF RecoverLineage
  <2>4. CASE UNCHANGED authority
    BY <2>4 DEF AuthorityChange
  <2> QED BY <1>3, <2>1, <2>2, <2>3, <2>4
       DEF RunStep, AdmissionStep, Preflight, RecoveryLocked, Snapshot, AuthorizeSnapshot, Refuse,
           CreatePlan, Admit, SaveConsumption, SaveAttempt, Dispatch, Respond, Sink, docVars
<1>4. ASSUME NEW o \in Op, Rectify(o) PROVE AuthorityChange
  BY <1>1, <1>4 DEF Rectify
<1>5. ASSUME NEW o \in Op, WriteFails(o) PROVE AuthorityChange
  <2>1. CASE run[o].pc = "reserve" /\ Return(o) /\ authority' \in {authority, run[o].copy}
    BY <2>1, ReturnShape DEF AuthorityChange
  <2>2. CASE UNCHANGED authority
    BY <2>2 DEF AuthorityChange
  <2> QED BY <1>5, <2>1, <2>2 DEF WriteFails, docVars
<1>6. CASE UNCHANGED authority
  BY <1>6 DEF AuthorityChange
<1> QED BY <1>2, <1>3, <1>4, <1>5, <1>6 DEF Next, ClockMoves, Crash, LockGoesStale, docVars, vars

\* What a step does at Cloudflare: a request creates or removes one token.
WorldChange ==
  \/ UNCHANGED worldVars
  \/ \E o \in Op : /\ run[o].pc = "dispatch"
                   /\ \/ o \in Mints /\ tokens' = tokens \cup {o} /\ created' = created \cup {o}
                      \/ o \notin Mints /\ tokens' = tokens \ {run[o].target} /\ created' = created

LEMMA WorldStep == [Next]_vars => WorldChange
<1> SUFFICES ASSUME [Next]_vars PROVE WorldChange
  OBVIOUS
<1>1. ASSUME NEW o \in Op, Dispatch(o) PROVE WorldChange
  BY <1>1 DEF Dispatch, WorldChange, worldVars
<1>2. CASE UNCHANGED worldVars
  BY <1>2 DEF WorldChange
<1>3. ASSUME NEW o \in Op, RunStep(o) PROVE WorldChange
  BY <1>1, <1>2, <1>3
     DEF RunStep, AdmissionStep, Preflight, RecoveryLocked, Snapshot, AuthorizeSnapshot, Refuse,
         RecoverLineage, CreatePlan, Admit, SaveReservation, SaveConsumption, SaveAttempt, Respond,
         Sink, Reconcile
<1>4. ASSUME NEW o \in Op, WriteFails(o) \/ Crash(o) \/ LockGoesStale(o) \/ Rectify(o) PROVE WorldChange
  BY <1>2, <1>4 DEF WriteFails, Crash, LockGoesStale, Rectify
<1> QED BY <1>2, <1>3, <1>4 DEF Next, Approve, Revoke, ClockMoves, vars

\* What a step does to the authority lock.
GuardChange ==
  \/ guard' = guard
  \/ guard = NoOp /\ \E o \in Op : guard' = o
  \/ /\ guard' = NoOp
     /\ \E o \in Op : run'[o].pc \notin Admission /\ (guard = o \/ run[o].pc = "attempt")

\* What a step does to the runs and to the locks.
LEMMA RunsStep ==
  ASSUME TypeOK, [Next]_vars
  PROVE  /\ run' \in [Op -> Runs] /\ \A q \in Op : RunChange(q)
         /\ GuardChange
<1> DEFINE Goal == run' \in [Op -> Runs] /\ (\A q \in Op : RunChange(q)) /\ GuardChange
<1>1. CASE UNCHANGED <<run, guard>>
  BY <1>1 DEF RunChange, GuardChange, TypeOK
<1>2. ASSUME NEW o \in Op, RunStep(o) PROVE Goal
  <2>1. run' \in [Op -> Runs] /\ \A q \in Op : RunChange(q)
    BY <1>2, RunStepShape
  <2>2. CASE Admit(o)
    BY <2>1, <2>2 DEF Admit, GuardChange
  <2>3. CASE SaveAttempt(o)
    <3> DEFINE r == [run[o] EXCEPT !.pc = "dispatch"]
    <3>1. run' = [run EXCEPT ![o] = r] /\ r.pc = "dispatch"
      BY <2>3, RunFields DEF SaveAttempt, Goto, Runs
    <3> HIDE DEF r
    <3>2. run'[o].pc \notin Admission
      BY <3>1 DEF TypeOK, Admission
    <3> QED BY <2>1, <2>3, <3>2 DEF SaveAttempt, GuardChange
  <2>4. CASE guard' = guard
    BY <2>1, <2>4 DEF GuardChange
  <2> QED BY <1>2, <2>2, <2>3, <2>4
       DEF RunStep, AdmissionStep, Preflight, RecoveryLocked, Snapshot, AuthorizeSnapshot, Refuse,
           RecoverLineage, CreatePlan, SaveReservation, SaveConsumption, Dispatch, Respond, Sink,
           Reconcile, lockVars
<1>3. ASSUME NEW o \in Op, WriteFails(o) \/ Crash(o) PROVE Goal
  <2>1. /\ run' \in [Op -> Runs] /\ \A q \in Op : RunChange(q)
        /\ run'[o].pc \notin Admission
    BY <1>3, FaultShape
  <2>2. guard' = IF guard = o THEN NoOp ELSE guard
    BY <1>3 DEF WriteFails, Crash
  <2> QED BY <2>1, <2>2 DEF GuardChange
<1> QED BY <1>1, <1>2, <1>3
     DEF Next, Approve, Revoke, ClockMoves, Rectify, LockGoesStale, lockVars, vars

LEMMA PlanLockStep ==
  ASSUME TypeOK, [Next]_vars
  PROVE  planLock' \in [Op -> {"free", "held", "stale"}]
<1> DEFINE Locks == [Op -> {"free", "held", "stale"}]
<1>1. ASSUME NEW o \in Op, NEW s \in {"free", "held", "stale"}, planLock' = [planLock EXCEPT ![o] = s]
      PROVE  planLock' \in Locks
  BY <1>1 DEF TypeOK
<1>2. CASE planLock' = planLock
  BY <1>2 DEF TypeOK
<1>3. ASSUME NEW o \in Op, RunStep(o) PROVE planLock' \in Locks
  BY <1>1, <1>2, <1>3
     DEF RunStep, AdmissionStep, Preflight, RecoveryLocked, Snapshot, AuthorizeSnapshot, Refuse,
         RecoverLineage, CreatePlan, Admit, SaveReservation, SaveConsumption, SaveAttempt, Dispatch,
         Respond, Sink, Reconcile, Return, LockAndRelease, lockVars
<1>4. ASSUME NEW o \in Op, WriteFails(o) \/ Crash(o) \/ LockGoesStale(o) \/ Rectify(o)
      PROVE  planLock' \in Locks
  BY <1>1, <1>2, <1>4 DEF WriteFails, Crash, LockGoesStale, Rectify, Return, LockAndRelease
<1> QED BY <1>2, <1>3, <1>4 DEF Next, Approve, Revoke, ClockMoves, lockVars, vars

LEMMA TypeStep == TypeOK /\ [Next]_vars => TypeOK'
<1> SUFFICES ASSUME TypeOK, [Next]_vars PROVE TypeOK'
  OBVIOUS
<1>1. authority' \in Authorities
  <2>1. ASSUME NEW s \in {"Active", "Revoked"} PROVE [authority EXCEPT !.status = s] \in Authorities
    BY DEF TypeOK, Authorities
  <2>2. ASSUME NEW q \in Op, Reconcilable(q)
        PROVE  [authority EXCEPT !.minted = @ \cup {q}] \in Authorities
    BY <2>2 DEF TypeOK, Authorities, Reconcilable, Tokens
  <2>3. CASE \E o \in Op : authority' = run[o].copy
    BY <2>3, RunFields
  <2>4. CASE authority' = authority
    BY <2>4 DEF TypeOK
  <2> QED BY <2>1, <2>2, <2>3, <2>4, AuthorityStep DEF AuthorityChange
<1>2. plan' \in [Op -> PlanDocs]
  BY PlanStep
<1>3. run' \in [Op -> Runs] /\ guard' \in Op \cup {NoOp}
  BY RunsStep DEF TypeOK, GuardChange
<1>4. tokens' \subseteq Tokens /\ created' \subseteq Tokens
  BY WorldStep DEF TypeOK, WorldChange, worldVars, Tokens
<1>5. clock' \in Times /\ faults' \in 0 .. MaxFaults
  <2>1. CASE faults' = faults /\ clock' \in Times
    BY <2>1 DEF TypeOK
  <2>2. CASE Fault /\ clock' = clock
    BY <2>2, BoundsAssumption DEF Fault, TypeOK
  <2>3. ASSUME NEW o \in Op, RunStep(o) PROVE clock' = clock /\ faults' = faults
    BY <2>3
       DEF RunStep, AdmissionStep, Preflight, RecoveryLocked, Snapshot, AuthorizeSnapshot, Refuse,
           RecoverLineage, CreatePlan, Admit, SaveReservation, SaveConsumption, SaveAttempt, Dispatch,
           Respond, Sink, Reconcile
  <2>4. CASE Approve \/ Revoke \/ ClockMoves
    BY <2>1, <2>4 DEF Approve, Revoke, ClockMoves, TypeOK
  <2>5. ASSUME NEW o \in Op, Rectify(o) \/ LockGoesStale(o) PROVE clock' = clock /\ faults' = faults
    BY <2>5 DEF Rectify, LockGoesStale
  <2>6. ASSUME NEW o \in Op, WriteFails(o) \/ Crash(o) PROVE Fault /\ clock' = clock
    BY <2>6 DEF WriteFails, Crash
  <2> QED BY <2>1, <2>2, <2>3, <2>4, <2>5, <2>6 DEF Next, vars, TypeOK
<1> QED BY <1>1, <1>2, <1>3, <1>4, <1>5, PlanLockStep DEF TypeOK

LEMMA TypeInit == Init => TypeOK
BY DraftTypes, BoundsAssumption DEF Init, TypeOK, Times, Tokens

\* The authority document, the plans and the runs keep their shape, whatever
\* fails and however the clock is stepped.
THEOREM StandingTypeCorrect == Spec => []TypeOK
BY TypeInit, TypeStep, PTL DEF Spec

-----------------------------------------------------------------------------
\* The inductive invariant.

\* The rolling budget of a document.
Budget(a) ==
  \A t \in Times : Cardinality({o \in Op : a.reserved[o] \in t .. (t + Day)}) <= MaxRunsPerDay

\* While the reservation of o is in memory only, the stored document is the
\* one it was made on.
ReservationOf(o) ==
  /\ authority.status = "Active" /\ run[o].copy.status = "Active"
  /\ run[o].copy.minted = authority.minted
  /\ authority.reserved[o] = Never /\ run[o].copy.reserved[o] # Never
  /\ \A q \in Op \ {o} : run[o].copy.reserved[q] = authority.reserved[q]
  /\ Budget(run[o].copy)

Crossing == {"dispatch", "respond", "sink", "reconcile"}

\* A run in its admission holds the authority lock and its earlier writes are
\* durable; one past it has its attempt on record.
RunInv(o) ==
  /\ run[o].pc \in Admission => guard = o
  /\ run[o].pc = "reserve" => ReservationOf(o)
  /\ run[o].pc \in {"consume", "attempt"} => authority.reserved[o] # Never
  /\ run[o].pc = "attempt" => plan[o].consumed
  /\ run[o].pc \in Crossing => plan[o].attempt
  /\ run[o].pc \in Crossing \ {"dispatch"} /\ run[o].outcome = "success" /\ o \in Mints => o \in created
  /\ run[o].pc \in Admission \cup {"dispatch"} /\ o \notin Mints => run[o].target \in created

\* A successful receipt of a mint is of a token that was created.
ReceiptInv ==
  /\ created \subseteq Mints
  /\ \A o \in Mints : plan[o].receipt = "success" => o \in created

StandingInv ==
  /\ CrossingIsAccounted /\ RollingBudget /\ LineageBound
  /\ ReceiptInv
  /\ \A o \in Op : RunInv(o)

LEMMA StandingInit == Init => StandingInv
<1> SUFFICES ASSUME Init PROVE StandingInv
  OBVIOUS
<1>1. CrossingIsAccounted
  BY DEF Init, CrossingIsAccounted, DraftPlan, NoRun
<1>2. RollingBudget
  <2> SUFFICES ASSUME NEW t \in Times
               PROVE  Cardinality({o \in Op : authority.reserved[o] \in t .. (t + Day)}) <= MaxRunsPerDay
    BY DEF RollingBudget
  <2>1. {o \in Op : authority.reserved[o] \in t .. (t + Day)} = {}
    BY BoundsAssumption DEF Init, DraftAuthority, Never, Times
  <2> QED BY <2>1, FS_EmptySet, BoundsAssumption
<1>3. LineageBound /\ ReceiptInv
  BY OpAssumption DEF Init, LineageBound, ReceiptInv, DraftAuthority, DraftPlan, Tokens
<1>4. \A o \in Op : RunInv(o)
  BY DEF Init, RunInv, NoRun, Admission, Crossing
<1> QED BY <1>1, <1>2, <1>3, <1>4 DEF StandingInv

\* An admitted reservation keeps every window of a day within the budget: a
\* window that holds the new run holds only runs of the last day besides.
LEMMA BudgetGrows ==
  ASSUME TypeOK, RollingBudget, NEW o \in Op, Authorized(authority, o), authority.reserved[o] = Never
  PROVE  Budget([authority EXCEPT !.reserved[o] = clock])
<1> DEFINE c == [authority EXCEPT !.reserved[o] = clock]
           W(r, t) == {q \in Op : r[q] \in t .. (t + Day)}
           L == RunsInLastDay(authority)
<1>1. /\ authority.reserved \in [Op -> Times \cup {Never}]
      /\ c.reserved = [authority.reserved EXCEPT ![o] = clock]
  BY DEF TypeOK, Authorities
<1>2. /\ clock \in Times /\ Times \subseteq Nat /\ Day \in Nat /\ MaxRunsPerDay \in Nat
  BY BoundsAssumption DEF TypeOK, Times
<1> HIDE DEF c
<1> SUFFICES ASSUME NEW t \in Times PROVE Cardinality(W(c.reserved, t)) <= MaxRunsPerDay
  BY DEF Budget, c
<1>3. Cardinality(W(authority.reserved, t)) <= MaxRunsPerDay
  BY DEF RollingBudget
<1>4. CASE clock \notin t .. (t + Day)
  <2>1. W(c.reserved, t) = W(authority.reserved, t)
    BY <1>1, <1>2, <1>4 DEF Never
  <2> QED BY <1>3, <2>1
<1>5. CASE clock \in t .. (t + Day)
  <2>1. L \subseteq Op /\ o \notin L
    BY DEF RunsInLastDay
  <2>2. IsFiniteSet(L) /\ Cardinality(L) \in Nat
    BY <2>1, OpAssumption, FS_Subset, FS_CardinalityType
  <2>3. Cardinality(L) < MaxRunsPerDay
    BY DEF Authorized
  <2>4. IsFiniteSet(L \cup {o}) /\ Cardinality(L \cup {o}) = Cardinality(L) + 1
    BY <2>1, <2>2, FS_AddElement
  <2>5. W(c.reserved, t) \subseteq L \cup {o}
    <3> SUFFICES ASSUME NEW q \in Op \ {o}, c.reserved[q] \in t .. (t + Day)
                 PROVE  q \in L
      OBVIOUS
    <3>1. c.reserved[q] = authority.reserved[q]
      BY <1>1
    <3> QED BY <1>2, <1>5, <3>1 DEF RunsInLastDay, Never
  <2>6. Cardinality(W(c.reserved, t)) <= Cardinality(L \cup {o}) /\ IsFiniteSet(W(c.reserved, t))
    BY <2>4, <2>5, FS_Subset
  <2>7. Cardinality(W(c.reserved, t)) \in Nat
    BY <2>6, FS_CardinalityType
  <2> QED BY <1>2, <2>2, <2>3, <2>4, <2>6, <2>7
<1> QED BY <1>4, <1>5

\* How the stored documents and the world grow.
Grows ==
  /\ authority.minted \subseteq authority'.minted
  /\ \A o \in Op : authority.reserved[o] # Never => authority'.reserved[o] = authority.reserved[o]
  /\ authority.status = "Revoked" =>
       authority'.status = "Revoked" /\ authority'.reserved = authority.reserved

LEMMA AuthorityGrows ==
  ASSUME TypeOK, StandingInv, [Next]_vars
  PROVE  /\ Grows
         /\ RollingBudget'
         /\ authority'.minted \subseteq created
<1>0. LineageBound /\ RollingBudget /\ ReceiptInv /\ authority \in Authorities
  BY DEF StandingInv, TypeOK
<1>1. CASE authority' = authority
  BY <1>0, <1>1 DEF Grows, RollingBudget, LineageBound
<1>2. ASSUME NEW s \in {"Active", "Revoked"}, s = "Active" => authority.status # "Revoked",
             authority' = [authority EXCEPT !.status = s]
      PROVE  Grows /\ RollingBudget' /\ authority'.minted \subseteq created
  <2>1. /\ authority'.status = s /\ authority'.minted = authority.minted
        /\ authority'.reserved = authority.reserved
    BY <1>0, <1>2 DEF Authorities
  <2> QED BY <1>0, <1>2, <2>1 DEF Grows, RollingBudget, LineageBound
<1>3. ASSUME NEW q \in Op, Reconcilable(q), authority' = [authority EXCEPT !.minted = @ \cup {q}]
      PROVE  Grows /\ RollingBudget' /\ authority'.minted \subseteq created
  <2>1. /\ authority'.status = authority.status /\ authority'.minted = authority.minted \cup {q}
        /\ authority'.reserved = authority.reserved
    BY <1>0, <1>3 DEF Authorities
  <2>2. q \in created
    BY <1>0, <1>3 DEF Reconcilable, ReceiptInv
  <2> QED BY <1>0, <2>1, <2>2 DEF Grows, RollingBudget, LineageBound
<1>4. ASSUME NEW o \in Op, run[o].pc = "reserve", authority' = run[o].copy
      PROVE  Grows /\ RollingBudget' /\ authority'.minted \subseteq created
  <2>1. ReservationOf(o)
    BY <1>4 DEF StandingInv, RunInv
  <2> QED BY <1>0, <1>4, <2>1 DEF ReservationOf, Grows, RollingBudget, Budget, LineageBound
<1> QED BY <1>1, <1>2, <1>3, <1>4, AuthorityStep DEF AuthorityChange

\* While a run is in its admission, nobody else writes the authority.
LEMMA AdmissionIsExclusive ==
  ASSUME TypeOK, StandingInv, [Next]_vars, NEW q \in Op, run[q].pc \in Admission, run'[q] = run[q]
  PROVE  authority' = authority /\ guard' = q
<1>1. guard = q /\ guard # NoOp
  BY OpAssumption DEF StandingInv, RunInv
<1>2. ASSUME NEW o \in Op, run[o].pc \in Admission PROVE o = q
  BY <1>1, <1>2 DEF StandingInv, RunInv
<1>3. authority' = authority
  BY <1>1, <1>2, AuthorityStep DEF AuthorityChange, Admission
<1>4. guard' = guard
  BY <1>1, <1>2, RunsStep DEF GuardChange, Admission
<1> QED BY <1>1, <1>3, <1>4

\* A step never takes back a consumption or an attempt, and a receipt of
\* success follows a response of success.
LEMMA PlanGrows ==
  ASSUME TypeOK, [Next]_vars, NEW o \in Op
  PROVE  /\ plan[o].consumed => plan'[o].consumed
         /\ plan[o].attempt => plan'[o].attempt
         /\ plan'[o].consumed => plan[o].consumed \/ run[o].pc = "consume"
         /\ plan'[o].attempt => plan[o].attempt \/ run[o].pc = "attempt"
         /\ plan'[o].receipt = "success" =>
              plan[o].receipt = "success" \/ (run[o].pc = "respond" /\ run[o].outcome = "success")
BY PlanStep, RunFields DEF PlanChange, PlanDocs

LEMMA CreatedGrows ==
  ASSUME TypeOK, [Next]_vars
  PROVE  created \subseteq created'
BY WorldStep DEF WorldChange, worldVars

\* The run of o after any step.
LEMMA RunInvStep ==
  ASSUME TypeOK, StandingInv, [Next]_vars, NEW o \in Op
  PROVE  RunInv(o)'
<1>0. RunInv(o) /\ LineageBound
  BY DEF StandingInv
<1>t. TypeOK'
  BY TypeStep
<1>g. /\ authority.reserved[o] # Never => authority'.reserved[o] # Never
      /\ plan[o].consumed => plan'[o].consumed
      /\ plan[o].attempt => plan'[o].attempt
      /\ created \subseteq created'
  BY AuthorityGrows, PlanGrows, CreatedGrows DEF Grows
<1>1. CASE run'[o].pc \in Early
  BY <1>1 DEF RunInv, Early, Admission, Crossing
<1>2. CASE run'[o] = run[o]
  <2>1. CASE run[o].pc \in Admission
    <3>1. authority' = authority /\ guard' = o
      BY <1>2, <2>1, AdmissionIsExclusive
    <3>2. run[o].pc = "reserve" => ReservationOf(o)'
      BY <1>0, <1>2, <3>1 DEF RunInv, ReservationOf, Budget
    <3> QED BY <1>0, <1>2, <1>g, <2>1, <3>1, <3>2 DEF RunInv, Admission, Crossing
  <2>2. CASE run[o].pc \notin Admission
    BY <1>0, <1>2, <1>g, <2>2 DEF RunInv, Admission
  <2> QED BY <2>1, <2>2
<1>3. CASE RunAdvance(o)
  <2>a. run'[o].target = run[o].target
    BY <1>3 DEF RunAdvance
  <2>1. CASE /\ run[o].pc = "admit" /\ run'[o].pc = "reserve"
             /\ guard = NoOp /\ guard' = o
             /\ Authorized(authority, o) /\ authority.reserved[o] = Never
             /\ authority' = authority
             /\ run'[o].copy = [authority EXCEPT !.reserved[o] = clock]
    <3> DEFINE c == [authority EXCEPT !.reserved[o] = clock]
    <3>1. /\ c.status = authority.status /\ c.minted = authority.minted
          /\ c.reserved[o] = clock /\ \A q \in Op \ {o} : c.reserved[q] = authority.reserved[q]
      BY DEF TypeOK, Authorities
    <3>2. clock # Never
      BY BoundsAssumption DEF TypeOK, Times, Never
    <3>3. Budget(c)
      BY <2>1, BudgetGrows DEF StandingInv
    <3>4. run'[o].copy = c
      BY <2>1
    <3> HIDE DEF c
    <3>5. ReservationOf(o)'
      BY <2>1, <3>1, <3>2, <3>3, <3>4 DEF ReservationOf, Budget, Authorized, Operational
    <3>6. o \notin Mints => run'[o].target \in created'
      BY <1>0, <1>g, <2>a, <2>1 DEF Authorized, LineageBound
    <3> QED BY <2>1, <3>5, <3>6 DEF RunInv, Admission, Crossing
  <2>2. CASE /\ run[o].pc = "reserve" /\ run'[o].pc = "consume"
             /\ authority' = run[o].copy /\ guard' = guard
    BY <1>0, <1>g, <2>a, <2>2 DEF RunInv, Admission, Crossing, ReservationOf
  <2>3. CASE /\ run[o].pc = "consume" /\ run'[o].pc = "attempt"
             /\ plan'[o].consumed /\ guard' = guard
    BY <1>0, <1>g, <2>a, <2>3 DEF RunInv, Admission, Crossing
  <2>4. CASE /\ run[o].pc = "attempt" /\ run'[o].pc = "dispatch" /\ plan'[o].attempt
    BY <1>0, <1>g, <2>a, <2>4 DEF RunInv, Admission, Crossing
  <2>5. CASE /\ run[o].pc = "dispatch" /\ run'[o].pc = "respond"
             /\ run'[o].outcome = "success" /\ o \in Mints => o \in created'
    BY <1>0, <1>g, <2>5 DEF RunInv, Admission, Crossing
  <2>6. CASE /\ run[o].pc \in {"respond", "sink"} /\ run'[o].pc \in {"sink", "reconcile"}
             /\ run'[o].outcome = run[o].outcome
    BY <1>0, <1>g, <2>6 DEF RunInv, Admission, Crossing
  <2> QED BY <1>3, <2>1, <2>2, <2>3, <2>4, <2>5, <2>6 DEF RunAdvance
<1> QED BY <1>1, <1>2, <1>3, RunsStep DEF RunChange

LEMMA StandingStep == TypeOK /\ StandingInv /\ [Next]_vars => StandingInv'
<1> SUFFICES ASSUME TypeOK, StandingInv, [Next]_vars PROVE StandingInv'
  OBVIOUS
<1>r. \A o \in Op : RunInv(o)'
  BY RunInvStep
<1>w. created \subseteq created'
  BY CreatedGrows
<1>1. CrossingIsAccounted'
  <2> SUFFICES ASSUME NEW o \in Op
               PROVE  /\ run'[o].pc \in {"dispatch", "respond", "sink"} \/ o \in created' => plan'[o].attempt
                      /\ plan'[o].attempt => plan'[o].consumed
                      /\ plan'[o].consumed => authority'.reserved[o] # Never
    BY DEF CrossingIsAccounted
  <2>1. RunInv(o) /\ RunInv(o)' /\ CrossingIsAccounted
    BY <1>r DEF StandingInv
  <2>2. o \in created' => plan[o].attempt
    <3>1. CASE o \in created
      BY <2>1, <3>1 DEF CrossingIsAccounted
    <3>2. CASE o \notin created /\ o \in created'
      <4>1. run[o].pc = "dispatch"
        BY <3>2, WorldStep DEF WorldChange, worldVars
      <4> QED BY <2>1, <4>1 DEF RunInv, Crossing
    <3> QED BY <3>1, <3>2
  <2>3. run'[o].pc \in {"dispatch", "respond", "sink"} => plan'[o].attempt
    BY <2>1 DEF RunInv, Crossing
  <2>4. plan'[o].attempt => plan'[o].consumed
    BY <2>1, PlanGrows DEF RunInv, CrossingIsAccounted
  <2>5. plan'[o].consumed => authority'.reserved[o] # Never
    BY <2>1, PlanGrows, AuthorityGrows DEF RunInv, CrossingIsAccounted, Grows
  <2> QED BY <2>2, <2>3, <2>4, <2>5, PlanGrows
<1>2. RollingBudget'
  BY AuthorityGrows
<1>3. ReceiptInv'
  <2>1. created' \subseteq Mints
    BY WorldStep DEF StandingInv, ReceiptInv, WorldChange, worldVars
  <2>2. ASSUME NEW o \in Mints, plan'[o].receipt = "success" PROVE o \in created'
    BY <1>w, <2>2, PlanGrows, OpAssumption DEF StandingInv, ReceiptInv, RunInv, Crossing
  <2> QED BY <2>1, <2>2 DEF ReceiptInv
<1>4. LineageBound'
  <2>1. authority'.minted \subseteq created'
    BY <1>w, AuthorityGrows
  <2>2. ForeignToken \in tokens'
    <3>1. ForeignToken \in tokens /\ created \subseteq Mints
      BY DEF StandingInv, LineageBound, ReceiptInv
    <3>2. ASSUME NEW o \in Op, run[o].pc = "dispatch", o \notin Mints PROVE run[o].target # ForeignToken
      BY <3>1, <3>2, OpAssumption DEF StandingInv, RunInv
    <3> QED BY <3>1, <3>2, WorldStep DEF WorldChange, worldVars
  <2> QED BY <2>1, <2>2 DEF LineageBound
<1> QED BY <1>r, <1>1, <1>2, <1>3, <1>4 DEF StandingInv

LEMMA StandingInvHolds == Spec => [](TypeOK /\ StandingInv)
BY TypeInit, TypeStep, StandingInit, StandingStep, PTL DEF Spec

-----------------------------------------------------------------------------

\* Every effect at Cloudflare is preceded by a saved attempt, the attempt by a
\* saved consumption and the consumption by a saved reservation: the order of
\* the three writes in admit_standing_plan, whichever of them fails.
THEOREM CrossingIsAccountedHolds == Spec => []CrossingIsAccounted
BY StandingInvHolds, PTL DEF StandingInv

\* max_runs_per_day bounds the reservations in every window of 24 hours: the
\* reservation is made on the document that was reloaded under its lock, by
\* the clock at which it was authorized.
THEOREM RollingBudgetHolds == Spec => []RollingBudget
BY StandingInvHolds, PTL DEF StandingInv

\* The lineage index names only tokens this authority created, and a delete
\* under it never removes any other.
THEOREM LineageBoundHolds == Spec => []LineageBound
BY StandingInvHolds, PTL DEF StandingInv

\* No writer of the authority document loses the update of another, and
\* nothing is reserved after a revocation.
THEOREM NoLostUpdateHolds == Spec => NoLostUpdate
<1>1. TypeOK /\ StandingInv /\ [Next]_vars =>
        [/\ authority.minted \subseteq authority'.minted
         /\ \A o \in Op : authority.reserved[o] # Never =>
               authority'.reserved[o] = authority.reserved[o]
         /\ authority.status = "Revoked" =>
               authority'.status = "Revoked" /\ authority'.reserved = authority.reserved]_vars
  BY AuthorityGrows DEF Grows
<1> QED BY <1>1, StandingInvHolds, PTL DEF Spec, NoLostUpdate
=============================================================================
