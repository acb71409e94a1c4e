------------------------ MODULE PlanLifecycleProofs ------------------------
(***************************************************************************)
(* Proofs about the plan lock and the plan lifecycle, for any number of     *)
(* processes, faults and expiry times.                                      *)
(***************************************************************************)
EXTENDS PlanLifecycle, TLAPS

-----------------------------------------------------------------------------
\* The plan lock: mutual exclusion in behaviours where no live owner's lock
\* file has been removed.  OwnerKeepsFile is the inductive strengthening:
\* exclusion alone says nothing of a process that has created its file and not
\* yet written the record.

LEMMA NoFileType == NoFile \in LockFile
BY ProcAssumption, TtlAssumption DEF NoFile, LockFile, Ages

LEMMA LockTypeInit == LockInit => LockTypeOK
<1> SUFFICES ASSUME LockInit PROVE LockTypeOK
  OBVIOUS
<1>1. lockFile \in LockFile /\ faults \in 0 .. MaxFaults
  BY NoFileType, FaultsAssumption DEF LockInit
<1>2. at \in [Proc -> LockPc] /\ lockStolen \in BOOLEAN
  BY DEF LockInit, LockPc
<1> QED BY <1>1, <1>2 DEF LockTypeOK

LEMMA LockTypeStep == LockTypeOK /\ [LockNext]_lockVars => LockTypeOK'
<1> SUFFICES ASSUME LockTypeOK, [LockNext]_lockVars PROVE LockTypeOK'
  OBVIOUS
<1> USE FaultsAssumption, TtlAssumption, ProcAssumption, NoFileType
<1>1. ASSUME NEW p \in Proc, Begin(p) PROVE LockTypeOK'
  BY <1>1 DEF LockTypeOK, Begin, Goto, LockPc
<1>2. ASSUME NEW p \in Proc, NEW pc \in LockPc, CreatePlanLock(p, pc) PROVE LockTypeOK'
  <2>1. [NoFile EXCEPT !.owner = p] \in LockFile
    BY DEF LockFile, NoFile, Ages
  <2>2. lockFile' \in LockFile /\ lockStolen' \in BOOLEAN /\ faults' \in 0 .. MaxFaults
    BY <1>2, <2>1 DEF LockTypeOK, CreatePlanLock
  <2>3. at' \in [Proc -> LockPc]
    BY <1>2 DEF LockTypeOK, CreatePlanLock, Goto, LockPc
  <2> QED BY <2>2, <2>3 DEF LockTypeOK
<1>3. ASSUME NEW p \in Proc, AcquireStep(p) PROVE LockTypeOK'
  <2>1. CASE TryLock(p) \/ Recreate(p)
    BY <1>2, <2>1 DEF TryLock, Recreate, LockPc
  <2>2. CASE WriteRecord(p)
    BY <2>2 DEF LockTypeOK, WriteRecord, Goto, LockPc, LockFile
  <2>3. CASE WriteRecordFails(p)
    BY <2>3 DEF LockTypeOK, WriteRecordFails, Fault, Goto, LockPc, LockFile
  <2>4. CASE CheckExpired(p)
    BY <2>4 DEF LockTypeOK, CheckExpired, Goto, LockPc, LockFile
  <2>5. CASE RemoveExpired(p)
    BY <2>5 DEF LockTypeOK, RemoveExpired, RemoveFile, Goto, LockPc
  <2> QED BY <1>3, <2>1, <2>2, <2>3, <2>4, <2>5 DEF AcquireStep
<1>4. ASSUME NEW p \in Proc, Release(p) PROVE LockTypeOK'
  BY <1>4 DEF LockTypeOK, Release, Goto, LockPc, LockFile
<1>5. ASSUME NEW p \in Proc, DropRemove(p) PROVE LockTypeOK'
  BY <1>5 DEF LockTypeOK, DropRemove, RemoveFile, Goto, LockPc
<1>6. ASSUME NEW p \in Proc, Crash(p) PROVE LockTypeOK'
  BY <1>6 DEF LockTypeOK, Crash, Fault, Goto, LockPc
<1>7. CASE Tick
  BY <1>7 DEF LockTypeOK, Tick, LockFile, Ages
<1>8. CASE UNCHANGED lockVars
  BY <1>8 DEF LockTypeOK, lockVars
<1> QED BY <1>1, <1>3, <1>4, <1>5, <1>6, <1>7, <1>8 DEF LockNext

\* The state of the lock file, the program counters and the counters of the
\* lock keep their types through every call of lock_plan and of Drop.
THEOREM LockTypeCorrect == LockSpec => []LockTypeOK
BY LockTypeInit, LockTypeStep, PTL DEF LockSpec

-----------------------------------------------------------------------------

\* Each step of the lock protocol keeps OwnerKeepsFile.
LEMMA CreateKeepsOwner ==
  ASSUME NEW p \in Proc, NEW pc \in {"check", "idle"}, LockTypeOK, OwnerKeepsFile,
         CreatePlanLock(p, pc)
  PROVE  OwnerKeepsFile'
BY ProcAssumption DEF LockTypeOK, OwnerKeepsFile, CreatePlanLock, FileExists, Goto, Owning, NoFile, LockFile

LEMMA RemoveKeepsOwner ==
  ASSUME NEW p \in Proc, NEW pc \in {"recreate", "idle"}, LockTypeOK, OwnerKeepsFile,
         RemoveFile(p), Goto(p, pc)
  PROVE  OwnerKeepsFile'
BY DEF LockTypeOK, OwnerKeepsFile, RemoveFile, Goto, Owning

LEMMA AcquireKeepsOwner ==
  ASSUME NEW p \in Proc, LockTypeOK, OwnerKeepsFile, AcquireStep(p)
  PROVE  OwnerKeepsFile'
<1>1. CASE TryLock(p) \/ Recreate(p)
  BY <1>1, CreateKeepsOwner DEF TryLock, Recreate
<1>2. CASE WriteRecord(p)
  BY <1>2 DEF LockTypeOK, OwnerKeepsFile, WriteRecord, Goto, Owning, LockFile
<1>3. CASE WriteRecordFails(p)
  BY <1>3 DEF LockTypeOK, OwnerKeepsFile, WriteRecordFails, Goto, Owning, LockFile
<1>4. CASE CheckExpired(p)
  BY <1>4 DEF LockTypeOK, OwnerKeepsFile, CheckExpired, Goto, Owning, LockFile
<1>5. CASE RemoveExpired(p)
  BY <1>5, RemoveKeepsOwner DEF RemoveExpired
<1> QED BY <1>1, <1>2, <1>3, <1>4, <1>5 DEF AcquireStep

LEMMA ReleaseKeepsOwner ==
  ASSUME NEW p \in Proc, LockTypeOK, OwnerKeepsFile,
         Begin(p) \/ Release(p) \/ DropRemove(p) \/ Crash(p)
  PROVE  OwnerKeepsFile'
<1>1. CASE Begin(p) \/ Crash(p)
  BY <1>1 DEF LockTypeOK, OwnerKeepsFile, Begin, Crash, Goto, Owning
<1>2. CASE Release(p)
  BY <1>2 DEF LockTypeOK, OwnerKeepsFile, Release, Goto, Owning, LockFile
<1>3. CASE DropRemove(p)
  BY <1>3, RemoveKeepsOwner DEF DropRemove
<1> QED BY <1>1, <1>2, <1>3

LEMMA TickKeepsOwner ==
  ASSUME LockTypeOK, OwnerKeepsFile, Tick \/ UNCHANGED lockVars
  PROVE  OwnerKeepsFile'
BY DEF LockTypeOK, OwnerKeepsFile, Tick, lockVars, LockFile

LEMMA OwnerStep == LockTypeOK /\ OwnerKeepsFile /\ [LockNext]_lockVars => OwnerKeepsFile'
BY AcquireKeepsOwner, ReleaseKeepsOwner, TickKeepsOwner DEF LockNext

\* Unless a live owner's file has been removed, a process that created a lock
\* file finds its own file at the path until it releases it.
THEOREM OwnerKeepsFileHolds == LockSpec => []OwnerKeepsFile
<1>1. LockInit => OwnerKeepsFile
  BY DEF LockInit, OwnerKeepsFile, Owning
<1> QED BY <1>1, OwnerStep, LockTypeCorrect, PTL DEF LockSpec

\* Two processes hold the plan lock only after a takeover removed a live
\* owner's lock file.
THEOREM MutualExclusionHolds == LockSpec => []MutualExclusion
<1>1. OwnerKeepsFile => MutualExclusion
  BY DEF OwnerKeepsFile, MutualExclusion, Owning
<1> QED BY <1>1, OwnerKeepsFileHolds, PTL

-----------------------------------------------------------------------------

\* A guard past its nonce test has not read the file it will remove, unless
\* that file is its own: a file that is created later has no reader yet.
DropInv ==
  \A p \in Proc :
    (at[p] = "drop" /\ lockFile.owner \notin {p, NoOwner}) => p \notin lockFile.examined

LEMMA DropInvStep == LockTypeOK /\ DropInv /\ [LockNext]_lockVars => DropInv'
<1> SUFFICES ASSUME LockTypeOK, DropInv, [LockNext]_lockVars PROVE DropInv'
  OBVIOUS
<1>0. lockFile \in LockFile /\ at \in [Proc -> LockPc]
  BY DEF LockTypeOK
<1>1. ASSUME NEW p \in Proc, NEW pc \in {"check", "idle"}, CreatePlanLock(p, pc) PROVE DropInv'
  <2>1. CASE FileExists
    BY <1>0, <1>1, <2>1 DEF DropInv, CreatePlanLock, Goto
  <2>2. CASE ~FileExists
    <3>1. lockFile'.examined = {}
      BY <1>1, <2>2 DEF CreatePlanLock, NoFile
    <3> QED BY <3>1 DEF DropInv
  <2> QED BY <2>1, <2>2
<1>2. ASSUME NEW p \in Proc, Begin(p) \/ Crash(p) PROVE DropInv'
  BY <1>0, <1>2 DEF DropInv, Begin, Crash, Goto
<1>3. ASSUME NEW p \in Proc, WriteRecord(p) \/ WriteRecordFails(p) PROVE DropInv'
  <2>1. lockFile'.owner = lockFile.owner /\ lockFile'.examined = lockFile.examined
    BY <1>0, <1>3 DEF WriteRecord, WriteRecordFails, LockFile
  <2>2. \A q \in Proc : at'[q] = "drop" => at[q] = "drop"
    BY <1>0, <1>3 DEF WriteRecord, WriteRecordFails, Goto
  <2> QED BY <2>1, <2>2 DEF DropInv
<1>4. ASSUME NEW p \in Proc, CheckExpired(p) PROVE DropInv'
  <2>1. lockFile'.owner = lockFile.owner /\ lockFile'.examined \subseteq lockFile.examined \cup {p}
    BY <1>0, <1>4 DEF CheckExpired, LockFile
  <2>2. at'[p] # "drop" /\ \A q \in Proc : at'[q] = "drop" => at[q] = "drop"
    BY <1>0, <1>4 DEF CheckExpired, Goto
  <2> QED BY <2>1, <2>2 DEF DropInv
<1>5. ASSUME NEW p \in Proc, RemoveExpired(p) \/ DropRemove(p) PROVE DropInv'
  <2>1. lockFile'.owner = NoOwner
    BY <1>5 DEF RemoveExpired, DropRemove, RemoveFile, NoFile
  <2> QED BY <2>1 DEF DropInv
<1>6. ASSUME NEW p \in Proc, Release(p) PROVE DropInv'
  <2>1. lockFile'.owner = lockFile.owner /\ lockFile'.examined \subseteq lockFile.examined \cup {p}
    BY <1>0, <1>6 DEF Release, LockFile
  <2>2. /\ at'[p] = "drop" => lockFile.owner = p
        /\ \A q \in Proc \ {p} : at'[q] = "drop" => at[q] = "drop"
    BY <1>0, <1>6 DEF Release, Goto
  <2> QED BY <2>1, <2>2 DEF DropInv
<1>7. CASE Tick
  <2>1. lockFile'.owner = lockFile.owner /\ lockFile'.examined = lockFile.examined /\ at' = at
    BY <1>0, <1>7 DEF Tick, LockFile
  <2> QED BY <2>1 DEF DropInv
<1>8. CASE UNCHANGED lockVars
  BY <1>8 DEF DropInv, lockVars
<1>9. ASSUME NEW p \in Proc, TryLock(p) \/ Recreate(p) PROVE DropInv'
  BY <1>1, <1>9 DEF TryLock, Recreate
<1> QED BY <1>2, <1>3, <1>4, <1>5, <1>6, <1>7, <1>8, <1>9 DEF LockNext, AcquireStep

\* The nonce test of PlanLock::drop: no guard, however late, removes a
\* successor's lock file after having read it.
THEOREM DropKeepsSuccessorHolds == LockSpec => DropKeepsSuccessor
<1>1. LockInit => DropInv
  BY DEF LockInit, DropInv
<1>2. DropInv => \A p \in Proc :
        (at[p] = "drop" /\ at'[p] = "idle" /\ lockFile.owner \notin {p, NoOwner}
           /\ lockFile' = NoFile) => p \notin lockFile.examined
  BY DEF DropInv
<1>3. DropInv => [\A p \in Proc :
        (at[p] = "drop" /\ at'[p] = "idle" /\ lockFile.owner \notin {p, NoOwner}
           /\ lockFile' = NoFile) => p \notin lockFile.examined]_lockVars
  BY <1>2
<1>4. LockSpec => []DropInv
  BY <1>1, DropInvStep, LockTypeCorrect, PTL DEF LockSpec
<1> QED BY <1>3, <1>4, PTL DEF DropKeepsSuccessor

-----------------------------------------------------------------------------
\* Types of the plan lifecycle.

LEMMA DocTypes ==
  /\ NoDoc \in Docs /\ DraftDoc \in Docs
  /\ \A doc \in Docs, stage \in Stages, status \in Statuses : Record(doc, stage, status) \in Docs
<1>1. NoDoc \in Docs /\ DraftDoc \in Docs
  BY DEF NoDoc, DraftDoc, Docs, Statuses, Stages, PlanPrepared
<1>2. ASSUME NEW doc \in Docs, NEW stage \in Stages, NEW status \in Statuses
      PROVE  Record(doc, stage, status) \in Docs
  BY DEF Record, Docs
<1> QED BY <1>1, <1>2

LEMMA NoRunType == NoRun \in Runs
BY DocTypes DEF NoRun, Runs, RunPc

LEMMA DoneType ==
  ASSUME NEW p \in Proc, run \in [Proc -> Runs], Done(p)
  PROVE  run' \in [Proc -> Runs]
BY NoRunType DEF Done, NoRun, Runs, RunPc

LEMMA SaveType ==
  ASSUME NEW p \in Proc, NEW doc \in Docs, NEW pc \in RunPc, run \in [Proc -> Runs],
         Save(p, doc, pc)
  PROVE  run' \in [Proc -> Runs]
<1> DEFINE new == [run[p] EXCEPT !.save = doc, !.pc = "save2", !.then = pc]
<1>1. run' = [run EXCEPT ![p] = new]
  BY DEF Save
<1>2. new \in Runs
  BY DEF Runs, RunPc
<1> QED BY <1>1, <1>2

LEMMA PersistType ==
  ASSUME NEW p \in Proc, NEW stage \in Stages, NEW status \in Statuses, NEW pc \in RunPc,
         run \in [Proc -> Runs], Persist(p, stage, status, pc)
  PROVE  run' \in [Proc -> Runs]
<1>1. run[p].mem \in Docs
  BY DEF Runs
<1> QED BY <1>1, DocTypes, SaveType DEF Persist

\* Every lane calls its boundary once: an outcome, a status that shows the
\* consumption, and at most one crossing.
LEMMA BoundaryStep ==
  ASSUME NEW p \in Proc, Boundary(p)
  PROVE  /\ AtPc(p, "dispatch") /\ UNCHANGED <<lockVars, storeVars, expired, capability>>
         /\ \E outcome \in Outcomes,
              status \in {"Running", "Failed", "RectificationRequired", run[p].mem.status} :
              Called(p, outcome, status)
         /\ UNCHANGED <<crossings, applied>> \/ \E outcome \in Outcomes : Cross(outcome)
<1>1. CASE Dispatch(p)
  <2>1. PICK outcome \in Outcomes :
          /\ Called(p, outcome, OutcomeStatus(outcome))
          /\ IF outcome = "unsent" THEN UNCHANGED <<crossings, applied>> ELSE Cross(outcome)
    BY <1>1 DEF Dispatch
  <2>2. OutcomeStatus(outcome) \in {"Running", "Failed", "RectificationRequired"}
    BY DEF OutcomeStatus
  <2> QED BY <1>1, <2>1, <2>2 DEF Dispatch
<1>2. CASE RunProgram(p)
  <2>1. PICK outcome \in Outcomes :
          /\ Called(p, outcome, ReceiptStatus(p, outcome))
          /\ IF NotAttempted(outcome) THEN UNCHANGED <<crossings, applied>> ELSE Cross(outcome)
    BY <1>2 DEF RunProgram
  <2>2. ReceiptStatus(p, outcome) \in {"RectificationRequired", run[p].mem.status}
    BY DEF ReceiptStatus
  <2> QED BY <1>2, <2>1, <2>2 DEF RunProgram
<1>3. CASE PrepareHandoff(p)
  BY <1>3 DEF PrepareHandoff, worldVars, Outcomes
<1> QED BY <1>1, <1>2, <1>3 DEF Boundary

\* Every step is a step of the lock protocol, a counted fault, or leaves the
\* lock alone.
LEMMA LockOrFault ==
  ASSUME [Next]_vars
  PROVE  \/ [LockNext]_lockVars
         \/ Fault /\ UNCHANGED <<lockFile, at, lockStolen>>
<1>1. ASSUME NEW p \in Proc, AcquireLock(p) \/ ReleaseLock(p) \/ FinishDrop(p) \/ CrashProcess(p)
      PROVE  LockNext
  BY <1>1 DEF AcquireLock, ReleaseLock, FinishDrop, CrashProcess, LockNext
<1>2. ASSUME NEW p \in Proc, NEW cmd, LoadPlan(p, cmd) PROVE UNCHANGED lockVars
  BY <1>2 DEF LoadPlan
<1>3. ASSUME NEW p \in Proc, CommandStep(p) PROVE UNCHANGED lockVars
  BY <1>3 DEF CommandStep, Refuse, ApprovePlan, CancelPlan, Consume, RectifyCheckpoint, RectifyPlan,
     PersistAttempt, Boundary, Dispatch, RunProgram, PrepareHandoff, Called,
     Respond, Sink, Recover, CloseRejected, BeginVerification,
     DeferVerification, Readback, Finalize, WriteCanonical, WriteProjection
<1>4. ASSUME NEW p \in Proc,
             RespondWithoutEvidence(p) \/ ReceiptWithoutEvidence(p) \/ SinkFails(p) \/ WriteFails(p)
      PROVE  Fault /\ UNCHANGED <<lockFile, at, lockStolen>>
  BY <1>4 DEF RespondWithoutEvidence, ReceiptWithoutEvidence, SinkFails, WriteFails
<1>5. CASE TimePasses
  BY <1>5 DEF TimePasses, LockNext
<1>6. CASE UNCHANGED vars
  BY <1>6 DEF vars
<1> QED BY <1>1, <1>2, <1>3, <1>4, <1>5, <1>6 DEF Next, FaultStep

LEMMA LockPart ==
  ASSUME LockTypeOK, [Next]_vars
  PROVE  LockTypeOK' /\ (OwnerKeepsFile => OwnerKeepsFile')
<1>1. CASE [LockNext]_lockVars
  BY <1>1, LockTypeStep, OwnerStep
<1>2. CASE Fault /\ UNCHANGED <<lockFile, at, lockStolen>>
  <2>1. LockTypeOK'
    BY <1>2, FaultsAssumption DEF LockTypeOK, Fault
  <2>2. OwnerKeepsFile => OwnerKeepsFile'
    BY <1>2 DEF OwnerKeepsFile
  <2> QED BY <2>1, <2>2
<1> QED BY <1>1, <1>2, LockOrFault

LEMMA TypeInit == Init => TypeOK
<1> SUFFICES ASSUME Init PROVE TypeOK
  OBVIOUS
<1>1. run \in [Proc -> Runs]
  BY NoRunType DEF Init
<1>2. v2 \in Docs /\ v1 \in Docs
  BY DocTypes DEF Init
<1>3. crossings \in 0 .. MaxCrossings
  BY CrossingsAssumption DEF Init
<1>4. applied \in BOOLEAN /\ expired \in BOOLEAN /\ capability \in Capabilities
  BY DEF Init
<1> QED BY <1>1, <1>2, <1>3, <1>4, LockTypeInit DEF Init, TypeOK

LEMMA BeginRecoveryType ==
  ASSUME NEW p \in Proc, run \in [Proc -> Runs], BeginRecovery(p)
  PROVE  run' \in [Proc -> Runs]
<1> DEFINE new == [run[p] EXCEPT !.mem.status = "RectificationRequired", !.recovery = TRUE,
                                 !.save = NoDoc, !.pc = "recover", !.then = "done"]
<1>1. run' = [run EXCEPT ![p] = new]
  BY DEF BeginRecovery
<1>2. [run[p].mem EXCEPT !.status = "RectificationRequired"] \in Docs
  BY DEF Docs, Runs, Statuses
<1>3. new \in Runs
  BY <1>2, DocTypes DEF Runs, RunPc
<1> QED BY <1>1, <1>3

LEMMA RecoveryStageType ==
  ASSUME NEW doc \in Docs
  PROVE  RecoveryStage(doc) \in {BoundaryResponsePersisted, VerificationResponsePersisted, Closed}
BY DEF RecoveryStage

LEMMA ReceiptType ==
  ASSUME NEW doc \in Docs, NEW outcome \in Outcomes \cup {"none"}
  PROVE  [doc EXCEPT !.receipt = outcome] \in Docs
BY DEF Docs

\* The steps of a command that end in Done, Save or Persist.
LEMMA RunType ==
  ASSUME TypeOK, [Next]_vars
  PROVE  run' \in [Proc -> Runs]
<1>0. /\ run \in [Proc -> Runs] /\ v2 \in Docs
      /\ \A p \in Proc : /\ run[p].mem \in Docs /\ run[p].save \in Docs /\ run[p].then \in RunPc
                         /\ run[p].mem.status \in Statuses
                         /\ run[p].outcome \in Outcomes \cup {"none"}
  BY DEF TypeOK, Runs, Docs
<1> USE <1>0
<1>a. /\ {"done", "attempt", "dispatch", "sink", "verify", "defer", "readback", "close",
          "recover", "recheck"} \subseteq RunPc
      /\ {"Approved", "Cancelled", "Consumed", "RectificationRequired", "Verified", "Failed"} \subseteq Statuses
      /\ {ApprovalPersisted, ConsumptionPersisted, BoundaryAttemptPersisted, BoundaryResponsePersisted,
          SecretSinkPersisted, VerificationAttemptPersisted, VerificationResponsePersisted, Closed} \subseteq Stages
  BY DEF RunPc, Statuses, Stages
<1>1. ASSUME NEW p \in Proc, NEW cmd \in Commands, LoadPlan(p, cmd) PROVE run' \in [Proc -> Runs]
  <2> DEFINE refused == [run[p] EXCEPT !.cmd = cmd, !.pc = "done"]
             loaded == [run[p] EXCEPT !.cmd = cmd, !.pc = "act", !.mem = v2]
  <2>1. run' = [run EXCEPT ![p] = refused] \/ run' = [run EXCEPT ![p] = loaded]
    BY <1>1 DEF LoadPlan
  <2>2. refused \in Runs /\ loaded \in Runs
    BY DEF Runs, RunPc
  <2> QED BY <2>1, <2>2
<1>2. ASSUME NEW p \in Proc, Refuse(p) PROVE run' \in [Proc -> Runs]
  BY <1>2, DoneType DEF Refuse
<1>3. ASSUME NEW p \in Proc,
             \/ ApprovePlan(p) \/ CancelPlan(p) \/ Consume(p)
             \/ RectifyCheckpoint(p) \/ RectifyPlan(p)
      PROVE  run' \in [Proc -> Runs]
  BY <1>3, <1>a, PersistType, SaveType DEF ApprovePlan, CancelPlan, Consume, RectifyCheckpoint, RectifyPlan
<1>4. ASSUME NEW p \in Proc, PersistAttempt(p) \/ Sink(p) \/ SinkFails(p) PROVE run' \in [Proc -> Runs]
  BY <1>4, <1>a, PersistType DEF PersistAttempt, Sink, SinkFails
<1>5. ASSUME NEW p \in Proc, Boundary(p) PROVE run' \in [Proc -> Runs]
  <2>1. PICK outcome \in Outcomes,
             status \in {"Running", "Failed", "RectificationRequired", run[p].mem.status} :
          run' = [run EXCEPT ![p].pc = "respond", ![p].outcome = outcome, ![p].mem.status = status]
    BY <1>5, BoundaryStep DEF Called
  <2>2. status \in Statuses
    <3>1. {"Running", "Failed", "RectificationRequired"} \subseteq Statuses
      BY DEF Statuses
    <3> QED BY <2>1, <3>1
  <2> DEFINE doc == [run[p].mem EXCEPT !.status = status]
             next == [run[p] EXCEPT !.pc = "respond", !.outcome = outcome, !.mem = doc]
  <2>3. doc \in Docs
    BY <2>2 DEF Docs
  <2>4. run' = [run EXCEPT ![p] = next]
    BY <2>1
  <2> HIDE DEF doc
  <2>5. next \in Runs
    BY <2>3 DEF Runs, RunPc
  <2> QED BY <2>4, <2>5
<1>6. ASSUME NEW p \in Proc, Respond(p) PROVE run' \in [Proc -> Runs]
  <2>1. [Record(run[p].mem, BoundaryResponsePersisted, run[p].mem.status) EXCEPT !.receipt = run[p].outcome] \in Docs
    BY <1>a, DocTypes, ReceiptType
  <2> QED BY <1>6, <1>a, <2>1, SaveType DEF Respond, PersistResponse
<1>7. ASSUME NEW p \in Proc, RespondWithoutEvidence(p) PROVE run' \in [Proc -> Runs]
  <2>1. [Record(run[p].mem, BoundaryResponsePersisted, "RectificationRequired")
           EXCEPT !.receipt = run[p].outcome] \in Docs
    BY <1>a, DocTypes, ReceiptType
  <2> DEFINE doc == [Record(run[p].mem, BoundaryResponsePersisted, "RectificationRequired")
                       EXCEPT !.receipt = run[p].outcome]
             new == [run[p] EXCEPT !.save = doc, !.pc = "save2", !.then = "sink", !.recovery = TRUE]
  <2>2. run' = [run EXCEPT ![p] = new]
    BY <1>7 DEF RespondWithoutEvidence
  <2>3. new \in Runs
    <3> HIDE DEF doc
    <3>1. doc \in Docs
      BY <2>1 DEF doc
    <3> QED BY <3>1 DEF Runs, RunPc
  <2> QED BY <2>2, <2>3
<1>8. ASSUME NEW p \in Proc, CloseRejected(p) PROVE run' \in [Proc -> Runs]
  <2>1. [run[p].mem EXCEPT !.status = "Failed"] \in Docs
    BY DEF Docs, Statuses
  <2>2. [run[p] EXCEPT !.pc = "close", !.mem.status = "Failed"] \in Runs
    BY <2>1 DEF Runs, RunPc
  <2> QED BY <1>8, <2>2 DEF CloseRejected
<1>9. ASSUME NEW p \in Proc, BeginVerification(p) \/ DeferVerification(p) \/ Readback(p) \/ Finalize(p)
      PROVE  run' \in [Proc -> Runs]
  BY <1>9, <1>a, PersistType, SaveType DEF BeginVerification, DeferVerification, Readback, Finalize
<1>10. ASSUME NEW p \in Proc, WriteCanonical(p) PROVE run' \in [Proc -> Runs]
  BY <1>10 DEF WriteCanonical, Runs, RunPc
<1>11. ASSUME NEW p \in Proc, WriteProjection(p) PROVE run' \in [Proc -> Runs]
  <2>1. CASE run[p].then = "done"
    BY <1>11, <2>1, DoneType DEF WriteProjection
  <2>2. CASE run[p].then # "done"
    <3> DEFINE new == [run[p] EXCEPT !.mem = run[p].save, !.save = NoDoc, !.pc = run[p].then, !.then = "done"]
    <3>1. run' = [run EXCEPT ![p] = new]
      BY <1>11, <2>2 DEF WriteProjection
    <3>2. new \in Runs
      BY DocTypes, <1>a DEF Runs
    <3> QED BY <3>1, <3>2
  <2> QED BY <2>1, <2>2
<1>12. ASSUME NEW p \in Proc, SaveFailed(p) PROVE run' \in [Proc -> Runs]
  <2>1. CASE run[p].then = "sink" /\ ~Delegated
    <3> DEFINE new == [run[p] EXCEPT !.mem.status = "RectificationRequired", !.recovery = TRUE,
                                     !.save = NoDoc, !.pc = "sink", !.then = "done"]
    <3>1. run' = [run EXCEPT ![p] = new]
      BY <1>12, <2>1 DEF SaveFailed
    <3>2. [run[p].mem EXCEPT !.status = "RectificationRequired"] \in Docs
      BY DEF Docs, Statuses
    <3>3. new \in Runs
      BY <3>2, DocTypes, <1>a DEF Runs
    <3> QED BY <3>1, <3>3
  <2>2. CASE ~(run[p].then = "sink" /\ ~Delegated)
    <3>1. Done(p) \/ BeginRecovery(p)
      BY <1>12, <2>2 DEF SaveFailed
    <3> QED BY <3>1, DoneType, BeginRecoveryType
  <2> QED BY <2>1, <2>2
<1>13. ASSUME NEW p \in Proc, ReleaseLock(p) \/ CrashProcess(p) PROVE run' \in [Proc -> Runs]
  BY <1>13, NoRunType DEF ReleaseLock, CrashProcess
<1>14. ASSUME NEW p \in Proc, AcquireLock(p) \/ FinishDrop(p) PROVE run' \in [Proc -> Runs]
  BY <1>14 DEF AcquireLock, FinishDrop, planVars
<1>15. CASE TimePasses \/ UNCHANGED vars
  BY <1>15 DEF TimePasses, vars, planVars
<1>r. ASSUME NEW p \in Proc, Recover(p) PROVE run' \in [Proc -> Runs]
  <2> DEFINE stage == RecoveryStage(run[p].mem)
             rec == Record(run[p].mem, stage, "RectificationRequired")
             doc == [rec EXCEPT !.receipt = IF stage = BoundaryResponsePersisted
                                            THEN run[p].outcome ELSE @]
             new == [run[p] EXCEPT !.save = doc, !.pc = "save2", !.then = "done", !.recovery = TRUE]
  <2>1. stage \in Stages
    BY <1>a, RecoveryStageType
  <2>2. rec \in Docs
    BY <2>1, <1>a, DocTypes
  <2>3. doc \in Docs
    <3> HIDE DEF stage, rec
    <3> QED BY <2>2 DEF Docs
  <2>4. run' = [run EXCEPT ![p] = new]
    BY <1>r DEF Recover
  <2>5. new \in Runs
    <3> HIDE DEF doc
    <3> QED BY <2>3 DEF Runs, RunPc
  <2> QED BY <2>4, <2>5
<1>16. ASSUME NEW p \in Proc, CommandStep(p) PROVE run' \in [Proc -> Runs]
  BY <1>16, <1>2, <1>3, <1>4, <1>5, <1>6, <1>8, <1>9, <1>10, <1>11, <1>r DEF CommandStep
<1>17. ASSUME NEW p \in Proc, FaultStep(p) PROVE run' \in [Proc -> Runs]
  BY <1>17, <1>4, <1>7, <1>12, <1>13, BeginRecoveryType DEF FaultStep, WriteFails, ReceiptWithoutEvidence
<1> QED BY <1>1, <1>13, <1>14, <1>15, <1>16, <1>17 DEF Next

\* The stored documents change only in the two writes.
LEMMA StoreStep ==
  ASSUME [Next]_vars
  PROVE  \/ UNCHANGED storeVars
         \/ \E p \in Proc : \/ AtPc(p, "save2") /\ v2' = run[p].save /\ v1' = v1
                            \/ AtPc(p, "save1") /\ v1' = run[p].save /\ v2' = v2
<1>1. ASSUME NEW p \in Proc, WriteCanonical(p) \/ WriteProjection(p) \/ WriteFails(p)
      PROVE  \/ UNCHANGED storeVars
             \/ AtPc(p, "save2") /\ v2' = run[p].save /\ v1' = v1
             \/ AtPc(p, "save1") /\ v1' = run[p].save /\ v2' = v2
  BY <1>1 DEF WriteCanonical, WriteProjection, WriteFails, storeVars
<1>2. ASSUME NEW p \in Proc, NEW cmd, LoadPlan(p, cmd) PROVE UNCHANGED storeVars
  BY <1>2 DEF LoadPlan
<1>3. ASSUME NEW p \in Proc,
             \/ AcquireLock(p) \/ ReleaseLock(p) \/ FinishDrop(p) \/ CrashProcess(p)
             \/ RespondWithoutEvidence(p) \/ ReceiptWithoutEvidence(p) \/ SinkFails(p)
      PROVE  UNCHANGED storeVars
  BY <1>3 DEF AcquireLock, ReleaseLock, FinishDrop, CrashProcess, RespondWithoutEvidence,
     ReceiptWithoutEvidence, SinkFails, planVars, storeVars
<1>4. ASSUME NEW p \in Proc, CommandStep(p), ~WriteCanonical(p), ~WriteProjection(p)
      PROVE  UNCHANGED storeVars
  BY <1>4 DEF CommandStep, Refuse, ApprovePlan, CancelPlan, Consume, RectifyCheckpoint, RectifyPlan,
     PersistAttempt, Boundary, Dispatch, RunProgram, PrepareHandoff, Called,
     Respond, Sink, Recover, CloseRejected, BeginVerification,
     DeferVerification, Readback, Finalize
<1>5. CASE TimePasses \/ UNCHANGED vars
  BY <1>5 DEF TimePasses, vars, planVars, storeVars
<1> QED BY <1>1, <1>2, <1>3, <1>4, <1>5 DEF Next, FaultStep

\* The world changes only in a dispatch and by the passing of time.
LEMMA WorldStep ==
  ASSUME [Next]_vars
  PROVE  \/ UNCHANGED worldVars
         \/ expired' = TRUE /\ UNCHANGED <<crossings, applied, capability>>
         \/ \E p \in Proc : Boundary(p)
<1>1. ASSUME NEW p \in Proc, NEW cmd, LoadPlan(p, cmd) PROVE UNCHANGED worldVars
  BY <1>1 DEF LoadPlan
<1>2. ASSUME NEW p \in Proc,
             \/ AcquireLock(p) \/ ReleaseLock(p) \/ FinishDrop(p) \/ FaultStep(p)
      PROVE  UNCHANGED worldVars
  BY <1>2 DEF AcquireLock, ReleaseLock, FinishDrop, FaultStep, CrashProcess, RespondWithoutEvidence,
     ReceiptWithoutEvidence, SinkFails, WriteFails, planVars, worldVars
<1>3. ASSUME NEW p \in Proc, CommandStep(p), ~Boundary(p) PROVE UNCHANGED worldVars
  BY <1>3 DEF CommandStep, Refuse, ApprovePlan, CancelPlan, Consume, RectifyCheckpoint, RectifyPlan,
     PersistAttempt, Respond, Sink, Recover, CloseRejected, BeginVerification, DeferVerification,
     Readback, Finalize, WriteCanonical, WriteProjection
<1>4. CASE TimePasses \/ UNCHANGED vars
  BY <1>4 DEF TimePasses, vars, planVars, worldVars
<1> QED BY <1>1, <1>2, <1>3, <1>4 DEF Next

\* What the call of a boundary does to the world.
LEMMA BoundaryWorld ==
  ASSUME TypeOK, NEW p \in Proc, Boundary(p)
  PROVE  /\ crossings' \in 0 .. MaxCrossings /\ applied' \in BOOLEAN
         /\ crossings' \in {crossings, crossings + 1}
         /\ applied = TRUE => applied' = TRUE
         /\ expired' = expired /\ capability' = capability
<1>1. UNCHANGED <<crossings, applied>> \/ \E outcome \in Outcomes : Cross(outcome)
  BY BoundaryStep
<1>2. crossings \in 0 .. MaxCrossings /\ applied \in BOOLEAN
  BY DEF TypeOK
<1>3. crossings' \in 0 .. MaxCrossings /\ crossings' \in {crossings, crossings + 1}
  <2>1. crossings' = crossings \/ (crossings < MaxCrossings /\ crossings' = crossings + 1)
    BY <1>1 DEF Cross
  <2> QED BY <2>1, <1>2, CrossingsAssumption
<1>4. applied' \in {applied, TRUE}
  BY <1>1 DEF Cross
<1>5. expired' = expired /\ capability' = capability
  BY BoundaryStep
<1> QED BY <1>2, <1>3, <1>4, <1>5

LEMMA TypeStep == TypeOK /\ [Next]_vars => TypeOK'
<1> SUFFICES ASSUME TypeOK, [Next]_vars PROVE TypeOK'
  OBVIOUS
<1>1. LockTypeOK'
  BY LockPart DEF TypeOK
<1>2. v2' \in Docs /\ v1' \in Docs
  BY StoreStep DEF TypeOK, Runs, storeVars
<1>3. crossings' \in 0 .. MaxCrossings /\ applied' \in BOOLEAN /\ expired' \in BOOLEAN
      /\ capability' \in Capabilities
  BY WorldStep, BoundaryWorld DEF TypeOK, worldVars
<1> QED BY <1>1, <1>2, <1>3, RunType DEF TypeOK

\* Every reachable state of the lifecycle is well typed.
THEOREM TypeCorrect == Spec => []TypeOK
BY TypeInit, TypeStep, PTL DEF Spec

-----------------------------------------------------------------------------
\* What Save, Persist and Done leave in the command's record.

LEMMA SaveShape ==
  ASSUME TypeOK, NEW p \in Proc, NEW doc, NEW pc, Save(p, doc, pc)
  PROVE  /\ run'[p].mem = run[p].mem /\ run'[p].outcome = run[p].outcome
         /\ run'[p].recovery = run[p].recovery
         /\ run'[p].save = doc /\ run'[p].pc = "save2" /\ run'[p].then = pc
         /\ \A q \in Proc \ {p} : run'[q] = run[q]
BY DEF TypeOK, Save, Runs

LEMMA DoneShape ==
  ASSUME TypeOK, NEW p \in Proc, Done(p)
  PROVE  /\ run'[p].mem = NoDoc /\ run'[p].save = NoDoc /\ run'[p].pc = "done"
         /\ run'[p].then = "done" /\ run'[p].outcome = "none"
         /\ \A q \in Proc \ {p} : run'[q] = run[q]
BY DEF TypeOK, Done, NoRun

LEMMA BoundaryShape ==
  ASSUME TypeOK, NEW p \in Proc, Boundary(p)
  PROVE  /\ run'[p].outcome \in Outcomes
         /\ run'[p].mem.status \in {"Running", "Failed", "RectificationRequired", run[p].mem.status}
         /\ run'[p].mem.journal = run[p].mem.journal /\ run'[p].mem.stage = run[p].mem.stage
         /\ run'[p].save = run[p].save /\ run'[p].pc = "respond" /\ run'[p].then = run[p].then
         /\ \A q \in Proc \ {p} : run'[q] = run[q]
<1>1. PICK outcome \in Outcomes,
           status \in {"Running", "Failed", "RectificationRequired", run[p].mem.status} :
        run' = [run EXCEPT ![p].pc = "respond", ![p].outcome = outcome, ![p].mem.status = status]
  BY BoundaryStep DEF Called
<1>2. run'[p] = [run[p] EXCEPT !.pc = "respond", !.outcome = outcome, !.mem.status = status]
      /\ \A q \in Proc \ {p} : run'[q] = run[q]
  BY <1>1 DEF TypeOK
<1>3. run[p] \in Runs /\ run[p].mem \in Docs
  BY DEF TypeOK, Runs
<1>4. run'[p].outcome = outcome /\ run'[p].pc = "respond" /\ run'[p].save = run[p].save
      /\ run'[p].then = run[p].then
      /\ run'[p].mem = [run[p].mem EXCEPT !.status = status]
  BY <1>2, <1>3 DEF Runs
<1>5. /\ run'[p].mem.status = status /\ run'[p].mem.journal = run[p].mem.journal
      /\ run'[p].mem.stage = run[p].mem.stage
  BY <1>3, <1>4 DEF Docs
<1> QED BY <1>1, <1>2, <1>4, <1>5

LEMMA CloseShape ==
  ASSUME TypeOK, NEW p \in Proc, CloseRejected(p)
  PROVE  /\ run'[p].mem.status = "Failed" /\ run'[p].mem.journal = run[p].mem.journal
         /\ run'[p].mem.stage = run[p].mem.stage
         /\ run'[p].save = run[p].save /\ run'[p].pc = "close" /\ run'[p].then = run[p].then
         /\ run'[p].outcome = run[p].outcome
         /\ \A q \in Proc \ {p} : run'[q] = run[q]
<1>1. run'[p] = [run[p] EXCEPT !.pc = "close", !.mem.status = "Failed"]
      /\ \A q \in Proc \ {p} : run'[q] = run[q]
  BY DEF TypeOK, CloseRejected
<1>2. run[p] \in Runs /\ run[p].mem \in Docs
  BY DEF TypeOK, Runs
<1>3. run'[p].mem = [run[p].mem EXCEPT !.status = "Failed"]
      /\ run'[p].save = run[p].save /\ run'[p].pc = "close" /\ run'[p].then = run[p].then
      /\ run'[p].outcome = run[p].outcome
  BY <1>1, <1>2 DEF Runs
<1> QED BY <1>1, <1>2, <1>3 DEF Docs

LEMMA BeginRecoveryShape ==
  ASSUME TypeOK, NEW p \in Proc, BeginRecovery(p)
  PROVE  /\ run'[p].mem.status = "RectificationRequired" /\ run'[p].mem.journal = run[p].mem.journal
         /\ run'[p].mem.stage = run[p].mem.stage /\ run'[p].outcome = run[p].outcome
         /\ run'[p].save = NoDoc /\ run'[p].pc = "recover" /\ run'[p].then = "done"
         /\ \A q \in Proc \ {p} : run'[q] = run[q]
<1>1. run'[p] = [run[p] EXCEPT !.mem.status = "RectificationRequired", !.recovery = TRUE,
                               !.save = NoDoc, !.pc = "recover", !.then = "done"]
      /\ \A q \in Proc \ {p} : run'[q] = run[q]
  BY DEF TypeOK, BeginRecovery
<1>2. run[p] \in Runs /\ run[p].mem \in Docs
  BY DEF TypeOK, Runs
<1>3. /\ run'[p].mem = [run[p].mem EXCEPT !.status = "RectificationRequired"]
      /\ run'[p].save = NoDoc /\ run'[p].pc = "recover" /\ run'[p].then = "done"
      /\ run'[p].outcome = run[p].outcome
  BY <1>1, <1>2 DEF Runs
<1> QED BY <1>1, <1>2, <1>3 DEF Docs

\* The save of a recovery checkpoint: the copy plus one stage.
LEMMA RecoverShape ==
  ASSUME TypeOK, NEW p \in Proc, Recover(p)
  PROVE  \E stage \in {BoundaryResponsePersisted, VerificationResponsePersisted, Closed} :
           /\ stage = RecoveryStage(run[p].mem) /\ run'[p].save.stage = stage
           /\ run'[p].save.status = "RectificationRequired"
           /\ run'[p].save.journal = run[p].mem.journal \cup {stage}
           /\ run'[p].mem = run[p].mem /\ run'[p].outcome = run[p].outcome
           /\ run'[p].recovery = TRUE
           /\ run'[p].pc = "save2" /\ run'[p].then = "done"
           /\ \A q \in Proc \ {p} : run'[q] = run[q]
<1> DEFINE stage == RecoveryStage(run[p].mem)
           rec == Record(run[p].mem, stage, "RectificationRequired")
           doc == [rec EXCEPT !.receipt = IF stage = BoundaryResponsePersisted
                                          THEN run[p].outcome ELSE @]
<1>1. run[p] \in Runs /\ run[p].mem \in Docs
  BY DEF TypeOK, Runs
<1>2. stage \in {BoundaryResponsePersisted, VerificationResponsePersisted, Closed}
  BY <1>1, RecoveryStageType
<1>3. /\ rec.status = "RectificationRequired" /\ rec.stage = stage
      /\ rec.journal = run[p].mem.journal \cup {stage}
  BY <1>1 DEF Record, Docs
<1>4. doc.status = rec.status /\ doc.stage = rec.stage /\ doc.journal = rec.journal
  BY <1>1 DEF Record, Docs
<1>5. run'[p] = [run[p] EXCEPT !.save = doc, !.pc = "save2", !.then = "done", !.recovery = TRUE]
      /\ \A q \in Proc \ {p} : run'[q] = run[q]
  BY DEF TypeOK, Recover
<1>s. stage = RecoveryStage(run[p].mem)
  OBVIOUS
<1> HIDE DEF doc, rec, stage
<1>6. /\ run'[p].save = doc /\ run'[p].mem = run[p].mem /\ run'[p].outcome = run[p].outcome
      /\ run'[p].pc = "save2" /\ run'[p].then = "done" /\ run'[p].recovery = TRUE
  BY <1>1, <1>5 DEF Runs
<1> QED BY <1>s, <1>2, <1>3, <1>4, <1>5, <1>6

LEMMA RecordShape ==
  ASSUME NEW doc \in Docs, NEW stage \in Stages, NEW status \in Statuses
  PROVE  /\ Record(doc, stage, status).status = status
         /\ Record(doc, stage, status).stage = stage
         /\ Record(doc, stage, status).journal = doc.journal \cup {stage}
         /\ Record(doc, stage, status).receipt = doc.receipt
BY DEF Record, Docs

LEMMA RunFields ==
  ASSUME TypeOK
  PROVE  \A p \in Proc : /\ run[p].mem \in Docs /\ run[p].save \in Docs
                         /\ run[p].mem.status \in Statuses /\ run[p].mem.journal \in SUBSET Stages
                         /\ run[p].outcome \in Outcomes \cup {"none"}
BY DEF TypeOK, Runs, Docs

LEMMA ConstantTypes ==
  /\ {ApprovalPersisted, ConsumptionPersisted, BoundaryAttemptPersisted, BoundaryResponsePersisted,
      SecretSinkPersisted, VerificationAttemptPersisted, VerificationResponsePersisted, Closed} \subseteq Stages
  /\ {"Approved", "Cancelled", "Consumed", "RectificationRequired", "Verified", "Failed"} \subseteq Statuses
BY DEF Stages, Statuses

-----------------------------------------------------------------------------
\* Authority precedes the boundary, in every copy of the plan.

\* A document shows the admission of every stage it shows.
Admitted(doc) ==
  /\ BoundaryAttemptPersisted \in doc.journal => ConsumptionPersisted \in doc.journal
  /\ ConsumptionPersisted \in doc.journal => capability.auto \/ ApprovalPersisted \in doc.journal
  /\ doc.status = "Approved" => ApprovalPersisted \in doc.journal

AdmittedRun(r) ==
  /\ Admitted(r.mem) /\ Admitted(r.save)
  /\ r.pc = "attempt" => ConsumptionPersisted \in r.mem.journal
  /\ r.then = "attempt" => ConsumptionPersisted \in r.save.journal

\* The strengthening of AuthorityPrecedesBoundary: the copies in memory and
\* the saves under way are covered too, and a command about to announce the
\* attempt works on a consumed copy.
AuthorityInv == Admitted(v1) /\ Admitted(v2) /\ \A p \in Proc : AdmittedRun(run[p])

LEMMA AdmittedNoDoc == Admitted(NoDoc)
BY DEF Admitted, NoDoc

LEMMA AdmittedRecord ==
  ASSUME NEW doc \in Docs, NEW stage \in Stages, NEW status \in Statuses, Admitted(doc),
         stage = BoundaryAttemptPersisted => ConsumptionPersisted \in doc.journal,
         stage = ConsumptionPersisted => capability.auto \/ ApprovalPersisted \in doc.journal,
         status = "Approved" => stage = ApprovalPersisted \/ doc.status = "Approved"
  PROVE  Admitted(Record(doc, stage, status))
BY RecordShape DEF Admitted, BoundaryAttemptPersisted, ConsumptionPersisted, ApprovalPersisted

LEMMA AdmittedSave ==
  ASSUME TypeOK, AuthorityInv, NEW p \in Proc, NEW doc, NEW pc, Save(p, doc, pc), Admitted(doc),
         pc = "attempt" => ConsumptionPersisted \in doc.journal,
         UNCHANGED <<v1, v2, capability>>
  PROVE  AuthorityInv'
BY SaveShape DEF AuthorityInv, AdmittedRun, Admitted

LEMMA AdmittedDone ==
  ASSUME TypeOK, AuthorityInv, NEW p \in Proc, Done(p), UNCHANGED capability,
         Admitted(v1)', Admitted(v2)'
  PROVE  AuthorityInv'
BY DoneShape, AdmittedNoDoc DEF AuthorityInv, AdmittedRun, Admitted, NoDoc

\* persist_transaction_stage of any stage but the two that need authority.
LEMMA AdmittedPersist ==
  ASSUME TypeOK, AuthorityInv, NEW p \in Proc,
         NEW stage \in Stages \ {BoundaryAttemptPersisted, ConsumptionPersisted},
         NEW status \in Statuses, NEW pc, pc # "attempt",
         status = "Approved" => stage = ApprovalPersisted \/ run[p].mem.status = "Approved",
         Persist(p, stage, status, pc), UNCHANGED <<v1, v2, capability>>
  PROVE  AuthorityInv'
<1>1. Admitted(Record(run[p].mem, stage, status))
  BY RunFields, AdmittedRecord DEF AuthorityInv, AdmittedRun
<1> QED BY <1>1, AdmittedSave DEF Persist

LEMMA AuthorityStep == TypeOK /\ AuthorityInv /\ [Next]_vars => AuthorityInv'
<1> SUFFICES ASSUME TypeOK, AuthorityInv, [Next]_vars PROVE AuthorityInv'
  OBVIOUS
<1> USE ConstantTypes
<1>1. ASSUME NEW p \in Proc, NEW cmd \in Commands, LoadPlan(p, cmd) PROVE AuthorityInv'
  <2>1. UNCHANGED <<v1, v2, capability>> /\ \A q \in Proc \ {p} : run'[q] = run[q]
    BY <1>1 DEF LoadPlan, TypeOK, storeVars, worldVars
  <2>2. /\ run'[p].mem \in {run[p].mem, v2} /\ run'[p].save = run[p].save
        /\ run'[p].then = run[p].then /\ run'[p].pc \in {"act", "done"}
    BY <1>1 DEF LoadPlan, TypeOK, Runs
  <2> QED BY <2>1, <2>2 DEF AuthorityInv, AdmittedRun, Admitted
<1>2. ASSUME NEW p \in Proc, Refuse(p) PROVE AuthorityInv'
  BY <1>2, AdmittedDone DEF Refuse, storeVars, worldVars, AuthorityInv, Admitted
<1>3. ASSUME NEW p \in Proc, ApprovePlan(p) PROVE AuthorityInv'
  <2>1. ApprovalPersisted \in Stages \ {BoundaryAttemptPersisted, ConsumptionPersisted}
    BY DEF ApprovalPersisted, BoundaryAttemptPersisted, ConsumptionPersisted, Stages
  <2> QED BY <1>3, <2>1, AdmittedPersist DEF ApprovePlan, storeVars, worldVars
<1>4. ASSUME NEW p \in Proc, CancelPlan(p) \/ RectifyPlan(p) \/ Finalize(p) PROVE AuthorityInv'
  <2>1. Closed \in Stages \ {BoundaryAttemptPersisted, ConsumptionPersisted}
    BY DEF Closed, BoundaryAttemptPersisted, ConsumptionPersisted, Stages
  <2>2. UNCHANGED <<v1, v2, capability>>
    BY <1>4 DEF CancelPlan, RectifyPlan, Finalize, storeVars, worldVars
  <2>3. \/ Save(p, run[p].mem, "done")
        \/ \E status \in {"Cancelled", "Verified", "Failed"} : Persist(p, Closed, status, "done")
    BY <1>4 DEF CancelPlan, RectifyPlan, Finalize
  <2>4. Admitted(run[p].mem)
    BY DEF AuthorityInv, AdmittedRun
  <2> QED BY <2>1, <2>2, <2>3, <2>4, AdmittedPersist, AdmittedSave
<1>5. ASSUME NEW p \in Proc, Consume(p) PROVE AuthorityInv'
  <2>1. capability.auto \/ ApprovalPersisted \in run[p].mem.journal
    BY <1>5 DEF Consume, AuthorityInv, AdmittedRun, Admitted
  <2>2. Admitted(Record(run[p].mem, ConsumptionPersisted, "Consumed"))
    BY <2>1, RunFields, AdmittedRecord DEF AuthorityInv, AdmittedRun, BoundaryAttemptPersisted, ConsumptionPersisted
  <2>3. ConsumptionPersisted \in Record(run[p].mem, ConsumptionPersisted, "Consumed").journal
    BY RunFields, RecordShape
  <2>4. Save(p, Record(run[p].mem, ConsumptionPersisted, "Consumed"), "attempt")
        /\ UNCHANGED <<v1, v2, capability>>
    BY <1>5 DEF Consume, Persist, storeVars, worldVars
  <2> QED BY <2>2, <2>3, <2>4, AdmittedSave
<1>6. ASSUME NEW p \in Proc, PersistAttempt(p) PROVE AuthorityInv'
  <2>1. Admitted(Record(run[p].mem, BoundaryAttemptPersisted, run[p].mem.status))
    BY <1>6, RunFields, AdmittedRecord
       DEF PersistAttempt, AtPc, AuthorityInv, AdmittedRun, BoundaryAttemptPersisted, ConsumptionPersisted
  <2>2. Save(p, Record(run[p].mem, BoundaryAttemptPersisted, run[p].mem.status), "dispatch")
        /\ UNCHANGED <<v1, v2, capability>>
    BY <1>6 DEF PersistAttempt, Persist, storeVars, worldVars
  <2> QED BY <2>1, <2>2, AdmittedSave
<1>7. ASSUME NEW p \in Proc, Boundary(p) \/ CloseRejected(p) PROVE AuthorityInv'
  <2>1. UNCHANGED <<v1, v2, capability>>
    BY <1>7, BoundaryStep DEF CloseRejected, storeVars, worldVars
  <2>2. CASE Boundary(p)
    BY <2>1, <2>2, BoundaryShape DEF AuthorityInv, AdmittedRun, Admitted
  <2>3. CASE CloseRejected(p)
    BY <2>1, <2>3, CloseShape DEF AuthorityInv, AdmittedRun, Admitted
  <2> QED BY <1>7, <2>2, <2>3
<1>8. ASSUME NEW p \in Proc, Respond(p) \/ RespondWithoutEvidence(p) PROVE AuthorityInv'
  <2> DEFINE doc(status) == [Record(run[p].mem, BoundaryResponsePersisted, status) EXCEPT !.receipt = run[p].outcome]
  <2>1. ASSUME NEW status \in Statuses, status \in {run[p].mem.status, "RectificationRequired"}
        PROVE  Admitted(doc(status))
    <3>1. Admitted(Record(run[p].mem, BoundaryResponsePersisted, status))
      BY <2>1, RunFields, AdmittedRecord DEF AuthorityInv, AdmittedRun, BoundaryAttemptPersisted,
         ConsumptionPersisted, BoundaryResponsePersisted
    <3>2. Record(run[p].mem, BoundaryResponsePersisted, status) \in Docs
      BY RunFields, DocTypes
    <3> QED BY <3>1, <3>2 DEF Admitted, Docs
  <2>2. UNCHANGED <<v1, v2, capability>>
    BY <1>8 DEF Respond, RespondWithoutEvidence, storeVars, worldVars
  <2>3. CASE Respond(p)
    <3>1. Save(p, doc(run[p].mem.status), "sink")
      BY <2>3 DEF Respond, PersistResponse
    <3> QED BY <3>1, <2>1, <2>2, RunFields, AdmittedSave
  <2>4. CASE RespondWithoutEvidence(p)
    <3> DEFINE d == doc("RectificationRequired")
    <3>1. run' = [run EXCEPT ![p].save = d, ![p].pc = "save2", ![p].then = "sink", ![p].recovery = TRUE]
      BY <2>4 DEF RespondWithoutEvidence
    <3>2. Admitted(d)
      BY <2>1
    <3> HIDE DEF d
    <3>3. /\ run'[p].mem = run[p].mem /\ run'[p].save = d /\ run'[p].pc = "save2" /\ run'[p].then = "sink"
          /\ \A q \in Proc \ {p} : run'[q] = run[q]
      BY <3>1 DEF TypeOK, Runs
    <3> QED BY <2>2, <3>2, <3>3 DEF AuthorityInv, AdmittedRun, Admitted
  <2> QED BY <1>8, <2>3, <2>4
<1>9. ASSUME NEW p \in Proc, Sink(p) \/ SinkFails(p) PROVE AuthorityInv'
  <2>1. SecretSinkPersisted \in Stages \ {BoundaryAttemptPersisted, ConsumptionPersisted}
    BY DEF SecretSinkPersisted, BoundaryAttemptPersisted, ConsumptionPersisted, Stages
  <2>2. /\ UNCHANGED <<v1, v2, capability>>
        /\ \E status \in {run[p].mem.status, "RectificationRequired"},
              pc \in {"done", "verify", "recover"} : Persist(p, SecretSinkPersisted, status, pc)
    BY <1>9 DEF Sink, SinkFails, storeVars, worldVars
  <2> QED BY <2>1, <2>2, RunFields, AdmittedPersist
<1>10. ASSUME NEW p \in Proc,
              BeginVerification(p) \/ DeferVerification(p) \/ Readback(p) \/ RectifyCheckpoint(p)
       PROVE  AuthorityInv'
  <2>1. {VerificationAttemptPersisted, VerificationResponsePersisted}
          \subseteq Stages \ {BoundaryAttemptPersisted, ConsumptionPersisted}
    BY DEF VerificationAttemptPersisted, VerificationResponsePersisted, BoundaryAttemptPersisted,
       ConsumptionPersisted, Stages
  <2>2. /\ UNCHANGED <<v1, v2, capability>>
        /\ \E stage \in {VerificationAttemptPersisted, VerificationResponsePersisted},
              status \in {run[p].mem.status, "RectificationRequired", "Verified"},
              pc \in {"defer", "readback", "close", "recheck"} : Persist(p, stage, status, pc)
    BY <1>10 DEF BeginVerification, DeferVerification, Readback, RectifyCheckpoint, storeVars, worldVars
  <2> QED BY <2>1, <2>2, RunFields, AdmittedPersist
<1>11. ASSUME NEW p \in Proc, WriteCanonical(p) PROVE AuthorityInv'
  <2>1. /\ UNCHANGED <<v1, capability>> /\ v2' = run[p].save
        /\ \A q \in Proc \ {p} : run'[q] = run[q]
        /\ run'[p].mem = run[p].mem /\ run'[p].save = run[p].save /\ run'[p].then = run[p].then
        /\ run'[p].pc = "save1"
    BY <1>11 DEF WriteCanonical, TypeOK, Runs, worldVars
  <2> QED BY <2>1 DEF AuthorityInv, AdmittedRun, Admitted
<1>12. ASSUME NEW p \in Proc, WriteProjection(p) PROVE AuthorityInv'
  <2>1. UNCHANGED <<v2, capability>> /\ v1' = run[p].save
    BY <1>12 DEF WriteProjection, worldVars
  <2>2. CASE run[p].then = "done"
    BY <1>12, <2>1, <2>2, AdmittedDone DEF WriteProjection, AuthorityInv, AdmittedRun, Admitted
  <2>3. CASE run[p].then # "done"
    <3>1. /\ \A q \in Proc \ {p} : run'[q] = run[q]
          /\ run'[p].mem = run[p].save /\ run'[p].save = NoDoc /\ run'[p].then = "done"
          /\ run'[p].pc = run[p].then
      BY <1>12, <2>3 DEF WriteProjection, TypeOK, Runs
    <3> QED BY <2>1, <3>1, AdmittedNoDoc DEF AuthorityInv, AdmittedRun, Admitted, NoDoc
  <2> QED BY <2>2, <2>3
<1>13. ASSUME NEW p \in Proc, WriteFails(p) PROVE AuthorityInv'
  <2>1. UNCHANGED capability /\ v1' \in {v1, run[p].save} /\ v2' \in {v2, run[p].save} /\ SaveFailed(p)
    BY <1>13 DEF WriteFails, worldVars
  <2>2. CASE ~(run[p].then = "sink" /\ ~Delegated)
    <3>1. CASE Done(p)
      BY <2>1, <3>1, AdmittedDone DEF AuthorityInv, AdmittedRun, Admitted
    <3>2. CASE BeginRecovery(p)
      BY <2>1, <3>2, BeginRecoveryShape, AdmittedNoDoc DEF AuthorityInv, AdmittedRun, Admitted, NoDoc
    <3> QED BY <2>1, <2>2, <3>1, <3>2 DEF SaveFailed
  <2>3. CASE run[p].then = "sink" /\ ~Delegated
    <3>1. /\ \A q \in Proc \ {p} : run'[q] = run[q]
          /\ run'[p].mem = [run[p].mem EXCEPT !.status = "RectificationRequired"]
          /\ run'[p].save = NoDoc /\ run'[p].then = "done" /\ run'[p].pc = "sink"
      BY <2>1, <2>3 DEF SaveFailed, TypeOK, Runs
    <3>2. run'[p].mem.journal = run[p].mem.journal /\ run'[p].mem.status = "RectificationRequired"
      BY <3>1, RunFields DEF Docs
    <3> QED BY <2>1, <3>1, <3>2, AdmittedNoDoc DEF AuthorityInv, AdmittedRun, Admitted, NoDoc
  <2> QED BY <2>2, <2>3
<1>14. ASSUME NEW p \in Proc, ReleaseLock(p) \/ CrashProcess(p) PROVE AuthorityInv'
  <2>1. UNCHANGED <<v1, v2, capability>> /\ run' = [run EXCEPT ![p] = NoRun]
    BY <1>14 DEF ReleaseLock, CrashProcess, storeVars, worldVars
  <2>2. run'[p] = NoRun /\ \A q \in Proc \ {p} : run'[q] = run[q]
    BY <2>1 DEF TypeOK
  <2> QED BY <2>1, <2>2, AdmittedNoDoc DEF AuthorityInv, AdmittedRun, Admitted, NoDoc, NoRun
<1>15. CASE UNCHANGED <<v1, v2, run, capability>>
  BY <1>15 DEF AuthorityInv, AdmittedRun, Admitted
<1>16. ASSUME NEW p \in Proc, AcquireLock(p) \/ FinishDrop(p) PROVE AuthorityInv'
  BY <1>15, <1>16 DEF AcquireLock, FinishDrop, planVars
<1>17. CASE TimePasses \/ UNCHANGED vars
  BY <1>15, <1>17 DEF TimePasses, vars, planVars, storeVars
<1>r. ASSUME NEW p \in Proc, Recover(p) PROVE AuthorityInv'
  <2>1. UNCHANGED <<v1, v2, capability>>
    BY <1>r DEF Recover, storeVars, worldVars
  <2>2. PICK stage \in {BoundaryResponsePersisted, VerificationResponsePersisted, Closed} :
          /\ run'[p].save.status = "RectificationRequired"
          /\ run'[p].save.journal = run[p].mem.journal \cup {stage}
          /\ run'[p].mem = run[p].mem /\ run'[p].pc = "save2" /\ run'[p].then = "done"
          /\ \A q \in Proc \ {p} : run'[q] = run[q]
    BY <1>r, RecoverShape
  <2> QED BY <2>1, <2>2 DEF AuthorityInv, AdmittedRun, Admitted, ApprovalPersisted,
     ConsumptionPersisted, BoundaryAttemptPersisted, BoundaryResponsePersisted,
     VerificationResponsePersisted, Closed
<1>e. ASSUME NEW p \in Proc, ReceiptWithoutEvidence(p) PROVE AuthorityInv'
  <2>1. UNCHANGED <<v1, v2, capability>> /\ BeginRecovery(p)
    BY <1>e DEF ReceiptWithoutEvidence, storeVars, worldVars
  <2> QED BY <2>1, BeginRecoveryShape, AdmittedNoDoc DEF AuthorityInv, AdmittedRun, Admitted, NoDoc
<1>18. ASSUME NEW p \in Proc, CommandStep(p) PROVE AuthorityInv'
  BY <1>18, <1>2, <1>3, <1>4, <1>5, <1>6, <1>7, <1>8, <1>9, <1>10, <1>11, <1>12, <1>r DEF CommandStep
<1>19. ASSUME NEW p \in Proc, FaultStep(p) PROVE AuthorityInv'
  BY <1>19, <1>8, <1>9, <1>13, <1>14, <1>e DEF FaultStep
<1> QED BY <1>1, <1>14, <1>16, <1>17, <1>18, <1>19 DEF Next

\* No stored document shows a boundary attempt without its consumption, or a
\* consumption without approval or auto-execute admission; this holds even in
\* behaviours where the plan lock has failed.
THEOREM AuthorityPrecedesBoundaryHolds == Spec => []AuthorityPrecedesBoundary
<1>1. Init => AuthorityInv
  <2>1. Admitted(NoDoc) /\ Admitted(DraftDoc)
    BY AdmittedNoDoc DEF Admitted, DraftDoc, NoDoc, PlanPrepared, BoundaryAttemptPersisted, ConsumptionPersisted
  <2> QED BY <2>1 DEF Init, AuthorityInv, AdmittedRun, NoRun
<1>2. AuthorityInv => AuthorityPrecedesBoundary
  BY DEF AuthorityInv, AuthorityPrecedesBoundary, Admitted
<1> QED BY <1>1, <1>2, AuthorityStep, TypeCorrect, PTL DEF Spec

-----------------------------------------------------------------------------
\* One-use execution.

\* Only a process that holds the plan lock executes a command.
HoldsLock == \A p \in Proc : run[p].pc # "none" => at[p] = "held"

\* A document no command can act on again.
Spent(doc) ==
  /\ BoundaryAttemptPersisted \in doc.journal
  /\ doc.status \notin {"Absent", "Draft", "Approved", "Cancelled"}

AfterBoundary == {"respond", "sink", "verify", "defer", "readback", "close", "recover"}

\* The copy a command decides on is the stored one, and it decides to cross
\* only while nothing has crossed; after the boundary every copy is spent.
SpentMem(r) ==
  /\ r.pc \in {"none", "act", "attempt", "dispatch", "recheck"} => r.outcome = "none"
  /\ r.pc \in {"act", "attempt", "dispatch", "recheck"} => r.mem = v2
  /\ r.pc \in {"attempt", "dispatch"} => crossings = 0 /\ r.mem.status = "Consumed"
  /\ r.pc = "dispatch" => BoundaryAttemptPersisted \in r.mem.journal
  /\ r.pc \in AfterBoundary => Spent(r.mem)

\* What a save under way will leave in the store and in the copy.
SpentSave(r) ==
  r.pc \in {"save2", "save1"} =>
    /\ r.then \notin {"none", "act", "save2", "save1"}
    /\ r.then \in {"attempt", "dispatch"} => crossings = 0 /\ r.save.status = "Consumed"
    /\ r.then = "dispatch" => BoundaryAttemptPersisted \in r.save.journal
    /\ r.then \in AfterBoundary => Spent(r.save)
    /\ r.then \in {"attempt", "dispatch", "recheck"} => r.outcome = "none"
    /\ r.then = "sink" \/ r.outcome # "none" => Spent(r.mem)
    /\ crossings > 0 => Spent(r.save)
    /\ r.pc = "save1" => v2 = r.save

\* The strengthening of AtMostOneCrossing and CrossingIsJournaled.
CrossingInv ==
  ~lockStolen => /\ crossings <= 1
                 /\ crossings > 0 => Spent(v2)
                 /\ \A p \in Proc : SpentMem(run[p]) /\ SpentSave(run[p])

\* A command step of p touches only p's record and needs the lock.
LEMMA OtherRuns ==
  ASSUME TypeOK, NEW p \in Proc,
         \/ \E cmd \in Commands : LoadPlan(p, cmd)
         \/ CommandStep(p) \/ FaultStep(p) \/ ReleaseLock(p)
  PROVE  \A q \in Proc \ {p} : run'[q] = run[q]
<1> USE DEF TypeOK
<1>1. ASSUME NEW cmd \in Commands, LoadPlan(p, cmd) PROVE \A q \in Proc \ {p} : run'[q] = run[q]
  BY <1>1 DEF LoadPlan
<1>2. ASSUME CommandStep(p) PROVE \A q \in Proc \ {p} : run'[q] = run[q]
  BY <1>2 DEF CommandStep, Refuse, ApprovePlan, CancelPlan, Consume, RectifyCheckpoint, RectifyPlan,
     PersistAttempt, Boundary, Dispatch, RunProgram, PrepareHandoff, Called,
     Respond, PersistResponse, Sink, Recover, CloseRejected,
     BeginVerification, DeferVerification, Readback, Finalize, WriteCanonical, WriteProjection,
     Persist, Save, Done
<1>3. ASSUME FaultStep(p) PROVE \A q \in Proc \ {p} : run'[q] = run[q]
  BY <1>3 DEF FaultStep, RespondWithoutEvidence, ReceiptWithoutEvidence, BeginRecovery, SinkFails,
     WriteFails, SaveFailed, CrashProcess, Persist, Save, Done
<1>4. ASSUME ReleaseLock(p) PROVE \A q \in Proc \ {p} : run'[q] = run[q]
  BY <1>4 DEF ReleaseLock
<1> QED BY <1>1, <1>2, <1>3, <1>4

LEMMA CommandHolds ==
  ASSUME TypeOK, NEW p \in Proc,
         \/ \E cmd \in Commands : LoadPlan(p, cmd)
         \/ CommandStep(p) \/ RespondWithoutEvidence(p) \/ ReceiptWithoutEvidence(p)
         \/ SinkFails(p) \/ WriteFails(p)
  PROVE  at[p] = "held" /\ at' = at
<1>1. ASSUME NEW cmd \in Commands, LoadPlan(p, cmd) PROVE at[p] = "held" /\ at' = at
  BY <1>1 DEF LoadPlan, AtPc, lockVars
<1>2. ASSUME CommandStep(p) PROVE at[p] = "held" /\ at' = at
  BY <1>2 DEF CommandStep, Refuse, ApprovePlan, CancelPlan, Consume, RectifyCheckpoint, RectifyPlan,
     PersistAttempt, Boundary, Dispatch, RunProgram, PrepareHandoff, Called,
     Respond, Sink, Recover, CloseRejected, BeginVerification,
     DeferVerification, Readback, Finalize, WriteCanonical, WriteProjection, AtPc, lockVars
<1>3. ASSUME RespondWithoutEvidence(p) \/ ReceiptWithoutEvidence(p) \/ SinkFails(p) \/ WriteFails(p)
      PROVE  at[p] = "held" /\ at' = at
  BY <1>3 DEF RespondWithoutEvidence, ReceiptWithoutEvidence, SinkFails, WriteFails, AtPc
<1> QED BY <1>1, <1>2, <1>3

LEMMA HoldsLockStep == TypeOK /\ HoldsLock /\ [Next]_vars => HoldsLock'
<1> SUFFICES ASSUME TypeOK, HoldsLock, [Next]_vars PROVE HoldsLock'
  OBVIOUS
<1>1. ASSUME NEW p \in Proc,
             \/ \E cmd \in Commands : LoadPlan(p, cmd)
             \/ CommandStep(p) \/ RespondWithoutEvidence(p) \/ ReceiptWithoutEvidence(p)
             \/ SinkFails(p) \/ WriteFails(p)
      PROVE  HoldsLock'
  BY <1>1, OtherRuns, CommandHolds DEF HoldsLock, FaultStep
<1>2. ASSUME NEW p \in Proc, AcquireLock(p) \/ FinishDrop(p) PROVE HoldsLock'
  <2>1. /\ run' = run /\ at[p] # "held"
        /\ \A q \in Proc \ {p} : at'[q] = at[q]
    BY <1>2 DEF AcquireLock, FinishDrop, Begin, AcquireStep, TryLock, WriteRecord, WriteRecordFails,
       CheckExpired, RemoveExpired, Recreate, CreatePlanLock, DropRemove, Goto, planVars, TypeOK, LockTypeOK
  <2> QED BY <2>1 DEF HoldsLock
<1>3. ASSUME NEW p \in Proc, ReleaseLock(p) \/ CrashProcess(p) PROVE HoldsLock'
  <2>1. /\ run'[p] = NoRun /\ \A q \in Proc \ {p} : run'[q] = run[q]
        /\ \A q \in Proc \ {p} : at'[q] = at[q]
    BY <1>3 DEF ReleaseLock, CrashProcess, Release, Crash, Goto, TypeOK, LockTypeOK
  <2> QED BY <2>1 DEF HoldsLock, NoRun
<1>4. CASE TimePasses \/ UNCHANGED vars
  BY <1>4 DEF TimePasses, Tick, vars, lockVars, planVars, HoldsLock
<1> QED BY <1>1, <1>2, <1>3, <1>4 DEF Next, FaultStep

LEMMA StolenIsForGood ==
  ASSUME [Next]_vars, ~lockStolen'
  PROVE  ~lockStolen
<1>1. CASE [LockNext]_lockVars
  BY <1>1 DEF LockNext, Begin, AcquireStep, TryLock, WriteRecord, WriteRecordFails, CheckExpired,
     RemoveExpired, Recreate, CreatePlanLock, Release, DropRemove, RemoveFile, Crash, Tick, lockVars
<1> QED BY <1>1, LockOrFault

LEMMA OneCommand ==
  ASSUME TypeOK, HoldsLock, OwnerKeepsFile, ~lockStolen,
         NEW p \in Proc, NEW q \in Proc, at[p] = "held", run[q].pc # "none"
  PROVE  q = p
BY DEF HoldsLock, OwnerKeepsFile, Owning

\* What has to be shown of a step of p that leaves the store and the
\* crossings alone, and of one that may change them under the lock.
LEMMA CrossingFrame ==
  ASSUME TypeOK, CrossingInv, ~lockStolen, NEW p \in Proc, UNCHANGED <<v2, crossings>>,
         \A q \in Proc \ {p} : run'[q] = run[q],
         SpentMem(run[p])', SpentSave(run[p])'
  PROVE  CrossingInv'
BY DEF CrossingInv, SpentMem, SpentSave, Spent

LEMMA CrossingHeld ==
  ASSUME TypeOK, HoldsLock, OwnerKeepsFile, CrossingInv, ~lockStolen,
         NEW p \in Proc, at[p] = "held",
         \A q \in Proc \ {p} : run'[q] = run[q],
         (crossings <= 1)', (crossings > 0 => Spent(v2))',
         SpentMem(run[p])', SpentSave(run[p])'
  PROVE  CrossingInv'
<1>1. \A q \in Proc \ {p} : run'[q].pc = "none"
  BY OneCommand
<1> QED BY <1>1 DEF CrossingInv, SpentMem, SpentSave, AfterBoundary

LEMMA CrossingSave ==
  ASSUME TypeOK, CrossingInv, ~lockStolen, NEW p \in Proc, NEW doc, NEW pc, Save(p, doc, pc),
         UNCHANGED <<v2, crossings>>,
         pc \notin {"none", "act", "save2", "save1"},
         pc \in {"attempt", "dispatch"} => crossings = 0 /\ doc.status = "Consumed",
         pc = "dispatch" => BoundaryAttemptPersisted \in doc.journal,
         pc \in AfterBoundary => Spent(doc),
         pc \in {"attempt", "dispatch", "recheck"} => run[p].outcome = "none",
         pc = "sink" \/ run[p].outcome # "none" => Spent(run[p].mem),
         crossings > 0 => Spent(doc)
  PROVE  CrossingInv'
<1>1. SpentMem(run[p])'
  BY SaveShape DEF SpentMem, AfterBoundary
<1>2. SpentSave(run[p])'
  BY SaveShape DEF SpentSave, Spent
<1> QED BY <1>1, <1>2, SaveShape, CrossingFrame

LEMMA CrossingDone ==
  ASSUME TypeOK, HoldsLock, OwnerKeepsFile, CrossingInv, ~lockStolen, NEW p \in Proc,
         at[p] = "held", Done(p), UNCHANGED crossings, (crossings > 0 => Spent(v2))'
  PROVE  CrossingInv'
<1>1. SpentMem(run[p])' /\ SpentSave(run[p])'
  BY DoneShape DEF SpentMem, SpentSave, AfterBoundary
<1>2. (crossings <= 1)'
  BY DEF CrossingInv
<1> QED BY <1>1, <1>2, DoneShape, CrossingHeld

LEMMA SpentRecord ==
  ASSUME NEW doc \in Docs, NEW stage \in Stages,
         NEW status \in Statuses \ {"Absent", "Draft", "Approved", "Cancelled"},
         BoundaryAttemptPersisted \in doc.journal \cup {stage}
  PROVE  Spent(Record(doc, stage, status))
BY RecordShape DEF Spent

\* A checkpoint recorded after the boundary.
LEMMA CrossingPersist ==
  ASSUME TypeOK, CrossingInv, ~lockStolen, NEW p \in Proc, NEW stage \in Stages,
         NEW status \in Statuses \ {"Absent", "Draft", "Approved", "Cancelled"},
         NEW pc \in AfterBoundary \cup {"done"}, Spent(run[p].mem),
         Persist(p, stage, status, pc), UNCHANGED <<v2, crossings>>
  PROVE  CrossingInv'
<1>1. Spent(Record(run[p].mem, stage, status))
  BY RunFields, SpentRecord DEF Spent
<1>2. Save(p, Record(run[p].mem, stage, status), pc)
  BY DEF Persist
<1> QED BY <1>1, <1>2, CrossingSave DEF AfterBoundary

LEMMA CrossingStep ==
  TypeOK /\ HoldsLock /\ OwnerKeepsFile /\ CrossingInv /\ [Next]_vars => CrossingInv'
<1> SUFFICES ASSUME TypeOK, HoldsLock, OwnerKeepsFile, CrossingInv, [Next]_vars, ~lockStolen'
             PROVE  CrossingInv'
  BY DEF CrossingInv
<1>0. ~lockStolen
  BY StolenIsForGood
<1>a. \A p \in Proc : SpentMem(run[p]) /\ SpentSave(run[p])
  BY <1>0 DEF CrossingInv
<1>b. crossings <= 1 /\ (crossings > 0 => Spent(v2)) /\ crossings \in Nat
  BY <1>0, CrossingsAssumption DEF CrossingInv, TypeOK
<1> USE <1>0, ConstantTypes
<1>1. ASSUME NEW p \in Proc, NEW cmd \in Commands, LoadPlan(p, cmd) PROVE CrossingInv'
  <2>1. UNCHANGED <<v2, crossings>> /\ \A q \in Proc \ {p} : run'[q] = run[q]
    BY <1>1, OtherRuns DEF LoadPlan, storeVars, worldVars
  <2>2. run'[p].pc = "done" \/ (run'[p].pc = "act" /\ run'[p].mem = v2 /\ run'[p].outcome = "none")
    BY <1>1, <1>a DEF LoadPlan, AtPc, SpentMem, TypeOK, Runs
  <2>3. SpentMem(run[p])' /\ SpentSave(run[p])'
    BY <2>1, <2>2 DEF SpentMem, SpentSave, AfterBoundary
  <2> QED BY <2>1, <2>3, CrossingFrame
<1>2. ASSUME NEW p \in Proc, Refuse(p) PROVE CrossingInv'
  <2>1. at[p] = "held" /\ Done(p) /\ UNCHANGED <<v2, crossings>>
    BY <1>2 DEF Refuse, AtPc, storeVars, worldVars
  <2> QED BY <2>1, <1>b, CrossingDone DEF Spent
<1>3. ASSUME NEW p \in Proc, ApprovePlan(p) \/ CancelPlan(p) \/ Consume(p) PROVE CrossingInv'
  <2>1. UNCHANGED <<v2, crossings>> /\ run[p].mem = v2 /\ run[p].outcome = "none"
    BY <1>3, <1>a DEF ApprovePlan, CancelPlan, Consume, AtPc, storeVars, worldVars, SpentMem
  <2>2. run[p].mem.status \in {"Draft", "Approved", "Cancelled"}
    BY <1>3 DEF ApprovePlan, CancelPlan, Consume, Cancellable
  <2>3. crossings = 0
    BY <2>1, <2>2, <1>b DEF Spent
  <2>4. CASE Consume(p)
    <3>1. Save(p, Record(run[p].mem, ConsumptionPersisted, "Consumed"), "attempt")
      BY <2>4 DEF Consume, Persist
    <3>2. Record(run[p].mem, ConsumptionPersisted, "Consumed").status = "Consumed"
      BY RunFields, RecordShape
    <3> QED BY <2>1, <2>3, <3>1, <3>2, CrossingSave DEF AfterBoundary
  <2>5. CASE ApprovePlan(p) \/ CancelPlan(p)
    <3>1. \E doc : Save(p, doc, "done")
      BY <2>5 DEF ApprovePlan, CancelPlan, Persist
    <3> QED BY <2>1, <2>3, <3>1, CrossingSave DEF AfterBoundary
  <2> QED BY <1>3, <2>4, <2>5
<1>4. ASSUME NEW p \in Proc, RectifyPlan(p) PROVE CrossingInv'
  <2>1. UNCHANGED <<v2, crossings>> /\ run[p].mem = v2 /\ run[p].outcome = "none"
    BY <1>4, <1>a DEF RectifyPlan, AtPc, SpentMem, storeVars, worldVars
  <2> DEFINE closed == Record(run[p].mem, Closed, "Verified")
  <2>2. PICK doc \in {closed, run[p].mem} : Save(p, doc, "done")
    BY <1>4 DEF RectifyPlan, Persist
  <2>3. crossings > 0 => Spent(closed) /\ Spent(run[p].mem)
    <3>1. HAVE crossings > 0
    <3>2. Spent(run[p].mem)
      BY <2>1, <3>1, <1>b
    <3>3. BoundaryAttemptPersisted \in run[p].mem.journal \cup {Closed}
      BY <3>2 DEF Spent
    <3>4. "Verified" \in Statuses \ {"Absent", "Draft", "Approved", "Cancelled"} /\ Closed \in Stages
      BY ConstantTypes
    <3>5. Spent(closed)
      BY <3>3, <3>4, RunFields, SpentRecord
    <3> QED BY <3>2, <3>5
  <2> HIDE DEF closed
  <2> QED BY <2>1, <2>2, <2>3, CrossingSave DEF AfterBoundary
<1>5. ASSUME NEW p \in Proc, PersistAttempt(p) PROVE CrossingInv'
  <2>1. /\ UNCHANGED <<v2, crossings>> /\ crossings = 0 /\ run[p].mem.status = "Consumed"
        /\ run[p].outcome = "none"
    BY <1>5, <1>a DEF PersistAttempt, AtPc, SpentMem, storeVars, worldVars
  <2> DEFINE doc == Record(run[p].mem, BoundaryAttemptPersisted, run[p].mem.status)
  <2>2. Save(p, doc, "dispatch")
    BY <1>5 DEF PersistAttempt, Persist
  <2>3. doc.status = "Consumed" /\ BoundaryAttemptPersisted \in doc.journal
    BY <2>1, RunFields, RecordShape
  <2> QED BY <2>1, <2>2, <2>3, CrossingSave DEF AfterBoundary
<1>6. ASSUME NEW p \in Proc, Boundary(p) PROVE CrossingInv'
  <2>1. /\ at[p] = "held" /\ crossings = 0 /\ run[p].mem = v2 /\ v2' = v2
        /\ run[p].mem.status = "Consumed" /\ BoundaryAttemptPersisted \in run[p].mem.journal
    BY <1>6, <1>a, BoundaryStep DEF AtPc, SpentMem, storeVars
  <2>2. (crossings <= 1)'
    <3>1. crossings' \in 0 .. MaxCrossings /\ (crossings' = crossings \/ crossings' = crossings + 1)
      BY <1>6, BoundaryWorld
    <3> QED BY <2>1, <3>1
  <2>3. Spent(v2)'
    BY <2>1 DEF Spent
  <2>4. SpentMem(run[p])' /\ SpentSave(run[p])'
    BY <1>6, <2>1, BoundaryShape DEF SpentMem, SpentSave, Spent, AfterBoundary
  <2> QED BY <1>6, <2>1, <2>2, <2>3, <2>4, BoundaryShape, CrossingHeld
<1>7. ASSUME NEW p \in Proc, Respond(p) \/ RespondWithoutEvidence(p) PROVE CrossingInv'
  <2>1. UNCHANGED <<v2, crossings>> /\ Spent(run[p].mem)
    BY <1>7, <1>a DEF Respond, RespondWithoutEvidence, AtPc, SpentMem, AfterBoundary, storeVars, worldVars
  <2> DEFINE doc(status) == [Record(run[p].mem, BoundaryResponsePersisted, status) EXCEPT !.receipt = run[p].outcome]
  <2>2. ASSUME NEW status \in {run[p].mem.status, "RectificationRequired"} PROVE Spent(doc(status))
    <3>1. status \in Statuses \ {"Absent", "Draft", "Approved", "Cancelled"}
      BY <2>1, RunFields DEF Spent
    <3>2. Spent(Record(run[p].mem, BoundaryResponsePersisted, status))
      BY <2>1, <3>1, RunFields, SpentRecord DEF Spent
    <3>3. Record(run[p].mem, BoundaryResponsePersisted, status) \in Docs
      BY <3>1, RunFields, DocTypes
    <3> QED BY <3>2, <3>3 DEF Spent, Docs
  <2>3. CASE Respond(p)
    <3>1. Save(p, doc(run[p].mem.status), "sink")
      BY <2>3 DEF Respond, PersistResponse
    <3>2. Spent(doc(run[p].mem.status))
      BY <2>2
    <3> HIDE DEF doc
    <3> QED BY <2>1, <3>1, <3>2, CrossingSave
  <2>4. CASE RespondWithoutEvidence(p)
    <3> DEFINE d == doc("RectificationRequired")
    <3>1. run' = [run EXCEPT ![p].save = d, ![p].pc = "save2", ![p].then = "sink", ![p].recovery = TRUE]
      BY <2>4 DEF RespondWithoutEvidence
    <3>2. Spent(d)
      BY <2>2
    <3> HIDE DEF d
    <3>3. /\ run'[p].mem = run[p].mem /\ run'[p].save = d /\ run'[p].pc = "save2" /\ run'[p].then = "sink"
          /\ \A q \in Proc \ {p} : run'[q] = run[q]
      BY <3>1 DEF TypeOK, Runs
    <3>4. SpentMem(run[p])' /\ SpentSave(run[p])'
      BY <2>1, <3>2, <3>3 DEF SpentMem, SpentSave, Spent, AfterBoundary
    <3> QED BY <2>1, <3>3, <3>4, CrossingFrame
  <2> QED BY <1>7, <2>3, <2>4
<1>8. ASSUME NEW p \in Proc,
             \/ Sink(p) \/ SinkFails(p) \/ BeginVerification(p) \/ DeferVerification(p)
             \/ Readback(p) \/ Finalize(p)
      PROVE  CrossingInv'
  <2>1. UNCHANGED <<v2, crossings>> /\ Spent(run[p].mem)
    BY <1>8, <1>a DEF Sink, SinkFails, BeginVerification, DeferVerification, Readback, Finalize,
       AtPc, SpentMem, AfterBoundary, storeVars, worldVars
  <2>2. run[p].mem.status \in Statuses \ {"Absent", "Draft", "Approved", "Cancelled"}
    BY <2>1, RunFields DEF Spent
  <2>3. \/ Save(p, run[p].mem, "done")
        \/ \E stage \in Stages, status \in {run[p].mem.status, "RectificationRequired", "Verified", "Failed"},
              pc \in AfterBoundary \cup {"done"} : Persist(p, stage, status, pc)
    BY <1>8 DEF Sink, SinkFails, BeginVerification, DeferVerification, Readback, Finalize, AfterBoundary
  <2>4. CASE Save(p, run[p].mem, "done")
    BY <2>1, <2>4, CrossingSave DEF AfterBoundary
  <2> QED BY <2>1, <2>2, <2>3, <2>4, CrossingPersist
<1>9. ASSUME NEW p \in Proc, CloseRejected(p) PROVE CrossingInv'
  <2>1. UNCHANGED <<v2, crossings>> /\ Spent(run[p].mem)
    BY <1>9, <1>a DEF CloseRejected, AtPc, SpentMem, AfterBoundary, storeVars, worldVars
  <2>2. SpentMem(run[p])' /\ SpentSave(run[p])'
    BY <1>9, <2>1, CloseShape DEF SpentMem, SpentSave, Spent, AfterBoundary
  <2> QED BY <1>9, <2>1, <2>2, CloseShape, CrossingFrame
<1>10. ASSUME NEW p \in Proc, WriteCanonical(p) PROVE CrossingInv'
  <2>1. /\ at[p] = "held" /\ run[p].pc = "save2" /\ v2' = run[p].save /\ crossings' = crossings
        /\ \A q \in Proc \ {p} : run'[q] = run[q]
        /\ run'[p].mem = run[p].mem /\ run'[p].save = run[p].save /\ run'[p].then = run[p].then
        /\ run'[p].pc = "save1" /\ run'[p].outcome = run[p].outcome
    BY <1>10 DEF WriteCanonical, AtPc, TypeOK, Runs, worldVars
  <2>2. (crossings > 0 => Spent(v2))'
    BY <2>1, <1>a DEF SpentSave, Spent
  <2>3. SpentMem(run[p])' /\ SpentSave(run[p])'
    BY <2>1, <1>a DEF SpentMem, SpentSave, Spent, AfterBoundary
  <2> QED BY <2>1, <2>2, <2>3, <1>b, CrossingHeld
<1>11. ASSUME NEW p \in Proc, WriteProjection(p) PROVE CrossingInv'
  <2>1. at[p] = "held" /\ run[p].pc = "save1" /\ UNCHANGED <<v2, crossings>>
    BY <1>11 DEF WriteProjection, AtPc, worldVars
  <2>2. CASE run[p].then = "done"
    <3>1. Done(p) /\ (crossings > 0 => Spent(v2))'
      BY <1>11, <2>1, <2>2, <1>b DEF WriteProjection, Spent
    <3> QED BY <2>1, <3>1, CrossingDone
  <2>3. CASE run[p].then # "done"
    <3>1. /\ \A q \in Proc \ {p} : run'[q] = run[q]
          /\ run'[p].mem = run[p].save /\ run'[p].save = NoDoc /\ run'[p].then = "done"
          /\ run'[p].pc = run[p].then /\ run'[p].outcome = run[p].outcome
      BY <1>11, <2>3 DEF WriteProjection, TypeOK, Runs
    <3>2. SpentMem(run[p])' /\ SpentSave(run[p])'
      BY <2>1, <3>1, <1>a DEF SpentMem, SpentSave, Spent, AfterBoundary
    <3> QED BY <2>1, <3>1, <3>2, CrossingFrame
  <2> QED BY <2>2, <2>3
<1>12. ASSUME NEW p \in Proc, WriteFails(p) PROVE CrossingInv'
  <2>1. /\ at[p] = "held" /\ run[p].pc \in {"save2", "save1"} /\ crossings' = crossings
        /\ v2' \in {v2, run[p].save} /\ SaveFailed(p)
    BY <1>12 DEF WriteFails, AtPc, worldVars
  <2>2. (crossings > 0 => Spent(v2))'
    BY <2>1, <1>a, <1>b DEF SpentSave, Spent
  <2>3. CASE ~(run[p].then = "sink" /\ ~Delegated)
    <3>1. CASE Done(p)
      BY <2>1, <2>2, <3>1, CrossingDone
    <3>2. CASE BeginRecovery(p) /\ HasReceipt(p)
      <4>1. Spent(run[p].mem)
        BY <2>1, <3>2, <1>a DEF HasReceipt, SpentSave
      <4>2. SpentMem(run[p])' /\ SpentSave(run[p])'
        BY <3>2, <4>1, BeginRecoveryShape DEF SpentMem, SpentSave, Spent, AfterBoundary
      <4> QED BY <2>1, <2>2, <3>2, <4>2, <1>b, BeginRecoveryShape, CrossingHeld
    <3> QED BY <2>1, <2>3, <3>1, <3>2 DEF SaveFailed
  <2>4. CASE run[p].then = "sink" /\ ~Delegated
    <3>1. /\ \A q \in Proc \ {p} : run'[q] = run[q]
          /\ run'[p].mem = [run[p].mem EXCEPT !.status = "RectificationRequired"]
          /\ run'[p].save = NoDoc /\ run'[p].then = "done" /\ run'[p].pc = "sink"
      BY <2>1, <2>4 DEF SaveFailed, TypeOK, Runs
    <3>2. run'[p].mem.journal = run[p].mem.journal /\ run'[p].mem.status = "RectificationRequired"
      BY <3>1, RunFields DEF Docs
    <3>3. SpentMem(run[p])' /\ SpentSave(run[p])'
      BY <2>1, <2>4, <3>1, <3>2, <1>a DEF SpentMem, SpentSave, Spent, AfterBoundary
    <3> QED BY <2>1, <2>2, <3>1, <3>3, <1>b, CrossingHeld
  <2> QED BY <2>3, <2>4
<1>13. ASSUME NEW p \in Proc, ReleaseLock(p) \/ CrashProcess(p) PROVE CrossingInv'
  <2>1. UNCHANGED <<v2, crossings>> /\ run'[p] = NoRun /\ \A q \in Proc \ {p} : run'[q] = run[q]
    BY <1>13 DEF ReleaseLock, CrashProcess, TypeOK, storeVars, worldVars
  <2>2. SpentMem(run[p])' /\ SpentSave(run[p])'
    BY <2>1 DEF SpentMem, SpentSave, NoRun, AfterBoundary
  <2> QED BY <2>1, <2>2, CrossingFrame
<1>14. CASE UNCHANGED <<v2, run, crossings>>
  BY <1>14, <1>a, <1>b DEF CrossingInv, SpentMem, SpentSave, Spent
<1>15. ASSUME NEW p \in Proc, AcquireLock(p) \/ FinishDrop(p) PROVE CrossingInv'
  BY <1>14, <1>15 DEF AcquireLock, FinishDrop, planVars
<1>16. CASE TimePasses \/ UNCHANGED vars
  BY <1>14, <1>16 DEF TimePasses, vars, planVars, storeVars
<1>c. ASSUME NEW p \in Proc, RectifyCheckpoint(p) PROVE CrossingInv'
  <2>1. UNCHANGED <<v2, crossings>> /\ run[p].mem = v2 /\ run[p].outcome = "none"
    BY <1>c, <1>a DEF RectifyCheckpoint, AtPc, SpentMem, storeVars, worldVars
  <2>2. PICK stage \in {VerificationAttemptPersisted, VerificationResponsePersisted} :
          Save(p, Record(run[p].mem, stage, "RectificationRequired"), "recheck")
    BY <1>c DEF RectifyCheckpoint, Persist
  <2>3. crossings > 0 => Spent(Record(run[p].mem, stage, "RectificationRequired"))
    <3>1. HAVE crossings > 0
    <3>2. BoundaryAttemptPersisted \in run[p].mem.journal \cup {stage}
      BY <2>1, <3>1, <1>b DEF Spent
    <3>3. "RectificationRequired" \in Statuses \ {"Absent", "Draft", "Approved", "Cancelled"}
          /\ stage \in Stages
      BY ConstantTypes
    <3> QED BY <3>2, <3>3, RunFields, SpentRecord
  <2> QED BY <2>1, <2>2, <2>3, CrossingSave DEF AfterBoundary
<1>r. ASSUME NEW p \in Proc, Recover(p) PROVE CrossingInv'
  <2>1. UNCHANGED <<v2, crossings>> /\ Spent(run[p].mem)
    BY <1>r, <1>a DEF Recover, AtPc, SpentMem, AfterBoundary, storeVars, worldVars
  <2>2. SpentMem(run[p])' /\ SpentSave(run[p])'
    BY <1>r, <2>1, RecoverShape DEF SpentMem, SpentSave, Spent, AfterBoundary
  <2> QED BY <1>r, <2>1, <2>2, RecoverShape, CrossingFrame
<1>e. ASSUME NEW p \in Proc, ReceiptWithoutEvidence(p) PROVE CrossingInv'
  <2>1. UNCHANGED <<v2, crossings>> /\ Spent(run[p].mem) /\ BeginRecovery(p)
    BY <1>e, <1>a DEF ReceiptWithoutEvidence, AtPc, SpentMem, AfterBoundary, storeVars, worldVars
  <2>2. SpentMem(run[p])' /\ SpentSave(run[p])'
    BY <2>1, BeginRecoveryShape DEF SpentMem, SpentSave, Spent, AfterBoundary
  <2> QED BY <2>1, <2>2, BeginRecoveryShape, CrossingFrame
<1>17. ASSUME NEW p \in Proc, CommandStep(p) PROVE CrossingInv'
  BY <1>17, <1>2, <1>3, <1>4, <1>5, <1>6, <1>7, <1>8, <1>9, <1>10, <1>11, <1>c, <1>r DEF CommandStep
<1>18. ASSUME NEW p \in Proc, FaultStep(p) PROVE CrossingInv'
  BY <1>18, <1>7, <1>8, <1>12, <1>13, <1>e DEF FaultStep
<1> QED BY <1>1, <1>13, <1>15, <1>16, <1>17, <1>18 DEF Next

LEMMA CrossingInvHolds == Spec => [](HoldsLock /\ OwnerKeepsFile /\ CrossingInv)
<1>1. Init => HoldsLock /\ OwnerKeepsFile /\ CrossingInv
  BY DEF Init, LockInit, HoldsLock, OwnerKeepsFile, Owning, CrossingInv, SpentMem, SpentSave, NoRun,
     AfterBoundary
<1>2. TypeOK /\ OwnerKeepsFile /\ [Next]_vars => OwnerKeepsFile'
  BY LockPart DEF TypeOK
<1> QED BY <1>1, <1>2, HoldsLockStep, CrossingStep, TypeCorrect, PTL DEF Spec

\* One-use execution: unless a live owner's lock file has been removed, the
\* mutation of a plan is sent at most once, whatever crashes, failed writes
\* and repeated commands occur.
THEOREM AtMostOneCrossingHolds == Spec => []AtMostOneCrossing
<1>1. CrossingInv => AtMostOneCrossing
  BY DEF CrossingInv, AtMostOneCrossing
<1> QED BY <1>1, CrossingInvHolds, PTL

\* Write-ahead: under the same condition a request that was sent is announced
\* by a durable boundary attempt, in a document no command acts on again.
THEOREM CrossingIsJournaledHolds == Spec => []CrossingIsJournaled
<1>1. CrossingInv => CrossingIsJournaled
  BY DEF CrossingInv, CrossingIsJournaled, Spent
<1> QED BY <1>1, CrossingInvHolds, PTL

-----------------------------------------------------------------------------
\* A verdict is backed by the world.

Backed(doc) ==
  /\ doc.status = "Verified" => applied
  /\ doc.stage = Closed /\ doc.status \in {"Verified", "Failed"} => crossings > 0

Saves == {"save2", "save1"}
Judged == {"verify", "defer", "readback", "close"}

\* Only an answered request is verified or closed, and on a capability without
\* a verifier only a successful one is taken as verified.
Answered(r, pc) ==
  /\ r.outcome \in {"success", "rejected", "ambiguous"}
  /\ Delegated => r.outcome = "success"
  /\ pc = "readback" /\ capability.kind = "unverified" => r.outcome = "success"

OutcomeIsReal(outcome) ==
  /\ outcome = "success" => applied
  /\ outcome \in {"success", "ambiguous"} \/ (outcome = "rejected" /\ ~Delegated) => crossings > 0

BackedRun(r) ==
  /\ Backed(r.mem) /\ Backed(r.save) /\ OutcomeIsReal(r.outcome)
  /\ r.pc \in Judged => Answered(r, r.pc)
  /\ r.pc \in Saves /\ r.then \in Judged => Answered(r, r.then)

\* The strengthening of VerifiedMeansApplied: it covers the copies in memory
\* and the saves under way, and ties the answer a command works with to what
\* happened at Cloudflare.
BackedInv ==
  /\ applied => crossings > 0
  /\ Backed(v1) /\ Backed(v2)
  /\ \A p \in Proc : BackedRun(run[p])

LEMMA BackedNoDoc == Backed(NoDoc)
BY DEF Backed, NoDoc

LEMMA BackedRecord ==
  ASSUME NEW doc \in Docs, NEW stage \in Stages, NEW status \in Statuses,
         status = "Verified" => applied,
         stage = Closed /\ status \in {"Verified", "Failed"} => crossings > 0
  PROVE  Backed(Record(doc, stage, status))
BY RecordShape DEF Backed

\* A step of p that sends nothing.
LEMMA BackedFrame ==
  ASSUME TypeOK, BackedInv, NEW p \in Proc, UNCHANGED <<crossings, applied, capability>>,
         \A q \in Proc \ {p} : run'[q] = run[q],
         Backed(v1)', Backed(v2)', BackedRun(run[p])'
  PROVE  BackedInv'
BY DEF BackedInv, BackedRun, Backed, Answered, OutcomeIsReal, Delegated

LEMMA BackedSave ==
  ASSUME TypeOK, BackedInv, NEW p \in Proc, NEW doc, NEW pc, Save(p, doc, pc), Backed(doc),
         pc \in Judged => Answered(run[p], pc),
         UNCHANGED <<storeVars, worldVars>>
  PROVE  BackedInv'
<1>1. BackedRun(run[p])'
  BY SaveShape DEF BackedInv, BackedRun, Backed, Answered, OutcomeIsReal, Delegated, Judged, worldVars
<1>2. Backed(v1)' /\ Backed(v2)' /\ UNCHANGED <<crossings, applied, capability>>
  BY DEF BackedInv, Backed, storeVars, worldVars
<1> QED BY <1>1, <1>2, SaveShape, BackedFrame

LEMMA BackedPersist ==
  ASSUME TypeOK, BackedInv, NEW p \in Proc, NEW stage \in Stages, NEW status \in Statuses, NEW pc,
         Persist(p, stage, status, pc),
         status = "Verified" => applied,
         stage = Closed /\ status \in {"Verified", "Failed"} => crossings > 0,
         pc \in Judged => Answered(run[p], pc),
         UNCHANGED <<storeVars, worldVars>>
  PROVE  BackedInv'
<1>1. Backed(Record(run[p].mem, stage, status))
  BY RunFields, BackedRecord
<1> QED BY <1>1, BackedSave DEF Persist

LEMMA BackedDone ==
  ASSUME TypeOK, BackedInv, NEW p \in Proc, Done(p), UNCHANGED worldVars, Backed(v1)', Backed(v2)'
  PROVE  BackedInv'
<1>1. BackedRun(run[p])'
  BY DoneShape DEF BackedRun, Backed, NoDoc, Answered, OutcomeIsReal, Judged, Saves
<1> QED BY <1>1, DoneShape, BackedFrame DEF worldVars

\* What the call of a boundary leaves: an outcome that says what happened.
LEMMA BoundaryOutcome ==
  ASSUME TypeOK, BackedInv, NEW p \in Proc, Boundary(p)
  PROVE  /\ crossings > 0 => crossings' > 0
         /\ applied => applied'
         /\ applied' => crossings' > 0
         /\ OutcomeIsReal(run[p].outcome)'
         /\ run'[p].mem.status = "Failed" => crossings' > 0 \/ run[p].mem.status = "Failed"
<1> DEFINE Called3(outcome, status) ==
      /\ run'[p].outcome = outcome /\ run'[p].mem.status = status
<1>0. /\ crossings \in Nat /\ applied \in BOOLEAN /\ capability' = capability
      /\ applied => crossings > 0
  BY BoundaryStep, CrossingsAssumption DEF TypeOK, BackedInv
<1>s. ASSUME NEW outcome \in Outcomes, NEW status, Called(p, outcome, status)
      PROVE  Called3(outcome, status)
  <2> DEFINE doc == [run[p].mem EXCEPT !.status = status]
             next == [run[p] EXCEPT !.pc = "respond", !.outcome = outcome, !.mem = doc]
  <2>1. doc.status = status
    BY RunFields DEF Docs
  <2>2. run' = [run EXCEPT ![p] = next]
    BY <1>s DEF Called
  <2> HIDE DEF doc
  <2>3. next.outcome = outcome /\ next.mem = doc
    BY DEF TypeOK, Runs
  <2> HIDE DEF next
  <2>4. run'[p] = next
    BY <2>2 DEF TypeOK
  <2> QED BY <2>1, <2>3, <2>4
<1>c. ASSUME NEW outcome \in Outcomes, Cross(outcome)
      PROVE  /\ crossings' > 0 /\ (applied => applied')
             /\ outcome = "success" => applied'
  <2>1. crossings' > 0
    BY <1>0, <1>c DEF Cross
  <2>2. (applied => applied') /\ (outcome = "success" => applied')
    BY <1>0, <1>c DEF Cross
  <2> QED BY <2>1, <2>2
<1> HIDE DEF Called3
<1>1. CASE Dispatch(p)
  <2>1. PICK outcome \in Outcomes :
          /\ Called(p, outcome, OutcomeStatus(outcome))
          /\ IF outcome = "unsent" THEN UNCHANGED <<crossings, applied>> ELSE Cross(outcome)
    BY <1>1 DEF Dispatch
  <2>2. run'[p].outcome = outcome /\ run'[p].mem.status = OutcomeStatus(outcome)
    BY <2>1, <1>s DEF Called3
  <2>3. CASE outcome = "unsent"
    <3>1. OutcomeStatus(outcome) = "RectificationRequired"
      BY <2>3 DEF OutcomeStatus
    <3> QED BY <1>0, <2>1, <2>2, <2>3, <3>1 DEF OutcomeIsReal
  <2>4. CASE outcome # "unsent"
    BY <1>0, <1>c, <2>1, <2>2, <2>4 DEF OutcomeIsReal
  <2> QED BY <2>3, <2>4
<1>2. CASE RunProgram(p)
  <2>1. PICK outcome \in Outcomes :
          /\ Called(p, outcome, ReceiptStatus(p, outcome))
          /\ IF NotAttempted(outcome) THEN UNCHANGED <<crossings, applied>> ELSE Cross(outcome)
    BY <1>2 DEF RunProgram
  <2>2. run'[p].outcome = outcome /\ run'[p].mem.status = ReceiptStatus(p, outcome)
    BY <2>1, <1>s DEF Called3
  <2>3. ReceiptStatus(p, outcome) \in {run[p].mem.status, "RectificationRequired"}
    BY DEF ReceiptStatus
  <2>4. Delegated /\ Delegated'
    BY <1>0, <1>2 DEF RunProgram, Delegated
  <2>5. CASE NotAttempted(outcome)
    BY <1>0, <2>1, <2>2, <2>3, <2>4, <2>5 DEF OutcomeIsReal, NotAttempted
  <2>6. CASE ~NotAttempted(outcome)
    BY <1>0, <1>c, <2>1, <2>2, <2>3, <2>6 DEF OutcomeIsReal
  <2> QED BY <2>5, <2>6
<1>3. CASE PrepareHandoff(p)
  <2>1. run'[p].outcome = "unsent" /\ run'[p].mem.status = "RectificationRequired"
    BY <1>3, <1>s DEF PrepareHandoff, Outcomes, Called3
  <2> QED BY <1>0, <1>3, <2>1 DEF PrepareHandoff, worldVars, OutcomeIsReal
<1> QED BY <1>1, <1>2, <1>3 DEF Boundary

LEMMA BackedStep == TypeOK /\ BackedInv /\ [Next]_vars => BackedInv'
<1> SUFFICES ASSUME TypeOK, BackedInv, [Next]_vars PROVE BackedInv'
  OBVIOUS
<1>a. \A p \in Proc : BackedRun(run[p])
  BY DEF BackedInv
<1>b. Backed(v1) /\ Backed(v2) /\ (applied => crossings > 0)
  BY DEF BackedInv
<1> USE ConstantTypes
<1>1. ASSUME NEW p \in Proc, NEW cmd \in Commands, LoadPlan(p, cmd) PROVE BackedInv'
  <2>1. UNCHANGED <<v1, v2, crossings, applied, capability>> /\ \A q \in Proc \ {p} : run'[q] = run[q]
    BY <1>1 DEF LoadPlan, TypeOK, storeVars, worldVars
  <2>2. /\ run'[p].mem \in {run[p].mem, v2} /\ run'[p].save = run[p].save
        /\ run'[p].outcome = run[p].outcome /\ run'[p].pc \in {"act", "done"}
    BY <1>1 DEF LoadPlan, TypeOK, Runs
  <2>3. BackedRun(run[p])'
    BY <2>1, <2>2, <1>a, <1>b DEF BackedRun, Backed, OutcomeIsReal, Delegated, Judged, Saves
  <2> QED BY <2>1, <2>3, <1>b, BackedFrame DEF Backed
<1>2. ASSUME NEW p \in Proc, Refuse(p) PROVE BackedInv'
  BY <1>2, <1>b, BackedDone DEF Refuse, Backed, storeVars, worldVars
<1>3. ASSUME NEW p \in Proc, ApprovePlan(p) \/ Consume(p) \/ RectifyCheckpoint(p) PROVE BackedInv'
  <2>1. \E stage \in Stages, status \in {"Approved", "Consumed", "RectificationRequired"},
           pc \in {"done", "attempt", "recheck"} : Persist(p, stage, status, pc)
    BY <1>3 DEF ApprovePlan, Consume, RectifyCheckpoint
  <2>2. UNCHANGED <<storeVars, worldVars>>
    BY <1>3 DEF ApprovePlan, Consume, RectifyCheckpoint
  <2> QED BY <2>1, <2>2, BackedPersist DEF Judged
<1>4. ASSUME NEW p \in Proc, CancelPlan(p) \/ RectifyPlan(p) \/ Finalize(p) PROVE BackedInv'
  <2>1. UNCHANGED <<storeVars, worldVars>>
    BY <1>4 DEF CancelPlan, RectifyPlan, Finalize
  <2>2. CASE Save(p, run[p].mem, "done")
    BY <1>a, <2>1, <2>2, BackedSave DEF BackedRun, Judged
  <2>3. CASE Persist(p, Closed, "Cancelled", "done")
    BY <2>1, <2>3, BackedPersist DEF Judged
  <2>4. CASE applied /\ Persist(p, Closed, "Verified", "done")
    BY <1>b, <2>1, <2>4, BackedPersist DEF Judged
  <2>5. CASE /\ AtPc(p, "close") /\ run[p].mem.status \in {"Verified", "Failed"}
             /\ Persist(p, Closed, run[p].mem.status, "done")
    <3>1. BackedRun(run[p]) /\ run[p].pc = "close"
      BY <1>a, <2>5 DEF AtPc
    <3>2. crossings > 0 /\ (run[p].mem.status = "Verified" => applied)
      BY <3>1 DEF BackedRun, Answered, OutcomeIsReal, Backed, Judged
    <3> QED BY <2>1, <2>5, <3>2, BackedPersist DEF Judged
  <2> QED BY <1>4, <2>2, <2>3, <2>4, <2>5 DEF CancelPlan, RectifyPlan, Finalize
<1>5. ASSUME NEW p \in Proc, PersistAttempt(p) \/ SinkFails(p) \/ DeferVerification(p) PROVE BackedInv'
  <2>1. UNCHANGED <<storeVars, worldVars>>
    BY <1>5 DEF PersistAttempt, SinkFails, DeferVerification
  <2>2. CASE PersistAttempt(p) \/ SinkFails(p)
    <3>1. \E stage \in {BoundaryAttemptPersisted, SecretSinkPersisted},
             status \in {run[p].mem.status, "RectificationRequired"},
             pc \in {"dispatch", "recover", "done"} : Persist(p, stage, status, pc)
      BY <2>2 DEF PersistAttempt, SinkFails
    <3>2. run[p].mem.status = "Verified" => applied
      BY <1>a DEF BackedRun, Backed
    <3>3. {BoundaryAttemptPersisted, SecretSinkPersisted} \subseteq Stages \ {Closed}
      BY DEF BoundaryAttemptPersisted, SecretSinkPersisted, Closed, Stages
    <3> QED BY <2>1, <3>1, <3>2, <3>3, RunFields, BackedPersist DEF Judged
  <2>3. CASE DeferVerification(p)
    <3>1. Answered(run[p], "close")
      BY <1>a, <2>3 DEF DeferVerification, AtPc, BackedRun, Answered, Judged
    <3> QED BY <2>1, <2>3, <3>1, BackedPersist DEF DeferVerification
  <2> QED BY <1>5, <2>2, <2>3
<1>6. ASSUME NEW p \in Proc, Boundary(p) PROVE BackedInv'
  <2>1. /\ UNCHANGED <<v1, v2, capability>> /\ Boundary(p)
    BY <1>6, BoundaryStep DEF storeVars
  <2>2. /\ crossings > 0 => crossings' > 0
        /\ applied => applied'
        /\ applied' => crossings' > 0
        /\ OutcomeIsReal(run[p].outcome)'
        /\ run'[p].mem.status = "Failed" => crossings' > 0 \/ run[p].mem.status = "Failed"
    BY <2>1, BoundaryOutcome
  <2>3. ASSUME NEW doc, Backed(doc)
        PROVE  /\ doc.status = "Verified" => applied'
               /\ doc.stage = Closed /\ doc.status \in {"Verified", "Failed"} => crossings' > 0
    BY <2>2, <2>3 DEF Backed
  <2>4. BackedRun(run[p])'
    <3>1. Backed(run[p].mem)'
      BY <1>a, <2>1, <2>2, <2>3, BoundaryShape DEF Backed, BackedRun
    <3>2. Backed(run[p].save)'
      BY <1>a, <2>1, <2>3, BoundaryShape DEF Backed, BackedRun
    <3> QED BY <2>1, <2>2, <3>1, <3>2, BoundaryShape DEF BackedRun, Judged, Saves
  <2>5. ASSUME NEW q \in Proc \ {p} PROVE BackedRun(run[q])'
    <3>1. run'[q] = run[q] /\ BackedRun(run[q])
      BY <1>a, <2>1, BoundaryShape
    <3>2. Backed(run[q].mem)' /\ Backed(run[q].save)'
      BY <2>3, <3>1 DEF Backed, BackedRun
    <3> QED BY <2>1, <2>2, <3>1, <3>2 DEF BackedRun, OutcomeIsReal, Answered, Delegated
  <2>6. Backed(v1)' /\ Backed(v2)'
    BY <1>b, <2>1, <2>3 DEF Backed
  <2> QED BY <2>2, <2>4, <2>5, <2>6 DEF BackedInv
<1>7. ASSUME NEW p \in Proc, Respond(p) \/ RespondWithoutEvidence(p) PROVE BackedInv'
  <2> DEFINE doc(status) == [Record(run[p].mem, BoundaryResponsePersisted, status) EXCEPT !.receipt = run[p].outcome]
  <2>1. ASSUME NEW status \in Statuses, status \in {run[p].mem.status, "RectificationRequired"}
        PROVE  Backed(doc(status))
    <3>1. doc(status).status = status /\ doc(status).stage = BoundaryResponsePersisted
      BY RunFields DEF Record, Docs
    <3>2. status = "Verified" => applied
      BY <1>a, <2>1 DEF BackedRun, Backed
    <3> QED BY <3>1, <3>2 DEF Backed, BoundaryResponsePersisted, Closed
  <2>2. UNCHANGED <<storeVars, worldVars>>
    BY <1>7 DEF Respond, RespondWithoutEvidence
  <2>3. CASE Respond(p)
    <3>1. Save(p, doc(run[p].mem.status), "sink") /\ Backed(doc(run[p].mem.status))
      BY <2>1, <2>3, RunFields DEF Respond, PersistResponse
    <3> HIDE DEF doc
    <3> QED BY <3>1, <2>2, BackedSave DEF Judged
  <2>4. CASE RespondWithoutEvidence(p)
    <3> DEFINE d == doc("RectificationRequired")
    <3>1. run' = [run EXCEPT ![p].save = d, ![p].pc = "save2", ![p].then = "sink", ![p].recovery = TRUE]
      BY <2>4 DEF RespondWithoutEvidence
    <3>2. Backed(d)
      BY <2>1
    <3> HIDE DEF d
    <3>3. /\ run'[p].mem = run[p].mem /\ run'[p].save = d /\ run'[p].pc = "save2" /\ run'[p].then = "sink"
          /\ run'[p].outcome = run[p].outcome /\ \A q \in Proc \ {p} : run'[q] = run[q]
      BY <3>1 DEF TypeOK, Runs
    <3>4. BackedRun(run[p])' /\ Backed(v1)' /\ Backed(v2)'
      BY <1>a, <1>b, <2>2, <3>2, <3>3
         DEF BackedRun, Backed, OutcomeIsReal, Delegated, Judged, storeVars, worldVars
    <3> QED BY <2>2, <3>3, <3>4, BackedFrame DEF worldVars
  <2> QED BY <1>7, <2>3, <2>4
<1>8. ASSUME NEW p \in Proc, Sink(p) PROVE BackedInv'
  <2>1. run[p].mem.status = "Verified" => applied
    BY <1>a DEF BackedRun, Backed
  <2>2. Verifiable(p) => Answered(run[p], "verify")
    BY DEF Verifiable, HasReceipt, Answered
  <2>3. SecretSinkPersisted # Closed
    BY DEF SecretSinkPersisted, Closed
  <2> DEFINE pc == IF Verifiable(p) THEN "verify" ELSE "done"
  <2>4. Persist(p, SecretSinkPersisted, run[p].mem.status, pc) /\ UNCHANGED <<storeVars, worldVars>>
    BY <1>8 DEF Sink
  <2>5. pc \in Judged => Answered(run[p], pc)
    BY <2>2 DEF Judged
  <2> HIDE DEF pc
  <2> QED BY <2>1, <2>3, <2>4, <2>5, RunFields, BackedPersist
<1>9. ASSUME NEW p \in Proc, CloseRejected(p) PROVE BackedInv'
  <2>1. UNCHANGED <<v1, v2, crossings, applied, capability>> /\ run[p].pc = "verify"
    BY <1>9 DEF CloseRejected, AtPc, storeVars, worldVars
  <2>2. crossings > 0 /\ Answered(run[p], "close")
    BY <1>a, <2>1 DEF BackedRun, Answered, OutcomeIsReal, Judged
  <2>3. BackedRun(run[p])'
    BY <1>a, <1>9, <2>1, <2>2, CloseShape
       DEF BackedRun, Backed, Answered, OutcomeIsReal, Delegated, Judged, Saves
  <2> QED BY <1>9, <1>b, <2>1, <2>3, CloseShape, BackedFrame DEF Backed
<1>10. ASSUME NEW p \in Proc, BeginVerification(p) PROVE BackedInv'
  <2>1. /\ UNCHANGED <<storeVars, worldVars>> /\ BackedRun(run[p]) /\ run[p].pc = "verify"
        /\ ~RejectedOutright(p)
    BY <1>10, <1>a DEF BeginVerification, AtPc
  <2>2. Answered(run[p], "defer") /\ Answered(run[p], "readback")
    BY <2>1 DEF BackedRun, Answered, RejectedOutright, Judged
  <2>3. \E status \in {run[p].mem.status, "RectificationRequired"}, pc \in {"defer", "readback"} :
          Persist(p, VerificationAttemptPersisted, status, pc)
    BY <1>10 DEF BeginVerification
  <2>4. VerificationAttemptPersisted # Closed /\ (run[p].mem.status = "Verified" => applied)
    BY <2>1 DEF VerificationAttemptPersisted, Closed, BackedRun, Backed
  <2> QED BY <2>1, <2>2, <2>3, <2>4, RunFields, BackedPersist
<1>11. ASSUME NEW p \in Proc, Readback(p) PROVE BackedInv'
  <2>1. /\ UNCHANGED <<storeVars, worldVars>> /\ BackedRun(run[p]) /\ run[p].pc = "readback"
    BY <1>11, <1>a DEF Readback, AtPc
  <2>2. Answered(run[p], "readback") /\ Answered(run[p], "close")
    BY <2>1 DEF BackedRun, Answered, Judged
  <2>3. ReadbackMayPass => applied
    BY <2>1, <2>2 DEF ReadbackMayPass, BackedRun, Answered, OutcomeIsReal
  <2>4. VerificationResponsePersisted # Closed
    BY DEF VerificationResponsePersisted, Closed
  <2>5. \E status \in {"Verified", "RectificationRequired"} :
          /\ status = "Verified" => applied
          /\ Persist(p, VerificationResponsePersisted, status, "close")
    BY <1>11, <2>3 DEF Readback
  <2> QED BY <2>1, <2>2, <2>4, <2>5, BackedPersist
<1>12. ASSUME NEW p \in Proc, WriteCanonical(p) PROVE BackedInv'
  <2>1. /\ UNCHANGED <<v1, crossings, applied, capability>> /\ v2' = run[p].save /\ run[p].pc = "save2"
        /\ \A q \in Proc \ {p} : run'[q] = run[q]
        /\ run'[p].mem = run[p].mem /\ run'[p].save = run[p].save /\ run'[p].then = run[p].then
        /\ run'[p].pc = "save1" /\ run'[p].outcome = run[p].outcome
    BY <1>12 DEF WriteCanonical, AtPc, TypeOK, Runs, worldVars
  <2>2. BackedRun(run[p])' /\ Backed(v1)' /\ Backed(v2)'
    BY <1>a, <1>b, <2>1 DEF BackedRun, Backed, Answered, OutcomeIsReal, Delegated, Judged, Saves
  <2> QED BY <2>1, <2>2, BackedFrame
<1>13. ASSUME NEW p \in Proc, WriteProjection(p) PROVE BackedInv'
  <2>1. UNCHANGED worldVars /\ v2' = v2 /\ v1' = run[p].save /\ run[p].pc = "save1"
    BY <1>13 DEF WriteProjection, AtPc
  <2>2. Backed(v1)' /\ Backed(v2)'
    BY <1>a, <1>b, <2>1 DEF BackedRun, Backed, worldVars
  <2>3. CASE run[p].then = "done"
    BY <1>13, <2>1, <2>2, <2>3, BackedDone DEF WriteProjection
  <2>4. CASE run[p].then # "done"
    <3>1. /\ \A q \in Proc \ {p} : run'[q] = run[q]
          /\ run'[p].mem = run[p].save /\ run'[p].save = NoDoc /\ run'[p].then = "done"
          /\ run'[p].pc = run[p].then /\ run'[p].outcome = run[p].outcome
      BY <1>13, <2>4 DEF WriteProjection, TypeOK, Runs
    <3>2. BackedRun(run[p])'
      BY <1>a, <2>1, <3>1
         DEF BackedRun, Backed, NoDoc, Answered, OutcomeIsReal, Delegated, Judged, Saves, worldVars
    <3> QED BY <2>1, <2>2, <3>1, <3>2, BackedFrame DEF worldVars
  <2> QED BY <2>3, <2>4
<1>e. ASSUME NEW p \in Proc, BeginRecovery(p), UNCHANGED worldVars, Backed(v1)', Backed(v2)' PROVE BackedInv'
  <2>1. BackedRun(run[p])'
    BY <1>a, <1>e, BeginRecoveryShape
       DEF BackedRun, Backed, NoDoc, OutcomeIsReal, Delegated, Judged, Saves, worldVars
  <2> QED BY <1>e, <2>1, BeginRecoveryShape, BackedFrame DEF worldVars
<1>14. ASSUME NEW p \in Proc, WriteFails(p) PROVE BackedInv'
  <2>1. UNCHANGED worldVars /\ v1' \in {v1, run[p].save} /\ v2' \in {v2, run[p].save} /\ SaveFailed(p)
    BY <1>14 DEF WriteFails
  <2>2. Backed(v1)' /\ Backed(v2)'
    BY <1>a, <1>b, <2>1 DEF BackedRun, Backed, worldVars
  <2>3. CASE Done(p) \/ BeginRecovery(p)
    BY <1>e, <2>1, <2>2, <2>3, BackedDone
  <2>4. CASE run[p].then = "sink" /\ ~Delegated
    <3>1. /\ \A q \in Proc \ {p} : run'[q] = run[q]
          /\ run'[p].mem = [run[p].mem EXCEPT !.status = "RectificationRequired"]
          /\ run'[p].save = NoDoc /\ run'[p].then = "done" /\ run'[p].pc = "sink"
          /\ run'[p].outcome = run[p].outcome
      BY <2>1, <2>4 DEF SaveFailed, TypeOK, Runs
    <3>2. run'[p].mem.status = "RectificationRequired"
      BY <3>1, RunFields DEF Docs
    <3>3. BackedRun(run[p])'
      BY <1>a, <2>1, <3>1, <3>2
         DEF BackedRun, Backed, NoDoc, OutcomeIsReal, Delegated, Judged, Saves, worldVars
    <3> QED BY <2>1, <2>2, <3>1, <3>3, BackedFrame DEF worldVars
  <2> QED BY <2>1, <2>3, <2>4 DEF SaveFailed
<1>15. ASSUME NEW p \in Proc, ReleaseLock(p) \/ CrashProcess(p) PROVE BackedInv'
  <2>1. /\ UNCHANGED <<v1, v2, crossings, applied, capability>>
        /\ run'[p] = NoRun /\ \A q \in Proc \ {p} : run'[q] = run[q]
    BY <1>15 DEF ReleaseLock, CrashProcess, TypeOK, storeVars, worldVars
  <2>2. BackedRun(run[p])' /\ Backed(v1)' /\ Backed(v2)'
    BY <1>b, <2>1 DEF BackedRun, Backed, NoRun, NoDoc, OutcomeIsReal, Judged, Saves
  <2> QED BY <2>1, <2>2, BackedFrame
<1>16. CASE UNCHANGED <<v1, v2, run, crossings, applied, capability>>
  BY <1>16 DEF BackedInv, BackedRun, Backed, Answered, OutcomeIsReal, Delegated
<1>17. ASSUME NEW p \in Proc, AcquireLock(p) \/ FinishDrop(p) PROVE BackedInv'
  BY <1>16, <1>17 DEF AcquireLock, FinishDrop, planVars
<1>18. CASE TimePasses \/ UNCHANGED vars
  BY <1>16, <1>18 DEF TimePasses, vars, planVars, storeVars
<1>19. ASSUME NEW p \in Proc, ReceiptWithoutEvidence(p) PROVE BackedInv'
  BY <1>b, <1>e, <1>19 DEF ReceiptWithoutEvidence, Backed, storeVars, worldVars
<1>20. ASSUME NEW p \in Proc, Recover(p) PROVE BackedInv'
  <2>1. UNCHANGED <<v1, v2, crossings, applied, capability>>
    BY <1>20 DEF Recover, storeVars, worldVars
  <2>2. /\ run'[p].save.status = "RectificationRequired"
        /\ run'[p].mem = run[p].mem /\ run'[p].outcome = run[p].outcome
        /\ run'[p].pc = "save2" /\ run'[p].then = "done"
        /\ \A q \in Proc \ {p} : run'[q] = run[q]
    BY <1>20, RecoverShape
  <2>3. BackedRun(run[p])' /\ Backed(v1)' /\ Backed(v2)'
    BY <1>a, <1>b, <2>1, <2>2 DEF BackedRun, Backed, OutcomeIsReal, Delegated, Judged, Saves
  <2> QED BY <2>1, <2>2, <2>3, BackedFrame
<1>21. ASSUME NEW p \in Proc, CommandStep(p) PROVE BackedInv'
  BY <1>21, <1>2, <1>3, <1>4, <1>5, <1>6, <1>7, <1>8, <1>9, <1>10, <1>11, <1>12, <1>13, <1>20 DEF CommandStep
<1>22. ASSUME NEW p \in Proc, FaultStep(p) PROVE BackedInv'
  BY <1>22, <1>5, <1>7, <1>14, <1>15, <1>19 DEF FaultStep
<1> QED BY <1>1, <1>15, <1>17, <1>18, <1>21, <1>22 DEF Next

LEMMA BackedInvHolds == Spec => []BackedInv
<1>1. Init => BackedInv
  <2>1. Init => Backed(NoDoc) /\ Backed(DraftDoc)
    BY BackedNoDoc DEF Backed, DraftDoc, NoDoc
  <2> QED BY <2>1 DEF Init, BackedInv, BackedRun, NoRun, OutcomeIsReal, Judged, Saves
<1> QED BY <1>1, BackedStep, TypeCorrect, PTL DEF Spec

\* A plan is stored as verified only if its mutation took effect, whatever the
\* lock did: only a read-back, or the successful answer of a capability that
\* has none, sets the status.
THEOREM VerifiedMeansAppliedHolds == Spec => []VerifiedMeansApplied
<1>1. BackedInv => VerifiedMeansApplied
  BY DEF BackedInv, Backed, VerifiedMeansApplied
<1> QED BY <1>1, BackedInvHolds, PTL

-----------------------------------------------------------------------------
\* The stored journal and the copies of it.

\* The stage of the copy at each position of a command.
StageAt(pc, doc) ==
  /\ pc = "attempt" => doc.stage = ConsumptionPersisted
  /\ pc \in {"dispatch", "respond"} => doc.stage = BoundaryAttemptPersisted
  /\ pc = "sink" => \/ doc.stage = BoundaryResponsePersisted
                    \/ doc.stage = BoundaryAttemptPersisted /\ ~Delegated
  /\ pc = "verify" => doc.stage = SecretSinkPersisted
  /\ pc \in {"defer", "readback"} => doc.stage = VerificationAttemptPersisted
  /\ pc = "close" => \/ doc.stage = VerificationResponsePersisted
                     \/ doc.stage = SecretSinkPersisted /\ ~Delegated
  /\ pc = "recover" => /\ doc.stage \in BoundaryAttemptPersisted .. VerificationResponsePersisted
                       /\ Delegated

\* The checkpoint after one of the boundary or the verification.
Following(stage) == IF stage = VerificationResponsePersisted THEN Closed ELSE stage + 1

\* doc has the journal of base, or that and the following checkpoint.
Same(doc, base) == doc.stage = base.stage /\ doc.journal = base.journal
OneMore(doc, base) ==
  doc.stage = Following(base.stage) /\ doc.journal = base.journal \cup {Following(base.stage)}

\* The checkpoints that a later save may replace: those whose own save
\* reported an error and was survived by the command.
Replaceable ==
  IF Delegated THEN {SecretSinkPersisted, VerificationAttemptPersisted} ELSE {BoundaryResponsePersisted}

Settled(doc) == doc.status \notin {"Absent", "Draft", "Approved", "Cancelled"}

\* What the copy in memory says of the stored document.
JournalMem(r) ==
  /\ StageAt(r.pc, r.mem)
  /\ r.pc \in {"respond", "verify", "defer", "readback", "close"} => Same(v2, r.mem)
  /\ r.pc = "sink" => \/ Same(v2, r.mem)
                      \/ OneMore(v2, r.mem) /\ r.mem.stage = BoundaryAttemptPersisted /\ ~Delegated
  /\ r.pc = "recover" => Same(v2, r.mem) \/ OneMore(v2, r.mem)
  /\ r.pc \in AfterBoundary => Settled(v2)
  /\ r.pc = "recheck" => r.mem.status = "RectificationRequired"

\* A save whose failure the command survives adds the following checkpoint.
SurvivableSave(r) ==
  /\ r.mem.stage \in BoundaryAttemptPersisted .. VerificationResponsePersisted
  /\ r.then = "sink" => r.mem.stage = BoundaryAttemptPersisted /\ OneMore(r.save, r.mem)
  /\ Same(r.save, r.mem) \/ OneMore(r.save, r.mem) \/ ~Delegated
  /\ r.pc = "save2" => Same(v2, r.mem) \/ (~Delegated /\ r.then # "sink")

\* What a save under way does to the stored document.
JournalSave(r) ==
  r.pc \in Saves =>
    /\ StageAt(r.then, r.save)
    /\ r.then = "recheck" => r.save.status = "RectificationRequired"
    /\ r.then = "sink" \/ (r.outcome # "none" /\ ~r.recovery) => SurvivableSave(r)
    /\ r.save.status # "Absent"
    /\ v2.status = "Cancelled" => r.save.status = "Cancelled"
    /\ Settled(v2) => Settled(r.save)
    /\ r.then \in AfterBoundary \/ r.outcome # "none" => Settled(v2)
    /\ r.pc = "save2" => v2.stage <= r.save.stage /\ v2.journal \ r.save.journal \subseteq Replaceable

\* The strengthening of ProjectionNeverAhead and JournalKeepsBoundary.
JournalInv ==
  ~lockStolen =>
    /\ v1.stage <= v2.stage
    /\ v2.status # "Absent"
    /\ \A p \in Proc : JournalMem(run[p]) /\ JournalSave(run[p])

\* What has to be shown of a step of p under the lock, and of one that leaves
\* the store alone.
LEMMA JournalHeld ==
  ASSUME TypeOK, HoldsLock, OwnerKeepsFile, ~lockStolen, NEW p \in Proc, at[p] = "held",
         \A q \in Proc \ {p} : run'[q] = run[q],
         (v1.stage <= v2.stage)', (v2.status # "Absent")',
         JournalMem(run[p])', JournalSave(run[p])'
  PROVE  JournalInv'
<1>1. \A q \in Proc \ {p} : run'[q].pc = "none"
  BY OneCommand
<1>2. ASSUME NEW q \in Proc \ {p} PROVE JournalMem(run[q])' /\ JournalSave(run[q])'
  BY <1>1 DEF JournalMem, JournalSave, StageAt, AfterBoundary, Saves
<1> QED BY <1>2 DEF JournalInv

LEMMA JournalFrame ==
  ASSUME TypeOK, JournalInv, ~lockStolen, NEW p \in Proc, UNCHANGED <<v1, v2, capability>>,
         \A q \in Proc \ {p} : run'[q] = run[q],
         JournalMem(run[p])', JournalSave(run[p])'
  PROVE  JournalInv'
<1>1. ASSUME NEW q \in Proc \ {p} PROVE JournalMem(run[q])' /\ JournalSave(run[q])'
  BY DEF JournalInv, JournalMem, JournalSave, SurvivableSave, StageAt, Same, OneMore, Settled,
     Replaceable, Delegated
<1> QED BY <1>1 DEF JournalInv

LEMMA JournalDone ==
  ASSUME TypeOK, HoldsLock, OwnerKeepsFile, JournalInv, ~lockStolen, NEW p \in Proc, at[p] = "held",
         Done(p), (v1.stage <= v2.stage)', (v2.status # "Absent")'
  PROVE  JournalInv'
<1>1. JournalMem(run[p])' /\ JournalSave(run[p])'
  BY DoneShape DEF JournalMem, JournalSave, StageAt, AfterBoundary, Saves
<1> QED BY <1>1, DoneShape, JournalHeld

\* A save that starts.
LEMMA JournalSaves ==
  ASSUME TypeOK, JournalInv, ~lockStolen, NEW p \in Proc, NEW doc, NEW pc, Save(p, doc, pc),
         UNCHANGED <<storeVars, worldVars>>,
         StageAt(pc, doc), pc = "recheck" => doc.status = "RectificationRequired",
         pc = "sink" \/ (run[p].outcome # "none" /\ ~run[p].recovery) =>
           /\ run[p].mem.stage \in BoundaryAttemptPersisted .. VerificationResponsePersisted
           /\ pc = "sink" => run[p].mem.stage = BoundaryAttemptPersisted /\ OneMore(doc, run[p].mem)
           /\ Same(doc, run[p].mem) \/ OneMore(doc, run[p].mem) \/ ~Delegated
           /\ Same(v2, run[p].mem) \/ (~Delegated /\ pc # "sink"),
         doc.status # "Absent",
         v2.status = "Cancelled" => doc.status = "Cancelled",
         Settled(v2) => Settled(doc),
         pc \in AfterBoundary \/ run[p].outcome # "none" => Settled(v2),
         v2.stage <= doc.stage, v2.journal \ doc.journal \subseteq Replaceable
  PROVE  JournalInv'
<1>0. UNCHANGED <<v1, v2, capability>>
  BY DEF storeVars, worldVars
<1>1. JournalMem(run[p])'
  BY SaveShape DEF JournalMem, StageAt, AfterBoundary
<1>2. /\ run'[p].mem = run[p].mem /\ run'[p].outcome = run[p].outcome
      /\ run'[p].recovery = run[p].recovery
      /\ run'[p].save = doc /\ run'[p].pc = "save2" /\ run'[p].then = pc
  BY SaveShape
<1>3. StageAt(run[p].then, run[p].save)'
  BY <1>0, <1>2 DEF StageAt, Delegated
<1>4. (run[p].then = "sink" \/ (run[p].outcome # "none" /\ ~run[p].recovery) => SurvivableSave(run[p]))'
  BY <1>0, <1>2 DEF SurvivableSave, Same, OneMore, Delegated
<1>5. JournalSave(run[p])'
  BY <1>0, <1>2, <1>3, <1>4 DEF JournalSave, Settled, Replaceable, Delegated
<1> QED BY <1>0, <1>1, <1>5, SaveShape, JournalFrame

\* A checkpoint on the copy that is the stored document, before the boundary
\* or in a rectification.
LEMMA JournalBefore ==
  ASSUME TypeOK, JournalInv, ~lockStolen, NEW p \in Proc, NEW stage \in Stages, NEW status \in Statuses,
         NEW pc \in {"done", "attempt", "dispatch", "recheck"},
         run[p].mem = v2, run[p].outcome = "none",
         Persist(p, stage, status, pc), UNCHANGED <<storeVars, worldVars>>,
         pc = "attempt" => stage = ConsumptionPersisted,
         pc = "dispatch" => stage = BoundaryAttemptPersisted,
         pc = "recheck" => status = "RectificationRequired",
         status # "Absent",
         v2.status = "Cancelled" => status = "Cancelled",
         Settled(v2) => status \notin {"Draft", "Approved", "Cancelled"}
  PROVE  JournalInv'
<1> DEFINE doc == Record(run[p].mem, stage, status)
<1>1. doc.status = status /\ doc.stage = stage /\ doc.journal = v2.journal \cup {stage}
  BY RunFields, RecordShape
<1>2. v2.stage < stage /\ Save(p, doc, pc)
  BY DEF Persist, CanRecord
<1>3. v2.stage <= doc.stage
  BY <1>1, <1>2 DEF TypeOK, Docs, Stages, PlanPrepared, ApprovalPersisted, ConsumptionPersisted,
     BoundaryAttemptPersisted, BoundaryResponsePersisted, SecretSinkPersisted,
     VerificationAttemptPersisted, VerificationResponsePersisted, Closed
<1> HIDE DEF doc
<1>4. StageAt(pc, doc) /\ pc \notin AfterBoundary
  BY <1>1 DEF StageAt, AfterBoundary
<1>5. (Settled(v2) => Settled(doc)) /\ v2.journal \ doc.journal \subseteq Replaceable
  BY <1>1 DEF Settled
<1> QED BY <1>1, <1>2, <1>3, <1>4, <1>5, JournalSaves

\* A checkpoint after the boundary.
LEMMA JournalAfter ==
  ASSUME TypeOK, JournalInv, ~lockStolen, NEW p \in Proc,
         run[p].pc \in {"sink", "verify", "defer", "readback", "close"},
         NEW stage \in Stages, NEW status \in Statuses \ {"Absent", "Draft", "Approved", "Cancelled"},
         NEW pc \in AfterBoundary \cup {"done"}, pc # "sink",
         Persist(p, stage, status, pc), UNCHANGED <<storeVars, worldVars>>,
         run[p].pc = "sink" => stage = SecretSinkPersisted,
         Delegated => stage = Following(run[p].mem.stage),
         \A doc : doc.stage = stage => StageAt(pc, doc)
  PROVE  JournalInv'
<1> DEFINE doc == Record(run[p].mem, stage, status)
<1>m. JournalMem(run[p]) /\ run[p].mem \in Docs
  BY RunFields DEF JournalInv
<1>1. doc.status = status /\ doc.stage = stage /\ doc.journal = run[p].mem.journal \cup {stage}
  BY RunFields, RecordShape
<1>2. run[p].mem.stage < stage /\ Save(p, doc, pc)
  BY DEF Persist, CanRecord
<1> HIDE DEF doc
<1>3. run[p].mem.stage \in BoundaryAttemptPersisted .. VerificationResponsePersisted
  BY <1>m DEF JournalMem, StageAt, PlanPrepared, ApprovalPersisted, ConsumptionPersisted,
     BoundaryAttemptPersisted, BoundaryResponsePersisted, SecretSinkPersisted,
     VerificationAttemptPersisted, VerificationResponsePersisted, Closed
<1>4. Same(v2, run[p].mem) \/ (OneMore(v2, run[p].mem) /\ run[p].pc = "sink"
                               /\ run[p].mem.stage = BoundaryAttemptPersisted /\ ~Delegated)
  BY <1>m DEF JournalMem
<1>5. v2.stage <= doc.stage /\ v2.journal \ doc.journal \subseteq Replaceable
  <2>1. CASE Same(v2, run[p].mem)
    <3>1. v2.stage < stage /\ v2.journal \subseteq doc.journal
      BY <1>1, <1>2, <2>1 DEF Same
    <3>2. v2.stage <= stage
      BY <3>1 DEF TypeOK, Docs, Stages, PlanPrepared, ApprovalPersisted, ConsumptionPersisted,
     BoundaryAttemptPersisted, BoundaryResponsePersisted, SecretSinkPersisted,
     VerificationAttemptPersisted, VerificationResponsePersisted, Closed
    <3> QED BY <1>1, <3>1, <3>2
  <2>2. CASE OneMore(v2, run[p].mem) /\ run[p].pc = "sink"
             /\ run[p].mem.stage = BoundaryAttemptPersisted /\ ~Delegated
    BY <1>1, <2>2 DEF OneMore, Following, Replaceable, BoundaryAttemptPersisted,
       BoundaryResponsePersisted, SecretSinkPersisted, VerificationResponsePersisted
  <2> QED BY <1>4, <2>1, <2>2
<1>6. Same(doc, run[p].mem) \/ OneMore(doc, run[p].mem) \/ ~Delegated
  BY <1>1 DEF OneMore
<1>7. Settled(v2) /\ Settled(doc)
  BY <1>m, <1>1 DEF JournalMem, AfterBoundary, Settled
<1>8. StageAt(pc, doc) /\ pc # "recheck"
  BY <1>1 DEF AfterBoundary
<1> QED BY <1>1, <1>2, <1>3, <1>4, <1>5, <1>6, <1>7, <1>8, JournalSaves DEF Settled

\* The checkpoint of a response follows the boundary attempt.
Response(p, status) ==
  [Record(run[p].mem, BoundaryResponsePersisted, status) EXCEPT !.receipt = run[p].outcome]

LEMMA ResponseShape ==
  ASSUME TypeOK, NEW p \in Proc, NEW status \in Statuses, run[p].mem.stage = BoundaryAttemptPersisted
  PROVE  /\ Response(p, status).status = status
         /\ Response(p, status).stage = BoundaryResponsePersisted
         /\ OneMore(Response(p, status), run[p].mem)
<1>1. run[p].mem \in Docs /\ Record(run[p].mem, BoundaryResponsePersisted, status) \in Docs
  BY RunFields, ConstantTypes, DocTypes
<1>2. /\ Response(p, status).status = status /\ Response(p, status).stage = BoundaryResponsePersisted
      /\ Response(p, status).journal = run[p].mem.journal \cup {BoundaryResponsePersisted}
  BY <1>1, RecordShape, ConstantTypes DEF Docs, Response
<1> QED BY <1>2 DEF OneMore, Following, BoundaryAttemptPersisted, BoundaryResponsePersisted,
     VerificationResponsePersisted

LEMMA StageNat == Stages \subseteq Nat
BY DEF Stages, PlanPrepared, ApprovalPersisted, ConsumptionPersisted,
     BoundaryAttemptPersisted, BoundaryResponsePersisted, SecretSinkPersisted,
     VerificationAttemptPersisted, VerificationResponsePersisted, Closed

LEMMA JournalStep ==
  TypeOK /\ HoldsLock /\ OwnerKeepsFile /\ CrossingInv /\ BackedInv /\ JournalInv /\ [Next]_vars
    => JournalInv'
<1> SUFFICES ASSUME TypeOK, HoldsLock, OwnerKeepsFile, CrossingInv, BackedInv, JournalInv, [Next]_vars,
                    ~lockStolen'
             PROVE  JournalInv'
  BY DEF JournalInv
<1>0. ~lockStolen
  BY StolenIsForGood
<1>a. \A p \in Proc : SpentMem(run[p]) /\ SpentSave(run[p])
  BY <1>0 DEF CrossingInv
<1>b. /\ v1.stage <= v2.stage /\ v2.status # "Absent"
      /\ \A p \in Proc : JournalMem(run[p]) /\ JournalSave(run[p])
  BY <1>0 DEF JournalInv
<1>d. /\ v1 \in Docs /\ v2 \in Docs /\ v1.stage \in Nat /\ v2.stage \in Nat
      /\ \A p \in Proc : run[p].mem.stage \in Nat /\ run[p].save.stage \in Nat
  BY RunFields, StageNat DEF TypeOK, Docs
<1> USE <1>0, ConstantTypes
<1>1. ASSUME NEW p \in Proc, NEW cmd \in Commands, LoadPlan(p, cmd) PROVE JournalInv'
  <2>1. UNCHANGED <<v1, v2, capability>> /\ \A q \in Proc \ {p} : run'[q] = run[q]
    BY <1>1, OtherRuns DEF LoadPlan, storeVars, worldVars
  <2>2. run'[p].pc \in {"done", "act"}
    BY <1>1 DEF LoadPlan, TypeOK, Runs
  <2>3. JournalMem(run[p])' /\ JournalSave(run[p])'
    BY <2>2 DEF JournalMem, JournalSave, StageAt, AfterBoundary, Saves
  <2> QED BY <2>1, <2>3, JournalFrame
<1>2. ASSUME NEW p \in Proc, Refuse(p) PROVE JournalInv'
  <2>1. at[p] = "held" /\ Done(p) /\ UNCHANGED <<v1, v2>>
    BY <1>2 DEF Refuse, AtPc, storeVars
  <2> QED BY <2>1, <1>b, JournalDone
<1>3. ASSUME NEW p \in Proc, ApprovePlan(p) \/ Consume(p) PROVE JournalInv'
  <2>1. /\ UNCHANGED <<storeVars, worldVars>> /\ run[p].mem = v2 /\ run[p].outcome = "none"
        /\ v2.status \in {"Draft", "Approved"}
    BY <1>3, <1>a DEF ApprovePlan, Consume, AtPc, SpentMem
  <2>2. \/ Persist(p, ApprovalPersisted, "Approved", "done")
        \/ Persist(p, ConsumptionPersisted, "Consumed", "attempt")
    BY <1>3 DEF ApprovePlan, Consume
  <2> QED BY <2>1, <2>2, JournalBefore DEF Settled
<1>s. ASSUME NEW p \in Proc, Save(p, run[p].mem, "done"), UNCHANGED <<storeVars, worldVars>>,
             run[p].mem = v2, run[p].outcome = "none"
      PROVE  JournalInv'
  <2>1. StageAt("done", v2) /\ v2.stage <= v2.stage
    BY <1>d DEF StageAt
  <2> QED BY <1>b, <1>s, <2>1, JournalSaves DEF AfterBoundary
<1>4. ASSUME NEW p \in Proc, CancelPlan(p) PROVE JournalInv'
  <2>1. /\ UNCHANGED <<storeVars, worldVars>> /\ run[p].mem = v2 /\ run[p].outcome = "none"
        /\ v2.status \in {"Draft", "Approved", "Cancelled"}
    BY <1>4, <1>a DEF CancelPlan, Cancellable, AtPc, SpentMem
  <2>2. CASE Save(p, run[p].mem, "done")
    BY <1>s, <2>1, <2>2
  <2>3. CASE Persist(p, Closed, "Cancelled", "done")
    BY <2>1, <2>3, JournalBefore DEF Settled
  <2> QED BY <1>4, <2>2, <2>3 DEF CancelPlan
<1>5. ASSUME NEW p \in Proc, RectifyCheckpoint(p) \/ RectifyPlan(p) PROVE JournalInv'
  <2>1. /\ UNCHANGED <<storeVars, worldVars>> /\ run[p].mem = v2 /\ run[p].outcome = "none"
        /\ v2.status = "RectificationRequired"
    BY <1>5, <1>a, <1>b DEF RectifyCheckpoint, RectifyPlan, AtPc, SpentMem, JournalMem, RectificationEligible
  <2>2. CASE Save(p, run[p].mem, "done")
    BY <1>s, <2>1, <2>2
  <2>3. CASE Persist(p, Closed, "Verified", "done")
    BY <2>1, <2>3, JournalBefore
  <2>4. CASE \E stage \in {VerificationAttemptPersisted, VerificationResponsePersisted} :
               Persist(p, stage, "RectificationRequired", "recheck")
    BY <2>1, <2>4, JournalBefore
  <2> QED BY <1>5, <2>2, <2>3, <2>4 DEF RectifyCheckpoint, RectifyPlan
<1>6. ASSUME NEW p \in Proc, PersistAttempt(p) PROVE JournalInv'
  <2>1. /\ UNCHANGED <<storeVars, worldVars>> /\ run[p].mem = v2 /\ run[p].outcome = "none"
        /\ v2.status = "Consumed" /\ Persist(p, BoundaryAttemptPersisted, "Consumed", "dispatch")
    BY <1>6, <1>a DEF PersistAttempt, AtPc, SpentMem
  <2> QED BY <2>1, JournalBefore
<1>7. ASSUME NEW p \in Proc, Boundary(p) PROVE JournalInv'
  <2>1. /\ UNCHANGED <<v1, v2, capability>> /\ run[p].pc = "dispatch" /\ run[p].mem = v2
        /\ v2.status = "Consumed" /\ v2.stage = BoundaryAttemptPersisted
    BY <1>7, <1>a, <1>b, BoundaryStep DEF AtPc, SpentMem, JournalMem, StageAt, storeVars
  <2>2. JournalMem(run[p])' /\ JournalSave(run[p])'
    BY <1>7, <2>1, BoundaryShape
       DEF JournalMem, JournalSave, StageAt, Same, Settled, AfterBoundary, Saves
  <2> QED BY <1>7, <2>1, <2>2, BoundaryShape, JournalFrame
<1>8. ASSUME NEW p \in Proc, Respond(p) \/ RespondWithoutEvidence(p) PROVE JournalInv'
  <2>1. /\ UNCHANGED <<storeVars, worldVars>> /\ run[p].mem.stage = BoundaryAttemptPersisted
        /\ Same(v2, run[p].mem) /\ Settled(v2) /\ Spent(run[p].mem) /\ run[p].mem.status \in Statuses
    BY <1>8, <1>a, <1>b, RunFields DEF Respond, RespondWithoutEvidence, AtPc, SpentMem, JournalMem, StageAt,
       AfterBoundary
  <2>2. BoundaryAttemptPersisted \in BoundaryAttemptPersisted .. VerificationResponsePersisted
    BY DEF BoundaryAttemptPersisted, VerificationResponsePersisted
  <2>3. ASSUME NEW doc, OneMore(doc, run[p].mem), doc.stage = BoundaryResponsePersisted
        PROVE  v2.stage <= doc.stage /\ v2.journal \ doc.journal \subseteq Replaceable /\ StageAt("sink", doc)
    BY <2>1, <2>3 DEF Same, OneMore, StageAt, BoundaryAttemptPersisted, BoundaryResponsePersisted
  <2>4. CASE Respond(p)
    <3> DEFINE doc == Response(p, run[p].mem.status)
    <3>1. Save(p, doc, "sink")
      BY <2>4 DEF Respond, PersistResponse, Response
    <3>2. doc.status = run[p].mem.status /\ doc.stage = BoundaryResponsePersisted /\ OneMore(doc, run[p].mem)
      BY <2>1, ConstantTypes, ResponseShape
    <3> HIDE DEF doc
    <3>3. Settled(doc)
      BY <2>1, <3>2 DEF Settled, Spent
    <3> QED BY <2>1, <2>2, <2>3, <3>1, <3>2, <3>3, JournalSaves DEF Settled
  <2>5. CASE RespondWithoutEvidence(p)
    <3> DEFINE doc == Response(p, "RectificationRequired")
    <3>1. run' = [run EXCEPT ![p].save = doc, ![p].pc = "save2", ![p].then = "sink", ![p].recovery = TRUE]
      BY <2>5 DEF RespondWithoutEvidence, Response
    <3>2. /\ doc.status = "RectificationRequired" /\ doc.stage = BoundaryResponsePersisted
          /\ OneMore(doc, run[p].mem)
      BY <2>1, ConstantTypes, ResponseShape
    <3> HIDE DEF doc
    <3>3. /\ run'[p].mem = run[p].mem /\ run'[p].save = doc /\ run'[p].pc = "save2" /\ run'[p].then = "sink"
          /\ \A q \in Proc \ {p} : run'[q] = run[q]
      BY <3>1 DEF TypeOK, Runs
    <3>4. UNCHANGED <<v1, v2, capability>>
      BY <2>1 DEF storeVars, worldVars
    <3>5. SurvivableSave(run[p])'
      BY <2>1, <2>2, <3>2, <3>3, <3>4 DEF SurvivableSave, Same, OneMore
    <3>6. v2.stage <= doc.stage /\ v2.journal \ doc.journal \subseteq Replaceable
      BY <2>3, <3>2
    <3>7. JournalMem(run[p])'
      BY <3>3 DEF JournalMem, StageAt, AfterBoundary
    <3>8. JournalSave(run[p])'
      BY <2>1, <3>2, <3>3, <3>4, <3>5, <3>6 DEF JournalSave, StageAt, Settled, Replaceable, Delegated
    <3> QED BY <3>3, <3>4, <3>7, <3>8, JournalFrame
  <2> QED BY <1>8, <2>4, <2>5
<1>9. ASSUME NEW p \in Proc,
             \/ Sink(p) \/ SinkFails(p) \/ BeginVerification(p) \/ DeferVerification(p)
             \/ Readback(p) \/ Finalize(p)
      PROVE  JournalInv'
  <2>1. /\ UNCHANGED <<storeVars, worldVars>> /\ Spent(run[p].mem) /\ JournalMem(run[p])
        /\ run[p].pc \in {"sink", "verify", "defer", "readback", "close"}
    BY <1>9, <1>a, <1>b DEF Sink, SinkFails, BeginVerification, DeferVerification, Readback, Finalize,
       AtPc, SpentMem, AfterBoundary
  <2>2. run[p].mem.status \in Statuses \ {"Absent", "Draft", "Approved", "Cancelled"}
    BY <2>1, RunFields DEF Spent
  <2>n. /\ "RectificationRequired" \in Statuses \ {"Absent", "Draft", "Approved", "Cancelled"}
        /\ "Verified" \in Statuses \ {"Absent", "Draft", "Approved", "Cancelled"}
    BY ConstantTypes
  <2>f. /\ Following(BoundaryResponsePersisted) = SecretSinkPersisted
        /\ Following(SecretSinkPersisted) = VerificationAttemptPersisted
        /\ Following(VerificationAttemptPersisted) = VerificationResponsePersisted
        /\ Following(VerificationResponsePersisted) = Closed
    BY DEF Following, BoundaryResponsePersisted, SecretSinkPersisted, VerificationAttemptPersisted,
       VerificationResponsePersisted, Closed
  <2>3. CASE Sink(p) \/ SinkFails(p)
    <3>1. /\ run[p].pc = "sink" /\ (Delegated => run[p].mem.stage = BoundaryResponsePersisted)
          /\ \E status \in {run[p].mem.status, "RectificationRequired"}, pc \in {"verify", "recover", "done"} :
               Persist(p, SecretSinkPersisted, status, pc) /\ (pc = "recover" => Delegated)
      BY <2>1, <2>3 DEF Sink, SinkFails, AtPc, JournalMem, StageAt
    <3>2. ASSUME NEW doc, doc.stage = SecretSinkPersisted
          PROVE  StageAt("verify", doc) /\ StageAt("done", doc) /\ (Delegated => StageAt("recover", doc))
      BY <3>2 DEF StageAt, BoundaryAttemptPersisted, SecretSinkPersisted, VerificationResponsePersisted
    <3> QED BY <2>1, <2>2, <2>n, <2>f, <3>1, <3>2, JournalAfter DEF AfterBoundary
  <2>4. CASE BeginVerification(p)
    <3>1. /\ run[p].pc = "verify" /\ run[p].mem.stage = SecretSinkPersisted
          /\ \E status \in {run[p].mem.status, "RectificationRequired"}, pc \in {"defer", "readback"} :
               Persist(p, VerificationAttemptPersisted, status, pc)
      BY <2>1, <2>4 DEF BeginVerification, AtPc, JournalMem, StageAt
    <3>2. ASSUME NEW doc, doc.stage = VerificationAttemptPersisted
          PROVE  StageAt("defer", doc) /\ StageAt("readback", doc)
      BY <3>2 DEF StageAt
    <3> QED BY <2>1, <2>2, <2>n, <2>f, <3>1, <3>2, JournalAfter DEF AfterBoundary
  <2>5. CASE DeferVerification(p) \/ Readback(p)
    <3>1. /\ run[p].pc \in {"defer", "readback"} /\ run[p].mem.stage = VerificationAttemptPersisted
          /\ \E status \in {"Verified", "RectificationRequired"} :
               Persist(p, VerificationResponsePersisted, status, "close")
      BY <2>1, <2>5 DEF DeferVerification, Readback, AtPc, JournalMem, StageAt
    <3>2. ASSUME NEW doc, doc.stage = VerificationResponsePersisted PROVE StageAt("close", doc)
      BY <3>2 DEF StageAt
    <3> QED BY <2>1, <2>n, <2>f, <3>1, <3>2, JournalAfter DEF AfterBoundary
  <2>6. CASE Finalize(p)
    <3>1. /\ run[p].pc = "close" /\ Same(v2, run[p].mem) /\ Settled(v2)
          /\ Delegated => run[p].mem.stage = VerificationResponsePersisted
      BY <2>1, <2>6 DEF Finalize, AtPc, JournalMem, StageAt, AfterBoundary
    <3>2. CASE Persist(p, Closed, run[p].mem.status, "done")
      <4>1. ASSUME NEW doc PROVE StageAt("done", doc)
        BY DEF StageAt
      <4> QED BY <2>1, <2>2, <2>f, <3>1, <3>2, <4>1, JournalAfter
    <3>3. CASE Save(p, run[p].mem, "done")
      <4>1. StageAt("done", run[p].mem) /\ Settled(run[p].mem)
        BY <2>2 DEF StageAt, Settled
      <4>2. /\ run[p].mem.stage \in BoundaryAttemptPersisted .. VerificationResponsePersisted
            /\ v2.stage <= run[p].mem.stage
        BY <2>1, <3>1, <1>d DEF JournalMem, StageAt, Same, BoundaryAttemptPersisted, SecretSinkPersisted,
           VerificationResponsePersisted
      <4>3. v2.journal \ run[p].mem.journal \subseteq Replaceable /\ Same(run[p].mem, run[p].mem)
        BY <3>1 DEF Same
      <4> QED BY <2>1, <2>2, <3>1, <3>3, <4>1, <4>2, <4>3, JournalSaves DEF Settled
    <3> QED BY <2>6, <3>2, <3>3 DEF Finalize
  <2> QED BY <1>9, <2>3, <2>4, <2>5, <2>6
<1>10. ASSUME NEW p \in Proc, CloseRejected(p) PROVE JournalInv'
  <2>1. UNCHANGED <<v1, v2, capability>> /\ run[p].pc = "verify" /\ RejectedOutright(p)
    BY <1>10 DEF CloseRejected, AtPc, storeVars, worldVars
  <2>2. ~Delegated
    BY <2>1 DEF BackedInv, BackedRun, Answered, Judged, RejectedOutright
  <2>3. /\ Same(v2, run[p].mem) /\ Settled(v2) /\ run[p].mem.stage = SecretSinkPersisted
    BY <2>1, <1>b DEF JournalMem, StageAt, AfterBoundary
  <2>4. JournalMem(run[p])' /\ JournalSave(run[p])'
    BY <1>10, <2>1, <2>2, <2>3, CloseShape
       DEF JournalMem, JournalSave, StageAt, Same, Settled, AfterBoundary, Saves, Delegated
  <2> QED BY <1>10, <2>1, <2>4, CloseShape, JournalFrame
<1>11. ASSUME NEW p \in Proc, WriteCanonical(p) PROVE JournalInv'
  <2>1. /\ at[p] = "held" /\ run[p].pc = "save2" /\ v2' = run[p].save /\ UNCHANGED <<v1, capability>>
        /\ \A q \in Proc \ {p} : run'[q] = run[q]
        /\ run'[p].mem = run[p].mem /\ run'[p].save = run[p].save /\ run'[p].then = run[p].then
        /\ run'[p].pc = "save1" /\ run'[p].outcome = run[p].outcome /\ run'[p].recovery = run[p].recovery
    BY <1>11 DEF WriteCanonical, AtPc, TypeOK, Runs, worldVars
  <2>2. JournalSave(run[p]) /\ run[p].pc \in Saves
    BY <1>b, <2>1 DEF Saves
  <2>3. v1.stage <= run[p].save.stage /\ run[p].save.status # "Absent"
    BY <1>b, <1>d, <2>1, <2>2 DEF JournalSave
  <2>4. JournalMem(run[p])'
    BY <2>1 DEF JournalMem, StageAt, AfterBoundary
  <2>5. StageAt(run[p].then, run[p].save)'
    BY <2>1, <2>2 DEF JournalSave, StageAt, Delegated
  <2>6. (run[p].then = "sink" \/ (run[p].outcome # "none" /\ ~run[p].recovery) => SurvivableSave(run[p]))'
    BY <2>1, <2>2 DEF JournalSave, SurvivableSave, Same, OneMore, Delegated
  <2>7. JournalSave(run[p])'
    BY <2>1, <2>2, <2>3, <2>5, <2>6 DEF JournalSave, Settled
  <2> QED BY <2>1, <2>3, <2>4, <2>7, JournalHeld
<1>12. ASSUME NEW p \in Proc, WriteProjection(p) PROVE JournalInv'
  <2>1. /\ at[p] = "held" /\ run[p].pc = "save1" /\ v1' = run[p].save /\ UNCHANGED <<v2, capability>>
        /\ v2 = run[p].save /\ run[p].then \notin {"none", "act", "save2", "save1"}
    BY <1>12, <1>a DEF WriteProjection, AtPc, worldVars, SpentSave
  <2>2. (v1.stage <= v2.stage)' /\ (v2.status # "Absent")'
    BY <1>b, <1>d, <2>1
  <2>3. CASE run[p].then = "done"
    BY <1>12, <2>1, <2>2, <2>3, JournalDone DEF WriteProjection
  <2>4. CASE run[p].then # "done"
    <3>1. /\ \A q \in Proc \ {p} : run'[q] = run[q]
          /\ run'[p].mem = run[p].save /\ run'[p].pc = run[p].then
      BY <1>12, <2>4 DEF WriteProjection, TypeOK, Runs
    <3>2. JournalSave(run[p]) /\ run[p].pc \in Saves
      BY <1>b, <2>1 DEF Saves
    <3>3. StageAt(run[p].pc, run[p].mem)'
      BY <2>1, <3>1, <3>2 DEF JournalSave, StageAt, Delegated
    <3>4. Same(v2, run[p].mem)'
      BY <2>1, <3>1 DEF Same
    <3>5. JournalMem(run[p])'
      BY <2>1, <3>1, <3>2, <3>3, <3>4 DEF JournalMem, JournalSave, Settled
    <3>6. JournalSave(run[p])'
      BY <2>1, <3>1 DEF JournalSave, Saves
    <3> QED BY <2>1, <2>2, <3>1, <3>5, <3>6, JournalHeld
  <2> QED BY <2>3, <2>4
<1>13. ASSUME NEW p \in Proc, WriteFails(p) PROVE JournalInv'
  <2>1. /\ at[p] = "held" /\ capability' = capability /\ SaveFailed(p)
        /\ \/ run[p].pc = "save2" /\ v2' \in {v2, run[p].save} /\ v1' = v1
           \/ run[p].pc = "save1" /\ v1' \in {v1, run[p].save} /\ v2' = v2
    BY <1>13 DEF WriteFails, AtPc, worldVars
  <2>2. /\ JournalSave(run[p]) /\ run[p].pc \in Saves
        /\ run[p].pc = "save1" => v2 = run[p].save
    BY <1>a, <1>b, <2>1 DEF Saves, SpentSave
  <2>3. (v1.stage <= v2.stage)' /\ (v2.status # "Absent")'
    BY <1>b, <1>d, <2>1, <2>2 DEF JournalSave
  <2>4. (v2' = v2 /\ run[p].pc = "save2") \/ v2' = run[p].save
    BY <2>1, <2>2
  <2>5. CASE Done(p)
    BY <2>1, <2>3, <2>5, JournalDone
  <2>6. CASE run[p].then = "sink" /\ ~Delegated
    <3>1. /\ \A q \in Proc \ {p} : run'[q] = run[q]
          /\ run'[p].mem = [run[p].mem EXCEPT !.status = "RectificationRequired"] /\ run'[p].pc = "sink"
      BY <2>1, <2>6 DEF SaveFailed, TypeOK, Runs
    <3>2. run'[p].mem.journal = run[p].mem.journal /\ run'[p].mem.stage = run[p].mem.stage
      BY <3>1, RunFields DEF Docs
    <3>3. SurvivableSave(run[p]) /\ Settled(v2) /\ Settled(run[p].save)
      BY <2>2, <2>6 DEF JournalSave, AfterBoundary
    <3>4. run[p].mem.stage = BoundaryAttemptPersisted /\ (Same(v2, run[p].mem) \/ OneMore(v2, run[p].mem))'
      BY <2>4, <2>6, <3>2, <3>3 DEF SurvivableSave, Same, OneMore
    <3>5. Settled(v2)' /\ ~Delegated'
      BY <2>1, <2>4, <2>6, <3>3 DEF Settled, Delegated
    <3>6. JournalMem(run[p])' /\ JournalSave(run[p])'
      BY <3>1, <3>2, <3>4, <3>5 DEF JournalMem, JournalSave, StageAt, Saves
    <3> QED BY <2>1, <2>3, <3>1, <3>6, JournalHeld
  <2>7. CASE Delegated /\ HasReceipt(p) /\ ~run[p].recovery /\ BeginRecovery(p)
    <3>1. SurvivableSave(run[p]) /\ Settled(v2) /\ Settled(run[p].save)
      BY <2>2, <2>7 DEF JournalSave, HasReceipt
    <3>2. /\ run'[p].mem.journal = run[p].mem.journal /\ run'[p].mem.stage = run[p].mem.stage
          /\ run'[p].pc = "recover" /\ \A q \in Proc \ {p} : run'[q] = run[q]
      BY <2>7, BeginRecoveryShape
    <3>3. (Same(v2, run[p].mem) \/ OneMore(v2, run[p].mem))'
      BY <2>4, <2>7, <3>1, <3>2 DEF SurvivableSave, Same, OneMore
    <3>4. Settled(v2)' /\ Delegated'
      BY <2>1, <2>4, <2>7, <3>1 DEF Settled, Delegated
    <3>5. (run[p].mem.stage \in BoundaryAttemptPersisted .. VerificationResponsePersisted)'
      BY <3>1, <3>2 DEF SurvivableSave
    <3>6. JournalMem(run[p])' /\ JournalSave(run[p])'
      BY <3>2, <3>3, <3>4, <3>5 DEF JournalMem, JournalSave, StageAt, Saves
    <3> QED BY <2>1, <2>3, <3>2, <3>6, JournalHeld
  <2> QED BY <2>1, <2>5, <2>6, <2>7 DEF SaveFailed
<1>14. ASSUME NEW p \in Proc, ReceiptWithoutEvidence(p) PROVE JournalInv'
  <2>1. /\ UNCHANGED <<v1, v2, capability>> /\ BeginRecovery(p) /\ Delegated
        /\ run[p].pc \in {"respond", "readback"}
    BY <1>14 DEF ReceiptWithoutEvidence, AtPc, storeVars, worldVars
  <2>2. /\ Same(v2, run[p].mem) /\ Settled(v2)
        /\ run[p].mem.stage \in BoundaryAttemptPersisted .. VerificationResponsePersisted
    BY <1>b, <2>1 DEF JournalMem, StageAt, AfterBoundary, BoundaryAttemptPersisted,
       VerificationAttemptPersisted, VerificationResponsePersisted
  <2>3. JournalMem(run[p])' /\ JournalSave(run[p])'
    BY <2>1, <2>2, BeginRecoveryShape
       DEF JournalMem, JournalSave, StageAt, Same, Settled, AfterBoundary, Saves, Delegated
  <2> QED BY <2>1, <2>3, BeginRecoveryShape, JournalFrame
<1>15. ASSUME NEW p \in Proc, Recover(p) PROVE JournalInv'
  <2>1. UNCHANGED <<v1, v2, capability>> /\ run[p].pc = "recover"
    BY <1>15 DEF Recover, AtPc, storeVars, worldVars
  <2>2. /\ run[p].mem.stage \in BoundaryAttemptPersisted .. VerificationResponsePersisted /\ Delegated
        /\ Same(v2, run[p].mem) \/ OneMore(v2, run[p].mem)
        /\ Settled(v2)
    BY <1>b, <2>1 DEF JournalMem, StageAt, AfterBoundary
  <2>3. PICK stage \in {BoundaryResponsePersisted, VerificationResponsePersisted, Closed} :
           /\ stage = RecoveryStage(run[p].mem) /\ run'[p].save.stage = stage
           /\ run'[p].save.status = "RectificationRequired"
           /\ run'[p].save.journal = run[p].mem.journal \cup {stage}
           /\ run'[p].mem = run[p].mem /\ run'[p].outcome = run[p].outcome
           /\ run'[p].recovery = TRUE
           /\ run'[p].pc = "save2" /\ run'[p].then = "done"
           /\ \A q \in Proc \ {p} : run'[q] = run[q]
    BY <1>15, RecoverShape
  <2>4. /\ run[p].mem.stage <= stage /\ Following(run[p].mem.stage) <= stage
        /\ Following(run[p].mem.stage) \in {stage, SecretSinkPersisted, VerificationAttemptPersisted}
    BY <2>2, <2>3 DEF RecoveryStage, Following, BoundaryAttemptPersisted, BoundaryResponsePersisted,
       SecretSinkPersisted, VerificationAttemptPersisted, VerificationResponsePersisted, Closed
  <2>5. v2.stage <= stage /\ v2.journal \ run'[p].save.journal \subseteq Replaceable
    BY <2>2, <2>3, <2>4 DEF Same, OneMore, Replaceable
  <2>6. JournalMem(run[p])'
    BY <2>3 DEF JournalMem, StageAt, AfterBoundary
  <2>7. JournalSave(run[p])'
    BY <2>1, <2>2, <2>3, <2>5 DEF JournalSave, StageAt, Settled, Replaceable, Delegated
  <2> QED BY <2>1, <2>3, <2>6, <2>7, JournalFrame
<1>16. ASSUME NEW p \in Proc, ReleaseLock(p) \/ CrashProcess(p) PROVE JournalInv'
  <2>1. UNCHANGED <<v1, v2, capability>> /\ run'[p] = NoRun /\ \A q \in Proc \ {p} : run'[q] = run[q]
    BY <1>16 DEF ReleaseLock, CrashProcess, TypeOK, storeVars, worldVars
  <2>2. JournalMem(run[p])' /\ JournalSave(run[p])'
    BY <2>1 DEF JournalMem, JournalSave, StageAt, NoRun, AfterBoundary, Saves
  <2> QED BY <2>1, <2>2, JournalFrame
<1>17. CASE UNCHANGED <<v1, v2, run, capability>>
  <2>1. ASSUME NEW q \in Proc PROVE JournalMem(run[q])' /\ JournalSave(run[q])'
    BY <1>b, <1>17 DEF JournalMem, JournalSave, SurvivableSave, StageAt, Same, OneMore, Settled,
       Replaceable, Delegated
  <2> QED BY <1>b, <1>17, <2>1 DEF JournalInv
<1>18. ASSUME NEW p \in Proc, AcquireLock(p) \/ FinishDrop(p) PROVE JournalInv'
  BY <1>17, <1>18 DEF AcquireLock, FinishDrop, planVars
<1>19. CASE TimePasses \/ UNCHANGED vars
  BY <1>17, <1>19 DEF TimePasses, vars, planVars, storeVars
<1>20. ASSUME NEW p \in Proc, CommandStep(p) PROVE JournalInv'
  BY <1>20, <1>2, <1>3, <1>4, <1>5, <1>6, <1>7, <1>8, <1>9, <1>10, <1>11, <1>12, <1>15 DEF CommandStep
<1>21. ASSUME NEW p \in Proc, FaultStep(p) PROVE JournalInv'
  BY <1>21, <1>8, <1>9, <1>13, <1>14, <1>16 DEF FaultStep
<1> QED BY <1>1, <1>16, <1>18, <1>19, <1>20, <1>21 DEF Next

LEMMA JournalInvHolds == Spec => []JournalInv
<1>1. Init => JournalInv
  <2> SUFFICES ASSUME Init PROVE JournalInv
    OBVIOUS
  <2>1. v1.stage = 0 /\ v2.stage = 0 /\ v2.status = "Draft"
    <3>1. NoDoc.stage = 0 /\ DraftDoc.stage = 0 /\ DraftDoc.status = "Draft"
      BY DEF DraftDoc, NoDoc, PlanPrepared
    <3> QED BY <3>1 DEF Init
  <2>2. ASSUME NEW p \in Proc PROVE JournalMem(run[p]) /\ JournalSave(run[p])
    <3>1. run[p].pc = "none"
      BY DEF Init, NoRun
    <3> QED BY <3>1 DEF JournalMem, JournalSave, StageAt, AfterBoundary, Saves
  <2> QED BY <2>1, <2>2 DEF JournalInv
<1> QED BY <1>1, JournalStep, TypeCorrect, CrossingInvHolds, BackedInvHolds, PTL DEF Spec

\* While no live owner's lock file is removed, the compatibility projection
\* never shows a later stage than the canonical document: it is written second,
\* and a save never goes back behind the stored stage.
THEOREM ProjectionNeverAheadHolds == Spec => []ProjectionNeverAhead
<1>1. JournalInv => ProjectionNeverAhead
  BY DEF JournalInv, ProjectionNeverAhead
<1> QED BY <1>1, JournalInvHolds, PTL

\* Under the lock a save takes the stored journal forward, and replaces only a
\* checkpoint whose own save reported an error and was survived.
THEOREM JournalKeepsBoundaryHolds == Spec => JournalKeepsBoundary
<1> DEFINE Kept == ~lockStolen' =>
          /\ v2.stage <= v2'.stage
          /\ v2.journal \ v2'.journal \subseteq
                IF Delegated THEN {SecretSinkPersisted, VerificationAttemptPersisted}
                ELSE {BoundaryResponsePersisted}
<1>1. TypeOK /\ JournalInv /\ [Next]_vars => [Kept]_vars
  <2> SUFFICES ASSUME TypeOK, JournalInv, [Next]_vars, ~lockStolen' PROVE Kept
    OBVIOUS
  <2>1. ~lockStolen
    BY StolenIsForGood
  <2>2. v2.stage \in Nat
    BY StageNat DEF TypeOK, Docs
  <2>3. v2' = v2 \/ \E p \in Proc : run[p].pc = "save2" /\ v2' = run[p].save
    BY StoreStep DEF AtPc, storeVars
  <2>4. CASE v2' = v2
    BY <2>2, <2>4
  <2>5. CASE \E p \in Proc : run[p].pc = "save2" /\ v2' = run[p].save
    BY <2>1, <2>5 DEF JournalInv, JournalSave, Replaceable, Saves
  <2> QED BY <2>3, <2>4, <2>5
<1> QED BY <1>1, TypeCorrect, JournalInvHolds, PTL DEF Spec, JournalKeepsBoundary

-----------------------------------------------------------------------------
\* The refinement of the one-use transaction.

\* The document gives a verdict.
Final(doc) == doc.stage = Closed /\ doc.status \in {"Verified", "Failed"}

PlanInv == TypeOK /\ HoldsLock /\ OwnerKeepsFile /\ CrossingInv /\ BackedInv /\ JournalInv

LEMMA PlanInvHolds == Spec => []PlanInv
BY TypeCorrect, CrossingInvHolds, BackedInvHolds, JournalInvHolds, PTL DEF PlanInv

\* Once a verdict is stored and its save is over, no command goes on from it.
LEMMA FinalIsQuiet ==
  ASSUME PlanInv, ~lockStolen, Final(v2), ~Saving, NEW p \in Proc
  PROVE  /\ run[p].pc \in {"none", "act", "done"}
         /\ run[p].pc = "act" => run[p].mem = v2
<1>1. SpentMem(run[p]) /\ JournalMem(run[p]) /\ run[p].pc \in RunPc
  BY DEF PlanInv, CrossingInv, JournalInv, TypeOK, Runs
<1>2. run[p].pc \notin {"save2", "save1", "recover"}
  BY DEF Saving
<1>3. run[p].pc \notin {"attempt", "dispatch", "recheck"}
  BY <1>1 DEF SpentMem, JournalMem, Final
<1>4. run[p].pc \notin {"respond", "verify", "defer", "readback", "close", "sink"}
  BY <1>1 DEF JournalMem, StageAt, Same, OneMore, Following, Final, BoundaryAttemptPersisted,
     BoundaryResponsePersisted, SecretSinkPersisted, VerificationAttemptPersisted,
     VerificationResponsePersisted, Closed
<1> QED BY <1>1, <1>2, <1>3, <1>4 DEF RunPc, SpentMem

LEMMA FinalStaysQuiet ==
  ASSUME PlanInv, ~lockStolen, Final(v2), ~Saving, [Next]_vars
  PROVE  ~Saving'
<1>t. TypeOK
  BY DEF PlanInv
<1>0. ASSUME NEW q \in Proc PROVE run[q].pc \notin {"save2", "save1", "recover"}
  BY DEF Saving
<1>1. ASSUME NEW p \in Proc, NEW cmd \in Commands, LoadPlan(p, cmd) PROVE ~Saving'
  <2>1. run'[p].pc \in {"done", "act"} /\ \A q \in Proc \ {p} : run'[q] = run[q]
    <3>1. run'[p].pc \in {"done", "act"}
      BY <1>t, <1>1 DEF LoadPlan, TypeOK, Runs
    <3> QED BY <1>t, <1>1, <3>1, OtherRuns
  <2> QED BY <2>1, <1>0 DEF Saving
<1>2. ASSUME NEW p \in Proc, CommandStep(p) PROVE Refuse(p)
  <2>1. /\ run[p].pc \in {"none", "act", "done"}
        /\ run[p].pc = "act" => run[p].mem.status \in {"Verified", "Failed"}
    BY FinalIsQuiet DEF Final
  <2>2. ~Boundary(p)
    BY <2>1, BoundaryStep DEF AtPc
  <2>3. ~ApprovePlan(p) /\ ~CancelPlan(p) /\ ~Consume(p) /\ ~RectifyCheckpoint(p) /\ ~RectifyPlan(p)
    BY <2>1 DEF ApprovePlan, CancelPlan, Cancellable, Consume, RectifyCheckpoint, RectifyPlan,
       RectificationEligible, AtPc
  <2>4. /\ ~PersistAttempt(p) /\ ~Respond(p) /\ ~Sink(p) /\ ~Recover(p) /\ ~CloseRejected(p)
        /\ ~BeginVerification(p) /\ ~DeferVerification(p) /\ ~Readback(p) /\ ~Finalize(p)
        /\ ~WriteCanonical(p) /\ ~WriteProjection(p)
    BY <2>1 DEF PersistAttempt, Respond, Sink, Recover, CloseRejected, BeginVerification,
       DeferVerification, Readback, Finalize, WriteCanonical, WriteProjection, AtPc
  <2> QED BY <1>2, <2>2, <2>3, <2>4 DEF CommandStep
<1>3. ASSUME NEW p \in Proc, Refuse(p) PROVE ~Saving'
  <2>1. run'[p].pc = "done" /\ \A q \in Proc \ {p} : run'[q] = run[q]
    BY <1>t, <1>3, DoneShape DEF Refuse
  <2> QED BY <2>1, <1>0 DEF Saving
<1>4. ASSUME NEW p \in Proc, FaultStep(p) PROVE CrashProcess(p)
  <2>1. run[p].pc \in {"none", "act", "done"}
    BY FinalIsQuiet
  <2> QED BY <1>4, <2>1 DEF FaultStep, RespondWithoutEvidence, ReceiptWithoutEvidence, SinkFails,
         WriteFails, AtPc
<1>5. ASSUME NEW p \in Proc, ReleaseLock(p) \/ CrashProcess(p) PROVE ~Saving'
  <2>1. run'[p] = NoRun /\ \A q \in Proc \ {p} : run'[q] = run[q]
    BY <1>t, <1>5 DEF ReleaseLock, CrashProcess, TypeOK
  <2> QED BY <2>1, <1>0 DEF Saving, NoRun
<1>6. CASE run' = run
  BY <1>6 DEF Saving
<1>7. ASSUME NEW p \in Proc, AcquireLock(p) \/ FinishDrop(p) PROVE ~Saving'
  BY <1>6, <1>7 DEF AcquireLock, FinishDrop, planVars
<1>8. CASE TimePasses \/ UNCHANGED vars
  BY <1>6, <1>8 DEF TimePasses, vars, planVars
<1> QED BY <1>1, <1>2, <1>3, <1>4, <1>5, <1>7, <1>8 DEF Next

LEMMA RefinementInit == Init => Abstract!Init
<1> SUFFICES ASSUME Init PROVE Abstract!Init
  OBVIOUS
<1>1. v2.status = "Draft"
  BY DEF Init, DraftDoc, NoDoc
<1>2. Authority = "open" /\ Verdict = "none"
  BY <1>1 DEF Authority, Verdict
<1> QED BY <1>2 DEF Init, Abstract!Init

\* What a state shows of the transaction.
LEMMA AuthorityValue ==
  /\ v2.status \in {"Draft", "Approved"} => Authority = "open"
  /\ v2.status = "Cancelled" => Authority = "withdrawn"
  /\ v2.status \notin {"Draft", "Approved", "Cancelled"} => Authority = "spent"
BY DEF Authority

LEMMA VerdictValue ==
  /\ Saving \/ ~Final(v2) => Verdict = "none"
  /\ ~Saving /\ Final(v2) => Verdict = IF v2.status = "Verified" THEN "verified" ELSE "failed"
BY DEF Verdict, Final, Saving

\* A stored verdict belongs to a request that was sent, and a positive one to
\* one that took effect.
LEMMA FinalIsBacked ==
  ASSUME PlanInv, ~lockStolen
  PROVE  /\ crossings \in {0, 1} /\ applied \in BOOLEAN
         /\ Final(v2) => crossings = 1 /\ Authority = "spent" /\ (v2.status = "Verified" => applied)
<1>1. crossings \in {0, 1} /\ applied \in BOOLEAN
  BY CrossingsAssumption DEF PlanInv, CrossingInv, TypeOK
<1>2. Final(v2) => crossings = 1 /\ (v2.status = "Verified" => applied)
  BY <1>1 DEF PlanInv, BackedInv, Backed, Final
<1>3. Final(v2) => Authority = "spent"
  BY AuthorityValue DEF Final
<1> QED BY <1>1, <1>2, <1>3

LEMMA RefinementStep ==
  PlanInv /\ PlanInv' /\ ~lockStolen' /\ [Next]_vars => [Abstract!Next]_(Abstract!tvars)
<1> SUFFICES ASSUME PlanInv, PlanInv', ~lockStolen', [Next]_vars
             PROVE  [Abstract!Next]_(Abstract!tvars)
  OBVIOUS
<1>0. ~lockStolen
  BY StolenIsForGood
<1>1. ASSUME NEW p \in Proc, Boundary(p) PROVE [Abstract!Next]_(Abstract!tvars)
  <2>1. /\ v2' = v2 /\ v2.status = "Consumed" /\ v2.stage = BoundaryAttemptPersisted /\ crossings = 0
        /\ UNCHANGED <<crossings, applied>> \/ crossings' = crossings + 1
    <3>1. AtPc(p, "dispatch") /\ v2' = v2 /\ SpentMem(run[p]) /\ JournalMem(run[p])
      BY <1>0, <1>1, BoundaryStep DEF PlanInv, CrossingInv, JournalInv, storeVars
    <3>2. UNCHANGED <<crossings, applied>> \/ crossings' = crossings + 1
      BY <1>1, BoundaryStep DEF Cross
    <3> QED BY <3>1, <3>2 DEF SpentMem, JournalMem, StageAt, AtPc
  <2>2. ~Final(v2)
    BY <2>1 DEF Final
  <2>3. Verdict = "none" /\ Verdict' = "none" /\ Authority = "spent" /\ Authority' = "spent"
    BY <2>1, <2>2, AuthorityValue, VerdictValue DEF Authority, Verdict, Final
  <2>4. applied' \in BOOLEAN
    BY DEF PlanInv, TypeOK
  <2> QED BY <2>1, <2>3, <2>4 DEF Abstract!Next, Abstract!Send, Abstract!tvars
<1>2. CASE UNCHANGED <<crossings, applied>> /\ v2' = v2
  <2>1. Authority' = Authority
    BY <1>2 DEF Authority
  <2>2. CASE ~Final(v2)
    <3>1. Verdict = "none" /\ Verdict' = "none"
      BY <1>2, <2>2 DEF Verdict, Final
    <3> QED BY <1>2, <2>1, <3>1 DEF Abstract!tvars
  <2>3. CASE Final(v2) /\ Saving
    <3>1. Verdict = "none" /\ Verdict' \in {"none", "verified", "failed"}
          /\ (Verdict' = "verified" => v2.status = "Verified")
      BY <1>2, <2>3, VerdictValue DEF Verdict
    <3>2. crossings = 1 /\ Authority = "spent" /\ (v2.status = "Verified" => applied)
      BY <1>0, <2>3, FinalIsBacked
    <3> QED BY <1>2, <2>1, <3>1, <3>2 DEF Abstract!Next, Abstract!Judge, Abstract!tvars
  <2>4. CASE Final(v2) /\ ~Saving
    <3>1. ~Saving'
      BY <1>0, <2>4, FinalStaysQuiet
    <3>2. Verdict' = Verdict
      BY <1>2, <2>4, <3>1 DEF Verdict
    <3> QED BY <1>2, <2>1, <3>2 DEF Abstract!tvars
  <2> QED BY <2>2, <2>3, <2>4
<1>3. ASSUME UNCHANGED <<crossings, applied>>,
             NEW p \in Proc, run[p].pc = "save2", v2' = run[p].save
      PROVE  [Abstract!Next]_(Abstract!tvars)
  <2>1. Verdict = "none"
    BY <1>3, VerdictValue DEF Saving
  <2>2. /\ v2.status = "Cancelled" => v2'.status = "Cancelled"
        /\ Settled(v2) => Settled(v2')
        /\ v2.status # "Absent" /\ v2'.status # "Absent"
    BY <1>0, <1>3 DEF PlanInv, JournalInv, JournalSave, Saves
  <2>3. /\ Authority \in {"open", "withdrawn", "spent"} /\ Authority' \in {"open", "withdrawn", "spent"}
        /\ Authority = "withdrawn" => Authority' = "withdrawn"
        /\ Authority = "spent" => Authority' = "spent"
    BY <2>2 DEF Authority, Settled
  <2>4. CASE Verdict' = "none"
    BY <1>3, <2>1, <2>3, <2>4 DEF Abstract!Next, Abstract!Withdraw, Abstract!Spend, Abstract!tvars
  <2>5. CASE Verdict' # "none"
    <3>1. /\ Final(v2)' /\ Verdict' \in {"verified", "failed"}
          /\ Verdict' = "verified" => v2'.status = "Verified"
      BY <2>5 DEF Verdict, Final
    <3>2. (crossings = 1 /\ Authority = "spent" /\ (v2.status = "Verified" => applied))'
      <4>1. (crossings \in {0, 1} /\ Backed(v2))'
        BY CrossingsAssumption DEF PlanInv, CrossingInv, TypeOK, BackedInv
      <4> QED BY <3>1, <4>1 DEF Final, Backed, Authority
    <3>3. Authority = "spent"
      BY <1>0, <1>3, <3>2, AuthorityValue DEF PlanInv, CrossingInv, Spent
    <3> QED BY <1>3, <2>1, <3>1, <3>2, <3>3 DEF Abstract!Next, Abstract!Judge
  <2> QED BY <2>4, <2>5
<1>4. (\E p \in Proc : Boundary(p)) \/ UNCHANGED <<crossings, applied>>
  BY WorldStep DEF worldVars
<1>5. v2' = v2 \/ \E p \in Proc : run[p].pc = "save2" /\ v2' = run[p].save
  BY StoreStep DEF storeVars, AtPc
<1> QED BY <1>1, <1>2, <1>3, <1>4, <1>5

\* While no live owner's lock file is removed, a plan is a one-use transaction:
\* every step of the commands of any number of processes, crashes and failed
\* writes included, withdraws or spends the authority once, sends the one
\* request, gives the one verdict, or changes nothing of it.
THEOREM ImplementsOneUseHolds == Spec /\ []~lockStolen => ImplementsOneUse
<1>1. PlanInv /\ PlanInv' /\ ~lockStolen /\ ~lockStolen' /\ [Next]_vars
        => [Abstract!Next]_(Abstract!tvars)
  BY RefinementStep
<1> QED BY <1>1, RefinementInit, PlanInvHolds, PTL DEF Spec, ImplementsOneUse, Abstract!Spec
=============================================================================
