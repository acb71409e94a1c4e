------------------------- MODULE EvidenceKeysProofs -------------------------
(***************************************************************************)
(* Proofs about the evidence-key authority, for any number of processes,    *)
(* recovery plans, identities and interruptions.                            *)
(***************************************************************************)
EXTENDS EvidenceKeys, FiniteSetTheorems, TLAPS

-----------------------------------------------------------------------------
\* The inductive invariant.

\* Only the holder of the lifecycle lock is inside a command.
LockInv == \A p \in Procs : cmd[p].pc # "idle" => lock = p

\* A registry is one of three values without identities, or names its root and
\* its active generation; until there is a marker it is as it was created.
RegistryShape ==
  /\ registry.state # "present" => registry \in {Absent, Malformed, Deleting}
  /\ registry.state = "present" => registry.root # 0 /\ registry.active \in registry.gens
  /\ registry.state = "present" /\ marker = 0 => registry = Fresh(registry.root)

\* A recovery plan that was not made, or was revoked, has no quarantined copy.
PlanShape ==
  \A q \in Plans : /\ plans[q].state = "None" => ~plans[q].quarantined
                   /\ plans[q].state # "None" => plans[q].id # 0

\* The recovery of plan c.plan is under way and may still be finished.
Recovering(c) ==
  /\ c.plan \in Plans /\ c.id # 0 /\ plans[c.plan].id = c.id
  /\ plans[c.plan].state \in {"Prepared", "ReplacementPublished"}
  /\ marker \in {0, c.id}
  /\ artifacts = {}
  /\ registry.state # "deleting"

\* What a command has established when it is about to make its next write.
CommandInv(c) ==
  /\ c.pc = "intent" => c.id # 0 /\ marker = 0 /\ registry = Absent
  /\ c.pc = "registry" => c.id # 0 /\ marker = 0 /\ registry = Absent /\ intent = c.id
  /\ c.pc \in {"marker", "resume", "rollback"} =>
        c.id # 0 /\ marker = 0 /\ registry = Fresh(c.id) /\ intent = c.id
  /\ c.pc = "discard" => marker = 0 /\ registry.state = "present"
  /\ c.pc = "clear" => marker # 0 \/ registry = Absent
  /\ c.pc = "forget" => marker = 0 /\ registry = Absent
  /\ c.pc = "undelete" => marker = 0 /\ registry = Deleting
  /\ c.pc = "retire" => Consistent /\ c.id \in registry.gens \ {registry.active} /\ ~Used(c.id)
  /\ c.pc = "publish" => Consistent /\ c.id \in registry.gens /\ c.id # 0
  /\ c.pc \in {"quarantine", "source", "replace", "published"} => Recovering(c)
  /\ c.pc \in {"source", "replace", "published", "finalize", "complete"} => plans[c.plan].quarantined
  /\ c.pc = "replace" => marker = 0 /\ registry = Absent
  /\ c.pc = "published" => registry = Fresh(c.id)
  /\ c.pc = "finalize" => Recovering(c) /\ marker = 0 /\ registry = Fresh(c.id)
  /\ c.pc = "complete" => c.plan \in Plans /\ c.id # 0 /\ marker = c.id /\ plans[c.plan].state # "None"

KeyInv ==
  /\ LockInv /\ RegistryShape /\ PlanShape
  /\ ArtifactsVerify /\ SplitIsAttributed /\ BytesAccountedFor
  /\ \A p \in Procs : CommandInv(cmd[p])

DataInv == RegistryShape /\ PlanShape /\ ArtifactsVerify /\ SplitIsAttributed /\ BytesAccountedFor

-----------------------------------------------------------------------------
\* What the parts of an action leave in the command's record and in the lock.

Commands == [pc : Pcs, id : 0 .. MaxIds, plan : Plans \cup {"none"}]

LEMMA EnterShape ==
  ASSUME TypeOK, NEW p \in Procs, NEW pc, NEW id, NEW q, Enter(p, pc, id, q)
  PROVE  /\ lock = "free" /\ lock' = p
         /\ cmd' = [cmd EXCEPT ![p] = [pc |-> pc, id |-> id, plan |-> q]]
         /\ cmd'[p].pc = pc /\ cmd'[p].id = id /\ cmd'[p].plan = q
         /\ \A r \in Procs \ {p} : cmd'[r] = cmd[r]
BY DEF Enter, Acquire, TypeOK

LEMMA ReleaseShape ==
  ASSUME TypeOK, NEW p \in Procs, Release(p)
  PROVE  /\ lock' = "free" /\ cmd'[p] = Idle /\ cmd'[p].pc = "idle"
         /\ \A r \in Procs \ {p} : cmd'[r] = cmd[r]
BY DEF Release, TypeOK, Idle

LEMMA GotoShape ==
  ASSUME TypeOK, NEW p \in Procs, NEW pc, Goto(p, pc)
  PROVE  /\ lock' = lock
         /\ cmd'[p].pc = pc /\ cmd'[p].id = cmd[p].id /\ cmd'[p].plan = cmd[p].plan
         /\ \A r \in Procs \ {p} : cmd'[r] = cmd[r]
BY DEF Goto, TypeOK

\* A write either lets the command go on or ends it.
LEMMA ContinueShape ==
  ASSUME TypeOK, NEW p \in Procs, NEW pc, Continue(p, pc)
  PROVE  /\ \A r \in Procs \ {p} : cmd'[r] = cmd[r]
         /\ \/ /\ lock' = lock
               /\ cmd'[p].pc = pc /\ cmd'[p].id = cmd[p].id /\ cmd'[p].plan = cmd[p].plan
            \/ lock' = "free" /\ cmd'[p].pc = "idle"
BY GotoShape, ReleaseShape DEF Continue, Stopped

LEMMA IdleType == Idle \in Commands
BY EvidenceKeysAssumption DEF Idle, Commands, Pcs

LEMMA CommandType ==
  ASSUME TypeOK, NEW p \in Procs,
         \/ Release(p)
         \/ \E pc \in Pcs : Goto(p, pc) \/ Continue(p, pc)
         \/ \E pc \in Pcs, id \in 0 .. MaxIds, q \in Plans \cup {"none"} : Enter(p, pc, id, q)
  PROVE  cmd' \in [Procs -> Commands] /\ lock' \in Procs \cup {"free"}
<1>1. CASE Release(p)
  BY <1>1, IdleType DEF Release, TypeOK, Commands
<1>2. ASSUME NEW pc \in Pcs, Goto(p, pc) PROVE cmd' \in [Procs -> Commands] /\ lock' \in Procs \cup {"free"}
  BY <1>2 DEF Goto, TypeOK, Commands
<1>3. ASSUME NEW pc \in Pcs, NEW id \in 0 .. MaxIds, NEW q \in Plans \cup {"none"}, Enter(p, pc, id, q)
      PROVE  cmd' \in [Procs -> Commands] /\ lock' \in Procs \cup {"free"}
  BY <1>3 DEF Enter, TypeOK, Commands
<1> QED BY <1>1, <1>2, <1>3 DEF Continue, Stopped

LEMMA RegistryTypes ==
  /\ Absent \in Registries /\ Malformed \in Registries /\ Deleting \in Registries
  /\ \A id \in 0 .. MaxIds : id # 0 => Fresh(id) \in Registries
  /\ NoPlan \in RecoveryIntents
BY EvidenceKeysAssumption DEF Absent, Malformed, Deleting, Fresh, Registries, Ids, NoPlan, RecoveryIntents

LEMMA PcTypes ==
  {"idle", "intent", "registry", "marker", "resume", "clear", "rollback",
   "discard", "forget", "undelete", "retire", "publish",
   "quarantine", "source", "replace", "published", "finalize", "complete"} \subseteq Pcs
BY DEF Pcs

\* The writes of a recovery plan: one field of one plan.
LEMMA PlanState ==
  ASSUME TypeOK, NEW q \in Plans, NEW state \in {"ReplacementPublished", "Completed", "Revoked"},
         plans' = [plans EXCEPT ![q].state = state]
  PROVE  /\ plans' \in [Plans -> RecoveryIntents]
         /\ plans'[q].state = state /\ plans'[q].id = plans[q].id
         /\ plans'[q].quarantined = plans[q].quarantined /\ plans'[q].expired = plans[q].expired
         /\ \A r \in Plans \ {q} : plans'[r] = plans[r]
<1>1. plans[q] \in RecoveryIntents
  BY DEF TypeOK
<1>2. plans' = [plans EXCEPT ![q] = [plans[q] EXCEPT !.state = state]]
  OBVIOUS
<1>3. [plans[q] EXCEPT !.state = state] \in RecoveryIntents
  BY <1>1 DEF RecoveryIntents
<1>4. plans'[q] = [plans[q] EXCEPT !.state = state] /\ \A r \in Plans \ {q} : plans'[r] = plans[r]
  BY <1>2 DEF TypeOK
<1> QED BY <1>1, <1>2, <1>3, <1>4 DEF TypeOK, RecoveryIntents

LEMMA PlanQuarantined ==
  ASSUME TypeOK, NEW q \in Plans, plans' = [plans EXCEPT ![q].quarantined = TRUE]
  PROVE  /\ plans' \in [Plans -> RecoveryIntents]
         /\ plans'[q].state = plans[q].state /\ plans'[q].id = plans[q].id
         /\ plans'[q].quarantined /\ plans'[q].expired = plans[q].expired
         /\ \A r \in Plans \ {q} : plans'[r] = plans[r]
<1>1. plans[q] \in RecoveryIntents
  BY DEF TypeOK
<1>2. plans' = [plans EXCEPT ![q] = [plans[q] EXCEPT !.quarantined = TRUE]]
  OBVIOUS
<1>3. [plans[q] EXCEPT !.quarantined = TRUE] \in RecoveryIntents
  BY <1>1 DEF RecoveryIntents
<1>4. plans'[q] = [plans[q] EXCEPT !.quarantined = TRUE] /\ \A r \in Plans \ {q} : plans'[r] = plans[r]
  BY <1>2 DEF TypeOK
<1> QED BY <1>1, <1>2, <1>3, <1>4 DEF TypeOK, RecoveryIntents

LEMMA PlanExpired ==
  ASSUME TypeOK, NEW q \in Plans, plans' = [plans EXCEPT ![q].expired = TRUE]
  PROVE  /\ plans' \in [Plans -> RecoveryIntents]
         /\ plans'[q].state = plans[q].state /\ plans'[q].id = plans[q].id
         /\ plans'[q].quarantined = plans[q].quarantined
         /\ \A r \in Plans \ {q} : plans'[r] = plans[r]
<1>1. plans[q] \in RecoveryIntents
  BY DEF TypeOK
<1>2. plans' = [plans EXCEPT ![q] = [plans[q] EXCEPT !.expired = TRUE]]
  OBVIOUS
<1>3. [plans[q] EXCEPT !.expired = TRUE] \in RecoveryIntents
  BY <1>1 DEF RecoveryIntents
<1>4. plans'[q] = [plans[q] EXCEPT !.expired = TRUE] /\ \A r \in Plans \ {q} : plans'[r] = plans[r]
  BY <1>2 DEF TypeOK
<1> QED BY <1>1, <1>2, <1>3, <1>4 DEF TypeOK, RecoveryIntents

LEMMA NewPlan ==
  ASSUME TypeOK, NEW q \in Plans, NEW id \in Ids,
         plans' = [plans EXCEPT ![q] = [NoPlan EXCEPT !.state = "Prepared", !.id = id]]
  PROVE  /\ plans' \in [Plans -> RecoveryIntents]
         /\ plans'[q].state = "Prepared" /\ plans'[q].id = id /\ ~plans'[q].quarantined
         /\ \A r \in Plans \ {q} : plans'[r] = plans[r]
<1> DEFINE new == [NoPlan EXCEPT !.state = "Prepared", !.id = id]
<1>0. id \in 0 .. MaxIds
  BY EvidenceKeysAssumption DEF Ids
<1>1. new \in RecoveryIntents
  BY <1>0, RegistryTypes DEF RecoveryIntents
<1>2. new.state = "Prepared" /\ new.id = id /\ new.quarantined = FALSE
  BY DEF NoPlan
<1> HIDE DEF new
<1>3. plans' = [plans EXCEPT ![q] = new]
  BY DEF new
<1> QED BY <1>1, <1>2, <1>3 DEF TypeOK

LEMMA FaultType ==
  ASSUME TypeOK, NEW p \in Procs,
         UNCHANGED faults \/ Finish(p) \/ Stopped(p) \/ (\E pc : Continue(p, pc))
         \/ (faults < MaxFaults /\ faults' = faults + 1)
  PROVE  faults' \in 0 .. MaxFaults
BY EvidenceKeysAssumption DEF TypeOK, Finish, Stopped, Continue

LEMMA DrawType ==
  ASSUME TypeOK, Draw
  PROVE  drawn' \in 0 .. MaxIds /\ drawn + 1 \in Ids /\ drawn + 1 \in 0 .. MaxIds
BY EvidenceKeysAssumption DEF TypeOK, Draw, Ids

LEMMA TypeFields ==
  ASSUME TypeOK, NEW p \in Procs
  PROVE  /\ cmd[p].pc \in Pcs /\ cmd[p].id \in 0 .. MaxIds /\ cmd[p].plan \in Plans \cup {"none"}
         /\ registry.gens \subseteq Ids /\ registry.root \in 0 .. MaxIds /\ registry.active \in 0 .. MaxIds
         /\ Ids \subseteq 0 .. MaxIds
BY DEF TypeOK, Registries, Ids

LEMMA TypeStep == TypeOK /\ KeyInv /\ [Next]_vars => TypeOK'
<1> SUFFICES ASSUME TypeOK, KeyInv, [Next]_vars PROVE TypeOK'
  OBVIOUS
<1>0. cmd \in [Procs -> Commands] /\ \A p \in Procs : CommandInv(cmd[p])
  BY DEF TypeOK, Commands, KeyInv
<1> USE PcTypes
\* Commands that only take the lock, or stop.
<1>1. ASSUME NEW p \in Procs,
             \/ Stop(p) \/ InitializeFresh(p) \/ InitializeResume(p) \/ ResetDiscard(p)
             \/ RetireScan(p) \/ Authenticate(p) \/ MarkerFails(p) \/ \E q \in Plans : Recover(p, q)
      PROVE  TypeOK'
  <2>1. UNCHANGED <<data, origin>>
    BY <1>1 DEF Stop, InitializeFresh, InitializeResume, ResetDiscard, RetireScan, Authenticate,
       MarkerFails, Recover
  <2>2. drawn' \in 0 .. MaxIds /\ faults' \in 0 .. MaxFaults
    BY <1>1, DrawType, FaultType DEF Stop, InitializeFresh, InitializeResume, ResetDiscard, RetireScan,
       Authenticate, MarkerFails, Recover, TypeOK
  <2>3. cmd' \in [Procs -> Commands] /\ lock' \in Procs \cup {"free"}
    <3>1. CASE Stop(p) \/ MarkerFails(p)
      BY <3>1, CommandType DEF Stop, Stopped, MarkerFails
    <3>2. CASE InitializeFresh(p)
      BY <3>2, CommandType, DrawType DEF InitializeFresh
    <3>3. CASE InitializeResume(p) \/ ResetDiscard(p)
      <4>1. 0 \in 0 .. MaxIds /\ intent \in 0 .. MaxIds
        BY EvidenceKeysAssumption DEF TypeOK
      <4> QED BY <3>3, <4>1, CommandType DEF InitializeResume, ResetDiscard
    <3>4. CASE RetireScan(p) \/ Authenticate(p)
      BY <3>4, TypeFields, CommandType DEF RetireScan, Authenticate
    <3>5. ASSUME NEW q \in Plans, Recover(p, q)
          PROVE  cmd' \in [Procs -> Commands] /\ lock' \in Procs \cup {"free"}
      <4>1. plans[q].id \in 0 .. MaxIds
        BY DEF TypeOK, RecoveryIntents
      <4> QED BY <3>5, <4>1, CommandType DEF Recover
    <3> QED BY <1>1, <3>1, <3>2, <3>3, <3>4, <3>5
  <2> QED BY <2>1, <2>2, <2>3 DEF TypeOK, Commands, data
\* Writes of a command that go on to the next one.
<1>2. ASSUME NEW p \in Procs,
             \/ PublishIntent(p) \/ InitializeRegistry(p) \/ WriteMarker(p) \/ ClearIntent(p)
             \/ PutReplacement(p) \/ FinalizeMarker(p) \/ RollbackInitialize(p) \/ RemoveSource(p)
      PROVE  TypeOK'
  <2>1. UNCHANGED <<plans, artifacts, drawn, origin>>
    BY <1>2 DEF PublishIntent, InitializeRegistry, WriteMarker, ClearIntent, PutReplacement, FinalizeMarker,
       RollbackInitialize, RemoveSource
  <2>2. faults' \in 0 .. MaxFaults
    BY <1>2, FaultType DEF PublishIntent, InitializeRegistry, WriteMarker, ClearIntent, PutReplacement,
       FinalizeMarker, RollbackInitialize, RemoveSource
  <2>3. cmd' \in [Procs -> Commands] /\ lock' \in Procs \cup {"free"}
    BY <1>2, CommandType DEF PublishIntent, InitializeRegistry, WriteMarker, ClearIntent, PutReplacement,
       FinalizeMarker, RollbackInitialize, RemoveSource, Finish, Stopped
  <2>4. registry' \in Registries
    BY <1>2, <1>0, RegistryTypes, TypeFields DEF PublishIntent, InitializeRegistry, WriteMarker, ClearIntent,
       PutReplacement, FinalizeMarker, RollbackInitialize, RemoveSource, CommandInv, Recovering, At, TypeOK
  <2>5. marker' \in 0 .. MaxIds /\ intent' \in 0 .. MaxIds
    BY <1>2, TypeFields, EvidenceKeysAssumption DEF PublishIntent, InitializeRegistry, WriteMarker, ClearIntent,
       PutReplacement, FinalizeMarker, RollbackInitialize, RemoveSource, TypeOK
  <2> QED BY <2>1, <2>2, <2>3, <2>4, <2>5 DEF TypeOK, Commands
<1>3. ASSUME NEW p \in Procs, CompleteInterruptedDeletion(p) \/ ForgetIntent(p) PROVE TypeOK'
  <2>1. UNCHANGED <<marker, plans, artifacts, origin>> /\ registry' \in Registries /\ intent' \in 0 .. MaxIds
    BY <1>3, RegistryTypes, EvidenceKeysAssumption DEF CompleteInterruptedDeletion, ForgetIntent, TypeOK
  <2>2. drawn' \in 0 .. MaxIds /\ faults' \in 0 .. MaxFaults
    BY <1>3, DrawType, FaultType DEF CompleteInterruptedDeletion, ForgetIntent, TypeOK
  <2>3. cmd' \in [Procs -> Commands] /\ lock' \in Procs \cup {"free"}
    <3>1. CASE Stopped(p)
      BY <3>1, CommandType DEF Stopped
    <3>2. CASE Draw /\ UNCHANGED lock /\ cmd' = [cmd EXCEPT ![p].pc = "intent", ![p].id = drawn + 1]
      BY <3>2, <1>0, DrawType DEF Commands, TypeOK
    <3> QED BY <1>3, <3>1, <3>2 DEF CompleteInterruptedDeletion, ForgetIntent
  <2> QED BY <2>1, <2>2, <2>3 DEF TypeOK, Commands
<1>4. ASSUME NEW p \in Procs, Rotate(p) PROVE TypeOK'
  <2>1. UNCHANGED <<marker, intent, plans, artifacts, lock, cmd, origin, faults>> /\ drawn' \in 0 .. MaxIds
    BY <1>4, DrawType DEF Rotate
  <2>2. registry' \in Registries
    BY <1>4, DrawType DEF Rotate, TypeOK, Registries
  <2> QED BY <2>1, <2>2 DEF TypeOK
<1>5. ASSUME NEW p \in Procs, RetireCommit(p) \/ PublishArtifact(p) PROVE TypeOK'
  <2>1. UNCHANGED <<marker, intent, plans, drawn, origin>> /\ Release(p) /\ UNCHANGED faults
    BY <1>5 DEF RetireCommit, PublishArtifact, Finish
  <2>2. registry' \in Registries
    BY <1>5 DEF RetireCommit, PublishArtifact, TypeOK, Registries
  <2>3. artifacts' \subseteq [root : Ids, gen : Ids]
    <3>1. CASE PublishArtifact(p)
      <4>1. marker # 0 /\ cmd[p].id # 0
        BY <3>1, <1>0 DEF PublishArtifact, At, CommandInv, Consistent
      <4>2. marker \in Ids /\ cmd[p].id \in Ids
        BY <4>1, TypeFields, EvidenceKeysAssumption DEF TypeOK, Ids
      <4> QED BY <3>1, <4>2 DEF PublishArtifact, TypeOK
    <3>2. CASE RetireCommit(p)
      BY <3>2 DEF RetireCommit, TypeOK
    <3> QED BY <1>5, <3>1, <3>2
  <2> QED BY <2>1, <2>2, <2>3, CommandType DEF TypeOK, Commands
<1>6. ASSUME NEW p \in Procs, NEW q \in Plans, CreateRecoveryPlan(p, q) \/ RevokeRecoveryPlan(p, q)
      PROVE  TypeOK'
  <2>1. UNCHANGED <<registry, marker, intent, artifacts, lock, cmd, origin, faults>> /\ drawn' \in 0 .. MaxIds
    BY <1>6, DrawType DEF CreateRecoveryPlan, RevokeRecoveryPlan, TypeOK
  <2>2. plans' \in [Plans -> RecoveryIntents]
    BY <1>6, DrawType, PlanState, NewPlan DEF CreateRecoveryPlan, RevokeRecoveryPlan
  <2> QED BY <2>1, <2>2 DEF TypeOK
<1>7. ASSUME NEW p \in Procs, Quarantine(p) \/ MarkPublished(p) \/ CompleteRecoveryPlan(p) PROVE TypeOK'
  <2>1. UNCHANGED <<registry, marker, intent, artifacts, drawn, origin>>
    BY <1>7 DEF Quarantine, MarkPublished, CompleteRecoveryPlan
  <2>2. faults' \in 0 .. MaxFaults
    BY <1>7, FaultType DEF Quarantine, MarkPublished, CompleteRecoveryPlan
  <2>3. cmd' \in [Procs -> Commands] /\ lock' \in Procs \cup {"free"}
    BY <1>7, CommandType DEF Quarantine, MarkPublished, CompleteRecoveryPlan, Finish
  <2>4. cmd[p].plan \in Plans
    BY <1>7, <1>0 DEF Quarantine, MarkPublished, CompleteRecoveryPlan, At, CommandInv, Recovering
  <2>5. plans' \in [Plans -> RecoveryIntents]
    <3>1. \/ plans' = [plans EXCEPT ![cmd[p].plan].quarantined = TRUE]
          \/ plans' = [plans EXCEPT ![cmd[p].plan].state = "ReplacementPublished"]
          \/ plans' = [plans EXCEPT ![cmd[p].plan].state = "Completed"]
      BY <1>7 DEF Quarantine, MarkPublished, CompleteRecoveryPlan
    <3> QED BY <3>1, <2>4, PlanState, PlanQuarantined
  <2> QED BY <2>1, <2>2, <2>3, <2>5 DEF TypeOK, Commands
<1>8. ASSUME NEW q \in Plans, Expire(q) PROVE TypeOK'
  <2>1. plans' \in [Plans -> RecoveryIntents]
    BY <1>8 DEF Expire, TypeOK, RecoveryIntents
  <2> QED BY <1>8, <2>1 DEF Expire, TypeOK
<1>9. CASE UNCHANGED vars
  BY <1>9 DEF vars, data, TypeOK
<1> QED BY <1>1, <1>2, <1>3, <1>4, <1>5, <1>6, <1>7, <1>8, <1>9 DEF Next, Step

-----------------------------------------------------------------------------
\* The data: registry, marker, intent, plans and artifacts.

LEMMA DataFrame ==
  ASSUME DataInv, UNCHANGED <<data, origin>>
  PROVE  DataInv'
BY DEF DataInv, data, RegistryShape, PlanShape, ArtifactsVerify, SplitIsAttributed, BytesAccountedFor, Published,
   Consistent, Initialized, CanRecover, Fresh

LEMMA FreshFields ==
  \A id : /\ Fresh(id).state = "present" /\ Fresh(id).root = id
          /\ Fresh(id).gens = {id} /\ Fresh(id).active = id
BY DEF Fresh

LEMMA EmptyFields ==
  /\ Absent.state = "absent" /\ Malformed.state = "malformed" /\ Deleting.state = "deleting"
  /\ Absent # Malformed /\ Absent # Deleting
BY DEF Absent, Malformed, Deleting

\* Without a marker nothing was authenticated.
LEMMA NoMarkerNoArtifacts ==
  ASSUME TypeOK, ArtifactsVerify, marker = 0
  PROVE  artifacts = {}
<1> SUFFICES ASSUME NEW a \in artifacts PROVE FALSE
  OBVIOUS
<1>1. a.root = 0 /\ a.root \in Ids
  BY DEF ArtifactsVerify, TypeOK
<1> QED BY <1>1, EvidenceKeysAssumption DEF Ids

\* While the registry is empty, or there is a marker, no authority is split.
LEMMA NotSplit ==
  ASSUME registry.state # "present" \/ marker # 0
  PROVE  SplitIsAttributed
BY DEF SplitIsAttributed, Initialized

LEMMA DataStep ==
  ASSUME TypeOK, KeyInv, [Next]_vars
  PROVE  DataInv'
<1>0. DataInv /\ \A p \in Procs : CommandInv(cmd[p])
  BY DEF KeyInv, DataInv
<1> USE FreshFields, EmptyFields
<1>1. ASSUME NEW p \in Procs,
             \/ Stop(p) \/ InitializeFresh(p) \/ InitializeResume(p) \/ ResetDiscard(p)
             \/ RetireScan(p) \/ Authenticate(p) \/ MarkerFails(p) \/ \E q \in Plans : Recover(p, q)
      PROVE  DataInv'
  BY <1>0, <1>1, DataFrame DEF Stop, InitializeFresh, InitializeResume, ResetDiscard, RetireScan, Authenticate,
     MarkerFails, Recover
\* The intent alone.
<1>2. ASSUME NEW p \in Procs, PublishIntent(p) \/ ClearIntent(p) \/ ForgetIntent(p) PROVE DataInv'
  <2>1. UNCHANGED <<registry, marker, plans, artifacts, origin>>
    BY <1>2 DEF PublishIntent, ClearIntent, ForgetIntent
  <2>2. registry.state # "present" \/ marker # 0
    BY <1>0, <1>2 DEF PublishIntent, ClearIntent, ForgetIntent, At, CommandInv
  <2>3. SplitIsAttributed'
    BY <2>1, <2>2 DEF SplitIsAttributed, Initialized
  <2> QED BY <1>0, <2>1, <2>3 DEF DataInv, RegistryShape, PlanShape, ArtifactsVerify, BytesAccountedFor, Published,
     Consistent, Initialized, Fresh
\* A registry is created.
<1>3. ASSUME NEW p \in Procs, InitializeRegistry(p) \/ PutReplacement(p) PROVE DataInv'
  <2>1. /\ registry' = Fresh(cmd[p].id) /\ UNCHANGED <<marker, intent, plans, artifacts, origin>>
        /\ cmd[p].id # 0 /\ marker = 0 /\ registry = Absent /\ artifacts = {}
    BY <1>0, <1>3, NoMarkerNoArtifacts DEF InitializeRegistry, PutReplacement, At, CommandInv, Recovering, DataInv
  <2>2. RegistryShape' /\ PlanShape' /\ ArtifactsVerify' /\ BytesAccountedFor'
    BY <1>0, <2>1 DEF DataInv, RegistryShape, PlanShape, ArtifactsVerify, BytesAccountedFor, Published
  <2>3. SplitIsAttributed'
    <3>1. CASE InitializeRegistry(p)
      <4>1. intent = cmd[p].id
        BY <1>0, <3>1 DEF InitializeRegistry, At, CommandInv
      <4> QED BY <2>1, <4>1 DEF SplitIsAttributed
    <3>2. CASE PutReplacement(p)
      <4>1. Recovering(cmd[p]) /\ plans[cmd[p].plan].quarantined
        BY <1>0, <3>2 DEF PutReplacement, At, CommandInv
      <4>2. PICK q \in Plans : q = cmd[p].plan
        BY <4>1 DEF Recovering
      <4>3. plans'[q].id = registry'.root /\ CanRecover(q)'
        BY <2>1, <4>1, <4>2 DEF CanRecover, Recovering
      <4> QED BY <4>3 DEF SplitIsAttributed
    <3> QED BY <1>3, <3>1, <3>2
  <2> QED BY <2>2, <2>3 DEF DataInv
\* The marker is written for the registry just created.
<1>4. ASSUME NEW p \in Procs, WriteMarker(p) \/ FinalizeMarker(p) PROVE DataInv'
  <2>1. /\ marker' = cmd[p].id /\ UNCHANGED <<registry, intent, plans, artifacts, origin>>
        /\ cmd[p].id # 0 /\ marker = 0 /\ registry = Fresh(cmd[p].id)
    BY <1>0, <1>4 DEF WriteMarker, FinalizeMarker, At, CommandInv, Recovering
  <2>2. artifacts = {}
    BY <1>0, <2>1, NoMarkerNoArtifacts DEF DataInv
  <2> QED BY <1>0, <2>1, <2>2 DEF DataInv, RegistryShape, PlanShape, ArtifactsVerify, SplitIsAttributed,
     BytesAccountedFor, Published, Consistent, Initialized
\* A registry without a marker is removed, wholly or in part.
<1>5. ASSUME NEW p \in Procs,
             RollbackInitialize(p) \/ CompleteInterruptedDeletion(p) \/ (RemoveSource(p) /\ registry' = Absent)
      PROVE  DataInv'
  <2>1. /\ registry' \in {Absent, Deleting} /\ UNCHANGED <<marker, plans, artifacts, origin>>
        /\ marker = 0
        /\ registry.state # "malformed" \/ \E q \in Plans : plans[q].quarantined
    <3>1. CASE RollbackInitialize(p)
      BY <1>0, <3>1 DEF RollbackInitialize, At, CommandInv
    <3>2. CASE CompleteInterruptedDeletion(p)
      BY <1>0, <3>2 DEF CompleteInterruptedDeletion, At, CommandInv
    <3>3. CASE RemoveSource(p) /\ registry' = Absent
      <4>1. Recovering(cmd[p]) /\ plans[cmd[p].plan].quarantined
        BY <1>0, <3>3 DEF RemoveSource, At, CommandInv
      <4>2. registry.state # "present"
        BY <3>3 DEF RemoveSource
      <4>3. marker = 0
        BY <1>0, <4>2 DEF DataInv, ArtifactsVerify, Consistent, Initialized
      <4> QED BY <3>3, <4>1, <4>3 DEF RemoveSource, Recovering
    <3> QED BY <1>5, <3>1, <3>2, <3>3
  <2>2. artifacts = {}
    BY <1>0, <2>1, NoMarkerNoArtifacts DEF DataInv
  <2> QED BY <1>0, <2>1, <2>2 DEF DataInv, RegistryShape, PlanShape, ArtifactsVerify, SplitIsAttributed,
     BytesAccountedFor, Published, Initialized
<1>6. ASSUME NEW p \in Procs, RemoveSource(p), registry' # Absent PROVE DataInv'
  BY <1>0, <1>6, DataFrame DEF RemoveSource, data
\* Rotation, retirement and evidence, under the marker.
<1>7. ASSUME NEW p \in Procs, Rotate(p) PROVE DataInv'
  <2>1. /\ registry'.state = "present" /\ registry'.root = registry.root
        /\ registry'.gens = registry.gens \cup {drawn + 1} /\ registry'.active = drawn + 1
        /\ UNCHANGED <<marker, intent, plans, artifacts, origin>>
        /\ marker # 0 /\ registry.root = marker
    BY <1>7 DEF Rotate, Consistent, Initialized, TypeOK, Registries
  <2> QED BY <1>0, <1>7, <2>1 DEF DataInv, RegistryShape, PlanShape, ArtifactsVerify, SplitIsAttributed,
     BytesAccountedFor, Published, Consistent, Initialized, Rotate
<1>8. ASSUME NEW p \in Procs, RetireCommit(p) PROVE DataInv'
  <2>1. Consistent /\ cmd[p].id \in registry.gens \ {registry.active} /\ ~Used(cmd[p].id)
    BY <1>0, <1>8 DEF RetireCommit, At, CommandInv
  <2>2. /\ registry'.state = "present" /\ registry'.root = registry.root
        /\ registry'.gens = registry.gens \ {cmd[p].id} /\ registry'.active = registry.active
        /\ UNCHANGED <<marker, intent, plans, artifacts, origin>>
    BY <1>8, <2>1 DEF RetireCommit, Consistent, Initialized, TypeOK, Registries
  <2> QED BY <1>0, <2>1, <2>2 DEF DataInv, RegistryShape, PlanShape, ArtifactsVerify, SplitIsAttributed,
     BytesAccountedFor, Published, Consistent, Initialized, Used
<1>9. ASSUME NEW p \in Procs, PublishArtifact(p) PROVE DataInv'
  <2>1. Consistent /\ cmd[p].id \in registry.gens
    BY <1>0, <1>9 DEF PublishArtifact, At, CommandInv
  <2>2. /\ artifacts' = artifacts \cup {[root |-> marker, gen |-> cmd[p].id]}
        /\ UNCHANGED <<registry, marker, intent, plans, origin>>
    BY <1>9 DEF PublishArtifact
  <2> QED BY <1>0, <2>1, <2>2 DEF DataInv, RegistryShape, PlanShape, ArtifactsVerify, SplitIsAttributed,
     BytesAccountedFor, Published, Consistent, Initialized
\* The recovery plans.
<1>10. ASSUME NEW p \in Procs, NEW q \in Plans, CreateRecoveryPlan(p, q) PROVE DataInv'
  <2>1. /\ UNCHANGED <<registry, marker, intent, artifacts, origin>> /\ registry.state = "malformed"
        /\ drawn + 1 \in Ids
        /\ plans' = [plans EXCEPT ![q] = [NoPlan EXCEPT !.state = "Prepared", !.id = drawn + 1]]
    BY <1>10, DrawType DEF CreateRecoveryPlan, CanPlan
  <2>2. drawn + 1 # 0
    BY EvidenceKeysAssumption DEF TypeOK
  <2>3. PlanShape'
    BY <1>0, <2>1, <2>2, NewPlan DEF DataInv, PlanShape
  <2> QED BY <1>0, <2>1, <2>3 DEF DataInv, RegistryShape, ArtifactsVerify, SplitIsAttributed,
     BytesAccountedFor, Published, Consistent, Initialized
<1>11. ASSUME NEW p \in Procs, NEW q \in Plans, RevokeRecoveryPlan(p, q) PROVE DataInv'
  <2>1. /\ UNCHANGED <<registry, marker, intent, artifacts, origin>> /\ plans[q].state = "Prepared"
        /\ ~plans[q].quarantined /\ plans' = [plans EXCEPT ![q].state = "Revoked"]
    BY <1>11 DEF RevokeRecoveryPlan
  <2>2. /\ plans'[q].state = "Revoked" /\ plans'[q].id = plans[q].id
        /\ plans'[q].quarantined = plans[q].quarantined
        /\ \A r \in Plans \ {q} : plans'[r] = plans[r]
    BY <2>1, PlanState
  <2>3. PlanShape' /\ BytesAccountedFor'
    BY <1>0, <2>1, <2>2 DEF DataInv, PlanShape, BytesAccountedFor, Published
  <2>4. SplitIsAttributed'
    BY <1>0, <2>1, <2>2 DEF DataInv, SplitIsAttributed, Initialized, CanRecover
  <2> QED BY <1>0, <2>1, <2>3, <2>4 DEF DataInv, RegistryShape, ArtifactsVerify, Consistent, Initialized
<1>12. ASSUME NEW q \in Plans, Expire(q) PROVE DataInv'
  <2>1. /\ UNCHANGED <<registry, marker, intent, artifacts, origin>>
        /\ plans' = [plans EXCEPT ![q].expired = TRUE]
    BY <1>12 DEF Expire
  <2>2. /\ plans'[q].state = plans[q].state /\ plans'[q].id = plans[q].id
        /\ plans'[q].quarantined = plans[q].quarantined
        /\ \A r \in Plans \ {q} : plans'[r] = plans[r]
    BY <2>1, PlanExpired
  <2>3. PlanShape' /\ BytesAccountedFor'
    BY <1>0, <2>1, <2>2 DEF DataInv, PlanShape, BytesAccountedFor, Published
  <2>4. SplitIsAttributed'
    BY <1>0, <2>1, <2>2 DEF DataInv, SplitIsAttributed, Initialized, CanRecover
  <2> QED BY <1>0, <2>1, <2>3, <2>4 DEF DataInv, RegistryShape, ArtifactsVerify, Consistent, Initialized
<1>13. ASSUME NEW p \in Procs, Quarantine(p) \/ MarkPublished(p) PROVE DataInv'
  <2> DEFINE q == cmd[p].plan
  <2>1. /\ UNCHANGED <<registry, marker, intent, artifacts, origin>> /\ Recovering(cmd[p])
        /\ \/ plans' = [plans EXCEPT ![q].quarantined = TRUE]
           \/ /\ plans' = [plans EXCEPT ![q].state = "ReplacementPublished"]
              /\ plans[q].quarantined /\ registry.state = "present"
    BY <1>0, <1>13 DEF Quarantine, MarkPublished, At, CommandInv
  <2>2. /\ q \in Plans /\ plans'[q].state \in {"Prepared", "ReplacementPublished"} /\ plans'[q].id = plans[q].id
        /\ plans'[q].quarantined
        /\ plans'[q].state = plans[q].state \/ registry.state = "present"
        /\ plans[q].quarantined => plans'[q].quarantined
        /\ \A r \in Plans \ {q} : plans'[r] = plans[r]
        /\ plans[q].state \in {"Prepared", "ReplacementPublished"}
    BY <2>1, PlanState, PlanQuarantined DEF Recovering
  <2> HIDE DEF q
  <2>3. PlanShape' /\ BytesAccountedFor'
    BY <1>0, <2>1, <2>2 DEF DataInv, PlanShape, BytesAccountedFor, Published
  <2>4. SplitIsAttributed'
    BY <1>0, <2>1, <2>2 DEF DataInv, SplitIsAttributed, Initialized, CanRecover
  <2> QED BY <1>0, <2>1, <2>3, <2>4 DEF DataInv, RegistryShape, ArtifactsVerify, Consistent, Initialized
<1>14. ASSUME NEW p \in Procs, CompleteRecoveryPlan(p) PROVE DataInv'
  <2> DEFINE q == cmd[p].plan
  <2>1. /\ UNCHANGED <<registry, marker, intent, artifacts, origin>> /\ marker # 0 /\ q \in Plans
        /\ plans[q].state # "None" /\ plans' = [plans EXCEPT ![q].state = "Completed"]
        /\ plans[q].quarantined /\ registry.state # "malformed"
    BY <1>0, <1>14 DEF CompleteRecoveryPlan, At, CommandInv, DataInv, ArtifactsVerify, Consistent, Initialized
  <2>2. /\ plans'[q].state = "Completed" /\ plans'[q].id = plans[q].id
        /\ plans'[q].quarantined = plans[q].quarantined
        /\ \A r \in Plans \ {q} : plans'[r] = plans[r]
    BY <2>1, PlanState
  <2> HIDE DEF q
  <2>3. PlanShape' /\ BytesAccountedFor'
    BY <1>0, <2>1, <2>2 DEF DataInv, PlanShape, BytesAccountedFor, Published
  <2>4. SplitIsAttributed'
    BY <2>1 DEF SplitIsAttributed
  <2> QED BY <1>0, <2>1, <2>3, <2>4 DEF DataInv, RegistryShape, ArtifactsVerify, Consistent, Initialized
<1>15. CASE UNCHANGED vars
  BY <1>0, <1>15, DataFrame DEF vars, data
<1> QED BY <1>1, <1>2, <1>3, <1>4, <1>5, <1>6, <1>7, <1>8, <1>9, <1>10, <1>11, <1>12, <1>13, <1>14, <1>15
        DEF Next, Step

-----------------------------------------------------------------------------
\* The commands.

\* Only the process that holds the lock, or takes it, is inside a command, so
\* a step has to account for its own next write only.
LEMMA CommandFrame ==
  ASSUME TypeOK, LockInv, NEW p \in Procs, lock \in {p, "free"},
         \A r \in Procs \ {p} : cmd'[r] = cmd[r],
         cmd'[p].pc # "idle" => lock' = p,
         CommandInv(cmd[p])'
  PROVE  LockInv' /\ \A r \in Procs : CommandInv(cmd[r])'
<1>1. \A r \in Procs \ {p} : cmd'[r].pc = "idle"
  BY EvidenceKeysAssumption DEF LockInv
<1>2. \A r \in Procs \ {p} : CommandInv(cmd[r])'
  BY <1>1 DEF CommandInv
<1> QED BY <1>1, <1>2 DEF LockInv

LEMMA IdleCommand ==
  ASSUME NEW p \in Procs, cmd'[p].pc = "idle"
  PROVE  CommandInv(cmd[p])'
BY DEF CommandInv

\* The end of a command.
LEMMA EndFrame ==
  ASSUME TypeOK, LockInv, NEW p \in Procs, lock = p, Release(p)
  PROVE  LockInv' /\ \A r \in Procs : CommandInv(cmd[r])'
BY ReleaseShape, IdleCommand, CommandFrame

\* A write of p's command, after which it goes on at pc or stops.
LEMMA ContinueFrame ==
  ASSUME TypeOK, LockInv, NEW p \in Procs, lock = p, NEW pc, Continue(p, pc),
         cmd'[p].pc = pc /\ cmd'[p].id = cmd[p].id /\ cmd'[p].plan = cmd[p].plan => CommandInv(cmd[p])'
  PROVE  LockInv' /\ \A r \in Procs : CommandInv(cmd[r])'
<1>1. CASE lock' = lock /\ cmd'[p].pc = pc /\ cmd'[p].id = cmd[p].id /\ cmd'[p].plan = cmd[p].plan
  BY <1>1, ContinueShape, CommandFrame
<1>2. CASE lock' = "free" /\ cmd'[p].pc = "idle"
  BY <1>2, ContinueShape, IdleCommand, CommandFrame
<1> QED BY <1>1, <1>2, ContinueShape

LEMMA CommandStep ==
  ASSUME TypeOK, KeyInv, [Next]_vars
  PROVE  LockInv' /\ \A r \in Procs : CommandInv(cmd[r])'
<1> DEFINE Goal == LockInv' /\ \A r \in Procs : CommandInv(cmd[r])'
<1>0. LockInv /\ DataInv /\ DataInv' /\ \A p \in Procs : CommandInv(cmd[p])
  BY DataStep DEF KeyInv, DataInv
<1>a. \A p \in Procs : (\E pc \in Pcs \ {"idle"} : At(p, pc)) => lock = p
  BY <1>0 DEF LockInv, At
<1>b. {"intent", "registry", "marker", "resume", "clear", "rollback",
       "discard", "forget", "undelete", "retire", "publish",
       "quarantine", "source", "replace", "published", "finalize", "complete"} \subseteq Pcs \ {"idle"}
  BY DEF Pcs
<1> USE FreshFields, EmptyFields
\* A process takes the lock and begins a command.
<1>1. ASSUME NEW p \in Procs, InitializeFresh(p) PROVE Goal
  <2>1. Enter(p, "intent", drawn + 1, "none") /\ UNCHANGED data /\ CanInitialize /\ drawn + 1 # 0
    BY <1>1 DEF InitializeFresh, TypeOK
  <2>2. registry = Absent /\ marker = 0
    BY <1>0, <2>1 DEF CanInitialize, DataInv, RegistryShape
  <2>3. CommandInv(cmd[p])'
    BY <2>1, <2>2, EnterShape DEF CommandInv, data
  <2> QED BY <1>0, <2>1, <2>3, EnterShape, CommandFrame
<1>2. ASSUME NEW p \in Procs, InitializeResume(p) PROVE Goal
  <2>1. Enter(p, "resume", intent, "none") /\ UNCHANGED data /\ CanResume
    BY <1>2 DEF InitializeResume
  <2>2. registry = Fresh(intent) /\ marker = 0 /\ intent # 0
    BY <1>0, <2>1 DEF CanResume, Interrupted, FreshSingle, Initialized, DataInv, RegistryShape
  <2>3. CommandInv(cmd[p])'
    BY <2>1, <2>2, EnterShape DEF CommandInv, data
  <2> QED BY <1>0, <2>1, <2>3, EnterShape, CommandFrame
<1>3. ASSUME NEW p \in Procs, ResetDiscard(p) PROVE Goal
  <2> DEFINE pc == IF Initialized THEN "discard" ELSE "undelete"
  <2>1. Enter(p, pc, 0, "none") /\ UNCHANGED data /\ CanReset
    BY <1>3 DEF ResetDiscard
  <2>2. marker = 0 /\ IF pc = "discard" THEN registry.state = "present" ELSE registry = Deleting
    BY <1>0, <2>1 DEF CanReset, FreshSingle, Initialized, DataInv, RegistryShape
  <2>3. pc \in {"discard", "undelete"}
    OBVIOUS
  <2> HIDE DEF pc
  <2>4. CommandInv(cmd[p])'
    BY <2>1, <2>2, <2>3, EnterShape DEF CommandInv, data
  <2> QED BY <1>0, <2>1, <2>4, EnterShape, CommandFrame
<1>4. ASSUME NEW p \in Procs, RetireScan(p) PROVE Goal
  <2>1. PICK g \in registry.gens \ {registry.active} : ~Used(g) /\ Enter(p, "retire", g, "none")
    BY <1>4 DEF RetireScan
  <2>2. Consistent /\ UNCHANGED data
    BY <1>4 DEF RetireScan
  <2>3. CommandInv(cmd[p])'
    BY <2>1, <2>2, EnterShape DEF CommandInv, data, Consistent, Initialized, Used
  <2> QED BY <1>0, <2>1, <2>3, EnterShape, CommandFrame
<1>5. ASSUME NEW p \in Procs, Authenticate(p) PROVE Goal
  <2>1. Enter(p, "publish", registry.active, "none") /\ UNCHANGED data /\ Consistent
    BY <1>5 DEF Authenticate
  <2>2. registry.active \in registry.gens /\ registry.active # 0
    <3>1. registry.active \in registry.gens
      BY <1>0, <2>1 DEF Consistent, Initialized, DataInv, RegistryShape
    <3> QED BY <3>1, EvidenceKeysAssumption DEF TypeOK, Registries, Ids
  <2>3. CommandInv(cmd[p])'
    BY <2>1, <2>2, EnterShape DEF CommandInv, data, Consistent, Initialized
  <2> QED BY <1>0, <2>1, <2>3, EnterShape, CommandFrame
<1>6. ASSUME NEW p \in Procs, NEW q \in Plans, Recover(p, q) PROVE Goal
  <2> DEFINE pc == IF registry = Fresh(plans[q].id) THEN "published" ELSE "quarantine"
  <2>1. Enter(p, pc, plans[q].id, q) /\ UNCHANGED data /\ CanRecover(q)
    BY <1>6 DEF Recover
  <2>2. pc \in {"published", "quarantine"} /\ (pc = "published" => registry = Fresh(plans[q].id))
    OBVIOUS
  <2>3. pc = "published" => plans[q].quarantined
    BY <2>1 DEF CanRecover
  <2>4. plans[q].id # 0 /\ plans[q].state \in {"Prepared", "ReplacementPublished"}
    BY <1>0, <2>1 DEF CanRecover, DataInv, PlanShape
  <2> HIDE DEF pc
  <2>5. CommandInv(cmd[p])'
    BY <2>1, <2>2, <2>3, <2>4, EnterShape DEF CommandInv, Recovering, CanRecover, data
  <2> QED BY <1>0, <2>1, <2>5, EnterShape, CommandFrame
\* A command makes its next write.
<1>7. ASSUME NEW p \in Procs, PublishIntent(p) PROVE Goal
  <2>1. /\ At(p, "intent") /\ Continue(p, "registry") /\ intent' = cmd[p].id /\ UNCHANGED <<registry, marker>>
    BY <1>7 DEF PublishIntent
  <2> QED BY <1>0, <1>a, <1>b, <2>1, ContinueFrame DEF CommandInv, At
<1>8. ASSUME NEW p \in Procs, InitializeRegistry(p) PROVE Goal
  <2>1. /\ At(p, "registry") /\ Continue(p, "marker") /\ registry' = Fresh(cmd[p].id)
        /\ UNCHANGED <<intent, marker>>
    BY <1>8 DEF InitializeRegistry
  <2> QED BY <1>0, <1>a, <1>b, <2>1, ContinueFrame DEF CommandInv, At
<1>9. ASSUME NEW p \in Procs, WriteMarker(p) PROVE Goal
  <2>1. (At(p, "marker") \/ At(p, "resume")) /\ Continue(p, "clear") /\ marker' = cmd[p].id
    BY <1>9 DEF WriteMarker
  <2> QED BY <1>0, <1>a, <1>b, <2>1, ContinueFrame DEF CommandInv, At
<1>10. ASSUME NEW p \in Procs, MarkerFails(p) PROVE Goal
  <2>1. At(p, "marker") /\ Goto(p, "rollback") /\ UNCHANGED data
    BY <1>10 DEF MarkerFails
  <2>2. CommandInv(cmd[p])'
    BY <1>0, <2>1, GotoShape DEF CommandInv, At, data
  <2> QED BY <1>0, <1>a, <1>b, <2>1, <2>2, GotoShape, CommandFrame
<1>11. ASSUME NEW p \in Procs, RollbackInitialize(p) PROVE Goal
  <2>1. /\ At(p, "rollback") \/ At(p, "discard")
        /\ UNCHANGED marker
        /\ \/ \E pc \in {"clear", "forget"} : registry' = Absent /\ Continue(p, pc)
           \/ Release(p)
    BY <1>11 DEF RollbackInitialize, Stopped
  <2>2. lock = p /\ marker = 0
    BY <1>0, <1>a, <1>b, <2>1 DEF CommandInv, At
  <2> QED BY <1>0, <2>1, <2>2, ContinueFrame, EndFrame DEF CommandInv
<1>12. ASSUME NEW p \in Procs, CompleteInterruptedDeletion(p) \/ ForgetIntent(p) PROVE Goal
  <2>1. lock = p /\ marker = 0 /\ registry' = Absent /\ UNCHANGED marker
    BY <1>0, <1>a, <1>b, <1>12 DEF CompleteInterruptedDeletion, ForgetIntent, CommandInv, At
  <2>2. CASE Stopped(p)
    BY <1>0, <2>1, <2>2, EndFrame DEF Stopped
  <2>3. CASE /\ Draw /\ UNCHANGED lock
             /\ cmd' = [cmd EXCEPT ![p].pc = "intent", ![p].id = drawn + 1]
    <3>1. /\ cmd'[p].pc = "intent" /\ cmd'[p].id = drawn + 1
          /\ \A r \in Procs \ {p} : cmd'[r] = cmd[r]
      BY <2>3 DEF TypeOK
    <3>2. drawn + 1 # 0
      BY EvidenceKeysAssumption DEF TypeOK
    <3>3. CommandInv(cmd[p])'
      BY <2>1, <3>1, <3>2 DEF CommandInv
    <3> QED BY <1>0, <2>1, <2>3, <3>1, <3>3, CommandFrame
  <2> QED BY <1>12, <2>2, <2>3 DEF CompleteInterruptedDeletion, ForgetIntent
<1>13. ASSUME NEW p \in Procs,
              ClearIntent(p) \/ RetireCommit(p) \/ PublishArtifact(p) \/ CompleteRecoveryPlan(p)
       PROVE  Goal
  <2>1. lock = p /\ Release(p)
    BY <1>a, <1>b, <1>13 DEF ClearIntent, RetireCommit, PublishArtifact, CompleteRecoveryPlan, Finish
  <2> QED BY <1>0, <2>1, EndFrame
<1>14. ASSUME NEW p \in Procs, Stop(p) PROVE Goal
  BY <1>0, <1>14, EndFrame DEF Stop, Stopped
<1>15. ASSUME NEW p \in Procs, Quarantine(p) PROVE Goal
  <2> DEFINE q == cmd[p].plan
  <2>1. /\ At(p, "quarantine") /\ Continue(p, "source") /\ UNCHANGED <<registry, marker, artifacts>>
        /\ plans' = [plans EXCEPT ![q].quarantined = TRUE]
    BY <1>15 DEF Quarantine
  <2>2. Recovering(cmd[p]) /\ lock = p
    BY <1>0, <1>a, <1>b, <2>1 DEF CommandInv, At
  <2>3. q \in Plans
    BY <2>2 DEF Recovering
  <2>4. plans'[q].quarantined /\ plans'[q].state = plans[q].state /\ plans'[q].id = plans[q].id
    BY <2>1, <2>3, PlanQuarantined
  <2> HIDE DEF q
  <2>5. ASSUME cmd'[p].pc = "source", cmd'[p].id = cmd[p].id, cmd'[p].plan = cmd[p].plan
        PROVE  CommandInv(cmd[p])'
    BY <2>1, <2>2, <2>4, <2>5 DEF CommandInv, Recovering, q
  <2> QED BY <1>0, <2>1, <2>2, <2>5, ContinueFrame
<1>16. ASSUME NEW p \in Procs, RemoveSource(p) PROVE Goal
  <2>1. At(p, "source") /\ UNCHANGED <<marker, artifacts, plans>>
    BY <1>16 DEF RemoveSource
  <2>2. Recovering(cmd[p]) /\ plans[cmd[p].plan].quarantined /\ lock = p
    BY <1>0, <1>a, <1>b, <2>1 DEF CommandInv, At
  <2>3. CASE registry.state \in {"malformed", "absent"}
    <3>1. registry' = Absent /\ Continue(p, "replace")
      BY <1>16, <2>3 DEF RemoveSource
    <3>2. marker = 0
      BY <1>0, <2>3 DEF DataInv, ArtifactsVerify, Consistent, Initialized
    <3>3. ASSUME cmd'[p].pc = "replace", cmd'[p].id = cmd[p].id, cmd'[p].plan = cmd[p].plan
          PROVE  CommandInv(cmd[p])'
      BY <2>1, <2>2, <3>1, <3>2, <3>3 DEF CommandInv, Recovering
    <3> QED BY <1>0, <2>2, <3>1, <3>3, ContinueFrame
  <2>4. CASE registry.state \notin {"malformed", "absent"}
    BY <1>0, <1>16, <2>2, <2>4, EndFrame DEF RemoveSource, Finish
  <2> QED BY <2>3, <2>4
<1>17. ASSUME NEW p \in Procs, PutReplacement(p) PROVE Goal
  <2>1. /\ At(p, "replace") /\ Continue(p, "published") /\ UNCHANGED <<marker, artifacts, plans>>
        /\ registry' = Fresh(cmd[p].id)
    BY <1>17 DEF PutReplacement
  <2>2. Recovering(cmd[p]) /\ plans[cmd[p].plan].quarantined /\ lock = p
    BY <1>0, <1>a, <1>b, <2>1 DEF CommandInv, At
  <2>3. ASSUME cmd'[p].pc = "published", cmd'[p].id = cmd[p].id, cmd'[p].plan = cmd[p].plan
        PROVE  CommandInv(cmd[p])'
    BY <2>1, <2>2, <2>3 DEF CommandInv, Recovering
  <2> QED BY <1>0, <2>1, <2>2, <2>3, ContinueFrame
<1>18. ASSUME NEW p \in Procs, MarkPublished(p) PROVE Goal
  <2> DEFINE q == cmd[p].plan
             pc == IF marker = 0 THEN "finalize" ELSE "complete"
  <2>1. /\ At(p, "published") /\ Continue(p, pc) /\ UNCHANGED <<registry, marker, artifacts>>
        /\ plans' = [plans EXCEPT ![q].state = "ReplacementPublished"]
    BY <1>18 DEF MarkPublished
  <2>2. Recovering(cmd[p]) /\ lock = p /\ registry = Fresh(cmd[p].id) /\ plans[q].quarantined
    BY <1>0, <1>a, <1>b, <2>1 DEF CommandInv, At
  <2>0. q \in Plans
    BY <2>2 DEF Recovering
  <2>3. /\ plans'[q].quarantined /\ plans'[q].state = "ReplacementPublished"
        /\ plans'[q].id = plans[q].id
    BY <2>0, <2>1, <2>2, PlanState
  <2>4. /\ pc \in {"finalize", "complete"} /\ (pc = "finalize" => marker = 0)
        /\ pc = "complete" => marker = cmd[p].id
    BY <2>2 DEF Recovering
  <2> HIDE DEF pc, q
  <2>5. ASSUME cmd'[p].pc = pc, cmd'[p].id = cmd[p].id, cmd'[p].plan = cmd[p].plan
        PROVE  CommandInv(cmd[p])'
    BY <2>1, <2>2, <2>3, <2>4, <2>5 DEF CommandInv, Recovering, q
  <2> QED BY <1>0, <2>1, <2>2, <2>5, ContinueFrame
<1>19. ASSUME NEW p \in Procs, FinalizeMarker(p) PROVE Goal
  <2>1. At(p, "finalize") /\ Continue(p, "complete") /\ UNCHANGED plans /\ marker' = cmd[p].id
    BY <1>19 DEF FinalizeMarker
  <2>2. Recovering(cmd[p]) /\ plans[cmd[p].plan].quarantined /\ lock = p
    BY <1>0, <1>a, <1>b, <2>1 DEF CommandInv, At
  <2>3. ASSUME cmd'[p].pc = "complete", cmd'[p].id = cmd[p].id, cmd'[p].plan = cmd[p].plan
        PROVE  CommandInv(cmd[p])'
    BY <2>1, <2>2, <2>3 DEF CommandInv, Recovering
  <2> QED BY <1>0, <2>1, <2>2, <2>3, ContinueFrame
\* Steps outside a command: no process holds the lock, or only time passes.
<1>20. ASSUME NEW p \in Procs, Rotate(p) \/ \E q \in Plans : CreateRecoveryPlan(p, q) \/ RevokeRecoveryPlan(p, q)
       PROVE  Goal
  <2>1. lock = "free" /\ UNCHANGED <<lock, cmd>>
    BY <1>20 DEF Rotate, CreateRecoveryPlan, RevokeRecoveryPlan, Acquire
  <2>2. \A r \in Procs : cmd'[r].pc = "idle"
    BY <1>0, <2>1, EvidenceKeysAssumption DEF LockInv
  <2> QED BY <2>2 DEF CommandInv, LockInv
<1>21. ASSUME NEW q \in Plans, Expire(q) PROVE Goal
  <2>1. /\ UNCHANGED <<registry, marker, intent, artifacts, lock, cmd>>
        /\ plans' = [plans EXCEPT ![q].expired = TRUE]
    BY <1>21 DEF Expire
  <2>2. \A r \in Plans : /\ plans'[r].state = plans[r].state /\ plans'[r].id = plans[r].id
                         /\ plans'[r].quarantined = plans[r].quarantined
    BY <2>1, PlanExpired
  <2>3. \A p \in Procs : cmd[p].pc \in {"source", "replace", "published", "finalize", "complete"} => cmd[p].plan \in Plans
    BY <1>0 DEF CommandInv, Recovering
  <2> QED BY <1>0, <2>1, <2>2, <2>3 DEF CommandInv, LockInv, Recovering, Consistent, Initialized, Used
<1>22. CASE UNCHANGED vars
  BY <1>0, <1>22 DEF vars, data, CommandInv, LockInv, Recovering, Consistent, Initialized, Used
<1> QED BY <1>1, <1>2, <1>3, <1>4, <1>5, <1>6, <1>7, <1>8, <1>9, <1>10, <1>11, <1>12, <1>13, <1>14,
           <1>15, <1>16, <1>17, <1>18, <1>19, <1>20, <1>21, <1>22 DEF Next, Step

-----------------------------------------------------------------------------

LEMMA KeyInvHolds == Spec => [](TypeOK /\ KeyInv)
<1>1. Init => TypeOK /\ KeyInv
  <2> SUFFICES ASSUME Init PROVE TypeOK /\ KeyInv
    OBVIOUS
  <2> USE FreshFields, EmptyFields
  <2>1. TypeOK
    <3>1. registry \in Registries
      BY RegistryTypes, EvidenceKeysAssumption DEF Init
    <3>2. cmd \in [Procs -> Commands]
      BY IdleType DEF Init
    <3> QED BY <3>1, <3>2, RegistryTypes, EvidenceKeysAssumption DEF Init, TypeOK, Commands
  <2>2. \A p \in Procs : cmd[p].pc = "idle"
    BY DEF Init, Idle
  <2>3. LockInv /\ \A p \in Procs : CommandInv(cmd[p])
    BY <2>2 DEF LockInv, CommandInv
  <2>4. RegistryShape /\ PlanShape /\ ArtifactsVerify /\ SplitIsAttributed /\ BytesAccountedFor
    <3>1. RegistryShape
      BY DEF Init, RegistryShape
    <3>2. PlanShape
      BY DEF Init, PlanShape, NoPlan
    <3>3. ArtifactsVerify /\ SplitIsAttributed /\ BytesAccountedFor
      BY DEF Init, ArtifactsVerify, SplitIsAttributed, BytesAccountedFor, Published, Initialized, NoPlan
    <3> QED BY <3>1, <3>2, <3>3
  <2> QED BY <2>1, <2>3, <2>4 DEF KeyInv
<1>2. TypeOK /\ KeyInv /\ [Next]_vars => KeyInv'
  BY DataStep, CommandStep DEF KeyInv, DataInv
<1> QED BY <1>1, <1>2, TypeStep, PTL DEF Spec

\* A registry is written as a fresh one, removed, or changed in its generations.
LEMMA NeverMalformedAgain ==
  ASSUME TypeOK, KeyInv, [Next]_vars, registry.state # "malformed"
  PROVE  registry'.state # "malformed"
<1> USE FreshFields, EmptyFields
<1>1. ASSUME NEW p \in Procs, Step(p) PROVE registry'.state # "malformed"
  <2>1. CASE InitializeRegistry(p) \/ PutReplacement(p)
    BY <2>1 DEF InitializeRegistry, PutReplacement
  <2>2. CASE RollbackInitialize(p) \/ CompleteInterruptedDeletion(p) \/ RemoveSource(p)
    BY <2>2 DEF RollbackInitialize, CompleteInterruptedDeletion, RemoveSource
  <2>3. CASE Rotate(p) \/ RetireCommit(p)
    BY <2>3 DEF Rotate, RetireCommit, TypeOK, Registries
  <2>4. CASE registry' = registry
    BY <2>4
  <2> QED BY <1>1, <2>1, <2>2, <2>3, <2>4 DEF Step, data, Stop, InitializeFresh, InitializeResume, PublishIntent,
          WriteMarker, MarkerFails, ClearIntent, ResetDiscard, ForgetIntent, RetireScan, Authenticate,
          PublishArtifact, CreateRecoveryPlan, RevokeRecoveryPlan, Recover, Quarantine, MarkPublished,
          FinalizeMarker, CompleteRecoveryPlan
<1>2. ASSUME NEW q \in Plans, Expire(q) PROVE registry'.state # "malformed"
  BY <1>2 DEF Expire
<1>3. CASE UNCHANGED vars
  BY <1>3 DEF vars, data
<1> QED BY <1>1, <1>2, <1>3 DEF Next

\* Every reachable state of the evidence-key authority is well typed.
THEOREM KeysTypeCorrect == Spec => []TypeOK
BY KeyInvHolds, PTL

\* A marker always has its registry, and every artifact still verifies under
\* the root of the marker and a generation that was not retired.
THEOREM ArtifactsVerifyHolds == Spec => []ArtifactsVerify
<1>1. KeyInv => ArtifactsVerify
  BY DEF KeyInv
<1> QED BY <1>1, KeyInvHolds, PTL

\* An authority without a marker is claimed by the intent that names it or by
\* a recovery plan that can still finish it.
THEOREM SplitIsAttributedHolds == Spec => []SplitIsAttributed
<1>1. KeyInv => SplitIsAttributed
  BY DEF KeyInv
<1> QED BY <1>1, KeyInvHolds, PTL

\* The bytes of a malformed registry are in the item, with nothing published
\* over them, or in quarantine; whichever recovery publishes holds its own copy,
\* and no step of any command puts the bytes back.
THEOREM MalformedBytesKeptHolds == Spec => MalformedBytesKept
<1>1. TypeOK /\ KeyInv /\ [Next]_vars =>
        [/\ BytesAccountedFor'
         /\ registry.state # "malformed" => registry'.state # "malformed"]_vars
  BY DataStep, NeverMalformedAgain DEF DataInv
<1> QED BY <1>1, KeyInvHolds, PTL DEF Spec, MalformedBytesKept

\* While the marker is missing, init, resume, reset or a recovery plan is
\* admitted, wherever the last command stopped.
THEOREM NeverStrandedHolds == Spec => []NeverStranded
<1>1. TypeOK /\ KeyInv => NeverStranded
  <2> SUFFICES ASSUME TypeOK, KeyInv, marker = 0
               PROVE  CanInitialize \/ CanResume \/ CanReset \/ CanPlan
    BY DEF NeverStranded
  <2>1. artifacts = {}
    BY NoMarkerNoArtifacts DEF KeyInv
  <2>2. CASE registry.state = "present"
    <3>1. registry.gens = {registry.root}
      BY <2>2 DEF KeyInv, RegistryShape, Fresh
    <3>2. Cardinality(registry.gens) = 1
      BY <3>1, FS_Singleton
    <3> QED BY <2>1, <2>2, <3>2 DEF CanReset, FreshSingle, Initialized
  <2>3. CASE registry.state # "present"
    BY <2>1, <2>3 DEF CanReset, CanPlan, CanInitialize, TypeOK, Registries
  <2> QED BY <2>2, <2>3
<1> QED BY <1>1, KeyInvHolds, PTL
=============================================================================
