---------------------------- MODULE EvidenceKeys ----------------------------
(***************************************************************************)
(* The evidence-key authority of one state root: a registry of key          *)
(* generations in the platform keyring, a marker file that names the same   *)
(* root, and the artifacts (descriptors, proofs) authenticated under it.    *)
(*                                                                          *)
(* Every command and every evidence writer holds the exclusive lifecycle    *)
(* lock; a command is a sequence of single writes and may stop, by an error *)
(* that its read-back does not repair or by a crash, before or after each.  *)
(* A keyring value is an atomic secret (AtomicSecret): a delete may also be *)
(* left incomplete.  Root and generation identities are drawn at random.    *)
(***************************************************************************)
EXTENDS Naturals, FiniteSets

CONSTANTS Procs,      \* processes
          Plans,      \* malformed-registry recovery plans
          MaxIds,     \* bound: roots and generations drawn
          MaxFaults   \* bound: interrupted commands

ASSUME EvidenceKeysAssumption ==
    /\ MaxIds \in Nat \ {0} /\ MaxFaults \in Nat
    /\ "free" \notin Procs

\* Identity 0 stands for none.
Ids == 1 .. MaxIds

Registries == [state : {"absent", "present", "deleting", "malformed"},
               root : 0 .. MaxIds, gens : SUBSET Ids, active : 0 .. MaxIds]

RecoveryIntents ==
    [state : {"None", "Prepared", "ReplacementPublished", "Completed", "Revoked"},
     id : 0 .. MaxIds, quarantined : BOOLEAN, expired : BOOLEAN]

\* The states of a plan whose replacement registry was published.
Published == {"ReplacementPublished", "Completed"}

Pcs == {"idle", "intent", "registry", "marker", "resume", "clear", "rollback",
        "discard", "forget", "undelete", "retire", "publish",
        "quarantine", "source", "replace", "published", "finalize", "complete"}

VARIABLES
    registry,   \* the registry value in the keyring
    marker,     \* the evidence-root marker file
    intent,     \* initialization-intent-v1
    plans,      \* recovery intents and their quarantined copies
    artifacts,  \* authenticated artifacts, by root and generation
    lock,       \* holder of the evidence lifecycle lock
    cmd,        \* command of each process and the identities it works on
    drawn,      \* identities drawn
    origin,     \* how the state root was found
    faults

data == <<registry, marker, intent, plans, artifacts>>
vars == <<data, lock, cmd, drawn, origin, faults>>

-----------------------------------------------------------------------------
Absent == [state |-> "absent", root |-> 0, gens |-> {}, active |-> 0]
Malformed == [Absent EXCEPT !.state = "malformed"]
Deleting == [Absent EXCEPT !.state = "deleting"]

\* A fresh authority; its root and its first generation are drawn together.
Fresh(id) == [state |-> "present", root |-> id, gens |-> {id}, active |-> id]

Initialized == registry.state = "present"
FreshSingle == Initialized /\ Cardinality(registry.gens) = 1

\* status(Some(marker)): the registry answers for the marker's root.
Consistent == Initialized /\ marker # 0 /\ registry.root = marker

NoPlan == [state |-> "None", id |-> 0, quarantined |-> FALSE, expired |-> FALSE]

Idle == [pc |-> "idle", id |-> 0, plan |-> "none"]

\* A new location, one left by a release without initialization intents, or
\* one whose registry item is not a registry.
Init ==
    /\ origin \in {"clean", "split", "malformed"}
    /\ registry = CASE origin = "clean" -> Absent
                    [] origin = "split" -> Fresh(1)
                    [] origin = "malformed" -> Malformed
    /\ drawn = IF origin = "split" THEN 1 ELSE 0
    /\ marker = 0 /\ intent = 0
    /\ plans = [q \in Plans |-> NoPlan]
    /\ artifacts = {}
    /\ lock = "free" /\ cmd = [p \in Procs |-> Idle] /\ faults = 0

-----------------------------------------------------------------------------
\* lock_evidence_lifecycle: an exclusive lock the system releases with the
\* process; only its holder acts.
Acquire(p) == lock = "free" /\ cmd[p] = Idle
Release(p) == lock' = "free" /\ cmd' = [cmd EXCEPT ![p] = Idle]

Enter(p, pc, id, q) ==
    /\ Acquire(p)
    /\ lock' = p
    /\ cmd' = [cmd EXCEPT ![p] = [pc |-> pc, id |-> id, plan |-> q]]

At(p, pc) == cmd[p].pc = pc

Goto(p, pc) == cmd' = [cmd EXCEPT ![p].pc = pc] /\ UNCHANGED lock

Stopped(p) == faults < MaxFaults /\ faults' = faults + 1 /\ Release(p)

\* A write took effect and the command goes on, or stops right after it.
Continue(p, pc) == (Goto(p, pc) /\ UNCHANGED faults) \/ Stopped(p)
Finish(p) == Release(p) /\ UNCHANGED faults

\* A command stops before its next write.
Stop(p) ==
    /\ lock = p
    /\ Stopped(p)
    /\ UNCHANGED <<data, drawn, origin>>

Draw == drawn < MaxIds /\ drawn' = drawn + 1

-----------------------------------------------------------------------------
\* cfctl auth evidence-key init.

\* interrupted_initialization: the registry is the one the intent names.
Interrupted == intent # 0 /\ FreshSingle /\ registry.root = intent

CanInitialize == marker = 0 /\ registry.state = "absent"
CanResume == marker = 0 /\ artifacts = {} /\ Interrupted

\* Defect: the authority is published without an intent that names it.
InitializeFresh_NoIntent(p) ==
    /\ CanInitialize
    /\ Draw /\ Enter(p, "registry", drawn + 1, "none")
    /\ UNCHANGED <<data, origin, faults>>

InitializeFresh(p) ==
    /\ CanInitialize
    /\ Draw /\ Enter(p, "intent", drawn + 1, "none")
    /\ UNCHANGED <<data, origin, faults>>

InitializeResume(p) ==
    /\ CanResume
    /\ Enter(p, "resume", intent, "none")
    /\ UNCHANGED <<data, drawn, origin, faults>>

\* publish_initialization_intent: durable before the authority it names; an
\* older intent names an authority that never was and is replaced.
PublishIntent(p) ==
    /\ At(p, "intent")
    /\ intent' = cmd[p].id
    /\ Continue(p, "registry")
    /\ UNCHANGED <<registry, marker, plans, artifacts, drawn, origin>>

InitializeRegistry(p) ==
    /\ At(p, "registry")
    /\ registry' = Fresh(cmd[p].id)
    /\ Continue(p, "marker")
    /\ UNCHANGED <<marker, intent, plans, artifacts, drawn, origin>>

WriteMarker(p) ==
    /\ At(p, "marker") \/ At(p, "resume")
    /\ marker' = cmd[p].id
    /\ Continue(p, "clear")
    /\ UNCHANGED <<registry, intent, plans, artifacts, drawn, origin>>

\* The marker write failed and the marker reads back absent.
MarkerFails(p) ==
    /\ At(p, "marker")
    /\ faults < MaxFaults /\ faults' = faults + 1
    /\ Goto(p, "rollback")
    /\ UNCHANGED <<data, drawn, origin>>

ClearIntent(p) ==
    /\ At(p, "clear")
    /\ intent' = 0
    /\ Finish(p)
    /\ UNCHANGED <<registry, marker, plans, artifacts, drawn, origin>>

\* rollback_initialize: delete the registry, then the intent.
RollbackInitialize(p) ==
    /\ At(p, "rollback") \/ At(p, "discard")
    /\ \/ registry' = Absent /\ Continue(p, IF At(p, "rollback") THEN "clear" ELSE "forget")
       \/ registry' = Deleting /\ Stopped(p)
    /\ UNCHANGED <<marker, intent, plans, artifacts, drawn, origin>>

-----------------------------------------------------------------------------
\* cfctl auth evidence-key reset: discard, then initialize afresh.

CanReset == marker = 0 /\ (registry.state = "deleting" \/ (FreshSingle /\ artifacts = {}))

ResetDiscard(p) ==
    /\ CanReset
    /\ Enter(p, IF Initialized THEN "discard" ELSE "undelete", 0, "none")
    /\ UNCHANGED <<data, drawn, origin, faults>>

CompleteInterruptedDeletion(p) ==
    /\ At(p, "undelete")
    /\ registry' = Absent
    /\ \/ /\ Draw /\ UNCHANGED <<lock, faults>>
          /\ cmd' = [cmd EXCEPT ![p].pc = "intent", ![p].id = drawn + 1]
       \/ Stopped(p) /\ UNCHANGED drawn
    /\ UNCHANGED <<marker, intent, plans, artifacts, origin>>

ForgetIntent(p) ==
    /\ At(p, "forget")
    /\ intent' = 0
    /\ \/ /\ Draw /\ UNCHANGED <<lock, faults>>
          /\ cmd' = [cmd EXCEPT ![p].pc = "intent", ![p].id = drawn + 1]
       \/ Stopped(p) /\ UNCHANGED drawn
    /\ UNCHANGED <<registry, marker, plans, artifacts, origin>>

-----------------------------------------------------------------------------
\* Rotation and retirement; evidence is written with the active generation.

\* Defect: rotation asks for a registry, not for one that matches the marker.
Rotate_AnyRegistry(p) ==
    /\ Acquire(p) /\ Initialized
    /\ Draw
    /\ registry' = [registry EXCEPT !.gens = @ \cup {drawn + 1}, !.active = drawn + 1]
    /\ UNCHANGED <<marker, intent, plans, artifacts, lock, cmd, origin, faults>>

\* commit_registry_transition: one put, read back on error.
Rotate(p) ==
    /\ Acquire(p) /\ Consistent
    /\ Draw
    /\ registry' = [registry EXCEPT !.gens = @ \cup {drawn + 1}, !.active = drawn + 1]
    /\ UNCHANGED <<marker, intent, plans, artifacts, lock, cmd, origin, faults>>

\* evidence_key_generation_usage, scanned under the lock.
Used(g) == \E a \in artifacts : a.gen = g

\* Defect: any generation but the active one is retired.
RetireScan_NoScan(p) ==
    /\ Consistent
    /\ \E g \in registry.gens \ {registry.active} : Enter(p, "retire", g, "none")
    /\ UNCHANGED <<data, drawn, origin, faults>>

RetireScan(p) ==
    /\ Consistent
    /\ \E g \in registry.gens \ {registry.active} :
         /\ ~Used(g)
         /\ Enter(p, "retire", g, "none")
    /\ UNCHANGED <<data, drawn, origin, faults>>

RetireCommit(p) ==
    /\ At(p, "retire")
    /\ registry' = [registry EXCEPT !.gens = @ \ {cmd[p].id}]
    /\ Finish(p)
    /\ UNCHANGED <<marker, intent, plans, artifacts, drawn, origin>>

\* write_evidence and record_operational_proof: authenticate, then publish.
Authenticate(p) ==
    /\ Consistent
    /\ Enter(p, "publish", registry.active, "none")
    /\ UNCHANGED <<data, drawn, origin, faults>>

PublishArtifact(p) ==
    /\ At(p, "publish")
    /\ artifacts' = artifacts \cup {[root |-> marker, gen |-> cmd[p].id]}
    /\ Finish(p)
    /\ UNCHANGED <<registry, marker, intent, plans, drawn, origin>>

-----------------------------------------------------------------------------
\* Recovery of a malformed registry.

CanPlan == marker = 0 /\ artifacts = {} /\ registry.state = "malformed"

CreateRecoveryPlan(p, q) ==
    /\ Acquire(p) /\ CanPlan /\ plans[q].state = "None"
    /\ Draw
    /\ plans' = [plans EXCEPT ![q] = [NoPlan EXCEPT !.state = "Prepared", !.id = drawn + 1]]
    /\ UNCHANGED <<registry, marker, intent, artifacts, lock, cmd, origin, faults>>

RevokeRecoveryPlan(p, q) ==
    /\ Acquire(p)
    /\ plans[q].state = "Prepared" /\ ~plans[q].quarantined
    /\ plans' = [plans EXCEPT ![q].state = "Revoked"]
    /\ UNCHANGED <<registry, marker, intent, artifacts, lock, cmd, drawn, origin, faults>>

\* RECOVERY_PLAN_TTL_MINUTES pass.
Expire(q) ==
    /\ plans[q].state = "Prepared" /\ ~plans[q].expired
    /\ plans' = [plans EXCEPT ![q].expired = TRUE]
    /\ UNCHANGED <<registry, marker, intent, artifacts, lock, cmd, drawn, origin, faults>>

\* resume_malformed_registry, its checks.
CanRecover(q) ==
    /\ plans[q].state \in {"Prepared", "ReplacementPublished"}
    /\ artifacts = {}
    /\ marker \in {0, plans[q].id}
    /\ registry.state # "deleting"
    /\ \/ plans[q].quarantined
       \/ ~plans[q].expired /\ registry.state = "malformed"

Recover(p, q) ==
    /\ CanRecover(q)
    /\ Enter(p, IF registry = Fresh(plans[q].id) THEN "published" ELSE "quarantine",
             plans[q].id, q)
    /\ UNCHANGED <<data, drawn, origin, faults>>

\* Defect: the source is removed without a quarantined copy.
Quarantine_Skipped(p) ==
    /\ At(p, "quarantine")
    /\ Continue(p, "source")
    /\ UNCHANGED <<data, drawn, origin>>

\* recover_malformed_with: quarantine, remove the source, publish; a registry
\* that is neither the source nor the replacement is left alone.
Quarantine(p) ==
    /\ At(p, "quarantine")
    /\ plans' = [plans EXCEPT ![cmd[p].plan].quarantined = TRUE]
    /\ Continue(p, "source")
    /\ UNCHANGED <<registry, marker, intent, artifacts, drawn, origin>>

RemoveSource(p) ==
    /\ At(p, "source")
    /\ IF registry.state \in {"malformed", "absent"}
       THEN registry' = Absent /\ Continue(p, "replace")
       ELSE UNCHANGED registry /\ Finish(p)
    /\ UNCHANGED <<marker, intent, plans, artifacts, drawn, origin>>

PutReplacement(p) ==
    /\ At(p, "replace")
    /\ registry' = Fresh(cmd[p].id)
    /\ Continue(p, "published")
    /\ UNCHANGED <<marker, intent, plans, artifacts, drawn, origin>>

MarkPublished(p) ==
    /\ At(p, "published")
    /\ plans' = [plans EXCEPT ![cmd[p].plan].state = "ReplacementPublished"]
    /\ Continue(p, IF marker = 0 THEN "finalize" ELSE "complete")
    /\ UNCHANGED <<registry, marker, intent, artifacts, drawn, origin>>

FinalizeMarker(p) ==
    /\ At(p, "finalize")
    /\ marker' = cmd[p].id
    /\ Continue(p, "complete")
    /\ UNCHANGED <<registry, intent, plans, artifacts, drawn, origin>>

CompleteRecoveryPlan(p) ==
    /\ At(p, "complete")
    /\ plans' = [plans EXCEPT ![cmd[p].plan].state = "Completed"]
    /\ Finish(p)
    /\ UNCHANGED <<registry, marker, intent, artifacts, drawn, origin>>

-----------------------------------------------------------------------------
Step(p) ==
    \/ Stop(p)
    \/ InitializeFresh(p) \/ InitializeResume(p) \/ PublishIntent(p) \/ InitializeRegistry(p)
    \/ WriteMarker(p) \/ MarkerFails(p) \/ ClearIntent(p) \/ RollbackInitialize(p)
    \/ ResetDiscard(p) \/ CompleteInterruptedDeletion(p) \/ ForgetIntent(p)
    \/ Rotate(p) \/ RetireScan(p) \/ RetireCommit(p) \/ Authenticate(p) \/ PublishArtifact(p)
    \/ \E q \in Plans : CreateRecoveryPlan(p, q) \/ RevokeRecoveryPlan(p, q) \/ Recover(p, q)
    \/ Quarantine(p) \/ RemoveSource(p) \/ PutReplacement(p) \/ MarkPublished(p)
    \/ FinalizeMarker(p) \/ CompleteRecoveryPlan(p)

Next == (\E p \in Procs : Step(p)) \/ (\E q \in Plans : Expire(q))

Spec == Init /\ [][Next]_vars

-----------------------------------------------------------------------------
TypeOK ==
    /\ registry \in Registries
    /\ marker \in 0 .. MaxIds /\ intent \in 0 .. MaxIds /\ drawn \in 0 .. MaxIds
    /\ plans \in [Plans -> RecoveryIntents]
    /\ artifacts \subseteq [root : Ids, gen : Ids]
    /\ lock \in Procs \cup {"free"}
    /\ cmd \in [Procs -> [pc : Pcs, id : 0 .. MaxIds, plan : Plans \cup {"none"}]]
    /\ origin \in {"clean", "split", "malformed"}
    /\ faults \in 0 .. MaxFaults

\* A marker always has its registry, and every artifact ever authenticated
\* still verifies: its root is the marker's and its generation was not retired,
\* whatever commands were interrupted.
ArtifactsVerify ==
    /\ marker # 0 => Consistent
    /\ \A a \in artifacts : a.root = marker /\ a.gen \in registry.gens

\* No interruption strands the state root: while the marker is missing some
\* command is admitted that leads towards a usable authority.
NeverStranded ==
    (lock = "free" /\ marker = 0) =>
        CanInitialize \/ CanResume \/ CanReset \/ CanPlan

\* An authority without a marker that this release created is claimed by the
\* initialization intent, or by the one recovery plan that can still finish it.
SplitIsAttributed ==
    (Initialized /\ marker = 0 /\ ~(origin = "split" /\ registry.root = 1)) =>
        \/ intent = registry.root
        \/ \E q \in Plans : plans[q].id = registry.root /\ CanRecover(q)

\* The bytes of a malformed registry are in the registry item, and then nothing
\* was published over them, or in quarantine; a plan that published its
\* replacement holds a copy of its own, whichever plan removed the source.
BytesAccountedFor ==
    /\ origin = "malformed" =>
           IF registry.state = "malformed"
           THEN marker = 0 /\ \A q \in Plans : plans[q].state \notin Published
           ELSE \E q \in Plans : plans[q].quarantined
    /\ \A q \in Plans : plans[q].state \in Published => plans[q].quarantined

\* recover_malformed_with, "never restore malformed bytes" and never lose them:
\* every step leaves them accounted for, wherever the command stops after it,
\* and none puts them back.
MalformedBytesKept ==
    [][/\ BytesAccountedFor'
       /\ registry.state # "malformed" => registry'.state # "malformed"]_vars
=============================================================================
