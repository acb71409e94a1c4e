-------------------------- MODULE AnalyticsRenewal --------------------------
(***************************************************************************)
(* Renewal of the publisher's analytics token: mint a child under a         *)
(* standing authority, read with it staged, switch the profile, read again, *)
(* revoke the predecessor; or roll back and revoke the child.               *)
(*                                                                          *)
(* A private per-profile lock lets one renewal run at a time.  Every step   *)
(* below is one durable write or one await; the run may stop before any of  *)
(* them, by an error or a crash.  Two records outlive it: the ordinary      *)
(* attempt and the unmanaged-recovery record.                               *)
(***************************************************************************)
EXTENDS Naturals, FiniteSets

CONSTANTS MaxTokens,   \* bound: tokens minted or imported
          MaxOps,      \* bound: revoke plans
          MaxFaults,   \* bound: runs that stop
          MaxImports   \* bound: credential imports

ASSUME RenewalAssumption ==
    {MaxTokens, MaxOps, MaxFaults, MaxImports} \subseteq Nat /\ MaxTokens > 0

\* 0 stands for none, and for the slot that is keyed by the profile's name.
\* Slot and generation of a child are numbered like the child.
Tokens == 1 .. MaxTokens
Slots == 0 .. MaxTokens
Legacy == 0
Ops == 1 .. MaxOps

\* ProfileMetadata of the publisher with its ManagedApiTokenV1.
Profiles == [token : Tokens, managed : BOOLEAN, slot : Slots,
             pend : 0 .. MaxTokens, op : 0 .. MaxOps, pslot : Slots]

Unmanaged(t) ==
    [token |-> t, managed |-> FALSE, slot |-> Legacy, pend |-> 0, op |-> 0, pslot |-> 0]
Child(t) ==
    [token |-> t, managed |-> TRUE, slot |-> t, pend |-> 0, op |-> 0, pslot |-> 0]
Settled(prof) == [prof EXCEPT !.pend = 0, !.op = 0, !.pslot = 0]

\* RotationAttempt and the unmanaged-recovery Record; mint names the one mint
\* operation and the child it may have created.
NoAttempt ==
    [state |-> "none", prior |-> Unmanaged(1), mint |-> 0, new |-> 0, intended |-> FALSE]
NoRecord == [state |-> "none", prior |-> 0, mint |-> 0, new |-> 0]

Pcs == {"idle", "repair", "repaired", "pending", "retire", "close", "due", "health", "claim",
        "mint", "sink", "retain", "store", "stage", "staged", "discard", "abandon", "unstage",
        "unslot", "activate", "switch", "active", "rollback", "revert", "dropslot",
        "closeClean", "predecessor", "savePending", "dropOld"}

VARIABLES
    profile,   \* publisher entry of profiles
    staging,   \* child of the staging profile
    secrets,   \* credential store: slot to token
    sink,      \* child whose value is in the staging file
    attempt,   \* ordinary-attempt.json
    record,    \* unmanaged-recovery.json
    plans,     \* revoke plans
    live,      \* tokens the provider accepts
    lineage,   \* minted_token_ids of the standing authority
    run,       \* the renewal that holds the session lock
    unknown,   \* tokens whose identity nobody knows
    imported,  \* tokens imported by hand and those they displaced
    disturbed, \* an import fell into a renewal
    drawn, ops, faults

local == <<profile, staging, secrets, sink, attempt, record>>
world == <<plans, live, lineage, ops>>
vars == <<local, world, run, unknown, imported, disturbed, drawn, faults>>

Idle == [pc |-> "idle", recovery |-> FALSE, old |-> Unmanaged(1), child |-> 0,
         op |-> 0, verified |-> FALSE, slot |-> 0]

Init ==
    /\ profile = Unmanaged(1) /\ staging = 0
    /\ secrets = [s \in Slots |-> IF s = Legacy THEN 1 ELSE 0] /\ sink = 0
    /\ attempt = NoAttempt /\ record = NoRecord
    /\ plans = [o \in Ops |-> [token |-> 0, state |-> "none"]]
    /\ live = {1} /\ lineage = {}
    /\ run = Idle
    /\ unknown \in {{}, {1}} /\ imported = {} /\ disturbed = FALSE
    /\ drawn = 1 /\ ops = 0 /\ faults = 0

-----------------------------------------------------------------------------
At(pc) == run.pc = pc
Goto(pc) == run' = [run EXCEPT !.pc = pc]
Finish == run' = Idle
Rest == UNCHANGED <<unknown, imported, disturbed, faults>>

\* A step that only moves the run, and one that writes local state only.
Silent == UNCHANGED <<local, world, drawn>> /\ Rest
Local == UNCHANGED <<world, drawn>> /\ Rest

\* An error that is returned, or a crash: the session lock is released.
Stop ==
    /\ ~At("idle") /\ faults < MaxFaults
    /\ faults' = faults + 1
    /\ Finish
    /\ UNCHANGED <<local, world, unknown, imported, disturbed, drawn>>

\* key_revoke: a plan for the token is stored, or its creation fails.
PlanRevoke(t) ==
    /\ ops < MaxOps /\ ops' = ops + 1
    /\ plans' = [plans EXCEPT ![ops + 1] = [token |-> t, state |-> "draft"]]

\* revoke_rotation_child: the standing run of a revoke plan ends verified,
\* unverified, or in an error that may have come before or after the request.
Revoked(t, next) ==
    /\ t \in lineage /\ ops < MaxOps
    /\ ops' = ops + 1
    /\ \E verified, effect \in BOOLEAN :
         /\ verified => effect
         /\ live' = IF effect THEN live \ {t} ELSE live
         /\ plans' = [plans EXCEPT ![ops + 1] =
                        [token |-> t, state |-> IF verified THEN "verified" ELSE "unsettled"]]
         /\ run' = [run EXCEPT !.pc = next, !.op = ops + 1, !.verified = verified]
    /\ UNCHANGED lineage

RevokeErr(next) ==
    /\ run' = [run EXCEPT !.pc = next, !.op = 0, !.verified = FALSE]
    /\ UNCHANGED world

RevokeChild(t, next) == Revoked(t, next) \/ RevokeErr(next)

-----------------------------------------------------------------------------
\* matches_pending_revoke: the profile is the intended one with the exact
\* predecessor marked for revocation.
MatchesPending ==
    /\ profile.managed /\ attempt.intended
    /\ profile.pend = attempt.prior.token /\ profile.pslot = attempt.prior.slot
    /\ Settled(profile) = Child(attempt.new)

\* Session::open and authorize.
Open(recovery) ==
    /\ At("idle")
    /\ attempt.state = "open" => ~recovery /\ MatchesPending
    /\ record.state # "pending"
    /\ recovery => record.state = "none" /\ ~profile.managed
    /\ run' = [Idle EXCEPT !.pc = "repair", !.recovery = recovery, !.old = profile]
    /\ Silent

\* A pending revocation without a plan: plan it; what is saved afterwards is
\* the profile that was read before.
Repair ==
    /\ At("repair")
    /\ \/ /\ run.old.pend # 0 /\ run.old.op = 0
          /\ \/ PlanRevoke(run.old.pend) /\ run' = [run EXCEPT !.pc = "repaired", !.op = ops + 1]
             \/ Finish /\ UNCHANGED <<plans, ops>>
       \/ /\ ~(run.old.pend # 0 /\ run.old.op = 0)
          /\ Goto("pending") /\ UNCHANGED <<plans, ops>>
    /\ UNCHANGED <<local, live, lineage, drawn>> /\ Rest

\* Defect: the operation is set on the copy only, not saved.
SaveRepaired_CopyOnly ==
    /\ At("repaired")
    /\ run' = [run EXCEPT !.pc = "pending", !.old.op = run.op]
    /\ Silent

SaveRepaired ==
    /\ At("repaired")
    /\ profile' = [run.old EXCEPT !.op = run.op]
    /\ run' = [run EXCEPT !.pc = "pending", !.old = profile']
    /\ UNCHANGED <<staging, secrets, sink, attempt, record>> /\ Local

\* Only an exact, verified revocation clears the pending fields.
PendingRevoked ==
    plans[run.old.op].token = run.old.pend /\ plans[run.old.op].state = "verified"

SaveReconciled ==
    /\ At("pending")
    /\ \/ run.old.pend = 0 /\ Goto("due") /\ UNCHANGED profile
       \/ run.old.pend # 0 /\ ~PendingRevoked /\ Finish /\ UNCHANGED profile
       \/ /\ run.old.pend # 0 /\ PendingRevoked
          /\ profile' = Settled(run.old)
          /\ run' = [run EXCEPT !.pc = "retire", !.old = profile', !.op = run.old.op,
                                !.slot = run.old.pslot]
    /\ UNCHANGED <<staging, secrets, sink, attempt, record>> /\ Local

RetireSlot ==
    /\ At("retire")
    /\ secrets' = [secrets EXCEPT ![run.slot] = 0]
    /\ Goto("close")
    /\ UNCHANGED <<profile, staging, sink, attempt, record>> /\ Local

\* RotationAttempt::close after the cutover: the active profile is the intended
\* one, unchanged, and the predecessor's revocation is verified.
Active == IF run.child = 0 THEN run.old ELSE Child(run.child)

MayClose(expected, token) ==
    /\ attempt.state = "open"
    /\ plans[run.op].state = "verified" /\ plans[run.op].token = token
    /\ profile = expected

Close ==
    /\ At("close")
    /\ IF attempt.intended /\ Active = Child(attempt.new) /\ MayClose(Active, attempt.prior.token)
       THEN /\ attempt' = [attempt EXCEPT !.state = "closed"]
            /\ IF run.child = 0 THEN Goto("due") ELSE Finish
       ELSE UNCHANGED attempt /\ Finish
    /\ UNCHANGED <<profile, staging, secrets, sink, record>> /\ Local

\* Without --force a managed child outside its window is only read with.
Due ==
    /\ At("due")
    /\ \/ run.old.managed /\ Goto("health")
       \/ (run.old.managed \/ run.recovery \/ run.old.token \notin unknown) /\ Goto("claim")
       \/ ~run.old.managed /\ ~run.recovery /\ Finish
    /\ Silent

\* Defect: the legacy credential is removed whatever the recovery record says.
Health_ForgetsPredecessor ==
    /\ At("health")
    /\ secrets' = [secrets EXCEPT ![Legacy] = 0]
    /\ Finish
    /\ UNCHANGED <<profile, staging, sink, attempt, record>> /\ Local

Health ==
    /\ At("health")
    /\ \/ UNCHANGED secrets
       \/ secrets' = IF record.state = "none" THEN [secrets EXCEPT ![Legacy] = 0] ELSE secrets
    /\ Finish
    /\ UNCHANGED <<profile, staging, sink, attempt, record>> /\ Local

-----------------------------------------------------------------------------
\* Defect: the mint is run before the attempt is written.
ClaimMint_InMemory ==
    /\ At("claim")
    /\ profile = run.old /\ (run.recovery \/ attempt.state # "open")
    /\ drawn < MaxTokens /\ drawn' = drawn + 1
    /\ run' = [run EXCEPT !.pc = "mint", !.child = drawn + 1]
    /\ UNCHANGED <<local, world>> /\ Rest

\* claim_mint: the attempt names the mint operation before it is run.
ClaimMint ==
    /\ At("claim")
    /\ IF profile = run.old /\ (run.recovery \/ attempt.state # "open")
       THEN /\ drawn < MaxTokens /\ drawn' = drawn + 1
            /\ run' = [run EXCEPT !.pc = "mint", !.child = drawn + 1]
            /\ IF run.recovery
               THEN /\ record' = [NoRecord EXCEPT !.state = "pending", !.prior = run.old.token,
                                                  !.mint = drawn + 1]
                    /\ UNCHANGED attempt
               ELSE /\ attempt' = [NoAttempt EXCEPT !.state = "open", !.prior = run.old,
                                                    !.mint = drawn + 1]
                    /\ UNCHANGED record
       ELSE Finish /\ UNCHANGED <<attempt, record, drawn>>
    /\ UNCHANGED <<profile, staging, secrets, sink, world>> /\ Rest

\* The standing mint completes with lineage and value file, or it does not and
\* leaves open which part of it happened.
Mint ==
    /\ At("mint")
    /\ \E ok, effect, listed, written \in BOOLEAN :
         /\ ok => effect /\ listed /\ written
         /\ listed \/ written => effect
         /\ live' = IF effect THEN live \cup {run.child} ELSE live
         /\ lineage' = IF listed THEN lineage \cup {run.child} ELSE lineage
         /\ sink' = IF written THEN run.child ELSE sink
         /\ IF ok THEN Goto("sink") ELSE Finish
    /\ UNCHANGED <<profile, staging, secrets, attempt, record, plans, ops, drawn>> /\ Rest

\* The value file is read and removed whether or not it can be read.
ReadSink ==
    /\ At("sink")
    /\ sink' = 0
    /\ Goto("retain") \/ Finish
    /\ UNCHANGED <<profile, staging, secrets, attempt, record>> /\ Local

RetainChild ==
    /\ At("retain")
    /\ IF run.recovery
       THEN record' = [record EXCEPT !.new = run.child] /\ UNCHANGED attempt
       ELSE attempt' = [attempt EXCEPT !.new = run.child] /\ UNCHANGED record
    /\ Goto("store")
    /\ UNCHANGED <<profile, staging, secrets, sink>> /\ Local

StoreSlot ==
    /\ At("store")
    /\ secrets' = [secrets EXCEPT ![run.child] = run.child]
    /\ Goto("stage")
    /\ UNCHANGED <<profile, staging, sink, attempt, record>> /\ Local

\* A failed save takes the slot back.
StageProfile ==
    /\ At("stage")
    /\ \/ staging' = run.child /\ Goto("staged") /\ UNCHANGED secrets
       \/ secrets' = [secrets EXCEPT ![run.child] = 0] /\ Finish /\ UNCHANGED staging
    /\ UNCHANGED <<profile, sink, attempt, record>> /\ Local

StagedReads ==
    /\ At("staged")
    /\ Goto("activate") \/ Goto("discard")
    /\ Silent

\* Failed staged reads: revoke the child, then remove profile and slot whatever
\* came of it; a changed publisher profile ends the same way, and its attempt
\* stays open: CloseCleaned finds the profile changed.
Discard ==
    /\ At("discard") \/ At("abandon")
    /\ RevokeChild(run.child, "unstage")
    /\ UNCHANGED <<local, drawn>> /\ Rest

Unstage ==
    /\ At("unstage")
    /\ staging' = 0
    /\ Goto("unslot")
    /\ UNCHANGED <<profile, secrets, sink, attempt, record>> /\ Local

DropSlot ==
    /\ At("unslot") \/ At("dropslot")
    /\ secrets' = [secrets EXCEPT ![run.child] = 0]
    /\ IF run.verified THEN Goto("closeClean") ELSE Finish
    /\ UNCHANGED <<profile, staging, sink, attempt, record>> /\ Local

\* RotationAttempt::close with cleaned_child; the recovery record stays pending.
CloseCleaned ==
    /\ At("closeClean")
    /\ IF ~run.recovery /\ run.old = attempt.prior /\ MayClose(run.old, attempt.new)
       THEN attempt' = [attempt EXCEPT !.state = "closed"]
       ELSE UNCHANGED attempt
    /\ Finish
    /\ UNCHANGED <<profile, staging, secrets, sink, record>> /\ Local

-----------------------------------------------------------------------------
\* Defect: the publisher profile is not compared before the switch.
RetainActivation_NoCompare ==
    /\ At("activate")
    /\ attempt' = IF run.recovery THEN attempt ELSE [attempt EXCEPT !.intended = TRUE]
    /\ Goto("switch")
    /\ UNCHANGED <<profile, staging, secrets, sink, record>> /\ Local

\* require_unchanged, then retain_activation before the profile is replaced.
RetainActivation ==
    /\ At("activate")
    /\ IF profile = run.old
       THEN /\ attempt' = IF run.recovery THEN attempt ELSE [attempt EXCEPT !.intended = TRUE]
            /\ Goto("switch")
       ELSE UNCHANGED attempt /\ Goto("abandon")
    /\ UNCHANGED <<profile, staging, secrets, sink, record>> /\ Local

Activate ==
    /\ At("switch")
    /\ profile' = Child(run.child) /\ staging' = 0
    /\ Goto("active")
    /\ UNCHANGED <<secrets, sink, attempt, record>> /\ Local

ActiveReads ==
    /\ At("active")
    /\ Goto("predecessor") \/ Goto("rollback")
    /\ Silent

\* Defect: the child is revoked while the profile still names it.
Rollback_KeepsChild ==
    /\ At("rollback")
    /\ Goto("revert")
    /\ Silent

Rollback ==
    /\ At("rollback")
    /\ IF profile = Child(run.child)
       THEN profile' = run.old /\ Goto("revert")
       ELSE UNCHANGED profile /\ Finish
    /\ UNCHANGED <<staging, secrets, sink, attempt, record>> /\ Local

Revert ==
    /\ At("revert")
    /\ RevokeChild(run.child, "dropslot")
    /\ UNCHANGED <<local, drawn>> /\ Rest

\* complete: the predecessor of a recovered profile stays unknown and live.
CompleteRecovery ==
    /\ At("predecessor") /\ run.recovery
    /\ record' = IF profile = Child(run.child) /\ record.new = run.child
                 THEN [record EXCEPT !.state = "active"] ELSE record
    /\ Finish
    /\ UNCHANGED <<profile, staging, secrets, sink, attempt>> /\ Local

\* A predecessor inside the lineage is revoked at once; any other one needs an
\* approved plan.
RevokePredecessor ==
    /\ At("predecessor") /\ ~run.recovery
    /\ IF run.old.token \in lineage
       THEN \/ Revoked(run.old.token, "savePending")
            \/ Finish /\ UNCHANGED world
       ELSE /\ \/ PlanRevoke(run.old.token) /\ run' = [run EXCEPT !.pc = "savePending", !.op = ops + 1]
               \/ Goto("savePending") /\ UNCHANGED <<plans, ops>>
            /\ UNCHANGED <<live, lineage>>
    /\ UNCHANGED <<local, drawn>> /\ Rest

SavePending ==
    /\ At("savePending")
    /\ IF run.verified
       THEN Goto("dropOld") /\ UNCHANGED profile
       ELSE /\ profile' = IF profile.managed
                          THEN [profile EXCEPT !.pend = run.old.token, !.op = run.op,
                                               !.pslot = run.old.slot]
                          ELSE profile
            /\ Finish
    /\ UNCHANGED <<staging, secrets, sink, attempt, record>> /\ Local

DropOldSlot ==
    /\ At("dropOld")
    /\ secrets' = [secrets EXCEPT ![run.old.slot] = 0]
    /\ Goto("close")
    /\ UNCHANGED <<profile, staging, sink, attempt, record>> /\ Local

-----------------------------------------------------------------------------
\* An operator approves and runs a revoke plan.  It ends Verified, Failed or
\* RectificationRequired, the latter two with or without the effect, and stays
\* there: plans rectify changes no status of a token deletion.
RunPlan(o) ==
    /\ plans[o].state = "draft"
    /\ \E verified, effect \in BOOLEAN :
         /\ verified => effect
         /\ plans' = [plans EXCEPT ![o].state = IF verified THEN "verified" ELSE "unsettled"]
         /\ live' = IF effect THEN live \ {plans[o].token} ELSE live
    /\ UNCHANGED <<local, lineage, ops, run, drawn>> /\ Rest

\* A plan that nobody ran is cancelled, or it is past its expiry.
LapsePlan(o) ==
    /\ plans[o].state = "draft"
    /\ plans' = [plans EXCEPT ![o].state = "lapsed"]
    /\ UNCHANGED <<local, live, lineage, ops, run, drawn>> /\ Rest

\* auth import-api-token over the publisher: the docs ask for a quiescent
\* activation window and promise no more than that.
ImportToken ==
    /\ Cardinality(imported) < 2 * MaxImports /\ drawn < MaxTokens
    /\ ~At("switch")
    /\ drawn' = drawn + 1
    /\ profile' = Unmanaged(drawn + 1)
    /\ secrets' = [secrets EXCEPT ![Legacy] = drawn + 1]
    /\ live' = live \cup {drawn + 1}
    /\ imported' = imported \cup {drawn + 1, profile.token}
    /\ disturbed' = (disturbed \/ ~At("idle"))
    /\ UNCHANGED <<staging, sink, attempt, record, plans, lineage, ops, run, unknown, faults>>

-----------------------------------------------------------------------------
Renew ==
    \/ \E recovery \in BOOLEAN : Open(recovery)
    \/ Repair \/ SaveRepaired \/ SaveReconciled \/ RetireSlot \/ Close \/ Due \/ Health
    \/ ClaimMint \/ Mint \/ ReadSink \/ RetainChild \/ StoreSlot \/ StageProfile \/ StagedReads
    \/ Discard \/ Unstage \/ DropSlot \/ CloseCleaned
    \/ RetainActivation \/ Activate \/ ActiveReads \/ Rollback \/ Revert
    \/ CompleteRecovery \/ RevokePredecessor \/ SavePending \/ DropOldSlot

Next == Renew \/ Stop \/ ImportToken \/ \E o \in Ops : RunPlan(o) \/ LapsePlan(o)

Spec == Init /\ [][Next]_vars

\* The publisher invokes renewal again and again and each run goes on; plan
\* creation does not fail for ever; a plan is run, cancelled or expires.
FairSpec ==
    /\ Spec
    /\ WF_vars(Renew)
    /\ SF_vars(Repair /\ run'.pc = "repaired")
    /\ \A o \in Ops : WF_vars(RunPlan(o) \/ LapsePlan(o))

-----------------------------------------------------------------------------
TypeOK ==
    /\ profile \in Profiles
    /\ staging \in Slots /\ sink \in Slots /\ secrets \in [Slots -> Slots]
    /\ attempt \in [state : {"none", "open", "closed"}, prior : Profiles,
                    mint : Slots, new : Slots, intended : BOOLEAN]
    /\ record \in [state : {"none", "pending", "active"}, prior : Slots, mint : Slots, new : Slots]
    /\ plans \in [Ops -> [token : Slots, state : {"none", "draft", "unsettled", "verified", "lapsed"}]]
    /\ live \subseteq Tokens /\ lineage \subseteq Tokens
    /\ run \in [pc : Pcs, recovery : BOOLEAN, old : Profiles, child : Slots,
                op : 0 .. MaxOps, verified : BOOLEAN, slot : Slots]
    /\ unknown \subseteq Tokens /\ imported \subseteq Tokens /\ disturbed \in BOOLEAN
    /\ drawn \in Tokens /\ ops \in 0 .. MaxOps /\ faults \in 0 .. MaxFaults

\* Every token the provider still accepts is accounted for: it is the active
\* one, or a durable record that forbids another mint names it (as the
\* predecessor, as the child, or through the mint operation), or it is the
\* predecessor that recovery declared unknown, or an import displaced it.
LiveTokensAreFenced ==
    \A t \in live :
        \/ t = profile.token
        \/ attempt.state = "open" /\ t \in {attempt.prior.token, attempt.mint}
        \/ record.state # "none" /\ t \in {record.prior, record.mint}
        \/ t \in imported

\* The publisher can always publish: its profile names a live token whose value
\* is in its slot, before, during and after every renewal, interrupted or not.
ActiveIsUsable ==
    disturbed \/ (profile.token \in live /\ secrets[profile.slot] = profile.token)

\* A predecessor of unknown identity is neither revoked nor forgotten.
UnknownPredecessorKept ==
    (imported = {} /\ unknown # {}) => unknown \subseteq live /\ secrets[Legacy] \in unknown

\* "Activation and rollback compare the complete expected profile projection;
\* an unexpected change is preserved": only the repair of a pending revocation
\* may write over an imported credential.
ImportSurvives ==
    [][(profile.token \in imported /\ ~profile.managed /\ profile' # profile) =>
          \/ At("repaired") \/ At("pending")
          \/ drawn' # drawn
          \/ run.old = profile]_vars

\* The plan of a pending revocation ended, and not verified: renewal neither
\* reconciles the overlap nor plans it again.
RevokePlanSpent == profile.op # 0 /\ plans[profile.op].state \in {"unsettled", "lapsed"}

\* A recorded overlap is reconciled by a later run, however often planning fails
\* and runs stop, unless its one recorded plan ended without verification.
PendingIsReconciled == (profile.pend # 0) ~> (profile.pend = 0 \/ RevokePlanSpent)
=============================================================================
