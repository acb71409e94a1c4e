-------------------------- MODULE AdmissionPolicy --------------------------
(***************************************************************************)
(* Admission policy bundles: staged, approved, activated and rolled back    *)
(* under an OS file lock that the kernel releases when its holder ends.     *)
(* The bundles and the pointer that selects the active one are separate     *)
(* files; activation writes the target, the pointer and the previous        *)
(* bundle, in that order, and may be interrupted between them.              *)
(*                                                                          *)
(* Planning and running a mutation read the pointer and then the bundle     *)
(* without the lock.  A plan pins the policy it was prepared under; a run   *)
(* compares the pin with the policy it finds, awaits its live               *)
(* preconditions, and then consumes the plan.                               *)
(***************************************************************************)
EXTENDS Naturals, FiniteSets

CONSTANTS
    Bundle,       \* bundle identities; the content of one never changes
    NoBundle,     \* no pointer file: the compiled safety floor alone
    Admin,        \* processes that run `policy admission` commands
    Nobody,       \* holder of a free lock
    Plan,         \* mutation plans
    MaxInterrupts \* bound: activations cut short in a behaviour

ASSUME BundleAssumption == NoBundle \notin Bundle
ASSUME AdminAssumption == Nobody \notin Admin
ASSUME InterruptsAssumption == MaxInterrupts \in Nat

VARIABLES
    status,      \* AdmissionPolicyBundleStatusV1 of each bundle
    selected,    \* active.json
    guard,       \* holder of admission-policy.lock
    activation,  \* each admin's activation: position, target, previous
    plan,        \* each plan: position, policy read, pin and decision
    rules,       \* dispositions of the rules of a bundle that match the capability
    floor,       \* the disposition of the compiled policy engine
    seen,        \* history: policies selected since the plan's run began
    interrupts

storeVars == <<status, selected>>
adminVars == <<guard, activation, interrupts>>
planVars == <<plan, seen>>
fixed == <<rules, floor>>
vars == <<storeVars, adminVars, planVars, fixed>>

-----------------------------------------------------------------------------
\* PolicyDisposition by restriction_rank.
AutoExecute == 0
ApprovalRequired == 1
Blocked == 2
Dispositions == {AutoExecute, ApprovalRequired, Blocked}

Policies == Bundle \cup {NoBundle}

\* The values that reach the store; no command calls revoke().
BundleStatuses == {"Absent", "Pending", "Approved", "Active", "Superseded"}

ActivationPc == {"idle", "target", "pointer", "previous"}
Activations == [pc: ActivationPc, target: Policies, previous: Policies]
NoActivation == [pc |-> "idle", target |-> NoBundle, previous |-> NoBundle]

PlanPc == {"new", "bundle", "prepared", "check", "admitted", "consumed", "refused"}
Plans == [pc: PlanPc, policy: Policies, pin: Policies, decision: Dispositions]

TypeOK ==
    /\ status \in [Bundle -> BundleStatuses]
    /\ selected \in Policies
    /\ guard \in Admin \cup {Nobody}
    /\ activation \in [Admin -> Activations]
    /\ plan \in [Plan -> Plans]
    /\ rules \in [Bundle -> SUBSET {ApprovalRequired, Blocked}]
    /\ floor \in Dispositions
    /\ seen \in [Plan -> SUBSET Policies]
    /\ interrupts \in 0 .. MaxInterrupts

\* A bundle with an AutoExecute rule cannot be staged.
Init ==
    /\ status = [b \in Bundle |-> "Absent"]
    /\ selected = NoBundle
    /\ guard = Nobody
    /\ activation = [a \in Admin |-> NoActivation]
    /\ rules \in [Bundle -> SUBSET {ApprovalRequired, Blocked}]
    /\ floor \in Dispositions
    /\ plan = [q \in Plan |-> [pc |-> "new", policy |-> NoBundle, pin |-> NoBundle,
                               decision |-> Blocked]]
    /\ seen = [q \in Plan |-> {}]
    /\ interrupts = 0

-----------------------------------------------------------------------------
\* Policy commands.  A command with one write under the lock is one step: an
\* interruption leaves the state before it or after it.

SetStatus(b, s) == status' = [status EXCEPT ![b] = s]

StageBundle(b) ==
    /\ guard = Nobody /\ status[b] = "Absent"
    /\ SetStatus(b, "Pending")
    /\ UNCHANGED <<selected, adminVars, planVars, fixed>>

ApproveBundle(b) ==
    /\ guard = Nobody /\ status[b] = "Pending"
    /\ SetStatus(b, "Approved")
    /\ UNCHANGED <<selected, adminVars, planVars, fixed>>

\* AdmissionPolicyBundleV1::activate: a first activation or a rollback.
Activatable(b) == status[b] \in {"Approved", "Superseded"}

\* Defect: the previous bundle is superseded before the pointer moves.
BeginActivation_SupersedesFirst(a, b) ==
    /\ guard = Nobody /\ activation[a].pc = "idle"
    /\ Activatable(b)
    /\ guard' = a
    /\ status' = [c \in Bundle |-> IF c = selected THEN "Superseded" ELSE status[c]]
    /\ activation' = [activation EXCEPT ![a] = [pc |-> "target", target |-> b, previous |-> selected]]
    /\ UNCHANGED <<selected, interrupts, planVars, fixed>>

\* activate_admission_bundle under the lock, up to its first write.
BeginActivation(a, b) ==
    /\ guard = Nobody /\ activation[a].pc = "idle"
    /\ Activatable(b)
    /\ guard' = a
    /\ activation' = [activation EXCEPT ![a] = [pc |-> "target", target |-> b, previous |-> selected]]
    /\ UNCHANGED <<storeVars, interrupts, planVars, fixed>>

\* The command ends and drops its lock.
EndActivation(a) ==
    /\ guard' = Nobody
    /\ activation' = [activation EXCEPT ![a] = NoActivation]

ActivateTarget(a) ==
    /\ activation[a].pc = "target"
    /\ SetStatus(activation[a].target, "Active")
    /\ activation' = [activation EXCEPT ![a].pc = "pointer"]
    /\ UNCHANGED <<selected, guard, interrupts, planVars, fixed>>

\* Every run in progress sees the new selection.
PublishPointer(a) ==
    /\ activation[a].pc = "pointer"
    /\ selected' = activation[a].target
    /\ seen' = [q \in Plan |-> seen[q] \cup {activation[a].target}]
    /\ IF activation[a].previous \in {NoBundle, activation[a].target}
       THEN EndActivation(a)
       ELSE activation' = [activation EXCEPT ![a].pc = "previous"] /\ UNCHANGED guard
    /\ UNCHANGED <<status, interrupts, plan, fixed>>

SupersedePrevious(a) ==
    /\ activation[a].pc = "previous"
    /\ IF status[activation[a].previous] = "Active"
       THEN SetStatus(activation[a].previous, "Superseded") ELSE UNCHANGED status
    /\ EndActivation(a)
    /\ UNCHANGED <<selected, interrupts, planVars, fixed>>

\* The process dies or a write fails: the remaining writes do not happen.
InterruptActivation(a) ==
    /\ activation[a].pc # "idle" /\ interrupts < MaxInterrupts
    /\ interrupts' = interrupts + 1
    /\ EndActivation(a)
    /\ UNCHANGED <<storeVars, planVars, fixed>>

-----------------------------------------------------------------------------
\* active_admission_policy, in the two reads it makes.

\* Defect: a matching rule replaces the compiled disposition.
Tighten_RuleReplaces(b) ==
    IF rules[b] = {} THEN {floor} ELSE rules[b]

\* AdmissionPolicyBundleV1::tighten: the dispositions the loop may end with;
\* none when a matching rule is weaker than the floor, which is an error.
Tighten(b) ==
    IF \E r \in rules[b] : r < floor THEN {}
    ELSE {d \in rules[b] \cup {floor} : \A e \in rules[b] \cup {floor} : e <= d}

\* The plan is prepared with a pinned policy unless it is blocked.
Pin(q, policy, decisions) ==
    plan' = [plan EXCEPT ![q] =
               IF decisions \ {Blocked} = {}
               THEN [@ EXCEPT !.pc = "refused"]
               ELSE [@ EXCEPT !.pc = "prepared", !.pin = policy,
                              !.decision = CHOOSE d \in decisions : TRUE]]

PrepareReadPointer(q) ==
    /\ plan[q].pc = "new"
    /\ IF selected = NoBundle
       THEN Pin(q, NoBundle, {floor})
       ELSE plan' = [plan EXCEPT ![q].pc = "bundle", ![q].policy = selected]
    /\ UNCHANGED <<storeVars, adminVars, seen, fixed>>

PrepareReadBundle(q) ==
    /\ plan[q].pc = "bundle"
    /\ IF status[plan[q].policy] = "Active"
       THEN Pin(q, plan[q].policy, Tighten(plan[q].policy))
       ELSE plan' = [plan EXCEPT ![q].pc = "refused"]
    /\ UNCHANGED <<storeVars, adminVars, seen, fixed>>

\* The policy part of validate_plan_v2_runtime_pins; a drifted pin refuses
\* the run, and a later run checks again.
CheckReadPointer(q) ==
    /\ plan[q].pc = "prepared"
    /\ seen' = [seen EXCEPT ![q] = {selected}]
    /\ plan' = [plan EXCEPT ![q].policy = selected,
                            ![q].pc = IF selected # NoBundle THEN "check"
                                      ELSE IF plan[q].pin = NoBundle THEN "admitted" ELSE "prepared"]
    /\ UNCHANGED <<storeVars, adminVars, fixed>>

\* Defect: the bundle found active is not compared with the pin.
PinHolds_AnyActive(q) == status[plan[q].policy] = "Active"

PinHolds(q) == status[plan[q].policy] = "Active" /\ plan[q].policy = plan[q].pin

CheckReadBundle(q) ==
    /\ plan[q].pc = "check"
    /\ plan' = [plan EXCEPT ![q].pc = IF PinHolds(q) THEN "admitted" ELSE "prepared"]
    /\ UNCHANGED <<storeVars, adminVars, seen, fixed>>

\* run_plan after its awaits: mark_consumed, without a further policy read.
ConsumePlan(q) ==
    /\ plan[q].pc = "admitted"
    /\ plan' = [plan EXCEPT ![q].pc = "consumed"]
    /\ UNCHANGED <<storeVars, adminVars, seen, fixed>>

-----------------------------------------------------------------------------

AdminStep(a) ==
    \/ \E b \in Bundle : BeginActivation(a, b)
    \/ ActivateTarget(a) \/ PublishPointer(a) \/ SupersedePrevious(a) \/ InterruptActivation(a)

PlanStep(q) ==
    \/ PrepareReadPointer(q) \/ PrepareReadBundle(q)
    \/ CheckReadPointer(q) \/ CheckReadBundle(q) \/ ConsumePlan(q)

Next ==
    \/ \E b \in Bundle : StageBundle(b) \/ ApproveBundle(b)
    \/ \E a \in Admin : AdminStep(a)
    \/ \E q \in Plan : PlanStep(q)

Spec == Init /\ [][Next]_vars

-----------------------------------------------------------------------------

\* Whatever write of an activation was the last one made, the pointer selects
\* a bundle that active_admission_policy accepts: no interrupted activation
\* or rollback leaves every later plan and run refused.
PointerSelectsActive == selected # NoBundle => status[selected] = "Active"

\* A plan is consumed only under a policy that was the selected one at some
\* moment since its run began, although pointer and bundle are read apart.
ConsumedUnderSelectedPolicy ==
    \A q \in Plan : plan[q].pc \in {"admitted", "consumed"} => plan[q].pin \in seen[q]

\* Through staging, activation, rollback and the pin check, a plan that gets
\* as far as consumption carries a decision no weaker than the compiled floor
\* and than every rule of the policy it is pinned to.
DecisionKeepsFloor ==
    \A q \in Plan : plan[q].pc \in {"prepared", "check", "admitted", "consumed"} =>
        /\ floor <= plan[q].decision /\ plan[q].decision # Blocked
        /\ plan[q].pin # NoBundle => \A r \in rules[plan[q].pin] : r <= plan[q].decision
=============================================================================
