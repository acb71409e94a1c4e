----------------------- MODULE AdmissionPolicyProofs -----------------------
(***************************************************************************)
(* Proofs about AdmissionPolicy for every number of bundles, processes and  *)
(* plans.                                                                   *)
(***************************************************************************)
EXTENDS AdmissionPolicy, TLAPS

LEMMA InitType == Init => TypeOK
  <1> SUFFICES ASSUME Init PROVE TypeOK
      OBVIOUS
  <1>1. NoActivation \in Activations
      BY DEF NoActivation, Activations, ActivationPc, Policies
  <1>2. activation \in [Admin -> Activations]
      BY <1>1 DEF Init
  <1>3. plan \in [Plan -> Plans]
      BY DEF Init, Plans, PlanPc, Policies, Dispositions, AutoExecute, ApprovalRequired, Blocked
  <1>4. status \in [Bundle -> BundleStatuses]
      BY DEF Init, BundleStatuses
  <1>5. seen \in [Plan -> SUBSET Policies]
      BY DEF Init
  <1> QED
      BY <1>2, <1>3, <1>4, <1>5, InterruptsAssumption DEF Init, TypeOK, Policies

\* What the result of tightening is: a disposition at least as strict as the
\* floor and as every matching rule.
LEMMA TightenIsStrict ==
  ASSUME TypeOK, NEW b \in Bundle, NEW d \in Tighten(b)
  PROVE  d \in Dispositions /\ floor <= d /\ \A r \in rules[b] : r <= d
  <1>1. rules[b] \subseteq Dispositions
      BY DEF TypeOK, Dispositions, ApprovalRequired, Blocked
  <1> QED
      BY <1>1 DEF Tighten, TypeOK

\* The plan record after Pin.
LEMMA PinShape ==
  ASSUME TypeOK, NEW q \in Plan, NEW policy \in Policies, NEW D \in SUBSET Dispositions,
         Pin(q, policy, D)
  PROVE  \E p \in Plans :
            /\ plan' = [plan EXCEPT ![q] = p]
            /\ \/ p.pc = "refused"
               \/ p.pc = "prepared" /\ p.pin = policy /\ p.decision \in D /\ (D \ {Blocked} # {})
  <1>1. CASE D \ {Blocked} = {}
    <2> DEFINE p == [plan[q] EXCEPT !.pc = "refused"]
    <2>1. p \in Plans /\ p.pc = "refused"
        BY DEF TypeOK, Plans, PlanPc
    <2>2. plan' = [plan EXCEPT ![q] = p]
        BY <1>1 DEF Pin
    <2> QED
        BY <2>1, <2>2
  <1>2. CASE D \ {Blocked} # {}
    <2> DEFINE c == CHOOSE d \in D : TRUE
    <2> DEFINE p == [plan[q] EXCEPT !.pc = "prepared", !.pin = policy, !.decision = c]
    <2>1. c \in D
        BY <1>2
    <2> HIDE DEF c
    <2>2. p \in Plans /\ p.pc = "prepared" /\ p.pin = policy /\ p.decision = c
        BY <2>1 DEF TypeOK, Plans, PlanPc
    <2>3. plan' = [plan EXCEPT ![q] = p]
        BY <1>2 DEF Pin, c
    <2> QED
        BY <1>2, <2>1, <2>2, <2>3
  <1> QED
      BY <1>1, <1>2

-----------------------------------------------------------------------------
\* The inductive invariant.  While an activation is in progress its process
\* holds the lock, so nobody else moves the pointer or a status under it.

ActivationSound(a) ==
    /\ activation[a].pc # "idle" => guard = a /\ activation[a].target \in Bundle
    /\ activation[a].pc = "pointer" => status[activation[a].target] = "Active"
    /\ activation[a].pc = "previous" =>
         /\ selected = activation[a].target
         /\ activation[a].previous \in Bundle \ {activation[a].target}

\* A plan between its two reads remembers a policy that was selected since
\* its run began.
PlanSound(q) ==
    /\ plan[q].pc \in {"bundle", "check"} => plan[q].policy \in Bundle
    /\ plan[q].pc = "check" => plan[q].policy \in seen[q]

PolicyInv ==
    /\ TypeOK
    /\ PointerSelectsActive
    /\ \A a \in Admin : ActivationSound(a)
    /\ \A q \in Plan : PlanSound(q)
    /\ ConsumedUnderSelectedPolicy
    /\ DecisionKeepsFloor

LEMMA InitPolicy == Init => PolicyInv
  <1> SUFFICES ASSUME Init PROVE PolicyInv
      OBVIOUS
  <1>1. TypeOK
      BY InitType
  <1>2. PointerSelectsActive
      BY DEF Init, PointerSelectsActive
  <1>3. \A a \in Admin : ActivationSound(a)
      BY DEF Init, NoActivation, ActivationSound
  <1>4. \A q \in Plan : plan[q].pc = "new"
      BY DEF Init
  <1> QED
      BY <1>1, <1>2, <1>3, <1>4 DEF PolicyInv, PlanSound, ConsumedUnderSelectedPolicy, DecisionKeepsFloor

\* Staging and approving, which need the lock free, disturb no activation.
LEMMA StageApproveKeep ==
  ASSUME PolicyInv, NEW b \in Bundle, StageBundle(b) \/ ApproveBundle(b)
  PROVE  PolicyInv'
  <1>1. /\ guard = Nobody /\ status[b] \in {"Absent", "Pending"}
        /\ status' \in [Bundle -> BundleStatuses]
        /\ \A c \in Bundle \ {b} : status'[c] = status[c]
        /\ UNCHANGED <<selected, adminVars, planVars, fixed>>
      BY DEF StageBundle, ApproveBundle, SetStatus, PolicyInv, TypeOK, BundleStatuses
  <1>2. UNCHANGED <<selected, guard, activation, interrupts, plan, seen, rules, floor>>
      BY <1>1 DEF adminVars, planVars, fixed
  <1>3. TypeOK'
      BY <1>1, <1>2 DEF PolicyInv, TypeOK
  <1>4. PointerSelectsActive'
      BY <1>1, <1>2 DEF PolicyInv, TypeOK, Policies, PointerSelectsActive
  <1>5. \A a \in Admin : ActivationSound(a)'
      BY <1>1, <1>2, AdminAssumption DEF PolicyInv, ActivationSound
  <1>6. (\A q \in Plan : PlanSound(q))'
      BY <1>2 DEF PolicyInv, PlanSound
  <1>7. ConsumedUnderSelectedPolicy' /\ DecisionKeepsFloor'
      BY <1>2 DEF PolicyInv, ConsumedUnderSelectedPolicy, DecisionKeepsFloor
  <1> QED
      BY <1>3, <1>4, <1>5, <1>6, <1>7 DEF PolicyInv

\* A step of one process that ends with that process sound and moves only what
\* the holder of the lock may move keeps the other processes sound.
LEMMA OthersSound ==
  ASSUME PolicyInv, NEW a \in Admin,
         guard \in {Nobody, a},
         \A c \in Admin \ {a} : activation'[c] = activation[c]
  PROVE  \A c \in Admin \ {a} : ActivationSound(c)'
  BY AdminAssumption DEF PolicyInv, ActivationSound

LEMMA BeginActivationKeeps ==
  ASSUME PolicyInv, NEW a \in Admin, NEW b \in Bundle, BeginActivation(a, b)
  PROVE  PolicyInv'
  <1> DEFINE n == [pc |-> "target", target |-> b, previous |-> selected]
  <1>1. /\ guard = Nobody /\ guard' = a
        /\ activation' = [activation EXCEPT ![a] = n]
        /\ UNCHANGED <<status, selected, interrupts, plan, seen, rules, floor>>
      BY DEF BeginActivation, storeVars, planVars, fixed
  <1>2. n \in Activations
      BY DEF PolicyInv, TypeOK, Activations, ActivationPc, Policies
  <1>3. TypeOK'
      BY <1>1, <1>2 DEF PolicyInv, TypeOK
  <1>4. PointerSelectsActive'
      BY <1>1 DEF PolicyInv, PointerSelectsActive
  <1>5. activation'[a] = n /\ \A c \in Admin \ {a} : activation'[c] = activation[c]
      BY <1>1 DEF PolicyInv, TypeOK
  <1>6. \A c \in Admin : ActivationSound(c)'
    <2>1. ActivationSound(a)'
        BY <1>1, <1>5 DEF ActivationSound
    <2> QED
        BY <1>1, <1>5, <2>1, OthersSound
  <1>7. (\A q \in Plan : PlanSound(q))'
      BY <1>1 DEF PolicyInv, PlanSound
  <1>8. ConsumedUnderSelectedPolicy' /\ DecisionKeepsFloor'
      BY <1>1 DEF PolicyInv, ConsumedUnderSelectedPolicy, DecisionKeepsFloor
  <1> QED
      BY <1>3, <1>4, <1>6, <1>7, <1>8 DEF PolicyInv

LEMMA ActivateTargetKeeps ==
  ASSUME PolicyInv, NEW a \in Admin, ActivateTarget(a)
  PROVE  PolicyInv'
  <1> DEFINE n == [activation[a] EXCEPT !.pc = "pointer"]
  <1>1. /\ guard = a /\ activation[a].target \in Bundle
        /\ status' = [status EXCEPT ![activation[a].target] = "Active"]
        /\ activation' = [activation EXCEPT ![a] = n]
        /\ UNCHANGED <<selected, guard, interrupts, plan, seen, rules, floor>>
      BY DEF ActivateTarget, SetStatus, planVars, fixed, PolicyInv, ActivationSound
  <1>2. n \in Activations /\ n.pc = "pointer" /\ n.target = activation[a].target
      BY DEF PolicyInv, TypeOK, Activations, ActivationPc
  <1>3. TypeOK'
      BY <1>1, <1>2 DEF PolicyInv, TypeOK, BundleStatuses
  <1>4. PointerSelectsActive'
      BY <1>1 DEF PolicyInv, TypeOK, Policies, PointerSelectsActive
  <1>5. activation'[a] = n /\ \A c \in Admin \ {a} : activation'[c] = activation[c]
      BY <1>1 DEF PolicyInv, TypeOK
  <1>6. \A c \in Admin : ActivationSound(c)'
    <2>1. status'[activation[a].target] = "Active"
        BY <1>1 DEF PolicyInv, TypeOK
    <2>2. ActivationSound(a)'
        BY <1>1, <1>2, <1>5, <2>1 DEF ActivationSound
    <2> QED
        BY <1>1, <1>5, <2>2, OthersSound
  <1>7. (\A q \in Plan : PlanSound(q))'
      BY <1>1 DEF PolicyInv, PlanSound
  <1>8. ConsumedUnderSelectedPolicy' /\ DecisionKeepsFloor'
      BY <1>1 DEF PolicyInv, ConsumedUnderSelectedPolicy, DecisionKeepsFloor
  <1> QED
      BY <1>3, <1>4, <1>6, <1>7, <1>8 DEF PolicyInv

\* What the lock's holder leaves behind when its command ends.
LEMMA EndActivationShape ==
  ASSUME PolicyInv, NEW a \in Admin, EndActivation(a)
  PROVE  /\ guard' = Nobody
         /\ activation' \in [Admin -> Activations]
         /\ activation'[a] = NoActivation
         /\ \A c \in Admin \ {a} : activation'[c] = activation[c]
         /\ ActivationSound(a)'
  <1>1. NoActivation \in Activations /\ NoActivation.pc = "idle"
      BY DEF NoActivation, Activations, ActivationPc, Policies
  <1>2. activation' = [activation EXCEPT ![a] = NoActivation] /\ guard' = Nobody
      BY DEF EndActivation
  <1>3. activation' \in [Admin -> Activations] /\ activation'[a] = NoActivation
      BY <1>1, <1>2 DEF PolicyInv, TypeOK
  <1>4. \A c \in Admin \ {a} : activation'[c] = activation[c]
      BY <1>2 DEF PolicyInv, TypeOK
  <1> QED
      BY <1>1, <1>2, <1>3, <1>4 DEF ActivationSound

\* The pointer moves to a bundle that is already active, and every run in
\* progress gains it.
LEMMA PublishPointerKeeps ==
  ASSUME PolicyInv, NEW a \in Admin, PublishPointer(a)
  PROVE  PolicyInv'
  <1> DEFINE t == activation[a].target
  <1>1. /\ guard = a /\ t \in Bundle /\ status[t] = "Active"
        /\ activation[a] \in Activations
        /\ selected' = t
        /\ seen' = [q \in Plan |-> seen[q] \cup {t}]
        /\ UNCHANGED <<status, interrupts, plan, rules, floor>>
      BY DEF PublishPointer, fixed, PolicyInv, ActivationSound, TypeOK
  <1>2. /\ activation' \in [Admin -> Activations]
        /\ guard' \in Admin \cup {Nobody}
        /\ \A c \in Admin \ {a} : activation'[c] = activation[c]
        /\ ActivationSound(a)'
    <2>1. CASE activation[a].previous \in {NoBundle, t}
        BY <2>1, EndActivationShape DEF PublishPointer
    <2>2. CASE activation[a].previous \notin {NoBundle, t}
      <3> DEFINE n == [activation[a] EXCEPT !.pc = "previous"]
      <3>1. /\ n \in Activations /\ n.pc = "previous" /\ n.target = t
            /\ n.previous \in Bundle \ {t}
          BY <1>1, <2>2 DEF Activations, ActivationPc, Policies
      <3>2. activation' = [activation EXCEPT ![a] = n] /\ guard' = guard
          BY <2>2 DEF PublishPointer
      <3>3. /\ activation' \in [Admin -> Activations] /\ activation'[a] = n
            /\ \A c \in Admin \ {a} : activation'[c] = activation[c]
          BY <3>1, <3>2 DEF PolicyInv, TypeOK
      <3>4. ActivationSound(a)'
          BY <1>1, <3>1, <3>2, <3>3 DEF ActivationSound
      <3> QED
          BY <1>1, <3>2, <3>3, <3>4
    <2> QED
        BY <2>1, <2>2
  <1>3. \A q \in Plan : seen'[q] = seen[q] \cup {t} /\ seen[q] \subseteq Policies
      BY <1>1 DEF PolicyInv, TypeOK
  <1>4. TypeOK'
    <2>1. seen' \in [Plan -> SUBSET Policies]
        BY <1>1, <1>3 DEF Policies
    <2> QED
        BY <1>1, <1>2, <2>1 DEF PolicyInv, TypeOK, Policies
  <1>5. PointerSelectsActive'
      BY <1>1 DEF PointerSelectsActive
  <1>6. \A c \in Admin : ActivationSound(c)'
      BY <1>1, <1>2, OthersSound
  <1>7. (\A q \in Plan : PlanSound(q))'
      BY <1>1, <1>3 DEF PolicyInv, PlanSound
  <1>8. ConsumedUnderSelectedPolicy' /\ DecisionKeepsFloor'
      BY <1>1, <1>3 DEF PolicyInv, ConsumedUnderSelectedPolicy, DecisionKeepsFloor
  <1> QED
      BY <1>4, <1>5, <1>6, <1>7, <1>8 DEF PolicyInv

LEMMA EndKeeps ==
  ASSUME PolicyInv, NEW a \in Admin, SupersedePrevious(a) \/ InterruptActivation(a)
  PROVE  PolicyInv'
  <1>1. /\ activation[a].pc # "idle" /\ guard = a
        /\ EndActivation(a)
        /\ UNCHANGED <<selected, plan, seen, rules, floor>>
      BY DEF SupersedePrevious, InterruptActivation, storeVars, planVars, fixed, PolicyInv, ActivationSound
  <1>2. interrupts' \in 0 .. MaxInterrupts
      BY InterruptsAssumption DEF SupersedePrevious, InterruptActivation, PolicyInv, TypeOK
  <1>3. /\ status' \in [Bundle -> BundleStatuses]
        /\ \A b \in Bundle : b = selected => status'[b] = status[b]
    <2>1. CASE SupersedePrevious(a)
      <3>1. activation[a].previous \in Bundle \ {selected}
          BY <2>1 DEF SupersedePrevious, PolicyInv, ActivationSound
      <3> QED
          BY <2>1, <3>1 DEF SupersedePrevious, SetStatus, PolicyInv, TypeOK, BundleStatuses
    <2>2. CASE InterruptActivation(a)
        BY <2>2 DEF InterruptActivation, storeVars, PolicyInv, TypeOK
    <2> QED
        BY <2>1, <2>2
  <1>4. TypeOK'
      BY <1>1, <1>2, <1>3, EndActivationShape DEF PolicyInv, TypeOK
  <1>5. PointerSelectsActive'
      BY <1>1, <1>3 DEF PolicyInv, TypeOK, Policies, PointerSelectsActive
  <1>6. \A c \in Admin : ActivationSound(c)'
      BY <1>1, EndActivationShape, OthersSound
  <1>7. (\A q \in Plan : PlanSound(q))'
      BY <1>1 DEF PolicyInv, PlanSound
  <1>8. ConsumedUnderSelectedPolicy' /\ DecisionKeepsFloor'
      BY <1>1 DEF PolicyInv, ConsumedUnderSelectedPolicy, DecisionKeepsFloor
  <1> QED
      BY <1>4, <1>5, <1>6, <1>7, <1>8 DEF PolicyInv

-----------------------------------------------------------------------------
\* Plan steps.  What the invariant says of one plan, as a predicate of its
\* record and of the policies seen since its run began.

Decided(p) ==
    /\ floor <= p.decision /\ p.decision # Blocked
    /\ p.pin # NoBundle => \A r \in rules[p.pin] : r <= p.decision

RecordSound(p, S) ==
    /\ p.pc \in {"bundle", "check"} => p.policy \in Bundle
    /\ p.pc = "check" => p.policy \in S
    /\ p.pc \in {"admitted", "consumed"} => p.pin \in S
    /\ p.pc \in {"prepared", "check", "admitted", "consumed"} => Decided(p)

LEMMA PlanIsSound ==
  ASSUME PolicyInv, NEW q \in Plan
  PROVE  plan[q] \in Plans /\ seen[q] \in SUBSET Policies /\ RecordSound(plan[q], seen[q])
  BY DEF PolicyInv, TypeOK, PlanSound, ConsumedUnderSelectedPolicy, DecisionKeepsFloor,
         RecordSound, Decided

\* A step that replaces one plan's record by a sound one keeps the invariant.
LEMMA PlanReplaced ==
  ASSUME PolicyInv, NEW q \in Plan, NEW p \in Plans, NEW S \in SUBSET Policies,
         plan' = [plan EXCEPT ![q] = p], seen' = [seen EXCEPT ![q] = S],
         UNCHANGED <<storeVars, adminVars, fixed>>,
         RecordSound(p, S)
  PROVE  PolicyInv'
  <1>1. UNCHANGED <<status, selected, guard, activation, interrupts, rules, floor>>
      BY DEF storeVars, adminVars, fixed
  <1>2. TypeOK'
      BY <1>1 DEF PolicyInv, TypeOK
  <1>3. PointerSelectsActive'
      BY <1>1 DEF PolicyInv, PointerSelectsActive
  <1>4. \A a \in Admin : ActivationSound(a)'
      BY <1>1 DEF PolicyInv, ActivationSound
  <1>5. \A r \in Plan : RecordSound(plan'[r], seen'[r])
    <2> SUFFICES ASSUME NEW r \in Plan PROVE RecordSound(plan'[r], seen'[r])
        OBVIOUS
    <2>1. CASE r = q
        BY <2>1 DEF PolicyInv, TypeOK
    <2>2. CASE r # q
      <3>1. plan'[r] = plan[r] /\ seen'[r] = seen[r]
          BY <2>2 DEF PolicyInv, TypeOK
      <3> QED
          BY <3>1, PlanIsSound
    <2> QED
        BY <2>1, <2>2
  <1>6. (\A r \in Plan : PlanSound(r))'
      BY <1>1, <1>5 DEF PlanSound, RecordSound
  <1>7. ConsumedUnderSelectedPolicy'
      BY <1>5 DEF ConsumedUnderSelectedPolicy, RecordSound
  <1>8. DecisionKeepsFloor'
      BY <1>1, <1>5 DEF DecisionKeepsFloor, RecordSound, Decided
  <1> QED
      BY <1>2, <1>3, <1>4, <1>6, <1>7, <1>8 DEF PolicyInv

\* Pinning the one decision that is strict enough keeps the invariant.
LEMMA PinKeeps ==
  ASSUME PolicyInv, NEW q \in Plan, NEW policy \in Policies, NEW D \in SUBSET Dispositions,
         Pin(q, policy, D),
         \A d \in D : floor <= d /\ (policy # NoBundle => \A r \in rules[policy] : r <= d),
         \A d, e \in D : d = e,
         UNCHANGED <<storeVars, adminVars, seen, fixed>>
  PROVE  PolicyInv'
  <1>1. PICK p \in Plans :
            /\ plan' = [plan EXCEPT ![q] = p]
            /\ \/ p.pc = "refused"
               \/ p.pc = "prepared" /\ p.pin = policy /\ p.decision \in D /\ (D \ {Blocked} # {})
      BY PinShape DEF PolicyInv
  <1>2. RecordSound(p, seen[q])
    <2>1. CASE p.pc = "refused"
        BY <2>1 DEF RecordSound
    <2>2. CASE /\ p.pc = "prepared" /\ p.pin = policy /\ p.decision \in D
               /\ (D \ {Blocked} # {})
      <3>1. p.decision # Blocked
          BY <2>2
      <3> QED
          BY <2>2, <3>1 DEF RecordSound, Decided
    <2> QED
        BY <1>1, <2>1, <2>2
  <1>3. seen' = [seen EXCEPT ![q] = seen[q]] /\ seen[q] \in SUBSET Policies
      BY DEF PolicyInv, TypeOK
  <1> QED
      BY <1>1, <1>2, <1>3, PlanReplaced

\* Tightening has at most one result: the strictest disposition in play.
LEMMA TightenIsSingle ==
  ASSUME TypeOK, NEW b \in Bundle, NEW d \in Tighten(b), NEW e \in Tighten(b)
  PROVE  d = e
  <1>1. d \in Nat /\ e \in Nat
      BY TightenIsStrict DEF Dispositions, AutoExecute, ApprovalRequired, Blocked
  <1>2. d <= e /\ e <= d
      BY DEF Tighten
  <1> QED
      BY <1>1, <1>2

LEMMA PrepareKeeps ==
  ASSUME PolicyInv, NEW q \in Plan, PrepareReadPointer(q) \/ PrepareReadBundle(q)
  PROVE  PolicyInv'
  <1>1. CASE PrepareReadPointer(q)
    <2>1. CASE selected = NoBundle
      <3>1. Pin(q, NoBundle, {floor}) /\ UNCHANGED <<storeVars, adminVars, seen, fixed>>
          BY <1>1, <2>1 DEF PrepareReadPointer
      <3>2. {floor} \in SUBSET Dispositions /\ floor <= floor /\ NoBundle \in Policies
          BY DEF PolicyInv, TypeOK, Policies, Dispositions, AutoExecute, ApprovalRequired, Blocked
      <3> QED
          BY <3>1, <3>2, PinKeeps
    <2>2. CASE selected # NoBundle
      <3> DEFINE p == [plan[q] EXCEPT !.pc = "bundle", !.policy = selected]
      <3>1. /\ plan' = [plan EXCEPT ![q] = p] /\ seen' = [seen EXCEPT ![q] = seen[q]]
            /\ UNCHANGED <<storeVars, adminVars, fixed>>
          BY <1>1, <2>2 DEF PrepareReadPointer, PolicyInv, TypeOK
      <3>2. p \in Plans /\ p.pc = "bundle" /\ p.policy = selected /\ selected \in Bundle
          BY <2>2, PlanIsSound DEF Plans, PlanPc, PolicyInv, TypeOK, Policies
      <3>3. RecordSound(p, seen[q])
          BY <3>2 DEF RecordSound
      <3> QED
          BY <3>1, <3>2, <3>3, PlanIsSound, PlanReplaced
    <2> QED
        BY <2>1, <2>2
  <1>2. CASE PrepareReadBundle(q)
    <2> DEFINE b == plan[q].policy
    <2>1. b \in Bundle /\ UNCHANGED <<storeVars, adminVars, seen, fixed>>
        BY <1>2, PlanIsSound DEF PrepareReadBundle, RecordSound
    <2>2. CASE status[b] = "Active"
      <3>1. Pin(q, b, Tighten(b))
          BY <1>2, <2>2 DEF PrepareReadBundle
      <3>2. Tighten(b) \in SUBSET Dispositions /\ b \in Policies
          BY <2>1, TightenIsStrict DEF PolicyInv, Policies
      <3>3. \A d \in Tighten(b) : floor <= d /\ \A r \in rules[b] : r <= d
          BY <2>1, TightenIsStrict DEF PolicyInv
      <3>4. \A d, e \in Tighten(b) : d = e
          BY <2>1, TightenIsSingle DEF PolicyInv
      <3> QED
          BY <2>1, <3>1, <3>2, <3>3, <3>4, PinKeeps
    <2>3. CASE status[b] # "Active"
      <3> DEFINE p == [plan[q] EXCEPT !.pc = "refused"]
      <3>1. plan' = [plan EXCEPT ![q] = p] /\ seen' = [seen EXCEPT ![q] = seen[q]]
          BY <1>2, <2>3 DEF PrepareReadBundle, PolicyInv, TypeOK
      <3>2. p \in Plans /\ p.pc = "refused"
          BY PlanIsSound DEF Plans, PlanPc
      <3>3. RecordSound(p, seen[q])
          BY <3>2 DEF RecordSound
      <3> QED
          BY <2>1, <3>1, <3>2, <3>3, PlanIsSound, PlanReplaced
    <2> QED
        BY <2>2, <2>3
  <1> QED
      BY <1>1, <1>2

LEMMA CheckKeeps ==
  ASSUME PolicyInv, NEW q \in Plan,
         CheckReadPointer(q) \/ CheckReadBundle(q) \/ ConsumePlan(q)
  PROVE  PolicyInv'
  <1>1. CASE CheckReadPointer(q)
    <2> DEFINE c == IF selected # NoBundle THEN "check"
                    ELSE IF plan[q].pin = NoBundle THEN "admitted" ELSE "prepared"
    <2> DEFINE p == [plan[q] EXCEPT !.policy = selected, !.pc = c]
    <2>1. /\ plan' = [plan EXCEPT ![q] = p] /\ seen' = [seen EXCEPT ![q] = {selected}]
          /\ UNCHANGED <<storeVars, adminVars, fixed>>
        BY <1>1 DEF CheckReadPointer
    <2>2. selected \in Policies /\ Decided(plan[q])
        BY <1>1, PlanIsSound DEF CheckReadPointer, RecordSound, PolicyInv, TypeOK
    <2>3. /\ p \in Plans /\ p.pc = c /\ p.policy = selected
          /\ p.pin = plan[q].pin /\ p.decision = plan[q].decision
        BY <2>2, PlanIsSound DEF Plans, PlanPc
    <2>4. RecordSound(p, {selected})
        BY <2>2, <2>3 DEF RecordSound, Decided, Policies
    <2>5. {selected} \in SUBSET Policies
        BY <2>2
    <2> HIDE DEF p, c
    <2> QED
        BY <2>1, <2>3, <2>4, <2>5, PlanReplaced
  <1>2. CASE CheckReadBundle(q)
    <2> DEFINE p == [plan[q] EXCEPT !.pc = IF PinHolds(q) THEN "admitted" ELSE "prepared"]
    <2>1. /\ plan' = [plan EXCEPT ![q] = p] /\ seen' = [seen EXCEPT ![q] = seen[q]]
          /\ UNCHANGED <<storeVars, adminVars, fixed>>
        BY <1>2 DEF CheckReadBundle, PolicyInv, TypeOK
    <2>2. /\ Decided(plan[q]) /\ plan[q].policy \in seen[q]
          /\ PinHolds(q) => plan[q].pin = plan[q].policy
        BY <1>2, PlanIsSound DEF CheckReadBundle, RecordSound, PinHolds
    <2>3. /\ p \in Plans /\ p.pc = IF PinHolds(q) THEN "admitted" ELSE "prepared"
          /\ p.pin = plan[q].pin /\ p.decision = plan[q].decision
        BY PlanIsSound DEF Plans, PlanPc
    <2>4. RecordSound(p, seen[q])
        BY <2>2, <2>3 DEF RecordSound, Decided
    <2> QED
        BY <2>1, <2>3, <2>4, PlanIsSound, PlanReplaced
  <1>3. CASE ConsumePlan(q)
    <2> DEFINE p == [plan[q] EXCEPT !.pc = "consumed"]
    <2>1. /\ plan' = [plan EXCEPT ![q] = p] /\ seen' = [seen EXCEPT ![q] = seen[q]]
          /\ UNCHANGED <<storeVars, adminVars, fixed>>
        BY <1>3 DEF ConsumePlan, PolicyInv, TypeOK
    <2>2. Decided(plan[q]) /\ plan[q].pin \in seen[q]
        BY <1>3, PlanIsSound DEF ConsumePlan, RecordSound
    <2>3. /\ p \in Plans /\ p.pc = "consumed"
          /\ p.pin = plan[q].pin /\ p.decision = plan[q].decision
        BY PlanIsSound DEF Plans, PlanPc
    <2>4. RecordSound(p, seen[q])
        BY <2>2, <2>3 DEF RecordSound, Decided
    <2> QED
        BY <2>1, <2>3, <2>4, PlanIsSound, PlanReplaced
  <1> QED
      BY <1>1, <1>2, <1>3

-----------------------------------------------------------------------------

LEMMA PolicyStep == PolicyInv /\ [Next]_vars => PolicyInv'
  <1> SUFFICES ASSUME PolicyInv, [Next]_vars PROVE PolicyInv'
      OBVIOUS
  <1>1. ASSUME NEW b \in Bundle, StageBundle(b) \/ ApproveBundle(b) PROVE PolicyInv'
      BY <1>1, StageApproveKeep
  <1>2. ASSUME NEW a \in Admin, AdminStep(a) PROVE PolicyInv'
      BY <1>2, BeginActivationKeeps, ActivateTargetKeeps, PublishPointerKeeps, EndKeeps DEF AdminStep
  <1>3. ASSUME NEW q \in Plan, PlanStep(q) PROVE PolicyInv'
      BY <1>3, PrepareKeeps, CheckKeeps DEF PlanStep
  <1>4. CASE UNCHANGED vars
    <2>1. UNCHANGED <<status, selected, guard, activation, interrupts, plan, seen, rules, floor>>
        BY <1>4 DEF vars, storeVars, adminVars, planVars, fixed
    <2>2. TypeOK' /\ PointerSelectsActive'
        BY <2>1 DEF PolicyInv, TypeOK, PointerSelectsActive
    <2>3. \A a \in Admin : ActivationSound(a)'
        BY <2>1 DEF PolicyInv, ActivationSound
    <2>4. (\A q \in Plan : PlanSound(q))'
        BY <2>1 DEF PolicyInv, PlanSound
    <2>5. ConsumedUnderSelectedPolicy' /\ DecisionKeepsFloor'
        BY <2>1 DEF PolicyInv, ConsumedUnderSelectedPolicy, DecisionKeepsFloor
    <2> QED
        BY <2>2, <2>3, <2>4, <2>5 DEF PolicyInv
  <1> QED
      BY <1>1, <1>2, <1>3, <1>4 DEF Next

LEMMA PolicyInvHolds == Spec => []PolicyInv
  BY InitPolicy, PolicyStep, PTL DEF Spec

\* Type correctness of the admission policy store, its commands and the plans
\* that read it.
THEOREM PolicyTypeCorrect == Spec => []TypeOK
  <1>1. PolicyInv => TypeOK
      BY DEF PolicyInv
  <1> QED
      BY <1>1, PolicyInvHolds, PTL

\* However many activations and rollbacks are interrupted, at whichever of
\* their three writes, the pointer selects an Active bundle.
THEOREM PointerSelectsActiveHolds == Spec => []PointerSelectsActive
  <1>1. PolicyInv => PointerSelectsActive
      BY DEF PolicyInv
  <1> QED
      BY <1>1, PolicyInvHolds, PTL

\* The two unlocked reads of the pin check admit a plan only under a policy
\* that was selected at some moment since the run began.
THEOREM ConsumedUnderSelectedPolicyHolds == Spec => []ConsumedUnderSelectedPolicy
  <1>1. PolicyInv => ConsumedUnderSelectedPolicy
      BY DEF PolicyInv
  <1> QED
      BY <1>1, PolicyInvHolds, PTL

\* No sequence of policy commands lets a plan reach consumption with a
\* decision weaker than the compiled floor or than a rule of its policy.
THEOREM DecisionKeepsFloorHolds == Spec => []DecisionKeepsFloor
  <1>1. PolicyInv => DecisionKeepsFloor
      BY DEF PolicyInv
  <1> QED
      BY <1>1, PolicyInvHolds, PTL
=============================================================================
