----------------------- MODULE AnalyticsRenewalProofs -----------------------
(***************************************************************************)
(* Proofs about the renewal of the publisher's analytics token, for any     *)
(* number of tokens, revoke plans, stopped runs and credential imports.     *)
(***************************************************************************)
EXTENDS AnalyticsRenewal, TLAPS

-----------------------------------------------------------------------------
\* Types.

Attempts == [state : {"none", "open", "closed"}, prior : Profiles,
             mint : Slots, new : Slots, intended : BOOLEAN]
Records == [state : {"none", "pending", "active"}, prior : Slots, mint : Slots, new : Slots]
Revocation == [token : Slots, state : {"none", "draft", "unsettled", "verified", "lapsed"}]
Runs == [pc : Pcs, recovery : BOOLEAN, old : Profiles, child : Slots,
         op : 0 .. MaxOps, verified : BOOLEAN, slot : Slots]

LEMMA BoundTypes ==
  /\ MaxTokens \in Nat /\ MaxOps \in Nat /\ MaxFaults \in Nat /\ MaxTokens > 0
  /\ Tokens \subseteq Slots /\ 0 \in Slots /\ 1 \in Tokens
  /\ \A t \in Slots : t # 0 <=> t \in Tokens
  /\ \A o \in 0 .. MaxOps : o # 0 <=> o \in Ops
BY RenewalAssumption DEF Tokens, Slots, Ops

LEMMA ProfileTypes ==
  /\ \A t \in Tokens : Unmanaged(t) \in Profiles /\ Child(t) \in Profiles
  /\ \A prof \in Profiles : Settled(prof) \in Profiles
<1>1. 0 \in 0 .. MaxOps /\ 0 .. MaxTokens = Slots
  BY BoundTypes DEF Slots
<1>2. \A t \in Tokens : Unmanaged(t) \in Profiles /\ Child(t) \in Profiles
  BY <1>1, BoundTypes DEF Unmanaged, Child, Profiles, Legacy
<1>3. \A prof \in Profiles : Settled(prof) \in Profiles
  BY <1>1, BoundTypes DEF Settled, Profiles
<1> QED BY <1>2, <1>3

LEMMA IdleType == Idle \in Runs /\ NoAttempt \in Attempts /\ NoRecord \in Records
<1>1. 0 \in 0 .. MaxOps /\ Unmanaged(1) \in Profiles
  BY BoundTypes, ProfileTypes
<1>2. Idle \in Runs
  BY <1>1, BoundTypes DEF Idle, Runs, Pcs
<1>3. NoAttempt \in Attempts /\ NoRecord \in Records
  BY <1>1, BoundTypes DEF NoAttempt, NoRecord, Attempts, Records
<1> QED BY <1>2, <1>3

Typed ==
  /\ profile \in Profiles /\ staging \in Slots /\ sink \in Slots /\ secrets \in [Slots -> Slots]
  /\ attempt \in Attempts /\ record \in Records /\ plans \in [Ops -> Revocation]
  /\ live \subseteq Tokens /\ lineage \subseteq Tokens /\ run \in Runs
  /\ unknown \subseteq Tokens /\ imported \subseteq Tokens /\ disturbed \in BOOLEAN
  /\ drawn \in Tokens /\ ops \in 0 .. MaxOps /\ faults \in 0 .. MaxFaults

LEMMA TypeParts == (TypeOK <=> Typed) /\ (TypeOK' <=> Typed')
BY DEF TypeOK, Typed, Attempts, Records, Revocation, Runs

\* A step of the run changes a few of its fields.
LEMMA GotoShape ==
  ASSUME TypeOK, NEW pc \in Pcs, Goto(pc)
  PROVE  /\ run' \in Runs /\ run'.pc = pc
         /\ run'.recovery = run.recovery /\ run'.old = run.old /\ run'.child = run.child
         /\ run'.op = run.op /\ run'.verified = run.verified /\ run'.slot = run.slot
BY DEF Goto, TypeOK, Runs

LEMMA FinishShape ==
  ASSUME Finish
  PROVE  /\ run' \in Runs /\ run'.pc = "idle" /\ run'.child = 0 /\ run'.op = 0
         /\ run'.verified = FALSE /\ run'.old = Unmanaged(1) /\ run'.recovery = FALSE
BY IdleType DEF Finish, Idle

LEMMA OpenShape ==
  ASSUME TypeOK, NEW recovery \in BOOLEAN, Open(recovery)
  PROVE  /\ run' \in Runs /\ run'.pc = "repair" /\ run'.child = 0 /\ run'.op = 0
         /\ run'.verified = FALSE /\ run'.old = profile /\ run'.recovery = recovery
<1>1. "repair" \in Pcs /\ profile \in Profiles
  BY DEF Pcs, TypeOK
<1>2. run' = [Idle EXCEPT !.pc = "repair", !.recovery = recovery, !.old = profile]
  BY DEF Open
<1> QED BY <1>1, <1>2, IdleType DEF Idle, Runs

\* A new revoke plan for one token.
NewPlan(t, state) ==
  /\ ops < MaxOps /\ ops' = ops + 1 /\ ops + 1 \in Ops /\ ops + 1 # 0
  /\ plans' \in [Ops -> Revocation]
  /\ plans'[ops + 1].token = t /\ plans'[ops + 1].state = state
  /\ \A o \in Ops \ {ops + 1} : plans'[o] = plans[o]

LEMMA NewPlanShape ==
  ASSUME TypeOK, NEW t \in Slots, NEW state \in {"draft", "unsettled", "verified"},
         ops < MaxOps, ops' = ops + 1,
         plans' = [plans EXCEPT ![ops + 1] = [token |-> t, state |-> state]]
  PROVE  NewPlan(t, state)
<1> DEFINE new == [token |-> t, state |-> state]
<1>1. ops + 1 \in Ops /\ ops + 1 # 0
  BY BoundTypes DEF TypeOK, Ops
<1>2. new \in Revocation /\ new.token = t /\ new.state = state
  BY DEF Revocation
<1>3. plans \in [Ops -> Revocation] /\ plans' = [plans EXCEPT ![ops + 1] = new]
  BY DEF TypeOK, Revocation
<1> HIDE DEF new
<1> QED BY <1>1, <1>2, <1>3 DEF NewPlan

LEMMA PlanRevokeShape ==
  ASSUME TypeOK, NEW t \in Slots, PlanRevoke(t)
  PROVE  NewPlan(t, "draft")
BY NewPlanShape DEF PlanRevoke

LEMMA RevokedShape ==
  ASSUME TypeOK, NEW t \in Slots, NEW next \in Pcs, Revoked(t, next)
  PROVE  \E verified, effect \in BOOLEAN :
           /\ verified => effect
           /\ live' = IF effect THEN live \ {t} ELSE live
           /\ NewPlan(t, IF verified THEN "verified" ELSE "unsettled")
           /\ run' \in Runs /\ run'.pc = next /\ run'.op = ops + 1 /\ run'.verified = verified
           /\ run'.recovery = run.recovery /\ run'.old = run.old /\ run'.child = run.child
           /\ run'.slot = run.slot
           /\ lineage' = lineage
<1>1. PICK verified, effect \in BOOLEAN :
        /\ verified => effect
        /\ live' = IF effect THEN live \ {t} ELSE live
        /\ plans' = [plans EXCEPT ![ops + 1] =
                       [token |-> t, state |-> IF verified THEN "verified" ELSE "unsettled"]]
        /\ run' = [run EXCEPT !.pc = next, !.op = ops + 1, !.verified = verified]
  BY DEF Revoked
<1>2. ops < MaxOps /\ ops' = ops + 1 /\ lineage' = lineage
  BY DEF Revoked
<1> DEFINE state == IF verified THEN "verified" ELSE "unsettled"
<1>3. NewPlan(t, state)
  <2>1. state \in {"draft", "unsettled", "verified"} /\ plans' = [plans EXCEPT ![ops + 1] = [token |-> t, state |-> state]]
    BY <1>1
  <2> HIDE DEF state
  <2> QED BY <1>2, <2>1, NewPlanShape
<1>4. ops + 1 \in 0 .. MaxOps
  BY <1>2, BoundTypes DEF TypeOK
<1>5. /\ run' \in Runs /\ run'.pc = next /\ run'.op = ops + 1 /\ run'.verified = verified
      /\ run'.recovery = run.recovery /\ run'.old = run.old /\ run'.child = run.child
      /\ run'.slot = run.slot
  BY <1>1, <1>4 DEF TypeOK, Runs
<1> QED BY <1>1, <1>2, <1>3, <1>5

LEMMA RevokeErrShape ==
  ASSUME TypeOK, NEW next \in Pcs, RevokeErr(next)
  PROVE  /\ run' \in Runs /\ run'.pc = next /\ run'.op = 0 /\ run'.verified = FALSE
         /\ run'.recovery = run.recovery /\ run'.old = run.old /\ run'.child = run.child
         /\ run'.slot = run.slot
         /\ UNCHANGED world
<1>1. 0 \in 0 .. MaxOps
  BY BoundTypes
<1> QED BY <1>1 DEF RevokeErr, TypeOK, Runs

LEMMA RenewalTypeInit == Init => TypeOK
<1> SUFFICES ASSUME Init PROVE TypeOK
  OBVIOUS
<1>1. profile \in Profiles /\ attempt \in Attempts /\ record \in Records /\ run \in Runs
  BY ProfileTypes, IdleType, BoundTypes DEF Init
<1>2. secrets \in [Slots -> Slots] /\ staging \in Slots /\ sink \in Slots /\ drawn \in Tokens
  BY BoundTypes DEF Init
<1>3. plans \in [Ops -> Revocation]
  BY BoundTypes DEF Init, Revocation
<1>4. live \subseteq Tokens /\ lineage \subseteq Tokens /\ unknown \subseteq Tokens /\ imported \subseteq Tokens
  BY BoundTypes DEF Init
<1>5. disturbed \in BOOLEAN
  BY DEF Init
<1>6. ops = 0 /\ faults = 0
  BY DEF Init
<1>7. ops \in 0 .. MaxOps /\ faults \in 0 .. MaxFaults
  BY <1>6, BoundTypes
<1> QED BY <1>1, <1>2, <1>3, <1>4, <1>5, <1>7, TypeParts DEF Typed

\* A run that has minted has drawn a child.
Early == {"repair", "repaired", "pending", "retire", "due", "health", "claim"}
Minted == Pcs \ (Early \cup {"idle", "close"})

LEMMA RenewalTypeStep ==
  ASSUME TypeOK, run.pc \in Minted => run.child # 0, Next
  PROVE  TypeOK'
<1> SUFFICES Typed'
  BY TypeParts
<1>0. /\ profile \in Profiles /\ staging \in Slots /\ sink \in Slots /\ secrets \in [Slots -> Slots]
      /\ attempt \in Attempts /\ record \in Records /\ plans \in [Ops -> Revocation]
      /\ live \subseteq Tokens /\ lineage \subseteq Tokens /\ run \in Runs
      /\ unknown \subseteq Tokens /\ imported \subseteq Tokens /\ disturbed \in BOOLEAN
      /\ drawn \in Tokens /\ ops \in 0 .. MaxOps /\ faults \in 0 .. MaxFaults
  BY TypeParts DEF Typed
<1>k. run.child \in Slots /\ run.old \in Profiles /\ run.slot \in Slots /\ run.op \in 0 .. MaxOps
  BY <1>0 DEF Runs
<1>o. run.old.token \in Tokens /\ run.old.pend \in Slots /\ run.old.slot \in Slots /\ run.old.pslot \in Slots
      /\ run.old.op \in 0 .. MaxOps
  BY <1>k DEF Profiles, Slots
<1>c. run.pc \in Minted => run.child \in Tokens
  BY <1>k, BoundTypes
<1>d. drawn < MaxTokens => drawn + 1 \in Tokens
  BY <1>0, BoundTypes DEF Tokens
<1>p. Pcs \subseteq Pcs /\ {"pending", "close", "due", "health", "claim", "sink", "retain", "store",
        "stage", "staged", "discard", "abandon", "unstage", "unslot", "activate", "switch", "active",
        "rollback", "revert", "dropslot", "closeClean", "predecessor", "savePending", "dropOld",
        "mint", "retire", "repaired"} \subseteq Pcs
  BY DEF Pcs
<1>f. Finish => run' \in Runs
  BY FinishShape
<1>g. \A pc \in Pcs : Goto(pc) => run' \in Runs
  BY <1>0 DEF Goto, Runs
<1>1. CASE Stop
  BY <1>0, <1>1, <1>f, BoundTypes DEF Stop, local, world, Typed
<1>2. ASSUME NEW recovery \in BOOLEAN, Open(recovery) PROVE Typed'
  BY <1>0, <1>2, OpenShape DEF Open, Silent, Rest, local, world, Typed
<1>3. CASE Repair
  <2>0. UNCHANGED <<local, live, lineage, drawn>> /\ Rest
    BY <1>3 DEF Repair
  <2>1. CASE PlanRevoke(run.old.pend) /\ run' = [run EXCEPT !.pc = "repaired", !.op = ops + 1]
    <3>1. NewPlan(run.old.pend, "draft")
      BY <1>o, <2>1, PlanRevokeShape
    <3>2. ops + 1 \in 0 .. MaxOps
      BY <1>0, <3>1, BoundTypes DEF NewPlan
    <3>3. run' \in Runs
      BY <1>0, <1>p, <2>1, <3>2 DEF Runs
    <3> QED BY <1>0, <2>0, <3>1, <3>2, <3>3 DEF NewPlan, local, Rest, Typed
  <2>2. CASE (Finish \/ Goto("pending")) /\ UNCHANGED <<plans, ops>>
    BY <1>0, <1>f, <1>g, <1>p, <2>0, <2>2 DEF local, Rest, Typed
  <2> QED BY <1>3, <2>1, <2>2 DEF Repair
<1>4. CASE SaveRepaired
  <2>1. [run.old EXCEPT !.op = run.op] \in Profiles
    BY <1>k DEF Profiles
  <2>2. run' \in Runs /\ profile' \in Profiles
    BY <1>0, <1>4, <1>p, <2>1 DEF SaveRepaired, Runs
  <2> QED BY <1>0, <1>4, <2>2 DEF SaveRepaired, Local, world, Rest, Typed
<1>5. CASE SaveReconciled
  <2>1. run' \in Runs /\ profile' \in Profiles
    <3>1. CASE profile' = Settled(run.old) /\ run' = [run EXCEPT !.pc = "retire", !.old = profile',
                 !.op = run.old.op, !.slot = run.old.pslot]
      <4>1. profile' \in Profiles
        BY <1>k, <3>1, ProfileTypes
      <4> QED BY <1>0, <1>o, <1>p, <3>1, <4>1 DEF Runs
    <3>2. CASE (Goto("due") \/ Finish) /\ UNCHANGED profile
      BY <1>0, <1>f, <1>g, <1>p, <3>2
    <3> QED BY <1>5, <3>1, <3>2 DEF SaveReconciled
  <2> QED BY <1>0, <1>5, <2>1 DEF SaveReconciled, Local, world, Rest, Typed
<1>6. CASE RetireSlot \/ StoreSlot \/ DropSlot \/ DropOldSlot \/ Health
  <2>1. run' \in Runs
    BY <1>6, <1>f, <1>g, <1>p DEF RetireSlot, StoreSlot, DropSlot, DropOldSlot, Health
  <2>2. secrets' \in [Slots -> Slots]
    BY <1>0, <1>6, <1>k, <1>o, BoundTypes DEF RetireSlot, StoreSlot, DropSlot, DropOldSlot, Health, Legacy
  <2>3. UNCHANGED <<profile, staging, sink, attempt, record>> /\ Local
    BY <1>6 DEF RetireSlot, StoreSlot, DropSlot, DropOldSlot, Health
  <2> QED BY <1>0, <2>1, <2>2, <2>3 DEF Local, world, Rest, Typed
<1>7. CASE Close \/ CloseCleaned \/ RetainActivation
  <2>1. run' \in Runs
    BY <1>7, <1>f, <1>g, <1>p DEF Close, CloseCleaned, RetainActivation
  <2>2. attempt' \in {attempt, [attempt EXCEPT !.state = "closed"], [attempt EXCEPT !.intended = TRUE]}
    BY <1>7 DEF Close, CloseCleaned, RetainActivation
  <2>3. attempt' \in Attempts
    BY <1>0, <2>2 DEF Attempts
  <2>4. UNCHANGED <<profile, staging, secrets, sink, record>> /\ Local
    BY <1>7 DEF Close, CloseCleaned, RetainActivation
  <2> QED BY <1>0, <2>1, <2>3, <2>4 DEF Local, world, Rest, Typed
<1>8. CASE Due \/ StagedReads \/ ActiveReads
  <2>1. run' \in Runs /\ Silent
    BY <1>8, <1>f, <1>g, <1>p DEF Due, StagedReads, ActiveReads
  <2> QED BY <1>0, <2>1 DEF Silent, local, world, Rest, Typed
<1>9. CASE ClaimMint
  <2>1. CASE Finish /\ UNCHANGED <<attempt, record, drawn>>
    BY <1>0, <1>9, <1>f, <2>1 DEF ClaimMint, world, Rest, Typed
  <2>2. CASE /\ drawn < MaxTokens /\ drawn' = drawn + 1
             /\ run' = [run EXCEPT !.pc = "mint", !.child = drawn + 1]
             /\ IF run.recovery
                THEN /\ record' = [NoRecord EXCEPT !.state = "pending", !.prior = run.old.token,
                                                   !.mint = drawn + 1]
                     /\ UNCHANGED attempt
                ELSE /\ attempt' = [NoAttempt EXCEPT !.state = "open", !.prior = run.old,
                                                     !.mint = drawn + 1]
                     /\ UNCHANGED record
    <3>1. drawn' \in Tokens /\ drawn + 1 \in Slots
      BY <1>d, <2>2, BoundTypes
    <3>2. run' \in Runs
      BY <1>0, <1>p, <2>2, <3>1 DEF Runs
    <3>3. record' \in Records
      BY <1>0, <1>o, <2>2, <3>1, IdleType, BoundTypes DEF Records
    <3>4. attempt' \in Attempts
      BY <1>0, <1>k, <2>2, <3>1, IdleType DEF Attempts
    <3> QED BY <1>0, <1>9, <3>1, <3>2, <3>3, <3>4 DEF ClaimMint, world, Rest, Typed
  <2> QED BY <1>9, <2>1, <2>2 DEF ClaimMint
<1>10. CASE Mint
  <2>1. run.child \in Tokens
    BY <1>10, <1>c DEF Mint, At, Minted, Early, Pcs
  <2>2. run' \in Runs
    BY <1>10, <1>f, <1>g, <1>p DEF Mint
  <2>3. live' \subseteq Tokens /\ lineage' \subseteq Tokens /\ sink' \in Slots
    BY <1>0, <1>10, <2>1, BoundTypes DEF Mint
  <2> QED BY <1>0, <1>10, <2>2, <2>3 DEF Mint, Rest, Typed
<1>11. CASE ReadSink \/ Unstage
  <2>1. run' \in Runs /\ sink' \in Slots /\ staging' \in Slots
    BY <1>0, <1>11, <1>f, <1>g, <1>p, BoundTypes DEF ReadSink, Unstage
  <2>2. UNCHANGED <<profile, secrets, attempt, record>> /\ Local
    BY <1>11 DEF ReadSink, Unstage
  <2> QED BY <1>0, <2>1, <2>2 DEF Local, world, Rest, Typed
<1>12. CASE RetainChild
  <2>1. run' \in Runs
    BY <1>12, <1>g, <1>p DEF RetainChild
  <2>2. record' \in Records /\ attempt' \in Attempts
    BY <1>0, <1>12, <1>k DEF RetainChild, Records, Attempts
  <2> QED BY <1>0, <1>12, <2>1, <2>2 DEF RetainChild, Local, world, Rest, Typed
<1>13. CASE StageProfile
  <2>1. run' \in Runs /\ staging' \in Slots /\ secrets' \in [Slots -> Slots]
    BY <1>0, <1>13, <1>f, <1>g, <1>k, <1>p, BoundTypes DEF StageProfile
  <2> QED BY <1>0, <1>13, <2>1 DEF StageProfile, Local, world, Rest, Typed
<1>14. ASSUME NEW next \in Pcs, RevokeChild(run.child, next), UNCHANGED <<local, drawn>> /\ Rest
       PROVE Typed'
  <2>1. CASE Revoked(run.child, next)
    <3>1. /\ run' \in Runs /\ plans' \in [Ops -> Revocation] /\ ops' = ops + 1 /\ ops + 1 \in Ops
          /\ live' \subseteq live /\ lineage' = lineage
      BY <1>k, <2>1, RevokedShape DEF NewPlan
    <3>2. ops' \in 0 .. MaxOps
      BY <3>1 DEF Ops
    <3> QED BY <1>0, <1>14, <3>1, <3>2 DEF local, Rest, Typed
  <2>2. CASE RevokeErr(next)
    BY <1>0, <1>14, <2>2, RevokeErrShape DEF local, world, Rest, Typed
  <2> QED BY <1>14, <2>1, <2>2 DEF RevokeChild
<1>15. CASE Discard \/ Revert
  BY <1>14, <1>15, <1>p DEF Discard, Revert
<1>16. CASE Activate \/ Rollback \/ SavePending
  <2>1. run' \in Runs
    BY <1>16, <1>f, <1>g, <1>p DEF Activate, Rollback, SavePending
  <2>2. [profile EXCEPT !.pend = run.old.token, !.op = run.op, !.pslot = run.old.slot] \in Profiles
    BY <1>0, <1>k, <1>o, BoundTypes DEF Profiles, Slots
  <2>3. profile' \in Profiles
    <3>1. CASE Activate
      <4>1. run.child \in Tokens
        BY <1>c, <3>1 DEF Activate, At, Minted, Early, Pcs
      <4> QED BY <3>1, <4>1, ProfileTypes DEF Activate
    <3>2. CASE Rollback
      BY <1>0, <1>k, <3>2 DEF Rollback
    <3>3. CASE SavePending
      BY <1>0, <2>2, <3>3 DEF SavePending
    <3> QED BY <1>16, <3>1, <3>2, <3>3
  <2>4. staging' \in Slots /\ UNCHANGED <<secrets, sink, attempt, record>> /\ Local
    BY <1>0, <1>16, BoundTypes DEF Activate, Rollback, SavePending
  <2> QED BY <1>0, <2>1, <2>3, <2>4 DEF Local, world, Rest, Typed
<1>17. CASE CompleteRecovery
  <2>1. record' \in Records /\ run' \in Runs
    BY <1>0, <1>17, <1>f DEF CompleteRecovery, Records
  <2> QED BY <1>0, <1>17, <2>1 DEF CompleteRecovery, Local, world, Rest, Typed
<1>18. CASE RevokePredecessor
  <2>0. UNCHANGED <<local, drawn>> /\ Rest
    BY <1>18 DEF RevokePredecessor
  <2>1. CASE Revoked(run.old.token, "savePending")
    <3>1. /\ run' \in Runs /\ plans' \in [Ops -> Revocation] /\ ops' = ops + 1 /\ ops + 1 \in Ops
          /\ live' \subseteq live /\ lineage' = lineage
      BY <1>o, <1>p, <2>1, RevokedShape, BoundTypes DEF NewPlan
    <3>2. ops' \in 0 .. MaxOps
      BY <3>1 DEF Ops
    <3> QED BY <1>0, <2>0, <3>1, <3>2 DEF local, Rest, Typed
  <2>2. CASE Finish /\ UNCHANGED world
    BY <1>0, <1>f, <2>0, <2>2 DEF local, world, Rest, Typed
  <2>3. CASE /\ PlanRevoke(run.old.token) /\ run' = [run EXCEPT !.pc = "savePending", !.op = ops + 1]
             /\ UNCHANGED <<live, lineage>>
    <3>1. NewPlan(run.old.token, "draft")
      BY <1>o, <2>3, PlanRevokeShape, BoundTypes
    <3>2. ops + 1 \in 0 .. MaxOps
      BY <1>0, <3>1, BoundTypes DEF NewPlan
    <3>3. run' \in Runs
      BY <1>0, <1>p, <2>3, <3>2 DEF Runs
    <3> QED BY <1>0, <2>0, <2>3, <3>1, <3>2, <3>3 DEF NewPlan, local, Rest, Typed
  <2>4. CASE Goto("savePending") /\ UNCHANGED <<plans, ops, live, lineage>>
    BY <1>0, <1>g, <1>p, <2>0, <2>4 DEF local, Rest, Typed
  <2> QED BY <1>18, <2>1, <2>2, <2>3, <2>4 DEF RevokePredecessor
<1>19. ASSUME NEW o \in Ops, RunPlan(o) \/ LapsePlan(o) PROVE Typed'
  <2>1. PICK state \in {"verified", "unsettled", "lapsed"} : plans' = [plans EXCEPT ![o].state = state]
    BY <1>19 DEF RunPlan, LapsePlan
  <2>2. plans' \in [Ops -> Revocation]
    BY <1>0, <2>1 DEF Revocation
  <2>3. live' \subseteq live
    BY <1>19 DEF RunPlan, LapsePlan
  <2> QED BY <1>0, <1>19, <2>2, <2>3 DEF RunPlan, LapsePlan, local, Rest, Typed
<1>20. CASE ImportToken
  <2>1. drawn' \in Tokens /\ drawn' = drawn + 1
    BY <1>20, <1>d DEF ImportToken
  <2>2. profile' \in Profiles /\ secrets' \in [Slots -> Slots]
    BY <1>0, <1>20, <2>1, ProfileTypes, BoundTypes DEF ImportToken
  <2>3. profile.token \in Tokens
    BY <1>0 DEF Profiles
  <2>4. live' \subseteq Tokens /\ imported' \subseteq Tokens /\ disturbed' \in BOOLEAN
    BY <1>0, <1>20, <2>1, <2>3 DEF ImportToken
  <2> QED BY <1>0, <1>20, <2>1, <2>2, <2>4 DEF ImportToken, Typed
<1> QED BY <1>1, <1>2, <1>3, <1>4, <1>5, <1>6, <1>7, <1>8, <1>9, <1>10, <1>11, <1>12, <1>13, <1>15,
           <1>16, <1>17, <1>18, <1>19, <1>20 DEF Next, Renew

-----------------------------------------------------------------------------
\* The inductive invariant: what the stored records and the provider agree on,
\* and what a run may rely on at each of its positions.

Switched == {"active", "rollback", "predecessor", "savePending", "dropOld"}

Planned(t) == \E o \in Ops : plans[o].token = t

\* A token that a durable record, or an import, accounts for.
Fenced(t) ==
  \/ attempt.state = "open" /\ t \in {attempt.prior.token, attempt.mint}
  \/ record.state # "none" /\ t \in {record.prior, record.mint}
  \/ t \in imported

\* Profiles the program writes: a child lives in its own slot, an imported
\* token in the legacy one, and a pending predecessor is another token in
\* another slot.
Shape(prof) ==
  /\ prof.managed => prof.slot = prof.token /\ prof.token > 1
  /\ ~prof.managed => prof = Unmanaged(prof.token)
  /\ prof.pend # 0 => prof.pend # prof.token /\ prof.pslot # prof.slot
  /\ prof.token <= drawn /\ prof.pend <= drawn

\* While the first token is of unknown identity and nothing was imported.
Guarded == imported = {} /\ unknown # {}

KeptProfile(prof) ==
  /\ ~prof.managed => prof.token = 1
  /\ prof.managed => record.state # "none"
  /\ prof.pend # 1 /\ (prof.pend # 0 => prof.pslot # 0)

WorldInv ==
  /\ Shape(profile)
  /\ attempt.new \in {0, attempt.mint}
  /\ \A o \in Ops : /\ plans[o].token <= drawn
                    /\ plans[o].state = "verified" => plans[o].token \notin live
                    /\ plans[o].state # "none" => plans[o].token # 0
  /\ ~disturbed => ~Planned(profile.token)
  /\ unknown \in {{}, {1}}
  /\ Guarded => ~Planned(1) /\ KeptProfile(profile)
  /\ LiveTokensAreFenced /\ ActiveIsUsable /\ UnknownPredecessorKept

\* The profile a run takes to be stored, and the only way it may differ.
Expected ==
  IF run.child # 0 /\ run.pc \in Switched \cup {"close"} THEN Child(run.child) ELSE run.old
Displaced == profile.token \in imported /\ disturbed /\ ~profile.managed

Position ==
  /\ run.pc \in Early \cup {"idle"} => run.child = 0
  /\ run.pc \in Minted => run.child # 0
  /\ run.pc # "idle" => profile = Expected \/ Displaced
  /\ run.pc = "switch" => profile = run.old
  /\ Shape(run.old)
  /\ run.child # 0 => run.old.token < run.child /\ run.child <= drawn

\* The durable record that names the run's mint.
Claimed ==
  IF run.recovery
  THEN record.state = "pending" /\ record.prior = run.old.token /\ record.mint = run.child
  ELSE attempt.state = "open" /\ attempt.prior = run.old /\ attempt.mint = run.child

FenceInv ==
  /\ run.child # 0 => Claimed
  /\ run.pc # "idle" /\ run.child = 0 /\ run.recovery => record.state = "none"

OpsInv ==
  /\ run.verified => run.op # 0
  /\ run.pc = "repaired" => run.op # 0 /\ run.old.pend # 0
  /\ run.pc = "pending" /\ run.old.pend # 0 => run.old.op # 0
  /\ run.pc \in {"dropOld", "closeClean"} => run.verified
  /\ run.pc \in {"retire", "close"} => run.op # 0

UsableInv ==
  /\ ~disturbed /\ run.pc \in {"active", "rollback"} =>
       run.old.token \in live /\ secrets[run.old.slot] = run.old.token /\ ~Planned(run.old.token)
  /\ run.pc \in {"mint", "sink", "retain", "store", "stage", "staged", "activate", "switch"}
       => ~Planned(run.child)
  /\ run.pc \in {"sink", "retain", "store", "stage", "staged", "activate", "switch"}
       => run.child \in live
  /\ run.pc \in {"stage", "staged", "activate", "switch"} => secrets[run.child] = run.child
  /\ run.pc = "retire" => run.slot # run.old.slot
  /\ run.pc = "health" => run.old.managed
  /\ run.pc \in {"savePending", "dropOld"} => ~run.recovery

KeptRun ==
  Guarded =>
    /\ KeptProfile(run.old)
    /\ (run.child # 0 \/ run.pc = "claim") /\ ~run.recovery => run.old.managed
    /\ run.pc = "retire" => run.slot # 0

RunInv == Position /\ FenceInv /\ OpsInv /\ UsableInv /\ KeptRun

RenewalInv == WorldInv /\ RunInv

-----------------------------------------------------------------------------
\* What a step has to show about the stored state, by what it writes.

LEMMA Fields ==
  ASSUME TypeOK
  PROVE  /\ profile \in Profiles /\ profile.token \in Tokens /\ profile.slot \in Slots
         /\ profile.pend \in Slots /\ profile.managed \in BOOLEAN
         /\ run \in Runs /\ run.child \in Slots /\ run.slot \in Slots /\ run.op \in 0 .. MaxOps
         /\ run.old \in Profiles /\ run.old.token \in Tokens /\ run.old.slot \in Slots
         /\ run.old.pend \in Slots /\ run.old.pslot \in Slots /\ run.old.op \in 0 .. MaxOps
         /\ run.old.managed \in BOOLEAN
         /\ secrets \in [Slots -> Slots] /\ drawn \in Nat /\ drawn > 0 /\ drawn \in Tokens
         /\ \A t \in Slots : t \in Nat
<1>1. Typed
  BY TypeParts
<1>2. run.old \in Profiles /\ run.child \in Slots /\ run.slot \in Slots /\ run.op \in 0 .. MaxOps
  BY <1>1 DEF Typed, Runs
<1>3. drawn \in Nat /\ drawn > 0 /\ \A t \in Slots : t \in Nat
  BY <1>1, BoundTypes DEF Typed, Tokens, Slots
<1> QED BY <1>1, <1>2, <1>3 DEF Typed, Profiles, Slots

SameStore == UNCHANGED <<profile, secrets, attempt, record, plans, live, unknown, imported, disturbed, drawn>>

LEMMA SameWorld ==
  ASSUME WorldInv, SameStore
  PROVE  WorldInv'
BY DEF WorldInv, SameStore, Shape, Planned, Guarded, KeptProfile, LiveTokensAreFenced, ActiveIsUsable,
       UnknownPredecessorKept

LEMMA SecretStep ==
  ASSUME TypeOK, WorldInv, NEW s \in Slots, NEW v, secrets' = [secrets EXCEPT ![s] = v],
         ~disturbed => s # profile.slot, Guarded => s # 0,
         UNCHANGED <<profile, attempt, record, plans, live, unknown, imported, disturbed, drawn>>
  PROVE  WorldInv'
<1>1. secrets \in [Slots -> Slots] /\ profile.slot \in Slots /\ 0 \in Slots
  BY Fields, BoundTypes
<1>2. ActiveIsUsable'
  BY <1>1 DEF WorldInv, ActiveIsUsable
<1>3. UnknownPredecessorKept'
  BY <1>1 DEF WorldInv, UnknownPredecessorKept, Guarded, Legacy
<1>4. LiveTokensAreFenced'
  BY DEF WorldInv, LiveTokensAreFenced
<1>5. Shape(profile)' /\ (Guarded => KeptProfile(profile))'
  BY DEF WorldInv, Shape, KeptProfile, Guarded
<1> QED BY <1>2, <1>3, <1>4, <1>5 DEF WorldInv, Planned, Guarded

\* A new revoke plan, with or without its effect.
LEMMA PlanStep ==
  ASSUME TypeOK, WorldInv, NEW t \in Slots, NEW state, NewPlan(t, state),
         live' \in {live, live \ {t}}, state = "verified" => live' = live \ {t},
         t # 0, t <= drawn, ~disturbed => t # profile.token, Guarded => t # 1,
         UNCHANGED <<profile, secrets, attempt, record, unknown, imported, disturbed, drawn>>
  PROVE  WorldInv'
<1>1. ActiveIsUsable'
  BY DEF WorldInv, ActiveIsUsable
<1>2. UnknownPredecessorKept'
  BY DEF WorldInv, UnknownPredecessorKept, Guarded
<1>3. LiveTokensAreFenced'
  BY DEF WorldInv, LiveTokensAreFenced
<1>4. Shape(profile)' /\ (Guarded => KeptProfile(profile))'
  BY DEF WorldInv, Shape, KeptProfile, Guarded
<1>5. \A o \in Ops : /\ plans'[o].token <= drawn'
                     /\ plans'[o].state = "verified" => plans'[o].token \notin live'
                     /\ plans'[o].state # "none" => plans'[o].token # 0
  BY DEF WorldInv, NewPlan
<1>6. \A u : u # t /\ ~Planned(u) => ~\E o \in Ops : plans'[o].token = u
  BY DEF NewPlan, Planned
<1>7. (~disturbed => ~Planned(profile.token))' /\ (Guarded => ~Planned(1))'
  BY <1>6 DEF WorldInv, Planned, Guarded
<1> QED BY <1>1, <1>2, <1>3, <1>4, <1>5, <1>7 DEF WorldInv

LEMMA ProfileStep ==
  ASSUME TypeOK, WorldInv, Shape(profile)', Guarded => KeptProfile(profile)',
         profile'.token = profile.token \/ Fenced(profile.token),
         ~disturbed => /\ ~Planned(profile'.token) /\ profile'.token \in live
                       /\ secrets[profile'.slot] = profile'.token,
         UNCHANGED <<secrets, attempt, record, plans, live, unknown, imported, disturbed, drawn>>
  PROVE  WorldInv'
<1>1. ActiveIsUsable' /\ UnknownPredecessorKept'
  BY DEF WorldInv, ActiveIsUsable, UnknownPredecessorKept
<1>2. LiveTokensAreFenced'
  BY DEF WorldInv, LiveTokensAreFenced, Fenced
<1>3. (~disturbed => ~Planned(profile.token))' /\ (Guarded => ~Planned(1) /\ KeptProfile(profile))'
  BY DEF WorldInv, Planned, Guarded
<1> QED BY <1>1, <1>2, <1>3 DEF WorldInv

\* The durable records change; the profile, the plans and the tokens do not.
LEMMA ClaimStep ==
  ASSUME TypeOK, WorldInv, attempt'.new \in {0, attempt'.mint}, LiveTokensAreFenced',
         record.state # "none" => record'.state # "none", drawn' \in Nat, drawn <= drawn',
         UNCHANGED <<profile, secrets, plans, live, unknown, imported, disturbed>>
  PROVE  WorldInv'
<1>1. drawn \in Nat /\ profile.token \in Nat /\ profile.pend \in Nat
      /\ \A o \in Ops : plans[o].token \in Nat
  BY Fields, BoundTypes DEF TypeOK, Slots
<1>2. Shape(profile)'
  BY <1>1 DEF WorldInv, Shape
<1>3. (Guarded => KeptProfile(profile))'
  BY DEF WorldInv, KeptProfile, Guarded
<1>4. ActiveIsUsable' /\ UnknownPredecessorKept'
  BY DEF WorldInv, ActiveIsUsable, UnknownPredecessorKept
<1>5. \A o \in Ops : plans'[o].token <= drawn'
  BY <1>1 DEF WorldInv
<1> QED BY <1>2, <1>3, <1>4, <1>5 DEF WorldInv, Planned, Guarded

\* A run that ends leaves nothing to rely on.
LEMMA FinishKeeps ==
  ASSUME Finish, drawn' \in Nat, drawn' > 0
  PROVE  RunInv'
<1>1. /\ run'.pc = "idle" /\ run'.child = 0 /\ run'.verified = FALSE /\ run'.old = Unmanaged(1)
  BY FinishShape
<1>2. Unmanaged(1).token = 1 /\ Unmanaged(1).managed = FALSE /\ Unmanaged(1).pend = 0
  BY DEF Unmanaged
<1>3. Position'
  BY <1>1, <1>2 DEF Position, Shape, Minted
<1>4. FenceInv' /\ OpsInv' /\ UsableInv'
  BY <1>1 DEF FenceInv, OpsInv, UsableInv
<1>5. KeptRun'
  BY <1>1, <1>2 DEF KeptRun, KeptProfile
<1> QED BY <1>3, <1>4, <1>5 DEF RunInv

-----------------------------------------------------------------------------
\* The steps of a run, one after the other.

LEMMA OpenStep ==
  ASSUME TypeOK, RenewalInv, NEW recovery \in BOOLEAN, Open(recovery)
  PROVE  RenewalInv'
<1>1. SameStore
  BY DEF Open, Silent, Rest, local, world, SameStore
<1>2. /\ run'.pc = "repair" /\ run'.child = 0 /\ run'.op = 0
      /\ run'.verified = FALSE /\ run'.old = profile /\ run'.recovery = recovery
  BY OpenShape
<1>3. WorldInv'
  BY <1>1, SameWorld DEF RenewalInv
<1>4. Position'
  BY <1>1, <1>2 DEF Position, Shape, Expected, Minted, Early, SameStore, RenewalInv, WorldInv
<1>5. FenceInv' /\ OpsInv' /\ UsableInv'
  BY <1>1, <1>2 DEF FenceInv, OpsInv, UsableInv, SameStore, Open
<1>6. KeptRun'
  BY <1>1, <1>2 DEF KeptRun, KeptProfile, Guarded, SameStore, RenewalInv, WorldInv
<1> QED BY <1>3, <1>4, <1>5, <1>6 DEF RenewalInv, RunInv

\* Before the mint only the position moves.
EarlyMove ==
  /\ run.pc \in Early /\ run'.pc \in Early /\ run'.child = run.child
  /\ run'.old = run.old /\ run'.recovery = run.recovery
  /\ UNCHANGED <<profile, attempt, record, unknown, imported, disturbed, drawn>>

LEMMA EarlyMoveKeeps ==
  ASSUME RenewalInv, EarlyMove
  PROVE  Position' /\ FenceInv' /\ (Guarded => KeptProfile(run.old))'
<1> USE DEF EarlyMove
<1>1. run.child = 0
  BY DEF RenewalInv, RunInv, Position
<1>2. profile = run.old \/ Displaced
  BY <1>1 DEF RenewalInv, RunInv, Position, Expected, Early
<1>3. Position'
  BY <1>1, <1>2 DEF RenewalInv, RunInv, Position, Expected, Displaced, Shape, Early, Minted
<1>4. FenceInv'
  BY <1>1 DEF RenewalInv, RunInv, FenceInv, Early
<1>5. (Guarded => KeptProfile(run.old))'
  BY DEF RenewalInv, RunInv, KeptRun, KeptProfile, Guarded
<1> QED BY <1>3, <1>4, <1>5

LEMMA RepairStep ==
  ASSUME TypeOK, RenewalInv, Repair
  PROVE  RenewalInv'
<1>0. /\ WorldInv /\ Position /\ run.pc = "repair" /\ run.child = 0
      /\ UNCHANGED <<local, live, lineage, drawn>> /\ Rest
  BY DEF Repair, At, RenewalInv, RunInv, Position, Early
<1>1. CASE /\ run.old.pend # 0 /\ PlanRevoke(run.old.pend)
           /\ run' = [run EXCEPT !.pc = "repaired", !.op = ops + 1]
  <2>1. /\ run.old.pend \in Slots /\ run.old.pend <= drawn
        /\ ~disturbed => run.old.pend # profile.token
        /\ Guarded => run.old.pend # 1
    BY <1>0, <1>1, Fields DEF RenewalInv, RunInv, Position, Expected, Displaced, Shape, KeptRun, KeptProfile
  <2>2. NewPlan(run.old.pend, "draft")
    BY <1>1, <2>1, PlanRevokeShape
  <2>3. UNCHANGED <<profile, secrets, attempt, record, unknown, imported, disturbed, drawn>> /\ live' = live
    BY <1>0 DEF local, Rest
  <2>4. WorldInv'
    BY <1>0, <1>1, <2>1, <2>2, <2>3, PlanStep
  <2>5. /\ run'.pc = "repaired" /\ run'.op = ops + 1 /\ run'.child = run.child /\ run'.old = run.old
        /\ run'.recovery = run.recovery /\ run'.verified = run.verified
    BY <1>1, Fields DEF Runs
  <2>6. EarlyMove
    BY <1>0, <2>3, <2>5 DEF EarlyMove, Early
  <2>7. OpsInv' /\ UsableInv'
    BY <1>1, <2>2, <2>5 DEF OpsInv, UsableInv, NewPlan
  <2>8. KeptRun'
    BY <1>0, <2>5, <2>6, EarlyMoveKeeps DEF KeptRun
  <2> QED BY <2>4, <2>6, <2>7, <2>8, EarlyMoveKeeps DEF RenewalInv, RunInv
<1>2. CASE Finish /\ UNCHANGED <<plans, ops>>
  <2>1. SameStore
    BY <1>0, <1>2 DEF local, Rest, SameStore
  <2>2. drawn' \in Nat /\ drawn' > 0
    BY <2>1, Fields DEF SameStore
  <2> QED BY <1>0, <1>2, <2>1, <2>2, SameWorld, FinishKeeps DEF RenewalInv
<1>3. CASE ~(run.old.pend # 0 /\ run.old.op = 0) /\ Goto("pending") /\ UNCHANGED <<plans, ops>>
  <2>1. SameStore
    BY <1>0, <1>3 DEF local, Rest, SameStore
  <2>2. /\ run'.pc = "pending" /\ run'.child = run.child /\ run'.old = run.old /\ run'.op = run.op
        /\ run'.recovery = run.recovery /\ run'.verified = run.verified
    BY <1>3, GotoShape DEF Pcs
  <2>3. EarlyMove
    BY <1>0, <2>1, <2>2 DEF EarlyMove, Early, SameStore
  <2>4. OpsInv' /\ UsableInv'
    BY <1>3, <2>2 DEF OpsInv, UsableInv, RenewalInv, RunInv
  <2>5. KeptRun'
    BY <1>0, <2>2, <2>3, EarlyMoveKeeps DEF KeptRun
  <2> QED BY <1>0, <2>1, <2>3, <2>4, <2>5, SameWorld, EarlyMoveKeeps DEF RenewalInv, RunInv
<1> QED BY <1>1, <1>2, <1>3 DEF Repair

LEMMA SaveRepairedStep ==
  ASSUME TypeOK, RenewalInv, SaveRepaired
  PROVE  RenewalInv'
<1>0. /\ WorldInv /\ Position /\ OpsInv /\ run.pc = "repaired" /\ run.child = 0
      /\ run.old.pend # 0 /\ run.op # 0
      /\ profile' = [run.old EXCEPT !.op = run.op]
      /\ run' = [run EXCEPT !.pc = "pending", !.old = profile']
      /\ UNCHANGED <<secrets, attempt, record, plans, live, unknown, imported, disturbed, drawn>>
  BY DEF SaveRepaired, At, RenewalInv, RunInv, Position, OpsInv, Early, Local, Rest, world
<1>1. Shape(run.old) /\ (profile = run.old \/ Displaced)
  BY <1>0 DEF Position, Expected
<1>2. run.old.managed
  BY <1>0, <1>1 DEF Shape, Unmanaged
<1>3. /\ profile'.token = run.old.token /\ profile'.managed = run.old.managed
      /\ profile'.slot = run.old.slot /\ profile'.pend = run.old.pend
      /\ profile'.pslot = run.old.pslot /\ profile'.op = run.op
  BY <1>0, Fields DEF Profiles
<1>4. /\ run'.pc = "pending" /\ run'.old = profile' /\ run'.child = 0 /\ run'.op = run.op
      /\ run'.recovery = run.recovery /\ run'.verified = run.verified
  BY <1>0, Fields DEF Runs
<1>5. Shape(profile)'
  BY <1>0, <1>1, <1>2, <1>3 DEF Shape
<1>6. Guarded => KeptProfile(profile)'
  BY <1>0, <1>3 DEF RenewalInv, RunInv, KeptRun, KeptProfile, Guarded
<1>7. profile'.token = profile.token \/ Fenced(profile.token)
  BY <1>1, <1>3 DEF Displaced, Fenced
<1>8. ~disturbed => /\ ~Planned(profile'.token) /\ profile'.token \in live
                    /\ secrets[profile'.slot] = profile'.token
  BY <1>0, <1>1, <1>3 DEF Displaced, WorldInv, ActiveIsUsable
<1>9. WorldInv'
  BY <1>0, <1>5, <1>6, <1>7, <1>8, ProfileStep
<1>10. Position'
  BY <1>4, <1>5 DEF Position, Expected, Minted, Early, Shape
<1>11. FenceInv'
  BY <1>0, <1>4 DEF FenceInv, RenewalInv, RunInv
<1>12. OpsInv' /\ UsableInv'
  BY <1>0, <1>3, <1>4 DEF OpsInv, UsableInv
<1>13. KeptRun'
  BY <1>0, <1>4, <1>6 DEF KeptRun, Guarded, KeptProfile
<1> QED BY <1>9, <1>10, <1>11, <1>12, <1>13 DEF RenewalInv, RunInv

LEMMA SaveReconciledStep ==
  ASSUME TypeOK, RenewalInv, SaveReconciled
  PROVE  RenewalInv'
<1>0. /\ WorldInv /\ Position /\ OpsInv /\ run.pc = "pending" /\ run.child = 0
      /\ UNCHANGED <<secrets, attempt, record, plans, live, unknown, imported, disturbed, drawn>>
  BY DEF SaveReconciled, At, RenewalInv, RunInv, Position, OpsInv, Early, Local, Rest, world
<1>1. CASE Goto("due") /\ UNCHANGED profile
  <2>1. SameStore
    BY <1>0, <1>1 DEF SameStore
  <2>2. /\ run'.pc = "due" /\ run'.child = run.child /\ run'.old = run.old /\ run'.op = run.op
        /\ run'.recovery = run.recovery /\ run'.verified = run.verified
    BY <1>1, GotoShape DEF Pcs
  <2>3. EarlyMove
    BY <1>0, <2>1, <2>2 DEF EarlyMove, Early, SameStore
  <2>4. OpsInv' /\ UsableInv' /\ KeptRun'
    BY <1>0, <2>2, <2>3, EarlyMoveKeeps DEF OpsInv, UsableInv, KeptRun
  <2> QED BY <1>0, <2>1, <2>3, <2>4, SameWorld, EarlyMoveKeeps DEF RenewalInv, RunInv
<1>2. CASE Finish /\ UNCHANGED profile
  <2>1. SameStore
    BY <1>0, <1>2 DEF SameStore
  <2>2. drawn' \in Nat /\ drawn' > 0
    BY <2>1, Fields DEF SameStore
  <2> QED BY <1>0, <1>2, <2>1, <2>2, SameWorld, FinishKeeps DEF RenewalInv
<1>3. CASE /\ run.old.pend # 0 /\ profile' = Settled(run.old)
           /\ run' = [run EXCEPT !.pc = "retire", !.old = profile', !.op = run.old.op,
                                 !.slot = run.old.pslot]
  <2>1. Shape(run.old) /\ (profile = run.old \/ Displaced)
    BY <1>0 DEF Position, Expected
  <2>2. run.old.managed
    BY <1>3, <2>1 DEF Shape, Unmanaged
  <2>3. /\ profile'.token = run.old.token /\ profile'.managed = run.old.managed
        /\ profile'.slot = run.old.slot /\ profile'.pend = 0
    BY <1>3, Fields DEF Profiles, Settled
  <2>4. /\ run'.pc = "retire" /\ run'.old = profile' /\ run'.child = 0 /\ run'.op = run.old.op
        /\ run'.recovery = run.recovery /\ run'.verified = run.verified /\ run'.slot = run.old.pslot
    BY <1>0, <1>3, Fields DEF Runs
  <2>5. Shape(profile)'
    BY <1>0, <2>1, <2>2, <2>3, Fields DEF Shape
  <2>6. (Guarded => KeptProfile(profile)') /\ (Guarded => run.old.pslot # 0)
    BY <1>0, <1>3, <2>3 DEF RenewalInv, RunInv, KeptRun, KeptProfile, Guarded
  <2>7. profile'.token = profile.token \/ Fenced(profile.token)
    BY <2>1, <2>3 DEF Displaced, Fenced
  <2>8. ~disturbed => /\ ~Planned(profile'.token) /\ profile'.token \in live
                      /\ secrets[profile'.slot] = profile'.token
    BY <1>0, <2>1, <2>3 DEF Displaced, WorldInv, ActiveIsUsable
  <2>9. WorldInv'
    BY <1>0, <2>5, <2>6, <2>7, <2>8, ProfileStep
  <2>10. Position'
    BY <2>4, <2>5 DEF Position, Expected, Minted, Early, Shape
  <2>11. FenceInv'
    BY <1>0, <2>4 DEF FenceInv, RenewalInv, RunInv
  <2>12. OpsInv' /\ UsableInv'
    BY <1>0, <1>3, <2>1, <2>3, <2>4 DEF OpsInv, UsableInv, Shape
  <2>13. KeptRun'
    BY <1>0, <2>4, <2>6 DEF KeptRun, Guarded, KeptProfile
  <2> QED BY <2>9, <2>10, <2>11, <2>12, <2>13 DEF RenewalInv, RunInv
<1> QED BY <1>1, <1>2, <1>3 DEF SaveReconciled

LEMMA RetireSlotStep ==
  ASSUME TypeOK, RenewalInv, RetireSlot
  PROVE  RenewalInv'
<1>0. /\ WorldInv /\ Position /\ OpsInv /\ run.pc = "retire" /\ run.child = 0
      /\ secrets' = [secrets EXCEPT ![run.slot] = 0] /\ Goto("close")
      /\ UNCHANGED <<profile, attempt, record, plans, live, unknown, imported, disturbed, drawn>>
  BY DEF RetireSlot, At, RenewalInv, RunInv, Position, OpsInv, Early, Local, Rest, world
<1>1. Shape(run.old) /\ (profile = run.old \/ Displaced)
  BY <1>0 DEF Position, Expected
<1>2. /\ run'.pc = "close" /\ run'.child = run.child /\ run'.old = run.old /\ run'.op = run.op
      /\ run'.recovery = run.recovery /\ run'.verified = run.verified
  BY <1>0, GotoShape DEF Pcs
<1>3. run.slot \in Slots /\ (~disturbed => run.slot # profile.slot) /\ (Guarded => run.slot # 0)
  BY <1>0, <1>1, Fields DEF Displaced, RenewalInv, RunInv, UsableInv, KeptRun
<1>4. WorldInv'
  BY <1>0, <1>3, SecretStep
<1>5. Position'
  BY <1>0, <1>1, <1>2 DEF Position, Expected, Displaced, Minted, Early, Shape
<1>6. FenceInv' /\ OpsInv' /\ UsableInv'
  BY <1>0, <1>2 DEF FenceInv, OpsInv, UsableInv, RenewalInv, RunInv
<1>7. KeptRun'
  BY <1>0, <1>2 DEF RenewalInv, RunInv, KeptRun, Guarded, KeptProfile
<1> QED BY <1>4, <1>5, <1>6, <1>7 DEF RenewalInv, RunInv

LEMMA DueStep ==
  ASSUME TypeOK, RenewalInv, Due
  PROVE  RenewalInv'
<1>0. WorldInv /\ run.pc = "due" /\ run.child = 0 /\ SameStore
  BY DEF Due, At, RenewalInv, RunInv, Position, Early, Silent, Rest, local, world, SameStore
<1>1. CASE Finish
  <2>1. drawn' \in Nat /\ drawn' > 0
    BY <1>0, Fields DEF SameStore
  <2> QED BY <1>0, <1>1, <2>1, SameWorld, FinishKeeps DEF RenewalInv
<1>2. CASE \/ run.old.managed /\ Goto("health")
           \/ (run.old.managed \/ run.recovery \/ run.old.token \notin unknown) /\ Goto("claim")
  <2>1. /\ run'.pc \in {"health", "claim"} /\ run'.child = run.child /\ run'.old = run.old
        /\ run'.recovery = run.recovery /\ run'.verified = run.verified /\ run'.op = run.op
        /\ run'.pc = "health" => run.old.managed
        /\ run'.pc = "claim" => run.old.managed \/ run.recovery \/ run.old.token \notin unknown
    BY <1>2, GotoShape DEF Pcs
  <2>2. EarlyMove
    BY <1>0, <2>1 DEF EarlyMove, Early, SameStore
  <2>3. OpsInv' /\ UsableInv'
    BY <2>1 DEF OpsInv, UsableInv, RenewalInv, RunInv
  <2>4. Guarded /\ ~run.old.managed => run.old.token \in unknown
    BY DEF RenewalInv, RunInv, KeptRun, KeptProfile, WorldInv, Guarded
  <2>5. KeptRun'
    BY <1>0, <2>1, <2>2, <2>4, EarlyMoveKeeps DEF KeptRun, Guarded, SameStore
  <2> QED BY <1>0, <2>2, <2>3, <2>5, SameWorld, EarlyMoveKeeps DEF RenewalInv, RunInv
<1> QED BY <1>1, <1>2 DEF Due

LEMMA HealthStep ==
  ASSUME TypeOK, RenewalInv, Health
  PROVE  RenewalInv'
<1>0. /\ WorldInv /\ Position /\ run.pc = "health" /\ run.child = 0 /\ run.old.managed /\ Finish
      /\ UNCHANGED <<profile, attempt, record, plans, live, unknown, imported, disturbed, drawn>>
      /\ secrets' = secrets \/ (record.state = "none" /\ secrets' = [secrets EXCEPT ![0] = 0])
  BY DEF Health, At, RenewalInv, RunInv, Position, UsableInv, Early, Local, Rest, world, Legacy
<1>1. drawn' \in Nat /\ drawn' > 0 /\ 0 \in Slots
  BY <1>0, Fields, BoundTypes
<1>2. WorldInv'
  <2>1. CASE secrets' = secrets
    BY <1>0, <2>1, SameWorld DEF SameStore
  <2>2. CASE record.state = "none" /\ secrets' = [secrets EXCEPT ![0] = 0]
    <3>1. ~disturbed => profile.slot # 0
      BY <1>0, Fields DEF Position, Expected, Displaced, Shape
    <3>2. ~Guarded
      BY <1>0, <2>2 DEF RenewalInv, RunInv, KeptRun, KeptProfile
    <3> QED BY <1>0, <1>1, <2>2, <3>1, <3>2, SecretStep
  <2> QED BY <1>0, <2>1, <2>2
<1> QED BY <1>0, <1>1, <1>2, FinishKeeps DEF RenewalInv

\* The record that names the mint is closed only when the tokens it names are
\* gone or active.
LEMMA CloseStep ==
  ASSUME TypeOK, RenewalInv, Close
  PROVE  RenewalInv'
<1>0. /\ WorldInv /\ Position /\ OpsInv /\ run.pc = "close"
      /\ UNCHANGED <<profile, secrets, record, plans, live, unknown, imported, disturbed, drawn>>
  BY DEF Close, At, RenewalInv, RunInv, Local, Rest, world
<1>1. drawn \in Nat /\ drawn > 0 /\ drawn' = drawn /\ drawn <= drawn
  BY <1>0, Fields
<1>2. WorldInv'
  <2>1. CASE attempt' = attempt
    BY <1>0, <2>1, SameWorld DEF SameStore
  <2>2. CASE /\ attempt' = [attempt EXCEPT !.state = "closed"]
             /\ attempt.intended /\ Active = Child(attempt.new) /\ MayClose(Active, attempt.prior.token)
    <3>1. /\ attempt'.new = attempt.new /\ attempt'.mint = attempt.mint
          /\ attempt'.state = "closed"
      BY <2>2 DEF TypeOK
    <3>2. run.op \in Ops
      BY <1>0, Fields, BoundTypes DEF OpsInv
    <3>3. attempt.prior.token \notin live
      BY <1>0, <2>2, <3>2 DEF MayClose, WorldInv
    <3>4. profile.token = attempt.new
      BY <2>2 DEF MayClose, Child
    <3>5. attempt.new # 0
      BY <3>4, Fields, BoundTypes
    <3>6. attempt.new = attempt.mint
      BY <1>0, <3>5 DEF WorldInv
    <3>7. LiveTokensAreFenced'
      BY <1>0, <3>3, <3>4, <3>6 DEF WorldInv, LiveTokensAreFenced
    <3>8. attempt'.new \in {0, attempt'.mint}
      BY <3>1, <3>6
    <3> QED BY <1>0, <1>1, <3>7, <3>8, ClaimStep
  <2> QED BY <2>1, <2>2 DEF Close
<1>3. CASE Finish
  BY <1>1, <1>2, <1>3, FinishKeeps DEF RenewalInv
<1>4. CASE run.child = 0 /\ Goto("due")
  <2>1. /\ run'.pc = "due" /\ run'.child = 0 /\ run'.old = run.old /\ run'.op = run.op
        /\ run'.recovery = run.recovery /\ run'.verified = run.verified
    BY <1>4, GotoShape DEF Pcs
  <2>2. profile = run.old \/ Displaced
    BY <1>0, <1>4 DEF Position, Expected
  <2>3. Position'
    BY <1>0, <2>1, <2>2 DEF Position, Expected, Displaced, Minted, Early, Shape
  <2>4. FenceInv' /\ OpsInv' /\ UsableInv'
    BY <1>0, <1>4, <2>1 DEF FenceInv, OpsInv, UsableInv, RenewalInv, RunInv
  <2>5. KeptRun'
    BY <1>0, <2>1 DEF RenewalInv, RunInv, KeptRun, Guarded, KeptProfile
  <2> QED BY <1>2, <2>3, <2>4, <2>5 DEF RenewalInv, RunInv
<1> QED BY <1>3, <1>4 DEF Close

LEMMA CloseCleanedStep ==
  ASSUME TypeOK, RenewalInv, CloseCleaned
  PROVE  RenewalInv'
<1>0. /\ WorldInv /\ Position /\ OpsInv /\ run.pc = "closeClean" /\ Finish
      /\ UNCHANGED <<profile, secrets, record, plans, live, unknown, imported, disturbed, drawn>>
  BY DEF CloseCleaned, At, RenewalInv, RunInv, Local, Rest, world
<1>1. drawn \in Nat /\ drawn > 0 /\ drawn' = drawn /\ drawn <= drawn
  BY <1>0, Fields
<1>2. WorldInv'
  <2>1. CASE attempt' = attempt
    BY <1>0, <2>1, SameWorld DEF SameStore
  <2>2. CASE /\ attempt' = [attempt EXCEPT !.state = "closed"]
             /\ run.old = attempt.prior /\ MayClose(run.old, attempt.new)
    <3>1. /\ attempt'.new = attempt.new /\ attempt'.mint = attempt.mint
          /\ attempt'.state = "closed"
      BY <2>2 DEF TypeOK
    <3>2. run.op \in Ops
      BY <1>0, Fields, BoundTypes DEF OpsInv
    <3>3. attempt.new \notin live /\ attempt.new # 0
      BY <1>0, <2>2, <3>2 DEF MayClose, WorldInv
    <3>4. profile.token = attempt.prior.token
      BY <2>2 DEF MayClose
    <3>5. attempt.new = attempt.mint
      BY <1>0, <3>3 DEF WorldInv
    <3>6. LiveTokensAreFenced'
      BY <1>0, <3>3, <3>4, <3>5 DEF WorldInv, LiveTokensAreFenced
    <3>7. attempt'.new \in {0, attempt'.mint}
      BY <3>1, <3>5
    <3> QED BY <1>0, <1>1, <3>6, <3>7, ClaimStep
  <2> QED BY <2>1, <2>2 DEF CloseCleaned
<1> QED BY <1>0, <1>1, <1>2, FinishKeeps DEF RenewalInv

LEMMA ClaimMintStep ==
  ASSUME TypeOK, RenewalInv, ClaimMint
  PROVE  RenewalInv'
<1>0. /\ WorldInv /\ Position /\ FenceInv /\ run.pc = "claim" /\ run.child = 0
      /\ UNCHANGED <<profile, secrets, plans, live, unknown, imported, disturbed>>
  BY DEF ClaimMint, At, RenewalInv, RunInv, Position, Early, Rest, world
<1>1. CASE Finish /\ UNCHANGED <<attempt, record, drawn>>
  <2>1. drawn' \in Nat /\ drawn' > 0
    BY <1>1, Fields
  <2>2. SameStore
    BY <1>0, <1>1 DEF SameStore
  <2> QED BY <1>0, <1>1, <2>1, <2>2, SameWorld, FinishKeeps DEF RenewalInv
<1>2. CASE /\ profile = run.old /\ (run.recovery \/ attempt.state # "open")
           /\ drawn < MaxTokens /\ drawn' = drawn + 1
           /\ run' = [run EXCEPT !.pc = "mint", !.child = drawn + 1]
           /\ IF run.recovery
              THEN /\ record' = [NoRecord EXCEPT !.state = "pending", !.prior = run.old.token,
                                                 !.mint = drawn + 1]
                   /\ UNCHANGED attempt
              ELSE /\ attempt' = [NoAttempt EXCEPT !.state = "open", !.prior = run.old,
                                                   !.mint = drawn + 1]
                   /\ UNCHANGED record
  <2>1. drawn \in Nat /\ drawn' \in Nat /\ drawn <= drawn' /\ drawn + 1 # 0 /\ drawn < drawn + 1
    BY <1>2, Fields
  <2>2. /\ run'.pc = "mint" /\ run'.child = drawn + 1 /\ run'.old = run.old /\ run'.op = run.op
        /\ run'.recovery = run.recovery /\ run'.verified = run.verified
    BY <1>2, Fields DEF Runs
  <2>3. run.recovery =>
          /\ record'.state = "pending" /\ record'.prior = run.old.token /\ record'.mint = drawn + 1
          /\ attempt' = attempt
    BY <1>2 DEF NoRecord
  <2>4. ~run.recovery =>
          /\ attempt'.state = "open" /\ attempt'.prior = run.old /\ attempt'.mint = drawn + 1
          /\ attempt'.new = 0 /\ record' = record
    BY <1>2 DEF NoAttempt
  <2>5. run.recovery => record.state = "none"
    BY <1>0 DEF FenceInv
  <2>6. LiveTokensAreFenced'
    <3>1. CASE run.recovery
      BY <1>0, <2>3, <2>5, <3>1 DEF WorldInv, LiveTokensAreFenced
    <3>2. CASE ~run.recovery
      BY <1>0, <1>2, <2>4, <3>2 DEF WorldInv, LiveTokensAreFenced
    <3> QED BY <3>1, <3>2
  <2>7. attempt'.new \in {0, attempt'.mint} /\ (record.state # "none" => record'.state # "none")
    BY <1>0, <2>3, <2>4 DEF WorldInv
  <2>8. WorldInv'
    BY <1>0, <2>1, <2>6, <2>7, ClaimStep
  <2>9. Position'
    <3>1. run.old.token <= drawn /\ run.old.token \in Nat /\ run.old.pend \in Nat
      BY <1>0, Fields, BoundTypes DEF Position, Shape, Slots
    <3>2. Shape(run.old)'
      BY <1>0, <1>2, <2>1, <2>2, <3>1 DEF Position, Shape
    <3> QED BY <1>0, <1>2, <2>1, <2>2, <3>1, <3>2 DEF Position, Expected, Early, Switched
  <2>10. FenceInv'
    BY <2>1, <2>2, <2>3, <2>4 DEF FenceInv, Claimed
  <2>11. OpsInv'
    BY <2>2 DEF OpsInv, RenewalInv, RunInv
  <2>12. UsableInv'
    <3>1. \A o \in Ops : plans[o].token # drawn + 1
      BY <1>0, <2>1, Fields DEF WorldInv, TypeOK
    <3> QED BY <1>0, <2>2, <3>1 DEF UsableInv, Planned
  <2>13. KeptRun'
    BY <1>0, <2>2, <2>7 DEF KeptRun, KeptProfile, Guarded, RenewalInv, RunInv
  <2> QED BY <2>8, <2>9, <2>10, <2>11, <2>12, <2>13 DEF RenewalInv, RunInv
<1> QED BY <1>1, <1>2 DEF ClaimMint

\* After the mint the run goes on with the same child and the same record.
LateMove ==
  /\ run.pc \in Minted /\ run'.pc \in Minted \cup {"close"}
  /\ run'.child = run.child /\ run'.old = run.old /\ run'.recovery = run.recovery
  /\ attempt'.state = attempt.state /\ attempt'.prior = attempt.prior /\ attempt'.mint = attempt.mint
  /\ record'.state = record.state /\ record'.prior = record.prior /\ record'.mint = record.mint
  /\ profile' = Expected' \/ Displaced'
  /\ run'.pc = "switch" => profile' = run.old
  /\ UNCHANGED <<unknown, imported, disturbed, drawn>>

LEMMA LateMoveKeeps ==
  ASSUME RenewalInv, LateMove
  PROVE  Position' /\ FenceInv' /\ KeptRun'
<1> USE DEF LateMove
<1>1. run.child # 0
  BY DEF RenewalInv, RunInv, Position
<1>2. Position'
  BY <1>1 DEF RenewalInv, RunInv, Position, Shape, Early, Minted
<1>3. FenceInv'
  BY <1>1 DEF RenewalInv, RunInv, FenceInv, Claimed
<1>4. KeptRun'
  BY <1>1 DEF RenewalInv, RunInv, KeptRun, KeptProfile, Guarded, Early, Minted
<1> QED BY <1>2, <1>3, <1>4

\* Until the profile is switched, and again after a rollback.
Unswitched == Minted \ Switched

LEMMA BeforeSwitch ==
  ASSUME TypeOK, RenewalInv, run.pc \in Unswitched
  PROVE  /\ run.child # 0 /\ run.child \in Tokens /\ run.old.token < run.child /\ run.child <= drawn
         /\ profile = run.old \/ Displaced
         /\ ~disturbed => run.child # profile.token /\ run.child # profile.slot
<1>1. run.child # 0 /\ run.child \in Tokens /\ run.old.token < run.child /\ run.child <= drawn
  BY Fields, BoundTypes DEF RenewalInv, RunInv, Position, Unswitched
<1>2. profile = run.old \/ Displaced
  BY DEF RenewalInv, RunInv, Position, Expected, Unswitched, Minted
<1>3. run.old.slot \in {0, run.old.token} /\ run.old.token \in Nat /\ run.child \in Nat
  BY Fields, BoundTypes DEF RenewalInv, RunInv, Position, Shape, Unmanaged, Legacy, Tokens
<1> QED BY <1>1, <1>2, <1>3 DEF Displaced

LEMMA MintStep ==
  ASSUME TypeOK, RenewalInv, Mint
  PROVE  RenewalInv'
<1>0. /\ WorldInv /\ Position /\ FenceInv /\ UsableInv /\ run.pc = "mint"
      /\ UNCHANGED <<profile, secrets, attempt, record, plans, unknown, imported, disturbed, drawn>>
  BY DEF Mint, At, RenewalInv, RunInv, Rest
<1>1. run.pc \in Unswitched
  BY <1>0 DEF Unswitched, Minted, Switched, Early, Pcs
<1>2. PICK ok, effect \in BOOLEAN :
        /\ ok => effect
        /\ live' = IF effect THEN live \cup {run.child} ELSE live
        /\ IF ok THEN Goto("sink") ELSE Finish
  BY DEF Mint
<1>3. run.child # 0 /\ ~Planned(run.child)
  BY <1>0, <1>1, BeforeSwitch DEF UsableInv
<1>4. WorldInv'
  <2>1. Fenced(run.child)
    BY <1>0, <1>3 DEF FenceInv, Claimed, Fenced
  <2>2. LiveTokensAreFenced'
    BY <1>0, <1>2, <2>1 DEF WorldInv, LiveTokensAreFenced, Fenced
  <2>3. ActiveIsUsable' /\ UnknownPredecessorKept'
    BY <1>0, <1>2 DEF WorldInv, ActiveIsUsable, UnknownPredecessorKept
  <2>4. \A o \in Ops : plans'[o].state = "verified" => plans'[o].token \notin live'
    BY <1>0, <1>2, <1>3 DEF WorldInv, Planned
  <2>5. Shape(profile)' /\ (Guarded => KeptProfile(profile))'
    BY <1>0 DEF WorldInv, Shape, KeptProfile, Guarded
  <2> QED BY <1>0, <2>2, <2>3, <2>4, <2>5 DEF WorldInv, Planned, Guarded
<1>5. CASE ~ok
  <2>1. drawn' \in Nat /\ drawn' > 0
    BY <1>0, Fields
  <2> QED BY <1>2, <1>4, <1>5, <2>1, FinishKeeps DEF RenewalInv
<1>6. CASE ok
  <2>1. /\ run'.pc = "sink" /\ run'.child = run.child /\ run'.old = run.old /\ run'.op = run.op
        /\ run'.recovery = run.recovery /\ run'.verified = run.verified
    BY <1>2, <1>6, GotoShape DEF Pcs
  <2>2. LateMove
    BY <1>0, <1>1, <2>1, BeforeSwitch DEF LateMove, Minted, Early, Pcs, Expected, Displaced, Switched
  <2>3. OpsInv'
    BY <2>1 DEF OpsInv, RenewalInv, RunInv
  <2>4. UsableInv'
    BY <1>0, <1>2, <1>3, <1>6, <2>1 DEF UsableInv, Planned
  <2> QED BY <1>4, <2>2, <2>3, <2>4, LateMoveKeeps DEF RenewalInv, RunInv
<1> QED BY <1>5, <1>6

\* Moves that leave the profile and the records alone.
LEMMA UnswitchedMove ==
  ASSUME TypeOK, RenewalInv, run.pc \in Unswitched, run'.pc \in Unswitched \ {"switch"},
         run'.child = run.child, run'.old = run.old, run'.recovery = run.recovery,
         attempt'.state = attempt.state, attempt'.prior = attempt.prior, attempt'.mint = attempt.mint,
         record'.state = record.state, record'.prior = record.prior, record'.mint = record.mint,
         UNCHANGED <<profile, unknown, imported, disturbed, drawn>>
  PROVE  LateMove
BY BeforeSwitch DEF LateMove, Unswitched, Minted, Expected, Displaced

LEMMA FinishStep ==
  ASSUME TypeOK, WorldInv', Finish, drawn' = drawn
  PROVE  RenewalInv'
BY Fields, FinishKeeps DEF RenewalInv

LEMMA UnswitchedPcs ==
  /\ {"mint", "sink", "retain", "store", "stage", "staged", "discard", "abandon", "unstage", "unslot",
      "activate", "switch", "revert", "dropslot", "closeClean"} \subseteq Unswitched
  /\ Unswitched \subseteq Pcs
BY DEF Unswitched, Minted, Switched, Early, Pcs

LEMMA SilentStep ==
  ASSUME TypeOK, RenewalInv, ReadSink \/ StagedReads \/ Unstage
  PROVE  RenewalInv'
<1>0. SameStore /\ WorldInv
  BY DEF ReadSink, StagedReads, Unstage, Silent, Local, Rest, local, world, SameStore, RenewalInv
<1>1. WorldInv'
  BY <1>0, SameWorld
<1>2. CASE Finish
  BY <1>0, <1>1, <1>2, FinishStep DEF SameStore
<1>3. ASSUME NEW pc \in Pcs, Goto(pc),
             \/ run.pc = "sink" /\ pc = "retain"
             \/ run.pc = "staged" /\ pc \in {"activate", "discard"}
             \/ run.pc = "unstage" /\ pc = "unslot"
      PROVE  RenewalInv'
  <2>1. /\ run'.pc = pc /\ run'.child = run.child /\ run'.old = run.old /\ run'.op = run.op
        /\ run'.recovery = run.recovery /\ run'.verified = run.verified
    BY <1>3, GotoShape
  <2>2. LateMove
    BY <1>0, <1>3, <2>1, UnswitchedPcs, UnswitchedMove DEF SameStore
  <2>3. OpsInv'
    BY <1>3, <2>1 DEF OpsInv, RenewalInv, RunInv
  <2>4. UsableInv'
    BY <1>0, <1>3, <2>1 DEF UsableInv, Planned, SameStore, RenewalInv, RunInv
  <2> QED BY <1>1, <2>2, <2>3, <2>4, LateMoveKeeps DEF RenewalInv, RunInv
<1>4. {"retain", "activate", "discard", "unslot"} \subseteq Pcs
  BY DEF Pcs
<1> QED BY <1>2, <1>3, <1>4 DEF ReadSink, StagedReads, Unstage, At

LEMMA RetainChildStep ==
  ASSUME TypeOK, RenewalInv, RetainChild
  PROVE  RenewalInv'
<1>0. /\ WorldInv /\ FenceInv /\ run.pc = "retain" /\ Goto("store")
      /\ UNCHANGED <<profile, secrets, plans, live, unknown, imported, disturbed, drawn>>
  BY DEF RetainChild, At, RenewalInv, RunInv, Local, Rest, world
<1>1. run.pc \in Unswitched /\ run.child # 0
  BY <1>0, UnswitchedPcs, BeforeSwitch
<1>2. /\ attempt'.state = attempt.state /\ attempt'.prior = attempt.prior /\ attempt'.mint = attempt.mint
      /\ record'.state = record.state /\ record'.prior = record.prior /\ record'.mint = record.mint
      /\ attempt'.new = IF run.recovery THEN attempt.new ELSE run.child
  BY DEF RetainChild, TypeOK
<1>3. attempt'.new \in {0, attempt'.mint}
  BY <1>0, <1>1, <1>2 DEF WorldInv, FenceInv, Claimed
<1>4. LiveTokensAreFenced'
  BY <1>0, <1>2 DEF WorldInv, LiveTokensAreFenced
<1>5. WorldInv'
  <2>1. drawn' \in Nat /\ drawn <= drawn'
    BY <1>0, Fields
  <2> QED BY <1>0, <1>2, <1>3, <1>4, <2>1, ClaimStep
<1>6. /\ run'.pc = "store" /\ run'.child = run.child /\ run'.old = run.old /\ run'.op = run.op
      /\ run'.recovery = run.recovery /\ run'.verified = run.verified
  BY <1>0, GotoShape DEF Pcs
<1>7. LateMove
  BY <1>0, <1>1, <1>2, <1>6, UnswitchedPcs, UnswitchedMove
<1>8. OpsInv' /\ UsableInv'
  BY <1>0, <1>6 DEF OpsInv, UsableInv, Planned, RenewalInv, RunInv
<1> QED BY <1>5, <1>7, <1>8, LateMoveKeeps DEF RenewalInv, RunInv

\* Storing, or removing, the child's value touches the child's slot only.
LEMMA ChildSlotStep ==
  ASSUME TypeOK, RenewalInv, run.pc \in Unswitched, NEW v, secrets' = [secrets EXCEPT ![run.child] = v],
         UNCHANGED <<profile, attempt, record, plans, live, unknown, imported, disturbed, drawn>>
  PROVE  WorldInv'
BY BeforeSwitch, BoundTypes, SecretStep DEF RenewalInv

LEMMA StoreSlotStep ==
  ASSUME TypeOK, RenewalInv, StoreSlot
  PROVE  RenewalInv'
<1>0. /\ run.pc = "store" /\ Goto("stage") /\ secrets' = [secrets EXCEPT ![run.child] = run.child]
      /\ UNCHANGED <<profile, attempt, record, plans, live, unknown, imported, disturbed, drawn>>
  BY DEF StoreSlot, At, Local, Rest, world
<1>1. run.pc \in Unswitched
  BY <1>0, UnswitchedPcs
<1>2. WorldInv'
  BY <1>0, <1>1, ChildSlotStep
<1>3. /\ run'.pc = "stage" /\ run'.child = run.child /\ run'.old = run.old /\ run'.op = run.op
      /\ run'.recovery = run.recovery /\ run'.verified = run.verified
  BY <1>0, GotoShape DEF Pcs
<1>4. LateMove
  BY <1>0, <1>1, <1>3, UnswitchedPcs, UnswitchedMove
<1>5. secrets'[run.child] = run.child
  BY <1>0, Fields
<1>6. OpsInv' /\ UsableInv'
  BY <1>0, <1>3, <1>5 DEF OpsInv, UsableInv, Planned, RenewalInv, RunInv
<1> QED BY <1>2, <1>4, <1>6, LateMoveKeeps DEF RenewalInv, RunInv

LEMMA StageProfileStep ==
  ASSUME TypeOK, RenewalInv, StageProfile
  PROVE  RenewalInv'
<1>0. /\ run.pc = "stage" /\ WorldInv
      /\ UNCHANGED <<profile, attempt, record, plans, live, unknown, imported, disturbed, drawn>>
  BY DEF StageProfile, At, Local, Rest, world, RenewalInv
<1>1. run.pc \in Unswitched
  BY <1>0, UnswitchedPcs
<1>2. CASE secrets' = [secrets EXCEPT ![run.child] = 0] /\ Finish
  BY <1>0, <1>1, <1>2, ChildSlotStep, FinishStep
<1>3. CASE Goto("staged") /\ UNCHANGED secrets
  <2>1. /\ run'.pc = "staged" /\ run'.child = run.child /\ run'.old = run.old /\ run'.op = run.op
        /\ run'.recovery = run.recovery /\ run'.verified = run.verified
    BY <1>3, GotoShape DEF Pcs
  <2>2. LateMove
    BY <1>0, <1>1, <2>1, UnswitchedPcs, UnswitchedMove
  <2>3. OpsInv' /\ UsableInv'
    BY <1>0, <1>3, <2>1 DEF OpsInv, UsableInv, Planned, RenewalInv, RunInv
  <2> QED BY <1>0, <1>3, <2>2, <2>3, SameWorld, LateMoveKeeps DEF RenewalInv, RunInv, SameStore
<1> QED BY <1>2, <1>3 DEF StageProfile

LEMMA DropSlotStep ==
  ASSUME TypeOK, RenewalInv, DropSlot
  PROVE  RenewalInv'
<1>0. /\ run.pc \in {"unslot", "dropslot"} /\ secrets' = [secrets EXCEPT ![run.child] = 0]
      /\ UNCHANGED <<profile, attempt, record, plans, live, unknown, imported, disturbed, drawn>>
  BY DEF DropSlot, At, Local, Rest, world
<1>1. run.pc \in Unswitched
  BY <1>0, UnswitchedPcs
<1>2. WorldInv'
  BY <1>0, <1>1, ChildSlotStep
<1>3. CASE Finish
  BY <1>0, <1>2, <1>3, FinishStep
<1>4. CASE run.verified /\ Goto("closeClean")
  <2>1. /\ run'.pc = "closeClean" /\ run'.child = run.child /\ run'.old = run.old /\ run'.op = run.op
        /\ run'.recovery = run.recovery /\ run'.verified = run.verified
    BY <1>4, GotoShape DEF Pcs
  <2>2. LateMove
    BY <1>0, <1>1, <2>1, UnswitchedPcs, UnswitchedMove
  <2>3. OpsInv' /\ UsableInv'
    BY <1>0, <1>4, <2>1 DEF OpsInv, UsableInv, RenewalInv, RunInv
  <2> QED BY <1>2, <2>2, <2>3, LateMoveKeeps DEF RenewalInv, RunInv
<1> QED BY <1>3, <1>4 DEF DropSlot

\* The child is revoked while the profile names another token.
LEMMA RevokeChildStep ==
  ASSUME TypeOK, RenewalInv, Discard \/ Revert
  PROVE  RenewalInv'
<1>0. /\ run.pc \in {"discard", "abandon", "revert"} /\ WorldInv
      /\ UNCHANGED <<profile, secrets, attempt, record, unknown, imported, disturbed, drawn>>
  BY DEF Discard, Revert, At, Rest, local, RenewalInv
<1>1. PICK next \in {"unstage", "dropslot"} : RevokeChild(run.child, next)
  BY DEF Discard, Revert
<1>2. next \in Pcs /\ next \in Unswitched \ {"switch"} /\ run.pc \in Unswitched
  BY <1>0, UnswitchedPcs
<1>3. CASE Revoked(run.child, next)
  <2>1. run.child \in Slots
    BY Fields
  <2>2. PICK verified, effect \in BOOLEAN :
           /\ verified => effect
           /\ live' = IF effect THEN live \ {run.child} ELSE live
           /\ NewPlan(run.child, IF verified THEN "verified" ELSE "unsettled")
           /\ run' \in Runs /\ run'.pc = next /\ run'.op = ops + 1 /\ run'.verified = verified
           /\ run'.recovery = run.recovery /\ run'.old = run.old /\ run'.child = run.child
    BY <1>2, <1>3, <2>1, RevokedShape
  <2>3. run.child # 1
    <3>1. run.child \in Nat /\ run.old.token \in Nat /\ run.old.token >= 1 /\ run.old.token < run.child
      BY <1>2, Fields, BeforeSwitch, BoundTypes DEF Tokens
    <3> QED BY <3>1
  <2>4. WorldInv'
    <3> DEFINE state == IF verified THEN "verified" ELSE "unsettled"
    <3>1. NewPlan(run.child, state) /\ live' \in {live, live \ {run.child}}
          /\ (state = "verified" => live' = live \ {run.child})
      BY <2>2
    <3> HIDE DEF state
    <3> QED BY <1>0, <1>2, <2>1, <2>3, <3>1, BeforeSwitch, PlanStep
  <2>5. LateMove
    BY <1>0, <1>2, <2>2, UnswitchedMove
  <2>6. OpsInv' /\ UsableInv'
    BY <1>1, <2>2 DEF OpsInv, UsableInv, NewPlan
  <2> QED BY <2>4, <2>5, <2>6, LateMoveKeeps DEF RenewalInv, RunInv
<1>4. CASE RevokeErr(next)
  <2>1. /\ run'.pc = next /\ run'.op = 0 /\ run'.verified = FALSE
        /\ run'.recovery = run.recovery /\ run'.old = run.old /\ run'.child = run.child
        /\ UNCHANGED world
    BY <1>2, <1>4, RevokeErrShape
  <2>2. SameStore
    BY <1>0, <2>1 DEF SameStore, world
  <2>3. LateMove
    BY <1>0, <1>2, <2>1, UnswitchedMove
  <2>4. OpsInv' /\ UsableInv'
    BY <1>1, <2>1 DEF OpsInv, UsableInv
  <2> QED BY <1>0, <2>2, <2>3, <2>4, SameWorld, LateMoveKeeps DEF RenewalInv, RunInv
<1> QED BY <1>1, <1>3, <1>4 DEF RevokeChild

LEMMA RetainActivationStep ==
  ASSUME TypeOK, RenewalInv, RetainActivation
  PROVE  RenewalInv'
<1>0. /\ WorldInv /\ run.pc = "activate"
      /\ attempt' \in {attempt, [attempt EXCEPT !.intended = TRUE]}
      /\ UNCHANGED <<profile, secrets, record, plans, live, unknown, imported, disturbed, drawn>>
  BY DEF RetainActivation, At, RenewalInv, Local, Rest, world
<1>1. run.pc \in Unswitched
  BY <1>0, UnswitchedPcs
<1>2. /\ attempt'.state = attempt.state /\ attempt'.prior = attempt.prior /\ attempt'.mint = attempt.mint
      /\ attempt'.new = attempt.new
  BY <1>0 DEF TypeOK
<1>3. WorldInv'
  <2>1. drawn' \in Nat /\ drawn <= drawn'
    BY <1>0, Fields
  <2>2. LiveTokensAreFenced' /\ attempt'.new \in {0, attempt'.mint}
    BY <1>0, <1>2 DEF WorldInv, LiveTokensAreFenced
  <2> QED BY <1>0, <2>1, <2>2, ClaimStep
<1>4. PICK pc \in {"switch", "abandon"} : Goto(pc) /\ (pc = "switch" => profile = run.old)
  BY DEF RetainActivation
<1>5. /\ run'.pc = pc /\ run'.child = run.child /\ run'.old = run.old /\ run'.op = run.op
      /\ run'.recovery = run.recovery /\ run'.verified = run.verified
  BY <1>4, GotoShape DEF Pcs
<1>6. LateMove
  <2>1. run'.pc \in Unswitched /\ (profile = run.old \/ Displaced)
    BY <1>1, <1>5, UnswitchedPcs, BeforeSwitch
  <2> QED BY <1>0, <1>1, <1>2, <1>4, <1>5, <2>1
          DEF LateMove, Unswitched, Minted, Expected, Displaced
<1>7. OpsInv' /\ UsableInv'
  BY <1>0, <1>4, <1>5 DEF OpsInv, UsableInv, Planned, RenewalInv, RunInv
<1> QED BY <1>3, <1>6, <1>7, LateMoveKeeps DEF RenewalInv, RunInv

LEMMA ChildProfile ==
  ASSUME NEW t \in Tokens, t > 1
  PROVE  /\ Child(t).token = t /\ Child(t).slot = t /\ Child(t).managed = TRUE
         /\ Child(t).pend = 0
BY DEF Child

LEMMA ActivateStep ==
  ASSUME TypeOK, RenewalInv, Activate
  PROVE  RenewalInv'
<1>0. /\ WorldInv /\ Position /\ FenceInv /\ UsableInv /\ KeptRun /\ run.pc = "switch" /\ profile = run.old
      /\ profile' = Child(run.child) /\ Goto("active")
      /\ UNCHANGED <<secrets, attempt, record, plans, live, unknown, imported, disturbed, drawn>>
  BY DEF Activate, At, RenewalInv, RunInv, Position, Local, Rest, world
<1>1. /\ run.child # 0 /\ run.child \in Tokens /\ run.old.token < run.child /\ run.child <= drawn
      /\ run.child > 1
  <2>1. run.child # 0 /\ run.child \in Tokens /\ run.old.token < run.child /\ run.child <= drawn
    BY <1>0, UnswitchedPcs, BeforeSwitch
  <2>2. run.child \in Nat /\ run.old.token \in Nat /\ run.old.token >= 1
    BY <2>1, Fields DEF Tokens
  <2> QED BY <2>1, <2>2
<1>2. /\ profile'.token = run.child /\ profile'.slot = run.child /\ profile'.managed = TRUE
      /\ profile'.pend = 0
  BY <1>0, <1>1, ChildProfile
<1>3. Shape(profile)'
  BY <1>0, <1>1, <1>2, Fields DEF Shape
<1>4. Guarded => KeptProfile(profile)'
  <2>1. Guarded => record.state # "none"
    BY <1>0, <1>1 DEF FenceInv, Claimed, KeptRun, KeptProfile
  <2> QED BY <1>0, <1>2, <2>1 DEF KeptProfile
<1>5. Fenced(profile.token)
  BY <1>0, <1>1 DEF FenceInv, Claimed, Fenced
<1>6. ~disturbed => /\ ~Planned(profile'.token) /\ profile'.token \in live
                    /\ secrets[profile'.slot] = profile'.token
  BY <1>0, <1>2 DEF UsableInv
<1>7. WorldInv'
  BY <1>0, <1>3, <1>4, <1>5, <1>6, ProfileStep
<1>8. /\ run'.pc = "active" /\ run'.child = run.child /\ run'.old = run.old /\ run'.op = run.op
      /\ run'.recovery = run.recovery /\ run'.verified = run.verified
  BY <1>0, GotoShape DEF Pcs
<1>9. LateMove
  BY <1>0, <1>1, <1>8 DEF LateMove, Minted, Early, Pcs, Expected, Switched
<1>10. OpsInv'
  BY <1>8 DEF OpsInv, RenewalInv, RunInv
<1>11. UsableInv'
  BY <1>0, <1>8 DEF UsableInv, Planned, WorldInv, ActiveIsUsable
<1> QED BY <1>7, <1>9, <1>10, <1>11, LateMoveKeeps DEF RenewalInv, RunInv

\* After the switch the profile names the child, or an import displaced it.
LEMMA AfterSwitch ==
  ASSUME TypeOK, RenewalInv, run.pc \in Switched
  PROVE  /\ run.child # 0 /\ run.child \in Tokens /\ run.child \in Nat /\ run.old.token \in Nat
         /\ run.old.token < run.child /\ run.child <= drawn /\ run.child > 1
         /\ profile = Child(run.child) \/ Displaced
         /\ run.old.slot \in {0, run.old.token}
<1>1. run.pc \in Minted
  BY DEF Switched, Minted, Early, Pcs
<1>2. run.child # 0 /\ run.child \in Tokens /\ run.old.token < run.child /\ run.child <= drawn
  BY <1>1, Fields, BoundTypes DEF RenewalInv, RunInv, Position
<1>3. run.child \in Nat /\ run.old.token \in Nat /\ run.old.token >= 1
  BY <1>2, Fields DEF Tokens
<1>4. profile = Child(run.child) \/ Displaced
  BY <1>1, <1>2 DEF RenewalInv, RunInv, Position, Expected, Minted
<1>5. run.old.slot \in {0, run.old.token}
  BY Fields DEF RenewalInv, RunInv, Position, Shape, Unmanaged, Legacy
<1> QED BY <1>2, <1>3, <1>4, <1>5

LEMMA SwitchedMove ==
  ASSUME TypeOK, RenewalInv, run.pc \in Switched, run'.pc \in Switched \cup {"close"},
         run'.child = run.child, run'.old = run.old, run'.recovery = run.recovery,
         UNCHANGED <<profile, attempt, record, unknown, imported, disturbed, drawn>>
  PROVE  LateMove
<1>1. run'.pc \in Minted \cup {"close"} /\ run.pc \in Minted
  BY DEF Switched, Minted, Early, Pcs
<1>2. run'.pc # "switch" /\ (profile' = Expected' \/ Displaced')
  BY AfterSwitch DEF Switched, Expected, Displaced
<1> QED BY <1>1, <1>2 DEF LateMove

LEMMA ActiveReadsStep ==
  ASSUME TypeOK, RenewalInv, ActiveReads
  PROVE  RenewalInv'
<1>0. WorldInv /\ run.pc = "active" /\ SameStore
  BY DEF ActiveReads, At, RenewalInv, Silent, Rest, local, world, SameStore
<1>1. PICK pc \in {"predecessor", "rollback"} : Goto(pc)
  BY DEF ActiveReads
<1>2. /\ run'.pc = pc /\ run'.child = run.child /\ run'.old = run.old /\ run'.op = run.op
      /\ run'.recovery = run.recovery /\ run'.verified = run.verified
  BY <1>1, GotoShape DEF Pcs
<1>3. LateMove
  BY <1>0, <1>2, SwitchedMove DEF Switched, SameStore
<1>4. OpsInv' /\ UsableInv'
  BY <1>0, <1>1, <1>2 DEF OpsInv, UsableInv, Planned, SameStore, RenewalInv, RunInv
<1> QED BY <1>0, <1>3, <1>4, SameWorld, LateMoveKeeps DEF RenewalInv, RunInv

LEMMA RollbackStep ==
  ASSUME TypeOK, RenewalInv, Rollback
  PROVE  RenewalInv'
<1>0. /\ WorldInv /\ Position /\ FenceInv /\ UsableInv /\ KeptRun /\ run.pc = "rollback"
      /\ UNCHANGED <<secrets, attempt, record, plans, live, unknown, imported, disturbed, drawn>>
  BY DEF Rollback, At, RenewalInv, RunInv, Local, Rest, world
<1>1. CASE Finish /\ UNCHANGED profile
  BY <1>0, <1>1, SameWorld, FinishStep DEF SameStore
<1>2. CASE profile = Child(run.child) /\ profile' = run.old /\ Goto("revert")
  <2>1. run.child # 0 /\ run.child \in Tokens /\ run.child > 1 /\ profile.token = run.child
    BY <1>0, <1>2, AfterSwitch, ChildProfile DEF Switched
  <2>2. Shape(profile)' /\ (Guarded => KeptProfile(profile)')
    BY <1>0, <1>2 DEF Position, Shape, KeptRun, KeptProfile, Guarded
  <2>3. Fenced(profile.token)
    BY <1>0, <2>1 DEF FenceInv, Claimed, Fenced
  <2>4. ~disturbed => /\ ~Planned(profile'.token) /\ profile'.token \in live
                      /\ secrets[profile'.slot] = profile'.token
    BY <1>0, <1>2 DEF UsableInv
  <2>5. WorldInv'
    BY <1>0, <2>2, <2>3, <2>4, ProfileStep
  <2>6. /\ run'.pc = "revert" /\ run'.child = run.child /\ run'.old = run.old /\ run'.op = run.op
        /\ run'.recovery = run.recovery /\ run'.verified = run.verified
    BY <1>2, GotoShape DEF Pcs
  <2>7. LateMove
    BY <1>0, <1>2, <2>6 DEF LateMove, Minted, Early, Pcs, Expected, Switched
  <2>8. OpsInv' /\ UsableInv'
    BY <2>6 DEF OpsInv, UsableInv, RenewalInv, RunInv
  <2> QED BY <2>5, <2>7, <2>8, LateMoveKeeps DEF RenewalInv, RunInv
<1> QED BY <1>1, <1>2 DEF Rollback

LEMMA CompleteRecoveryStep ==
  ASSUME TypeOK, RenewalInv, CompleteRecovery
  PROVE  RenewalInv'
<1>0. /\ WorldInv /\ FenceInv /\ run.pc = "predecessor" /\ run.recovery /\ Finish
      /\ record' \in {record, [record EXCEPT !.state = "active"]}
      /\ UNCHANGED <<profile, secrets, attempt, plans, live, unknown, imported, disturbed, drawn>>
  BY DEF CompleteRecovery, At, RenewalInv, RunInv, Local, Rest, world
<1>1. run.child # 0
  BY <1>0, AfterSwitch DEF Switched
<1>2. record'.state # "none" /\ record'.prior = record.prior /\ record'.mint = record.mint
  BY <1>0, <1>1 DEF FenceInv, Claimed, TypeOK
<1>3. LiveTokensAreFenced' /\ attempt'.new \in {0, attempt'.mint}
  BY <1>0, <1>2 DEF WorldInv, LiveTokensAreFenced
<1>4. drawn' \in Nat /\ drawn <= drawn'
  BY <1>0, Fields
<1>5. WorldInv'
  BY <1>0, <1>2, <1>3, <1>4, ClaimStep
<1> QED BY <1>0, <1>5, FinishStep

LEMMA RevokePredecessorStep ==
  ASSUME TypeOK, RenewalInv, RevokePredecessor
  PROVE  RenewalInv'
<1>0. /\ WorldInv /\ Position /\ KeptRun /\ run.pc = "predecessor" /\ ~run.recovery
      /\ UNCHANGED <<profile, secrets, attempt, record, unknown, imported, disturbed, drawn>>
  BY DEF RevokePredecessor, At, RenewalInv, RunInv, Rest, local
<1> DEFINE t == run.old.token
<1>1. /\ t \in Slots /\ t # 0 /\ t <= drawn
      /\ ~disturbed => t # profile.token
      /\ Guarded => t # 1
  <2>1. /\ run.child # 0 /\ run.child \in Tokens /\ run.child \in Nat /\ t \in Nat /\ t < run.child
        /\ run.child <= drawn /\ run.child > 1 /\ (profile = Child(run.child) \/ Displaced)
    BY <1>0, AfterSwitch DEF Switched
  <2>2. ~disturbed => profile.token = run.child
    BY <2>1, ChildProfile DEF Displaced
  <2>3. t \in Tokens /\ drawn \in Nat
    BY Fields
  <2>4. Guarded => t > 1
    BY <1>0, <2>1 DEF KeptRun, Position, Shape
  <2> QED BY <2>1, <2>2, <2>3, <2>4, BoundTypes
<1>2. "savePending" \in Pcs /\ "savePending" \in Switched /\ run.pc \in Switched
  BY <1>0 DEF Pcs, Switched
<1> HIDE DEF t
<1>3. CASE Revoked(t, "savePending")
  <2>1. PICK verified, effect \in BOOLEAN :
           /\ verified => effect
           /\ live' = IF effect THEN live \ {t} ELSE live
           /\ NewPlan(t, IF verified THEN "verified" ELSE "unsettled")
           /\ run' \in Runs /\ run'.pc = "savePending" /\ run'.op = ops + 1 /\ run'.verified = verified
           /\ run'.recovery = run.recovery /\ run'.old = run.old /\ run'.child = run.child
    BY <1>1, <1>2, <1>3, RevokedShape
  <2>2. WorldInv'
    <3> DEFINE state == IF verified THEN "verified" ELSE "unsettled"
    <3>1. NewPlan(t, state) /\ live' \in {live, live \ {t}} /\ (state = "verified" => live' = live \ {t})
      BY <2>1
    <3> HIDE DEF state
    <3> QED BY <1>0, <1>1, <3>1, PlanStep
  <2>3. LateMove
    BY <1>0, <1>2, <2>1, SwitchedMove
  <2>4. OpsInv' /\ UsableInv'
    BY <1>0, <2>1 DEF OpsInv, UsableInv, NewPlan
  <2> QED BY <2>2, <2>3, <2>4, LateMoveKeeps DEF RenewalInv, RunInv
<1>4. CASE Finish /\ UNCHANGED world
  BY <1>0, <1>4, SameWorld, FinishStep DEF SameStore, world
<1>5. CASE /\ PlanRevoke(t) /\ run' = [run EXCEPT !.pc = "savePending", !.op = ops + 1]
           /\ UNCHANGED <<live, lineage>>
  <2>1. NewPlan(t, "draft")
    BY <1>1, <1>5, PlanRevokeShape
  <2>2. WorldInv'
    BY <1>0, <1>1, <1>5, <2>1, PlanStep
  <2>3. /\ run'.pc = "savePending" /\ run'.child = run.child /\ run'.old = run.old /\ run'.op = ops + 1
        /\ run'.recovery = run.recovery /\ run'.verified = run.verified
    BY <1>5, Fields DEF Runs
  <2>4. LateMove
    BY <1>0, <1>2, <2>3, SwitchedMove
  <2>5. OpsInv' /\ UsableInv'
    BY <1>0, <2>1, <2>3 DEF OpsInv, UsableInv, NewPlan
  <2> QED BY <2>2, <2>4, <2>5, LateMoveKeeps DEF RenewalInv, RunInv
<1>6. CASE Goto("savePending") /\ UNCHANGED <<plans, ops, live, lineage>>
  <2>1. /\ run'.pc = "savePending" /\ run'.child = run.child /\ run'.old = run.old /\ run'.op = run.op
        /\ run'.recovery = run.recovery /\ run'.verified = run.verified
    BY <1>2, <1>6, GotoShape
  <2>2. LateMove
    BY <1>0, <1>2, <2>1, SwitchedMove
  <2>3. OpsInv' /\ UsableInv'
    BY <1>0, <2>1 DEF OpsInv, UsableInv, RenewalInv, RunInv
  <2> QED BY <1>0, <1>6, <2>2, <2>3, SameWorld, LateMoveKeeps DEF RenewalInv, RunInv, SameStore
<1> QED BY <1>3, <1>4, <1>5, <1>6 DEF RevokePredecessor, t

LEMMA SavePendingStep ==
  ASSUME TypeOK, RenewalInv, SavePending
  PROVE  RenewalInv'
<1>0. /\ WorldInv /\ Position /\ KeptRun /\ run.pc = "savePending" /\ ~run.recovery
      /\ UNCHANGED <<secrets, attempt, record, plans, live, unknown, imported, disturbed, drawn>>
  BY DEF SavePending, At, RenewalInv, RunInv, UsableInv, Local, Rest, world
<1>1. CASE run.verified /\ Goto("dropOld") /\ UNCHANGED profile
  <2>1. /\ run'.pc = "dropOld" /\ run'.child = run.child /\ run'.old = run.old /\ run'.op = run.op
        /\ run'.recovery = run.recovery /\ run'.verified = run.verified
    BY <1>1, GotoShape DEF Pcs
  <2>2. LateMove
    BY <1>0, <1>1, <2>1, SwitchedMove DEF Switched
  <2>3. OpsInv' /\ UsableInv'
    BY <1>0, <1>1, <2>1 DEF OpsInv, UsableInv, RenewalInv, RunInv
  <2> QED BY <1>0, <1>1, <2>2, <2>3, SameWorld, LateMoveKeeps DEF RenewalInv, RunInv, SameStore
<1>2. CASE Finish /\ ~profile.managed /\ UNCHANGED profile
  BY <1>0, <1>2, SameWorld, FinishStep DEF SameStore
<1>3. CASE /\ Finish /\ profile.managed
           /\ profile' = [profile EXCEPT !.pend = run.old.token, !.op = run.op, !.pslot = run.old.slot]
  <2>1. /\ run.child # 0 /\ run.child \in Tokens /\ run.child \in Nat /\ run.old.token \in Nat
        /\ run.old.token < run.child /\ run.child <= drawn /\ run.child > 1
        /\ profile = Child(run.child) /\ run.old.slot \in {0, run.old.token}
    BY <1>0, <1>3, AfterSwitch DEF Switched, Displaced
  <2>2. profile.token = run.child /\ profile.slot = run.child
    BY <2>1, ChildProfile
  <2>3. /\ profile'.token = profile.token /\ profile'.slot = profile.slot
        /\ profile'.managed = profile.managed /\ profile'.pend = run.old.token
        /\ profile'.pslot = run.old.slot
    BY <1>3, Fields DEF Profiles
  <2>4. Shape(profile)'
    BY <1>0, <1>3, <2>1, <2>2, <2>3, Fields DEF Shape
  <2>5. Guarded => KeptProfile(profile)'
    <3>1. Guarded => run.old.managed /\ run.old.token > 1 /\ run.old.slot = run.old.token
      BY <1>0, <2>1 DEF KeptRun, Position, Shape
    <3>2. Guarded => record.state # "none"
      BY <1>0, <1>3 DEF WorldInv, KeptProfile
    <3> QED BY <1>0, <1>3, <2>1, <2>3, <3>1, <3>2 DEF KeptProfile
  <2>6. ~disturbed => /\ ~Planned(profile'.token) /\ profile'.token \in live
                      /\ secrets[profile'.slot] = profile'.token
    BY <1>0, <2>3 DEF WorldInv, ActiveIsUsable
  <2>7. WorldInv'
    BY <1>0, <2>3, <2>4, <2>5, <2>6, ProfileStep
  <2> QED BY <1>0, <1>3, <2>7, FinishStep
<1> QED BY <1>1, <1>2, <1>3 DEF SavePending

LEMMA DropOldSlotStep ==
  ASSUME TypeOK, RenewalInv, DropOldSlot
  PROVE  RenewalInv'
<1>0. /\ WorldInv /\ Position /\ KeptRun /\ run.pc = "dropOld" /\ ~run.recovery /\ run.verified
      /\ secrets' = [secrets EXCEPT ![run.old.slot] = 0] /\ Goto("close")
      /\ UNCHANGED <<profile, attempt, record, plans, live, unknown, imported, disturbed, drawn>>
  BY DEF DropOldSlot, At, RenewalInv, RunInv, UsableInv, OpsInv, Local, Rest, world
<1>1. /\ run.child # 0 /\ run.child \in Tokens /\ run.child \in Nat /\ run.old.token \in Nat
      /\ run.old.token < run.child /\ run.child > 1
      /\ (profile = Child(run.child) \/ Displaced) /\ run.old.slot \in {0, run.old.token}
  BY <1>0, AfterSwitch DEF Switched
<1>2. ~disturbed => run.old.slot # profile.slot
  <2>1. ~disturbed => profile.slot = run.child
    BY <1>1, ChildProfile DEF Displaced
  <2>2. run.old.slot # run.child
    BY <1>1
  <2> QED BY <2>1, <2>2
<1>3. Guarded => run.old.slot # 0
  BY <1>0, <1>1 DEF KeptRun, Position, Shape
<1>4. WorldInv'
  BY <1>0, <1>2, <1>3, Fields, SecretStep
<1>5. /\ run'.pc = "close" /\ run'.child = run.child /\ run'.old = run.old /\ run'.op = run.op
      /\ run'.recovery = run.recovery /\ run'.verified = run.verified
  BY <1>0, GotoShape DEF Pcs
<1>6. LateMove
  BY <1>0, <1>5, SwitchedMove DEF Switched
<1>7. OpsInv' /\ UsableInv'
  BY <1>0, <1>5 DEF OpsInv, UsableInv, RenewalInv, RunInv
<1> QED BY <1>4, <1>6, <1>7, LateMoveKeeps DEF RenewalInv, RunInv

-----------------------------------------------------------------------------
\* The other actors: an operator who ends a plan, one who imports a token, and
\* whatever stops a run.

LEMMA EndPlanStep ==
  ASSUME TypeOK, RenewalInv, NEW o \in Ops, RunPlan(o) \/ LapsePlan(o)
  PROVE  RenewalInv'
<1> DEFINE t == plans[o].token
<1>0. PICK state \in {"verified", "unsettled", "lapsed"} :
      /\ WorldInv /\ plans \in [Ops -> Revocation] /\ plans[o].state # "none"
      /\ plans' = [plans EXCEPT ![o].state = state]
      /\ live' \in {live, live \ {t}} /\ (state = "verified" => live' = live \ {t})
      /\ run' = run
      /\ UNCHANGED <<profile, secrets, attempt, record, unknown, imported, disturbed, drawn>>
  BY TypeParts DEF Typed, RunPlan, LapsePlan, RenewalInv, Rest, local
<1>1. /\ \A p \in Ops : plans'[p].token = plans[p].token
      /\ \A p \in Ops : plans'[p].state # "none" => plans[p].state # "none"
      /\ \A p \in Ops : plans'[p].state = "verified" => (p = o /\ state = "verified") \/ plans[p].state = "verified"
  BY <1>0 DEF Revocation
<1>2. Planned(t) /\ \A u : Planned(u) <=> (\E p \in Ops : plans'[p].token = u)
  BY <1>1 DEF Planned
<1> HIDE DEF t
<1>3. WorldInv'
  <2>1. ActiveIsUsable'
    BY <1>0, <1>2 DEF WorldInv, ActiveIsUsable
  <2>2. UnknownPredecessorKept'
    BY <1>0, <1>2 DEF WorldInv, UnknownPredecessorKept, Guarded
  <2>3. LiveTokensAreFenced'
    BY <1>0 DEF WorldInv, LiveTokensAreFenced
  <2>4. Shape(profile)' /\ (Guarded => KeptProfile(profile))'
    BY <1>0 DEF WorldInv, Shape, KeptProfile, Guarded
  <2>5. \A p \in Ops : /\ plans'[p].token <= drawn'
                       /\ plans'[p].state = "verified" => plans'[p].token \notin live'
                       /\ plans'[p].state # "none" => plans'[p].token # 0
    BY <1>0, <1>1 DEF WorldInv, t
  <2>6. (~disturbed => ~Planned(profile.token))' /\ (Guarded => ~Planned(1))'
    BY <1>0, <1>2 DEF WorldInv, Planned, Guarded
  <2> QED BY <1>0, <2>1, <2>2, <2>3, <2>4, <2>5, <2>6 DEF WorldInv
<1>4. Position' /\ FenceInv' /\ OpsInv' /\ KeptRun'
  BY <1>0 DEF RenewalInv, RunInv, Position, FenceInv, OpsInv, KeptRun, Expected, Displaced, Shape, Claimed,
              KeptProfile, Guarded
<1>5. UsableInv'
  <2>1. UsableInv /\ \A u : ~Planned(u) => u # t /\ ~(\E p \in Ops : plans'[p].token = u)
    BY <1>2 DEF RenewalInv, RunInv
  <2>2. (~disturbed /\ run.pc \in {"active", "rollback"} =>
          run.old.token \in live /\ secrets[run.old.slot] = run.old.token /\ ~Planned(run.old.token))'
    BY <1>0, <2>1 DEF UsableInv, Planned
  <2>3. run.pc \in {"sink", "retain", "store", "stage", "staged", "activate", "switch"}
          => ~Planned(run.child) /\ run.child \in live
    BY <2>1 DEF UsableInv
  <2>4. (run.pc \in {"mint", "sink", "retain", "store", "stage", "staged", "activate", "switch"}
          => ~Planned(run.child))'
    BY <1>0, <2>1 DEF UsableInv, Planned
  <2> QED BY <1>0, <2>1, <2>2, <2>3, <2>4 DEF UsableInv
<1> QED BY <1>3, <1>4, <1>5 DEF RenewalInv, RunInv

LEMMA ImportTokenStep ==
  ASSUME TypeOK, RenewalInv, ImportToken
  PROVE  RenewalInv'
<1> DEFINE new == drawn + 1
<1>0. /\ WorldInv /\ run.pc # "switch" /\ run' = run
      /\ drawn' = new /\ profile' = Unmanaged(new) /\ secrets' = [secrets EXCEPT ![Legacy] = new]
      /\ live' = live \cup {new} /\ imported' = imported \cup {new, profile.token}
      /\ disturbed' = (disturbed \/ run.pc # "idle")
      /\ UNCHANGED <<attempt, record, plans, unknown>>
  BY DEF ImportToken, At, RenewalInv
<1>1. drawn \in Nat /\ drawn > 0 /\ new \in Nat /\ new > drawn
  BY Fields
<1>2. /\ Unmanaged(new).token = new /\ ~Unmanaged(new).managed /\ Unmanaged(new).slot = 0
      /\ Unmanaged(new).pend = 0
  BY DEF Unmanaged, Legacy
<1> HIDE DEF new
<1>3. secrets'[0] = new /\ \A s \in Slots \ {0} : secrets'[s] = secrets[s]
  BY <1>0, Fields, BoundTypes DEF Legacy
<1>4. ~Guarded'
  BY <1>0 DEF Guarded
<1>5. \A p \in Ops : plans[p].token \in Nat /\ plans[p].token <= drawn /\ plans[p].token # new
  <2>1. \A p \in Ops : plans[p].token \in Nat
    BY TypeParts, Fields DEF Typed, Revocation
  <2> QED BY <1>0, <1>1, <2>1 DEF WorldInv
<1>6. WorldInv'
  <2>1. Shape(profile)'
    BY <1>0, <1>1, <1>2 DEF Shape
  <2>2. ActiveIsUsable'
    BY <1>0, <1>2, <1>3 DEF ActiveIsUsable
  <2>3. UnknownPredecessorKept'
    BY <1>4 DEF UnknownPredecessorKept, Guarded
  <2>4. LiveTokensAreFenced'
    BY <1>0, <1>2 DEF WorldInv, LiveTokensAreFenced
  <2>5. \A p \in Ops : /\ plans'[p].token <= drawn'
                       /\ plans'[p].state = "verified" => plans'[p].token \notin live'
                       /\ plans'[p].state # "none" => plans'[p].token # 0
    BY <1>0, <1>1, <1>5 DEF WorldInv
  <2>6. ~Planned(profile.token)'
    BY <1>0, <1>2, <1>5 DEF Planned
  <2>7. attempt'.new \in {0, attempt'.mint} /\ unknown' \in {{}, {1}}
    BY <1>0 DEF WorldInv
  <2> QED BY <1>4, <2>1, <2>2, <2>3, <2>4, <2>5, <2>6, <2>7 DEF WorldInv
<1>7. Position'
  <2>1. Shape(run.old)'
    <3>1. run.old.token \in Nat /\ run.old.pend \in Nat /\ Shape(run.old)
      BY Fields, BoundTypes DEF RenewalInv, RunInv, Position
    <3> QED BY <1>0, <1>1, <3>1 DEF Shape
  <2>2. run.pc # "idle" => Displaced'
    BY <1>0, <1>2 DEF Displaced
  <2>3. run.child # 0 => run.old.token < run.child /\ run.child <= drawn'
    BY <1>0, <1>1, Fields DEF RenewalInv, RunInv, Position
  <2> QED BY <1>0, <2>1, <2>2, <2>3 DEF Position, RenewalInv, RunInv
<1>8. FenceInv' /\ OpsInv' /\ KeptRun'
  BY <1>0, <1>4 DEF RenewalInv, RunInv, FenceInv, OpsInv, KeptRun, Claimed
<1>9. UsableInv'
  <2>1. run.child # 0 => run.child \in Slots \ {0}
    BY Fields
  <2>2. run.pc \in {"stage", "staged", "activate", "switch"} => run.child # 0
    BY DEF RenewalInv, RunInv, Position, Minted, Early, Pcs
  <2>3. run.pc \in {"stage", "staged", "activate", "switch"} => secrets'[run.child] = run.child
    BY <1>3, <2>1, <2>2 DEF RenewalInv, RunInv, UsableInv
  <2>4. (~disturbed /\ run.pc \in {"active", "rollback"} =>
          run.old.token \in live /\ secrets[run.old.slot] = run.old.token /\ ~Planned(run.old.token))'
    BY <1>0
  <2> QED BY <1>0, <2>3, <2>4 DEF RenewalInv, RunInv, UsableInv, Planned
<1> QED BY <1>6, <1>7, <1>8, <1>9 DEF RenewalInv, RunInv

LEMMA StopStep ==
  ASSUME TypeOK, RenewalInv, Stop
  PROVE  RenewalInv'
<1>1. SameStore /\ Finish
  BY DEF Stop, SameStore, local, world
<1> QED BY <1>1, SameWorld, FinishStep DEF RenewalInv, SameStore

-----------------------------------------------------------------------------
LEMMA RenewalInit == Init => RenewalInv
<1> SUFFICES ASSUME Init PROVE RenewalInv
  OBVIOUS
<1>1. TypeOK
  BY RenewalTypeInit
<1>2. /\ profile = Unmanaged(1) /\ drawn = 1 /\ live = {1} /\ imported = {} /\ unknown \in {{}, {1}}
      /\ attempt = NoAttempt /\ record = NoRecord /\ disturbed = FALSE /\ run = Idle
      /\ plans = [o \in Ops |-> [token |-> 0, state |-> "none"]]
      /\ secrets = [s \in Slots |-> IF s = Legacy THEN 1 ELSE 0]
  BY DEF Init
<1>3. /\ Unmanaged(1).token = 1 /\ ~Unmanaged(1).managed /\ Unmanaged(1).slot = 0
      /\ Unmanaged(1).pend = 0
  BY DEF Unmanaged, Legacy
<1>4. \A o \in Ops : plans[o].token = 0 /\ plans[o].state = "none"
  BY <1>2
<1>5. secrets[0] = 1
  BY <1>2, BoundTypes DEF Legacy
<1>6. WorldInv
  <2>1. Shape(profile)
    BY <1>2, <1>3 DEF Shape
  <2>2. \A u : u # 0 => ~Planned(u)
    BY <1>4 DEF Planned
  <2>3. ActiveIsUsable /\ LiveTokensAreFenced
    BY <1>2, <1>3, <1>5 DEF ActiveIsUsable, LiveTokensAreFenced
  <2>4. UnknownPredecessorKept
    BY <1>2, <1>5 DEF UnknownPredecessorKept, Legacy
  <2>5. KeptProfile(profile)
    BY <1>2, <1>3 DEF KeptProfile
  <2>6. attempt.new \in {0, attempt.mint}
    BY <1>2 DEF NoAttempt
  <2>7. \A o \in Ops : /\ plans[o].token <= drawn
                       /\ plans[o].state = "verified" => plans[o].token \notin live
                       /\ plans[o].state # "none" => plans[o].token # 0
    BY <1>2, <1>4
  <2>8. ~Planned(profile.token) /\ ~Planned(1)
    BY <1>2, <1>3, <2>2
  <2> QED BY <1>2, <2>1, <2>3, <2>4, <2>5, <2>6, <2>7, <2>8 DEF WorldInv
<1>7. /\ run.pc = "idle" /\ run.child = 0 /\ run.verified = FALSE /\ run.old = Unmanaged(1)
  BY <1>2 DEF Idle
<1>8. Position
  BY <1>2, <1>3, <1>7 DEF Position, Shape, Minted
<1>9. FenceInv /\ OpsInv /\ UsableInv
  BY <1>7 DEF FenceInv, OpsInv, UsableInv
<1>10. KeptRun
  BY <1>3, <1>7 DEF KeptRun, KeptProfile
<1> QED BY <1>6, <1>8, <1>9, <1>10 DEF RenewalInv, RunInv

LEMMA RenewalStep ==
  ASSUME TypeOK, RenewalInv, [Next]_vars
  PROVE  TypeOK' /\ RenewalInv'
<1>1. CASE UNCHANGED vars
  <2>1. UNCHANGED <<profile, staging, secrets, sink, attempt, record, plans, live, lineage, ops, run,
                    unknown, imported, disturbed, drawn, faults>>
    BY <1>1 DEF vars, local, world
  <2>2. Typed /\ (Typed' <=> TypeOK')
    BY TypeParts
  <2>3. TypeOK'
    BY <2>1, <2>2 DEF Typed
  <2>4. WorldInv'
    BY <2>1, SameWorld DEF SameStore, RenewalInv
  <2>5. Position' /\ FenceInv' /\ OpsInv' /\ KeptRun'
    BY <2>1 DEF RenewalInv, RunInv, Position, FenceInv, OpsInv, KeptRun, Expected, Displaced, Shape, Claimed,
                KeptProfile, Guarded
  <2>6. UsableInv'
    BY <2>1 DEF RenewalInv, RunInv, UsableInv, Planned
  <2> QED BY <2>3, <2>4, <2>5, <2>6 DEF RenewalInv, RunInv
<1>2. CASE Next
  <2>1. TypeOK'
    BY <1>2, RenewalTypeStep DEF RenewalInv, RunInv, Position
  <2>2. RenewalInv'
    BY <1>2, OpenStep, RepairStep, SaveRepairedStep, SaveReconciledStep, RetireSlotStep, DueStep,
       HealthStep, CloseStep, CloseCleanedStep, ClaimMintStep, MintStep, SilentStep, RetainChildStep,
       StoreSlotStep, StageProfileStep, DropSlotStep, RevokeChildStep, RetainActivationStep,
       ActivateStep, ActiveReadsStep, RollbackStep, CompleteRecoveryStep, RevokePredecessorStep,
       SavePendingStep, DropOldSlotStep, EndPlanStep, ImportTokenStep, StopStep DEF Next, Renew
  <2> QED BY <2>1, <2>2
<1> QED BY <1>1, <1>2

LEMMA RenewalInvariant == Spec => [](TypeOK /\ RenewalInv)
<1>1. Init => TypeOK /\ RenewalInv
  BY RenewalTypeInit, RenewalInit
<1>2. (TypeOK /\ RenewalInv) /\ [Next]_vars => (TypeOK /\ RenewalInv)'
  BY RenewalStep
<1> QED BY <1>1, <1>2, PTL DEF Spec

\* Every reachable state is well typed: profiles, attempts, records, revoke
\* plans and the running renewal keep their shape through every durable write.
THEOREM RenewalTypeCorrect == Spec => []TypeOK
BY RenewalInvariant, PTL

\* claim_mint writes the attempt, or the recovery record, before the mint runs,
\* and close drops it only after the exact revocation is verified: no token the
\* provider accepts is without a record, wherever a run stops.
THEOREM LiveTokensAreFencedHolds == Spec => []LiveTokensAreFenced
<1>1. TypeOK /\ RenewalInv => LiveTokensAreFenced
  BY DEF RenewalInv, WorldInv
<1> QED BY <1>1, RenewalInvariant, PTL

\* Renewal switches the profile only to a child that is live and stored, rolls
\* back only to a predecessor that still is, and removes no slot the profile
\* names: the publisher can publish in every state no import fell into.
THEOREM ActiveIsUsableHolds == Spec => []ActiveIsUsable
<1>1. TypeOK /\ RenewalInv => ActiveIsUsable
  BY DEF RenewalInv, WorldInv
<1> QED BY <1>1, RenewalInvariant, PTL

\* No path of recovery or of a later renewal plans a revocation of the
\* predecessor of unknown identity, and health never removes its credential
\* while the recovery record exists.
THEOREM UnknownPredecessorKeptHolds == Spec => []UnknownPredecessorKept
<1>1. TypeOK /\ RenewalInv => UnknownPredecessorKept
  BY DEF RenewalInv, WorldInv
<1> QED BY <1>1, RenewalInvariant, PTL

\* The steps that write the profile: those of a pending revocation, the switch,
\* which the import cannot precede unseen, and those that compare it first.
LEMMA ImportSurvivesStep ==
  ASSUME TypeOK, RenewalInv, Next, profile.token \in imported, ~profile.managed, profile' # profile
  PROVE  At("repaired") \/ At("pending") \/ drawn' # drawn \/ run.old = profile
<1>1. CASE SaveRepaired \/ SaveReconciled
  BY <1>1 DEF SaveRepaired, SaveReconciled
<1>2. CASE Activate
  BY <1>2 DEF Activate, At, RenewalInv, RunInv, Position
<1>3. CASE Rollback
  <2>1. run.child \in Tokens /\ run.child > 1
    BY <1>3, AfterSwitch DEF Rollback, At, Switched
  <2> QED BY <1>3, <2>1, ChildProfile DEF Rollback
<1>4. CASE SavePending
  BY <1>4 DEF SavePending
<1>5. CASE ImportToken
  BY <1>5, Fields DEF ImportToken
<1>6. CASE Stop \/ \E recovery \in BOOLEAN : Open(recovery)
  BY <1>6 DEF Stop, Open, Silent, local
<1>7. CASE Repair \/ RetireSlot \/ Close \/ Due \/ Health \/ ClaimMint \/ Mint
  BY <1>7 DEF Repair, RetireSlot, Close, Due, Health, ClaimMint, Mint, Silent, local
<1>8. CASE ReadSink \/ RetainChild \/ StoreSlot \/ StageProfile \/ StagedReads \/ Discard \/ Unstage
  BY <1>8 DEF ReadSink, RetainChild, StoreSlot, StageProfile, StagedReads, Discard, Unstage, Silent, local
<1>9. CASE DropSlot \/ CloseCleaned \/ RetainActivation \/ ActiveReads \/ Revert
  BY <1>9 DEF DropSlot, CloseCleaned, RetainActivation, ActiveReads, Revert, Silent, local
<1>10. CASE CompleteRecovery \/ RevokePredecessor \/ DropOldSlot
  BY <1>10 DEF CompleteRecovery, RevokePredecessor, DropOldSlot, local
<1>11. CASE \E o \in Ops : RunPlan(o) \/ LapsePlan(o)
  BY <1>11 DEF RunPlan, LapsePlan, local
<1> QED BY <1>1, <1>2, <1>3, <1>4, <1>5, <1>6, <1>7, <1>8, <1>9, <1>10, <1>11 DEF Next, Renew

\* require_unchanged before the switch, and the comparison with the whole child
\* profile before the rollback: outside the repair of a pending revocation, no
\* step of a renewal writes over a credential that was imported meanwhile.
THEOREM ImportSurvivesHolds == Spec => ImportSurvives
<1>1. TypeOK /\ RenewalInv /\ [Next]_vars =>
        [(profile.token \in imported /\ ~profile.managed /\ profile' # profile) =>
            \/ At("repaired") \/ At("pending")
            \/ drawn' # drawn
            \/ run.old = profile]_vars
  BY ImportSurvivesStep
<1> QED BY <1>1, RenewalInvariant, PTL DEF Spec, ImportSurvives
=============================================================================
