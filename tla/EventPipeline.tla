--------------------------- MODULE EventPipeline ---------------------------
(***************************************************************************)
(* The event lane: the ingress Worker turns signed webhook deliveries into  *)
(* Queue messages, and one-use batch plans pull messages under leases,      *)
(* write their evidence, commit them with their reconciliation jobs to the  *)
(* registry in one transaction, and acknowledge the leases.                 *)
(*                                                                          *)
(* The Queue delivers at least once: a lease that is not acknowledged in    *)
(* time makes its message visible again.  A delivery whose 202 is lost is   *)
(* sent again and becomes another message.  A batch slot stands for one     *)
(* `plans run` at a time, each with a plan of its own.                      *)
(***************************************************************************)
EXTENDS Naturals, FiniteSets

CONSTANTS
    Delivery,    \* signed webhook deliveries
    NoDelivery,  \* the ledger row of a key that is not recorded
    Key,         \* dedupe keys
    KeyOf,       \* dedupe key of each delivery
    Refs,        \* number of resource references of each delivery
    Foreign,     \* deliveries of a webhook other than the plans' subscription
    Message,     \* bound: the Queue messages that may come to exist
    DeliveryOf,  \* the delivery each message is a copy of
    Op,          \* batch plans that may run at the same time
    NoOp,        \* holder of no lease
    BatchSize,   \* batch_size of the plans
    MaxRetries,  \* max_retries of the executor's read dispatch
    MaxFaults    \* bound: crashes and local failures in a behaviour

ASSUME DeliveryAssumption ==
    /\ KeyOf \in [Delivery -> Key] /\ Refs \in [Delivery -> Nat]
    /\ Foreign \subseteq Delivery /\ NoDelivery \notin Delivery
    /\ DeliveryOf \in [Message -> Delivery]
ASSUME OpAssumption == NoOp \notin Op
ASSUME LimitsAssumption ==
    /\ BatchSize \in Nat /\ MaxRetries \in Nat /\ MaxFaults \in Nat

VARIABLES
    accepted,  \* deliveries answered with 202
    queue,     \* external: each message's state in the Queue
    lease,     \* external: the batch a leased message is leased to
    evidence,  \* deliveries with EventReceipt evidence
    ledger,    \* registry: events by dedupe key
    jobs,      \* registry: number of reconciliation jobs of each event
    batch,     \* each running batch
    faults

queueVars == <<queue, lease>>
registryVars == <<ledger, jobs>>
vars == <<accepted, queueVars, evidence, registryVars, batch, faults>>

-----------------------------------------------------------------------------

BatchPc == {"idle", "pull", "evidence", "ingest", "ack", "finish"}
Outcomes == {"none", "Verified", "Failed", "RectificationRequired"}

\* pulls and acks count the requests sent; outcome is the plan's last status.
Batches == [pc: BatchPc, messages: SUBSET Message, pulls: 0 .. MaxRetries + 1,
            acks: 0 .. MaxRetries + 1, outcome: Outcomes]

NoBatch == [pc |-> "idle", messages |-> {}, pulls |-> 0, acks |-> 0, outcome |-> "none"]

TypeOK ==
    /\ accepted \subseteq Delivery /\ evidence \subseteq Delivery
    /\ queue \in [Message -> {"absent", "ready", "leased", "gone"}]
    /\ lease \in [Message -> Op \cup {NoOp}]
    /\ ledger \in [Key -> Delivery \cup {NoDelivery}]
    /\ jobs \in [Key -> Nat]
    /\ batch \in [Op -> Batches]
    /\ faults \in 0 .. MaxFaults

Init ==
    /\ accepted = {} /\ evidence = {}
    /\ queue = [m \in Message |-> "absent"] /\ lease = [m \in Message |-> NoOp]
    /\ ledger = [k \in Key |-> NoDelivery] /\ jobs = [k \in Key |-> 0]
    /\ batch = [o \in Op |-> NoBatch]
    /\ faults = 0

Fault == faults < MaxFaults /\ faults' = faults + 1

-----------------------------------------------------------------------------
\* The ingress Worker and the Queue.

\* Defect: 202 is answered whether or not the Queue took the receipt.
Webhook_IgnoresSendError(d) ==
    /\ d \notin accepted
    /\ \E m \in Message :
          /\ DeliveryOf[m] = d /\ queue[m] = "absent"
          /\ queue' \in {queue, [queue EXCEPT ![m] = "ready"]}
    /\ accepted' = accepted \cup {d}
    /\ UNCHANGED <<lease, evidence, registryVars, batch, faults>>

\* fetch, for a request whose signature holds: the receipt is sent and then
\* 202 answered.  The send or the answer may be lost; the delivery is repeated
\* until it is accepted.
Webhook(d) ==
    /\ d \notin accepted
    /\ \E m \in Message :
          /\ DeliveryOf[m] = d /\ queue[m] = "absent"
          /\ queue' = [queue EXCEPT ![m] = "ready"]
    /\ accepted' \in {accepted, accepted \cup {d}}
    /\ UNCHANGED <<lease, evidence, registryVars, batch, faults>>

\* The visibility timeout passes.
LeaseExpires(m) ==
    /\ queue[m] = "leased"
    /\ queue' = [queue EXCEPT ![m] = "ready"]
    /\ lease' = [lease EXCEPT ![m] = NoOp]
    /\ UNCHANGED <<accepted, evidence, registryVars, batch, faults>>

-----------------------------------------------------------------------------
\* One batch: event_batch::execute on a consumed plan.

StartBatch(o) ==
    /\ batch[o].pc = "idle"
    /\ batch' = [batch EXCEPT ![o].pc = "pull"]
    /\ UNCHANGED <<accepted, queueVars, evidence, registryVars, faults>>

\* send_with_dispatch, of which this is the read dispatch: HTTP 429 and 5xx
\* are retried while fewer than max_retries retries were made.
MayRetry(sent) == sent < MaxRetries

\* finish_success, finish_known_failure or recovery_envelope follows.
Conclude(b, outcome) == [b EXCEPT !.pc = "finish", !.outcome = outcome]

\* What the answer to a pull of S makes of the batch.  "refused" is every
\* answer without a usable batch: a 4xx, a last 429 or 5xx, an oversized or
\* unreadable one; "lost" is a transport error.
AfterPull(b, S, answer) ==
    CASE answer = "ok"      -> IF S = {} THEN Conclude(b, "Verified")
                               ELSE [b EXCEPT !.pc = "evidence", !.messages = S]
      [] answer = "retry"   -> b
      [] answer = "refused" -> Conclude(b, "Failed")
      [] answer = "lost"    -> Conclude(b, "RectificationRequired")

Answers == {"ok", "retry", "refused", "lost"}

\* Whatever the answer, the Queue may have leased the messages.
Pull(o, S, answer) ==
    /\ batch[o].pc = "pull"
    /\ S \subseteq {m \in Message : queue[m] = "ready"} /\ Cardinality(S) <= BatchSize
    /\ answer = "retry" => MayRetry(batch[o].pulls)
    /\ queue' = [m \in Message |-> IF m \in S THEN "leased" ELSE queue[m]]
    /\ lease' = [m \in Message |-> IF m \in S THEN o ELSE lease[m]]
    /\ batch' = [batch EXCEPT ![o] = AfterPull([batch[o] EXCEPT !.pulls = @ + 1], S, answer)]
    /\ UNCHANGED <<accepted, evidence, registryVars, faults>>

\* Defect: a message of another subscription is skipped, and acknowledged with
\* the rest of the batch.
WriteEvidence_SkipsForeign(o) ==
    /\ batch[o].pc = "evidence"
    /\ evidence' = evidence \cup {DeliveryOf[m] : m \in batch[o].messages}
    /\ batch' = [batch EXCEPT ![o].pc = IF \E m \in batch[o].messages : DeliveryOf[m] \in Foreign
                                       THEN "ack" ELSE "ingest"]
    /\ UNCHANGED <<accepted, queueVars, registryVars, faults>>

\* The first half of ingest_event_inputs writes evidence message by message
\* and stops at one that does not match the plan's subscription.
WriteEvidence(o) ==
    /\ batch[o].pc = "evidence"
    /\ LET deliveries == {DeliveryOf[m] : m \in batch[o].messages} IN
       IF deliveries \cap Foreign = {}
       THEN /\ evidence' = evidence \cup deliveries
            /\ batch' = [batch EXCEPT ![o].pc = "ingest"]
       ELSE /\ \E D \in SUBSET (deliveries \ Foreign) : evidence' = evidence \cup D
            /\ batch' = [batch EXCEPT ![o] = Conclude(@, "Failed")]
    /\ UNCHANGED <<accepted, queueVars, registryVars, faults>>

\* Defect: a redelivered event is an error like any key that is taken.
Collides_Redelivered(o) == \E m \in batch[o].messages : ledger[KeyOf[DeliveryOf[m]]] # NoDelivery

\* Same dedupe key, different upstream content: among the batch or with the
\* ledger.
Collides(o) ==
    \E m \in batch[o].messages :
        LET d == DeliveryOf[m] IN
        \/ ledger[KeyOf[d]] \notin {NoDelivery, d}
        \/ \E n \in batch[o].messages : DeliveryOf[n] # d /\ KeyOf[DeliveryOf[n]] = KeyOf[d]

\* Defect: a redelivered event is recorded again, jobs included.
Fresh_Always(o) == {DeliveryOf[m] : m \in batch[o].messages}

\* The deliveries of the batch the ledger does not hold yet.
Fresh(o) == {d \in {DeliveryOf[m] : m \in batch[o].messages} : ledger[KeyOf[d]] = NoDelivery}

\* ingest_event_batch: one immediate transaction for the whole batch, rolled
\* back on a collision.
Ingest(o) ==
    /\ batch[o].pc = "ingest"
    /\ IF Collides(o)
       THEN /\ UNCHANGED registryVars
            /\ batch' = [batch EXCEPT ![o] = Conclude(@, "Failed")]
       ELSE /\ ledger' = [k \in Key |-> IF \E d \in Fresh(o) : KeyOf[d] = k
                                        THEN CHOOSE d \in Fresh(o) : KeyOf[d] = k ELSE ledger[k]]
            /\ jobs' = [k \in Key |-> IF \E d \in Fresh(o) : KeyOf[d] = k
                                      THEN jobs[k] + Refs[ledger'[k]] ELSE jobs[k]]
            /\ batch' = [batch EXCEPT ![o].pc = "ack"]
    /\ UNCHANGED <<accepted, queueVars, evidence, faults>>

\* The exact leases of the batch that are still current.
Acknowledged(o) == {m \in batch[o].messages : queue[m] = "leased" /\ lease[m] = o}

AfterAck(b, answer) ==
    CASE answer = "ok"      -> Conclude(b, "Verified")
      [] answer = "retry"   -> b
      [] answer = "refused" -> Conclude(b, "Failed")
      [] answer = "lost"    -> Conclude(b, "RectificationRequired")

\* An answer other than success leaves open whether the leases were taken.
Acknowledge(o, answer) ==
    /\ batch[o].pc = "ack"
    /\ answer = "retry" => MayRetry(batch[o].acks)
    /\ \E S \in {{}, Acknowledged(o)} :
          /\ answer = "ok" => S = Acknowledged(o)
          /\ queue' = [m \in Message |-> IF m \in S THEN "gone" ELSE queue[m]]
          /\ lease' = [m \in Message |-> IF m \in S THEN NoOp ELSE lease[m]]
    /\ batch' = [batch EXCEPT ![o] = AfterAck([batch[o] EXCEPT !.acks = @ + 1], answer)]
    /\ UNCHANGED <<accepted, evidence, registryVars, faults>>

\* The remaining checkpoints of the plan, which is never run again; the
\* operator may plan, review and run another batch.
Finish(o) ==
    /\ batch[o].pc = "finish"
    /\ batch' = [batch EXCEPT ![o] = NoBatch]
    /\ UNCHANGED <<accepted, queueVars, evidence, registryVars, faults>>

\* Writing evidence or the registry transaction fails: a known failure before
\* any acknowledgement.
LocalFailure(o) ==
    /\ Fault
    /\ \/ /\ batch[o].pc = "evidence"
          /\ \E D \in SUBSET {DeliveryOf[m] : m \in batch[o].messages} : evidence' = evidence \cup D
       \/ batch[o].pc = "ingest" /\ UNCHANGED evidence
    /\ batch' = [batch EXCEPT ![o] = Conclude(@, "Failed")]
    /\ UNCHANGED <<accepted, queueVars, registryVars>>

\* The process dies, at a checkpoint too, or cannot open the registry; the plan
\* stays consumed and is never run again.
Crash(o) ==
    /\ batch[o].pc # "idle" /\ Fault
    /\ batch' = [batch EXCEPT ![o] = NoBatch]
    /\ UNCHANGED <<accepted, queueVars, evidence, registryVars>>

-----------------------------------------------------------------------------

BatchStep(o) ==
    \/ StartBatch(o) \/ WriteEvidence(o) \/ Ingest(o) \/ Finish(o)
    \/ \E answer \in Answers : \/ \E S \in SUBSET Message : Pull(o, S, answer)
                               \/ Acknowledge(o, answer)

Next ==
    \/ \E d \in Delivery : Webhook(d)
    \/ \E m \in Message : LeaseExpires(m)
    \/ \E o \in Op : BatchStep(o) \/ LocalFailure(o) \/ Crash(o)

Spec == Init /\ [][Next]_vars

\* Leases time out, the operator keeps running batches, and a message that is
\* visible to pulls again and again is at last returned by one.
Fairness ==
    /\ \A m \in Message : WF_vars(LeaseExpires(m))
    /\ \A o \in Op : WF_vars(BatchStep(o))
    /\ \A o \in Op, m \in Message : SF_vars(\E S \in SUBSET Message : m \in S /\ Pull(o, S, "ok"))

FairSpec == Spec /\ Fairness

-----------------------------------------------------------------------------

Recorded(d) == ledger[KeyOf[d]] = d

\* A message leaves the Queue only after its own event and evidence are
\* durable, whatever answers were lost or retried, leases expired and batches
\* overlapped or crashed.
AckedIsRecorded ==
    \A m \in Message : queue[m] = "gone" => Recorded(DeliveryOf[m]) /\ DeliveryOf[m] \in evidence

\* End to end: a delivery the Worker accepted is still in the Queue or is in
\* the ledger.
NoEventLost ==
    \A d \in accepted :
        Recorded(d) \/ \E m \in Message : DeliveryOf[m] = d /\ queue[m] \in {"ready", "leased"}

\* Redelivery and overlapping batches create each event's reconciliation jobs
\* exactly once, together with the event.
JobsMatchLedger ==
    \A k \in Key : jobs[k] = IF ledger[k] = NoDelivery THEN 0 ELSE Refs[ledger[k]]

\* Liveness: where no message is foreign and no key is shared, every message
\* is recorded, although pulls, evidence and commits fail and leases expire.
EventIsRecorded ==
    \A m \in Message : queue[m] = "ready" ~> Recorded(DeliveryOf[m])

-----------------------------------------------------------------------------
\* What the documentation says of the program.

\* event_batch.rs: "Executes exactly one plan-bound pull, atomic local ingest,
\* and exact lease acknowledgement": a plan sends at most one request of each
\* kind.
OneRequestEach == \A o \in Op : batch[o].pulls <= 1 /\ batch[o].acks <= 1
=============================================================================
