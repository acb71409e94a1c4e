------------------------ MODULE EventPipelineProofs ------------------------
(***************************************************************************)
(* Proofs about the event lane, for any deliveries, messages, batches,      *)
(* dedupe keys and limits.                                                  *)
(***************************************************************************)
EXTENDS EventPipeline, TLAPS

-----------------------------------------------------------------------------
\* Types, and the bound on the requests of one plan.

\* A plan that may still send a request has retries left: what keeps the
\* request counters within their types.
RequestInv ==
  \A o \in Op : /\ batch[o].pc = "pull" => batch[o].pulls <= MaxRetries
                /\ batch[o].pc \in {"idle", "pull", "evidence", "ingest"} => batch[o].acks = 0
                /\ batch[o].pc = "ack" => batch[o].acks <= MaxRetries
                /\ batch[o].pc = "idle" => batch[o].pulls = 0

LEMMA NoBatchType == NoBatch \in Batches
BY LimitsAssumption DEF NoBatch, Batches, BatchPc, Outcomes

LEMMA BatchFields ==
  ASSUME TypeOK, NEW o \in Op
  PROVE  /\ batch[o] \in Batches /\ batch[o].pc \in BatchPc /\ batch[o].messages \subseteq Message
         /\ batch[o].pulls \in 0 .. MaxRetries + 1 /\ batch[o].acks \in 0 .. MaxRetries + 1
         /\ batch[o].outcome \in Outcomes
BY DEF TypeOK, Batches

LEMMA ConcludeShape ==
  ASSUME NEW b \in Batches, NEW outcome \in Outcomes
  PROVE  /\ Conclude(b, outcome) \in Batches
         /\ Conclude(b, outcome).pc = "finish"
BY DEF Conclude, Batches, BatchPc

\* A step of batch o replaces its record and no other.
LEMMA BatchUpdate ==
  ASSUME TypeOK, RequestInv, NEW o \in Op, NEW b \in Batches,
         batch' = [batch EXCEPT ![o] = b],
         b.pc = "pull" => b.pulls <= MaxRetries,
         b.pc \in {"idle", "pull", "evidence", "ingest"} => b.acks = 0,
         b.pc = "ack" => b.acks <= MaxRetries,
         b.pc = "idle" => b.pulls = 0
  PROVE  batch' \in [Op -> Batches] /\ RequestInv'
<1>1. batch' \in [Op -> Batches] /\ batch'[o] = b /\ \A q \in Op \ {o} : batch'[q] = batch[q]
  BY DEF TypeOK
<1> QED BY <1>1 DEF RequestInv

\* The answer to a pull.
LEMMA PullShape ==
  ASSUME TypeOK, RequestInv, NEW o \in Op, NEW S \in SUBSET Message, NEW answer \in Answers,
         Pull(o, S, answer)
  PROVE  \E b \in Batches :
           /\ batch' = [batch EXCEPT ![o] = b]
           /\ b.pulls = batch[o].pulls + 1 /\ b.acks = 0
           /\ \/ b.pc = "finish"
              \/ b.pc = "evidence" /\ b.messages = S
              \/ b.pc = "pull" /\ b.pulls <= MaxRetries
<1> DEFINE sent == [batch[o] EXCEPT !.pulls = @ + 1]
           b == AfterPull(sent, S, answer)
<1>1. batch[o] \in Batches /\ batch[o].pc = "pull" /\ batch[o].pulls <= MaxRetries /\ batch[o].acks = 0
  BY BatchFields DEF Pull, RequestInv
<1>2. /\ sent \in Batches /\ sent.pc = "pull" /\ sent.acks = 0 /\ sent.pulls = batch[o].pulls + 1
      /\ answer = "retry" => sent.pulls <= MaxRetries
  BY <1>1, LimitsAssumption DEF Batches, Pull, MayRetry
<1>3. batch' = [batch EXCEPT ![o] = b]
  BY DEF Pull
<1> HIDE DEF sent
<1>4. /\ b \in Batches /\ b.pulls = sent.pulls /\ b.acks = 0
      /\ \/ b.pc = "finish"
         \/ b.pc = "evidence" /\ b.messages = S
         \/ b.pc = "pull" /\ b.pulls <= MaxRetries
  <2>1. CASE answer = "ok" /\ S # {}
    <3>1. b = [sent EXCEPT !.pc = "evidence", !.messages = S]
      BY <2>1 DEF AfterPull
    <3> QED BY <1>2, <3>1 DEF Batches, BatchPc
  <2>2. CASE answer = "retry"
    BY <1>2, <2>2 DEF AfterPull
  <2>3. CASE answer \in {"refused", "lost"} \/ (answer = "ok" /\ S = {})
    <3>1. \E outcome \in Outcomes : b = Conclude(sent, outcome)
      BY <2>3 DEF AfterPull, Outcomes
    <3> QED BY <1>2, <3>1 DEF Conclude, Batches, BatchPc
  <2> QED BY <2>1, <2>2, <2>3 DEF Answers
<1> QED BY <1>2, <1>3, <1>4

\* The answer to an acknowledgement.
LEMMA AckShape ==
  ASSUME TypeOK, RequestInv, NEW o \in Op, NEW answer \in Answers, Acknowledge(o, answer)
  PROVE  \E b \in Batches :
           /\ batch' = [batch EXCEPT ![o] = b]
           /\ \/ b.pc = "finish"
              \/ b.pc = "ack" /\ b.acks <= MaxRetries /\ b.messages = batch[o].messages
<1> DEFINE sent == [batch[o] EXCEPT !.acks = @ + 1]
           b == AfterAck(sent, answer)
<1>1. batch[o] \in Batches /\ batch[o].pc = "ack" /\ batch[o].acks <= MaxRetries
  BY BatchFields DEF Acknowledge, RequestInv
<1>2. /\ sent \in Batches /\ sent.pc = "ack" /\ sent.messages = batch[o].messages
      /\ answer = "retry" => sent.acks <= MaxRetries
  BY <1>1, LimitsAssumption DEF Batches, Acknowledge, MayRetry
<1>3. batch' = [batch EXCEPT ![o] = b]
  BY DEF Acknowledge
<1> HIDE DEF sent
<1>4. CASE answer = "retry"
  BY <1>2, <1>3, <1>4 DEF AfterAck
<1>5. CASE answer # "retry"
  <2>1. \E outcome \in Outcomes : b = Conclude(sent, outcome)
    BY <1>5 DEF AfterAck, Outcomes, Answers
  <2> QED BY <1>2, <1>3, <2>1, ConcludeShape
<1> QED BY <1>4, <1>5

\* The local steps of a batch: what the new record is.
LEMMA LocalShape ==
  ASSUME TypeOK, RequestInv, NEW o \in Op,
         StartBatch(o) \/ WriteEvidence(o) \/ Ingest(o) \/ Finish(o) \/ LocalFailure(o) \/ Crash(o)
  PROVE  \E b \in Batches :
           /\ batch' = [batch EXCEPT ![o] = b]
           /\ \/ b = NoBatch \/ b.pc = "finish"
              \/ b.pc = "pull" /\ b.pulls = 0 /\ b.acks = 0
              \/ b.pc \in {"ingest", "ack"} /\ b.acks = 0 /\ b.messages = batch[o].messages
<1>1. batch[o] \in Batches
  BY BatchFields
<1>2. CASE StartBatch(o)
  <2> DEFINE b == [batch[o] EXCEPT !.pc = "pull"]
  <2>1. batch' = [batch EXCEPT ![o] = b]
    BY <1>2 DEF StartBatch
  <2>2. b \in Batches /\ b.pc = "pull" /\ b.pulls = 0 /\ b.acks = 0
    BY <1>1, <1>2 DEF StartBatch, Batches, BatchPc, RequestInv
  <2> QED BY <2>1, <2>2
<1>3. CASE batch' = [batch EXCEPT ![o] = NoBatch]
  BY <1>3, NoBatchType
<1>4. CASE batch' = [batch EXCEPT ![o] = Conclude(@, "Failed")]
  <2>1. batch' = [batch EXCEPT ![o] = Conclude(batch[o], "Failed")]
    BY <1>4 DEF TypeOK
  <2> QED BY <1>1, <2>1, ConcludeShape DEF Outcomes
<1>5. ASSUME NEW pc \in {"ingest", "ack"}, batch[o].pc \in {"evidence", "ingest"},
             batch' = [batch EXCEPT ![o].pc = pc]
      PROVE  \E b \in Batches :
               /\ batch' = [batch EXCEPT ![o] = b]
               /\ b.pc \in {"ingest", "ack"} /\ b.acks = 0 /\ b.messages = batch[o].messages
  <2> DEFINE b == [batch[o] EXCEPT !.pc = pc]
  <2>1. batch' = [batch EXCEPT ![o] = b]
    BY <1>5
  <2>2. b \in Batches /\ b.pc = pc /\ b.acks = 0 /\ b.messages = batch[o].messages
    BY <1>1, <1>5 DEF Batches, BatchPc, RequestInv
  <2> QED BY <2>1, <2>2
<1> QED BY <1>2, <1>3, <1>4, <1>5 DEF WriteEvidence, Ingest, Finish, LocalFailure, Crash

\* Every batch step keeps the batches well typed.
LEMMA BatchType ==
  ASSUME TypeOK, RequestInv, [Next]_vars
  PROVE  batch' \in [Op -> Batches] /\ RequestInv'
<1>1. ASSUME NEW o \in Op, NEW S \in SUBSET Message, NEW answer \in Answers, Pull(o, S, answer)
      PROVE  batch' \in [Op -> Batches] /\ RequestInv'
  BY <1>1, PullShape, BatchUpdate
<1>2. ASSUME NEW o \in Op, NEW answer \in Answers, Acknowledge(o, answer)
      PROVE  batch' \in [Op -> Batches] /\ RequestInv'
  BY <1>2, AckShape, BatchUpdate
<1>3. ASSUME NEW o \in Op,
             StartBatch(o) \/ WriteEvidence(o) \/ Ingest(o) \/ Finish(o) \/ LocalFailure(o) \/ Crash(o)
      PROVE  batch' \in [Op -> Batches] /\ RequestInv'
  <2>1. PICK b \in Batches :
          /\ batch' = [batch EXCEPT ![o] = b]
          /\ \/ b = NoBatch \/ b.pc = "finish"
             \/ b.pc = "pull" /\ b.pulls = 0 /\ b.acks = 0
             \/ b.pc \in {"ingest", "ack"} /\ b.acks = 0 /\ b.messages = batch[o].messages
    BY <1>3, LocalShape
  <2>2. CASE b = NoBatch
    BY <2>1, <2>2, BatchUpdate DEF NoBatch
  <2>3. CASE b # NoBatch
    <3>1. /\ b.pc \in {"idle", "pull", "evidence", "ingest"} => b.acks = 0
          /\ b.pc = "pull" => b.pulls <= MaxRetries
          /\ b.pc = "ack" => b.acks <= MaxRetries
          /\ b.pc # "idle"
      BY <2>1, <2>3, LimitsAssumption
    <3> QED BY <2>1, <3>1, BatchUpdate
  <2> QED BY <2>2, <2>3
<1>4. CASE UNCHANGED batch
  BY <1>4 DEF TypeOK, RequestInv
<1>5. ASSUME NEW d \in Delivery, Webhook(d) PROVE UNCHANGED batch
  BY <1>5 DEF Webhook
<1>6. ASSUME NEW m \in Message, LeaseExpires(m) PROVE UNCHANGED batch
  BY <1>6 DEF LeaseExpires
<1> QED BY <1>1, <1>2, <1>3, <1>4, <1>5, <1>6 DEF Next, BatchStep, vars

\* The transaction: a key with a fresh delivery takes it with its jobs, every
\* other key keeps its event.
LEMMA IngestShape ==
  ASSUME TypeOK, NEW o \in Op, Ingest(o), ~Collides(o), NEW k \in Key
  PROVE  \/ /\ ledger[k] = NoDelivery
            /\ \E d \in Fresh(o) : KeyOf[d] = k /\ d \in Delivery /\ ledger'[k] = d
                                   /\ jobs'[k] = jobs[k] + Refs[d]
         \/ /\ ~ \E d \in Fresh(o) : KeyOf[d] = k
            /\ ledger'[k] = ledger[k] /\ jobs'[k] = jobs[k]
<1>1. /\ ledger' = [j \in Key |-> IF \E d \in Fresh(o) : KeyOf[d] = j
                                  THEN CHOOSE d \in Fresh(o) : KeyOf[d] = j ELSE ledger[j]]
      /\ jobs' = [j \in Key |-> IF \E d \in Fresh(o) : KeyOf[d] = j
                                THEN jobs[j] + Refs[ledger'[j]] ELSE jobs[j]]
  BY DEF Ingest
<1>2. CASE \E d \in Fresh(o) : KeyOf[d] = k
  <2> DEFINE c == CHOOSE d \in Fresh(o) : KeyOf[d] = k
  <2>1. c \in Fresh(o) /\ KeyOf[c] = k
    BY <1>2
  <2>2. c \in Delivery /\ ledger[k] = NoDelivery
    BY <2>1, BatchFields, DeliveryAssumption DEF Fresh
  <2>3. ledger'[k] = c /\ jobs'[k] = jobs[k] + Refs[ledger'[k]]
    BY <1>1, <1>2
  <2> HIDE DEF c
  <2> QED BY <2>1, <2>2, <2>3
<1>3. CASE ~ \E d \in Fresh(o) : KeyOf[d] = k
  BY <1>1, <1>3
<1> QED BY <1>2, <1>3

LEMMA TypeStep == TypeOK /\ RequestInv /\ [Next]_vars => TypeOK' /\ RequestInv'
<1> SUFFICES ASSUME TypeOK, RequestInv, [Next]_vars PROVE TypeOK' /\ RequestInv'
  OBVIOUS
<1>0. batch' \in [Op -> Batches] /\ RequestInv'
  BY BatchType
<1> USE DeliveryAssumption DEF TypeOK
<1>1. ASSUME NEW d \in Delivery, Webhook(d) PROVE TypeOK'
  BY <1>0, <1>1 DEF Webhook, registryVars
<1>2. ASSUME NEW m \in Message, LeaseExpires(m) PROVE TypeOK'
  BY <1>0, <1>2 DEF LeaseExpires, registryVars
<1>3. ASSUME NEW o \in Op, NEW S \in SUBSET Message, NEW answer \in Answers, Pull(o, S, answer)
      PROVE  TypeOK'
  BY <1>0, <1>3 DEF Pull, registryVars
<1>4. ASSUME NEW o \in Op, NEW answer \in Answers, Acknowledge(o, answer) PROVE TypeOK'
  BY <1>0, <1>4 DEF Acknowledge, registryVars
<1>5. ASSUME NEW o \in Op, StartBatch(o) \/ Finish(o) PROVE TypeOK'
  BY <1>0, <1>5 DEF StartBatch, Finish, queueVars, registryVars
<1>6. ASSUME NEW o \in Op, WriteEvidence(o) \/ LocalFailure(o) PROVE TypeOK'
  <2>1. {DeliveryOf[m] : m \in batch[o].messages} \subseteq Delivery
    BY BatchFields
  <2>2. evidence' \subseteq Delivery /\ UNCHANGED <<accepted, queueVars, registryVars>>
    BY <1>6, <2>1 DEF WriteEvidence, LocalFailure
  <2>3. faults' \in 0 .. MaxFaults
    BY <1>6, LimitsAssumption DEF WriteEvidence, LocalFailure, Fault
  <2> QED BY <1>0, <2>2, <2>3 DEF queueVars, registryVars
<1>7. ASSUME NEW o \in Op, Crash(o) PROVE TypeOK'
  BY <1>0, <1>7, LimitsAssumption DEF Crash, Fault, queueVars, registryVars
<1>8. ASSUME NEW o \in Op, Ingest(o) PROVE TypeOK'
  <2>1. CASE Collides(o)
    BY <1>0, <1>8, <2>1 DEF Ingest, queueVars, registryVars
  <2>2. CASE ~Collides(o)
    <3>1. /\ ledger' = [k \in Key |-> ledger'[k]] /\ jobs' = [k \in Key |-> jobs'[k]]
          /\ UNCHANGED <<accepted, queueVars, evidence, faults>>
      BY <1>8, <2>2 DEF Ingest
    <3>2. \A k \in Key : ledger'[k] \in Delivery \cup {NoDelivery} /\ jobs'[k] \in Nat
      BY <1>8, <2>2, IngestShape
    <3>3. ledger' \in [Key -> Delivery \cup {NoDelivery}] /\ jobs' \in [Key -> Nat]
      BY <3>1, <3>2
    <3> QED BY <1>0, <3>1, <3>3 DEF queueVars
  <2> QED BY <2>1, <2>2
<1>9. CASE UNCHANGED vars
  BY <1>0, <1>9 DEF vars, queueVars, registryVars
<1> QED BY <1>0, <1>1, <1>2, <1>3, <1>4, <1>5, <1>6, <1>7, <1>8, <1>9 DEF Next, BatchStep

LEMMA TypeHolds == Spec => [](TypeOK /\ RequestInv)
<1>1. Init => TypeOK /\ RequestInv
  BY NoBatchType, LimitsAssumption DEF Init, TypeOK, RequestInv, NoBatch
<1> QED BY <1>1, TypeStep, PTL DEF Spec

\* Every reachable state of the event lane is well typed; in particular no
\* plan sends more than MaxRetries + 1 pulls or acknowledgements.
THEOREM EventTypeCorrect == Spec => []TypeOK
BY TypeHolds, PTL

-----------------------------------------------------------------------------
\* Acknowledged messages and accepted deliveries.

Deliveries(o) == {DeliveryOf[m] : m \in batch[o].messages}

\* What a batch knows of its messages: before the transaction they have
\* evidence, before the acknowledgement they are recorded too.
BatchInv ==
  \A o \in Op : /\ batch[o].pc \in {"ingest", "ack"} => Deliveries(o) \subseteq evidence
                /\ batch[o].pc = "ack" => \A d \in Deliveries(o) : Recorded(d)

\* Every accepted delivery has become a message.
AcceptedInv == \A d \in accepted : \E m \in Message : DeliveryOf[m] = d /\ queue[m] # "absent"

\* The strengthening of AckedIsRecorded, NoEventLost and JobsMatchLedger.
EventInv == BatchInv /\ AcceptedInv /\ AckedIsRecorded /\ JobsMatchLedger

\* Once an event is recorded it stays, and evidence is never removed.
LEMMA RecordedIsStable ==
  ASSUME TypeOK, RequestInv, [Next]_vars
  PROVE  /\ evidence \subseteq evidence'
         /\ \A d \in Delivery : Recorded(d) => Recorded(d)'
<1>1. ASSUME NEW o \in Op, Ingest(o), NEW d \in Delivery, Recorded(d) PROVE Recorded(d)'
  <2>1. CASE Collides(o)
    BY <1>1, <2>1 DEF Ingest, registryVars, Recorded
  <2>2. CASE ~Collides(o)
    <3>1. KeyOf[d] \in Key /\ ledger[KeyOf[d]] = d /\ d # NoDelivery
      BY <1>1, DeliveryAssumption DEF Recorded
    <3>2. ledger'[KeyOf[d]] = ledger[KeyOf[d]]
      BY <1>1, <2>2, <3>1, IngestShape
    <3> QED BY <3>1, <3>2 DEF Recorded
  <2> QED BY <2>1, <2>2
<1>2. ASSUME ~ \E o \in Op : Ingest(o) PROVE UNCHANGED ledger
  BY <1>2 DEF Next, BatchStep, Webhook, LeaseExpires, Pull, Acknowledge, StartBatch, WriteEvidence,
     Finish, LocalFailure, Crash, vars, registryVars
<1>3. evidence \subseteq evidence'
  BY DEF Next, BatchStep, Webhook, LeaseExpires, Pull, Acknowledge, StartBatch, WriteEvidence,
     Ingest, Finish, LocalFailure, Crash, vars
<1> QED BY <1>1, <1>2, <1>3 DEF Recorded

\* A batch that is not at work keeps what it knows; only the new record of the
\* one at work has to be looked at.
LEMMA BatchFrame ==
  ASSUME TypeOK, RequestInv, BatchInv, [Next]_vars, NEW o \in Op, NEW b \in Batches,
         batch' = [batch EXCEPT ![o] = b],
         b.pc \in {"ingest", "ack"} => {DeliveryOf[m] : m \in b.messages} \subseteq evidence',
         b.pc = "ack" => \A m \in b.messages : Recorded(DeliveryOf[m])'
  PROVE  BatchInv'
<1>1. batch'[o] = b /\ \A q \in Op \ {o} : batch'[q] = batch[q]
  BY DEF TypeOK
<1>2. ASSUME NEW q \in Op \ {o}
      PROVE  /\ batch'[q].pc \in {"ingest", "ack"} => Deliveries(q)' \subseteq evidence'
             /\ batch'[q].pc = "ack" => \A d \in Deliveries(q)' : Recorded(d)'
  <2>1. batch'[q] = batch[q] /\ Deliveries(q)' = Deliveries(q) /\ Deliveries(q) \subseteq Delivery
    BY <1>1, BatchFields, DeliveryAssumption DEF Deliveries
  <2> QED BY <2>1, RecordedIsStable DEF BatchInv
<1>3. /\ batch'[o].pc \in {"ingest", "ack"} => Deliveries(o)' \subseteq evidence'
      /\ batch'[o].pc = "ack" => \A d \in Deliveries(o)' : Recorded(d)'
  BY <1>1 DEF Deliveries
<1> QED BY <1>2, <1>3 DEF BatchInv

LEMMA BatchInvStep == TypeOK /\ RequestInv /\ BatchInv /\ [Next]_vars => BatchInv'
<1> SUFFICES ASSUME TypeOK, RequestInv, BatchInv, [Next]_vars PROVE BatchInv'
  OBVIOUS
<1>1. ASSUME NEW o \in Op, NEW S \in SUBSET Message, NEW answer \in Answers, Pull(o, S, answer)
      PROVE  BatchInv'
  BY <1>1, PullShape, BatchFrame
<1>2. ASSUME NEW o \in Op, NEW answer \in Answers, Acknowledge(o, answer) PROVE BatchInv'
  <2>1. PICK b \in Batches :
          /\ batch' = [batch EXCEPT ![o] = b]
          /\ \/ b.pc = "finish"
             \/ b.pc = "ack" /\ b.acks <= MaxRetries /\ b.messages = batch[o].messages
    BY <1>2, AckShape
  <2>2. Deliveries(o) \subseteq evidence /\ \A d \in Deliveries(o) : Recorded(d)
    BY <1>2 DEF Acknowledge, BatchInv
  <2>3. UNCHANGED <<evidence, ledger>>
    BY <1>2 DEF Acknowledge, registryVars
  <2> QED BY <2>1, <2>2, <2>3, BatchFrame DEF Deliveries, Recorded
<1>3. ASSUME NEW o \in Op, WriteEvidence(o) PROVE BatchInv'
  <2>1. CASE Deliveries(o) \cap Foreign = {}
    <3> DEFINE b == [batch[o] EXCEPT !.pc = "ingest"]
    <3>1. batch' = [batch EXCEPT ![o] = b] /\ evidence' = evidence \cup Deliveries(o)
      BY <1>3, <2>1 DEF WriteEvidence, Deliveries
    <3>2. b \in Batches /\ b.pc = "ingest" /\ b.messages = batch[o].messages
      BY BatchFields DEF Batches, BatchPc
    <3> HIDE DEF b
    <3> QED BY <3>1, <3>2, BatchFrame DEF Deliveries
  <2>2. CASE Deliveries(o) \cap Foreign # {}
    <3>1. batch' = [batch EXCEPT ![o] = Conclude(batch[o], "Failed")]
      BY <1>3, <2>2 DEF WriteEvidence, Deliveries
    <3> QED BY <3>1, BatchFields, ConcludeShape, BatchFrame DEF Outcomes
  <2> QED BY <2>1, <2>2
<1>4. ASSUME NEW o \in Op, Ingest(o) PROVE BatchInv'
  <2>1. CASE Collides(o)
    <3>1. batch' = [batch EXCEPT ![o] = Conclude(batch[o], "Failed")]
      BY <1>4, <2>1 DEF Ingest
    <3> QED BY <3>1, BatchFields, ConcludeShape, BatchFrame DEF Outcomes
  <2>2. CASE ~Collides(o)
    <3> DEFINE b == [batch[o] EXCEPT !.pc = "ack"]
    <3>1. batch' = [batch EXCEPT ![o] = b] /\ evidence' = evidence
      BY <1>4, <2>2 DEF Ingest
    <3>2. b \in Batches /\ b.pc = "ack" /\ b.messages = batch[o].messages
      BY BatchFields DEF Batches, BatchPc
    <3>3. Deliveries(o) \subseteq evidence
      BY <1>4 DEF Ingest, BatchInv
    <3>4. ASSUME NEW m \in batch[o].messages PROVE Recorded(DeliveryOf[m])'
      <4> DEFINE d == DeliveryOf[m]
      <4>1. d \in Delivery /\ KeyOf[d] \in Key
        BY BatchFields, DeliveryAssumption
      <4>2. CASE ledger[KeyOf[d]] = d
        BY <4>1, <4>2, RecordedIsStable DEF Recorded
      <4>3. CASE ledger[KeyOf[d]] # d
        <5>1. ledger[KeyOf[d]] = NoDelivery
          BY <2>2, <4>3 DEF Collides
        <5>2. d \in Fresh(o)
          BY <5>1 DEF Fresh
        <5>3. PICK e \in Fresh(o) : KeyOf[e] = KeyOf[d] /\ ledger'[KeyOf[d]] = e
          BY <1>4, <2>2, <4>1, <5>2, IngestShape
        <5>4. PICK n \in batch[o].messages : e = DeliveryOf[n]
          BY <5>3 DEF Fresh
        <5>5. e = d
          BY <2>2, <5>3, <5>4 DEF Collides
        <5> QED BY <5>3, <5>5 DEF Recorded
      <4> QED BY <4>2, <4>3
    <3> HIDE DEF b
    <3> QED BY <3>1, <3>2, <3>3, <3>4, BatchFrame DEF Deliveries
  <2> QED BY <2>1, <2>2
<1>5. ASSUME NEW o \in Op, StartBatch(o) PROVE BatchInv'
  <2> DEFINE b == [batch[o] EXCEPT !.pc = "pull"]
  <2>1. batch' = [batch EXCEPT ![o] = b]
    BY <1>5 DEF StartBatch
  <2>2. b \in Batches /\ b.pc = "pull"
    BY BatchFields DEF Batches, BatchPc
  <2> HIDE DEF b
  <2> QED BY <2>1, <2>2, BatchFrame
<1>6. ASSUME NEW o \in Op, Finish(o) \/ Crash(o) PROVE BatchInv'
  <2>1. batch' = [batch EXCEPT ![o] = NoBatch] /\ NoBatch.pc = "idle"
    BY <1>6 DEF Finish, Crash, NoBatch
  <2> QED BY <2>1, NoBatchType, BatchFrame
<1>7. ASSUME NEW o \in Op, LocalFailure(o) PROVE BatchInv'
  <2>1. batch' = [batch EXCEPT ![o] = Conclude(batch[o], "Failed")]
    BY <1>7 DEF LocalFailure
  <2> QED BY <2>1, BatchFields, ConcludeShape, BatchFrame DEF Outcomes
<1>8. CASE UNCHANGED <<batch, evidence, ledger>>
  BY <1>8 DEF BatchInv, Deliveries, Recorded
<1>9. ASSUME NEW d \in Delivery, Webhook(d) PROVE BatchInv'
  BY <1>8, <1>9 DEF Webhook, registryVars
<1>10. ASSUME NEW m \in Message, LeaseExpires(m) PROVE BatchInv'
  BY <1>8, <1>10 DEF LeaseExpires, registryVars
<1> QED BY <1>1, <1>2, <1>3, <1>4, <1>5, <1>6, <1>7, <1>8, <1>9, <1>10
        DEF Next, BatchStep, vars, registryVars

\* Only an acknowledgement takes a message out of the Queue, and it takes
\* messages of its own batch; no step makes a message absent again.
LEMMA QueueStep ==
  ASSUME TypeOK, [Next]_vars, NEW m \in Message
  PROVE  /\ queue'[m] = "gone" /\ queue[m] # "gone" =>
              \E o \in Op : batch[o].pc = "ack" /\ m \in batch[o].messages
         /\ queue[m] # "absent" => queue'[m] # "absent"
<1> USE DEF TypeOK
<1>1. ASSUME NEW d \in Delivery, Webhook(d)
      PROVE  (queue'[m] = "gone" => queue[m] = "gone") /\ (queue[m] # "absent" => queue'[m] # "absent")
  BY <1>1 DEF Webhook
<1>2. ASSUME NEW n \in Message, LeaseExpires(n)
      PROVE  (queue'[m] = "gone" => queue[m] = "gone") /\ (queue[m] # "absent" => queue'[m] # "absent")
  BY <1>2 DEF LeaseExpires
<1>3. ASSUME NEW o \in Op, NEW S \in SUBSET Message, NEW answer \in Answers, Pull(o, S, answer)
      PROVE  (queue'[m] = "gone" => queue[m] = "gone") /\ (queue[m] # "absent" => queue'[m] # "absent")
  BY <1>3 DEF Pull
<1>4. ASSUME NEW o \in Op, NEW answer \in Answers, Acknowledge(o, answer)
      PROVE  /\ queue'[m] = "gone" /\ queue[m] # "gone" => batch[o].pc = "ack" /\ m \in batch[o].messages
             /\ queue[m] # "absent" => queue'[m] # "absent"
  BY <1>4 DEF Acknowledge, Acknowledged
<1>5. ASSUME NEW o \in Op,
             StartBatch(o) \/ WriteEvidence(o) \/ Ingest(o) \/ Finish(o) \/ LocalFailure(o) \/ Crash(o)
      PROVE  queue' = queue
  BY <1>5 DEF StartBatch, WriteEvidence, Ingest, Finish, LocalFailure, Crash, queueVars
<1>6. CASE UNCHANGED vars
  BY <1>6 DEF vars, queueVars
<1> QED BY <1>1, <1>2, <1>3, <1>4, <1>5, <1>6 DEF Next, BatchStep

LEMMA AckedStep ==
  TypeOK /\ RequestInv /\ BatchInv /\ AckedIsRecorded /\ [Next]_vars => AckedIsRecorded'
<1> SUFFICES ASSUME TypeOK, RequestInv, BatchInv, AckedIsRecorded, [Next]_vars,
                    NEW m \in Message, queue'[m] = "gone"
             PROVE  Recorded(DeliveryOf[m])' /\ DeliveryOf[m] \in evidence'
  BY DEF AckedIsRecorded
<1>1. Recorded(DeliveryOf[m]) /\ DeliveryOf[m] \in evidence
  <2>1. CASE queue[m] = "gone"
    BY <2>1 DEF AckedIsRecorded
  <2>2. CASE queue[m] # "gone"
    <3>1. PICK o \in Op : batch[o].pc = "ack" /\ m \in batch[o].messages
      BY <2>2, QueueStep
    <3> QED BY <3>1 DEF BatchInv, Deliveries
  <2> QED BY <2>1, <2>2
<1> QED BY <1>1, RecordedIsStable, DeliveryAssumption

LEMMA AcceptedStep == TypeOK /\ AcceptedInv /\ [Next]_vars => AcceptedInv'
<1> SUFFICES ASSUME TypeOK, AcceptedInv, [Next]_vars, NEW d \in accepted'
             PROVE  \E m \in Message : DeliveryOf[m] = d /\ queue'[m] # "absent"
  BY DEF AcceptedInv
<1>1. CASE d \in accepted
  BY <1>1, QueueStep DEF AcceptedInv
<1>2. CASE d \notin accepted
  <2>1. Webhook(d)
    BY <1>2 DEF Next, BatchStep, Webhook, LeaseExpires, Pull, Acknowledge, StartBatch, WriteEvidence,
       Ingest, Finish, LocalFailure, Crash, vars
  <2> QED BY <2>1 DEF Webhook, TypeOK
<1> QED BY <1>1, <1>2

LEMMA JobsStep == TypeOK /\ JobsMatchLedger /\ [Next]_vars => JobsMatchLedger'
<1> SUFFICES ASSUME TypeOK, JobsMatchLedger, [Next]_vars PROVE JobsMatchLedger'
  OBVIOUS
<1>1. ASSUME NEW o \in Op, Ingest(o), ~Collides(o), NEW k \in Key
      PROVE  jobs'[k] = IF ledger'[k] = NoDelivery THEN 0 ELSE Refs[ledger'[k]]
  <2>1. CASE ledger'[k] = ledger[k] /\ jobs'[k] = jobs[k]
    BY <2>1 DEF JobsMatchLedger
  <2>2. CASE \E d \in Delivery : ledger'[k] = d /\ ledger[k] = NoDelivery /\ jobs'[k] = jobs[k] + Refs[d]
    BY <2>2, DeliveryAssumption DEF JobsMatchLedger
  <2> QED BY <1>1, <2>1, <2>2, IngestShape
<1>2. CASE UNCHANGED registryVars
  BY <1>2 DEF registryVars, JobsMatchLedger
<1>3. (\E o \in Op : Ingest(o) /\ ~Collides(o)) \/ UNCHANGED registryVars
  BY DEF Next, BatchStep, Webhook, LeaseExpires, Pull, Acknowledge, StartBatch, WriteEvidence,
     Ingest, Finish, LocalFailure, Crash, vars
<1> QED BY <1>1, <1>2, <1>3 DEF JobsMatchLedger

LEMMA EventInvHolds == Spec => [](TypeOK /\ EventInv)
<1>1. Init => EventInv
  BY DEF Init, EventInv, BatchInv, AcceptedInv, AckedIsRecorded, JobsMatchLedger, NoBatch
<1>2. TypeOK /\ RequestInv /\ EventInv /\ [Next]_vars => EventInv'
  BY BatchInvStep, AckedStep, AcceptedStep, JobsStep DEF EventInv
<1> QED BY <1>1, <1>2, TypeHolds, PTL DEF Spec

\* A message leaves the Queue only after its event and its evidence are
\* durable.
THEOREM AckedIsRecordedHolds == Spec => []AckedIsRecorded
BY EventInvHolds, PTL DEF EventInv

\* A delivery that was answered with 202 is in the Queue or in the ledger.
THEOREM NoEventLostHolds == Spec => []NoEventLost
<1>1. TypeOK /\ EventInv => NoEventLost
  <2> SUFFICES ASSUME TypeOK, EventInv, NEW d \in accepted, ~Recorded(d)
               PROVE  \E m \in Message : DeliveryOf[m] = d /\ queue[m] \in {"ready", "leased"}
    BY DEF NoEventLost
  <2>1. PICK m \in Message : DeliveryOf[m] = d /\ queue[m] # "absent"
    BY DEF EventInv, AcceptedInv
  <2>2. queue[m] # "gone"
    BY <2>1 DEF EventInv, AckedIsRecorded
  <2> QED BY <2>1, <2>2 DEF TypeOK
<1> QED BY <1>1, EventInvHolds, PTL

\* The reconciliation jobs of an event are created exactly once, with it.
THEOREM JobsMatchLedgerHolds == Spec => []JobsMatchLedger
BY EventInvHolds, PTL DEF EventInv
=============================================================================
