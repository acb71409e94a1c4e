------------------------ MODULE ImportProtocolProofs ------------------------
(***************************************************************************)
(* Proofs about a managed D1 import, for any number of poll continuations,  *)
(* polls, proofs and crashes.                                               *)
(***************************************************************************)
EXTENDS ImportProtocol, SequenceTheorems, TLAPS

-----------------------------------------------------------------------------
\* Types.

PlanDocs == [status : Statuses, stage : Stages, outcome : Outcomes]

\* A recorded receipt, before its Apply evidence is written.
Entry(r) == [step |-> r.step, n |-> r.n, res |-> r.res, ev |-> FALSE]

\* The evidence of the last checkpoint is written.
Evidenced(s) == [s EXCEPT ![Len(s)].ev = TRUE]

LEMMA RootIsOp == Root \in Ops /\ Children \subseteq Ops /\ Root \notin Children
BY ImportAssumption DEF Ops

LEMMA ReceiptTypes ==
  /\ NoReceipt \in Receipts
  /\ \A step \in Steps : Ask(step, 0) \in Receipts
  /\ \A r \in Receipts, res \in Results : [r EXCEPT !.res = res] \in Receipts
  /\ \A r \in Receipts : Entry(r) \in Checkpoints
<1>1. 0 \in 0 .. MaxPolls
  BY ImportAssumption
<1>2. NoReceipt \in Receipts /\ \A step \in Steps : Ask(step, 0) \in Receipts
  BY <1>1 DEF NoReceipt, Ask, Receipts, Steps, Results
<1>3. \A r \in Receipts, res \in Results : [r EXCEPT !.res = res] \in Receipts
  BY DEF Receipts
<1>4. \A r \in Receipts : Entry(r) \in Checkpoints
  BY DEF Receipts, Checkpoints, Entry
<1> QED BY <1>2, <1>3, <1>4

LEMMA FollowUpType ==
  ASSUME NEW r \in Receipts
  PROVE  FollowUp(r).at \in {"send", "record", "response"} /\ FollowUp(r).next \in Receipts
<1>1. r.n \in 0 .. MaxPolls /\ MaxPolls \in Nat
  BY ImportAssumption DEF Receipts
<1>2. \A step \in Steps, n \in 0 .. MaxPolls : Ask(step, n) \in Receipts
  BY DEF Ask, Receipts, Results
<1>3. r.n < MaxPolls => r.n + 1 \in 0 .. MaxPolls
  BY <1>1
<1>4. 0 \in 0 .. MaxPolls /\ {"upload", "ingest", "poll", "exhausted", "complete"} \subseteq Steps
  BY <1>1 DEF Steps
<1> QED BY <1>2, <1>3, <1>4 DEF FollowUp

\* What setting the evidence of the last checkpoint leaves.
LEMMA EvidencedShape ==
  ASSUME NEW s \in Seq(Checkpoints), s # <<>>
  PROVE  /\ Evidenced(s) \in Seq(Checkpoints) /\ Evidenced(s) # <<>>
         /\ Len(Evidenced(s)) = Len(s) /\ DOMAIN Evidenced(s) = DOMAIN s
         /\ \A i \in DOMAIN s : /\ Evidenced(s)[i].step = s[i].step
                                /\ Evidenced(s)[i].n = s[i].n
                                /\ Evidenced(s)[i].res = s[i].res
                                /\ s[i].ev => Evidenced(s)[i].ev
         /\ Len(s) \in DOMAIN s /\ Evidenced(s)[Len(s)].ev
<1> DEFINE n == Len(s)
           e == [s[n] EXCEPT !.ev = TRUE]
<1>1. n \in 1 .. Len(s) /\ DOMAIN s = 1 .. Len(s)
  BY EmptySeq, LenProperties
<1>2. s[n] \in Checkpoints
  BY <1>1, ElementOfSeq
<1>3. e \in Checkpoints /\ e.ev = TRUE /\ e.step = s[n].step /\ e.n = s[n].n /\ e.res = s[n].res
  BY <1>2 DEF Checkpoints
<1>4. Evidenced(s) = [s EXCEPT ![n] = e]
  BY DEF Evidenced
<1> HIDE DEF e, n
<1>5. /\ Evidenced(s) \in Seq(Checkpoints) /\ Len(Evidenced(s)) = Len(s)
      /\ \A i \in 1 .. Len(s) : Evidenced(s)[i] = IF i = n THEN e ELSE s[i]
  BY <1>1, <1>3, <1>4, ExceptSeq
<1>6. DOMAIN Evidenced(s) = 1 .. Len(s)
  BY <1>5, LenProperties
<1> QED BY <1>1, <1>3, <1>5, <1>6, EmptySeq DEF n

\* What a step of one operation writes.
LEMMA MoveShape ==
  ASSUME TypeOK, NEW op \in Ops, NEW status \in Statuses, NEW stage \in Stages, Move(op, status, stage)
  PROVE  /\ plan' \in [Ops -> PlanDocs]
         /\ plan'[op].status = status /\ plan'[op].stage = stage
         /\ plan'[op].outcome = plan[op].outcome
         /\ \A q \in Ops \ {op} : plan'[q] = plan[q]
<1> DEFINE new == [plan[op] EXCEPT !.status = status, !.stage = stage]
<1>1. plan \in [Ops -> PlanDocs]
  BY DEF TypeOK, PlanDocs
<1>2. plan' = [plan EXCEPT ![op] = new]
  BY DEF Move
<1>3. new \in PlanDocs /\ new.status = status /\ new.stage = stage /\ new.outcome = plan[op].outcome
  BY <1>1 DEF PlanDocs
<1> HIDE DEF new
<1> QED BY <1>1, <1>2, <1>3

LEMMA GoShape ==
  ASSUME TypeOK, NEW op \in Ops, NEW position \in Positions, Go(op, position)
  PROVE  /\ run' \in [Ops -> Positions] /\ run'[op] = position
         /\ \A q \in Ops \ {op} : run'[q] = run[q]
BY DEF Go, TypeOK

LEMMA ContinueShape ==
  ASSUME TypeOK, NEW op \in Ops, Continue(op)
  PROVE  /\ run' \in [Ops -> Positions] /\ resp' \in [Ops -> Receipts]
         /\ run'[op] = FollowUp(resp[op]).at /\ resp'[op] = FollowUp(resp[op]).next
         /\ \A q \in Ops \ {op} : run'[q] = run[q] /\ resp'[q] = resp[q]
<1>1. resp[op] \in Receipts
  BY DEF TypeOK
<1>2. FollowUp(resp[op]).at \in Positions /\ FollowUp(resp[op]).next \in Receipts
  BY <1>1, FollowUpType DEF Positions
<1> QED BY <1>2 DEF Continue, Go, TypeOK

LEMMA ReceiveShape ==
  ASSUME TypeOK, NEW op \in Ops, NEW res \in Results, Receive(op, res)
  PROVE  /\ run' \in [Ops -> Positions] /\ resp' \in [Ops -> Receipts]
         /\ run'[op] = "record" /\ resp'[op].res = res
         /\ resp'[op].step = resp[op].step /\ resp'[op].n = resp[op].n
         /\ \A q \in Ops \ {op} : run'[q] = run[q] /\ resp'[q] = resp[q]
         /\ UNCHANGED <<lane, plan, parent, ckpt, proof, crashes>>
<1> DEFINE new == [resp[op] EXCEPT !.res = res]
<1>1. resp[op] \in Receipts /\ resp' = [resp EXCEPT ![op] = new]
  BY DEF TypeOK, Receive
<1>2. new \in Receipts /\ new.res = res /\ new.step = resp[op].step /\ new.n = resp[op].n
  BY <1>1 DEF Receipts
<1> HIDE DEF new
<1>3. "record" \in Positions
  BY DEF Positions
<1>4. Go(op, "record") /\ UNCHANGED <<lane, plan, parent, ckpt, proof, crashes>>
  BY DEF Receive
<1>5. /\ run' \in [Ops -> Positions] /\ run'[op] = "record"
      /\ \A q \in Ops \ {op} : run'[q] = run[q]
  BY <1>3, <1>4, GoShape
<1>6. /\ resp' \in [Ops -> Receipts] /\ resp'[op] = new
      /\ \A q \in Ops \ {op} : resp'[q] = resp[q]
  BY <1>1, <1>2 DEF TypeOK
<1> QED BY <1>2, <1>4, <1>5, <1>6

\* The requests: an outcome of the step that is sent.
Mutations == {"init", "upload", "ingest"}

LEMMA SendShape ==
  ASSUME TypeOK, NEW op \in Ops,
         SendInit(op) \/ SendUpload(op) \/ SendIngest(op) \/ SendPoll(op)
  PROVE  /\ run[op] = "send" /\ resp[op].step \in {"init", "upload", "ingest", "poll"}
         /\ \E res \in Results :
              /\ Receive(op, res)
              /\ resp[op].step = "ingest" /\ res = "progress" => import' = "active"
              /\ resp[op].step \in {"ingest", "poll"} /\ res = "complete" => import' = "complete"
              /\ resp[op].step \in {"init", "upload"} => res # "complete"
              /\ resp[op].step # "ingest" => import' = import
              /\ import' \in {"none", "active", "complete", "failed"}
         /\ resp[op].step = "poll" => sent' = sent
         /\ resp[op].step # "poll" => sent' = [sent EXCEPT ![resp[op].step] = sent[resp[op].step] + 1]
<1> USE DEF Results, Sending
<1>t. import \in {"none", "active", "complete", "failed"}
  BY DEF TypeOK
<1>1. CASE SendInit(op)
  BY <1>1, <1>t DEF SendInit
<1>2. CASE SendUpload(op)
  BY <1>2, <1>t DEF SendUpload
<1>3. CASE SendIngest(op)
  <2>1. PICK res \in {"progress", "complete", "bad", "uncertain"} :
          /\ Receive(op, res)
          /\ import' \in CASE res = "progress" -> {"active"}
                           [] res = "complete" -> {"complete"}
                           [] OTHER -> {"none", "active", "complete", "failed"}
    BY <1>3 DEF SendIngest
  <2>2. /\ res = "progress" => import' = "active"
        /\ res = "complete" => import' = "complete"
        /\ import' \in {"none", "active", "complete", "failed"}
    BY <2>1
  <2> QED BY <1>3, <2>1, <2>2 DEF SendIngest
<1>4. CASE SendPoll(op)
  BY <1>4, <1>t DEF SendPoll
<1> QED BY <1>1, <1>2, <1>3, <1>4

-----------------------------------------------------------------------------
\* The inductive invariant.

Working == {"send", "record", "evidence"}

InitRecorded ==
  \E i \in DOMAIN ckpt[Root] : ckpt[Root][i].step = "init" /\ ckpt[Root][i].res = "ok"

UploadRecorded ==
  \E i \in DOMAIN ckpt[Root] : IsReceipt(ckpt[Root][i], "upload", 0, "ok")

\* What the provider has not seen yet, read off the position of the root's
\* process and its plan: the request about to leave was never sent, and none
\* of those that come after it.
OneShot ==
  LET r == resp[Root]
      working == run[Root] \in Working
  IN  /\ plan[Root].status \in {"draft", "approved", "cancelled"} \/ run[Root] = "consumed"
           => sent.init = 0 /\ sent.upload = 0 /\ sent.ingest = 0
      /\ run[Root] = "send" /\ r.step \in Mutations => sent[r.step] = 0
      /\ working /\ r.step = "init" => sent.upload = 0 /\ sent.ingest = 0
      /\ working /\ r.step = "upload" => InitRecorded /\ sent.ingest = 0 /\ r.n = 0
      /\ working /\ r.step = "ingest" => UploadRecorded
      /\ plan[Root].status = "rectified" \/ run[Root] = "abandon"
           => sent.upload = 0 /\ sent.ingest = 0
      /\ import # "none" => sent.ingest > 0

\* Where the process of an operation is fixes how far its plan has come, and
\* evidence is written for the receipt recorded last.
Phase(op) ==
  /\ plan[op].status = "none" => ~Crossed(op) /\ op \in Children
  /\ run[op] = "derived" => op \in Children /\ plan[op].status = "none"
  /\ run[op] = "admitted" => plan[op].status = "approved"
  /\ run[op] \in Working \cup {"consumed", "response"} => plan[op].status = "consumed"
  /\ run[op] \in Positions \ {"idle", "derived", "admitted"} => Crossed(op)
  /\ run[op] \in {"verify", "reverify", "join"} => plan[op].outcome = "accepted"
  /\ run[op] = "abandon" => op = Root /\ plan[op].status \in {"rect", "rectified"}
  /\ plan[op].status \in {"running", "verified"} => plan[op].outcome = "accepted"
  /\ plan[op].status = "rectified" => op = Root
  /\ op \in Children /\ run[op] \in Working => resp[op].step \in {"poll", "exhausted", "complete"}
  /\ run[op] = "evidence" => ckpt[op] # <<>> /\ ckpt[op][Len(ckpt[op])] = Entry(resp[op])

\* A completion in memory or in the boundary artifact is the provider's.
Truth(op) ==
  /\ run[op] \in Working \cup {"response"} /\ (resp[op].step = "complete" \/ resp[op].res = "complete")
       => import = "complete"
  /\ plan[op].outcome = "accepted" => import = "complete"

\* A continuation that passed the second sibling check.
Admitted(c) == run[c] = "admitted" \/ Crossed(c)

\* Rival means that d would be a second continuation of the exhaustion of c.
NoRival(c) == \A d \in Children \ {c} : Admitted(d) => parent[d] # parent[c]

ImportInv ==
  /\ NoReplay /\ OneShot
  /\ \A c \in Children : Admitted(c) => NoRival(c)
  /\ \A op \in Ops : Phase(op) /\ Truth(op)

-----------------------------------------------------------------------------
\* A step of one operation leaves the others alone.

Local(op) ==
  /\ plan' \in [Ops -> PlanDocs] /\ run' \in [Ops -> Positions]
  /\ resp' \in [Ops -> Receipts] /\ ckpt' \in [Ops -> Seq(Checkpoints)]
  /\ \A q \in Ops \ {op} : /\ plan'[q] = plan[q] /\ run'[q] = run[q]
                           /\ resp'[q] = resp[q] /\ ckpt'[q] = ckpt[q]
  /\ lane' = lane /\ proof' = proof /\ crashes' \in 0 .. MaxCrashes

LEMMA OthersKeep ==
  ASSUME TypeOK, ImportInv, NEW op \in Ops, Local(op),
         import = "complete" => import' = "complete"
  PROVE  \A q \in Ops \ {op} : Phase(q)' /\ Truth(q)'
<1> SUFFICES ASSUME NEW q \in Ops \ {op} PROVE Phase(q)' /\ Truth(q)'
  OBVIOUS
<1>1. plan'[q] = plan[q] /\ run'[q] = run[q] /\ resp'[q] = resp[q] /\ ckpt'[q] = ckpt[q]
  BY DEF Local
<1>2. Phase(q) /\ Truth(q)
  BY DEF ImportInv
<1>3. Phase(q)'
  BY <1>1, <1>2 DEF Phase, Crossed
<1>4. Truth(q)'
  BY <1>1, <1>2 DEF Truth
<1> QED BY <1>3, <1>4

\* The root's requests are nobody else's concern.
LEMMA RootKeeps ==
  ASSUME TypeOK, ImportInv, NEW op \in Children, Local(op), UNCHANGED <<import, sent>>
  PROVE  NoReplay' /\ OneShot'
<1>1. /\ plan'[Root] = plan[Root] /\ run'[Root] = run[Root]
      /\ resp'[Root] = resp[Root] /\ ckpt'[Root] = ckpt[Root]
  BY RootIsOp DEF Local
<1>2. NoReplay'
  BY <1>1 DEF ImportInv, NoReplay
<1>3. OneShot'
  BY <1>1 DEF ImportInv, OneShot, InitRecorded, UploadRecorded
<1> QED BY <1>2, <1>3

\* What is left to show of a step of one operation.
LEMMA LocalStep ==
  ASSUME TypeOK, ImportInv, NEW op \in Ops, Local(op), parent' = parent,
         import' \in {"none", "active", "complete", "failed"},
         import = "complete" => import' = "complete",
         sent' \in [Mutations -> Nat],
         op \in Children => UNCHANGED <<import, sent>>,
         op \in Children /\ Admitted(op)' => Admitted(op) \/ NoRival(op),
         Phase(op)', Truth(op)',
         op = Root => NoReplay' /\ OneShot'
  PROVE  TypeOK' /\ ImportInv'
<1>1. TypeOK'
  BY DEF TypeOK, Local, PlanDocs, Mutations
<1>2. NoReplay' /\ OneShot'
  BY RootKeeps DEF Ops
<1>3. \A q \in Ops : Phase(q)' /\ Truth(q)'
  BY OthersKeep
<1>4. \A q \in Ops \ {op} : Admitted(q)' = Admitted(q)
  BY DEF Local, Admitted, Crossed
<1>5. ASSUME NEW c \in Children, Admitted(c)' PROVE NoRival(c)'
  <2> SUFFICES ASSUME NEW d \in Children \ {c}, Admitted(d)' PROVE parent[d] # parent[c]
    BY DEF NoRival
  <2>1. CASE c = op
    BY <1>4, <1>5, <2>1, RootIsOp DEF ImportInv, NoRival
  <2>2. CASE d = op
    BY <1>4, <1>5, <2>2, RootIsOp DEF ImportInv, NoRival
  <2>3. CASE c # op /\ d # op
    BY <1>4, <1>5, <2>3, RootIsOp DEF ImportInv, NoRival
  <2> QED BY <2>1, <2>2, <2>3
<1> QED BY <1>1, <1>2, <1>3, <1>5 DEF ImportInv

-----------------------------------------------------------------------------
\* Steps that send and record nothing.

Quiet(op) == Local(op) /\ UNCHANGED <<parent, ckpt, import, sent>>

LEMMA QuietStep ==
  ASSUME TypeOK, ImportInv, NEW op \in Ops, Quiet(op),
         op \in Children /\ Admitted(op)' => Admitted(op) \/ NoRival(op),
         Phase(op)', Truth(op)', op = Root => OneShot'
  PROVE  TypeOK' /\ ImportInv'
<1>1. /\ Local(op) /\ parent' = parent /\ import' = import
      /\ import \in {"none", "active", "complete", "failed"}
      /\ sent' = sent /\ sent \in [Mutations -> Nat]
  BY DEF Quiet, TypeOK, Mutations
<1>2. NoReplay'
  BY DEF Quiet, ImportInv, NoReplay
<1> QED BY <1>1, <1>2, LocalStep

\* The plan and the position change, the receipt in memory does not.
LEMMA MoveGoIsQuiet ==
  ASSUME TypeOK, NEW op \in Ops, NEW status \in Statuses, NEW stage \in Stages,
         NEW position \in Positions, Move(op, status, stage),
         Go(op, position) \/ (run' = run /\ position = run[op]),
         UNCHANGED <<lane, parent, ckpt, resp, import, sent, proof, crashes>>
  PROVE  /\ Quiet(op) /\ resp'[op] = resp[op] /\ run'[op] = position
         /\ plan'[op].status = status /\ plan'[op].stage = stage
         /\ plan'[op].outcome = plan[op].outcome
<1>1. /\ plan' \in [Ops -> PlanDocs]
      /\ plan'[op].status = status /\ plan'[op].stage = stage
      /\ plan'[op].outcome = plan[op].outcome
      /\ \A q \in Ops \ {op} : plan'[q] = plan[q]
  BY MoveShape
<1>2. /\ run' \in [Ops -> Positions] /\ run'[op] = position
      /\ \A q \in Ops \ {op} : run'[q] = run[q]
  <2>1. CASE Go(op, position)
    BY <2>1, GoShape
  <2>2. CASE run' = run /\ position = run[op]
    BY <2>2 DEF TypeOK
  <2> QED BY <2>1, <2>2
<1>3. resp' \in [Ops -> Receipts] /\ ckpt' \in [Ops -> Seq(Checkpoints)] /\ crashes' \in 0 .. MaxCrashes
  BY DEF TypeOK
<1> QED BY <1>1, <1>2, <1>3 DEF Quiet, Local

LEMMA GoIsQuiet ==
  ASSUME TypeOK, NEW op \in Ops, NEW position \in Positions, Go(op, position),
         UNCHANGED <<lane, plan, parent, ckpt, resp, import, sent, proof, crashes>>
  PROVE  Quiet(op) /\ resp'[op] = resp[op] /\ run'[op] = position /\ plan'[op] = plan[op]
<1>1. /\ run' \in [Ops -> Positions] /\ run'[op] = position
      /\ \A q \in Ops \ {op} : run'[q] = run[q]
  BY GoShape
<1>2. /\ resp' \in [Ops -> Receipts] /\ ckpt' \in [Ops -> Seq(Checkpoints)] /\ crashes' \in 0 .. MaxCrashes
      /\ plan' \in [Ops -> PlanDocs]
  BY DEF TypeOK, PlanDocs
<1> QED BY <1>1, <1>2 DEF Quiet, Local

\* The plan and the position of one operation fix what its state must show.
LEMMA QuietInvariants ==
  ASSUME TypeOK, ImportInv, NEW op \in Ops, Quiet(op),
         run'[op] \notin Working \cup {"response"},
         plan'[op].outcome = "accepted" => import = "complete",
         op = Root =>
           /\ plan'[op].status \in {"draft", "approved", "cancelled"} \/ run'[op] = "consumed"
                => sent.init = 0 /\ sent.upload = 0 /\ sent.ingest = 0
           /\ plan'[op].status = "rectified" \/ run'[op] = "abandon"
                => sent.upload = 0 /\ sent.ingest = 0
  PROVE  Truth(op)' /\ (op = Root => OneShot')
<1>1. Truth(op)'
  BY DEF Truth, Quiet
<1>2. op = Root => OneShot'
  BY DEF OneShot, Quiet, ImportInv, Working
<1> QED BY <1>1, <1>2

LEMMA PrepareDeriveStep ==
  ASSUME TypeOK, ImportInv, NEW c \in Children, PrepareDerive(c)
  PROVE  TypeOK' /\ ImportInv'
<1>1. PICK p \in Ops \ {c} : parent' = [parent EXCEPT ![c] = p]
  BY DEF PrepareDerive
<1>2. c \in Ops /\ plan[c].status = "none" /\ run[c] = "idle" /\ "derived" \in Positions /\ Go(c, "derived")
  BY RootIsOp DEF PrepareDerive, Saved, Positions
<1>3. /\ run' \in [Ops -> Positions] /\ run'[c] = "derived"
      /\ \A q \in Ops \ {c} : run'[q] = run[q]
  BY <1>2, GoShape
<1>4. UNCHANGED <<lane, plan, ckpt, resp, import, sent, proof, crashes>>
  BY DEF PrepareDerive
<1>5. TypeOK'
  BY <1>1, <1>3, <1>4, RootIsOp DEF TypeOK
<1>6. Local(c)
  BY <1>3, <1>4 DEF Local, TypeOK, PlanDocs
<1>7. NoReplay' /\ OneShot'
  BY <1>4, <1>6, RootKeeps
<1>8. Phase(c)' /\ Truth(c)'
  BY <1>2, <1>3, <1>4 DEF ImportInv, Phase, Truth, Crossed, Working
<1>9. \A q \in Ops : Phase(q)' /\ Truth(q)'
  BY <1>2, <1>4, <1>6, <1>8, OthersKeep
<1>10. ~Admitted(c)' /\ \A q \in Children \ {c} : /\ Admitted(q)' = Admitted(q)
                                                 /\ parent'[q] = parent[q]
  BY <1>1, <1>2, <1>3, <1>4, RootIsOp DEF Admitted, Crossed, ImportInv, Phase, TypeOK
<1>11. ASSUME NEW d \in Children, Admitted(d)' PROVE NoRival(d)'
  <2>1. d # c
    BY <1>10, <1>11
  <2>2. \A e \in Children \ {d} : Admitted(e)' => parent'[e] # parent'[d]
    BY <1>10, <1>11, <2>1 DEF ImportInv, NoRival
  <2> QED BY <2>2 DEF NoRival
<1> QED BY <1>5, <1>7, <1>9, <1>11 DEF ImportInv

LEMMA PrepareSaveStep ==
  ASSUME TypeOK, ImportInv, NEW c \in Children, PrepareSave(c)
  PROVE  TypeOK' /\ ImportInv'
<1>1. c \in Ops /\ c # Root /\ run[c] = "derived" /\ Phase(c) /\ Truth(c)
  BY RootIsOp DEF PrepareSave, ImportInv
<1>2. "draft" \in Statuses /\ "none" \in Stages /\ "idle" \in Positions
  BY DEF Statuses, Stages, Positions
<1>3. /\ Quiet(c) /\ run'[c] = "idle" /\ plan'[c].status = "draft" /\ plan'[c].stage = "none"
      /\ plan'[c].outcome = plan[c].outcome
  BY <1>1, <1>2, MoveGoIsQuiet DEF PrepareSave
<1>4. Phase(c)' /\ ~Admitted(c)'
  BY <1>1, <1>3 DEF Phase, Admitted, Crossed, CrossedStages, Working
<1>5. Truth(c)'
  BY <1>1, <1>3, QuietInvariants DEF Truth, Working
<1> QED BY <1>1, <1>3, <1>4, <1>5, QuietStep

LEMMA ApproveCancelStep ==
  ASSUME TypeOK, ImportInv, NEW op \in Ops, Approve(op) \/ Cancel(op)
  PROVE  TypeOK' /\ ImportInv'
<1>1. Phase(op) /\ Truth(op) /\ run[op] = "idle" /\ plan[op].status \in {"draft", "approved"}
  BY DEF Approve, Cancel, ImportInv
<1>2. "approved" \in Statuses /\ "cancelled" \in Statuses /\ "approval" \in Stages /\ "idle" \in Positions
      /\ plan[op].stage \in Stages
  BY DEF Statuses, Stages, Positions, TypeOK
<1>3. /\ Quiet(op) /\ run'[op] = "idle" /\ plan'[op].status \in {"approved", "cancelled"}
      /\ plan'[op].stage \in {"approval", plan[op].stage}
      /\ plan'[op].outcome = plan[op].outcome
  <2>1. CASE Approve(op)
    BY <1>1, <1>2, <2>1, MoveGoIsQuiet DEF Approve
  <2>2. CASE Cancel(op)
    BY <1>1, <1>2, <2>2, MoveGoIsQuiet DEF Cancel
  <2> QED BY <2>1, <2>2
<1>4. Phase(op)'
  BY <1>1, <1>3 DEF Phase, Crossed, CrossedStages, Working
<1>5. Admitted(op)' => Admitted(op)
  BY <1>1, <1>3 DEF Admitted, Crossed, CrossedStages
<1>6. Truth(op)' /\ (op = Root => OneShot')
  <2>1. op = Root => sent.init = 0 /\ sent.upload = 0 /\ sent.ingest = 0
    BY <1>1 DEF ImportInv, OneShot
  <2>2. plan'[op].outcome = "accepted" => import = "complete"
    BY <1>1, <1>3 DEF Truth
  <2> QED BY <1>3, <2>1, <2>2, QuietInvariants DEF Working
<1> QED BY <1>3, <1>4, <1>5, <1>6, QuietStep

\* The second sibling check sees every plan saved before it: no other saved
\* continuation of the same exhaustion is admitted, because the read of a
\* sibling that never recorded a checkpoint fails.
LEMMA RunAdmitStep ==
  ASSUME TypeOK, ImportInv, NEW op \in Ops, RunAdmit(op)
  PROVE  TypeOK' /\ ImportInv'
<1>1. Phase(op) /\ Truth(op) /\ run[op] = "idle" /\ plan[op].status = "approved"
  BY DEF RunAdmit, ImportInv
<1>2. Quiet(op) /\ run'[op] = "admitted" /\ plan'[op] = plan[op]
  <2>1. "admitted" \in Positions
    BY DEF Positions
  <2> QED BY <2>1, GoIsQuiet DEF RunAdmit
<1>3. op \in Children => NoRival(op)
  <2> SUFFICES ASSUME op \in Children, NEW d \in Children \ {op}, Admitted(d), parent[d] = parent[op]
               PROVE  FALSE
    BY DEF NoRival
  <2>1. DeriveAuthority(op, parent[op])
    BY DEF RunAdmit
  <2>2. ~Saved(d)
    BY <2>1 DEF DeriveAuthority, SiblingFree, Replaceable, CheckpointsReadable
  <2>3. Phase(d)
    BY RootIsOp DEF ImportInv
  <2> QED BY <2>2, <2>3 DEF Saved, Phase, Admitted
<1>4. Phase(op)'
  BY <1>1, <1>2 DEF Phase, Crossed, Working
<1>5. Truth(op)' /\ (op = Root => OneShot')
  <2>1. op = Root => sent.init = 0 /\ sent.upload = 0 /\ sent.ingest = 0
    BY <1>1 DEF ImportInv, OneShot
  <2>2. plan'[op].outcome = "accepted" => import = "complete"
    BY <1>1, <1>2 DEF Truth
  <2> QED BY <1>2, <2>1, <2>2, QuietInvariants DEF Working
<1> QED BY <1>2, <1>3, <1>4, <1>5, QuietStep

LEMMA ConsumeStep ==
  ASSUME TypeOK, ImportInv, NEW op \in Ops, Consume(op)
  PROVE  TypeOK' /\ ImportInv'
<1>1. Phase(op) /\ Truth(op) /\ run[op] = "admitted" /\ plan[op].status = "approved"
  BY DEF Consume, ImportInv, Phase
<1>2. "consumed" \in Statuses /\ "consumption" \in Stages /\ "consumed" \in Positions
  BY DEF Statuses, Stages, CrossedStages, Positions
<1>3. /\ Quiet(op) /\ run'[op] = "consumed" /\ plan'[op].status = "consumed"
      /\ plan'[op].stage = "consumption" /\ plan'[op].outcome = plan[op].outcome
  BY <1>2, MoveGoIsQuiet DEF Consume
<1>4. Phase(op)' /\ Admitted(op)
  BY <1>1, <1>3 DEF Phase, Crossed, CrossedStages, Working, Admitted
<1>5. Truth(op)' /\ (op = Root => OneShot')
  <2>1. op = Root => sent.init = 0 /\ sent.upload = 0 /\ sent.ingest = 0
    BY <1>1 DEF ImportInv, OneShot
  <2>2. plan'[op].outcome = "accepted" => import = "complete"
    BY <1>1, <1>3 DEF Truth
  <2> QED BY <1>3, <2>1, <2>2, QuietInvariants DEF Working
<1> QED BY <1>3, <1>4, <1>5, QuietStep

LEMMA AttemptStep ==
  ASSUME TypeOK, ImportInv, NEW op \in Ops, Attempt(op)
  PROVE  TypeOK' /\ ImportInv'
<1> DEFINE first == IF op = Root THEN Ask("init", 0) ELSE Ask("poll", 1)
<1>1. Phase(op) /\ Truth(op) /\ run[op] = "consumed"
  BY DEF Attempt, ImportInv
<1>2. "consumed" \in Statuses /\ "attempt" \in Stages /\ "send" \in Positions
  BY DEF Statuses, Stages, CrossedStages, Positions
<1>3. /\ plan' \in [Ops -> PlanDocs]
      /\ plan'[op].status = "consumed" /\ plan'[op].stage = "attempt"
      /\ plan'[op].outcome = plan[op].outcome
      /\ \A q \in Ops \ {op} : plan'[q] = plan[q]
  BY <1>2, MoveShape DEF Attempt
<1>4. /\ run' \in [Ops -> Positions] /\ run'[op] = "send"
      /\ \A q \in Ops \ {op} : run'[q] = run[q]
  BY <1>2, GoShape DEF Attempt
<1>5. first \in Receipts
  <2>1. {0, 1} \subseteq 0 .. MaxPolls
    BY ImportAssumption
  <2> QED BY <2>1 DEF Ask, Receipts, Steps, Results
<1>6. /\ resp' \in [Ops -> Receipts] /\ resp'[op] = first
      /\ \A q \in Ops \ {op} : resp'[q] = resp[q]
  BY <1>5 DEF Attempt, TypeOK
<1>7. UNCHANGED <<lane, parent, ckpt, import, sent, proof, crashes>>
  BY DEF Attempt
<1>8. Quiet(op)
  BY <1>3, <1>4, <1>6, <1>7 DEF Quiet, Local, TypeOK
<1>9. resp'[op].res = "none" /\ resp'[op].step \in {"init", "poll"}
  BY <1>6 DEF Ask
<1>10. Phase(op)' /\ Admitted(op)
  BY <1>1, <1>3, <1>4, <1>6, RootIsOp DEF Phase, Crossed, CrossedStages, Working, Admitted, Positions, Ask
<1>11. Truth(op)'
  BY <1>1, <1>3, <1>7, <1>9 DEF Truth
<1>12. op = Root => OneShot'
  <2> SUFFICES ASSUME op = Root PROVE OneShot'
    OBVIOUS
  <2>1. sent.init = 0 /\ sent.upload = 0 /\ sent.ingest = 0
    BY <1>1 DEF ImportInv, OneShot
  <2>2. import = "none"
    BY <2>1 DEF ImportInv, OneShot
  <2>3. resp'[Root].step = "init"
    BY <1>6 DEF Ask
  <2> QED BY <1>3, <1>4, <1>7, <2>1, <2>2, <2>3 DEF OneShot, Mutations
<1> QED BY <1>8, <1>10, <1>11, <1>12, QuietStep

LEMMA PersistFailsStep ==
  ASSUME TypeOK, ImportInv, NEW op \in Ops, PersistFails(op)
  PROVE  TypeOK' /\ ImportInv'
<1> DEFINE lost == [NoReceipt EXCEPT !.res = "uncertain"]
<1>1. Phase(op) /\ Truth(op) /\ run[op] \in {"record", "evidence"}
  BY DEF PersistFails, ImportInv
<1>2. lost \in Receipts /\ lost.res = "uncertain" /\ lost.step = "none"
  BY ReceiptTypes DEF NoReceipt, Results
<1>3. "response" \in Positions
  BY DEF Positions
<1>4. /\ run' \in [Ops -> Positions] /\ run'[op] = "response"
      /\ \A q \in Ops \ {op} : run'[q] = run[q]
  BY <1>3, GoShape DEF PersistFails
<1>5. /\ resp' \in [Ops -> Receipts] /\ resp'[op] = lost
      /\ \A q \in Ops \ {op} : resp'[q] = resp[q]
  BY <1>2 DEF PersistFails, TypeOK
<1>6. UNCHANGED <<lane, plan, parent, ckpt, import, sent, proof, crashes>>
  BY DEF PersistFails
<1>7. Quiet(op)
  BY <1>4, <1>5, <1>6 DEF Quiet, Local, TypeOK, PlanDocs
<1>8. Phase(op)' /\ (Admitted(op)' => Admitted(op))
  BY <1>1, <1>4, <1>6 DEF Phase, Crossed, Working, Admitted, Positions
<1>9. Truth(op)'
  BY <1>1, <1>2, <1>5, <1>6 DEF Truth
<1>10. op = Root => OneShot'
  BY <1>4, <1>6 DEF ImportInv, OneShot, Working
<1> QED BY <1>7, <1>8, <1>9, <1>10, QuietStep

LEMMA BoundaryResponseStep ==
  ASSUME TypeOK, ImportInv, NEW op \in Ops, PersistBoundaryResponse(op)
  PROVE  TypeOK' /\ ImportInv'
<1> DEFINE out == OutcomeOf(resp[op])
           new == [status |-> IF out = "accepted" THEN "running" ELSE "rect",
                   stage |-> "response", outcome |-> out]
<1>1. Phase(op) /\ Truth(op) /\ run[op] = "response"
  BY DEF PersistBoundaryResponse, ImportInv
<1>2. out \in Outcomes /\ (out = "accepted" => resp[op].step = "complete")
  BY DEF OutcomeOf, Outcomes
<1>3. new \in PlanDocs /\ new.outcome = out /\ new.stage = "response"
      /\ new.status \in {"running", "rect"} /\ (new.status = "running" => out = "accepted")
  BY <1>2 DEF PlanDocs, Statuses, Stages, CrossedStages
<1>4. plan' = [plan EXCEPT ![op] = new]
  BY DEF PersistBoundaryResponse
<1> HIDE DEF new, out
<1>5. plan' \in [Ops -> PlanDocs] /\ plan'[op] = new /\ \A q \in Ops \ {op} : plan'[q] = plan[q]
  BY <1>3, <1>4 DEF TypeOK, PlanDocs
<1>6. "sink" \in Positions
  BY DEF Positions
<1>7. /\ run' \in [Ops -> Positions] /\ run'[op] = "sink"
      /\ \A q \in Ops \ {op} : run'[q] = run[q]
  BY <1>6, GoShape DEF PersistBoundaryResponse
<1>8. UNCHANGED <<lane, parent, ckpt, resp, import, sent, proof, crashes>>
  BY DEF PersistBoundaryResponse
<1>9. Quiet(op)
  BY <1>5, <1>7, <1>8 DEF Quiet, Local, TypeOK
<1>10. Phase(op)' /\ Admitted(op)
  BY <1>1, <1>3, <1>5, <1>7 DEF Phase, Crossed, CrossedStages, Working, Admitted, Positions
<1>11. out = "accepted" => import = "complete"
  BY <1>1, <1>2 DEF Truth
<1>12. Truth(op)' /\ (op = Root => OneShot')
  BY <1>3, <1>5, <1>7, <1>9, <1>11, QuietInvariants DEF Working
<1> QED BY <1>9, <1>10, <1>12, QuietStep

LEMMA SecretSinkStep ==
  ASSUME TypeOK, ImportInv, NEW op \in Ops, PersistSecretSink(op)
  PROVE  TypeOK' /\ ImportInv'
<1> DEFINE at == IF plan[op].outcome = "accepted" THEN "verify" ELSE "idle"
<1>1. Phase(op) /\ Truth(op) /\ run[op] = "sink"
  BY DEF PersistSecretSink, ImportInv
<1>2. plan[op].status \in Statuses /\ "sink" \in Stages /\ at \in Positions
  BY DEF TypeOK, Stages, CrossedStages, Positions
<1>3. /\ plan' \in [Ops -> PlanDocs]
      /\ plan'[op].status = plan[op].status /\ plan'[op].stage = "sink"
      /\ plan'[op].outcome = plan[op].outcome
      /\ \A q \in Ops \ {op} : plan'[q] = plan[q]
  BY <1>2, MoveShape DEF PersistSecretSink
<1>4. /\ run' \in [Ops -> Positions] /\ run'[op] = at
      /\ \A q \in Ops \ {op} : run'[q] = run[q]
  BY <1>2, GoShape DEF PersistSecretSink
<1>5. /\ resp' \in [Ops -> Receipts]
      /\ \A q \in Ops \ {op} : resp'[q] = resp[q]
  BY ReceiptTypes DEF PersistSecretSink, TypeOK
<1>6. UNCHANGED <<lane, parent, ckpt, import, sent, proof, crashes>>
  BY DEF PersistSecretSink
<1>7. Quiet(op)
  BY <1>3, <1>4, <1>5, <1>6 DEF Quiet, Local, TypeOK
<1>8. Phase(op)' /\ Admitted(op)
  BY <1>1, <1>3, <1>4 DEF Phase, Crossed, CrossedStages, Working, Admitted, Positions
<1>9. plan'[op].outcome = "accepted" => import = "complete"
  BY <1>1, <1>3 DEF Truth
<1>10. Truth(op)' /\ (op = Root => OneShot')
  <2>1. op = Root =>
           /\ plan[op].status \in {"draft", "approved", "cancelled"}
                => sent.init = 0 /\ sent.upload = 0 /\ sent.ingest = 0
           /\ plan[op].status = "rectified" => sent.upload = 0 /\ sent.ingest = 0
    BY DEF ImportInv, OneShot
  <2> QED BY <1>3, <1>4, <1>7, <1>9, <2>1, QuietInvariants DEF Working
<1> QED BY <1>7, <1>8, <1>10, QuietStep

-----------------------------------------------------------------------------
\* Verification, rectification, the end of a process.

\* A crossed operation moves on to another stage behind the boundary.
Behind(op) ==
  /\ Crossed(op) /\ Crossed(op)'
  /\ run'[op] \in {"idle", "verify", "reverify", "join", "abandon"}
  /\ run'[op] \in {"verify", "reverify", "join"} => plan'[op].outcome = "accepted"
  /\ run'[op] = "abandon" => op = Root /\ plan'[op].status \in {"rect", "rectified"}
  /\ plan'[op].status \in {"rect", "verified", "rectified", plan[op].status}
  /\ plan'[op].status = "verified" => plan[op].outcome = "accepted"
  /\ \/ plan'[op].outcome = plan[op].outcome
     \/ plan'[op].outcome # "accepted" /\ plan'[op].status = "rect"
  /\ plan'[op].status = "rectified" \/ run'[op] = "abandon"
       => op = Root /\ sent.upload = 0 /\ sent.ingest = 0

LEMMA BehindBoundaryStep ==
  ASSUME TypeOK, ImportInv, NEW op \in Ops, Quiet(op), Behind(op)
  PROVE  TypeOK' /\ ImportInv'
<1> USE DEF Behind
<1>1. Phase(op) /\ Truth(op)
  BY DEF ImportInv
<1>2. Phase(op)'
  BY <1>1 DEF Phase, Working, Positions, Crossed
<1>3. plan'[op].outcome = "accepted" => import = "complete"
  BY <1>1 DEF Truth
<1>4. op = Root /\ plan'[op].status \in {"draft", "approved", "cancelled"}
           => sent.init = 0 /\ sent.upload = 0 /\ sent.ingest = 0
  BY DEF ImportInv, OneShot
<1>5. Truth(op)' /\ (op = Root => OneShot')
  BY <1>3, <1>4, QuietInvariants DEF Working
<1>6. Admitted(op)
  BY DEF Admitted
<1> QED BY <1>2, <1>5, <1>6, QuietStep

\* One that only moves and is where it was, or idle.
LEMMA StayStep ==
  ASSUME TypeOK, ImportInv, NEW op \in Ops, NEW status \in Statuses, NEW stage \in CrossedStages,
         NEW position \in {"idle", run[op]}, Crossed(op),
         run[op] \in {"idle", "verify", "reverify", "join", "abandon"},
         status \in {"rect", "verified", "rectified", plan[op].status},
         status = "verified" => plan[op].outcome = "accepted",
         run[op] = "abandon" => status \in {"rect", "rectified"},
         status = "rectified" => op = Root /\ sent.upload = 0 /\ sent.ingest = 0,
         Move(op, status, stage), Go(op, position) \/ (run' = run /\ position = run[op]),
         UNCHANGED <<lane, parent, ckpt, resp, import, sent, proof, crashes>>
  PROVE  TypeOK' /\ ImportInv'
<1>1. position \in Positions /\ stage \in Stages
  BY DEF Positions, Stages
<1>2. /\ Quiet(op) /\ run'[op] = position
      /\ plan'[op].status = status /\ plan'[op].stage = stage
      /\ plan'[op].outcome = plan[op].outcome
  BY <1>1, MoveGoIsQuiet
<1>3. Phase(op) /\ (run[op] = "abandon" => op = Root /\ sent.upload = 0 /\ sent.ingest = 0)
  BY DEF ImportInv, OneShot, Phase
<1>4. Crossed(op)'
  BY <1>2 DEF Crossed
<1>5. Behind(op)
  BY <1>2, <1>3, <1>4 DEF Phase, Behind
<1> QED BY <1>2, <1>5, BehindBoundaryStep

LEMMA StatusTypes ==
  /\ {"rect", "verified", "rectified", "running", "consumed"} \subseteq Statuses
  /\ {"sink", "vattempt", "vresponse", "closed", "response"} \subseteq CrossedStages
  /\ {"idle", "verify", "reverify", "join", "abandon"} \subseteq Positions
  /\ CrossedStages \subseteq Stages
BY DEF Statuses, CrossedStages, Stages, Positions

LEMMA CompletionUnprovenStep ==
  ASSUME TypeOK, ImportInv, NEW op \in Ops, CompletionUnproven(op)
  PROVE  TypeOK' /\ ImportInv'
<1>1. run[op] = "verify" /\ Crossed(op)
  BY StatusTypes DEF CompletionUnproven, Crossed
<1> DEFINE stage == IF op = Root THEN "vattempt" ELSE "sink"
<1>2. stage \in CrossedStages /\ "rect" \in Statuses
  BY StatusTypes
<1>3. Move(op, "rect", stage) /\ Go(op, "idle")
  BY DEF CompletionUnproven
<1>4. UNCHANGED <<lane, parent, ckpt, resp, import, sent, proof, crashes>>
  BY DEF CompletionUnproven
<1> HIDE DEF stage
<1> QED BY <1>1, <1>2, <1>3, <1>4, StayStep

LEMMA AwaitProofStep ==
  ASSUME TypeOK, ImportInv, NEW op \in Ops, AwaitProof(op)
  PROVE  TypeOK' /\ ImportInv'
<1>1. Phase(op) /\ run[op] = "verify" /\ "idle" \in Positions
  BY StatusTypes DEF AwaitProof, ImportInv
<1>2. Quiet(op) /\ run'[op] = "idle" /\ plan'[op] = plan[op]
  BY <1>1, GoIsQuiet DEF AwaitProof
<1>3. Crossed(op) /\ Crossed(op)' /\ plan[op].outcome = "accepted"
  BY <1>1, <1>2 DEF Phase, Crossed, Positions
<1>4. plan[op].status = "rectified" => op = Root /\ sent.upload = 0 /\ sent.ingest = 0
  BY <1>1 DEF ImportInv, OneShot, Phase
<1>5. Behind(op)
  BY <1>2, <1>3, <1>4 DEF Behind
<1> QED BY <1>2, <1>5, BehindBoundaryStep

LEMMA VerifyStepStep ==
  ASSUME TypeOK, ImportInv, NEW op \in Ops, VerifyStep(op)
  PROVE  TypeOK' /\ ImportInv'
<1>1. /\ run[op] \in {"verify", "reverify"} /\ Phase(op)
      /\ UNCHANGED <<lane, parent, ckpt, resp, import, sent, proof, crashes>>
  BY DEF VerifyStep, ImportInv
<1>2. Crossed(op) /\ plan[op].outcome = "accepted" /\ plan[op].status \in Statuses
  BY <1>1 DEF Phase, Positions, TypeOK
<1>3. plan[op].status = "rectified" => op = Root /\ sent.upload = 0 /\ sent.ingest = 0
  BY <1>1 DEF ImportInv, OneShot, Phase
<1>4. CASE plan[op].stage = "sink" /\ Move(op, plan[op].status, "vattempt") /\ run' = run
  BY <1>1, <1>2, <1>3, <1>4, StatusTypes, StayStep
<1>5. CASE plan[op].stage = "vattempt" /\ Move(op, "verified", "vresponse") /\ run' = run
  BY <1>1, <1>2, <1>3, <1>5, StatusTypes, StayStep
<1>6. CASE plan[op].stage = "vresponse" /\ Move(op, "verified", "closed") /\ Go(op, "idle")
  BY <1>1, <1>2, <1>3, <1>6, StatusTypes, StayStep
<1> QED BY <1>4, <1>5, <1>6 DEF VerifyStep

LEMMA RectifyReviewedStep ==
  ASSUME TypeOK, ImportInv, RectifyReviewed
  PROVE  TypeOK' /\ ImportInv'
<1>1. /\ Root \in Ops /\ plan[Root].outcome = "accepted" /\ Crossed(Root) /\ "reverify" \in Positions
      /\ plan[Root].status \in {"running", "rect", "verified"}
  BY RootIsOp, StatusTypes DEF RectifyReviewed, Crossed, At
<1>2. Quiet(Root) /\ run'[Root] = "reverify" /\ plan'[Root] = plan[Root]
  BY <1>1, GoIsQuiet DEF RectifyReviewed
<1>3. Crossed(Root)'
  BY <1>1, <1>2 DEF Crossed
<1>4. Behind(Root)
  BY <1>1, <1>2, <1>3 DEF Behind
<1> QED BY <1>1, <1>2, <1>4, BehindBoundaryStep

\* The one checkpoint of a refused init shows that nothing was uploaded.
LEMMA RefusedInit ==
  ASSUME TypeOK, ImportInv, InitFailure
  PROVE  sent.upload = 0 /\ sent.ingest = 0
<1>1. ckpt[Root] \in Seq(Checkpoints) /\ Len(ckpt[Root]) = 1
  BY RootIsOp DEF TypeOK, InitFailure
<1>2. \A i \in DOMAIN ckpt[Root] : i = 1
  BY <1>1, LenProperties
<1>3. ckpt[Root][1].step = "init" /\ ckpt[Root][1].res # "ok"
  BY DEF InitFailure, IsReceipt
<1>4. ~(sent.upload > 0) /\ ~(sent.ingest > 0)
  BY <1>2, <1>3 DEF ImportInv, NoReplay, IsReceipt
<1> QED BY <1>4 DEF TypeOK

LEMMA RectifyInitRecoverStep ==
  ASSUME TypeOK, ImportInv, RectifyInitRecover
  PROVE  TypeOK' /\ ImportInv'
<1>1. /\ Root \in Ops /\ run[Root] = "idle"
      /\ UNCHANGED <<lane, parent, ckpt, run, resp, import, sent, proof, crashes>>
  BY RootIsOp DEF RectifyInitRecover
<1>2. CASE At(Root, "consumed", "attempt") /\ plan' = [plan EXCEPT ![Root] =
             [status |-> "rect", stage |-> "response", outcome |-> "init_failure"]]
  <2> DEFINE new == [status |-> "rect", stage |-> "response", outcome |-> "init_failure"]
  <2>1. new \in PlanDocs /\ new.status = "rect" /\ new.stage = "response" /\ new.outcome = "init_failure"
    BY StatusTypes DEF PlanDocs, Outcomes
  <2>2. plan' = [plan EXCEPT ![Root] = new]
    BY <1>2
  <2> HIDE DEF new
  <2>3. plan' \in [Ops -> PlanDocs] /\ plan'[Root] = new /\ \A q \in Ops \ {Root} : plan'[q] = plan[q]
    BY <1>1, <2>1, <2>2 DEF TypeOK, PlanDocs
  <2>4. Quiet(Root) /\ run'[Root] = "idle"
    BY <1>1, <2>3 DEF Quiet, Local, TypeOK
  <2>5. Crossed(Root) /\ Crossed(Root)'
    BY <1>2, <2>1, <2>3 DEF Crossed, CrossedStages, At
  <2>6. Behind(Root)
    BY <2>1, <2>3, <2>4, <2>5 DEF Behind
  <2> QED BY <1>1, <2>4, <2>6, BehindBoundaryStep
<1>3. CASE At(Root, "rect", "response") /\ Move(Root, "rect", "sink")
  <2>1. Crossed(Root)
    BY <1>3, StatusTypes DEF Crossed, At
  <2> QED BY <1>1, <1>3, <2>1, StatusTypes, StayStep
<1> QED BY <1>2, <1>3 DEF RectifyInitRecover

LEMMA RectifyAbandonStep ==
  ASSUME TypeOK, ImportInv, RectifyAbandon
  PROVE  TypeOK' /\ ImportInv'
<1>1. /\ Root \in Ops /\ Crossed(Root)
      /\ sent.upload = 0 /\ sent.ingest = 0
  BY RootIsOp, StatusTypes, RefusedInit DEF RectifyAbandon, Crossed, At
<1>2. /\ Quiet(Root) /\ run'[Root] = "abandon"
      /\ plan'[Root].status = "rect" /\ plan'[Root].stage = "vattempt"
      /\ plan'[Root].outcome = plan[Root].outcome
  BY <1>1, StatusTypes, MoveGoIsQuiet DEF RectifyAbandon
<1>3. Crossed(Root)'
  BY <1>2, StatusTypes DEF Crossed
<1>4. Behind(Root)
  BY <1>1, <1>2, <1>3 DEF Behind
<1> QED BY <1>1, <1>2, <1>4, BehindBoundaryStep

LEMMA RectifyJoinStep ==
  ASSUME TypeOK, ImportInv, RectifyJoin
  PROVE  TypeOK' /\ ImportInv'
<1>1. Root \in Ops /\ Crossed(Root) /\ Phase(Root) /\ plan[Root].status = "running"
  BY RootIsOp, StatusTypes DEF RectifyJoin, Crossed, At, ImportInv
<1>2. /\ Quiet(Root) /\ run'[Root] = "join"
      /\ plan'[Root].status = "running" /\ plan'[Root].stage = "vattempt"
      /\ plan'[Root].outcome = plan[Root].outcome
  BY <1>1, StatusTypes, MoveGoIsQuiet DEF RectifyJoin
<1>3. Crossed(Root)' /\ plan[Root].outcome = "accepted"
  BY <1>1, <1>2, StatusTypes DEF Crossed, Phase
<1>4. Behind(Root)
  BY <1>1, <1>2, <1>3 DEF Behind
<1> QED BY <1>1, <1>2, <1>4, BehindBoundaryStep

LEMMA RectifyCloseStep ==
  ASSUME TypeOK, ImportInv, RectifyClose
  PROVE  TypeOK' /\ ImportInv'
<1>1. /\ Root \in Ops /\ run[Root] \in {"abandon", "join"} /\ Phase(Root)
      /\ UNCHANGED <<lane, parent, ckpt, resp, import, sent, proof, crashes>>
      /\ plan[Root].status \in Statuses
  BY RootIsOp DEF RectifyClose, ImportInv, TypeOK
<1>2. /\ Crossed(Root) /\ (run[Root] = "join" => plan[Root].outcome = "accepted")
      /\ (run[Root] = "abandon" => plan[Root].status \in {"rect", "rectified"})
      /\ (plan[Root].status = "verified" => plan[Root].outcome = "accepted")
  BY <1>1 DEF Phase, Positions
<1>3. plan[Root].status = "rectified" \/ run[Root] = "abandon" => sent.upload = 0 /\ sent.ingest = 0
  BY DEF ImportInv, OneShot
<1>4. CASE /\ plan[Root].stage = "vattempt" /\ run' = run
           /\ Move(Root, IF run[Root] = "join" THEN "verified" ELSE "rectified", "vresponse")
  <2>1. CASE run[Root] = "join"
    BY <1>1, <1>2, <1>3, <1>4, <2>1, StatusTypes, StayStep
  <2>2. CASE run[Root] = "abandon"
    BY <1>1, <1>2, <1>3, <1>4, <2>2, StatusTypes, StayStep
  <2> QED BY <1>1, <2>1, <2>2
<1>5. CASE plan[Root].stage = "vresponse" /\ Move(Root, plan[Root].status, "closed") /\ Go(Root, "idle")
  BY <1>1, <1>2, <1>3, <1>5, StatusTypes, StayStep
<1> QED BY <1>4, <1>5 DEF RectifyClose

LEMMA CrashStep ==
  ASSUME TypeOK, ImportInv, NEW op \in Ops, Crash(op)
  PROVE  TypeOK' /\ ImportInv'
<1>1. Phase(op) /\ Truth(op) /\ "idle" \in Positions
  BY StatusTypes DEF ImportInv
<1>2. /\ run' \in [Ops -> Positions] /\ run'[op] = "idle"
      /\ \A q \in Ops \ {op} : run'[q] = run[q]
  BY <1>1, GoShape DEF Crash
<1>3. resp' \in [Ops -> Receipts] /\ \A q \in Ops \ {op} : resp'[q] = resp[q]
  BY ReceiptTypes DEF Crash, TypeOK
<1>4. UNCHANGED <<lane, plan, parent, ckpt, import, sent, proof>> /\ crashes' \in 0 .. MaxCrashes
  BY ImportAssumption DEF Crash, TypeOK
<1>5. Quiet(op)
  BY <1>2, <1>3, <1>4 DEF Quiet, Local, TypeOK, PlanDocs
<1>6. Phase(op)' /\ (Admitted(op)' => Admitted(op))
  BY <1>1, <1>2, <1>4 DEF Phase, Crossed, Working, Admitted
<1>7. plan'[op].outcome = "accepted" => import = "complete"
  BY <1>1, <1>4 DEF Truth
<1>8. op = Root =>
         /\ plan'[op].status \in {"draft", "approved", "cancelled"}
              => sent.init = 0 /\ sent.upload = 0 /\ sent.ingest = 0
         /\ plan'[op].status = "rectified" => sent.upload = 0 /\ sent.ingest = 0
  BY <1>4 DEF ImportInv, OneShot
<1>9. Truth(op)' /\ (op = Root => OneShot')
  BY <1>2, <1>5, <1>7, <1>8, QuietInvariants DEF Working
<1> QED BY <1>5, <1>6, <1>9, QuietStep

\* Steps of the provider and of the governed read.
LEMMA OutsideStep ==
  ASSUME TypeOK, ImportInv, ProviderFinishes \/ PostImportProof
  PROVE  TypeOK' /\ ImportInv'
<1>1. /\ UNCHANGED <<lane, plan, parent, ckpt, run, resp, sent, crashes>>
      /\ import' \in {"none", "active", "complete", "failed"} /\ proof' \in 0 .. MaxProofs
      /\ import = "complete" => import' = "complete"
      /\ import = "none" => import' = "none"
  BY ImportAssumption DEF ProviderFinishes, PostImportProof, TypeOK
<1>2. TypeOK'
  BY <1>1 DEF TypeOK
<1>3. NoReplay' /\ OneShot'
  BY <1>1 DEF ImportInv, NoReplay, OneShot, InitRecorded, UploadRecorded
<1>4. \A op \in Ops : Phase(op)' /\ Truth(op)'
  BY <1>1 DEF ImportInv, Phase, Truth, Crossed
<1>5. \A c \in Children : Admitted(c)' => NoRival(c)'
  BY <1>1 DEF ImportInv, Admitted, NoRival, Crossed
<1> QED BY <1>2, <1>3, <1>4, <1>5 DEF ImportInv

-----------------------------------------------------------------------------
\* Requests and their receipts.

LEMMA SendStep ==
  ASSUME TypeOK, ImportInv, NEW op \in Ops,
         SendInit(op) \/ SendUpload(op) \/ SendIngest(op) \/ SendPoll(op)
  PROVE  TypeOK' /\ ImportInv'
<1> DEFINE a == resp[op].step
<1>1. /\ Phase(op) /\ Truth(op) /\ NoReplay /\ OneShot
      /\ sent \in [Mutations -> Nat]
  BY DEF ImportInv, TypeOK, Mutations
<1>2. /\ run[op] = "send" /\ a \in {"init", "upload", "ingest", "poll"}
      /\ a = "poll" => sent' = sent
      /\ a # "poll" => sent' = [sent EXCEPT ![a] = sent[a] + 1]
  BY SendShape
<1>3. PICK res \in Results :
        /\ Receive(op, res)
        /\ a \in {"ingest", "poll"} /\ res = "complete" => import' = "complete"
        /\ a \in {"init", "upload"} => res # "complete"
        /\ a # "ingest" => import' = import
        /\ import' \in {"none", "active", "complete", "failed"}
  BY SendShape
<1>4. /\ run' \in [Ops -> Positions] /\ resp' \in [Ops -> Receipts]
      /\ run'[op] = "record" /\ resp'[op].res = res
      /\ resp'[op].step = a /\ resp'[op].n = resp[op].n
      /\ \A q \in Ops \ {op} : run'[q] = run[q] /\ resp'[q] = resp[q]
      /\ UNCHANGED <<lane, plan, parent, ckpt, proof, crashes>>
  BY <1>3, ReceiveShape
<1> HIDE DEF a
<1>5. Local(op)
  BY <1>4 DEF Local, TypeOK, PlanDocs
<1>6. op \in Children => a = "poll" /\ UNCHANGED <<import, sent>>
  BY <1>1, <1>2, <1>3 DEF Phase, Working, a
<1>7. a # "poll" => op = Root /\ a \in Mutations /\ sent[a] = 0 /\ sent'[a] = 1
      /\ \A b \in Mutations \ {a} : sent'[b] = sent[b]
  <2> SUFFICES ASSUME a # "poll"
               PROVE  op = Root /\ a \in Mutations /\ sent[a] = 0 /\ sent'[a] = 1
                      /\ \A b \in Mutations \ {a} : sent'[b] = sent[b]
    OBVIOUS
  <2>1. op = Root /\ a \in Mutations
    BY <1>2, <1>6 DEF Ops, Mutations
  <2>2. sent[a] = 0
    BY <1>1, <1>2, <2>1 DEF OneShot, a
  <2> QED BY <1>1, <1>2, <2>1, <2>2
<1>8. sent' \in [Mutations -> Nat]
  BY <1>1, <1>2, <1>7
<1>9. import = "complete" => import' = "complete"
  <2>1. a = "ingest" => import = "none"
    <3> SUFFICES ASSUME a = "ingest" PROVE import = "none"
      OBVIOUS
    <3>1. sent.ingest = 0
      BY <1>7
    <3> QED BY <1>1, <3>1 DEF OneShot
  <2> QED BY <1>3, <2>1
<1>10. Phase(op)'
  BY <1>1, <1>2, <1>4 DEF Phase, Crossed, Working, Positions, a
<1>11. Truth(op)'
  BY <1>1, <1>2, <1>3, <1>4, <1>9 DEF Truth
<1>12. Admitted(op)' => Admitted(op)
  BY <1>4 DEF Admitted, Crossed
<1>13. op = Root => NoReplay' /\ OneShot'
  <2> SUFFICES ASSUME op = Root PROVE NoReplay' /\ OneShot'
    OBVIOUS
  <2>1. /\ plan'[Root] = plan[Root] /\ ckpt' = ckpt /\ plan[Root].status = "consumed"
        /\ (InitRecorded' <=> InitRecorded) /\ (UploadRecorded' <=> UploadRecorded)
    BY <1>1, <1>2, <1>4 DEF Phase, Working, InitRecorded, UploadRecorded
  <2>2. sent.init \in Nat /\ sent.upload \in Nat /\ sent.ingest \in Nat
    BY <1>1 DEF Mutations
  <2>3. CASE a = "init"
    <3>1. sent'.init = 1 /\ sent'.upload = 0 /\ sent'.ingest = 0
      BY <1>1, <1>2, <1>7, <2>3 DEF OneShot, Working, Mutations, a
    <3>2. NoReplay'
      BY <3>1 DEF NoReplay
    <3>3. import' = "none"
      BY <1>1, <1>2, <1>3, <2>3 DEF OneShot, Working, a
    <3> QED BY <1>4, <2>1, <2>3, <3>1, <3>2, <3>3 DEF OneShot, Working
  <2>4. CASE a = "upload"
    <3>1. /\ sent'.init = sent.init /\ sent'.upload = 1 /\ sent'.ingest = 0
          /\ InitRecorded /\ resp[Root].n = 0
      BY <1>1, <1>2, <1>7, <2>4 DEF OneShot, Working, Mutations, a
    <3>2. NoReplay'
      BY <1>1, <2>1, <3>1 DEF NoReplay, InitRecorded
    <3>3. import' = "none"
      BY <1>1, <1>2, <1>3, <2>4, <3>1 DEF OneShot, Working, a
    <3> QED BY <1>4, <2>1, <2>4, <3>1, <3>2, <3>3 DEF OneShot, Working
  <2>5. CASE a = "ingest"
    <3>1. /\ sent'.init = sent.init /\ sent'.upload = sent.upload /\ sent'.ingest = 1
          /\ UploadRecorded
      BY <1>1, <1>2, <1>7, <2>5 DEF OneShot, Working, Mutations, a
    <3>2. NoReplay'
      BY <1>1, <2>1, <3>1 DEF NoReplay, InitRecorded, UploadRecorded
    <3> QED BY <1>4, <2>1, <2>5, <3>1, <3>2 DEF OneShot, Working
  <2>6. CASE a = "poll"
    <3>1. sent' = sent /\ import' = import
      BY <1>2, <1>3, <2>6
    <3>2. NoReplay'
      BY <1>1, <2>1, <3>1 DEF NoReplay
    <3> QED BY <1>1, <1>4, <2>1, <2>6, <3>1, <3>2 DEF OneShot, Working
  <2> QED BY <1>2, <2>3, <2>4, <2>5, <2>6
<1> QED BY <1>3, <1>4, <1>5, <1>6, <1>8, <1>9, <1>10, <1>11, <1>12, <1>13, LocalStep

\* Durable records are never lost: every earlier checkpoint is still there
\* when one is appended or evidenced.
LEMMA RecordsKeep ==
  ASSUME TypeOK, NEW t \in Seq(Checkpoints), ckpt'[Root] = t,
         DOMAIN ckpt[Root] \subseteq DOMAIN t,
         \A i \in DOMAIN ckpt[Root] : /\ t[i].step = ckpt[Root][i].step
                                      /\ t[i].n = ckpt[Root][i].n
                                      /\ t[i].res = ckpt[Root][i].res
                                      /\ ckpt[Root][i].ev => t[i].ev
  PROVE  (InitRecorded => InitRecorded') /\ (UploadRecorded => UploadRecorded')
<1>1. InitRecorded => InitRecorded'
  BY DEF InitRecorded
<1>2. UploadRecorded => UploadRecorded'
  BY DEF UploadRecorded, IsReceipt
<1> QED BY <1>1, <1>2

\* What is left to show of a step that records a receipt.
LEMMA RecordStep ==
  ASSUME TypeOK, ImportInv, NEW op \in Ops, Local(op),
         UNCHANGED <<plan, parent, import, sent>>, run[op] \in {"record", "evidence"},
         run'[op] # "admitted", Phase(op)', Truth(op)',
         InitRecorded => InitRecorded', UploadRecorded => UploadRecorded',
         op = Root => OneShot'
  PROVE  TypeOK' /\ ImportInv'
<1>1. NoReplay'
  BY DEF ImportInv, NoReplay, InitRecorded, UploadRecorded
<1>2. Admitted(op)' => Admitted(op)
  BY DEF Admitted, Crossed
<1>3. import \in {"none", "active", "complete", "failed"} /\ sent \in [Mutations -> Nat]
  BY DEF TypeOK, Mutations
<1> QED BY <1>1, <1>2, <1>3, LocalStep

LEMMA FollowUpCases ==
  ASSUME NEW r \in Receipts, NEW f, f = FollowUp(r)
  PROVE  \/ /\ r.step = "init" /\ r.res = "ok"
            /\ f.at = "send" /\ f.next.step = "upload" /\ f.next.res = "none" /\ f.next.n = 0
         \/ /\ r.step = "upload" /\ r.res = "ok"
            /\ f.at = "send" /\ f.next.step = "ingest" /\ f.next.res = "none"
         \/ /\ r.step \in {"ingest", "poll"}
            /\ f.at = "send" /\ f.next.step = "poll" /\ f.next.res = "none"
         \/ /\ r.step = "poll"
            /\ f.at = "record" /\ f.next.step = "exhausted" /\ f.next.res = "none"
         \/ /\ r.step \in {"ingest", "poll"} /\ r.res = "complete"
            /\ f.at = "record" /\ f.next.step = "complete" /\ f.next.res = "none"
         \/ f.at = "response" /\ f.next = r
BY DEF FollowUp, Ask

\* The protocol goes on after a durable receipt: the next request is one the
\* provider has not seen, and what it rests on is recorded.
LEMMA ContinueKeeps ==
  ASSUME TypeOK, ImportInv, NEW op \in Ops, Continue(op),
         UNCHANGED <<plan, parent, import, sent>>, run[op] \in {"record", "evidence"},
         InitRecorded => InitRecorded', UploadRecorded => UploadRecorded',
         op = Root /\ resp[op].step = "init" /\ resp[op].res = "ok" => InitRecorded',
         op = Root /\ resp[op].step = "upload" /\ resp[op].res = "ok" /\ resp[op].n = 0 => UploadRecorded'
  PROVE  /\ run'[op] # "admitted" /\ Phase(op)' /\ Truth(op)'
         /\ op = Root => OneShot'
<1> DEFINE r == resp[op]
           f == FollowUp(r)
<1>1. Phase(op) /\ Truth(op) /\ OneShot /\ r \in Receipts /\ plan[op].status = "consumed"
  BY DEF ImportInv, TypeOK, Phase, Working
<1>2. run'[op] = f.at /\ resp'[op] = f.next
  BY ContinueShape
<1>3. \/ /\ r.step = "init" /\ r.res = "ok"
         /\ f.at = "send" /\ f.next.step = "upload" /\ f.next.res = "none" /\ f.next.n = 0
      \/ /\ r.step = "upload" /\ r.res = "ok"
         /\ f.at = "send" /\ f.next.step = "ingest" /\ f.next.res = "none"
      \/ /\ r.step \in {"ingest", "poll"}
         /\ f.at = "send" /\ f.next.step = "poll" /\ f.next.res = "none"
      \/ /\ r.step = "poll"
         /\ f.at = "record" /\ f.next.step = "exhausted" /\ f.next.res = "none"
      \/ /\ r.step \in {"ingest", "poll"} /\ r.res = "complete"
         /\ f.at = "record" /\ f.next.step = "complete" /\ f.next.res = "none"
      \/ f.at = "response" /\ f.next = r
  BY <1>1, FollowUpCases
<1> HIDE DEF f
<1>4. run'[op] \in {"send", "record", "response"}
  BY <1>2, <1>3
<1>5. Phase(op)'
  <2>1. op \in Children /\ run'[op] \in Working => resp'[op].step \in {"poll", "exhausted", "complete"}
    BY <1>1, <1>2, <1>3 DEF Phase, Working
  <2> QED BY <1>1, <1>4, <2>1 DEF Phase, Crossed, Working, Positions
<1>6. Truth(op)'
  <2>1. run'[op] \in Working /\ resp'[op].step = "complete" => import = "complete"
    BY <1>1, <1>2, <1>3 DEF Truth, Working
  <2>2. run'[op] \in Working => resp'[op].res = "none"
    BY <1>2, <1>3 DEF Working
  <2>3. run'[op] = "response" => resp'[op] = r
    BY <1>2, <1>3
  <2> QED BY <1>1, <1>4, <2>1, <2>2, <2>3 DEF Truth, Working
<1>7. op = Root => OneShot'
  <2> SUFFICES ASSUME op = Root PROVE OneShot'
    OBVIOUS
  <2>0. run[Root] \in Working
    BY DEF Working
  <2>1. CASE r.step = "init" /\ r.res = "ok" /\ f.at = "send" /\ f.next.step = "upload" /\ f.next.n = 0
    BY <1>1, <1>2, <2>0, <2>1 DEF OneShot, Working, Mutations
  <2>2. CASE r.step = "upload" /\ r.res = "ok" /\ f.at = "send" /\ f.next.step = "ingest"
    BY <1>1, <1>2, <2>0, <2>2 DEF OneShot, Working, Mutations
  <2>3. CASE f.next.step \notin Mutations \/ f.at = "response"
    BY <1>1, <1>2, <1>4, <2>0, <2>3 DEF OneShot, Working, Mutations
  <2> QED BY <1>3, <2>1, <2>2, <2>3 DEF Mutations
<1> QED BY <1>4, <1>5, <1>6, <1>7

LEMMA RecordCheckpointStep ==
  ASSUME TypeOK, ImportInv, NEW op \in Ops, RecordCheckpoint(op)
  PROVE  TypeOK' /\ ImportInv'
<1> DEFINE r == resp[op]
           s == ckpt[op]
           t == Append(s, Entry(r))
<1>1. /\ Phase(op) /\ Truth(op) /\ OneShot /\ r \in Receipts /\ s \in Seq(Checkpoints)
      /\ run[op] = "record" /\ Entry(r) \in Checkpoints
  BY ReceiptTypes DEF ImportInv, TypeOK, RecordCheckpoint
<1>2. /\ t \in Seq(Checkpoints) /\ Len(t) = Len(s) + 1
      /\ \A i \in 1 .. Len(s) : t[i] = s[i]
      /\ t[Len(s) + 1] = Entry(r)
  BY <1>1, AppendProperties
<1>3. /\ DOMAIN s = 1 .. Len(s) /\ DOMAIN t = 1 .. Len(s) + 1 /\ Len(s) \in Nat
      /\ t # <<>> /\ Len(t) \in DOMAIN t /\ t[Len(t)] = Entry(r)
  BY <1>1, <1>2, LenProperties, EmptySeq
<1>4. ckpt' = [ckpt EXCEPT ![op] = t] /\ UNCHANGED <<lane, plan, parent, import, sent, proof, crashes>>
  BY DEF RecordCheckpoint, Entry
<1> HIDE DEF t
<1>5. /\ ckpt' \in [Ops -> Seq(Checkpoints)] /\ ckpt'[op] = t
      /\ \A q \in Ops \ {op} : ckpt'[q] = ckpt[q]
  BY <1>2, <1>4 DEF TypeOK
<1>6. (InitRecorded => InitRecorded') /\ (UploadRecorded => UploadRecorded')
  <2>1. CASE op = Root
    BY <1>2, <1>3, <1>5, <2>1, RecordsKeep
  <2>2. CASE op # Root
    BY <1>5, <2>2, RootIsOp DEF InitRecorded, UploadRecorded
  <2> QED BY <2>1, <2>2
<1>7. CASE DurableApply(r)
  <2>1. Go(op, "evidence") /\ resp' = resp /\ "evidence" \in Positions
    BY <1>7 DEF RecordCheckpoint, Positions
  <2>2. /\ run' \in [Ops -> Positions] /\ run'[op] = "evidence"
        /\ \A q \in Ops \ {op} : run'[q] = run[q]
    BY <2>1, GoShape
  <2>3. Local(op)
    BY <1>4, <1>5, <2>1, <2>2 DEF Local, TypeOK, PlanDocs
  <2>4. Phase(op)'
    BY <1>1, <1>3, <1>4, <1>5, <2>1, <2>2 DEF Phase, Crossed, Working, Positions
  <2>5. Truth(op)'
    BY <1>1, <1>4, <2>1, <2>2 DEF Truth, Working
  <2>6. op = Root => OneShot'
    BY <1>1, <1>4, <1>6, <2>1, <2>2 DEF OneShot, Working
  <2> QED BY <1>1, <1>4, <1>6, <2>2, <2>3, <2>4, <2>5, <2>6, RecordStep
<1>8. CASE ~DurableApply(r)
  <2>1. Continue(op) /\ r.step = "init" /\ r.res = "ok"
    BY <1>8 DEF RecordCheckpoint, DurableApply
  <2>2. op = Root => InitRecorded'
    <3> SUFFICES ASSUME op = Root PROVE InitRecorded'
      OBVIOUS
    <3>1. t[Len(t)].step = "init" /\ t[Len(t)].res = "ok"
      BY <1>3, <2>1 DEF Entry
    <3> QED BY <1>3, <1>5, <3>1 DEF InitRecorded
  <2>3. Local(op)
    BY <1>4, <1>5, <2>1, ContinueShape DEF Local, TypeOK, PlanDocs
  <2>4. /\ run'[op] # "admitted" /\ Phase(op)' /\ Truth(op)'
        /\ op = Root => OneShot'
    BY <1>1, <1>4, <1>6, <2>1, <2>2, ContinueKeeps
  <2> QED BY <1>1, <1>4, <1>6, <2>3, <2>4, RecordStep
<1> QED BY <1>7, <1>8

LEMMA WriteApplyEvidenceStep ==
  ASSUME TypeOK, ImportInv, NEW op \in Ops, WriteApplyEvidence(op)
  PROVE  TypeOK' /\ ImportInv'
<1> DEFINE r == resp[op]
           s == ckpt[op]
           t == Evidenced(s)
<1>1. /\ Phase(op) /\ OneShot /\ r \in Receipts /\ s \in Seq(Checkpoints)
      /\ run[op] = "evidence" /\ Continue(op)
  BY DEF ImportInv, TypeOK, WriteApplyEvidence
<1>2. s # <<>> /\ s[Len(s)] = Entry(r)
  BY <1>1 DEF Phase
<1>3. /\ t \in Seq(Checkpoints) /\ DOMAIN t = DOMAIN s
      /\ \A i \in DOMAIN s : /\ t[i].step = s[i].step /\ t[i].n = s[i].n /\ t[i].res = s[i].res
                             /\ s[i].ev => t[i].ev
      /\ Len(s) \in DOMAIN s /\ t[Len(s)].ev
  BY <1>1, <1>2, EvidencedShape
<1>4. ckpt' = [ckpt EXCEPT ![op] = t] /\ UNCHANGED <<lane, plan, parent, import, sent, proof, crashes>>
  BY DEF WriteApplyEvidence, Evidenced
<1>5. t[Len(s)].step = r.step /\ t[Len(s)].n = r.n /\ t[Len(s)].res = r.res
  BY <1>2, <1>3 DEF Entry
<1> HIDE DEF t
<1>6. /\ ckpt' \in [Ops -> Seq(Checkpoints)] /\ ckpt'[op] = t
      /\ \A q \in Ops \ {op} : ckpt'[q] = ckpt[q]
  BY <1>3, <1>4 DEF TypeOK
<1>7. (InitRecorded => InitRecorded') /\ (UploadRecorded => UploadRecorded')
  <2>1. CASE op = Root
    BY <1>3, <1>6, <2>1, RecordsKeep
  <2>2. CASE op # Root
    BY <1>6, <2>2, RootIsOp DEF InitRecorded, UploadRecorded
  <2> QED BY <2>1, <2>2
<1>8. op = Root /\ r.step = "init" /\ r.res = "ok" => InitRecorded'
  BY <1>3, <1>5, <1>6 DEF InitRecorded
<1>9. op = Root /\ r.step = "upload" /\ r.res = "ok" /\ r.n = 0 => UploadRecorded'
  BY <1>3, <1>5, <1>6 DEF UploadRecorded, IsReceipt
<1>10. Local(op)
  BY <1>1, <1>4, <1>6, ContinueShape DEF Local, TypeOK, PlanDocs
<1>11. /\ run'[op] # "admitted" /\ Phase(op)' /\ Truth(op)'
       /\ op = Root => OneShot'
  BY <1>1, <1>4, <1>7, <1>8, <1>9, ContinueKeeps
<1> QED BY <1>1, <1>4, <1>7, <1>10, <1>11, RecordStep

-----------------------------------------------------------------------------
\* The invariant holds at the start and every step keeps it.

LEMMA ImportInit == Init => TypeOK /\ ImportInv
<1> SUFFICES ASSUME Init PROVE TypeOK /\ ImportInv
  OBVIOUS
<1>1. \A op \in Ops : /\ plan[op] \in PlanDocs /\ run[op] = "idle" /\ ckpt[op] = <<>>
                      /\ plan[op].stage = "none" /\ plan[op].outcome = "none"
                      /\ plan[op].status = IF op = Root THEN "draft" ELSE "none"
  BY DEF Init, Blank, PlanDocs, Statuses, Stages, Outcomes
<1>2. TypeOK
  <2>1. plan \in [Ops -> PlanDocs]
    BY <1>1 DEF Init
  <2>2. run \in [Ops -> Positions] /\ resp \in [Ops -> Receipts] /\ ckpt \in [Ops -> Seq(Checkpoints)]
    BY ReceiptTypes DEF Init, Positions
  <2>3. parent \in [Children -> Ops] /\ sent \in [{"init", "upload", "ingest"} -> Nat]
    BY RootIsOp DEF Init
  <2>4. proof \in 0 .. MaxProofs /\ crashes \in 0 .. MaxCrashes
    BY ImportAssumption DEF Init
  <2> QED BY <2>1, <2>2, <2>3, <2>4 DEF Init, TypeOK, PlanDocs
<1>3. NoReplay
  BY DEF Init, NoReplay
<1>4. OneShot
  BY <1>1, RootIsOp DEF Init, OneShot, Working
<1>5. \A op \in Ops : Phase(op) /\ Truth(op)
  BY <1>1 DEF Phase, Truth, Crossed, CrossedStages, Working, Ops
<1>6. \A c \in Children : ~Admitted(c)
  BY <1>1, RootIsOp DEF Admitted, Crossed, CrossedStages
<1> QED BY <1>2, <1>3, <1>4, <1>5, <1>6 DEF ImportInv

LEMMA ImportStep == TypeOK /\ ImportInv /\ [Next]_vars => TypeOK' /\ ImportInv'
<1> SUFFICES ASSUME TypeOK, ImportInv, [Next]_vars PROVE TypeOK' /\ ImportInv'
  OBVIOUS
<1>1. ASSUME NEW c \in Children, PrepareDerive(c) \/ PrepareSave(c) PROVE TypeOK' /\ ImportInv'
  BY <1>1, PrepareDeriveStep, PrepareSaveStep
<1>2. ASSUME NEW op \in Ops, Approve(op) \/ Cancel(op) \/ Crash(op) PROVE TypeOK' /\ ImportInv'
  BY <1>2, ApproveCancelStep, CrashStep
<1>3. ASSUME NEW op \in Ops, Execute(op) PROVE TypeOK' /\ ImportInv'
  <2>1. CASE RunAdmit(op) \/ Consume(op) \/ Attempt(op)
    BY <2>1, RunAdmitStep, ConsumeStep, AttemptStep
  <2>2. CASE SendInit(op) \/ SendUpload(op) \/ SendIngest(op) \/ SendPoll(op)
    BY <2>2, SendStep
  <2>3. CASE RecordCheckpoint(op) \/ WriteApplyEvidence(op) \/ PersistFails(op)
    BY <2>3, RecordCheckpointStep, WriteApplyEvidenceStep, PersistFailsStep
  <2>4. CASE PersistBoundaryResponse(op) \/ PersistSecretSink(op)
    BY <2>4, BoundaryResponseStep, SecretSinkStep
  <2>5. CASE CompletionUnproven(op) \/ AwaitProof(op) \/ VerifyStep(op)
    BY <2>5, CompletionUnprovenStep, AwaitProofStep, VerifyStepStep
  <2> QED BY <1>3, <2>1, <2>2, <2>3, <2>4, <2>5 DEF Execute
<1>4. CASE Rectify
  BY <1>4, RectifyReviewedStep, RectifyInitRecoverStep, RectifyAbandonStep, RectifyJoinStep,
     RectifyCloseStep DEF Rectify
<1>5. CASE ProviderFinishes \/ PostImportProof
  BY <1>5, OutsideStep
<1>6. CASE UNCHANGED vars
  <2>1. TypeOK'
    BY <1>6 DEF vars, TypeOK
  <2>2. NoReplay' /\ OneShot'
    BY <1>6 DEF vars, ImportInv, NoReplay, OneShot, InitRecorded, UploadRecorded
  <2>3. \A op \in Ops : Phase(op)' /\ Truth(op)'
    BY <1>6 DEF vars, ImportInv, Phase, Truth, Crossed
  <2>4. \A c \in Children : Admitted(c)' => NoRival(c)'
    BY <1>6 DEF vars, ImportInv, Admitted, NoRival, Crossed
  <2> QED BY <2>1, <2>2, <2>3, <2>4 DEF ImportInv
<1> QED BY <1>1, <1>2, <1>3, <1>4, <1>5, <1>6 DEF Next

LEMMA ImportInvariant == Spec => [](TypeOK /\ ImportInv)
BY ImportInit, ImportStep, PTL DEF Spec

\* Every state of a managed import is well typed: what the checkpoint files,
\* the plan documents and the process in memory hold stays in its domain.
THEOREM ImportTypeCorrect == Spec => []TypeOK
BY ImportInvariant, PTL

\* Init, upload and ingest reach the provider at most once each and in order,
\* however many processes crash and are rectified or continued
\* (execute_d1_approved_mln_import,
\* persist_d1_import_checkpoint).
THEOREM NoReplayHolds == Spec => []NoReplay
<1>1. ImportInv => NoReplay
  BY DEF ImportInv
<1> QED BY <1>1, ImportInvariant, PTL

\* Of the continuations that any number of preparations derived from the same
\* exhaustion, at most one crosses its boundary, because `plans run` repeats
\* the sibling check (validate_and_derive_resume_poll_authority).
THEOREM OneContinuationHolds == Spec => []OneContinuation
<1>1. ImportInv => OneContinuation
  BY DEF ImportInv, OneContinuation, NoRival, Admitted
<1> QED BY <1>1, ImportInvariant, PTL

\* A verified import was completed by the provider and a rectified one never
\* uploaded anything, whichever process or rectifier closed it.
THEOREM TerminalIsTrueHolds == Spec => []TerminalIsTrue
<1>1. TypeOK /\ ImportInv => TerminalIsTrue
  <2> SUFFICES ASSUME TypeOK, ImportInv, NEW op \in Ops
               PROVE  /\ plan[op].status = "verified" => import = "complete"
                      /\ plan[op].status = "rectified" => sent.upload = 0 /\ sent.ingest = 0
    BY DEF TerminalIsTrue
  <2>1. Phase(op) /\ Truth(op) /\ OneShot
    BY DEF ImportInv
  <2> QED BY <2>1 DEF Phase, Truth, OneShot
<1> QED BY <1>1, ImportInvariant, PTL
=============================================================================
