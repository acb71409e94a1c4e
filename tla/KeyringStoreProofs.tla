------------------------- MODULE KeyringStoreProofs -------------------------
(***************************************************************************)
(* Proofs about the keyring store, for any values, number of generations,   *)
(* chunks of a generation and faults, with items of either adapter.         *)
(***************************************************************************)
EXTENDS KeyringStore, SequenceTheorems, TLAPS

-----------------------------------------------------------------------------
\* The inductive invariant: what the stored items say, and which writes a
\* mutation has left.

\* An item of our own whose journal outlived its migration keeps it for ever.
Stuck(item) == ~item.foreign /\ item.jrn # None

Serving == {"Active", "ActiveWithPending", "ActiveWithRetiring"}
Publishing == {"PublishedNeedsRootScrub", "PublishedLegacyV1NeedsRootScrub"}
Paired == {"ActiveWithPending", "ActiveWithRetiring"}

\* Inventories as the program writes them, over the generations drawn so far.
Shape(iv, u) ==
  /\ iv.state = "DeletingLegacyV1" => iv.primary = 0 /\ iv.secondary = 0
  /\ iv.state # "DeletingLegacyV1" => iv.primary \in 1 .. u
  /\ iv.state \in Paired => iv.secondary \in 1 .. u /\ iv.secondary # iv.primary
  /\ iv.state \notin Paired => iv.secondary = 0

\* The inventory item may have been migrated only while the key was managed
\* from the start; a journal of it holds the first inventory written since.
InventoryItem(i, u) ==
  /\ i.foreign => i.pri # None /\ i.pri.state = "Active"
  /\ i.jrn # None => /\ i.jrn.state \in {"ActiveWithPending", "Deleting"} /\ Shape(i.jrn, u)
  /\ i.foreign \/ i.jrn # None => RawGet(i).state \in Serving \cup {"Deleting"}

RootItem(r) == (r.foreign => r.pri # None) /\ r.jrn \in {None, "marker"}

Named(iv, ps) ==
  \A g \in Generations : ps[g] # {} => iv # None /\ (g = iv.primary \/ g = iv.secondary)

\* The key before anything managed is published.
Unmanaged(iv) == iv = None \/ iv.state = "PreparingLegacy"

LegacyInv(iv, rt, ps) ==
  /\ ps[0] \subseteq 1 .. N
  /\ ps[0] # {} => rt = "legacy"
  /\ rt = "legacy" => iv = None \/ iv.state \in {"PreparingLegacy", "PublishedLegacyV1NeedsRootScrub", "DeletingLegacyV1"}
  /\ rt = "legacy" /\ Unmanaged(iv) => ps[0] = 1 .. N

\* The root item follows the inventory.
RootInv(iv, r) ==
  Unmanaged(iv) \/ iv.state = "DeletingLegacyV1" => RawGet(r) # "marker" /\ r.jrn = None

\* A published generation is complete; one in service is too, and the root
\* marks it, unless the journal of a finished delete brought it back.
ServedInv(i, r, ps) ==
  LET iv == RawGet(i) IN
  iv # None =>
    /\ iv.state \in Publishing => ps[iv.primary] = Parts
    /\ iv.state \in Serving =>
         \/ RawGet(r) = "marker" /\ ps[iv.primary] = Parts
         \/ Stuck(i) /\ ps[iv.primary] = {} /\ RawGet(r) = None

StoreOK(i, r, ps, u) ==
  /\ RawGet(i) # None => Shape(RawGet(i), u)
  /\ InventoryItem(i, u) /\ RootItem(r)
  /\ Named(RawGet(i), ps) /\ LegacyInv(RawGet(i), RawGet(r), ps)
  /\ RootInv(RawGet(i), r) /\ ServedInv(i, r, ps)

-----------------------------------------------------------------------------
\* The writes left, as a segment that is partly done and what follows it.

From(seg, k, rest) == SubSeq(seg, k, Len(seg)) \o rest

RootTail(p) == SetRoot \o WriteInventory("Active", p, 0)
GoneTail == DeleteRoot \o DeleteInventory
RetireTail(p, g) ==
  WriteInventory("ActiveWithRetiring", g, p) \o From(CleanupGeneration(p), 1, WriteInventory("Active", g, 0))
PublishTail(g, rt) ==
  IF rt = "legacy"
  THEN WriteInventory("PublishedLegacyV1NeedsRootScrub", g, 0) \o From(CleanupLegacyV1, 1, RootTail(g))
  ELSE WriteInventory("PublishedNeedsRootScrub", g, 0) \o RootTail(g)

\* What a clean-up that is about to make its k-th erasure may have left.
Left(k) == IF k = N + 2 THEN {} ELSE (k .. N) \cup {Manifest}

Cleaning(todo, g, rest, ps) ==
  \E k \in 1 .. N + 2 : todo = From(CleanupGeneration(g), k, rest) /\ ps[g] \subseteq Left(k)

CleaningLegacy(todo, rest, ps) ==
  \E k \in 1 .. N + 1 : todo = From(CleanupLegacyV1, k, rest) /\ ps[0] \subseteq k .. N

Staging(todo, g, rest, ps) ==
  \E k \in 1 .. N + 2 : todo = From(StageGeneration(g), k, rest) /\ ps[g] = 0 .. (k - 2)

\* The inventory decides what is left.
Settling(todo, iv, rt, ps) ==
  /\ iv # None
  /\ \/ iv.state = "Active" /\ todo = <<>>
     \/ iv.state \in Paired /\ Cleaning(todo, iv.secondary, WriteInventory("Active", iv.primary, 0), ps)
     \/ iv.state = "PublishedNeedsRootScrub" /\ todo = RootTail(iv.primary)
     \/ iv.state = "PublishedLegacyV1NeedsRootScrub" /\ CleaningLegacy(todo, RootTail(iv.primary), ps)
     \/ iv.state \in Publishing /\ rt = "marker" /\ todo = WriteInventory("Active", iv.primary, 0)
     \/ iv.state = "Deleting" /\ Cleaning(todo, iv.primary, GoneTail, ps)
     \/ iv.state = "DeletingLegacyV1" /\ CleaningLegacy(todo, GoneTail, ps)
     \/ /\ iv.state \in {"Deleting", "DeletingLegacyV1"} /\ rt = None /\ todo = DeleteInventory
        /\ iv.state = "Deleting" => ps[iv.primary] = {}

Reconciling(todo, iv, rt, ps) ==
  \/ iv = None /\ todo = <<>>
  \/ Settling(todo, iv, rt, ps)
  \/ iv # None /\ iv.state = "PreparingLegacy" /\ Cleaning(todo, iv.primary, DeleteInventory, ps)

\* A put that has not published its generation g yet.
Preparing(todo, g, iv, rt, ps) ==
  \/ /\ iv = None /\ ps[g] = {}
     /\ todo = WriteInventory("PreparingLegacy", g, 0) \o From(StageGeneration(g), 1, PublishTail(g, rt))
  \/ /\ iv # None /\ iv.state = "PreparingLegacy" /\ iv.primary = g
     /\ Staging(todo, g, PublishTail(g, rt), ps)
  \/ /\ iv # None /\ iv.state = "Active" /\ iv.primary # g /\ ps[g] = {} /\ rt = "marker"
     /\ todo = WriteInventory("ActiveWithPending", iv.primary, g)
               \o From(StageGeneration(g), 1, RetireTail(iv.primary, g))
  \/ /\ iv # None /\ iv.state = "ActiveWithPending" /\ iv.secondary = g /\ rt = "marker"
     /\ Staging(todo, g, RetireTail(iv.primary, g), ps)

\* A delete that has not recorded itself yet, or has nothing to record.
Removing(todo, iv, rt) ==
  \/ /\ iv # None /\ iv.state = "Active"
     /\ todo = WriteInventory("Deleting", iv.primary, 0) \o From(CleanupGeneration(iv.primary), 1, GoneTail)
  \/ /\ iv = None /\ rt = "legacy"
     /\ todo = WriteInventory("DeletingLegacyV1", 0, 0) \o From(CleanupLegacyV1, 1, GoneTail)
  \/ iv = None /\ rt # "legacy" /\ todo = DeleteRoot
  \/ iv = None /\ rt = None /\ todo = <<>>

Putting(o, vs, u) == o.kind = "put" /\ o.phase = "main" /\ u # 0 /\ vs[u] = o.value

\* The writes todo that the mutation o has left.
Doing(o, todo, iv, rt, ps, vs, u) ==
  \/ o.kind # "idle" /\ o.phase = "reconcile" /\ Reconciling(todo, iv, rt, ps)
  \/ Putting(o, vs, u) /\ Preparing(todo, u, iv, rt, ps)
  \/ /\ Putting(o, vs, u) /\ Settling(todo, iv, rt, ps) /\ iv.primary = u
     /\ \/ iv.state \in Publishing
        \/ iv.state \in {"Active", "ActiveWithRetiring"} /\ rt = "marker"
  \/ o.kind = "delete" /\ o.phase = "main" /\ Removing(todo, iv, rt)
  \/ /\ o.kind = "delete" /\ o.phase = "main" /\ Settling(todo, iv, rt, ps)
     /\ iv.state \in {"Deleting", "DeletingLegacyV1"}

OpOK(o, iv, rt, ps, vs, u) == o = NoOp \/ Doing(o, o.todo, iv, rt, ps, vs, u)

StoreInv == StoreOK(inv, root, parts, used)
OpInv == /\ OpOK(op, Inventory, Root, parts, val, used)
         /\ op.kind = "put" => op.value \in Values

-----------------------------------------------------------------------------
\* A write of the inventory item and one of the root item, field by field.
InvWrite(x) == [do |-> "inv", g |-> 0, part |-> 0, inv |-> x, root |-> None]
RootWrite(x) == [do |-> "root", g |-> 0, part |-> 0, inv |-> None, root |-> x]

\* While an item is migrated its journal holds the value being written; the
\* inventory is migrated only while the root marks the key.
MigInv ==
  /\ op.mig = "inv" =>
       /\ inv.jrn # None /\ Root = "marker"
       /\ inv.foreign => op.todo # <<>> /\ Head(op.todo) = InvWrite(inv.jrn)
  /\ op.mig = "root" =>
       /\ root.jrn # None
       /\ root.foreign => op.todo # <<>> /\ Head(op.todo) = RootWrite(root.jrn)

-----------------------------------------------------------------------------
\* A get: what it has read still allows only answers that were current.

Absence(s) == {"absent", "deleting"} \cap s # {}

\* The root as the get read it, or as it may still read it.
RootSeen(rt, s, vs) ==
  /\ rt = None => Absence(s)
  /\ rt = "legacy" => vs[0] \in s
  /\ rt \in Values => rt \in s

\* The inventory as the get read it, or as it may still read it in the journal.
InvSeen(iv, s, ps, vs, u, o) ==
  iv # None =>
    /\ Shape(iv, u)
    /\ iv.state \in {"Deleting", "DeletingLegacyV1"} => "deleting" \in s
    /\ iv.state \in Publishing => vs[iv.primary] \in s
    /\ iv.state \in Serving =>
         \/ vs[iv.primary] \in s
         \/ /\ ps[iv.primary] = {}
            /\ o.kind = "put" /\ o.phase = "main" => iv.primary # u

ReaderInv ==
  /\ reader.pc \notin {"idle", "done"} => Secret \in seen
  /\ reader.pc = "invJournal" =>
       /\ ~inv.foreign /\ InvSeen(inv.jrn, seen, parts, val, used, op)
       /\ inv.jrn = None => RootSeen(Root, seen, val)
  /\ reader.pc \in {"root", "rootJournal", "parts"} => InvSeen(reader.inv, seen, parts, val, used, op)
  /\ Unmanaged(reader.inv) =>
       /\ reader.pc = "root" => RootSeen(Root, seen, val)
       /\ reader.pc = "rootJournal" => Absence(seen) \/ reader.held # None
       /\ reader.pc = "parts" => RootSeen(reader.root, seen, val) \/ (reader.root = None /\ reader.held # None)
  /\ reader.pc = "done" => ReadIsCurrent

Outcome ==
  res.out = "error" =>
    res.fault \/ (Stuck(inv) /\ op.mig # "inv") \/ (Stuck(root) /\ op.mig # "root")

KeyringInv == StoreInv /\ OpInv /\ MigInv /\ ReaderInv /\ Outcome

-----------------------------------------------------------------------------
\* Lists of writes.

LEMMA Single ==
  ASSUME NEW S, NEW x \in S, NEW rest \in Seq(S)
  PROVE  /\ <<x>> \in Seq(S) /\ <<x>> \o rest \in Seq(S) /\ <<x>> \o rest # <<>>
         /\ Head(<<x>> \o rest) = x /\ Tail(<<x>> \o rest) = rest
<1> DEFINE s == <<x>> \o rest
<1>1. <<x>> \in Seq(S) /\ Len(<<x>>) = 1 /\ <<x>>[1] = x
  OBVIOUS
<1>2. s \in Seq(S) /\ Len(s) = 1 + Len(rest)
      /\ \A i \in 1 .. 1 + Len(rest) : s[i] = IF i <= 1 THEN <<x>>[i] ELSE rest[i - 1]
  BY <1>1, ConcatProperties
<1> HIDE DEF s
<1>3. Len(rest) \in Nat /\ s # <<>>
  BY <1>2, LenProperties, EmptySeq
<1>4. Head(s) = x
  BY <1>1, <1>2, <1>3
<1>5. Tail(s) \in Seq(S) /\ Len(Tail(s)) = Len(s) - 1 /\ \A i \in 1 .. Len(Tail(s)) : Tail(s)[i] = s[i + 1]
  BY <1>2, <1>3, HeadTailProperties
<1>6. Tail(s) = rest
  <2>1. Len(Tail(s)) = Len(rest)
    BY <1>2, <1>3, <1>5
  <2>2. \A i \in 1 .. Len(rest) : Tail(s)[i] = rest[i]
    BY <1>2, <1>3, <1>5, <2>1
  <2> QED BY <1>5, <2>1, <2>2, SeqEqual
<1> QED BY <1>1, <1>2, <1>3, <1>4, <1>6 DEF s

LEMMA FromStep ==
  ASSUME NEW S, NEW seg \in Seq(S), NEW rest \in Seq(S), NEW k \in 1 .. Len(seg)
  PROVE  /\ From(seg, k, rest) \in Seq(S) /\ From(seg, k, rest) # <<>>
         /\ Head(From(seg, k, rest)) = seg[k]
         /\ Tail(From(seg, k, rest)) = From(seg, k + 1, rest)
<1> DEFINE n == Len(seg)
           more == SubSeq(seg, k + 1, n)
<1>1. n \in Nat /\ k \in 1 .. n /\ n \in k .. n
  BY LenProperties
<1>2. SubSeq(seg, k, n) = <<seg[k]>> \o more
  BY <1>1, SubSeqRecursiveFirst
<1>3. seg[k] \in S /\ more \in Seq(S)
  <2>1. \A i \in k + 1 .. n : seg[i] \in S
    BY <1>1, ElementOfSeq
  <2> QED BY <1>1, <2>1, ElementOfSeq, SubSeqProperties
<1>4. From(seg, k + 1, rest) = more \o rest /\ more \o rest \in Seq(S)
  BY <1>3, ConcatProperties DEF From
<1>5. From(seg, k, rest) = <<seg[k]>> \o (more \o rest)
  <2>1. <<seg[k]>> \in Seq(S)
    BY <1>3
  <2>2. From(seg, k, rest) = (<<seg[k]>> \o more) \o rest
    BY <1>2 DEF From
  <2> HIDE DEF more, n
  <2> QED BY <1>3, <2>1, <2>2, ConcatAssociative
<1> HIDE DEF more, n
<1> QED BY <1>3, <1>4, <1>5, Single

LEMMA FromEnds ==
  ASSUME NEW S, NEW seg \in Seq(S), NEW rest \in Seq(S)
  PROVE  From(seg, 1, rest) = seg \o rest /\ From(seg, Len(seg) + 1, rest) = rest
<1>1. Len(seg) \in Nat
  BY LenProperties
<1>2. SubSeq(seg, 1, Len(seg)) = seg
  BY SubSeqFull
<1>3. SubSeq(seg, Len(seg) + 1, Len(seg)) = <<>>
  BY <1>1, SubSeqEmpty
<1> QED BY <1>2, <1>3, ConcatEmptySeq DEF From

LEMMA Bounds ==
  /\ MaxGen \in Nat /\ N \in Nat /\ N > 0 /\ MaxFaults \in Nat
  /\ 0 \in 0 .. MaxGen /\ Generations \subseteq 0 .. MaxGen
  /\ 0 \in Parts /\ \A k \in 1 .. N : k \in Parts
  /\ None \notin Values /\ None # "marker" /\ None # "legacy" /\ None \notin Inventories
  /\ Values \cap {"absent", "deleting", "idle", "marker", "legacy", "error"} = {}
BY KeyringAssumption, NoInventory DEF Generations, Parts

\* The writes themselves, field by field.
Entry(state, p, s) == [state |-> state, primary |-> p, secondary |-> s]
PartWrite(d, g, k) == [do |-> d, g |-> g, part |-> k, inv |-> None, root |-> None]

LEMMA EntryType ==
  ASSUME NEW state \in InventoryStates, NEW p \in 0 .. MaxGen, NEW s \in 0 .. MaxGen
  PROVE  /\ Entry(state, p, s) \in Inventories /\ Entry(state, p, s) # None
         /\ Entry(state, p, s).state = state
         /\ Entry(state, p, s).primary = p /\ Entry(state, p, s).secondary = s
BY Bounds DEF Entry, Inventories

LEMMA InvWriteType ==
  ASSUME NEW x \in Inventories \cup {None}
  PROVE  InvWrite(x) \in Todo /\ InvWrite(x).do = "inv" /\ InvWrite(x).inv = x
BY Bounds DEF InvWrite, Todo

LEMMA RootWriteType ==
  ASSUME NEW x \in {"marker", None}
  PROVE  RootWrite(x) \in Todo /\ RootWrite(x).do = "root" /\ RootWrite(x).root = x
BY Bounds DEF RootWrite, Todo

LEMMA PartWriteType ==
  ASSUME NEW d \in {"write", "erase"}, NEW g \in 0 .. MaxGen, NEW k \in Parts
  PROVE  /\ PartWrite(d, g, k) \in Todo /\ PartWrite(d, g, k).do = d
         /\ PartWrite(d, g, k).g = g /\ PartWrite(d, g, k).part = k
BY Bounds DEF PartWrite, Todo

LEMMA Writes ==
  /\ \A state, p, s : WriteInventory(state, p, s) = <<InvWrite(Entry(state, p, s))>>
  /\ DeleteInventory = <<InvWrite(None)>>
  /\ SetRoot = <<RootWrite("marker")>> /\ DeleteRoot = <<RootWrite(None)>>
<1>1. Blank = [do |-> "inv", g |-> 0, part |-> 0, inv |-> None, root |-> None]
  BY DEF Blank
<1>2. \A x : [Blank EXCEPT !.inv = x] = InvWrite(x)
  BY <1>1 DEF InvWrite
<1>3. [Blank EXCEPT !.do = "root", !.root = "marker"] = RootWrite("marker")
  <2> DEFINE b1 == [Blank EXCEPT !.do = "root"]
  <2>1. b1 = [do |-> "root", g |-> 0, part |-> 0, inv |-> None, root |-> None]
    BY <1>1
  <2>2. [Blank EXCEPT !.do = "root", !.root = "marker"] = [b1 EXCEPT !.root = "marker"]
    BY <1>1
  <2> HIDE DEF b1
  <2>3. [b1 EXCEPT !.root = "marker"] = RootWrite("marker")
    BY <2>1 DEF RootWrite
  <2> QED BY <2>2, <2>3
<1>4. [Blank EXCEPT !.do = "root"] = RootWrite(None)
  BY <1>1 DEF RootWrite
<1>5. Blank = InvWrite(None)
  BY <1>1 DEF InvWrite
<1> QED BY <1>2, <1>3, <1>4, <1>5 DEF WriteInventory, DeleteInventory, SetRoot, DeleteRoot, Entry

LEMMA Segments ==
  /\ \A g : StageGeneration(g) = [k \in 1 .. N + 1 |-> PartWrite("write", g, k - 1)]
  /\ \A g : CleanupGeneration(g) =
              [k \in 1 .. N + 1 |-> PartWrite("erase", g, IF k <= N THEN k ELSE Manifest)]
  /\ CleanupLegacyV1 = [k \in 1 .. N |-> PartWrite("erase", 0, k)]
<1>1. Blank = [do |-> "inv", g |-> 0, part |-> 0, inv |-> None, root |-> None]
  BY DEF Blank
<1>2. \A d, g, k : [Blank EXCEPT !.do = d, !.g = g, !.part = k] = PartWrite(d, g, k)
  <2> TAKE d, g, k
  <2> DEFINE b1 == [Blank EXCEPT !.do = d]
             b2 == [b1 EXCEPT !.g = g]
  <2>1. b1 = [do |-> d, g |-> 0, part |-> 0, inv |-> None, root |-> None]
    BY <1>1
  <2>2. [Blank EXCEPT !.do = d, !.g = g, !.part = k] = [b2 EXCEPT !.part = k]
    BY <1>1
  <2> HIDE DEF b1
  <2>3. b2 = [do |-> d, g |-> g, part |-> 0, inv |-> None, root |-> None]
    BY <2>1
  <2> HIDE DEF b2
  <2>4. [b2 EXCEPT !.part = k] = PartWrite(d, g, k)
    BY <2>3 DEF PartWrite
  <2> QED BY <2>2, <2>4
<1>3. \A k : [Blank EXCEPT !.do = "erase", !.part = k] = PartWrite("erase", 0, k)
  <2> TAKE k
  <2> DEFINE b1 == [Blank EXCEPT !.do = "erase"]
  <2>1. b1 = [do |-> "erase", g |-> 0, part |-> 0, inv |-> None, root |-> None]
    BY <1>1
  <2>2. [Blank EXCEPT !.do = "erase", !.part = k] = [b1 EXCEPT !.part = k]
    BY <1>1
  <2> HIDE DEF b1
  <2>3. [b1 EXCEPT !.part = k] = PartWrite("erase", 0, k)
    BY <2>1 DEF PartWrite
  <2> QED BY <2>2, <2>3
<1> QED BY <1>2, <1>3 DEF StageGeneration, CleanupGeneration, CleanupLegacyV1

LEMMA StageType ==
  ASSUME NEW g \in 0 .. MaxGen
  PROVE  /\ StageGeneration(g) \in Seq(Todo) /\ Len(StageGeneration(g)) = N + 1
         /\ \A k \in 1 .. N + 1 : k - 1 \in Parts /\ StageGeneration(g)[k] = PartWrite("write", g, k - 1)
<1>1. N \in Nat /\ \A k \in 1 .. N + 1 : k - 1 \in Parts
  BY Bounds DEF Parts
<1>2. \A k \in 1 .. N + 1 : PartWrite("write", g, k - 1) \in Todo
  BY <1>1, PartWriteType
<1>3. StageGeneration(g) = [k \in 1 .. N + 1 |-> PartWrite("write", g, k - 1)]
  BY Segments
<1> QED BY <1>1, <1>2, <1>3

LEMMA CleanupType ==
  ASSUME NEW g \in 0 .. MaxGen
  PROVE  /\ CleanupGeneration(g) \in Seq(Todo) /\ Len(CleanupGeneration(g)) = N + 1
         /\ \A k \in 1 .. N : k \in Parts /\ CleanupGeneration(g)[k] = PartWrite("erase", g, k)
         /\ CleanupGeneration(g)[N + 1] = PartWrite("erase", g, 0)
<1> DEFINE P(k) == IF k <= N THEN k ELSE Manifest
           C(k) == PartWrite("erase", g, P(k))
<1>1. /\ N \in Nat /\ \A k \in 1 .. N + 1 : P(k) \in Parts
      /\ P(N + 1) = 0 /\ \A k \in 1 .. N : P(k) = k /\ k \in Parts
  BY Bounds DEF Parts, Manifest
<1>2. CleanupGeneration(g) = [k \in 1 .. N + 1 |-> C(k)]
  BY Segments
<1> HIDE DEF P
<1>3. \A k \in 1 .. N + 1 : C(k) \in Todo
  BY <1>1, PartWriteType
<1>4. (\A k \in 1 .. N : C(k) = PartWrite("erase", g, k)) /\ C(N + 1) = PartWrite("erase", g, 0)
  BY <1>1
<1> HIDE DEF C
<1>5. CleanupGeneration(g) \in Seq(Todo) /\ Len(CleanupGeneration(g)) = N + 1
  BY <1>1, <1>2, <1>3
<1>6. \A k \in 1 .. N + 1 : CleanupGeneration(g)[k] = C(k)
  BY <1>2
<1> QED BY <1>1, <1>4, <1>5, <1>6

LEMMA LegacyType ==
  /\ CleanupLegacyV1 \in Seq(Todo) /\ Len(CleanupLegacyV1) = N
  /\ \A k \in 1 .. N : k \in Parts /\ CleanupLegacyV1[k] = PartWrite("erase", 0, k)
<1>1. N \in Nat /\ \A k \in 1 .. N : PartWrite("erase", 0, k) \in Todo
  BY Bounds, PartWriteType
<1>2. CleanupLegacyV1 = [k \in 1 .. N |-> PartWrite("erase", 0, k)]
  BY Segments
<1> QED BY <1>1, <1>2, Bounds

LEMMA InvList ==
  ASSUME NEW x \in Inventories \cup {None}, NEW rest \in Seq(Todo)
  PROVE  /\ <<InvWrite(x)>> \in Seq(Todo) /\ <<InvWrite(x)>> # <<>>
         /\ Head(<<InvWrite(x)>>) = InvWrite(x) /\ Tail(<<InvWrite(x)>>) = <<>>
         /\ <<InvWrite(x)>> \o rest \in Seq(Todo) /\ <<InvWrite(x)>> \o rest # <<>>
         /\ Head(<<InvWrite(x)>> \o rest) = InvWrite(x) /\ Tail(<<InvWrite(x)>> \o rest) = rest
<1>1. InvWrite(x) \in Todo
  BY InvWriteType
<1>2. /\ <<InvWrite(x)>> \in Seq(Todo) /\ <<InvWrite(x)>> # <<>>
      /\ Head(<<InvWrite(x)>>) = InvWrite(x) /\ Tail(<<InvWrite(x)>>) = <<>>
  BY <1>1
<1> QED BY <1>1, <1>2, Single

LEMMA RootList ==
  ASSUME NEW x \in {"marker", None}, NEW rest \in Seq(Todo)
  PROVE  /\ <<RootWrite(x)>> \in Seq(Todo) /\ <<RootWrite(x)>> # <<>>
         /\ Head(<<RootWrite(x)>>) = RootWrite(x) /\ Tail(<<RootWrite(x)>>) = <<>>
         /\ <<RootWrite(x)>> \o rest \in Seq(Todo) /\ <<RootWrite(x)>> \o rest # <<>>
         /\ Head(<<RootWrite(x)>> \o rest) = RootWrite(x) /\ Tail(<<RootWrite(x)>> \o rest) = rest
<1>1. RootWrite(x) \in Todo
  BY RootWriteType
<1>2. /\ <<RootWrite(x)>> \in Seq(Todo) /\ <<RootWrite(x)>> # <<>>
      /\ Head(<<RootWrite(x)>>) = RootWrite(x) /\ Tail(<<RootWrite(x)>>) = <<>>
  BY <1>1
<1> QED BY <1>1, <1>2, Single

\* A clean-up is done, or erases one part more.
LEMMA CleaningHead ==
  ASSUME NEW g \in 0 .. MaxGen, NEW rest \in Seq(Todo), NEW todo, NEW ps,
         Cleaning(todo, g, rest, ps)
  PROVE  \/ todo = rest /\ ps[g] = {}
         \/ /\ todo \in Seq(Todo) /\ todo # <<>> /\ Tail(todo) \in Seq(Todo)
            /\ \E k \in Parts : /\ Head(todo) = PartWrite("erase", g, k)
                                /\ \A ps2 : ps2[g] = ps[g] \ {k} => Cleaning(Tail(todo), g, rest, ps2)
<1> DEFINE seg == CleanupGeneration(g)
<1>1. PICK k \in 1 .. N + 2 : todo = From(seg, k, rest) /\ ps[g] \subseteq Left(k)
  BY DEF Cleaning
<1>2. /\ seg \in Seq(Todo) /\ Len(seg) = N + 1 /\ N \in Nat
      /\ \A j \in 1 .. N : j \in Parts /\ seg[j] = PartWrite("erase", g, j)
      /\ seg[N + 1] = PartWrite("erase", g, 0) /\ 0 \in Parts
  BY CleanupType, Bounds
<1> HIDE DEF seg
<1>3. CASE k = N + 2
  <2>1. todo = rest
    BY <1>1, <1>2, <1>3, FromEnds
  <2> QED BY <1>1, <1>3, <2>1 DEF Left
<1>4. CASE k \in 1 .. N + 1
  <2> DEFINE j == IF k <= N THEN k ELSE 0
  <2>1. /\ todo \in Seq(Todo) /\ todo # <<>> /\ Head(todo) = seg[k]
        /\ Tail(todo) = From(seg, k + 1, rest)
    <3>1. k \in 1 .. Len(seg) /\ seg \in Seq(Todo) /\ rest \in Seq(Todo)
      BY <1>2, <1>4
    <3> QED BY <1>1, <3>1, FromStep
  <2>2. j \in Parts /\ seg[k] = PartWrite("erase", g, j) /\ k + 1 \in 1 .. N + 2
    BY <1>2, <1>4
  <2>3. Left(k) \ {j} \subseteq Left(k + 1)
    <3>1. CASE k <= N
      BY <1>2, <1>4, <3>1 DEF Left, Manifest
    <3>2. CASE k = N + 1
      BY <1>2, <1>4, <3>2 DEF Left, Manifest
    <3> QED BY <1>2, <1>4, <3>1, <3>2
  <2>4. Tail(todo) \in Seq(Todo)
    BY <2>1
  <2> HIDE DEF j
  <2>5. \A ps2 : ps2[g] = ps[g] \ {j} => Cleaning(Tail(todo), g, rest, ps2)
    BY <1>1, <2>1, <2>2, <2>3 DEF Cleaning, seg
  <2> QED BY <2>1, <2>2, <2>4, <2>5
<1> QED BY <1>2, <1>3, <1>4

LEMMA LegacyHead ==
  ASSUME NEW rest \in Seq(Todo), NEW todo, NEW ps, CleaningLegacy(todo, rest, ps)
  PROVE  \/ todo = rest /\ ps[0] = {}
         \/ /\ todo \in Seq(Todo) /\ todo # <<>> /\ Tail(todo) \in Seq(Todo)
            /\ \E k \in Parts : /\ Head(todo) = PartWrite("erase", 0, k)
                                /\ \A ps2 : ps2[0] = ps[0] \ {k} => CleaningLegacy(Tail(todo), rest, ps2)
<1> DEFINE seg == CleanupLegacyV1
<1>1. PICK k \in 1 .. N + 1 : todo = From(seg, k, rest) /\ ps[0] \subseteq k .. N
  BY DEF CleaningLegacy
<1>2. /\ seg \in Seq(Todo) /\ Len(seg) = N /\ N \in Nat
      /\ \A j \in 1 .. N : j \in Parts /\ seg[j] = PartWrite("erase", 0, j)
  BY LegacyType, Bounds
<1> HIDE DEF seg
<1>3. CASE k = N + 1
  <2>1. todo = rest
    BY <1>1, <1>2, <1>3, FromEnds
  <2>2. k .. N = {}
    BY <1>2, <1>3
  <2> QED BY <1>1, <2>1, <2>2
<1>4. CASE k \in 1 .. N
  <2>1. /\ todo \in Seq(Todo) /\ todo # <<>> /\ Head(todo) = seg[k]
        /\ Tail(todo) = From(seg, k + 1, rest)
    <3>1. k \in 1 .. Len(seg) /\ seg \in Seq(Todo) /\ rest \in Seq(Todo)
      BY <1>2, <1>4
    <3> QED BY <1>1, <3>1, FromStep
  <2>2. k \in Parts /\ seg[k] = PartWrite("erase", 0, k) /\ k + 1 \in 1 .. N + 1
    BY <1>2, <1>4
  <2>3. (k .. N) \ {k} \subseteq (k + 1) .. N
    BY <1>2, <1>4
  <2>4. Tail(todo) \in Seq(Todo)
    BY <2>1
  <2>5. \A ps2 : ps2[0] = ps[0] \ {k} => CleaningLegacy(Tail(todo), rest, ps2)
    BY <1>1, <2>1, <2>2, <2>3 DEF CleaningLegacy, seg
  <2> QED BY <2>1, <2>2, <2>4, <2>5
<1> QED BY <1>2, <1>3, <1>4

LEMMA StagingHead ==
  ASSUME NEW g \in 0 .. MaxGen, NEW rest \in Seq(Todo), NEW todo, NEW ps,
         Staging(todo, g, rest, ps)
  PROVE  \/ todo = rest /\ ps[g] = Parts
         \/ /\ todo \in Seq(Todo) /\ todo # <<>> /\ Tail(todo) \in Seq(Todo)
            /\ \E k \in Parts : /\ Head(todo) = PartWrite("write", g, k)
                                /\ \A ps2 : ps2[g] = ps[g] \cup {k} => Staging(Tail(todo), g, rest, ps2)
<1> DEFINE seg == StageGeneration(g)
<1>1. PICK k \in 1 .. N + 2 : todo = From(seg, k, rest) /\ ps[g] = 0 .. (k - 2)
  BY DEF Staging
<1>2. /\ seg \in Seq(Todo) /\ Len(seg) = N + 1 /\ N \in Nat
      /\ \A j \in 1 .. N + 1 : j - 1 \in Parts /\ seg[j] = PartWrite("write", g, j - 1)
  BY StageType, Bounds
<1> HIDE DEF seg
<1>3. CASE k = N + 2
  <2>1. todo = rest
    BY <1>1, <1>2, <1>3, FromEnds
  <2> QED BY <1>1, <1>2, <1>3, <2>1 DEF Parts
<1>4. CASE k \in 1 .. N + 1
  <2>1. /\ todo \in Seq(Todo) /\ todo # <<>> /\ Head(todo) = seg[k]
        /\ Tail(todo) = From(seg, k + 1, rest)
    <3>1. seg \in Seq(Todo) /\ k \in 1 .. Len(seg)
      BY <1>2, <1>4
    <3>2. todo = From(seg, k, rest)
      BY <1>1
    <3> QED BY <3>1, <3>2, FromStep
  <2>2. k - 1 \in Parts /\ seg[k] = PartWrite("write", g, k - 1) /\ k + 1 \in 1 .. N + 2
    BY <1>2, <1>4
  <2>3. (0 .. (k - 2)) \cup {k - 1} = 0 .. ((k + 1) - 2)
    BY <1>2, <1>4
  <2>4. Tail(todo) \in Seq(Todo)
    BY <2>1
  <2>5. \A ps2 : ps2[g] = ps[g] \cup {k - 1} => Staging(Tail(todo), g, rest, ps2)
    BY <1>1, <2>1, <2>2, <2>3 DEF Staging, seg
  <2> QED BY <2>1, <2>2, <2>4, <2>5
<1> QED BY <1>2, <1>3, <1>4

\* What follows a segment, and its first write.
LEMMA TailTypes ==
  ASSUME NEW p \in 0 .. MaxGen, NEW g \in 0 .. MaxGen, NEW rt
  PROVE  /\ WriteInventory("Active", p, 0) \in Seq(Todo) /\ WriteInventory("Active", p, 0) # <<>>
         /\ Head(WriteInventory("Active", p, 0)) = InvWrite(Entry("Active", p, 0))
         /\ Tail(WriteInventory("Active", p, 0)) = <<>>
         /\ RootTail(p) \in Seq(Todo) /\ RootTail(p) # <<>>
         /\ Head(RootTail(p)) = RootWrite("marker") /\ Tail(RootTail(p)) = WriteInventory("Active", p, 0)
         /\ DeleteInventory \in Seq(Todo) /\ DeleteInventory # <<>>
         /\ Head(DeleteInventory) = InvWrite(None) /\ Tail(DeleteInventory) = <<>>
         /\ GoneTail \in Seq(Todo) /\ GoneTail # <<>>
         /\ Head(GoneTail) = RootWrite(None) /\ Tail(GoneTail) = DeleteInventory
<1>1. Entry("Active", p, 0) \in Inventories
  BY EntryType, Bounds DEF InventoryStates
<1>2. /\ WriteInventory("Active", p, 0) = <<InvWrite(Entry("Active", p, 0))>>
      /\ DeleteInventory = <<InvWrite(None)>> /\ <<>> \in Seq(Todo)
  BY Writes
<1>3. /\ WriteInventory("Active", p, 0) \in Seq(Todo) /\ WriteInventory("Active", p, 0) # <<>>
      /\ Head(WriteInventory("Active", p, 0)) = InvWrite(Entry("Active", p, 0))
      /\ Tail(WriteInventory("Active", p, 0)) = <<>>
  BY <1>1, <1>2, InvList
<1>4. /\ DeleteInventory \in Seq(Todo) /\ DeleteInventory # <<>>
      /\ Head(DeleteInventory) = InvWrite(None) /\ Tail(DeleteInventory) = <<>>
  BY <1>2, InvList
<1>5. RootTail(p) = <<RootWrite("marker")>> \o WriteInventory("Active", p, 0)
  BY Writes DEF RootTail
<1>6. GoneTail = <<RootWrite(None)>> \o DeleteInventory
  BY Writes DEF GoneTail
<1>7. /\ RootTail(p) \in Seq(Todo) /\ RootTail(p) # <<>>
      /\ Head(RootTail(p)) = RootWrite("marker") /\ Tail(RootTail(p)) = WriteInventory("Active", p, 0)
  BY <1>3, <1>5, RootList
<1>8. /\ GoneTail \in Seq(Todo) /\ GoneTail # <<>>
      /\ Head(GoneTail) = RootWrite(None) /\ Tail(GoneTail) = DeleteInventory
  BY <1>4, <1>6, RootList
<1> QED BY <1>3, <1>4, <1>7, <1>8

LEMMA FromTypes ==
  ASSUME NEW g \in 0 .. MaxGen, NEW rest \in Seq(Todo)
  PROVE  /\ From(CleanupGeneration(g), 1, rest) \in Seq(Todo)
         /\ From(StageGeneration(g), 1, rest) \in Seq(Todo)
         /\ From(CleanupLegacyV1, 1, rest) \in Seq(Todo)
         /\ From(CleanupGeneration(g), 1, rest) = CleanupGeneration(g) \o rest
         /\ From(StageGeneration(g), 1, rest) = StageGeneration(g) \o rest
         /\ From(CleanupLegacyV1, 1, rest) = CleanupLegacyV1 \o rest
<1>1. CleanupGeneration(g) \in Seq(Todo) /\ StageGeneration(g) \in Seq(Todo) /\ CleanupLegacyV1 \in Seq(Todo)
  BY CleanupType, StageType, LegacyType
<1>2. /\ From(CleanupGeneration(g), 1, rest) = CleanupGeneration(g) \o rest
      /\ From(StageGeneration(g), 1, rest) = StageGeneration(g) \o rest
      /\ From(CleanupLegacyV1, 1, rest) = CleanupLegacyV1 \o rest
  BY <1>1, FromEnds
<1> QED BY <1>1, <1>2, ConcatProperties

LEMMA PutTails ==
  ASSUME NEW p \in 0 .. MaxGen, NEW g \in 0 .. MaxGen, NEW rt
  PROVE  /\ RetireTail(p, g) \in Seq(Todo) /\ RetireTail(p, g) # <<>>
         /\ Head(RetireTail(p, g)) = InvWrite(Entry("ActiveWithRetiring", g, p))
         /\ Tail(RetireTail(p, g)) = From(CleanupGeneration(p), 1, WriteInventory("Active", g, 0))
         /\ PublishTail(g, rt) \in Seq(Todo) /\ PublishTail(g, rt) # <<>>
         /\ rt = "legacy" =>
              /\ Head(PublishTail(g, rt)) = InvWrite(Entry("PublishedLegacyV1NeedsRootScrub", g, 0))
              /\ Tail(PublishTail(g, rt)) = From(CleanupLegacyV1, 1, RootTail(g))
         /\ rt # "legacy" =>
              /\ Head(PublishTail(g, rt)) = InvWrite(Entry("PublishedNeedsRootScrub", g, 0))
              /\ Tail(PublishTail(g, rt)) = RootTail(g)
<1>1. /\ Entry("ActiveWithRetiring", g, p) \in Inventories
      /\ Entry("PublishedLegacyV1NeedsRootScrub", g, 0) \in Inventories
      /\ Entry("PublishedNeedsRootScrub", g, 0) \in Inventories
  BY EntryType, Bounds DEF InventoryStates
<1>2. WriteInventory("Active", g, 0) \in Seq(Todo) /\ RootTail(g) \in Seq(Todo)
  BY TailTypes
<1>3. /\ From(CleanupGeneration(p), 1, WriteInventory("Active", g, 0)) \in Seq(Todo)
      /\ From(CleanupLegacyV1, 1, RootTail(g)) \in Seq(Todo)
  BY <1>2, FromTypes
<1>4. /\ RetireTail(p, g) \in Seq(Todo) /\ RetireTail(p, g) # <<>>
      /\ Head(RetireTail(p, g)) = InvWrite(Entry("ActiveWithRetiring", g, p))
      /\ Tail(RetireTail(p, g)) = From(CleanupGeneration(p), 1, WriteInventory("Active", g, 0))
  <2>1. RetireTail(p, g) = <<InvWrite(Entry("ActiveWithRetiring", g, p))>>
                           \o From(CleanupGeneration(p), 1, WriteInventory("Active", g, 0))
    BY Writes DEF RetireTail
  <2> QED BY <1>1, <1>3, <2>1, InvList
<1>5. CASE rt = "legacy"
  <2>1. PublishTail(g, rt) = <<InvWrite(Entry("PublishedLegacyV1NeedsRootScrub", g, 0))>>
                             \o From(CleanupLegacyV1, 1, RootTail(g))
    BY <1>5, Writes DEF PublishTail
  <2> QED BY <1>1, <1>3, <1>4, <1>5, <2>1, InvList
<1>6. CASE rt # "legacy"
  <2>1. PublishTail(g, rt) = <<InvWrite(Entry("PublishedNeedsRootScrub", g, 0))>> \o RootTail(g)
    BY <1>6, Writes DEF PublishTail
  <2> QED BY <1>1, <1>2, <1>4, <1>6, <2>1, InvList
<1> QED BY <1>5, <1>6

-----------------------------------------------------------------------------
\* The writes a mutation may make next, by what they do to the key.

\* Writes of the inventory, from iv to x.
Announce(iv, x, ps, u) == iv = None /\ x = Entry("PreparingLegacy", u, 0) /\ ps[u] = {}
Publish(iv, x, rt, ps, u) ==
  /\ iv # None /\ iv.state = "PreparingLegacy" /\ iv.primary = u /\ ps[u] = Parts
  /\ \/ rt = "legacy" /\ x = Entry("PublishedLegacyV1NeedsRootScrub", u, 0)
     \/ rt # "legacy" /\ x = Entry("PublishedNeedsRootScrub", u, 0)
Pend(iv, x, rt, ps, u) ==
  /\ iv # None /\ iv.state = "Active" /\ iv.primary # u /\ ps[u] = {} /\ rt = "marker"
  /\ x = Entry("ActiveWithPending", iv.primary, u)
Retire(iv, x, rt, ps, u) ==
  /\ iv # None /\ iv.state = "ActiveWithPending" /\ iv.secondary = u /\ ps[u] = Parts
  /\ rt = "marker" /\ x = Entry("ActiveWithRetiring", u, iv.primary)
Activate(iv, x, rt) ==
  iv # None /\ iv.state \in Publishing /\ rt = "marker" /\ x = Entry("Active", iv.primary, 0)
Settle(iv, x, ps) ==
  /\ iv # None /\ iv.state \in Paired /\ ps[iv.secondary] = {}
  /\ x = Entry("Active", iv.primary, 0)
Forget(iv, x, ps) == iv # None /\ iv.state = "PreparingLegacy" /\ ps[iv.primary] = {} /\ x = None
MarkDelete(iv, x) == iv # None /\ iv.state = "Active" /\ x = Entry("Deleting", iv.primary, 0)
MarkLegacy(iv, x, rt) == iv = None /\ rt = "legacy" /\ x = Entry("DeletingLegacyV1", 0, 0)
Gone(iv, x, rt, ps) ==
  /\ iv # None /\ iv.state \in {"Deleting", "DeletingLegacyV1"} /\ rt = None /\ x = None
  /\ iv.state = "Deleting" => ps[iv.primary] = {}

InvMove(o, iv, x, rt, ps, vs, u) ==
  \/ /\ Putting(o, vs, u)
     /\ Announce(iv, x, ps, u) \/ Publish(iv, x, rt, ps, u) \/ Pend(iv, x, rt, ps, u) \/ Retire(iv, x, rt, ps, u)
  \/ Activate(iv, x, rt) \/ Settle(iv, x, ps) \/ Forget(iv, x, ps) \/ Gone(iv, x, rt, ps)
  \/ o.kind = "delete" /\ (MarkDelete(iv, x) \/ MarkLegacy(iv, x, rt))

\* Writes of the root: the marker once the legacy chunks are gone, and none.
Scrub(iv, x, ps) == iv # None /\ iv.state \in Publishing /\ ps[0] = {} /\ x = "marker"
DropRoot(iv, x, ps) ==
  /\ iv # None /\ x = None
  /\ \/ iv.state = "Deleting" /\ ps[iv.primary] = {}
     \/ iv.state = "DeletingLegacyV1" /\ ps[0] = {}
DropUnmanaged(iv, x, rt) == iv = None /\ rt # "legacy" /\ x = None

RootMove(o, iv, x, rt, ps) ==
  \/ Scrub(iv, x, ps) \/ DropRoot(iv, x, ps)
  \/ o.kind = "delete" /\ DropUnmanaged(iv, x, rt)

\* Writes of a part of generation g.
StageMove(iv, g, u) ==
  /\ iv # None /\ g = u
  /\ \/ iv.state = "PreparingLegacy" /\ iv.primary = u
     \/ iv.state = "ActiveWithPending" /\ iv.secondary = u
EraseMove(iv, g) ==
  /\ iv # None
  /\ \/ g = 0 /\ iv.state \in {"PublishedLegacyV1NeedsRootScrub", "DeletingLegacyV1"}
     \/ g = iv.secondary /\ iv.state \in Paired
     \/ g = iv.primary /\ iv.state \in {"PreparingLegacy", "Deleting"}

PartMove(o, iv, d, g, vs, u) ==
  \/ d = "write" /\ Putting(o, vs, u) /\ StageMove(iv, g, u)
  \/ d = "erase" /\ EraseMove(iv, g)

\* The set of parts after a write or an erasure.
After(d, s, k) == IF d = "write" THEN s \cup {k} ELSE s \ {k}

Advances(o, todo, iv, rt, ps, vs, u) ==
  /\ todo # <<>> /\ Tail(todo) \in Seq(Todo)
  /\ \/ \E x \in Inventories \cup {None} :
          /\ Head(todo) = InvWrite(x) /\ InvMove(o, iv, x, rt, ps, vs, u)
          /\ Doing(o, Tail(todo), x, rt, ps, vs, u)
     \/ \E x \in {"marker", None} :
          /\ Head(todo) = RootWrite(x) /\ RootMove(o, iv, x, rt, ps)
          /\ Doing(o, Tail(todo), iv, x, ps, vs, u)
     \/ \E d \in {"write", "erase"}, g \in 0 .. MaxGen, k \in Parts :
          /\ Head(todo) = PartWrite(d, g, k) /\ PartMove(o, iv, d, g, vs, u)
          /\ \A ps2 : ps2[g] = After(d, ps[g], k) => Doing(o, Tail(todo), iv, rt, ps2, vs, u)

\* The same for the writes that settle the key.
SettlesInv(todo, iv, rt, ps, x) ==
  /\ Head(todo) = InvWrite(x) /\ (Activate(iv, x, rt) \/ Settle(iv, x, ps))
  /\ x # None /\ x.state = "Active" /\ x.primary = iv.primary /\ Tail(todo) = <<>>
SettlesGone(todo, iv, rt, ps) ==
  Head(todo) = InvWrite(None) /\ Gone(iv, None, rt, ps) /\ Tail(todo) = <<>>
SettlesRoot(todo, iv, ps, x) ==
  /\ Head(todo) = RootWrite(x) /\ (Scrub(iv, x, ps) \/ DropRoot(iv, x, ps))
  /\ Settling(Tail(todo), iv, x, ps)
SettlesPart(todo, iv, rt, ps, g, k) ==
  /\ Head(todo) = PartWrite("erase", g, k) /\ EraseMove(iv, g)
  /\ \A ps2 : ps2[g] = After("erase", ps[g], k) => Settling(Tail(todo), iv, rt, ps2)

Settles(todo, iv, rt, ps) ==
  /\ todo # <<>> /\ Tail(todo) \in Seq(Todo)
  /\ \/ \E x \in Inventories : SettlesInv(todo, iv, rt, ps, x)
     \/ SettlesGone(todo, iv, rt, ps)
     \/ \E x \in {"marker", None} : SettlesRoot(todo, iv, ps, x)
     \/ \E g \in 0 .. MaxGen, k \in Parts : SettlesPart(todo, iv, rt, ps, g, k)

LEMMA ShapeRange ==
  ASSUME NEW iv \in Inventories, NEW u \in 0 .. MaxGen, Shape(iv, u)
  PROVE  /\ iv.primary \in 0 .. MaxGen /\ iv.secondary \in 0 .. MaxGen /\ iv # None
         /\ iv.state \in InventoryStates
         /\ iv.state # "DeletingLegacyV1" => iv.primary \in Generations
         /\ iv.state \in Paired => iv.secondary \in Generations
BY Bounds DEF Shape, Inventories, Generations

LEMMA SettlingAdvances ==
  ASSUME NEW iv \in Inventories, NEW rt, NEW ps, NEW u \in 0 .. MaxGen, NEW todo,
         Shape(iv, u), LegacyInv(iv, rt, ps), Settling(todo, iv, rt, ps), todo # <<>>
  PROVE  Settles(todo, iv, rt, ps)
<1> DEFINE p == iv.primary
           a == Entry("Active", p, 0)
<1>0. /\ p \in 0 .. MaxGen /\ iv.secondary \in 0 .. MaxGen /\ iv # None /\ 0 \in 0 .. MaxGen
      /\ iv.state \in InventoryStates
  BY ShapeRange, Bounds
<1>1. /\ a \in Inventories /\ a # None /\ a.state = "Active" /\ a.primary = p
  BY <1>0, EntryType DEF InventoryStates
<1>2. /\ WriteInventory("Active", p, 0) \in Seq(Todo) /\ WriteInventory("Active", p, 0) # <<>>
      /\ Head(WriteInventory("Active", p, 0)) = InvWrite(a)
      /\ Tail(WriteInventory("Active", p, 0)) = <<>> /\ <<>> \in Seq(Todo)
  <2>1. <<>> \in Seq(Todo)
    OBVIOUS
  <2> QED BY <1>0, <2>1, TailTypes
<1>3. /\ RootTail(p) \in Seq(Todo) /\ RootTail(p) # <<>>
      /\ Head(RootTail(p)) = RootWrite("marker") /\ Tail(RootTail(p)) = WriteInventory("Active", p, 0)
  BY <1>0, TailTypes
<1>4. /\ DeleteInventory \in Seq(Todo) /\ DeleteInventory # <<>>
      /\ Head(DeleteInventory) = InvWrite(None) /\ Tail(DeleteInventory) = <<>>
      /\ GoneTail \in Seq(Todo) /\ GoneTail # <<>>
      /\ Head(GoneTail) = RootWrite(None) /\ Tail(GoneTail) = DeleteInventory
  BY <1>0, TailTypes
<1> HIDE DEF p, a
<1>5. CASE iv.state \in Paired /\ Cleaning(todo, iv.secondary, WriteInventory("Active", p, 0), ps)
  <2>1. CASE todo = WriteInventory("Active", p, 0) /\ ps[iv.secondary] = {}
    <3>1. Settle(iv, a, ps)
      BY <1>0, <1>5, <2>1 DEF Settle, a, p
    <3> QED BY <1>1, <1>2, <2>1, <3>1 DEF Settles, SettlesInv, p
  <2>2. CASE /\ todo # <<>> /\ Tail(todo) \in Seq(Todo)
             /\ \E k \in Parts : /\ Head(todo) = PartWrite("erase", iv.secondary, k)
                                 /\ \A ps2 : ps2[iv.secondary] = ps[iv.secondary] \ {k} =>
                                      Cleaning(Tail(todo), iv.secondary, WriteInventory("Active", p, 0), ps2)
    <3>1. PICK k \in Parts : /\ Head(todo) = PartWrite("erase", iv.secondary, k)
                             /\ \A ps2 : ps2[iv.secondary] = ps[iv.secondary] \ {k} =>
                                  Cleaning(Tail(todo), iv.secondary, WriteInventory("Active", p, 0), ps2)
      BY <2>2
    <3>2. \A ps2 : ps2[iv.secondary] = After("erase", ps[iv.secondary], k) => Settling(Tail(todo), iv, rt, ps2)
      BY <1>0, <1>5, <3>1 DEF Settling, After, p
    <3>3. EraseMove(iv, iv.secondary)
      BY <1>0, <1>5 DEF EraseMove
    <3> QED BY <1>0, <2>2, <3>1, <3>2, <3>3 DEF Settles, SettlesInv, SettlesGone, SettlesRoot, SettlesPart
  <2> QED BY <1>0, <1>2, <1>5, <2>1, <2>2, CleaningHead
<1>6. CASE iv.state = "PublishedNeedsRootScrub" /\ todo = RootTail(p)
  <2>1. ps[0] = {} /\ iv.state \in Publishing
    BY <1>6, <1>0 DEF LegacyInv, Publishing
  <2>2. Scrub(iv, "marker", ps) /\ Settling(Tail(todo), iv, "marker", ps)
    BY <1>0, <1>3, <1>6, <2>1 DEF Scrub, Settling, p
  <2> QED BY <1>2, <1>3, <1>6, <2>2 DEF Settles, SettlesInv, SettlesGone, SettlesRoot, SettlesPart
<1>7. CASE iv.state = "PublishedLegacyV1NeedsRootScrub" /\ CleaningLegacy(todo, RootTail(p), ps)
  <2>1. CASE todo = RootTail(p) /\ ps[0] = {}
    <3>1. Scrub(iv, "marker", ps) /\ Settling(Tail(todo), iv, "marker", ps)
      BY <1>0, <1>3, <1>7, <2>1 DEF Scrub, Settling, Publishing, p
    <3> QED BY <1>2, <1>3, <2>1, <3>1 DEF Settles, SettlesInv, SettlesGone, SettlesRoot, SettlesPart
  <2>2. CASE /\ todo # <<>> /\ Tail(todo) \in Seq(Todo)
             /\ \E k \in Parts : /\ Head(todo) = PartWrite("erase", 0, k)
                                 /\ \A ps2 : ps2[0] = ps[0] \ {k} => CleaningLegacy(Tail(todo), RootTail(p), ps2)
    <3>1. PICK k \in Parts : /\ Head(todo) = PartWrite("erase", 0, k)
                             /\ \A ps2 : ps2[0] = ps[0] \ {k} => CleaningLegacy(Tail(todo), RootTail(p), ps2)
      BY <2>2
    <3>2. \A ps2 : ps2[0] = After("erase", ps[0], k) => Settling(Tail(todo), iv, rt, ps2)
      BY <1>0, <1>7, <3>1 DEF Settling, After, p
    <3>3. EraseMove(iv, 0)
      BY <1>0, <1>7 DEF EraseMove
    <3> QED BY <1>0, <2>2, <3>1, <3>2, <3>3 DEF Settles, SettlesInv, SettlesGone, SettlesRoot, SettlesPart
  <2> QED BY <1>3, <1>7, <2>1, <2>2, LegacyHead
<1>8. CASE iv.state \in Publishing /\ rt = "marker" /\ todo = WriteInventory("Active", p, 0)
  <2>1. Activate(iv, a, rt)
    BY <1>0, <1>8 DEF Activate, a, p
  <2> QED BY <1>1, <1>2, <1>8, <2>1 DEF Settles, SettlesInv, p
<1>9. CASE iv.state = "Deleting" /\ Cleaning(todo, p, GoneTail, ps)
  <2>1. CASE todo = GoneTail /\ ps[p] = {}
    <3>1. DropRoot(iv, None, ps) /\ Settling(Tail(todo), iv, None, ps)
      BY <1>0, <1>4, <1>9, <2>1 DEF DropRoot, Settling, p
    <3> QED BY <1>4, <2>1, <3>1 DEF Settles, SettlesInv, SettlesGone, SettlesRoot, SettlesPart
  <2>2. CASE /\ todo # <<>> /\ Tail(todo) \in Seq(Todo)
             /\ \E k \in Parts : /\ Head(todo) = PartWrite("erase", p, k)
                                 /\ \A ps2 : ps2[p] = ps[p] \ {k} => Cleaning(Tail(todo), p, GoneTail, ps2)
    <3>1. PICK k \in Parts : /\ Head(todo) = PartWrite("erase", p, k)
                             /\ \A ps2 : ps2[p] = ps[p] \ {k} => Cleaning(Tail(todo), p, GoneTail, ps2)
      BY <2>2
    <3>2. \A ps2 : ps2[p] = After("erase", ps[p], k) => Settling(Tail(todo), iv, rt, ps2)
      BY <1>0, <1>9, <3>1 DEF Settling, After, p
    <3>3. EraseMove(iv, p)
      BY <1>0, <1>9 DEF EraseMove, p
    <3> QED BY <1>0, <2>2, <3>1, <3>2, <3>3 DEF Settles, SettlesInv, SettlesGone, SettlesRoot, SettlesPart
  <2>3. p \in 0 .. MaxGen /\ GoneTail \in Seq(Todo) /\ Cleaning(todo, p, GoneTail, ps)
    BY <1>0, <1>4, <1>9
  <2>4. \/ todo = GoneTail /\ ps[p] = {}
        \/ /\ todo # <<>> /\ Tail(todo) \in Seq(Todo)
           /\ \E k \in Parts : /\ Head(todo) = PartWrite("erase", p, k)
                               /\ \A ps2 : ps2[p] = ps[p] \ {k} => Cleaning(Tail(todo), p, GoneTail, ps2)
    BY <2>3, CleaningHead
  <2> QED BY <2>1, <2>2, <2>4
<1>10. CASE iv.state = "DeletingLegacyV1" /\ CleaningLegacy(todo, GoneTail, ps)
  <2>1. CASE todo = GoneTail /\ ps[0] = {}
    <3>1. DropRoot(iv, None, ps) /\ Settling(Tail(todo), iv, None, ps)
      BY <1>0, <1>4, <1>10, <2>1 DEF DropRoot, Settling
    <3> QED BY <1>4, <2>1, <3>1 DEF Settles, SettlesInv, SettlesGone, SettlesRoot, SettlesPart
  <2>2. CASE /\ todo # <<>> /\ Tail(todo) \in Seq(Todo)
             /\ \E k \in Parts : /\ Head(todo) = PartWrite("erase", 0, k)
                                 /\ \A ps2 : ps2[0] = ps[0] \ {k} => CleaningLegacy(Tail(todo), GoneTail, ps2)
    <3>1. PICK k \in Parts : /\ Head(todo) = PartWrite("erase", 0, k)
                             /\ \A ps2 : ps2[0] = ps[0] \ {k} => CleaningLegacy(Tail(todo), GoneTail, ps2)
      BY <2>2
    <3>2. \A ps2 : ps2[0] = After("erase", ps[0], k) => Settling(Tail(todo), iv, rt, ps2)
      BY <1>0, <1>10, <3>1 DEF Settling, After
    <3>3. EraseMove(iv, 0)
      BY <1>0, <1>10 DEF EraseMove
    <3> QED BY <1>0, <2>2, <3>1, <3>2, <3>3 DEF Settles, SettlesInv, SettlesGone, SettlesRoot, SettlesPart
  <2> QED BY <1>4, <1>10, <2>1, <2>2, LegacyHead
<1>11. CASE /\ iv.state \in {"Deleting", "DeletingLegacyV1"} /\ rt = None /\ todo = DeleteInventory
            /\ iv.state = "Deleting" => ps[p] = {}
  <2>1. Gone(iv, None, rt, ps)
    BY <1>0, <1>11 DEF Gone, p
  <2> QED BY <1>2, <1>4, <1>11, <2>1 DEF Settles, SettlesInv, SettlesGone, SettlesRoot, SettlesPart
<1> QED BY <1>5, <1>6, <1>7, <1>8, <1>9, <1>10, <1>11 DEF Settling, p

LEMMA Starts ==
  ASSUME NEW g \in 0 .. MaxGen, NEW rest, NEW ps
  PROVE  /\ ps[g] \subseteq Parts => Cleaning(From(CleanupGeneration(g), 1, rest), g, rest, ps)
         /\ ps[0] \subseteq 1 .. N => CleaningLegacy(From(CleanupLegacyV1, 1, rest), rest, ps)
         /\ ps[g] = {} => Staging(From(StageGeneration(g), 1, rest), g, rest, ps)
<1>1. N \in Nat /\ 1 \in 1 .. N + 2 /\ 1 \in 1 .. N + 1 /\ Left(1) = Parts /\ 0 .. (1 - 2) = {}
  <2>1. N \in Nat /\ N > 0 /\ 1 # N + 2
    BY Bounds
  <2>2. (1 .. N) \cup {0} = 0 .. N /\ 0 .. (1 - 2) = {}
    BY <2>1
  <2>3. Left(1) = Parts
    BY <2>1, <2>2 DEF Left, Parts, Manifest
  <2> QED BY <2>1, <2>2, <2>3
<1>2. ps[g] \subseteq Parts => Cleaning(From(CleanupGeneration(g), 1, rest), g, rest, ps)
  BY <1>1 DEF Cleaning
<1>3. ps[0] \subseteq 1 .. N => CleaningLegacy(From(CleanupLegacyV1, 1, rest), rest, ps)
  BY <1>1 DEF CleaningLegacy
<1>4. ps[g] = {} => Staging(From(StageGeneration(g), 1, rest), g, rest, ps)
  BY <1>1 DEF Staging
<1> QED BY <1>2, <1>3, <1>4

\* A mutation that reconciles goes on reconciling.
LEMMA ReconcileAdvances ==
  ASSUME NEW o, NEW iv \in Inventories \cup {None}, NEW rt, NEW ps, NEW vs, NEW u \in 0 .. MaxGen, NEW todo,
         iv # None => Shape(iv, u), LegacyInv(iv, rt, ps), todo # <<>>,
         o.kind # "idle", o.phase = "reconcile", Reconciling(todo, iv, rt, ps)
  PROVE  Advances(o, todo, iv, rt, ps, vs, u)
<1>0. iv # None /\ iv \in Inventories /\ iv.primary \in 0 .. MaxGen /\ None \in Inventories \cup {None}
  <2>1. iv # None
    BY DEF Reconciling, Settling
  <2> QED BY <2>1, ShapeRange
<1>1. \A td, v, r, s : Reconciling(td, v, r, s) => Doing(o, td, v, r, s, vs, u)
  BY DEF Doing
<1>2. CASE Settling(todo, iv, rt, ps)
  <2>1. Settles(todo, iv, rt, ps)
    BY <1>0, <1>2, SettlingAdvances
  <2>2. todo # <<>> /\ Tail(todo) \in Seq(Todo)
    BY <2>1 DEF Settles
  <2>3. ASSUME NEW x \in Inventories, SettlesInv(todo, iv, rt, ps, x)
        PROVE  Advances(o, todo, iv, rt, ps, vs, u)
    <3>1. Reconciling(Tail(todo), x, rt, ps)
      BY <2>3 DEF Reconciling, Settling, SettlesInv
    <3>2. InvMove(o, iv, x, rt, ps, vs, u)
      BY <2>3 DEF InvMove, SettlesInv
    <3>3. Head(todo) = InvWrite(x)
      BY <2>3 DEF SettlesInv
    <3> QED BY <1>1, <2>2, <3>1, <3>2, <3>3 DEF Advances
  <2>4. ASSUME SettlesGone(todo, iv, rt, ps)
        PROVE  Advances(o, todo, iv, rt, ps, vs, u)
    <3>1. Reconciling(Tail(todo), None, rt, ps)
      BY <2>4 DEF Reconciling, SettlesGone
    <3>2. InvMove(o, iv, None, rt, ps, vs, u)
      BY <2>4 DEF InvMove, SettlesGone
    <3> QED BY <1>0, <1>1, <2>2, <2>4, <3>1, <3>2 DEF Advances, SettlesGone
  <2>5. ASSUME NEW x \in {"marker", None}, SettlesRoot(todo, iv, ps, x)
        PROVE  Advances(o, todo, iv, rt, ps, vs, u)
    <3>1. Reconciling(Tail(todo), iv, x, ps)
      BY <2>5 DEF Reconciling, SettlesRoot
    <3>2. RootMove(o, iv, x, rt, ps)
      BY <2>5 DEF RootMove, SettlesRoot
    <3>3. Head(todo) = RootWrite(x)
      BY <2>5 DEF SettlesRoot
    <3> QED BY <1>1, <2>2, <3>1, <3>2, <3>3 DEF Advances
  <2>6. ASSUME NEW g \in 0 .. MaxGen, NEW k \in Parts, SettlesPart(todo, iv, rt, ps, g, k)
        PROVE  Advances(o, todo, iv, rt, ps, vs, u)
    <3>1. \A ps2 : ps2[g] = After("erase", ps[g], k) => Doing(o, Tail(todo), iv, rt, ps2, vs, u)
      BY <1>1, <2>6 DEF Reconciling, SettlesPart
    <3>2. PartMove(o, iv, "erase", g, vs, u)
      BY <2>6 DEF PartMove, SettlesPart
    <3> QED BY <2>2, <2>6, <3>1, <3>2 DEF Advances, SettlesPart
  <2> QED BY <2>1, <2>3, <2>4, <2>5, <2>6 DEF Settles
<1>3. CASE iv.state = "PreparingLegacy" /\ Cleaning(todo, iv.primary, DeleteInventory, ps)
  <2>1. /\ DeleteInventory \in Seq(Todo) /\ DeleteInventory # <<>>
        /\ Head(DeleteInventory) = InvWrite(None) /\ Tail(DeleteInventory) = <<>>
    BY <1>0, TailTypes
  <2>2. CASE todo = DeleteInventory /\ ps[iv.primary] = {}
    <3>1. InvMove(o, iv, None, rt, ps, vs, u)
      BY <1>0, <1>3, <2>2 DEF InvMove, Forget
    <3>2. Reconciling(Tail(todo), None, rt, ps)
      BY <2>1, <2>2 DEF Reconciling
    <3>3. Tail(todo) \in Seq(Todo)
      BY <2>1, <2>2
    <3> QED BY <1>0, <1>1, <2>1, <2>2, <3>1, <3>2, <3>3 DEF Advances
  <2>3. CASE /\ todo # <<>> /\ Tail(todo) \in Seq(Todo)
             /\ \E k \in Parts : /\ Head(todo) = PartWrite("erase", iv.primary, k)
                                 /\ \A ps2 : ps2[iv.primary] = ps[iv.primary] \ {k} =>
                                      Cleaning(Tail(todo), iv.primary, DeleteInventory, ps2)
    <3>1. PICK k \in Parts : /\ Head(todo) = PartWrite("erase", iv.primary, k)
                             /\ \A ps2 : ps2[iv.primary] = ps[iv.primary] \ {k} =>
                                  Cleaning(Tail(todo), iv.primary, DeleteInventory, ps2)
      BY <2>3
    <3>2. \A ps2 : ps2[iv.primary] = After("erase", ps[iv.primary], k) => Doing(o, Tail(todo), iv, rt, ps2, vs, u)
      BY <1>0, <1>1, <1>3, <3>1 DEF Reconciling, After
    <3>3. PartMove(o, iv, "erase", iv.primary, vs, u)
      BY <1>0, <1>3 DEF PartMove, EraseMove
    <3> QED BY <1>0, <2>3, <3>1, <3>2, <3>3 DEF Advances
  <2> QED BY <1>0, <1>3, <2>1, <2>2, <2>3, CleaningHead
<1> QED BY <1>0, <1>2, <1>3 DEF Reconciling

\* A put that has published its generation.
LEMMA PublishedAdvances ==
  ASSUME NEW o, NEW iv \in Inventories \cup {None}, NEW rt, NEW ps, NEW vs, NEW u \in 0 .. MaxGen, NEW todo,
         iv # None => Shape(iv, u), LegacyInv(iv, rt, ps), todo # <<>>,
         Putting(o, vs, u), Settling(todo, iv, rt, ps), iv.primary = u,
         \/ iv.state \in Publishing
         \/ iv.state \in {"Active", "ActiveWithRetiring"} /\ rt = "marker"
  PROVE  Advances(o, todo, iv, rt, ps, vs, u)
<1>0. iv # None /\ iv \in Inventories
  BY DEF Settling
<1>1. Settles(todo, iv, rt, ps)
  BY <1>0, SettlingAdvances
<1>2. todo # <<>> /\ Tail(todo) \in Seq(Todo)
  BY <1>1 DEF Settles
<1>3. ASSUME NEW x \in Inventories, SettlesInv(todo, iv, rt, ps, x)
      PROVE  Advances(o, todo, iv, rt, ps, vs, u)
  <2>1. Settling(Tail(todo), x, rt, ps)
    BY <1>3 DEF Settling, SettlesInv
  <2>2. rt = "marker"
    BY <1>3 DEF Activate, Settle, Paired, Publishing, SettlesInv
  <2>3. Doing(o, Tail(todo), x, rt, ps, vs, u)
    BY <1>3, <2>1, <2>2 DEF Doing, SettlesInv
  <2>4. InvMove(o, iv, x, rt, ps, vs, u)
    BY <1>3 DEF InvMove, SettlesInv
  <2>5. Head(todo) = InvWrite(x)
    BY <1>3 DEF SettlesInv
  <2> QED BY <1>2, <2>3, <2>4, <2>5 DEF Advances
<1>4. ~SettlesGone(todo, iv, rt, ps)
  BY DEF SettlesGone, Gone, Publishing
<1>5. ASSUME NEW x \in {"marker", None}, SettlesRoot(todo, iv, ps, x)
      PROVE  Advances(o, todo, iv, rt, ps, vs, u)
  <2>1. iv.state \in Publishing
    BY <1>5 DEF Scrub, DropRoot, Publishing, SettlesRoot
  <2>2. Doing(o, Tail(todo), iv, x, ps, vs, u)
    BY <1>5, <2>1 DEF Doing, SettlesRoot
  <2>3. RootMove(o, iv, x, rt, ps)
    BY <1>5 DEF RootMove, SettlesRoot
  <2>4. Head(todo) = RootWrite(x)
    BY <1>5 DEF SettlesRoot
  <2> QED BY <1>2, <2>2, <2>3, <2>4 DEF Advances
<1>6. ASSUME NEW g \in 0 .. MaxGen, NEW k \in Parts, SettlesPart(todo, iv, rt, ps, g, k)
      PROVE  Advances(o, todo, iv, rt, ps, vs, u)
  <2>1. \A ps2 : ps2[g] = After("erase", ps[g], k) => Doing(o, Tail(todo), iv, rt, ps2, vs, u)
    BY <1>6 DEF Doing, SettlesPart
  <2>2. PartMove(o, iv, "erase", g, vs, u)
    BY <1>6 DEF PartMove, SettlesPart
  <2> QED BY <1>2, <1>6, <2>1, <2>2 DEF Advances, SettlesPart
<1> QED BY <1>1, <1>3, <1>4, <1>5, <1>6 DEF Settles

\* A delete that has recorded itself.
LEMMA DeletingAdvances ==
  ASSUME NEW o, NEW iv \in Inventories \cup {None}, NEW rt, NEW ps, NEW vs, NEW u \in 0 .. MaxGen, NEW todo,
         iv # None => Shape(iv, u), LegacyInv(iv, rt, ps), todo # <<>>,
         o.kind = "delete", o.phase = "main", Settling(todo, iv, rt, ps),
         iv.state \in {"Deleting", "DeletingLegacyV1"}
  PROVE  Advances(o, todo, iv, rt, ps, vs, u)
<1>0. iv # None /\ iv \in Inventories /\ None \in Inventories \cup {None}
  BY DEF Settling
<1>1. Settles(todo, iv, rt, ps)
  BY <1>0, SettlingAdvances
<1>2. todo # <<>> /\ Tail(todo) \in Seq(Todo)
  BY <1>1 DEF Settles
<1>3. \A x : ~SettlesInv(todo, iv, rt, ps, x)
  BY DEF SettlesInv, Activate, Settle, Publishing, Paired
<1>4. ASSUME SettlesGone(todo, iv, rt, ps)
      PROVE  Advances(o, todo, iv, rt, ps, vs, u)
  <2>1. Doing(o, Tail(todo), None, rt, ps, vs, u)
    BY <1>4 DEF Doing, Removing, Gone, SettlesGone
  <2>2. InvMove(o, iv, None, rt, ps, vs, u)
    BY <1>4 DEF InvMove, SettlesGone
  <2> QED BY <1>0, <1>2, <1>4, <2>1, <2>2 DEF Advances, SettlesGone
<1>5. ASSUME NEW x \in {"marker", None}, SettlesRoot(todo, iv, ps, x)
      PROVE  Advances(o, todo, iv, rt, ps, vs, u)
  <2>1. Doing(o, Tail(todo), iv, x, ps, vs, u)
    BY <1>5 DEF Doing, SettlesRoot
  <2>2. RootMove(o, iv, x, rt, ps)
    BY <1>5 DEF RootMove, SettlesRoot
  <2>3. Head(todo) = RootWrite(x)
    BY <1>5 DEF SettlesRoot
  <2> QED BY <1>2, <2>1, <2>2, <2>3 DEF Advances
<1>6. ASSUME NEW g \in 0 .. MaxGen, NEW k \in Parts, SettlesPart(todo, iv, rt, ps, g, k)
      PROVE  Advances(o, todo, iv, rt, ps, vs, u)
  <2>1. \A ps2 : ps2[g] = After("erase", ps[g], k) => Doing(o, Tail(todo), iv, rt, ps2, vs, u)
    BY <1>6 DEF Doing, SettlesPart
  <2>2. PartMove(o, iv, "erase", g, vs, u)
    BY <1>6 DEF PartMove, SettlesPart
  <2> QED BY <1>2, <1>6, <2>1, <2>2 DEF Advances, SettlesPart
<1> QED BY <1>1, <1>3, <1>4, <1>5, <1>6 DEF Settles

LEMMA RemovingAdvances ==
  ASSUME NEW o, NEW iv \in Inventories \cup {None}, NEW rt, NEW ps \in [0 .. MaxGen -> SUBSET Parts], NEW vs,
         NEW u \in 0 .. MaxGen, NEW todo,
         iv # None => Shape(iv, u), LegacyInv(iv, rt, ps), todo # <<>>,
         o.kind = "delete", o.phase = "main", Removing(todo, iv, rt)
  PROVE  Advances(o, todo, iv, rt, ps, vs, u)
<1>0. GoneTail \in Seq(Todo) /\ 0 \in 0 .. MaxGen
  BY Bounds, TailTypes
<1>1. CASE /\ iv # None /\ iv.state = "Active"
           /\ todo = WriteInventory("Deleting", iv.primary, 0) \o From(CleanupGeneration(iv.primary), 1, GoneTail)
  <2> DEFINE p == iv.primary
             x == Entry("Deleting", p, 0)
             rest == From(CleanupGeneration(p), 1, GoneTail)
  <2>0. p \in 0 .. MaxGen /\ ps[p] \subseteq Parts
    BY <1>1, ShapeRange
  <2>1. x \in Inventories /\ x # None /\ x.state = "Deleting" /\ x.primary = p
    BY <2>0, <1>0, EntryType DEF InventoryStates
  <2>2. rest \in Seq(Todo) /\ Cleaning(rest, p, GoneTail, ps)
    BY <1>0, <2>0, FromTypes, Starts
  <2>3. todo = <<InvWrite(x)>> \o rest
    BY <1>1, Writes
  <2>4. MarkDelete(iv, x)
    BY <1>1 DEF MarkDelete
  <2> HIDE DEF x, rest, p
  <2>5. Head(todo) = InvWrite(x) /\ Tail(todo) = rest
    BY <2>1, <2>2, <2>3, InvList
  <2>6. Doing(o, Tail(todo), x, rt, ps, vs, u)
    BY <2>1, <2>2, <2>5 DEF Doing, Settling
  <2>7. InvMove(o, iv, x, rt, ps, vs, u)
    BY <2>4 DEF InvMove
  <2> QED BY <2>1, <2>2, <2>5, <2>6, <2>7 DEF Advances
<1>2. CASE /\ iv = None /\ rt = "legacy"
           /\ todo = WriteInventory("DeletingLegacyV1", 0, 0) \o From(CleanupLegacyV1, 1, GoneTail)
  <2> DEFINE x == Entry("DeletingLegacyV1", 0, 0)
             rest == From(CleanupLegacyV1, 1, GoneTail)
  <2>1. x \in Inventories /\ x # None /\ x.state = "DeletingLegacyV1"
    BY <1>0, EntryType DEF InventoryStates
  <2>2. rest \in Seq(Todo) /\ CleaningLegacy(rest, GoneTail, ps)
    BY <1>0, FromTypes, Starts DEF LegacyInv
  <2>3. todo = <<InvWrite(x)>> \o rest
    BY <1>2, Writes
  <2>4. MarkLegacy(iv, x, rt)
    BY <1>2 DEF MarkLegacy
  <2> HIDE DEF x, rest
  <2>5. Head(todo) = InvWrite(x) /\ Tail(todo) = rest
    BY <2>1, <2>2, <2>3, InvList
  <2>6. Doing(o, Tail(todo), x, rt, ps, vs, u)
    BY <2>1, <2>2, <2>5 DEF Doing, Settling
  <2>7. InvMove(o, iv, x, rt, ps, vs, u)
    BY <2>4 DEF InvMove
  <2> QED BY <2>1, <2>2, <2>5, <2>6, <2>7 DEF Advances
<1>3. CASE iv = None /\ rt # "legacy" /\ todo = DeleteRoot
  <2>1. todo = <<RootWrite(None)>> /\ <<>> \in Seq(Todo)
    BY <1>3, Writes
  <2>2. Head(todo) = RootWrite(None) /\ Tail(todo) = <<>>
    BY <2>1, RootList
  <2>3. Doing(o, Tail(todo), iv, None, ps, vs, u)
    BY <1>3, <2>2 DEF Doing, Removing
  <2>4. RootMove(o, iv, None, rt, ps)
    BY <1>3 DEF RootMove, DropUnmanaged
  <2> QED BY <2>1, <2>2, <2>3, <2>4 DEF Advances
<1> QED BY <1>1, <1>2, <1>3 DEF Removing

\* A put that has not published yet.
LEMMA PreparingAdvances ==
  ASSUME NEW o, NEW iv \in Inventories \cup {None}, NEW rt, NEW ps \in [0 .. MaxGen -> SUBSET Parts], NEW vs,
         NEW u \in 0 .. MaxGen, NEW todo,
         iv # None => Shape(iv, u), LegacyInv(iv, rt, ps), todo # <<>>,
         Putting(o, vs, u), Preparing(todo, u, iv, rt, ps)
  PROVE  Advances(o, todo, iv, rt, ps, vs, u)
<1>0. 0 \in 0 .. MaxGen
  BY Bounds
<1>1. CASE /\ iv = None /\ ps[u] = {}
           /\ todo = WriteInventory("PreparingLegacy", u, 0) \o From(StageGeneration(u), 1, PublishTail(u, rt))
  <2> DEFINE x == Entry("PreparingLegacy", u, 0)
             rest == From(StageGeneration(u), 1, PublishTail(u, rt))
  <2>1. x \in Inventories /\ x # None /\ x.state = "PreparingLegacy" /\ x.primary = u
    BY <1>0, EntryType DEF InventoryStates
  <2>2. PublishTail(u, rt) \in Seq(Todo)
    BY PutTails
  <2>3. rest \in Seq(Todo) /\ Staging(rest, u, PublishTail(u, rt), ps)
    BY <1>1, <2>2, FromTypes, Starts
  <2>4. todo = <<InvWrite(x)>> \o rest
    BY <1>1, Writes
  <2>5. InvMove(o, iv, x, rt, ps, vs, u)
    BY <1>1 DEF InvMove, Announce
  <2> HIDE DEF x, rest
  <2>6. Head(todo) = InvWrite(x) /\ Tail(todo) = rest
    BY <2>1, <2>3, <2>4, InvList
  <2>7. Doing(o, Tail(todo), x, rt, ps, vs, u)
    BY <2>1, <2>3, <2>6 DEF Doing, Preparing
  <2> QED BY <2>1, <2>3, <2>5, <2>6, <2>7 DEF Advances
<1>2. CASE /\ iv # None /\ iv.state = "PreparingLegacy" /\ iv.primary = u
           /\ Staging(todo, u, PublishTail(u, rt), ps)
  <2> DEFINE state == IF rt = "legacy" THEN "PublishedLegacyV1NeedsRootScrub" ELSE "PublishedNeedsRootScrub"
             x == Entry(state, u, 0)
  <2>1. /\ PublishTail(u, rt) \in Seq(Todo) /\ Head(PublishTail(u, rt)) = InvWrite(x)
        /\ rt = "legacy" => Tail(PublishTail(u, rt)) = From(CleanupLegacyV1, 1, RootTail(u))
        /\ rt # "legacy" => Tail(PublishTail(u, rt)) = RootTail(u)
        /\ Tail(PublishTail(u, rt)) \in Seq(Todo)
    <3>1. RootTail(u) \in Seq(Todo)
      BY TailTypes
    <3>2. From(CleanupLegacyV1, 1, RootTail(u)) \in Seq(Todo)
      BY <3>1, FromTypes
    <3> QED BY <3>1, <3>2, PutTails
  <2>2. state \in InventoryStates /\ state \in Publishing
    BY DEF InventoryStates, Publishing
  <2>3. x \in Inventories /\ x # None /\ x.state = state /\ x.primary = u
    BY <1>0, <2>2, EntryType
  <2>4. CASE todo = PublishTail(u, rt) /\ ps[u] = Parts
    <3>1. InvMove(o, iv, x, rt, ps, vs, u)
      BY <1>2, <2>4 DEF InvMove, Publish
    <3>2. Settling(Tail(todo), x, rt, ps)
      <4>1. CASE rt = "legacy"
        <5>1. CleaningLegacy(From(CleanupLegacyV1, 1, RootTail(u)), RootTail(u), ps)
          BY Starts DEF LegacyInv
        <5> HIDE DEF x
        <5> QED BY <2>1, <2>3, <2>4, <4>1, <5>1 DEF Settling
      <4>2. CASE rt # "legacy"
        <5> HIDE DEF x
        <5> QED BY <2>1, <2>3, <2>4, <4>2 DEF Settling
      <4> QED BY <4>1, <4>2
    <3> HIDE DEF x
    <3>3. Doing(o, Tail(todo), x, rt, ps, vs, u)
      BY <2>2, <2>3, <3>2 DEF Doing
    <3> QED BY <2>1, <2>3, <2>4, <3>1, <3>3 DEF Advances
  <2>5. CASE /\ todo # <<>> /\ Tail(todo) \in Seq(Todo)
             /\ \E k \in Parts : /\ Head(todo) = PartWrite("write", u, k)
                                 /\ \A ps2 : ps2[u] = ps[u] \cup {k} => Staging(Tail(todo), u, PublishTail(u, rt), ps2)
    <3>1. PICK k \in Parts : /\ Head(todo) = PartWrite("write", u, k)
                             /\ \A ps2 : ps2[u] = ps[u] \cup {k} => Staging(Tail(todo), u, PublishTail(u, rt), ps2)
      BY <2>5
    <3>2. \A ps2 : ps2[u] = After("write", ps[u], k) => Preparing(Tail(todo), u, iv, rt, ps2)
      BY <1>2, <3>1 DEF Preparing, After
    <3>3. \A ps2 : ps2[u] = After("write", ps[u], k) => Doing(o, Tail(todo), iv, rt, ps2, vs, u)
      BY <3>2 DEF Doing
    <3>4. PartMove(o, iv, "write", u, vs, u)
      BY <1>2 DEF PartMove, StageMove
    <3> QED BY <2>5, <3>1, <3>3, <3>4 DEF Advances
  <2>6. PublishTail(u, rt) \in Seq(Todo) /\ Staging(todo, u, PublishTail(u, rt), ps)
    BY <1>2, <2>1
  <2> HIDE DEF x, state
  <2> QED BY <2>4, <2>5, <2>6, StagingHead
<1>3. CASE /\ iv # None /\ iv.state = "Active" /\ iv.primary # u /\ ps[u] = {} /\ rt = "marker"
           /\ todo = WriteInventory("ActiveWithPending", iv.primary, u)
                     \o From(StageGeneration(u), 1, RetireTail(iv.primary, u))
  <2> DEFINE p == iv.primary
             x == Entry("ActiveWithPending", p, u)
             rest == From(StageGeneration(u), 1, RetireTail(p, u))
  <2>0. p \in 0 .. MaxGen
    BY <1>3, ShapeRange
  <2>1. /\ x \in Inventories /\ x # None /\ x.state = "ActiveWithPending"
        /\ x.primary = p /\ x.secondary = u
    BY <2>0, EntryType DEF InventoryStates
  <2>2. RetireTail(p, u) \in Seq(Todo)
    BY <2>0, PutTails
  <2>3. rest \in Seq(Todo) /\ Staging(rest, u, RetireTail(p, u), ps)
    BY <1>3, <2>2, FromTypes, Starts
  <2>4. todo = <<InvWrite(x)>> \o rest
    BY <1>3, Writes
  <2>5. InvMove(o, iv, x, rt, ps, vs, u)
    BY <1>3 DEF InvMove, Pend
  <2> HIDE DEF x, rest, p
  <2>6. Head(todo) = InvWrite(x) /\ Tail(todo) = rest
    BY <2>1, <2>3, <2>4, InvList
  <2>7. Doing(o, Tail(todo), x, rt, ps, vs, u)
    BY <1>3, <2>1, <2>3, <2>6 DEF Doing, Preparing
  <2> QED BY <2>1, <2>3, <2>5, <2>6, <2>7 DEF Advances
<1>4. CASE /\ iv # None /\ iv.state = "ActiveWithPending" /\ iv.secondary = u /\ rt = "marker"
           /\ Staging(todo, u, RetireTail(iv.primary, u), ps)
  <2> DEFINE p == iv.primary
             x == Entry("ActiveWithRetiring", u, p)
             rest == WriteInventory("Active", u, 0)
  <2>0. p \in 0 .. MaxGen /\ ps[p] \subseteq Parts
    BY <1>4, ShapeRange
  <2>1. /\ x \in Inventories /\ x # None /\ x.state = "ActiveWithRetiring"
        /\ x.primary = u /\ x.secondary = p
    BY <2>0, EntryType DEF InventoryStates
  <2>2. rest \in Seq(Todo)
    BY TailTypes
  <2>3. /\ RetireTail(p, u) \in Seq(Todo) /\ Head(RetireTail(p, u)) = InvWrite(x)
        /\ Tail(RetireTail(p, u)) = From(CleanupGeneration(p), 1, rest)
    BY <2>0, PutTails
  <2>4. From(CleanupGeneration(p), 1, rest) \in Seq(Todo) /\ Cleaning(From(CleanupGeneration(p), 1, rest), p, rest, ps)
    BY <2>0, <2>2, FromTypes, Starts
  <2>5. CASE todo = RetireTail(p, u) /\ ps[u] = Parts
    <3>1. InvMove(o, iv, x, rt, ps, vs, u)
      BY <1>4, <2>5 DEF InvMove, Retire
    <3> HIDE DEF x, p
    <3>2. Settling(Tail(todo), x, rt, ps)
      BY <2>1, <2>3, <2>4, <2>5 DEF Settling, Paired
    <3>3. Doing(o, Tail(todo), x, rt, ps, vs, u)
      BY <1>4, <2>1, <3>2 DEF Doing
    <3>4. Tail(todo) \in Seq(Todo) /\ Head(todo) = InvWrite(x)
      BY <2>3, <2>4, <2>5
    <3> QED BY <2>1, <3>1, <3>3, <3>4 DEF Advances
  <2>6. CASE /\ todo # <<>> /\ Tail(todo) \in Seq(Todo)
             /\ \E k \in Parts : /\ Head(todo) = PartWrite("write", u, k)
                                 /\ \A ps2 : ps2[u] = ps[u] \cup {k} => Staging(Tail(todo), u, RetireTail(p, u), ps2)
    <3>1. PICK k \in Parts : /\ Head(todo) = PartWrite("write", u, k)
                             /\ \A ps2 : ps2[u] = ps[u] \cup {k} => Staging(Tail(todo), u, RetireTail(p, u), ps2)
      BY <2>6
    <3>2. \A ps2 : ps2[u] = After("write", ps[u], k) => Preparing(Tail(todo), u, iv, rt, ps2)
      BY <1>4, <3>1 DEF Preparing, After
    <3>3. \A ps2 : ps2[u] = After("write", ps[u], k) => Doing(o, Tail(todo), iv, rt, ps2, vs, u)
      BY <3>2 DEF Doing
    <3>4. PartMove(o, iv, "write", u, vs, u)
      BY <1>4 DEF PartMove, StageMove
    <3> QED BY <2>6, <3>1, <3>3, <3>4 DEF Advances
  <2>7. RetireTail(p, u) \in Seq(Todo) /\ Staging(todo, u, RetireTail(p, u), ps)
    BY <1>4, <2>3
  <2> HIDE DEF x, rest, p
  <2> QED BY <2>5, <2>6, <2>7, StagingHead
<1> QED BY <1>1, <1>2, <1>3, <1>4 DEF Preparing

\* Every mutation in progress makes one of these moves and goes on.
LEMMA DoingAdvances ==
  ASSUME NEW o, NEW iv \in Inventories \cup {None}, NEW rt, NEW ps \in [0 .. MaxGen -> SUBSET Parts], NEW vs,
         NEW u \in 0 .. MaxGen, NEW todo,
         iv # None => Shape(iv, u), LegacyInv(iv, rt, ps), todo # <<>>,
         Doing(o, todo, iv, rt, ps, vs, u)
  PROVE  Advances(o, todo, iv, rt, ps, vs, u)
<1>1. CASE o.kind # "idle" /\ o.phase = "reconcile" /\ Reconciling(todo, iv, rt, ps)
  BY <1>1, ReconcileAdvances
<1>2. CASE Putting(o, vs, u) /\ Preparing(todo, u, iv, rt, ps)
  BY <1>2, PreparingAdvances
<1>3. CASE /\ Putting(o, vs, u) /\ Settling(todo, iv, rt, ps) /\ iv.primary = u
           /\ \/ iv.state \in Publishing
              \/ iv.state \in {"Active", "ActiveWithRetiring"} /\ rt = "marker"
  BY <1>3, PublishedAdvances
<1>4. CASE o.kind = "delete" /\ o.phase = "main" /\ Removing(todo, iv, rt)
  BY <1>4, RemovingAdvances
<1>5. CASE /\ o.kind = "delete" /\ o.phase = "main" /\ Settling(todo, iv, rt, ps)
           /\ iv.state \in {"Deleting", "DeletingLegacyV1"}
  BY <1>5, DeletingAdvances
<1> QED BY <1>1, <1>2, <1>3, <1>4, <1>5 DEF Doing

-----------------------------------------------------------------------------
\* What a write may leave of an item.

Reached(i, v, i2) ==
  /\ RawGet(i2) = v /\ ~i2.foreign
  /\ i2.jrn = i.jrn \/ (i.foreign /\ v # None /\ i2.jrn \in {None, v})

\* The migration stopped after it wrote the journal.
Pended(i, v, i2) ==
  v # None /\ i.foreign /\ i2.foreign /\ i2.pri = i.pri /\ i2.jrn = v

\* The item is gone and its journal answers.
Reverted(i, v, i2) ==
  v = None /\ i2.pri = None /\ ~i2.foreign /\ i2.jrn = i.jrn /\ i.jrn # None

Landed(i, v, i2) == i2 = i \/ Reached(i, v, i2) \/ Pended(i, v, i2) \/ Reverted(i, v, i2)

LEMMA PutLands ==
  ASSUME NEW C, None \notin C, NEW i \in Items(C), NEW v \in C \cup {None}, i.foreign => i.pri # None
  PROVE  /\ Put(i, v) \in Items(C)
         /\ RawGet(Put(i, v)) = v => Reached(i, v, Put(i, v))
         /\ RawGet(Put(i, v)) # v => Reverted(i, v, Put(i, v))
         /\ Stuck(i) => Stuck(Put(i, v))
<1>1. /\ i.pri \in C \cup {None} /\ i.jrn \in C \cup {None} /\ i.foreign \in BOOLEAN
      /\ i = [pri |-> i.pri, foreign |-> i.foreign, jrn |-> i.jrn]
  BY DEF Items
<1>2. CASE v = None
  <2>1. Put(i, v) = [pri |-> None, foreign |-> FALSE, jrn |-> i.jrn]
    BY <1>1, <1>2 DEF Put, Erased, Items
  <2> QED BY <1>1, <1>2, <2>1 DEF Items, RawGet, Reached, Reverted, Stuck
<1>3. CASE v # None
  <2>1. Put(i, v) = [pri |-> v, foreign |-> FALSE, jrn |-> i.jrn]
    BY <1>1, <1>3 DEF Put, Written, Items
  <2> QED BY <1>1, <1>3, <2>1 DEF Items, RawGet, Reached, Reverted, Stuck
<1> QED BY <1>2, <1>3

LEMMA FirstCallLands ==
  ASSUME NEW C, None \notin C, NEW i \in Items(C), NEW v \in C \cup {None}, i.foreign => i.pri # None
  PROVE  /\ FirstCall(i, v) \in Items(C) /\ Landed(i, v, FirstCall(i, v))
         /\ Migrates(i, v) => Pended(i, v, FirstCall(i, v)) /\ RawGet(FirstCall(i, v)) = RawGet(i)
<1>1. CASE Migrates(i, v)
  <2>1. FirstCall(i, v) = [pri |-> i.pri, foreign |-> i.foreign, jrn |-> v]
    BY <1>1 DEF FirstCall, Items
  <2>2. FirstCall(i, v) \in Items(C)
    BY <2>1 DEF Items
  <2> QED BY <1>1, <2>1, <2>2 DEF Migrates, Landed, Pended, RawGet
<1>2. CASE ~Migrates(i, v)
  BY <1>2, PutLands DEF FirstCall, Landed
<1> QED BY <1>1, <1>2

\* From the delete of a migration on the journal answers.
LEMMA DeleteCallLands ==
  ASSUME NEW C, NEW i \in Items(C), i.foreign, i.jrn # None
  PROVE  /\ NextCall(i) \in Items(C) /\ Reached(i, i.jrn, NextCall(i)) /\ Stuck(NextCall(i))
         /\ NextCall(i).jrn = i.jrn /\ ~NextCall(i).foreign
<1>1. NextCall(i) = [pri |-> None, foreign |-> FALSE, jrn |-> i.jrn]
  BY DEF NextCall, Erased, Items
<1> QED BY <1>1 DEF Items, Reached, RawGet, Stuck

\* The calls after it change no answer.
Shifted(i, i2) == ~i.foreign /\ ~i2.foreign /\ RawGet(i2) = RawGet(i) /\ i2.jrn \in {i.jrn, None}

LEMMA LastCallsLand ==
  ASSUME NEW C, None \notin C, NEW i \in Items(C), ~i.foreign, i.jrn # None
  PROVE  /\ NextCall(i) \in Items(C) /\ Shifted(i, NextCall(i))
         /\ i.pri = None => NextCall(i).jrn = i.jrn
         /\ i.pri # None => NextCall(i).jrn = None
<1>0. i.pri \in C \cup {None} /\ i.jrn \in C \cup {None}
  BY DEF Items
<1>1. CASE i.pri = None
  <2>1. NextCall(i) = [pri |-> i.jrn, foreign |-> i.foreign, jrn |-> i.jrn]
    BY <1>1 DEF NextCall, Items
  <2> QED BY <1>0, <1>1, <2>1 DEF Items, Shifted, RawGet
<1>2. CASE i.pri # None
  <2>1. NextCall(i) = [pri |-> i.pri, foreign |-> i.foreign, jrn |-> None]
    BY <1>2 DEF NextCall, Items
  <2> QED BY <1>0, <1>2, <2>1 DEF Items, Shifted, RawGet
<1> QED BY <1>1, <1>2

-----------------------------------------------------------------------------
\* Each write of the inventory leaves a store in order.

Moved(i, r, x, ps, u) ==
  LET iv == RawGet(i)
      rt == RawGet(r)
  IN  /\ x # None => Shape(x, u)
      /\ iv # None /\ iv.state \in Serving \cup {"Deleting"} => x = None \/ x.state \in Serving \cup {"Deleting"}
      /\ iv # None /\ iv.state = "Active" => x # None /\ x.state \in {"ActiveWithPending", "Deleting"}
      /\ Named(x, ps) /\ LegacyInv(x, rt, ps) /\ RootInv(x, r)
      /\ x # None /\ x.state \in Publishing => ps[x.primary] = Parts
      /\ x # None /\ x.state \in Serving =>
           \/ rt = "marker" /\ ps[x.primary] = Parts
           \/ Stuck(i) /\ ~i.foreign /\ ps[x.primary] = {} /\ rt = None
      /\ x = None => iv # None /\ iv.state # "Active" /\ (iv.state # "PreparingLegacy" => rt = None)

LEMMA InvMoveSound ==
  ASSUME NEW i \in Items(Inventories), NEW r \in Items(RootContents), NEW ps \in [0 .. MaxGen -> SUBSET Parts],
         NEW u \in 0 .. MaxGen, NEW vs, NEW o, NEW x,
         StoreOK(i, r, ps, u), InvMove(o, RawGet(i), x, RawGet(r), ps, vs, u)
  PROVE  Moved(i, r, x, ps, u)
<1> DEFINE iv == RawGet(i)
           rt == RawGet(r)
<1>0. /\ iv \in Inventories \cup {None} /\ rt \in RootContents \cup {None}
      /\ Parts # {} /\ "marker" # None /\ "legacy" # None /\ r.jrn \in RootContents \cup {None}
  BY Bounds DEF RawGet, Items
<1>1. /\ iv # None => Shape(iv, u)
      /\ Named(iv, ps) /\ LegacyInv(iv, rt, ps) /\ RootInv(iv, r)
  BY DEF StoreOK
<1>2. iv # None =>
        /\ iv.primary \in 0 .. MaxGen /\ iv.secondary \in 0 .. MaxGen /\ iv.state \in InventoryStates
        /\ iv.state # "DeletingLegacyV1" => iv.primary \in Generations
        /\ iv.state \in Paired => iv.secondary \in Generations
  BY <1>0, <1>1, ShapeRange
<1>3. iv # None =>
        /\ iv.state \in Publishing => ps[iv.primary] = Parts
        /\ iv.state \in Serving =>
             \/ rt = "marker" /\ ps[iv.primary] = Parts
             \/ Stuck(i) /\ ps[iv.primary] = {} /\ rt = None
  BY DEF StoreOK, ServedInv
<1>4. u # 0 => u \in Generations
  BY Bounds DEF Generations
<1>5. 0 \in 0 .. MaxGen /\ 0 \notin Generations
  BY Bounds DEF Generations
<1>6. rt = None => r.jrn = None
  BY <1>0 DEF RawGet
<1> HIDE DEF iv, rt
<1>8. CASE Putting(o, vs, u) /\ Announce(iv, x, ps, u)
  <2>1. x = Entry("PreparingLegacy", u, 0)
    BY <1>8 DEF Announce
  <2>2. x # None /\ x.state = "PreparingLegacy" /\ x.primary = u /\ x.secondary = 0
    BY <1>2, <1>5, <1>8, <2>1, EntryType DEF Announce, InventoryStates, Serving, Publishing, Paired
  <2>3. x # None => Shape(x, u)
    BY <1>1, <1>2, <1>4, <1>8, <2>2, Bounds DEF Announce, Putting, Serving, Publishing, Paired, Shape, Generations
  <2>4. Named(x, ps)
    BY <1>1, <1>2, <1>3, <1>5, <1>8, <2>2, Bounds DEF Announce, Putting, Serving, Publishing, Paired, Named, Shape
  <2>5. LegacyInv(x, rt, ps) /\ RootInv(x, r)
    BY <1>0, <1>1, <1>6, <1>8, <2>2, Bounds DEF Announce, Putting, Serving, Publishing, Paired, LegacyInv, RootInv, Unmanaged, rt
  <2>6. x # None /\ x.state \in Publishing => ps[x.primary] = Parts
    BY <1>3, <1>8, <2>2, Bounds DEF Announce, Putting, Serving, Publishing, Paired
  <2>7. x # None /\ x.state \in Serving =>
           \/ rt = "marker" /\ ps[x.primary] = Parts
           \/ Stuck(i) /\ ~i.foreign /\ ps[x.primary] = {} /\ rt = None
    BY <1>3, <1>8, <2>2, Bounds DEF Announce, Putting, Serving, Publishing, Paired, Stuck
  <2>8. /\ iv # None /\ iv.state \in Serving \cup {"Deleting"} => x = None \/ x.state \in Serving \cup {"Deleting"}
        /\ iv # None /\ iv.state = "Active" => x # None /\ x.state \in {"ActiveWithPending", "Deleting"}
    BY <1>8, <2>2, Bounds DEF Announce, Putting, Serving, Publishing, Paired
  <2>9. x = None => iv # None /\ iv.state # "Active" /\ (iv.state # "PreparingLegacy" => rt = None)
    BY <1>8, <2>2, Bounds DEF Announce, Putting, Serving, Publishing, Paired
  <2> QED BY <2>3, <2>4, <2>5, <2>6, <2>7, <2>8, <2>9 DEF Moved, iv, rt
<1>9. CASE Putting(o, vs, u) /\ Publish(iv, x, rt, ps, u) /\ rt = "legacy"
  <2>1. x = Entry("PublishedLegacyV1NeedsRootScrub", u, 0)
    BY <1>9 DEF Publish
  <2>2. x # None /\ x.state = "PublishedLegacyV1NeedsRootScrub" /\ x.primary = u /\ x.secondary = 0
    BY <1>2, <1>5, <1>9, <2>1, EntryType DEF Publish, InventoryStates, Serving, Publishing, Paired
  <2>3. x # None => Shape(x, u)
    BY <1>1, <1>2, <1>4, <1>9, <2>2, Bounds DEF Publish, Putting, Serving, Publishing, Paired, Shape, Generations
  <2>4. Named(x, ps)
    BY <1>1, <1>2, <1>3, <1>5, <1>9, <2>2, Bounds DEF Publish, Putting, Serving, Publishing, Paired, Named, Shape
  <2>5. LegacyInv(x, rt, ps) /\ RootInv(x, r)
    BY <1>0, <1>1, <1>6, <1>9, <2>2, Bounds DEF Publish, Putting, Serving, Publishing, Paired, LegacyInv, RootInv, Unmanaged, rt
  <2>6. x # None /\ x.state \in Publishing => ps[x.primary] = Parts
    BY <1>3, <1>9, <2>2, Bounds DEF Publish, Putting, Serving, Publishing, Paired
  <2>7. x # None /\ x.state \in Serving =>
           \/ rt = "marker" /\ ps[x.primary] = Parts
           \/ Stuck(i) /\ ~i.foreign /\ ps[x.primary] = {} /\ rt = None
    BY <1>3, <1>9, <2>2, Bounds DEF Publish, Putting, Serving, Publishing, Paired, Stuck
  <2>8. /\ iv # None /\ iv.state \in Serving \cup {"Deleting"} => x = None \/ x.state \in Serving \cup {"Deleting"}
        /\ iv # None /\ iv.state = "Active" => x # None /\ x.state \in {"ActiveWithPending", "Deleting"}
    BY <1>9, <2>2, Bounds DEF Publish, Putting, Serving, Publishing, Paired
  <2>9. x = None => iv # None /\ iv.state # "Active" /\ (iv.state # "PreparingLegacy" => rt = None)
    BY <1>9, <2>2, Bounds DEF Publish, Putting, Serving, Publishing, Paired
  <2> QED BY <2>3, <2>4, <2>5, <2>6, <2>7, <2>8, <2>9 DEF Moved, iv, rt
<1>10. CASE Putting(o, vs, u) /\ Publish(iv, x, rt, ps, u) /\ rt # "legacy"
  <2>1. x = Entry("PublishedNeedsRootScrub", u, 0)
    BY <1>10 DEF Publish
  <2>2. x # None /\ x.state = "PublishedNeedsRootScrub" /\ x.primary = u /\ x.secondary = 0
    BY <1>2, <1>5, <1>10, <2>1, EntryType DEF Publish, InventoryStates, Serving, Publishing, Paired
  <2>3. x # None => Shape(x, u)
    BY <1>1, <1>2, <1>4, <1>10, <2>2, Bounds DEF Publish, Putting, Serving, Publishing, Paired, Shape, Generations
  <2>4. Named(x, ps)
    BY <1>1, <1>2, <1>3, <1>5, <1>10, <2>2, Bounds DEF Publish, Putting, Serving, Publishing, Paired, Named, Shape
  <2>5. LegacyInv(x, rt, ps) /\ RootInv(x, r)
    BY <1>0, <1>1, <1>6, <1>10, <2>2, Bounds DEF Publish, Putting, Serving, Publishing, Paired, LegacyInv, RootInv, Unmanaged, rt
  <2>6. x # None /\ x.state \in Publishing => ps[x.primary] = Parts
    BY <1>3, <1>10, <2>2, Bounds DEF Publish, Putting, Serving, Publishing, Paired
  <2>7. x # None /\ x.state \in Serving =>
           \/ rt = "marker" /\ ps[x.primary] = Parts
           \/ Stuck(i) /\ ~i.foreign /\ ps[x.primary] = {} /\ rt = None
    BY <1>3, <1>10, <2>2, Bounds DEF Publish, Putting, Serving, Publishing, Paired, Stuck
  <2>8. /\ iv # None /\ iv.state \in Serving \cup {"Deleting"} => x = None \/ x.state \in Serving \cup {"Deleting"}
        /\ iv # None /\ iv.state = "Active" => x # None /\ x.state \in {"ActiveWithPending", "Deleting"}
    BY <1>10, <2>2, Bounds DEF Publish, Putting, Serving, Publishing, Paired
  <2>9. x = None => iv # None /\ iv.state # "Active" /\ (iv.state # "PreparingLegacy" => rt = None)
    BY <1>10, <2>2, Bounds DEF Publish, Putting, Serving, Publishing, Paired
  <2> QED BY <2>3, <2>4, <2>5, <2>6, <2>7, <2>8, <2>9 DEF Moved, iv, rt
<1>11. CASE Putting(o, vs, u) /\ Pend(iv, x, rt, ps, u)
  <2>1. x = Entry("ActiveWithPending", iv.primary, u)
    BY <1>11 DEF Pend
  <2>2. x # None /\ x.state = "ActiveWithPending" /\ x.primary = iv.primary /\ x.secondary = u
    BY <1>2, <1>5, <1>11, <2>1, EntryType DEF Pend, InventoryStates, Serving, Publishing, Paired
  <2>3. x # None => Shape(x, u)
    BY <1>1, <1>2, <1>4, <1>11, <2>2, Bounds DEF Pend, Putting, Serving, Publishing, Paired, Shape, Generations
  <2>4. Named(x, ps)
    BY <1>1, <1>2, <1>3, <1>5, <1>11, <2>2, Bounds DEF Pend, Putting, Serving, Publishing, Paired, Named, Shape
  <2>5. LegacyInv(x, rt, ps) /\ RootInv(x, r)
    BY <1>0, <1>1, <1>6, <1>11, <2>2, Bounds DEF Pend, Putting, Serving, Publishing, Paired, LegacyInv, RootInv, Unmanaged, rt
  <2>6. x # None /\ x.state \in Publishing => ps[x.primary] = Parts
    BY <1>3, <1>11, <2>2, Bounds DEF Pend, Putting, Serving, Publishing, Paired
  <2>7. x # None /\ x.state \in Serving =>
           \/ rt = "marker" /\ ps[x.primary] = Parts
           \/ Stuck(i) /\ ~i.foreign /\ ps[x.primary] = {} /\ rt = None
    BY <1>3, <1>11, <2>2, Bounds DEF Pend, Putting, Serving, Publishing, Paired, Stuck
  <2>8. /\ iv # None /\ iv.state \in Serving \cup {"Deleting"} => x = None \/ x.state \in Serving \cup {"Deleting"}
        /\ iv # None /\ iv.state = "Active" => x # None /\ x.state \in {"ActiveWithPending", "Deleting"}
    BY <1>11, <2>2, Bounds DEF Pend, Putting, Serving, Publishing, Paired
  <2>9. x = None => iv # None /\ iv.state # "Active" /\ (iv.state # "PreparingLegacy" => rt = None)
    BY <1>11, <2>2, Bounds DEF Pend, Putting, Serving, Publishing, Paired
  <2> QED BY <2>3, <2>4, <2>5, <2>6, <2>7, <2>8, <2>9 DEF Moved, iv, rt
<1>12. CASE Putting(o, vs, u) /\ Retire(iv, x, rt, ps, u)
  <2>1. x = Entry("ActiveWithRetiring", u, iv.primary)
    BY <1>12 DEF Retire
  <2>2. x # None /\ x.state = "ActiveWithRetiring" /\ x.primary = u /\ x.secondary = iv.primary
    BY <1>2, <1>5, <1>12, <2>1, EntryType DEF Retire, InventoryStates, Serving, Publishing, Paired
  <2>3. x # None => Shape(x, u)
    BY <1>1, <1>2, <1>4, <1>12, <2>2, Bounds DEF Retire, Putting, Serving, Publishing, Paired, Shape, Generations
  <2>4. Named(x, ps)
    BY <1>1, <1>2, <1>3, <1>5, <1>12, <2>2, Bounds DEF Retire, Putting, Serving, Publishing, Paired, Named, Shape
  <2>5. LegacyInv(x, rt, ps) /\ RootInv(x, r)
    BY <1>0, <1>1, <1>6, <1>12, <2>2, Bounds DEF Retire, Putting, Serving, Publishing, Paired, LegacyInv, RootInv, Unmanaged, rt
  <2>6. x # None /\ x.state \in Publishing => ps[x.primary] = Parts
    BY <1>3, <1>12, <2>2, Bounds DEF Retire, Putting, Serving, Publishing, Paired
  <2>7. x # None /\ x.state \in Serving =>
           \/ rt = "marker" /\ ps[x.primary] = Parts
           \/ Stuck(i) /\ ~i.foreign /\ ps[x.primary] = {} /\ rt = None
    BY <1>3, <1>12, <2>2, Bounds DEF Retire, Putting, Serving, Publishing, Paired, Stuck
  <2>8. /\ iv # None /\ iv.state \in Serving \cup {"Deleting"} => x = None \/ x.state \in Serving \cup {"Deleting"}
        /\ iv # None /\ iv.state = "Active" => x # None /\ x.state \in {"ActiveWithPending", "Deleting"}
    BY <1>12, <2>2, Bounds DEF Retire, Putting, Serving, Publishing, Paired
  <2>9. x = None => iv # None /\ iv.state # "Active" /\ (iv.state # "PreparingLegacy" => rt = None)
    BY <1>12, <2>2, Bounds DEF Retire, Putting, Serving, Publishing, Paired
  <2> QED BY <2>3, <2>4, <2>5, <2>6, <2>7, <2>8, <2>9 DEF Moved, iv, rt
<1>13. CASE Activate(iv, x, rt)
  <2>1. x = Entry("Active", iv.primary, 0)
    BY <1>13 DEF Activate
  <2>2. x # None /\ x.state = "Active" /\ x.primary = iv.primary /\ x.secondary = 0
    BY <1>2, <1>5, <1>13, <2>1, EntryType DEF Activate, InventoryStates, Serving, Publishing, Paired
  <2>3. x # None => Shape(x, u)
    BY <1>1, <1>2, <1>4, <1>13, <2>2, Bounds DEF Activate, Putting, Serving, Publishing, Paired, Shape, Generations
  <2>4. Named(x, ps)
    BY <1>1, <1>2, <1>3, <1>5, <1>13, <2>2, Bounds DEF Activate, Putting, Serving, Publishing, Paired, Named, Shape
  <2>5. LegacyInv(x, rt, ps) /\ RootInv(x, r)
    BY <1>0, <1>1, <1>6, <1>13, <2>2, Bounds DEF Activate, Putting, Serving, Publishing, Paired, LegacyInv, RootInv, Unmanaged, rt
  <2>6. x # None /\ x.state \in Publishing => ps[x.primary] = Parts
    BY <1>3, <1>13, <2>2, Bounds DEF Activate, Putting, Serving, Publishing, Paired
  <2>7. x # None /\ x.state \in Serving =>
           \/ rt = "marker" /\ ps[x.primary] = Parts
           \/ Stuck(i) /\ ~i.foreign /\ ps[x.primary] = {} /\ rt = None
    BY <1>3, <1>13, <2>2, Bounds DEF Activate, Putting, Serving, Publishing, Paired, Stuck
  <2>8. /\ iv # None /\ iv.state \in Serving \cup {"Deleting"} => x = None \/ x.state \in Serving \cup {"Deleting"}
        /\ iv # None /\ iv.state = "Active" => x # None /\ x.state \in {"ActiveWithPending", "Deleting"}
    BY <1>13, <2>2, Bounds DEF Activate, Putting, Serving, Publishing, Paired
  <2>9. x = None => iv # None /\ iv.state # "Active" /\ (iv.state # "PreparingLegacy" => rt = None)
    BY <1>13, <2>2, Bounds DEF Activate, Putting, Serving, Publishing, Paired
  <2> QED BY <2>3, <2>4, <2>5, <2>6, <2>7, <2>8, <2>9 DEF Moved, iv, rt
<1>14. CASE Settle(iv, x, ps)
  <2>1. x = Entry("Active", iv.primary, 0)
    BY <1>14 DEF Settle
  <2>2. x # None /\ x.state = "Active" /\ x.primary = iv.primary /\ x.secondary = 0
    BY <1>2, <1>5, <1>14, <2>1, EntryType DEF Settle, InventoryStates, Serving, Publishing, Paired
  <2>3. x # None => Shape(x, u)
    BY <1>1, <1>2, <1>4, <1>14, <2>2, Bounds DEF Settle, Putting, Serving, Publishing, Paired, Shape, Generations
  <2>4. Named(x, ps)
    BY <1>1, <1>2, <1>3, <1>5, <1>14, <2>2, Bounds DEF Settle, Putting, Serving, Publishing, Paired, Named, Shape
  <2>5. LegacyInv(x, rt, ps) /\ RootInv(x, r)
    BY <1>0, <1>1, <1>6, <1>14, <2>2, Bounds DEF Settle, Putting, Serving, Publishing, Paired, LegacyInv, RootInv, Unmanaged, rt
  <2>6. x # None /\ x.state \in Publishing => ps[x.primary] = Parts
    BY <1>3, <1>14, <2>2, Bounds DEF Settle, Putting, Serving, Publishing, Paired
  <2>7. x # None /\ x.state \in Serving =>
           \/ rt = "marker" /\ ps[x.primary] = Parts
           \/ Stuck(i) /\ ~i.foreign /\ ps[x.primary] = {} /\ rt = None
    BY <1>3, <1>14, <2>2, Bounds DEF Settle, Putting, Serving, Publishing, Paired, Stuck
  <2>8. /\ iv # None /\ iv.state \in Serving \cup {"Deleting"} => x = None \/ x.state \in Serving \cup {"Deleting"}
        /\ iv # None /\ iv.state = "Active" => x # None /\ x.state \in {"ActiveWithPending", "Deleting"}
    BY <1>14, <2>2, Bounds DEF Settle, Putting, Serving, Publishing, Paired
  <2>9. x = None => iv # None /\ iv.state # "Active" /\ (iv.state # "PreparingLegacy" => rt = None)
    BY <1>14, <2>2, Bounds DEF Settle, Putting, Serving, Publishing, Paired
  <2> QED BY <2>3, <2>4, <2>5, <2>6, <2>7, <2>8, <2>9 DEF Moved, iv, rt
<1>15. CASE Forget(iv, x, ps)
  <2>1. x = None
    BY <1>15 DEF Forget
  <2>3. x # None => Shape(x, u)
    BY <1>1, <1>2, <1>4, <1>15, <2>1, Bounds DEF Forget, Putting, Serving, Publishing, Paired, Shape, Generations
  <2>4. Named(x, ps)
    BY <1>1, <1>2, <1>3, <1>5, <1>15, <2>1, Bounds DEF Forget, Putting, Serving, Publishing, Paired, Named, Shape
  <2>5. LegacyInv(x, rt, ps) /\ RootInv(x, r)
    BY <1>0, <1>1, <1>6, <1>15, <2>1, Bounds DEF Forget, Putting, Serving, Publishing, Paired, LegacyInv, RootInv, Unmanaged, rt
  <2>6. x # None /\ x.state \in Publishing => ps[x.primary] = Parts
    BY <1>3, <1>15, <2>1, Bounds DEF Forget, Putting, Serving, Publishing, Paired
  <2>7. x # None /\ x.state \in Serving =>
           \/ rt = "marker" /\ ps[x.primary] = Parts
           \/ Stuck(i) /\ ~i.foreign /\ ps[x.primary] = {} /\ rt = None
    BY <1>3, <1>15, <2>1, Bounds DEF Forget, Putting, Serving, Publishing, Paired, Stuck
  <2>8. /\ iv # None /\ iv.state \in Serving \cup {"Deleting"} => x = None \/ x.state \in Serving \cup {"Deleting"}
        /\ iv # None /\ iv.state = "Active" => x # None /\ x.state \in {"ActiveWithPending", "Deleting"}
    BY <1>15, <2>1, Bounds DEF Forget, Putting, Serving, Publishing, Paired
  <2>9. x = None => iv # None /\ iv.state # "Active" /\ (iv.state # "PreparingLegacy" => rt = None)
    BY <1>15, <2>1, Bounds DEF Forget, Putting, Serving, Publishing, Paired
  <2> QED BY <2>3, <2>4, <2>5, <2>6, <2>7, <2>8, <2>9 DEF Moved, iv, rt
<1>16. CASE Gone(iv, x, rt, ps)
  <2>1. x = None
    BY <1>16 DEF Gone
  <2>3. x # None => Shape(x, u)
    BY <1>1, <1>2, <1>4, <1>16, <2>1, Bounds DEF Gone, Putting, Serving, Publishing, Paired, Shape, Generations
  <2>4. Named(x, ps)
    BY <1>1, <1>2, <1>3, <1>5, <1>16, <2>1, Bounds DEF Gone, Putting, Serving, Publishing, Paired, Named, Shape
  <2>5. LegacyInv(x, rt, ps) /\ RootInv(x, r)
    BY <1>0, <1>1, <1>6, <1>16, <2>1, Bounds DEF Gone, Putting, Serving, Publishing, Paired, LegacyInv, RootInv, Unmanaged, rt
  <2>6. x # None /\ x.state \in Publishing => ps[x.primary] = Parts
    BY <1>3, <1>16, <2>1, Bounds DEF Gone, Putting, Serving, Publishing, Paired
  <2>7. x # None /\ x.state \in Serving =>
           \/ rt = "marker" /\ ps[x.primary] = Parts
           \/ Stuck(i) /\ ~i.foreign /\ ps[x.primary] = {} /\ rt = None
    BY <1>3, <1>16, <2>1, Bounds DEF Gone, Putting, Serving, Publishing, Paired, Stuck
  <2>8. /\ iv # None /\ iv.state \in Serving \cup {"Deleting"} => x = None \/ x.state \in Serving \cup {"Deleting"}
        /\ iv # None /\ iv.state = "Active" => x # None /\ x.state \in {"ActiveWithPending", "Deleting"}
    BY <1>16, <2>1, Bounds DEF Gone, Putting, Serving, Publishing, Paired
  <2>9. x = None => iv # None /\ iv.state # "Active" /\ (iv.state # "PreparingLegacy" => rt = None)
    BY <1>16, <2>1, Bounds DEF Gone, Putting, Serving, Publishing, Paired
  <2> QED BY <2>3, <2>4, <2>5, <2>6, <2>7, <2>8, <2>9 DEF Moved, iv, rt
<1>17. CASE MarkDelete(iv, x)
  <2>1. x = Entry("Deleting", iv.primary, 0)
    BY <1>17 DEF MarkDelete
  <2>2. x # None /\ x.state = "Deleting" /\ x.primary = iv.primary /\ x.secondary = 0
    BY <1>2, <1>5, <1>17, <2>1, EntryType DEF MarkDelete, InventoryStates, Serving, Publishing, Paired
  <2>3. x # None => Shape(x, u)
    BY <1>1, <1>2, <1>4, <1>17, <2>2, Bounds DEF MarkDelete, Putting, Serving, Publishing, Paired, Shape, Generations
  <2>4. Named(x, ps)
    BY <1>1, <1>2, <1>3, <1>5, <1>17, <2>2, Bounds DEF MarkDelete, Putting, Serving, Publishing, Paired, Named, Shape
  <2>5. LegacyInv(x, rt, ps) /\ RootInv(x, r)
    BY <1>0, <1>1, <1>6, <1>17, <2>2, Bounds DEF MarkDelete, Putting, Serving, Publishing, Paired, LegacyInv, RootInv, Unmanaged, rt
  <2>6. x # None /\ x.state \in Publishing => ps[x.primary] = Parts
    BY <1>3, <1>17, <2>2, Bounds DEF MarkDelete, Putting, Serving, Publishing, Paired
  <2>7. x # None /\ x.state \in Serving =>
           \/ rt = "marker" /\ ps[x.primary] = Parts
           \/ Stuck(i) /\ ~i.foreign /\ ps[x.primary] = {} /\ rt = None
    BY <1>3, <1>17, <2>2, Bounds DEF MarkDelete, Putting, Serving, Publishing, Paired, Stuck
  <2>8. /\ iv # None /\ iv.state \in Serving \cup {"Deleting"} => x = None \/ x.state \in Serving \cup {"Deleting"}
        /\ iv # None /\ iv.state = "Active" => x # None /\ x.state \in {"ActiveWithPending", "Deleting"}
    BY <1>17, <2>2, Bounds DEF MarkDelete, Putting, Serving, Publishing, Paired
  <2>9. x = None => iv # None /\ iv.state # "Active" /\ (iv.state # "PreparingLegacy" => rt = None)
    BY <1>17, <2>2, Bounds DEF MarkDelete, Putting, Serving, Publishing, Paired
  <2> QED BY <2>3, <2>4, <2>5, <2>6, <2>7, <2>8, <2>9 DEF Moved, iv, rt
<1>18. CASE MarkLegacy(iv, x, rt)
  <2>1. x = Entry("DeletingLegacyV1", 0, 0)
    BY <1>18 DEF MarkLegacy
  <2>2. x # None /\ x.state = "DeletingLegacyV1" /\ x.primary = 0 /\ x.secondary = 0
    BY <1>2, <1>5, <1>18, <2>1, EntryType DEF MarkLegacy, InventoryStates, Serving, Publishing, Paired
  <2>3. x # None => Shape(x, u)
    BY <1>1, <1>2, <1>4, <1>18, <2>2, Bounds DEF MarkLegacy, Putting, Serving, Publishing, Paired, Shape, Generations
  <2>4. Named(x, ps)
    BY <1>1, <1>2, <1>3, <1>5, <1>18, <2>2, Bounds DEF MarkLegacy, Putting, Serving, Publishing, Paired, Named, Shape
  <2>5. LegacyInv(x, rt, ps) /\ RootInv(x, r)
    BY <1>0, <1>1, <1>6, <1>18, <2>2, Bounds DEF MarkLegacy, Putting, Serving, Publishing, Paired, LegacyInv, RootInv, Unmanaged, rt
  <2>6. x # None /\ x.state \in Publishing => ps[x.primary] = Parts
    BY <1>3, <1>18, <2>2, Bounds DEF MarkLegacy, Putting, Serving, Publishing, Paired
  <2>7. x # None /\ x.state \in Serving =>
           \/ rt = "marker" /\ ps[x.primary] = Parts
           \/ Stuck(i) /\ ~i.foreign /\ ps[x.primary] = {} /\ rt = None
    BY <1>3, <1>18, <2>2, Bounds DEF MarkLegacy, Putting, Serving, Publishing, Paired, Stuck
  <2>8. /\ iv # None /\ iv.state \in Serving \cup {"Deleting"} => x = None \/ x.state \in Serving \cup {"Deleting"}
        /\ iv # None /\ iv.state = "Active" => x # None /\ x.state \in {"ActiveWithPending", "Deleting"}
    BY <1>18, <2>2, Bounds DEF MarkLegacy, Putting, Serving, Publishing, Paired
  <2>9. x = None => iv # None /\ iv.state # "Active" /\ (iv.state # "PreparingLegacy" => rt = None)
    BY <1>18, <2>2, Bounds DEF MarkLegacy, Putting, Serving, Publishing, Paired
  <2> QED BY <2>3, <2>4, <2>5, <2>6, <2>7, <2>8, <2>9 DEF Moved, iv, rt
<1> QED BY <1>8, <1>9, <1>10, <1>11, <1>12, <1>13, <1>14, <1>15, <1>16, <1>17, <1>18 DEF InvMove, iv, rt

LEMMA InvStore ==
  ASSUME NEW i \in Items(Inventories), NEW i2 \in Items(Inventories), NEW r \in Items(RootContents),
         NEW ps \in [0 .. MaxGen -> SUBSET Parts], NEW u \in 0 .. MaxGen, NEW x,
         StoreOK(i, r, ps, u), Moved(i, r, x, ps, u), Landed(i, x, i2)
  PROVE  StoreOK(i2, r, ps, u)
<1> DEFINE iv == RawGet(i)
           rt == RawGet(r)
           v2 == RawGet(i2)
<1>0. /\ i.pri \in Inventories \cup {None} /\ i.jrn \in Inventories \cup {None} /\ i.foreign \in BOOLEAN
      /\ i2.pri \in Inventories \cup {None} /\ i2.jrn \in Inventories \cup {None} /\ i2.foreign \in BOOLEAN
      /\ rt # None => rt \in RootContents
  BY DEF Items, RawGet
<1>1. /\ iv # None => Shape(iv, u)
      /\ InventoryItem(i, u) /\ RootItem(r)
      /\ Named(iv, ps) /\ LegacyInv(iv, rt, ps) /\ RootInv(iv, r) /\ ServedInv(i, r, ps)
  BY DEF StoreOK
<1>2. /\ x # None => Shape(x, u)
      /\ iv # None /\ iv.state \in Serving \cup {"Deleting"} => x = None \/ x.state \in Serving \cup {"Deleting"}
      /\ iv # None /\ iv.state = "Active" => x # None /\ x.state \in {"ActiveWithPending", "Deleting"}
      /\ Named(x, ps) /\ LegacyInv(x, rt, ps) /\ RootInv(x, r)
      /\ x # None /\ x.state \in Publishing => ps[x.primary] = Parts
      /\ x # None /\ x.state \in Serving =>
           \/ rt = "marker" /\ ps[x.primary] = Parts
           \/ Stuck(i) /\ ~i.foreign /\ ps[x.primary] = {} /\ rt = None
      /\ x = None => iv # None /\ iv.state # "Active" /\ (iv.state # "PreparingLegacy" => rt = None)
  BY DEF Moved
<1>3. /\ i.foreign => i.pri # None /\ iv = i.pri /\ iv.state = "Active"
      /\ i.jrn # None => i.jrn.state \in {"ActiveWithPending", "Deleting"} /\ Shape(i.jrn, u)
      /\ i.foreign \/ i.jrn # None => iv.state \in Serving \cup {"Deleting"}
      /\ i.jrn # None => iv # None
  BY <1>1 DEF InventoryItem, RawGet
<1> HIDE DEF iv, rt, v2
<1>4. CASE i2 = i
  BY <1>4
<1>5. CASE Reached(i, x, i2)
  <2>1. v2 = x /\ ~i2.foreign /\ (i2.jrn = i.jrn \/ (i.foreign /\ x # None /\ i2.jrn \in {None, x}))
    BY <1>5 DEF Reached, v2
  <2>2. i2.jrn # None => x # None
    BY <2>1 DEF v2, RawGet
  <2>3. InventoryItem(i2, u)
    <3>1. i2.jrn # None => i2.jrn.state \in {"ActiveWithPending", "Deleting"} /\ Shape(i2.jrn, u)
      BY <1>2, <1>3, <2>1, <2>2 DEF iv
    <3>2. i2.jrn # None => x.state \in Serving \cup {"Deleting"}
      BY <1>2, <1>3, <2>1, <2>2 DEF Serving
    <3> QED BY <2>1, <3>1, <3>2 DEF InventoryItem, v2
  <2>4. ServedInv(i2, r, ps)
    <3>1. Stuck(i) => Stuck(i2)
      BY <2>1 DEF Stuck
    <3> QED BY <1>2, <2>1, <3>1 DEF ServedInv, v2, rt
  <2> QED BY <1>1, <1>2, <2>1, <2>3, <2>4 DEF StoreOK, v2, rt
<1>6. CASE Pended(i, x, i2)
  <2>1. x # None /\ i.foreign /\ i2.foreign /\ i2.pri = i.pri /\ i2.jrn = x /\ i.pri # None
    BY <1>3, <1>6 DEF Pended
  <2>2. v2 = iv /\ iv.state = "Active" /\ iv = i.pri /\ iv # None
    BY <1>3, <2>1 DEF v2, iv, RawGet
  <2>3. InventoryItem(i2, u)
    <3>1. x.state \in {"ActiveWithPending", "Deleting"} /\ Shape(x, u)
      BY <1>2, <2>1, <2>2
    <3> QED BY <2>1, <2>2, <3>1 DEF InventoryItem, v2, Serving
  <2>4. ServedInv(i2, r, ps)
    BY <1>1, <2>1, <2>2 DEF ServedInv, Stuck, v2, iv, Publishing, Serving
  <2> QED BY <1>1, <2>2, <2>3, <2>4 DEF StoreOK, v2, rt
<1>7. CASE Reverted(i, x, i2)
  <2>1. x = None /\ ~i2.foreign /\ i2.jrn = i.jrn /\ i.jrn # None /\ v2 = i.jrn
    BY <1>7 DEF Reverted, v2, RawGet
  <2>2. rt = None
    BY <1>2, <1>3, <2>1 DEF Serving
  <2>3. /\ v2 # None /\ v2.state \in {"ActiveWithPending", "Deleting"} /\ Shape(v2, u)
        /\ v2 \in Inventories
    BY <1>0, <1>3, <2>1
  <2>4. \A g \in Generations : ps[g] = {}
    BY <1>2, <2>1 DEF Named
  <2>5. InventoryItem(i2, u)
    BY <2>1, <2>3 DEF InventoryItem, v2, Serving
  <2>6. Named(v2, ps) /\ LegacyInv(v2, rt, ps) /\ RootInv(v2, r)
    BY <1>0, <1>2, <2>1, <2>2, <2>3, <2>4, Bounds DEF Named, LegacyInv, RootInv, Unmanaged
  <2>7. Stuck(i2) /\ v2.primary \in Generations
    BY <2>1, <2>3, ShapeRange DEF Stuck
  <2>8. ServedInv(i2, r, ps)
    BY <2>2, <2>3, <2>4, <2>7 DEF ServedInv, v2, rt, Publishing
  <2> QED BY <1>1, <2>3, <2>5, <2>6, <2>8 DEF StoreOK, v2, rt
<1> QED BY <1>4, <1>5, <1>6, <1>7 DEF Landed

LEMMA RootStore ==
  ASSUME NEW i \in Items(Inventories), NEW r \in Items(RootContents), NEW r2 \in Items(RootContents),
         NEW ps \in [0 .. MaxGen -> SUBSET Parts], NEW u \in 0 .. MaxGen, NEW x, NEW o,
         StoreOK(i, r, ps, u), RootMove(o, RawGet(i), x, RawGet(r), ps), Landed(r, x, r2)
  PROVE  StoreOK(i, r2, ps, u)
<1> DEFINE iv == RawGet(i)
           rt == RawGet(r)
           rt2 == RawGet(r2)
<1>0. "marker" # None /\ "legacy" # None /\ x \in {"marker", None}
  BY Bounds DEF RootMove, Scrub, DropRoot, DropUnmanaged
<1>1. /\ iv # None => Shape(iv, u)
      /\ InventoryItem(i, u) /\ RootItem(r)
      /\ Named(iv, ps) /\ LegacyInv(iv, rt, ps) /\ RootInv(iv, r) /\ ServedInv(i, r, ps)
  BY DEF StoreOK
<1>2. \/ iv # None /\ iv.state \in Publishing /\ ps[0] = {} /\ x = "marker"
      \/ iv # None /\ iv.state = "Deleting" /\ x = None
      \/ iv # None /\ iv.state = "DeletingLegacyV1" /\ x = None /\ ps[0] = {}
      \/ iv = None /\ x = None /\ rt # "legacy"
  BY DEF RootMove, Scrub, DropRoot, DropUnmanaged
<1>3. iv # None /\ iv.state \in Publishing => ps[iv.primary] = Parts
  BY <1>1 DEF ServedInv
<1> HIDE DEF iv, rt, rt2
<1>4. ps[0] = {}
  BY <1>1, <1>2 DEF LegacyInv
<1>5. CASE r2 = r
  BY <1>5
<1>6. CASE Reached(r, x, r2)
  <2>1. rt2 = x /\ ~r2.foreign /\ (r2.jrn = r.jrn \/ r2.jrn \in {None, x})
    BY <1>6 DEF Reached, rt2
  <2>2. RootItem(r2)
    BY <1>0, <1>1, <2>1 DEF RootItem
  <2>3. LegacyInv(iv, rt2, ps)
    BY <1>0, <1>4, <2>1 DEF LegacyInv
  <2>4. RootInv(iv, r2)
    BY <1>0, <1>1, <1>2, <2>1 DEF RootInv, Unmanaged, rt2, Publishing
  <2>5. ServedInv(i, r2, ps)
    BY <1>2, <1>3 DEF ServedInv, iv, Serving, Publishing
  <2> QED BY <1>1, <2>2, <2>3, <2>4, <2>5 DEF StoreOK, iv, rt2
<1>7. CASE Pended(r, x, r2)
  <2>1. x = "marker" /\ r2.foreign /\ r2.pri = r.pri /\ r2.jrn = x /\ r.pri # None /\ rt2 = rt
    BY <1>0, <1>1, <1>7 DEF Pended, RootItem, rt, rt2, RawGet
  <2>2. RootItem(r2)
    BY <2>1 DEF RootItem
  <2>3. RootInv(iv, r2) /\ ServedInv(i, r2, ps)
    BY <1>0, <1>2, <1>3, <2>1 DEF RootInv, ServedInv, Unmanaged, iv, Serving, Publishing
  <2> QED BY <1>1, <2>1, <2>2, <2>3 DEF StoreOK, iv, rt2
<1>8. CASE Reverted(r, x, r2)
  <2>1. x = None /\ r2.pri = None /\ ~r2.foreign /\ r2.jrn = r.jrn /\ r.jrn # None
    BY <1>8 DEF Reverted
  <2>2. RootItem(r2) /\ rt2 = "marker"
    BY <1>1, <2>1 DEF RootItem, rt2, RawGet
  <2>3. iv # None /\ iv.state = "Deleting"
    BY <1>0, <1>1, <1>2, <2>1 DEF RootInv, Unmanaged
  <2>4. LegacyInv(iv, rt2, ps) /\ RootInv(iv, r2) /\ ServedInv(i, r2, ps)
    BY <1>4, <2>2, <2>3 DEF LegacyInv, RootInv, ServedInv, Unmanaged, iv, Serving, Publishing
  <2> QED BY <1>1, <2>2, <2>4 DEF StoreOK, iv, rt2
<1> QED BY <1>5, <1>6, <1>7, <1>8 DEF Landed

LEMMA PartStore ==
  ASSUME NEW i \in Items(Inventories), NEW r \in Items(RootContents),
         NEW ps \in [0 .. MaxGen -> SUBSET Parts], NEW ps2 \in [0 .. MaxGen -> SUBSET Parts],
         NEW u \in 0 .. MaxGen, NEW o, NEW vs, NEW d, NEW g \in 0 .. MaxGen, NEW k,
         StoreOK(i, r, ps, u), PartMove(o, RawGet(i), d, g, vs, u),
         ps2[g] = After(d, ps[g], k), \A h \in 0 .. MaxGen : h # g => ps2[h] = ps[h]
  PROVE  StoreOK(i, r, ps2, u)
<1> DEFINE iv == RawGet(i)
           rt == RawGet(r)
<1>1. /\ iv # None => Shape(iv, u)
      /\ InventoryItem(i, u) /\ RootItem(r)
      /\ Named(iv, ps) /\ LegacyInv(iv, rt, ps) /\ RootInv(iv, r) /\ ServedInv(i, r, ps)
  BY DEF StoreOK
<1>2. iv # None /\ iv \in Inventories
  BY DEF PartMove, StageMove, EraseMove, RawGet, Items
<1>3. /\ iv.primary \in 0 .. MaxGen /\ iv.secondary \in 0 .. MaxGen
      /\ iv.state # "DeletingLegacyV1" => iv.primary \in Generations
      /\ iv.state \in Paired => iv.secondary \in Generations
      /\ 0 \notin Generations /\ 0 \in 0 .. MaxGen /\ Generations \subseteq 0 .. MaxGen
  BY <1>1, <1>2, ShapeRange, Bounds DEF Generations
<1> HIDE DEF iv, rt
<1>4. CASE d = "write" /\ StageMove(iv, g, u)
  <2>1. g \in Generations /\ (g = iv.primary \/ g = iv.secondary)
    BY <1>3, <1>4 DEF StageMove, Paired
  <2>2. Named(iv, ps2)
    BY <1>1, <1>2, <1>3, <2>1 DEF Named
  <2>3. LegacyInv(iv, rt, ps2)
    <3>1. ps2[0] = ps[0]
      BY <1>3, <2>1
    <3> QED BY <1>1, <3>1 DEF LegacyInv
  <2>4. ServedInv(i, r, ps2)
    <3>1. iv.state \in Serving => ps2[iv.primary] = ps[iv.primary]
      BY <1>1, <1>2, <1>3, <1>4 DEF StageMove, Serving, Shape, Paired
    <3>2. iv.state \notin Publishing
      BY <1>4 DEF StageMove, Publishing
    <3> QED BY <1>1, <3>1, <3>2 DEF ServedInv, iv
  <2> QED BY <1>1, <2>2, <2>3, <2>4 DEF StoreOK, iv, rt
<1>5. CASE d = "erase" /\ EraseMove(iv, g)
  <2>0. ps2[g] \subseteq ps[g]
    BY <1>5 DEF After
  <2>1. \A h \in 0 .. MaxGen : ps2[h] \subseteq ps[h]
    BY <2>0
  <2>2. Named(iv, ps2)
    BY <1>1, <1>3, <2>1 DEF Named
  <2>3. LegacyInv(iv, rt, ps2)
    <3>1. ps2[0] \subseteq ps[0]
      BY <1>3, <2>1
    <3>2. iv.state = "PreparingLegacy" => ps2[0] = ps[0]
      BY <1>3, <1>5 DEF EraseMove, Paired
    <3> QED BY <1>1, <1>2, <3>1, <3>2 DEF LegacyInv, Unmanaged
  <2>4. ServedInv(i, r, ps2)
    <3>1. iv.state \in Serving \cup Publishing => ps2[iv.primary] = ps[iv.primary]
      BY <1>1, <1>2, <1>3, <1>5 DEF EraseMove, Serving, Publishing, Shape, Paired
    <3> QED BY <1>1, <3>1 DEF ServedInv, iv
  <2> QED BY <1>1, <2>2, <2>3, <2>4 DEF StoreOK, iv, rt
<1> QED BY <1>4, <1>5 DEF PartMove, iv

\* A call that changes no answer leaves a store in order.
LEMMA ShiftedStore ==
  ASSUME NEW i, NEW i2, NEW r, NEW r2, NEW ps, NEW u, StoreOK(i, r, ps, u),
         \/ Shifted(i, i2) /\ r2 = r /\ RawGet(r) = "marker"
         \/ Shifted(r, r2) /\ i2 = i
  PROVE  StoreOK(i2, r2, ps, u)
<1>0. "marker" # None
  BY Bounds
<1>1. RawGet(i2) = RawGet(i) /\ RawGet(r2) = RawGet(r)
  BY DEF Shifted
<1>2. InventoryItem(i2, u) /\ RootItem(r2)
  BY <1>1 DEF Shifted, StoreOK, InventoryItem, RootItem
<1>3. RootInv(RawGet(i), r2)
  BY <1>1 DEF Shifted, StoreOK, RootInv
<1>4. ServedInv(i2, r2, ps)
  <2>1. CASE Shifted(i, i2) /\ r2 = r /\ RawGet(r) = "marker"
    BY <1>0, <1>1, <2>1 DEF StoreOK, ServedInv
  <2>2. CASE Shifted(r, r2) /\ i2 = i
    BY <1>1, <2>2 DEF StoreOK, ServedInv
  <2> QED BY <2>1, <2>2
<1> QED BY <1>1, <1>2, <1>3, <1>4 DEF StoreOK

-----------------------------------------------------------------------------
\* The lists a mutation starts with.

\* Concatenation, kept opaque.
Cat(a, b) == a \o b

LEMMA Assoc ==
  ASSUME NEW a \in Seq(Todo), NEW b \in Seq(Todo)
  PROVE  /\ Cat(a, b) \in Seq(Todo)
         /\ \A c \in Seq(Todo) : Cat(Cat(a, b), c) = Cat(a, Cat(b, c))
<1>1. \A c \in Seq(Todo) : (a \o b) \o c = a \o (b \o c)
  BY ConcatAssociative
<1>2. a \o b \in Seq(Todo)
  BY ConcatProperties
<1> QED BY <1>1, <1>2 DEF Cat

LEMMA Assoc5 ==
  ASSUME NEW a \in Seq(Todo), NEW b \in Seq(Todo), NEW c \in Seq(Todo), NEW d \in Seq(Todo), NEW e \in Seq(Todo)
  PROVE  /\ Cat(Cat(Cat(Cat(a, b), c), d), e) = Cat(a, Cat(b, Cat(c, Cat(d, e))))
         /\ Cat(a, Cat(b, Cat(c, Cat(d, e)))) \in Seq(Todo)
<1>1. Cat(a, b) \in Seq(Todo) /\ Cat(d, e) \in Seq(Todo)
  BY Assoc
<1>2. Cat(Cat(a, b), c) \in Seq(Todo) /\ Cat(c, Cat(d, e)) \in Seq(Todo)
  BY <1>1, Assoc
<1>3. Cat(Cat(Cat(Cat(a, b), c), d), e) = Cat(Cat(Cat(a, b), c), Cat(d, e))
  BY <1>2, Assoc
<1>4. Cat(Cat(Cat(a, b), c), Cat(d, e)) = Cat(Cat(a, b), Cat(c, Cat(d, e)))
  BY <1>1, Assoc
<1>5. Cat(Cat(a, b), Cat(c, Cat(d, e))) = Cat(a, Cat(b, Cat(c, Cat(d, e))))
  BY <1>2, Assoc
<1>6. Cat(b, Cat(c, Cat(d, e))) \in Seq(Todo)
  BY <1>2, Assoc
<1>7. Cat(a, Cat(b, Cat(c, Cat(d, e)))) \in Seq(Todo)
  BY <1>6, Assoc
<1> QED BY <1>3, <1>4, <1>5, <1>7

LEMMA WriteTypes ==
  ASSUME NEW p \in 0 .. MaxGen, NEW s \in 0 .. MaxGen, NEW state \in InventoryStates
  PROVE  /\ WriteInventory(state, p, s) \in Seq(Todo) /\ DeleteInventory \in Seq(Todo)
         /\ SetRoot \in Seq(Todo) /\ DeleteRoot \in Seq(Todo)
<1>1. /\ Entry(state, p, s) \in Inventories \cup {None} /\ None \in Inventories \cup {None}
      /\ "marker" \in {"marker", None} /\ None \in {"marker", None} /\ <<>> \in Seq(Todo)
  BY EntryType
<1>2. <<InvWrite(Entry(state, p, s))>> \in Seq(Todo) /\ <<InvWrite(None)>> \in Seq(Todo)
  BY <1>1, InvList
<1>3. <<RootWrite("marker")>> \in Seq(Todo) /\ <<RootWrite(None)>> \in Seq(Todo)
  BY <1>1, RootList
<1> QED BY <1>2, <1>3, Writes

LEMMA FromCat ==
  ASSUME NEW g \in 0 .. MaxGen, NEW rest \in Seq(Todo)
  PROVE  /\ From(CleanupGeneration(g), 1, rest) = Cat(CleanupGeneration(g), rest)
         /\ From(StageGeneration(g), 1, rest) = Cat(StageGeneration(g), rest)
         /\ From(CleanupLegacyV1, 1, rest) = Cat(CleanupLegacyV1, rest)
BY FromTypes DEF Cat

LEMMA FinishDeleteList ==
  ASSUME NEW g \in 0 .. MaxGen
  PROVE  /\ FinishDelete(g) = From(CleanupGeneration(g), 1, GoneTail) /\ FinishDelete(g) \in Seq(Todo)
         /\ FinishDeleteLegacyV1 = From(CleanupLegacyV1, 1, GoneTail) /\ FinishDeleteLegacyV1 \in Seq(Todo)
<1>1. /\ CleanupGeneration(g) \in Seq(Todo) /\ CleanupLegacyV1 \in Seq(Todo)
      /\ DeleteRoot \in Seq(Todo) /\ DeleteInventory \in Seq(Todo) /\ GoneTail \in Seq(Todo)
  BY CleanupType, LegacyType, WriteTypes, TailTypes, Bounds DEF InventoryStates
<1>2. /\ FinishDelete(g) = Cat(Cat(CleanupGeneration(g), DeleteRoot), DeleteInventory)
      /\ FinishDeleteLegacyV1 = Cat(Cat(CleanupLegacyV1, DeleteRoot), DeleteInventory)
      /\ GoneTail = Cat(DeleteRoot, DeleteInventory)
  BY DEF FinishDelete, FinishDeleteLegacyV1, GoneTail, Cat
<1>3. /\ FinishDelete(g) = Cat(CleanupGeneration(g), GoneTail)
      /\ FinishDeleteLegacyV1 = Cat(CleanupLegacyV1, GoneTail)
  BY <1>1, <1>2, Assoc
<1>4. FinishDelete(g) \in Seq(Todo) /\ FinishDeleteLegacyV1 \in Seq(Todo)
  BY <1>1, <1>3, Assoc
<1>5. /\ From(CleanupGeneration(g), 1, GoneTail) = Cat(CleanupGeneration(g), GoneTail)
      /\ From(CleanupLegacyV1, 1, GoneTail) = Cat(CleanupLegacyV1, GoneTail)
  BY <1>1, FromCat
<1> QED BY <1>3, <1>4, <1>5

LEMMA PutInitialList ==
  ASSUME NEW g \in 0 .. MaxGen
  PROVE  /\ PutInitial(g) \in Seq(Todo)
         /\ PutInitial(g) = WriteInventory("PreparingLegacy", g, 0)
                            \o From(StageGeneration(g), 1, PublishTail(g, Root))
<1> DEFINE w == WriteInventory("PreparingLegacy", g, 0)
           s == StageGeneration(g)
           l == WriteInventory("PublishedLegacyV1NeedsRootScrub", g, 0)
           m == WriteInventory("PublishedNeedsRootScrub", g, 0)
           c == CleanupLegacyV1
           a == WriteInventory("Active", g, 0)
           t == PublishTail(g, Root)
<1>1. /\ w \in Seq(Todo) /\ l \in Seq(Todo) /\ m \in Seq(Todo) /\ a \in Seq(Todo) /\ SetRoot \in Seq(Todo)
  BY WriteTypes, Bounds DEF InventoryStates
<1>2. s \in Seq(Todo) /\ c \in Seq(Todo)
  BY StageType, LegacyType
<1>3. RootTail(g) = Cat(SetRoot, a) /\ RootTail(g) \in Seq(Todo) /\ t \in Seq(Todo)
  <2>1. RootTail(g) \in Seq(Todo) /\ t \in Seq(Todo)
    BY TailTypes, PutTails
  <2> QED BY <2>1 DEF RootTail, Cat
<1>4. From(c, 1, RootTail(g)) = Cat(c, Cat(SetRoot, a)) /\ From(s, 1, t) = Cat(s, t)
  BY <1>3, FromCat
<1>5. CASE Root = "legacy"
  <2>1. PutInitial(g) = Cat(Cat(Cat(Cat(w, s), Cat(l, c)), SetRoot), a)
    BY <1>5 DEF PutInitial, Cat
  <2>2. t = l \o From(c, 1, RootTail(g))
    BY <1>5 DEF PublishTail
  <2>3. t = Cat(l, Cat(c, Cat(SetRoot, a)))
    BY <1>4, <2>2 DEF Cat
  <2> HIDE DEF w, s, l, m, c, a, t
  <2>4. Cat(l, c) \in Seq(Todo) /\ Cat(SetRoot, a) \in Seq(Todo)
    BY <1>1, <1>2, Assoc
  <2>5. PutInitial(g) = Cat(w, Cat(s, Cat(Cat(l, c), Cat(SetRoot, a)))) /\ PutInitial(g) \in Seq(Todo)
    <3>1. \A y \in Seq(Todo) : /\ Cat(Cat(Cat(Cat(w, s), y), SetRoot), a) = Cat(w, Cat(s, Cat(y, Cat(SetRoot, a))))
                               /\ Cat(w, Cat(s, Cat(y, Cat(SetRoot, a)))) \in Seq(Todo)
      BY <1>1, <1>2, Assoc5
    <3> QED BY <2>1, <2>4, <3>1
  <2>6. Cat(Cat(l, c), Cat(SetRoot, a)) = t
    BY <1>1, <1>2, <2>3, <2>4, Assoc
  <2>7. PutInitial(g) = Cat(w, From(s, 1, t))
    BY <1>4, <2>5, <2>6
  <2> QED BY <2>5, <2>7 DEF w, s, t, Cat
<1>6. CASE Root # "legacy"
  <2>1. PutInitial(g) = Cat(Cat(Cat(Cat(w, s), m), SetRoot), a)
    BY <1>6 DEF PutInitial, Cat
  <2>2. t = m \o RootTail(g)
    BY <1>6 DEF PublishTail
  <2>3. t = Cat(m, Cat(SetRoot, a))
    BY <1>3, <2>2 DEF Cat
  <2> HIDE DEF w, s, l, m, c, a, t
  <2>4. PutInitial(g) = Cat(w, Cat(s, Cat(m, Cat(SetRoot, a)))) /\ PutInitial(g) \in Seq(Todo)
    <3>1. \A y \in Seq(Todo) : /\ Cat(Cat(Cat(Cat(w, s), y), SetRoot), a) = Cat(w, Cat(s, Cat(y, Cat(SetRoot, a))))
                               /\ Cat(w, Cat(s, Cat(y, Cat(SetRoot, a)))) \in Seq(Todo)
      BY <1>1, <1>2, Assoc5
    <3> QED BY <1>1, <2>1, <3>1
  <2>5. PutInitial(g) = Cat(w, From(s, 1, t))
    BY <1>4, <2>3, <2>4
  <2> QED BY <2>4, <2>5 DEF w, s, t, Cat
<1> QED BY <1>5, <1>6

LEMMA PutManagedList ==
  ASSUME NEW p \in 0 .. MaxGen, NEW g \in 0 .. MaxGen
  PROVE  /\ PutManaged(p, g) \in Seq(Todo)
         /\ PutManaged(p, g) = WriteInventory("ActiveWithPending", p, g)
                               \o From(StageGeneration(g), 1, RetireTail(p, g))
<1> DEFINE w == WriteInventory("ActiveWithPending", p, g)
           s == StageGeneration(g)
           l == WriteInventory("ActiveWithRetiring", g, p)
           c == CleanupGeneration(p)
           a == WriteInventory("Active", g, 0)
           t == RetireTail(p, g)
<1>1. w \in Seq(Todo) /\ l \in Seq(Todo) /\ a \in Seq(Todo) /\ s \in Seq(Todo) /\ c \in Seq(Todo)
  BY WriteTypes, StageType, CleanupType, Bounds DEF InventoryStates
<1>2. t \in Seq(Todo)
  BY PutTails
<1>3. From(c, 1, a) = Cat(c, a) /\ From(s, 1, t) = Cat(s, t)
  BY <1>1, <1>2, FromCat
<1>4. t = l \o From(c, 1, a)
  BY DEF RetireTail
<1>5. PutManaged(p, g) = Cat(Cat(Cat(Cat(w, s), l), c), a)
  BY DEF PutManaged, Cat
<1> HIDE DEF w, s, l, c, a, t
<1>6. t = Cat(l, Cat(c, a))
  BY <1>3, <1>4 DEF Cat
<1>7. PutManaged(p, g) = Cat(w, Cat(s, Cat(l, Cat(c, a)))) /\ PutManaged(p, g) \in Seq(Todo)
  BY <1>1, <1>5, Assoc5
<1>8. PutManaged(p, g) = Cat(w, From(s, 1, t))
  BY <1>3, <1>6, <1>7
<1> QED BY <1>7, <1>8 DEF w, s, t, Cat

\* Every interrupted state is reconciled by the writes its inventory names.
LEMMA ReconcileStarts ==
  ASSUME inv \in Items(Inventories), root \in Items(RootContents), parts \in [0 .. MaxGen -> SUBSET Parts],
         used \in 0 .. MaxGen, StoreInv
  PROVE  /\ Reconcile \in Seq(Todo) /\ Reconciling(Reconcile, Inventory, Root, parts)
         /\ ReconcileReads
<1> DEFINE iv == Inventory
           p == iv.primary
<1>0. /\ <<>> \in Seq(Todo) /\ iv \in Inventories \cup {None}
      /\ 0 \in 0 .. MaxGen /\ \A g \in 0 .. MaxGen : parts[g] \subseteq Parts
  BY Bounds DEF Inventory, RawGet, Items
<1>1. /\ iv # None => Shape(iv, used)
      /\ LegacyInv(iv, Root, parts) /\ ServedInv(inv, root, parts)
  BY DEF StoreInv, StoreOK, Inventory, Root
<1>2. ReconcileReads
  BY <1>1 DEF ReconcileReads, ServedInv, Inventory, Publishing
<1>3. CASE iv = None
  BY <1>0, <1>2, <1>3 DEF Reconcile, Reconciling
<1>4. ASSUME iv # None
      PROVE  Reconcile \in Seq(Todo) /\ Reconciling(Reconcile, iv, Root, parts)
  <2>0. /\ p \in 0 .. MaxGen /\ iv.secondary \in 0 .. MaxGen /\ iv.state \in InventoryStates
    BY <1>0, <1>1, <1>4, ShapeRange
  <2>1. /\ WriteInventory("Active", p, 0) \in Seq(Todo) /\ RootTail(p) \in Seq(Todo)
        /\ DeleteInventory \in Seq(Todo) /\ GoneTail \in Seq(Todo)
    BY <2>0, TailTypes
  <2>2. CASE iv.state = "Active"
    <3>1. Reconcile = <<>>
      BY <1>4, <2>2 DEF Reconcile
    <3> QED BY <1>0, <1>4, <2>2, <3>1 DEF Reconciling, Settling
  <2>3. CASE iv.state = "PreparingLegacy"
    <3>1. Reconcile = CleanupGeneration(p) \o DeleteInventory
      BY <1>4, <2>3 DEF Reconcile
    <3>2. Reconcile = From(CleanupGeneration(p), 1, DeleteInventory) /\ Reconcile \in Seq(Todo)
      BY <2>0, <2>1, <3>1, FromTypes
    <3>3. Cleaning(Reconcile, p, DeleteInventory, parts)
      BY <1>0, <2>0, <3>2, Starts
    <3> QED BY <1>4, <2>3, <3>2, <3>3 DEF Reconciling
  <2>4. CASE iv.state = "PublishedNeedsRootScrub"
    <3>1. Reconcile = RootTail(p)
      BY <1>4, <2>4 DEF Reconcile, RootTail
    <3> QED BY <1>4, <2>1, <2>4, <3>1 DEF Reconciling, Settling
  <2>5. CASE iv.state = "PublishedLegacyV1NeedsRootScrub"
    <3>1. Reconcile = (CleanupLegacyV1 \o SetRoot) \o WriteInventory("Active", p, 0)
      BY <1>4, <2>5 DEF Reconcile
    <3>2. CleanupLegacyV1 \in Seq(Todo) /\ SetRoot \in Seq(Todo)
      BY <2>0, LegacyType, WriteTypes
    <3>3. Reconcile = CleanupLegacyV1 \o RootTail(p)
      <4>1. /\ Reconcile = Cat(Cat(CleanupLegacyV1, SetRoot), WriteInventory("Active", p, 0))
            /\ RootTail(p) = Cat(SetRoot, WriteInventory("Active", p, 0))
        BY <3>1 DEF Cat, RootTail
      <4>2. Reconcile = Cat(CleanupLegacyV1, RootTail(p))
        BY <2>1, <3>2, <4>1, Assoc
      <4> QED BY <4>2 DEF Cat
    <3>4. Reconcile = From(CleanupLegacyV1, 1, RootTail(p)) /\ Reconcile \in Seq(Todo)
      BY <2>0, <2>1, <3>3, FromTypes
    <3>5. CleaningLegacy(Reconcile, RootTail(p), parts)
      BY <1>1, <2>0, <3>4, Starts DEF LegacyInv
    <3> QED BY <1>4, <2>5, <3>4, <3>5 DEF Reconciling, Settling
  <2>6. CASE iv.state \in {"ActiveWithPending", "ActiveWithRetiring"}
    <3>1. Reconcile = CleanupGeneration(iv.secondary) \o WriteInventory("Active", p, 0)
      BY <1>4, <2>6 DEF Reconcile
    <3>2. /\ Reconcile = From(CleanupGeneration(iv.secondary), 1, WriteInventory("Active", p, 0))
          /\ Reconcile \in Seq(Todo)
      BY <2>0, <2>1, <3>1, FromTypes
    <3>3. Cleaning(Reconcile, iv.secondary, WriteInventory("Active", p, 0), parts)
      BY <1>0, <2>0, <3>2, Starts
    <3> QED BY <1>4, <2>6, <3>2, <3>3 DEF Reconciling, Settling, Paired
  <2>7. CASE iv.state = "Deleting"
    <3>1. Reconcile = FinishDelete(p)
      BY <1>4, <2>7 DEF Reconcile
    <3>2. Reconcile = From(CleanupGeneration(p), 1, GoneTail) /\ Reconcile \in Seq(Todo)
      BY <2>0, <3>1, FinishDeleteList
    <3>3. Cleaning(Reconcile, p, GoneTail, parts)
      BY <1>0, <2>0, <3>2, Starts
    <3> QED BY <1>4, <2>7, <3>2, <3>3 DEF Reconciling, Settling
  <2>8. CASE iv.state = "DeletingLegacyV1"
    <3>1. Reconcile = FinishDeleteLegacyV1
      BY <1>4, <2>8 DEF Reconcile
    <3>2. Reconcile = From(CleanupLegacyV1, 1, GoneTail) /\ Reconcile \in Seq(Todo)
      BY <2>0, <3>1, FinishDeleteList
    <3>3. CleaningLegacy(Reconcile, GoneTail, parts)
      BY <1>1, <2>0, <3>2, Starts DEF LegacyInv
    <3> QED BY <1>4, <2>8, <3>2, <3>3 DEF Reconciling, Settling
  <2> QED BY <2>0, <2>2, <2>3, <2>4, <2>5, <2>6, <2>7, <2>8 DEF InventoryStates
<1> QED BY <1>2, <1>3, <1>4

-----------------------------------------------------------------------------
\* The invariant over the steps of the mutation lock holder.

Typed ==
  /\ TypeOK
  /\ reader = [pc |-> reader.pc, inv |-> reader.inv, root |-> reader.root,
               held |-> reader.held, got |-> reader.got]
  /\ reader.inv \in Inventories \cup {None} /\ reader.root \in RootContents \cup {None}

\* What a write, whole or interrupted, does to the store.
InvStep ==
  \E x \in Inventories \cup {None} :
    /\ InvMove(op, Inventory, x, Root, parts, val, used) /\ Landed(inv, x, inv')
    /\ inv' \in Items(Inventories) /\ root' = root /\ parts' = parts
RootStep ==
  \E x \in {"marker", None} :
    /\ RootMove(op, Inventory, x, Root, parts) /\ Landed(root, x, root')
    /\ root' \in Items(RootContents) /\ inv' = inv /\ parts' = parts
PartStep ==
  \E d \in {"write", "erase"}, g \in 0 .. MaxGen, k \in Parts :
    /\ PartMove(op, Inventory, d, g, val, used)
    /\ parts' = parts \/ parts' = [parts EXCEPT ![g] = After(d, @, k)]
    /\ inv' = inv /\ root' = root

Effect == (InvStep \/ RootStep \/ PartStep) /\ val' = val /\ used' = used

\* What a call of a migration after its delete does to the store.
Shift ==
  /\ parts' = parts /\ val' = val /\ used' = used
  /\ inv' \in Items(Inventories) /\ root' \in Items(RootContents)
  /\ \/ inv' = inv /\ root' = root
     \/ Shifted(inv, inv') /\ Root = "marker" /\ root' = root
     \/ Shifted(root, root') /\ inv' = inv

LEMMA StoreFacts ==
  ASSUME Typed, StoreInv
  PROVE  /\ inv \in Items(Inventories) /\ root \in Items(RootContents)
         /\ parts \in [0 .. MaxGen -> SUBSET Parts] /\ used \in 0 .. MaxGen
         /\ val \in [0 .. MaxGen -> Values] /\ op \in Mutations
         /\ Inventory \in Inventories \cup {None} /\ Root \in RootContents \cup {None}
         /\ Inventory # None => Shape(Inventory, used)
         /\ InventoryItem(inv, used) /\ RootItem(root)
         /\ Named(Inventory, parts) /\ LegacyInv(Inventory, Root, parts)
         /\ RootInv(Inventory, root) /\ ServedInv(inv, root, parts)
         /\ inv.foreign => inv.pri # None
         /\ root.foreign => root.pri # None
         /\ None \notin Inventories /\ None \notin RootContents
<1>1. /\ inv \in Items(Inventories) /\ root \in Items(RootContents)
      /\ parts \in [0 .. MaxGen -> SUBSET Parts] /\ used \in 0 .. MaxGen
      /\ val \in [0 .. MaxGen -> Values] /\ op \in Mutations
  BY DEF Typed, TypeOK
<1>2. Inventory \in Inventories \cup {None} /\ Root \in RootContents \cup {None}
  BY <1>1 DEF Inventory, Root, RawGet, Items
<1>3. /\ Inventory # None => Shape(Inventory, used)
      /\ InventoryItem(inv, used) /\ RootItem(root)
      /\ Named(Inventory, parts) /\ LegacyInv(Inventory, Root, parts)
      /\ RootInv(Inventory, root) /\ ServedInv(inv, root, parts)
  BY DEF StoreInv, StoreOK, Inventory, Root
<1>4. (inv.foreign => inv.pri # None) /\ (root.foreign => root.pri # None)
  BY <1>3 DEF InventoryItem, RootItem
<1>5. None \notin Inventories /\ None \notin RootContents
  BY KeyringAssumption, NoInventory DEF RootContents
<1> QED BY <1>1, <1>2, <1>3, <1>4, <1>5

LEMMA DoingSame ==
  ASSUME NEW o, NEW o2, NEW todo, NEW iv, NEW rt, NEW ps, NEW vs, NEW u,
         Doing(o, todo, iv, rt, ps, vs, u), o2.kind = o.kind, o2.phase = o.phase, o2.value = o.value
  PROVE  Doing(o2, todo, iv, rt, ps, vs, u)
BY DEF Doing, Putting

\* The ways a mutation updates its record.
LEMMA OpTodo ==
  ASSUME NEW o \in Mutations, NEW l \in Seq(Todo), NEW o2, o2 = [o EXCEPT !.todo = l]
  PROVE  /\ o2 \in Mutations /\ o2.kind = o.kind /\ o2.phase = o.phase /\ o2.value = o.value
         /\ o2.todo = l /\ o2.mig = o.mig
BY DEF Mutations

LEMMA OpMig ==
  ASSUME NEW o \in Mutations, NEW m \in {"none", "inv", "root"}, NEW o2, o2 = [o EXCEPT !.mig = m]
  PROVE  /\ o2 \in Mutations /\ o2.kind = o.kind /\ o2.phase = o.phase /\ o2.value = o.value
         /\ o2.todo = o.todo /\ o2.mig = m
BY DEF Mutations

LEMMA OpTypes ==
  ASSUME NEW o \in Mutations
  PROVE  o.hit \in BOOLEAN /\ o.mig \in {"none", "inv", "root"} /\ o.todo \in Seq(Todo)
BY DEF Mutations

LEMMA EffectStore ==
  ASSUME Typed, StoreInv, Effect
  PROVE  /\ StoreInv' /\ inv' \in Items(Inventories) /\ root' \in Items(RootContents)
         /\ parts' \in [0 .. MaxGen -> SUBSET Parts]
<1>0. /\ inv \in Items(Inventories) /\ root \in Items(RootContents)
      /\ parts \in [0 .. MaxGen -> SUBSET Parts] /\ used \in 0 .. MaxGen
  BY StoreFacts
<1>1. used' = used /\ StoreOK(inv, root, parts, used)
  BY DEF Effect, StoreInv
<1>2. CASE InvStep
  <2>1. PICK x \in Inventories \cup {None} :
          /\ InvMove(op, Inventory, x, Root, parts, val, used) /\ Landed(inv, x, inv')
          /\ inv' \in Items(Inventories) /\ root' = root /\ parts' = parts
    BY <1>2 DEF InvStep
  <2>2. Moved(inv, root, x, parts, used)
    BY <1>0, <1>1, <2>1, InvMoveSound DEF Inventory, Root
  <2>3. StoreOK(inv', root, parts, used)
    BY <1>0, <1>1, <2>1, <2>2, InvStore
  <2> QED BY <1>0, <1>1, <2>1, <2>3 DEF StoreInv
<1>3. CASE RootStep
  <2>1. PICK x \in {"marker", None} :
          /\ RootMove(op, Inventory, x, Root, parts) /\ Landed(root, x, root')
          /\ root' \in Items(RootContents) /\ inv' = inv /\ parts' = parts
    BY <1>3 DEF RootStep
  <2>2. StoreOK(inv, root', parts, used)
    BY <1>0, <1>1, <2>1, RootStore DEF Inventory, Root
  <2> QED BY <1>0, <1>1, <2>1, <2>2 DEF StoreInv
<1>4. CASE PartStep
  <2>1. PICK d \in {"write", "erase"}, g \in 0 .. MaxGen, k \in Parts :
          /\ PartMove(op, Inventory, d, g, val, used)
          /\ parts' = parts \/ parts' = [parts EXCEPT ![g] = After(d, @, k)]
          /\ inv' = inv /\ root' = root
    BY <1>4 DEF PartStep
  <2>2. CASE parts' = parts
    BY <1>0, <1>1, <2>1, <2>2 DEF StoreInv
  <2>3. CASE parts' = [parts EXCEPT ![g] = After(d, @, k)]
    <3>1. After(d, parts[g], k) \in SUBSET Parts
      BY <1>0 DEF After
    <3>2. /\ parts' \in [0 .. MaxGen -> SUBSET Parts] /\ parts'[g] = After(d, parts[g], k)
          /\ \A h \in 0 .. MaxGen : h # g => parts'[h] = parts[h]
      BY <1>0, <2>3, <3>1
    <3>3. StoreOK(inv, root, parts', used)
      BY <1>0, <1>1, <2>1, <3>2, PartStore DEF Inventory
    <3> QED BY <1>0, <1>1, <2>1, <3>2, <3>3 DEF StoreInv
  <2> QED BY <2>1, <2>2, <2>3
<1> QED BY <1>2, <1>3, <1>4 DEF Effect

\* The writes of a mutation are the moves of its list.
LEMMA StepsAreMoves ==
  ASSUME Typed, StoreInv, OpInv, op.todo # <<>>
  PROVE  Advances(op, op.todo, Inventory, Root, parts, val, used) /\ op.kind # "idle"
<1>1. Doing(op, op.todo, Inventory, Root, parts, val, used)
  BY DEF OpInv, OpOK, NoOp
<1>2. op.kind # "idle"
  BY <1>1 DEF Doing, Putting
<1>3. /\ parts \in [0 .. MaxGen -> SUBSET Parts] /\ used \in 0 .. MaxGen
      /\ Inventory \in Inventories \cup {None} /\ (Inventory # None => Shape(Inventory, used))
      /\ LegacyInv(Inventory, Root, parts)
  BY StoreFacts
<1>4. Advances(op, op.todo, Inventory, Root, parts, val, used)
  BY <1>1, <1>3, DoingAdvances
<1> QED BY <1>2, <1>4

LEMMA StepMoves ==
  ASSUME Typed, StoreInv, OpInv, Step
  PROVE  /\ Effect /\ op' \in Mutations
         /\ Doing(op', op'.todo, Inventory', Root', parts', val', used')
         /\ op'.kind = op.kind /\ op'.phase = op.phase /\ op'.value = op.value
         /\ op.mig = "none" /\ op'.mig = "none"
<1> DEFINE t == Head(op.todo)
<1>0. /\ op.todo # <<>> /\ op.mig = "none" /\ op' = [op EXCEPT !.todo = Tail(op.todo)] /\ val' = val /\ used' = used
  BY DEF Step
<1>1. Advances(op, op.todo, Inventory, Root, parts, val, used)
  BY <1>0, StepsAreMoves
<1>2. Tail(op.todo) \in Seq(Todo) /\ op \in Mutations
  BY <1>1, StoreFacts DEF Advances
<1>3. /\ op' \in Mutations /\ op'.kind = op.kind /\ op'.phase = op.phase /\ op'.value = op.value
      /\ op'.todo = Tail(op.todo) /\ op'.mig = "none"
  <2> DEFINE l == Tail(op.todo)
  <2>1. op' = [op EXCEPT !.todo = l] /\ l \in Seq(Todo) /\ op \in Mutations
    BY <1>0, <1>2
  <2> HIDE DEF l
  <2>2. /\ op' \in Mutations /\ op'.kind = op.kind /\ op'.phase = op.phase /\ op'.value = op.value
        /\ op'.todo = l /\ op'.mig = op.mig
    BY <2>1, OpTodo
  <2> QED BY <1>0, <2>2 DEF l
<1>4. \A iv, rt, ps : Doing(op, Tail(op.todo), iv, rt, ps, val, used)
                      => Doing(op', op'.todo, iv, rt, ps, val', used')
  <2>1. \A iv, rt, ps : Doing(op, Tail(op.todo), iv, rt, ps, val, used)
                      => Doing(op', Tail(op.todo), iv, rt, ps, val, used)
    BY <1>3, DoingSame
  <2> QED BY <1>0, <1>3, <2>1
<1>5. /\ CASE t.do = "inv"   -> Apply(inv, t.inv, inv') /\ UNCHANGED <<root, parts>>
           [] t.do = "root"  -> Apply(root, t.root, root') /\ UNCHANGED <<inv, parts>>
           [] t.do = "write" -> /\ parts' = [parts EXCEPT ![t.g] = @ \cup {t.part}]
                                /\ UNCHANGED <<inv, root>>
           [] t.do = "erase" -> /\ parts' = [parts EXCEPT ![t.g] = @ \ {t.part}]
                                /\ UNCHANGED <<inv, root>>
  BY DEF Step
<1> HIDE DEF t
<1>6. ASSUME NEW x \in Inventories \cup {None}, t = InvWrite(x), InvMove(op, Inventory, x, Root, parts, val, used),
             Doing(op, Tail(op.todo), x, Root, parts, val, used)
      PROVE  Effect /\ Doing(op', op'.todo, Inventory', Root', parts', val', used')
  <2>1. t.do = "inv" /\ t.inv = x
    BY <1>6, InvWriteType
  <2>2. inv' = Put(inv, x) /\ RawGet(inv') = x /\ root' = root /\ parts' = parts
    BY <1>5, <2>1 DEF Apply
  <2>3. inv' \in Items(Inventories) /\ Landed(inv, x, inv')
    BY <2>2, StoreFacts, PutLands DEF Landed
  <2>4. Inventory' = x /\ Root' = Root
    BY <2>2 DEF Inventory, Root
  <2> QED BY <1>0, <1>4, <1>6, <2>2, <2>3, <2>4 DEF Effect, InvStep
<1>7. ASSUME NEW x \in {"marker", None}, t = RootWrite(x), RootMove(op, Inventory, x, Root, parts),
             Doing(op, Tail(op.todo), Inventory, x, parts, val, used)
      PROVE  Effect /\ Doing(op', op'.todo, Inventory', Root', parts', val', used')
  <2>1. t.do = "root" /\ t.root = x
    BY <1>7, RootWriteType
  <2>2. root' = Put(root, x) /\ RawGet(root') = x /\ inv' = inv /\ parts' = parts
    BY <1>5, <2>1 DEF Apply
  <2>3. root' \in Items(RootContents) /\ Landed(root, x, root')
    <3>1. x \in RootContents \cup {None}
      BY DEF RootContents
    <3> QED BY <2>2, <3>1, StoreFacts, PutLands DEF Landed
  <2>4. Inventory' = Inventory /\ Root' = x
    BY <2>2 DEF Inventory, Root
  <2> QED BY <1>0, <1>4, <1>7, <2>2, <2>3, <2>4 DEF Effect, RootStep
<1>8. ASSUME NEW d \in {"write", "erase"}, NEW g \in 0 .. MaxGen, NEW k \in Parts, t = PartWrite(d, g, k),
             PartMove(op, Inventory, d, g, val, used),
             \A ps2 : ps2[g] = After(d, parts[g], k) => Doing(op, Tail(op.todo), Inventory, Root, ps2, val, used)
      PROVE  Effect /\ Doing(op', op'.todo, Inventory', Root', parts', val', used')
  <2>1. t.do = d /\ t.g = g /\ t.part = k
    BY <1>8, PartWriteType
  <2>2. parts' = [parts EXCEPT ![g] = After(d, @, k)] /\ inv' = inv /\ root' = root
    <3>1. CASE d = "write"
      BY <1>5, <2>1, <3>1 DEF After
    <3>2. CASE d = "erase"
      BY <1>5, <2>1, <3>2 DEF After
    <3> QED BY <3>1, <3>2
  <2>3. parts'[g] = After(d, parts[g], k)
    <3>1. parts \in [0 .. MaxGen -> SUBSET Parts]
      BY StoreFacts
    <3> QED BY <2>2, <3>1
  <2>4. Inventory' = Inventory /\ Root' = Root
    BY <2>2 DEF Inventory, Root
  <2>5. Doing(op, Tail(op.todo), Inventory, Root, parts', val, used)
    BY <1>8, <2>3
  <2>6. PartStep
    BY <1>8, <2>2 DEF PartStep
  <2> QED BY <1>0, <1>4, <2>4, <2>5, <2>6 DEF Effect
<1> QED BY <1>0, <1>1, <1>3, <1>6, <1>7, <1>8 DEF Advances, t

-----------------------------------------------------------------------------
\* The calls of an ownership migration.

LEMMA Working ==
  ASSUME OpInv, op.mig # "none"
  PROVE  op.kind # "idle" /\ Doing(op, op.todo, Inventory, Root, parts, val, used)
<1>1. Doing(op, op.todo, Inventory, Root, parts, val, used)
  BY DEF OpInv, OpOK, NoOp
<1> QED BY <1>1 DEF Doing, Putting

\* The journal holds the value of the write at hand; no answer changes.
LEMMA JournalCall ==
  ASSUME Typed, StoreInv, OpInv, MigrateJournal
  PROVE  /\ Effect /\ op' \in Mutations /\ op.kind # "idle"
         /\ op'.kind = op.kind /\ op'.phase = op.phase /\ op'.value = op.value /\ op'.todo = op.todo
         /\ Inventory' = Inventory /\ Root' = Root /\ parts' = parts
         /\ MigInv' /\ (op'.mig = "inv" => inv.foreign) /\ (op'.mig = "root" => root.foreign)
<1> DEFINE t == Head(op.todo)
<1>0. /\ op.todo # <<>> /\ op' = [op EXCEPT !.mig = t.do] /\ val' = val /\ used' = used /\ parts' = parts
      /\ \/ t.do = "inv" /\ Migrates(inv, t.inv) /\ inv' = FirstCall(inv, t.inv) /\ root' = root
         \/ t.do = "root" /\ Migrates(root, t.root) /\ root' = FirstCall(root, t.root) /\ inv' = inv
  BY DEF MigrateJournal
<1>1. Advances(op, op.todo, Inventory, Root, parts, val, used) /\ op.kind # "idle"
  BY <1>0, StepsAreMoves
<1>2. /\ op' \in Mutations /\ op'.kind = op.kind /\ op'.phase = op.phase /\ op'.value = op.value
      /\ op'.todo = op.todo /\ op'.mig = t.do
  <2>1. op \in Mutations /\ t.do \in {"inv", "root"}
    BY <1>0, StoreFacts
  <2>2. op' = [op EXCEPT !.mig = t.do]
    BY <1>0
  <2> HIDE DEF t
  <2> QED BY <2>1, <2>2, OpMig
<1> HIDE DEF t
<1>3. ASSUME NEW x \in Inventories \cup {None}, t = InvWrite(x), InvMove(op, Inventory, x, Root, parts, val, used)
      PROVE  /\ Effect /\ Inventory' = Inventory /\ Root' = Root /\ MigInv'
             /\ op'.mig = "inv" /\ inv.foreign
  <2>1. t.do = "inv" /\ t.inv = x
    BY <1>3, InvWriteType
  <2>2. Migrates(inv, x) /\ inv' = FirstCall(inv, x) /\ root' = root
    BY <1>0, <2>1
  <2>3. /\ inv' \in Items(Inventories) /\ Landed(inv, x, inv') /\ Pended(inv, x, inv')
        /\ RawGet(inv') = RawGet(inv)
    BY <2>2, StoreFacts, FirstCallLands
  <2>4. inv.foreign /\ inv'.jrn = x /\ x # None
    BY <2>2, <2>3 DEF Migrates, Pended
  <2>5. Inventory' = Inventory /\ Root' = Root
    BY <2>2, <2>3 DEF Inventory, Root
  <2>6. Root = "marker"
    <3>1. Inventory # None /\ Inventory.state = "Active"
      BY <2>4, StoreFacts DEF InventoryItem, Inventory, RawGet
    <3> QED BY <2>4, <3>1, StoreFacts DEF ServedInv, Serving, Stuck, Inventory, Root
  <2>7. MigInv'
    BY <1>0, <1>2, <1>3, <2>1, <2>4, <2>5, <2>6 DEF MigInv, t
  <2> QED BY <1>0, <1>2, <1>3, <2>1, <2>2, <2>3, <2>4, <2>5, <2>7 DEF Effect, InvStep
<1>4. ASSUME NEW x \in {"marker", None}, t = RootWrite(x), RootMove(op, Inventory, x, Root, parts)
      PROVE  /\ Effect /\ Inventory' = Inventory /\ Root' = Root /\ MigInv'
             /\ op'.mig = "root" /\ root.foreign
  <2>1. t.do = "root" /\ t.root = x /\ x \in RootContents \cup {None}
    BY <1>4, RootWriteType DEF RootContents
  <2>2. Migrates(root, x) /\ root' = FirstCall(root, x) /\ inv' = inv
    BY <1>0, <2>1
  <2>3. /\ root' \in Items(RootContents) /\ Landed(root, x, root') /\ Pended(root, x, root')
        /\ RawGet(root') = RawGet(root)
    BY <2>1, <2>2, StoreFacts, FirstCallLands
  <2>4. root.foreign /\ root'.jrn = x /\ x # None
    BY <2>2, <2>3 DEF Migrates, Pended
  <2>5. Inventory' = Inventory /\ Root' = Root
    BY <2>2, <2>3 DEF Inventory, Root
  <2>6. MigInv'
    BY <1>0, <1>2, <1>4, <2>1, <2>4 DEF MigInv, t
  <2> QED BY <1>0, <1>2, <1>4, <2>1, <2>2, <2>3, <2>4, <2>5, <2>6 DEF Effect, RootStep
<1>5. ASSUME NEW d \in {"write", "erase"}, NEW g \in 0 .. MaxGen, NEW k \in Parts, t = PartWrite(d, g, k)
      PROVE  FALSE
  BY <1>0, <1>5, PartWriteType
<1> QED BY <1>0, <1>1, <1>2, <1>3, <1>4, <1>5 DEF Advances, t

\* A write that has reached its item.
InvLands ==
  \E x \in Inventories \cup {None} :
    InvMove(op, Inventory, x, Root, parts, val, used) /\ Inventory' = x /\ root' = root
RootLands ==
  \E x \in {"marker", None} :
    RootMove(op, Inventory, x, Root, parts) /\ Root' = x /\ inv' = inv

\* The delete of a migration is where the write takes effect.
LEMMA DeleteCall ==
  ASSUME Typed, StoreInv, OpInv, MigInv, op.mig # "none", Migrating.foreign, Becomes(NextCall(Migrating)),
         parts' = parts, val' = val, used' = used
  PROVE  /\ Effect /\ Doing(op, Tail(op.todo), Inventory', Root', parts', val', used')
         /\ Tail(op.todo) \in Seq(Todo)
         /\ op.mig = "inv" =>
              InvLands /\ inv.foreign /\ ~inv'.foreign /\ inv'.jrn # None /\ root' = root /\ Root = "marker"
         /\ op.mig = "root" =>
              RootLands /\ root.foreign /\ ~root'.foreign /\ root'.jrn # None /\ inv' = inv
<1> DEFINE t == Head(op.todo)
<1>0. op.mig \in {"inv", "root"}
  BY StoreFacts, OpTypes
<1>1. CASE op.mig = "inv"
  <2>1. inv.foreign /\ inv' = NextCall(inv) /\ root' = root
    BY <1>1 DEF Migrating, Becomes
  <2>2. inv.jrn # None /\ Root = "marker" /\ op.todo # <<>> /\ t = InvWrite(inv.jrn)
    BY <1>1, <2>1 DEF MigInv
  <2>3. /\ inv \in Items(Inventories) /\ inv' \in Items(Inventories) /\ Reached(inv, inv.jrn, inv')
        /\ inv'.jrn = inv.jrn /\ ~inv'.foreign
    BY <2>1, <2>2, StoreFacts, DeleteCallLands
  <2>4. inv.jrn \in Inventories \cup {None}
    BY <2>3 DEF Items
  <2>5. Advances(op, op.todo, Inventory, Root, parts, val, used)
    BY <2>2, StepsAreMoves
  <2>6. t.do = "inv" /\ t.inv = inv.jrn
    BY <2>2, <2>4, InvWriteType
  <2> HIDE DEF t
  <2>7. /\ \A x \in Inventories \cup {None} : t = InvWrite(x) => x = inv.jrn
        /\ \A x \in {"marker", None} : t # RootWrite(x)
        /\ \A d \in {"write", "erase"}, g \in 0 .. MaxGen, k \in Parts : t # PartWrite(d, g, k)
    BY <2>6, InvWriteType, RootWriteType, PartWriteType
  <2>8. /\ InvMove(op, Inventory, inv.jrn, Root, parts, val, used) /\ Tail(op.todo) \in Seq(Todo)
        /\ Doing(op, Tail(op.todo), inv.jrn, Root, parts, val, used)
    BY <2>5, <2>7 DEF Advances, t
  <2>9. Inventory' = inv.jrn /\ Root' = Root
    BY <2>1, <2>3 DEF Reached, Inventory, Root
  <2>10. Effect
    BY <2>1, <2>3, <2>4, <2>8 DEF Effect, InvStep, Landed
  <2>11. InvLands
    BY <2>1, <2>4, <2>8, <2>9 DEF InvLands
  <2> QED BY <1>1, <2>1, <2>2, <2>3, <2>8, <2>9, <2>10, <2>11
<1>2. CASE op.mig = "root"
  <2>1. root.foreign /\ root' = NextCall(root) /\ inv' = inv
    BY <1>2 DEF Migrating, Becomes
  <2>2. root.jrn # None /\ op.todo # <<>> /\ t = RootWrite(root.jrn)
    BY <1>2, <2>1 DEF MigInv
  <2>3. /\ root \in Items(RootContents) /\ root' \in Items(RootContents) /\ Reached(root, root.jrn, root')
        /\ root'.jrn = root.jrn /\ ~root'.foreign
    BY <2>1, <2>2, StoreFacts, DeleteCallLands
  <2>4. root.jrn \in {"marker", None}
    BY StoreFacts DEF RootItem
  <2>5. Advances(op, op.todo, Inventory, Root, parts, val, used)
    BY <2>2, StepsAreMoves
  <2>6. t.do = "root" /\ t.root = root.jrn
    BY <2>2, <2>4, RootWriteType
  <2> HIDE DEF t
  <2>7. /\ \A x \in Inventories \cup {None} : t # InvWrite(x)
        /\ \A x \in {"marker", None} : t = RootWrite(x) => x = root.jrn
        /\ \A d \in {"write", "erase"}, g \in 0 .. MaxGen, k \in Parts : t # PartWrite(d, g, k)
    BY <2>6, InvWriteType, RootWriteType, PartWriteType
  <2>8. /\ RootMove(op, Inventory, root.jrn, Root, parts) /\ Tail(op.todo) \in Seq(Todo)
        /\ Doing(op, Tail(op.todo), Inventory, root.jrn, parts, val, used)
    BY <2>5, <2>7 DEF Advances, t
  <2>9. Inventory' = Inventory /\ Root' = root.jrn
    BY <2>1, <2>3 DEF Reached, Inventory, Root
  <2>10. Effect
    BY <2>1, <2>3, <2>4, <2>8 DEF Effect, RootStep, Landed
  <2>11. RootLands
    BY <2>1, <2>4, <2>8, <2>9 DEF RootLands
  <2> QED BY <1>2, <2>1, <2>2, <2>3, <2>8, <2>9, <2>10, <2>11
<1> QED BY <1>0, <1>1, <1>2

\* A call after the delete, and one without effect, change no answer.
LEMMA LaterCall ==
  ASSUME Typed, StoreInv, OpInv, MigInv, op.mig # "none", NEW item, Becomes(item),
         item = Migrating \/ (~Migrating.foreign /\ item = NextCall(Migrating)),
         parts' = parts, val' = val, used' = used
  PROVE  /\ Shift /\ StoreInv' /\ Inventory' = Inventory /\ Root' = Root
         /\ op.mig = "inv" => root' = root /\ inv' = item
         /\ op.mig = "root" => inv' = inv /\ root' = item
<1>0. op.mig \in {"inv", "root"} /\ inv \in Items(Inventories) /\ root \in Items(RootContents)
      /\ None \notin Inventories /\ None \notin RootContents
  BY StoreFacts, OpTypes
<1>1. /\ op.mig = "inv" => root' = root /\ inv' = item
      /\ op.mig = "root" => inv' = inv /\ root' = item
  BY DEF Becomes
<1>2. Shift
  <2>1. CASE item = Migrating
    BY <1>0, <1>1, <2>1 DEF Shift, Migrating
  <2>2. CASE op.mig = "inv" /\ ~inv.foreign /\ inv' = NextCall(inv)
    BY <1>0, <1>1, <2>2, LastCallsLand DEF Shift, MigInv
  <2>3. CASE op.mig = "root" /\ ~root.foreign /\ root' = NextCall(root)
    BY <1>0, <1>1, <2>3, LastCallsLand DEF Shift, MigInv
  <2> QED BY <1>0, <1>1, <2>1, <2>2, <2>3 DEF Migrating
<1>3. Inventory' = Inventory /\ Root' = Root
  BY <1>2 DEF Shift, Shifted, Inventory, Root
<1>4. StoreInv'
  <2>1. StoreOK(inv, root, parts, used)
    BY DEF StoreInv
  <2>2. StoreOK(inv', root', parts, used)
    <3>1. CASE inv' = inv /\ root' = root
      BY <2>1, <3>1
    <3>2. CASE Shifted(inv, inv') /\ Root = "marker" /\ root' = root
      BY <2>1, <3>2, ShiftedStore DEF Root
    <3>3. CASE Shifted(root, root') /\ inv' = inv
      BY <2>1, <3>3, ShiftedStore
    <3> QED BY <1>2, <3>1, <3>2, <3>3 DEF Shift
  <2> QED BY <2>2 DEF StoreInv
<1> QED BY <1>1, <1>2, <1>3, <1>4

-----------------------------------------------------------------------------
\* Writes that are refused or fail.

\* A refused erasure leaves an item of our own with a journal.
LEMMA RefusedMoves ==
  ASSUME Typed, StoreInv, OpInv, StepRefused
  PROVE  Effect /\ (Stuck(inv') \/ Stuck(root')) /\ op.kind # "idle"
<1> DEFINE t == Head(op.todo)
<1>0. op.todo # <<>> /\ val' = val /\ used' = used /\ parts' = parts
  BY DEF StepRefused
<1>1. Advances(op, op.todo, Inventory, Root, parts, val, used) /\ op.kind # "idle"
  BY <1>0, StepsAreMoves
<1>2. \/ /\ t.do = "inv" /\ RawGet(Put(inv, t.inv)) # t.inv
         /\ inv' = Put(inv, t.inv) /\ root' = root
      \/ /\ t.do = "root" /\ RawGet(Put(root, t.root)) # t.root
         /\ root' = Put(root, t.root) /\ inv' = inv
  BY DEF StepRefused
<1> HIDE DEF t
<1>3. ASSUME NEW x \in Inventories \cup {None}, t = InvWrite(x), InvMove(op, Inventory, x, Root, parts, val, used)
      PROVE  Effect /\ Stuck(inv')
  <2>1. t.do = "inv" /\ t.inv = x
    BY <1>3, InvWriteType
  <2>2. inv' = Put(inv, x) /\ RawGet(Put(inv, x)) # x /\ root' = root
    BY <1>2, <2>1
  <2>3. inv' \in Items(Inventories) /\ Reverted(inv, x, inv')
    BY <2>2, StoreFacts, PutLands
  <2>4. Stuck(inv')
    BY <2>3 DEF Reverted, Stuck
  <2> QED BY <1>0, <1>3, <2>2, <2>3, <2>4 DEF Effect, InvStep, Landed
<1>4. ASSUME NEW x \in {"marker", None}, t = RootWrite(x), RootMove(op, Inventory, x, Root, parts)
      PROVE  Effect /\ Stuck(root')
  <2>1. t.do = "root" /\ t.root = x /\ x \in RootContents \cup {None}
    BY <1>4, RootWriteType DEF RootContents
  <2>2. root' = Put(root, x) /\ RawGet(Put(root, x)) # x /\ inv' = inv
    BY <1>2, <2>1
  <2>3. root' \in Items(RootContents) /\ Reverted(root, x, root')
    BY <2>1, <2>2, StoreFacts, PutLands
  <2>4. Stuck(root')
    BY <2>3 DEF Reverted, Stuck
  <2> QED BY <1>0, <1>4, <2>2, <2>3, <2>4 DEF Effect, RootStep, Landed
<1>5. ASSUME NEW d \in {"write", "erase"}, NEW g \in 0 .. MaxGen, NEW k \in Parts, t = PartWrite(d, g, k)
      PROVE  FALSE
  BY <1>2, <1>5, PartWriteType
<1> QED BY <1>1, <1>3, <1>4, <1>5 DEF Advances, t

LEMMA FailsMoves ==
  ASSUME Typed, StoreInv, OpInv, StepFails
  PROVE  Effect /\ faults' \in 0 .. MaxFaults /\ op.kind # "idle"
<1> DEFINE t == Head(op.todo)
<1>0. op.todo # <<>> /\ val' = val /\ used' = used /\ faults < MaxFaults /\ faults' = faults + 1
  BY DEF StepFails
<1>1. Advances(op, op.todo, Inventory, Root, parts, val, used) /\ op.kind # "idle"
  BY <1>0, StepsAreMoves
<1>2. /\ CASE t.do = "inv"   -> inv' \in {inv, FirstCall(inv, t.inv)} /\ UNCHANGED <<root, parts>>
           [] t.do = "root"  -> root' \in {root, FirstCall(root, t.root)} /\ UNCHANGED <<inv, parts>>
           [] t.do = "write" -> /\ parts' \in {parts, [parts EXCEPT ![t.g] = @ \cup {t.part}]}
                                /\ UNCHANGED <<inv, root>>
           [] t.do = "erase" -> /\ parts' \in {parts, [parts EXCEPT ![t.g] = @ \ {t.part}]}
                                /\ UNCHANGED <<inv, root>>
  BY DEF StepFails
<1>f. faults' \in 0 .. MaxFaults
  BY <1>0, Bounds DEF Typed, TypeOK
<1> HIDE DEF t
<1>3. ASSUME NEW x \in Inventories \cup {None}, t = InvWrite(x), InvMove(op, Inventory, x, Root, parts, val, used)
      PROVE  Effect
  <2>1. t.do = "inv" /\ t.inv = x
    BY <1>3, InvWriteType
  <2>2. inv' \in {inv, FirstCall(inv, x)} /\ root' = root /\ parts' = parts
    BY <1>2, <2>1
  <2>3. inv' \in Items(Inventories) /\ Landed(inv, x, inv')
    BY <2>2, StoreFacts, FirstCallLands DEF Landed
  <2> QED BY <1>0, <1>3, <2>2, <2>3 DEF Effect, InvStep
<1>4. ASSUME NEW x \in {"marker", None}, t = RootWrite(x), RootMove(op, Inventory, x, Root, parts)
      PROVE  Effect
  <2>1. t.do = "root" /\ t.root = x /\ x \in RootContents \cup {None}
    BY <1>4, RootWriteType DEF RootContents
  <2>2. root' \in {root, FirstCall(root, x)} /\ inv' = inv /\ parts' = parts
    BY <1>2, <2>1
  <2>3. root' \in Items(RootContents) /\ Landed(root, x, root')
    BY <2>1, <2>2, StoreFacts, FirstCallLands DEF Landed
  <2> QED BY <1>0, <1>4, <2>2, <2>3 DEF Effect, RootStep
<1>5. ASSUME NEW d \in {"write", "erase"}, NEW g \in 0 .. MaxGen, NEW k \in Parts, t = PartWrite(d, g, k),
             PartMove(op, Inventory, d, g, val, used)
      PROVE  Effect
  <2>1. t.do = d /\ t.g = g /\ t.part = k
    BY <1>5, PartWriteType
  <2>2. /\ parts' = parts \/ parts' = [parts EXCEPT ![g] = After(d, @, k)]
        /\ inv' = inv /\ root' = root
    <3>1. CASE d = "write"
      BY <1>2, <2>1, <3>1 DEF After
    <3>2. CASE d = "erase"
      BY <1>2, <2>1, <3>2 DEF After
    <3> QED BY <3>1, <3>2
  <2> QED BY <1>0, <1>5, <2>2 DEF Effect, PartStep
<1> QED BY <1>1, <1>f, <1>3, <1>4, <1>5 DEF Advances, t

LEMMA EffectStuck ==
  ASSUME Effect
  PROVE  (Stuck(inv) => Stuck(inv')) /\ (Stuck(root) => Stuck(root'))
<1>1. \A i, v, i2 : Landed(i, v, i2) /\ Stuck(i) => Stuck(i2)
  BY DEF Landed, Reached, Pended, Reverted, Stuck
<1>2. CASE InvStep
  BY <1>1, <1>2 DEF InvStep
<1>3. CASE RootStep
  BY <1>1, <1>3 DEF RootStep
<1>4. CASE PartStep
  BY <1>4 DEF PartStep
<1> QED BY <1>2, <1>3, <1>4 DEF Effect

-----------------------------------------------------------------------------
\* How a mutation begins, plans and ends.

LEMMA EmptyLists ==
  ASSUME NEW iv \in Inventories \cup {None}, NEW rt, NEW ps, NEW u \in 0 .. MaxGen, iv # None => Shape(iv, u)
  PROVE  /\ Settling(<<>>, iv, rt, ps) => iv # None /\ iv.state = "Active"
         /\ Reconciling(<<>>, iv, rt, ps) => iv = None \/ iv.state = "Active"
         /\ ~Preparing(<<>>, u, iv, rt, ps)
         /\ Removing(<<>>, iv, rt) => iv = None /\ rt = None
<1> DEFINE none == <<>>
           p == iv.primary
<1>0. none \in Seq(Todo)
  OBVIOUS
<1>1. \A g \in 0 .. MaxGen, rest \in Seq(Todo) : rest # none => ~Cleaning(none, g, rest, ps)
  BY CleaningHead
<1>2. \A rest \in Seq(Todo) : rest # none => ~CleaningLegacy(none, rest, ps)
  BY LegacyHead
<1>3. \A g \in 0 .. MaxGen, rest \in Seq(Todo) : rest # none => ~Staging(none, g, rest, ps)
  BY StagingHead
<1>4. \A x \in Inventories \cup {None}, rest \in Seq(Todo) : <<InvWrite(x)>> \o rest # none
  BY InvList
<1>5. DeleteInventory \in Seq(Todo) /\ DeleteInventory # none /\ GoneTail \in Seq(Todo) /\ GoneTail # none
  BY Bounds, TailTypes
<1>6. DeleteRoot # none
  BY <1>0, Writes, RootList
<1>7. PublishTail(u, rt) \in Seq(Todo) /\ PublishTail(u, rt) # none
  BY PutTails
<1>8. \A g \in 0 .. MaxGen, rest \in Seq(Todo) :
         /\ From(CleanupGeneration(g), 1, rest) \in Seq(Todo) /\ From(StageGeneration(g), 1, rest) \in Seq(Todo)
         /\ From(CleanupLegacyV1, 1, rest) \in Seq(Todo)
  BY FromTypes
<1>9. 0 \in 0 .. MaxGen
  BY Bounds
<1>10. ASSUME iv # None
       PROVE  /\ p \in 0 .. MaxGen /\ iv.secondary \in 0 .. MaxGen
              /\ WriteInventory("Active", p, 0) \in Seq(Todo) /\ WriteInventory("Active", p, 0) # none
              /\ RootTail(p) \in Seq(Todo) /\ RootTail(p) # none
              /\ RetireTail(p, u) \in Seq(Todo) /\ RetireTail(p, u) # none
  <2>1. p \in 0 .. MaxGen /\ iv.secondary \in 0 .. MaxGen
    BY <1>10, ShapeRange
  <2> QED BY <2>1, TailTypes, PutTails
<1> HIDE DEF none
<1>11. \A state \in InventoryStates, q \in 0 .. MaxGen, s \in 0 .. MaxGen, rest \in Seq(Todo) :
         WriteInventory(state, q, s) \o rest # none
  <2>1. \A state \in InventoryStates, q \in 0 .. MaxGen, s \in 0 .. MaxGen :
           /\ Entry(state, q, s) \in Inventories
           /\ WriteInventory(state, q, s) = <<InvWrite(Entry(state, q, s))>>
    BY EntryType, Writes
  <2>2. \A state \in InventoryStates, q \in 0 .. MaxGen, s \in 0 .. MaxGen, rest \in Seq(Todo) :
           <<InvWrite(Entry(state, q, s))>> \o rest # none
    BY <1>4, <2>1
  <2> TAKE state \in InventoryStates, q \in 0 .. MaxGen, s \in 0 .. MaxGen, rest \in Seq(Todo)
  <2>3. WriteInventory(state, q, s) = <<InvWrite(Entry(state, q, s))>>
    BY <2>1
  <2>4. <<InvWrite(Entry(state, q, s))>> \o rest # none
    BY <2>2
  <2> QED BY <2>3, <2>4
<1>12. Settling(none, iv, rt, ps) => iv # None /\ iv.state = "Active"
  BY <1>1, <1>2, <1>5, <1>9, <1>10 DEF Settling
<1>13. Reconciling(none, iv, rt, ps) => iv = None \/ iv.state = "Active"
  BY <1>1, <1>5, <1>10, <1>12 DEF Reconciling
<1>14. ~Preparing(none, u, iv, rt, ps)
  <2>1. "PreparingLegacy" \in InventoryStates /\ "ActiveWithPending" \in InventoryStates
    BY DEF InventoryStates
  <2>2. From(StageGeneration(u), 1, PublishTail(u, rt)) \in Seq(Todo)
    BY <1>7, <1>8
  <2>3. none # WriteInventory("PreparingLegacy", u, 0) \o From(StageGeneration(u), 1, PublishTail(u, rt))
    BY <1>9, <1>11, <2>1, <2>2
  <2>4. iv # None => From(StageGeneration(u), 1, RetireTail(p, u)) \in Seq(Todo)
    BY <1>8, <1>10
  <2>5. iv # None => none # WriteInventory("ActiveWithPending", p, u) \o From(StageGeneration(u), 1, RetireTail(p, u))
    BY <1>10, <1>11, <2>1, <2>4
  <2>6. ~Staging(none, u, PublishTail(u, rt), ps) /\ (iv # None => ~Staging(none, u, RetireTail(p, u), ps))
    BY <1>3, <1>7, <1>10
  <2> QED BY <2>3, <2>5, <2>6 DEF Preparing
<1>15. Removing(none, iv, rt) => iv = None /\ rt = None
  <2>1. "Deleting" \in InventoryStates /\ "DeletingLegacyV1" \in InventoryStates
    BY DEF InventoryStates
  <2>2. iv # None => none # WriteInventory("Deleting", p, 0) \o From(CleanupGeneration(p), 1, GoneTail)
    BY <1>5, <1>8, <1>9, <1>10, <1>11, <2>1
  <2>3. none # WriteInventory("DeletingLegacyV1", 0, 0) \o From(CleanupLegacyV1, 1, GoneTail)
    BY <1>5, <1>8, <1>9, <1>11, <2>1
  <2> QED BY <1>6, <2>2, <2>3 DEF Removing
<1> QED BY <1>12, <1>13, <1>14, <1>15 DEF none

LEMMA StoreGrows ==
  ASSUME NEW i, NEW r, NEW ps, NEW u \in Nat, StoreOK(i, r, ps, u)
  PROVE  StoreOK(i, r, ps, u + 1)
<1>1. \A iv : Shape(iv, u) => Shape(iv, u + 1)
  BY DEF Shape
<1>2. InventoryItem(i, u + 1)
  BY <1>1 DEF StoreOK, InventoryItem
<1> QED BY <1>1, <1>2 DEF StoreOK

StoreTypes ==
  /\ inv \in Items(Inventories) /\ root \in Items(RootContents)
  /\ parts \in [0 .. MaxGen -> SUBSET Parts]
  /\ val \in [0 .. MaxGen -> Values]
  /\ used \in 0 .. MaxGen
  /\ op \in Mutations
  /\ res \in [out : {"ok", "error"}, fault : BOOLEAN]
  /\ faults \in 0 .. MaxFaults

Kept == StoreTypes' /\ StoreInv' /\ OpInv' /\ MigInv' /\ Outcome'

LEMMA NoOpType ==
  NoOp \in Mutations /\ NoOp.kind = "idle" /\ NoOp.phase = "reconcile" /\ NoOp.todo = <<>>
  /\ NoOp.mig = "none"
BY DEF NoOp, Mutations

LEMMA Opened ==
  ASSUME NEW kind \in {"put", "delete"}, NEW v \in Values \cup {None}, NEW l \in Seq(Todo), NEW o,
         o = [kind |-> kind, value |-> v, phase |-> "reconcile", todo |-> l, hit |-> FALSE, mig |-> "none"]
  PROVE  /\ o \in Mutations /\ o.kind = kind /\ o.value = v /\ o.phase = "reconcile" /\ o.todo = l
         /\ o.mig = "none"
BY DEF Mutations

LEMMA BeginKeeps ==
  ASSUME Typed, StoreInv, OpInv, Outcome, NEW kind \in {"put", "delete"},
         NEW v \in Values \cup {None}, kind = "put" => v \in Values, Begin(kind, v)
  PROVE  /\ Kept /\ op'.kind = kind /\ op'.value = v /\ op'.phase = "reconcile" /\ op.kind = "idle"
         /\ res' = res
<1>1. /\ Reconcile \in Seq(Todo) /\ Reconciling(Reconcile, Inventory, Root, parts) /\ ReconcileReads
  BY StoreFacts, ReconcileStarts
<1>2. /\ op' = [kind |-> kind, value |-> v, phase |-> "reconcile", todo |-> Reconcile, hit |-> FALSE, mig |-> "none"]
      /\ res' = res /\ op.kind = "idle"
      /\ inv' = inv /\ root' = root /\ parts' = parts /\ val' = val /\ used' = used /\ faults' = faults
  BY <1>1 DEF Begin, itemVars
<1>3. op' \in Mutations /\ op'.kind = kind /\ op'.value = v /\ op'.phase = "reconcile" /\ op'.todo = Reconcile
      /\ op'.mig = "none"
  BY <1>1, <1>2, Opened
<1>4. OpInv'
  <2>1. Doing(op', op'.todo, Inventory, Root, parts, val, used)
    BY <1>1, <1>3 DEF Doing
  <2>2. Inventory' = Inventory /\ Root' = Root
    BY <1>2 DEF Inventory, Root
  <2> QED BY <1>2, <1>3, <2>1, <2>2 DEF OpInv, OpOK
<1>5. StoreTypes'
  BY <1>2, <1>3 DEF StoreTypes, Typed, TypeOK
<1>6. StoreInv' /\ Outcome' /\ MigInv'
  BY <1>2, <1>3 DEF StoreInv, Outcome, MigInv
<1> QED BY <1>2, <1>3, <1>4, <1>5, <1>6 DEF Kept

\* A mutation returns.
LEMMA ReturnKeeps ==
  ASSUME StoreInv', inv' \in Items(Inventories), root' \in Items(RootContents),
         parts' \in [0 .. MaxGen -> SUBSET Parts], val' \in [0 .. MaxGen -> Values], used' \in 0 .. MaxGen,
         faults' \in 0 .. MaxFaults, NEW out \in {"ok", "error"}, NEW fault \in BOOLEAN, Return(out, fault),
         out = "error" => fault \/ Stuck(inv') \/ Stuck(root')
  PROVE  Kept /\ op'.kind = "idle" /\ res'.out = out
<1>1. op' = NoOp /\ res' = [out |-> out, fault |-> fault]
  BY DEF Return
<1>2. res' \in [out : {"ok", "error"}, fault : BOOLEAN] /\ res'.out = out /\ (res'.fault <=> fault)
  BY <1>1
<1>3. StoreTypes' /\ op'.kind = "idle" /\ op'.mig = "none"
  BY <1>1, <1>2, NoOpType DEF StoreTypes
<1>4. OpInv'
  BY <1>1, NoOpType DEF OpInv, OpOK
<1>5. Outcome' /\ MigInv'
  BY <1>2, <1>3 DEF Outcome, MigInv
<1> QED BY <1>2, <1>3, <1>4, <1>5 DEF Kept

\* A put plans the successor generation, or the root marker is gone because a
\* journal brought back a deleted inventory.
LEMMA PlanPutKeeps ==
  ASSUME Typed, StoreInv, OpInv, Outcome, PlanPut
  PROVE  /\ Kept /\ inv' = inv /\ root' = root /\ parts' = parts /\ op'.mig = "none"
         /\ \/ /\ op'.kind = "put" /\ op'.value = op.value /\ op'.phase = "main" /\ res' = res
               /\ used' = used + 1 /\ val' = [val EXCEPT ![used + 1] = op.value]
            \/ op'.kind = "idle" /\ res'.out = "error" /\ used' = used /\ val' = val
<1> DEFINE g == used + 1
           l == IF Inventory = None THEN PutInitial(g) ELSE PutManaged(Inventory.primary, g)
<1>0. /\ op.kind = "put" /\ op.phase = "reconcile" /\ op.todo = <<>> /\ op.mig = "none"
      /\ inv' = inv /\ root' = root /\ parts' = parts /\ faults' = faults
  BY DEF PlanPut
<1>1. /\ inv \in Items(Inventories) /\ root \in Items(RootContents) /\ parts \in [0 .. MaxGen -> SUBSET Parts]
      /\ used \in 0 .. MaxGen /\ val \in [0 .. MaxGen -> Values] /\ op \in Mutations
      /\ Inventory \in Inventories \cup {None} /\ (Inventory # None => Shape(Inventory, used))
      /\ Named(Inventory, parts) /\ LegacyInv(Inventory, Root, parts) /\ ServedInv(inv, root, parts)
  BY StoreFacts
<1>2. Inventory' = Inventory /\ Root' = Root
  BY <1>0 DEF Inventory, Root
<1>3. Inventory = None \/ Inventory.state = "Active"
  <2>1. Doing(op, op.todo, Inventory, Root, parts, val, used)
    BY <1>0, NoOpType DEF OpInv, OpOK
  <2>2. Reconciling(<<>>, Inventory, Root, parts)
    BY <1>0, <2>1 DEF Doing, Putting
  <2> QED BY <1>1, <2>2, EmptyLists
<1>4. Inventory = None => RootAdmits
  BY <1>1 DEF RootAdmits, LegacyInv, Unmanaged, LegacyReadable
<1>5. CASE Inventory # None => Root = "marker"
  <2>1. /\ g <= MaxGen /\ used' = g /\ val' = [val EXCEPT ![g] = op.value]
        /\ op' = [op EXCEPT !.phase = "main", !.todo = l] /\ res' = res
    BY <1>4, <1>5 DEF PlanPut
  <2>2. g \in 0 .. MaxGen /\ g \in Generations /\ g # 0 /\ used \in Nat
    BY <1>1, <2>1, Bounds DEF Generations
  <2>3. op.value \in Values
    BY <1>0 DEF OpInv
  <2>4. val' \in [0 .. MaxGen -> Values] /\ val'[g] = op.value
    BY <1>1, <2>1, <2>2, <2>3
  <2>5. parts[g] = {} /\ (Inventory # None => Inventory.primary # g /\ Inventory.primary \in 0 .. MaxGen)
    <3>1. Inventory # None => Inventory.primary \in 1 .. used /\ Inventory.secondary = 0
      BY <1>1, <1>3 DEF Shape, Paired
    <3>2. Inventory # None => /\ Inventory.primary # g /\ Inventory.primary \in 0 .. MaxGen
                              /\ Inventory.secondary # g
      <4>1. used \in Nat /\ MaxGen \in Nat /\ used <= MaxGen /\ g = used + 1
        BY <1>1, Bounds
      <4> HIDE DEF g
      <4> QED BY <3>1, <4>1
    <3> HIDE DEF g
    <3> QED BY <1>1, <2>2, <3>2 DEF Named
  <2>6. l \in Seq(Todo) /\ Preparing(l, g, Inventory, Root, parts)
    <3>1. CASE Inventory = None
      <4>1. l \in Seq(Todo) /\ l = WriteInventory("PreparingLegacy", g, 0) \o From(StageGeneration(g), 1, PublishTail(g, Root))
        BY <2>2, <3>1, PutInitialList
      <4> HIDE DEF l, g
      <4> QED BY <2>5, <3>1, <4>1 DEF Preparing
    <3>2. CASE Inventory # None
      <4>1. /\ l \in Seq(Todo)
            /\ l = WriteInventory("ActiveWithPending", Inventory.primary, g)
                   \o From(StageGeneration(g), 1, RetireTail(Inventory.primary, g))
        BY <2>2, <2>5, <3>2, PutManagedList
      <4> HIDE DEF l, g
      <4> QED BY <1>3, <1>5, <2>5, <3>2, <4>1 DEF Preparing
    <3> QED BY <3>1, <3>2
  <2> HIDE DEF l
  <2>7. /\ op' \in Mutations /\ op'.kind = op.kind /\ op'.value = op.value /\ op'.phase = "main" /\ op'.todo = l /\ op'.mig = op.mig
    <3>1. op' = [op EXCEPT !.phase = "main", !.todo = l] /\ l \in Seq(Todo) /\ op \in Mutations
      BY <1>1, <2>1, <2>6
    <3> DEFINE o1 == [op EXCEPT !.phase = "main"]
    <3>2. op' = [o1 EXCEPT !.todo = l]
      BY <3>1
    <3>4. l \in Seq(Todo) /\ op \in Mutations
      BY <3>1
    <3>5. o1 \in Mutations /\ o1.kind = op.kind /\ o1.value = op.value /\ o1.phase = "main" /\ o1.mig = op.mig
      BY <3>4 DEF Mutations
    <3> HIDE DEF o1
    <3> QED BY <3>2, <3>4, <3>5 DEF Mutations
  <2>8. OpInv'
    <3>1. Putting(op', val', used')
      BY <1>0, <2>1, <2>2, <2>4, <2>7 DEF Putting
    <3>2. Doing(op', op'.todo, Inventory', Root', parts', val', used')
      BY <1>0, <1>2, <2>1, <2>6, <2>7, <3>1 DEF Doing
    <3> QED BY <1>0, <2>3, <2>7, <3>2 DEF OpInv, OpOK
  <2>9. StoreInv'
    BY <1>0, <2>1, <2>2, StoreGrows DEF StoreInv
  <2>10. StoreTypes' /\ Outcome' /\ MigInv'
    <3>1. res' \in [out : {"ok", "error"}, fault : BOOLEAN] /\ faults' \in 0 .. MaxFaults
      BY <1>0, <2>1 DEF Typed, TypeOK
    <3>2. Outcome' /\ MigInv'
      BY <1>0, <2>1, <2>7 DEF Outcome, MigInv
    <3> QED BY <1>0, <1>1, <2>1, <2>2, <2>4, <2>7, <3>1, <3>2 DEF StoreTypes
  <2> QED BY <1>0, <2>1, <2>7, <2>8, <2>9, <2>10 DEF Kept
<1>6. CASE ~(Inventory # None => Root = "marker")
  <2>1. Return("error", op.hit) /\ used' = used /\ val' = val
    BY <1>6 DEF PlanPut
  <2>2. Stuck(inv)
    BY <1>1, <1>3, <1>6 DEF ServedInv, Serving, Inventory, Root
  <2>3. StoreInv' /\ faults' \in 0 .. MaxFaults /\ op.hit \in BOOLEAN /\ Stuck(inv')
    BY <1>0, <1>1, <2>1, <2>2 DEF StoreInv, Typed, TypeOK, Mutations
  <2>4. Kept /\ op'.kind = "idle" /\ res'.out = "error"
    BY <1>0, <1>1, <2>1, <2>3, ReturnKeeps
  <2>5. op'.mig = "none"
    BY <2>1, NoOpType DEF Return
  <2> QED BY <1>0, <2>1, <2>4, <2>5
<1> QED BY <1>5, <1>6

LEMMA PlanDeleteKeeps ==
  ASSUME Typed, StoreInv, OpInv, Outcome, PlanDelete
  PROVE  /\ Kept /\ inv' = inv /\ root' = root /\ parts' = parts /\ used' = used /\ val' = val
         /\ op'.kind = "delete" /\ op'.value = op.value /\ op'.phase = "main" /\ res' = res
<1> DEFINE l == DeleteUnlocked
           p == Inventory.primary
<1>0. /\ op.kind = "delete" /\ op.phase = "reconcile" /\ op.todo = <<>> /\ op.mig = "none"
      /\ inv' = inv /\ root' = root /\ parts' = parts /\ faults' = faults /\ val' = val /\ used' = used
  BY DEF PlanDelete, itemVars
<1>1. /\ inv \in Items(Inventories) /\ root \in Items(RootContents) /\ parts \in [0 .. MaxGen -> SUBSET Parts]
      /\ used \in 0 .. MaxGen /\ val \in [0 .. MaxGen -> Values] /\ op \in Mutations
      /\ Inventory \in Inventories \cup {None} /\ (Inventory # None => Shape(Inventory, used))
      /\ LegacyInv(Inventory, Root, parts)
  BY StoreFacts
<1>2. Inventory' = Inventory /\ Root' = Root
  BY <1>0 DEF Inventory, Root
<1>3. Inventory = None \/ Inventory.state = "Active"
  <2>1. Doing(op, op.todo, Inventory, Root, parts, val, used)
    BY <1>0, NoOpType DEF OpInv, OpOK
  <2>2. Reconciling(<<>>, Inventory, Root, parts)
    BY <1>0, <2>1 DEF Doing, Putting
  <2> QED BY <1>1, <2>2, EmptyLists
<1>4. Inventory = None => RootAdmits
  BY <1>1 DEF RootAdmits, LegacyInv, Unmanaged, LegacyReadable
<1>5. op' = [op EXCEPT !.phase = "main", !.todo = l] /\ res' = res
  BY <1>4 DEF PlanDelete
<1>6. l \in Seq(Todo) /\ Removing(l, Inventory, Root)
  <2>0. 0 \in 0 .. MaxGen /\ "Deleting" \in InventoryStates /\ "DeletingLegacyV1" \in InventoryStates
    BY Bounds DEF InventoryStates
  <2>1. CASE Inventory # None
    <3>1. p \in 0 .. MaxGen
      BY <1>1, <2>1, ShapeRange
    <3>2. FinishDelete(p) = From(CleanupGeneration(p), 1, GoneTail) /\ FinishDelete(p) \in Seq(Todo)
      BY <3>1, FinishDeleteList
    <3>3. l = WriteInventory("Deleting", p, 0) \o FinishDelete(p)
      BY <2>1 DEF DeleteUnlocked
    <3>4. WriteInventory("Deleting", p, 0) \in Seq(Todo)
      BY <2>0, <3>1, WriteTypes
    <3>5. l \in Seq(Todo)
      <4>1. l = Cat(WriteInventory("Deleting", p, 0), FinishDelete(p))
        BY <3>3 DEF Cat
      <4> QED BY <3>2, <3>4, <4>1, Assoc
    <3> HIDE DEF l
    <3> QED BY <1>3, <2>1, <3>2, <3>3, <3>5 DEF Removing
  <2>2. CASE Inventory = None /\ Root = "legacy"
    <3>1. /\ FinishDeleteLegacyV1 = From(CleanupLegacyV1, 1, GoneTail) /\ FinishDeleteLegacyV1 \in Seq(Todo)
      BY <2>0, FinishDeleteList
    <3>2. l = WriteInventory("DeletingLegacyV1", 0, 0) \o FinishDeleteLegacyV1
      BY <2>2 DEF DeleteUnlocked
    <3>3. WriteInventory("DeletingLegacyV1", 0, 0) \in Seq(Todo)
      BY <2>0, WriteTypes
    <3>4. l \in Seq(Todo)
      <4>1. l = Cat(WriteInventory("DeletingLegacyV1", 0, 0), FinishDeleteLegacyV1)
        BY <3>2 DEF Cat
      <4> QED BY <3>1, <3>3, <4>1, Assoc
    <3> HIDE DEF l
    <3> QED BY <2>2, <3>1, <3>2, <3>4 DEF Removing
  <2>3. CASE Inventory = None /\ Root # "legacy"
    <3>1. l = DeleteRoot
      BY <2>3 DEF DeleteUnlocked
    <3>2. DeleteRoot \in Seq(Todo)
      BY <2>0, WriteTypes
    <3> HIDE DEF l
    <3> QED BY <2>3, <3>1, <3>2 DEF Removing
  <2> QED BY <2>1, <2>2, <2>3
<1> HIDE DEF l
<1>7. /\ op' \in Mutations /\ op'.kind = op.kind /\ op'.value = op.value /\ op'.phase = "main" /\ op'.todo = l /\ op'.mig = op.mig
  <2>1. op' = [op EXCEPT !.phase = "main", !.todo = l] /\ l \in Seq(Todo) /\ op \in Mutations
    BY <1>1, <1>5, <1>6
  <2> DEFINE o1 == [op EXCEPT !.phase = "main"]
  <2>2. op' = [o1 EXCEPT !.todo = l]
    BY <2>1
  <2>4. l \in Seq(Todo) /\ op \in Mutations
    BY <2>1
  <2>5. o1 \in Mutations /\ o1.kind = op.kind /\ o1.value = op.value /\ o1.phase = "main" /\ o1.mig = op.mig
    BY <2>4 DEF Mutations
  <2> HIDE DEF o1
  <2> QED BY <2>2, <2>4, <2>5 DEF Mutations
<1>8. OpInv'
  <2>1. Doing(op', op'.todo, Inventory', Root', parts', val', used')
    BY <1>0, <1>2, <1>6, <1>7 DEF Doing
  <2> QED BY <1>0, <1>7, <2>1 DEF OpInv, OpOK
<1>9. StoreInv' /\ Outcome' /\ MigInv'
  BY <1>0, <1>5, <1>7 DEF StoreInv, Outcome, MigInv
<1>10. StoreTypes'
  BY <1>0, <1>1, <1>5, <1>7 DEF StoreTypes, Typed, TypeOK
<1> QED BY <1>0, <1>5, <1>7, <1>8, <1>9, <1>10 DEF Kept

\* A mutation that has nothing left has had its effect.
LEMMA FinishKeeps ==
  ASSUME Typed, StoreInv, OpInv, Outcome, Finish
  PROVE  /\ Kept /\ inv' = inv /\ root' = root /\ parts' = parts /\ used' = used /\ val' = val
         /\ op'.kind = "idle" /\ res'.out = "ok"
         /\ \/ /\ op.kind = "put" /\ op.value \in Values /\ Inventory # None /\ Inventory.state = "Active"
               /\ Inventory.primary = used /\ Root = "marker" /\ val[used] = op.value /\ parts[used] = Parts
            \/ op.kind = "delete" /\ Inventory = None /\ Root = None
<1>0. /\ op.phase = "main" /\ op.todo = <<>> /\ Return("ok", op.hit)
      /\ inv' = inv /\ root' = root /\ parts' = parts /\ faults' = faults /\ val' = val /\ used' = used
  BY DEF Finish, itemVars
<1>1. /\ inv \in Items(Inventories) /\ root \in Items(RootContents) /\ parts \in [0 .. MaxGen -> SUBSET Parts]
      /\ used \in 0 .. MaxGen /\ val \in [0 .. MaxGen -> Values] /\ op \in Mutations
      /\ Inventory \in Inventories \cup {None} /\ (Inventory # None => Shape(Inventory, used))
      /\ ServedInv(inv, root, parts)
  BY StoreFacts
<1>2. Doing(op, <<>>, Inventory, Root, parts, val, used)
  BY <1>0, NoOpType DEF OpInv, OpOK
<1>3. /\ Settling(<<>>, Inventory, Root, parts) => Inventory # None /\ Inventory.state = "Active"
      /\ ~Preparing(<<>>, used, Inventory, Root, parts)
      /\ Removing(<<>>, Inventory, Root) => Inventory = None /\ Root = None
  BY <1>1, EmptyLists
<1>4. \/ /\ Putting(op, val, used) /\ Inventory # None /\ Inventory.state = "Active"
         /\ Inventory.primary = used /\ Root = "marker"
      \/ op.kind = "delete" /\ Inventory = None /\ Root = None
  BY <1>0, <1>2, <1>3 DEF Doing, Publishing
<1>5. /\ op.kind = "put" => op.value \in Values
      /\ Inventory # None /\ Inventory.state = "Active" /\ Root = "marker" => parts[Inventory.primary] = Parts
  BY <1>1, Bounds DEF OpInv, ServedInv, Serving, Inventory, Root
<1>6. StoreInv' /\ faults' \in 0 .. MaxFaults /\ op.hit \in BOOLEAN
  BY <1>0, <1>1 DEF StoreInv, Typed, TypeOK, Mutations
<1>7. Kept /\ op'.kind = "idle" /\ res'.out = "ok"
  BY <1>0, <1>1, <1>6, ReturnKeeps
<1> QED BY <1>0, <1>4, <1>5, <1>7 DEF Putting

\* Every write keeps the invariant.
LEMMA WritesKeep ==
  ASSUME Typed, StoreInv, OpInv, Outcome, Step \/ StepRefused \/ StepFails
  PROVE  /\ Kept /\ Effect /\ op.kind # "idle" /\ op'.mig = "none"
         /\ \/ /\ op'.kind = op.kind /\ op'.phase = op.phase /\ op'.value = op.value /\ res' = res
            \/ /\ op'.kind = "idle" /\ res'.out = "error"
<1>0. /\ val \in [0 .. MaxGen -> Values] /\ used \in 0 .. MaxGen /\ op \in Mutations
      /\ faults \in 0 .. MaxFaults /\ res \in [out : {"ok", "error"}, fault : BOOLEAN] /\ op.hit \in BOOLEAN
  BY StoreFacts DEF Typed, TypeOK, Mutations
<1>2. ASSUME Effect, NEW fault \in BOOLEAN, Return("error", fault), fault \/ Stuck(inv') \/ Stuck(root'),
             faults' \in 0 .. MaxFaults
      PROVE  Kept /\ op'.kind = "idle" /\ res'.out = "error" /\ op'.mig = "none"
  <2>1. /\ StoreInv' /\ inv' \in Items(Inventories) /\ root' \in Items(RootContents)
        /\ parts' \in [0 .. MaxGen -> SUBSET Parts]
    BY <1>2, EffectStore
  <2>2. val' \in [0 .. MaxGen -> Values] /\ used' \in 0 .. MaxGen
    BY <1>0, <1>2 DEF Effect
  <2>3. op'.mig = "none"
    BY <1>2, NoOpType DEF Return
  <2> QED BY <1>2, <2>1, <2>2, <2>3, ReturnKeeps
<1>3. CASE Step
  <2>0. res' = res /\ faults' = faults /\ op.todo # <<>>
    BY <1>3 DEF Step
  <2>1. /\ Effect /\ op' \in Mutations
        /\ Doing(op', op'.todo, Inventory', Root', parts', val', used')
        /\ op'.kind = op.kind /\ op'.phase = op.phase /\ op'.value = op.value
        /\ op.mig = "none" /\ op'.mig = "none"
    BY <1>3, StepMoves
  <2>2. /\ StoreInv' /\ inv' \in Items(Inventories) /\ root' \in Items(RootContents)
        /\ parts' \in [0 .. MaxGen -> SUBSET Parts]
    BY <2>1, EffectStore
  <2>3. StoreTypes'
    BY <1>0, <2>0, <2>1, <2>2 DEF StoreTypes, Effect
  <2>4. OpInv'
    BY <2>1 DEF OpInv, OpOK
  <2>5. Outcome' /\ MigInv'
    BY <2>0, <2>1, EffectStuck DEF Outcome, MigInv
  <2>6. op.kind # "idle"
    BY <2>0, StepsAreMoves
  <2> QED BY <2>0, <2>1, <2>2, <2>3, <2>4, <2>5, <2>6 DEF Kept
<1>5. CASE StepRefused
  <2>1. Return("error", op.hit) /\ faults' = faults
    BY <1>5 DEF StepRefused
  <2>2. Effect /\ (Stuck(inv') \/ Stuck(root')) /\ op.kind # "idle"
    BY <1>5, RefusedMoves
  <2> QED BY <1>0, <1>2, <2>1, <2>2
<1>6. CASE StepFails
  <2>1. Return("error", TRUE)
    BY <1>6 DEF StepFails
  <2>2. Effect /\ faults' \in 0 .. MaxFaults /\ op.kind # "idle"
    BY <1>6, FailsMoves
  <2> QED BY <1>2, <2>1, <2>2
<1> QED BY <1>3, <1>5, <1>6

-----------------------------------------------------------------------------
\* Every call of an ownership migration keeps it too.

Going == op'.kind = op.kind /\ op'.phase = op.phase /\ op'.value = op.value /\ res' = res
Failing == op'.kind = "idle" /\ res'.out = "error"

LEMMA CallFacts ==
  ASSUME Typed, StoreInv, OpInv
  PROVE  /\ val \in [0 .. MaxGen -> Values] /\ used \in 0 .. MaxGen /\ op \in Mutations
         /\ parts \in [0 .. MaxGen -> SUBSET Parts]
         /\ faults \in 0 .. MaxFaults /\ res \in [out : {"ok", "error"}, fault : BOOLEAN]
         /\ op.mig \in {"none", "inv", "root"} /\ op.todo \in Seq(Todo)
         /\ op.kind = "put" => op.value \in Values
BY StoreFacts, OpTypes DEF Typed, TypeOK, OpInv

\* What is left of a mutation that goes on or returns after a call.
LEMMA CallKeeps ==
  ASSUME Typed, StoreInv, OpInv, Effect \/ (Shift /\ StoreInv'), faults' \in 0 .. MaxFaults
  PROVE  /\ StoreInv'
         /\ Return("error", TRUE) => Kept /\ Failing /\ op'.mig = "none"
         /\ op' \in Mutations /\ Going /\ Doing(op', op'.todo, Inventory', Root', parts', val', used')
              => StoreTypes' /\ OpInv'
<1>1. /\ inv' \in Items(Inventories) /\ root' \in Items(RootContents) /\ StoreInv'
      /\ parts' \in [0 .. MaxGen -> SUBSET Parts] /\ val' = val /\ used' = used
  <2>1. CASE Effect
    BY <2>1, EffectStore DEF Effect
  <2>2. CASE Shift /\ StoreInv'
    BY <2>2, CallFacts DEF Shift
  <2> QED BY <2>1, <2>2
<1>2. val' \in [0 .. MaxGen -> Values] /\ used' \in 0 .. MaxGen
  BY <1>1, CallFacts
<1>3. ASSUME Return("error", TRUE)
      PROVE  Kept /\ Failing /\ op'.mig = "none"
  <2>1. op'.mig = "none"
    BY <1>3, NoOpType DEF Return
  <2>2. Kept /\ op'.kind = "idle" /\ res'.out = "error"
    BY <1>1, <1>2, <1>3, ReturnKeeps
  <2> QED BY <2>1, <2>2 DEF Failing
<1>4. ASSUME op' \in Mutations, Going, Doing(op', op'.todo, Inventory', Root', parts', val', used')
      PROVE  StoreTypes' /\ OpInv'
  <2>1. StoreTypes'
    BY <1>1, <1>2, <1>4, CallFacts DEF StoreTypes, Going
  <2>2. OpInv'
    BY <1>4, CallFacts DEF OpInv, OpOK, Going
  <2> QED BY <2>1, <2>2
<1> QED BY <1>1, <1>3, <1>4

LEMMA JournalKeeps ==
  ASSUME Typed, StoreInv, OpInv, Outcome, MigrateJournal
  PROVE  /\ Kept /\ Effect /\ op.kind # "idle" /\ Going
         /\ Inventory' = Inventory /\ Root' = Root /\ parts' = parts /\ val' = val
<1>0. res' = res /\ faults' = faults /\ op.mig = "none" /\ val' = val /\ used' = used
  BY DEF MigrateJournal
<1>1. /\ Effect /\ op' \in Mutations /\ op.kind # "idle"
      /\ op'.kind = op.kind /\ op'.phase = op.phase /\ op'.value = op.value /\ op'.todo = op.todo
      /\ Inventory' = Inventory /\ Root' = Root /\ parts' = parts
      /\ MigInv' /\ (op'.mig = "inv" => inv.foreign) /\ (op'.mig = "root" => root.foreign)
  BY JournalCall
<1>2. Doing(op', op'.todo, Inventory', Root', parts', val', used')
  <2>1. Doing(op, op.todo, Inventory, Root, parts, val, used)
    BY <1>1, NoOpType DEF OpInv, OpOK
  <2>2. Doing(op', op.todo, Inventory, Root, parts, val, used)
    BY <1>1, <2>1, DoingSame
  <2> QED BY <1>0, <1>1, <2>2
<1>3. Outcome'
  BY <1>0, <1>1, EffectStuck DEF Outcome, Stuck
<1>4. Going
  BY <1>0, <1>1 DEF Going
<1>5. StoreInv' /\ StoreTypes' /\ OpInv'
  BY <1>0, <1>1, <1>2, <1>4, CallFacts, CallKeeps
<1> QED BY <1>0, <1>1, <1>3, <1>4, <1>5 DEF Kept

LEMMA DeleteKeeps ==
  ASSUME Typed, StoreInv, OpInv, MigInv, Outcome, MigrateDelete
  PROVE  /\ Kept /\ Effect /\ op.kind # "idle" /\ Going /\ op'.mig = op.mig /\ parts' = parts /\ val' = val
         /\ \/ op.mig = "inv" /\ InvLands /\ ~Stuck(inv) /\ Root = "marker" /\ Root' = "marker"
            \/ op.mig = "root" /\ RootLands
<1>0. /\ op.mig # "none" /\ Migrating.foreign /\ Becomes(NextCall(Migrating))
      /\ op' = [op EXCEPT !.todo = Tail(op.todo)]
      /\ parts' = parts /\ val' = val /\ used' = used /\ res' = res /\ faults' = faults
  BY DEF MigrateDelete, Rest
<1>1. /\ Effect /\ Doing(op, Tail(op.todo), Inventory', Root', parts', val', used')
      /\ Tail(op.todo) \in Seq(Todo)
      /\ op.mig = "inv" =>
           InvLands /\ inv.foreign /\ ~inv'.foreign /\ inv'.jrn # None /\ root' = root /\ Root = "marker"
      /\ op.mig = "root" =>
           RootLands /\ root.foreign /\ ~root'.foreign /\ root'.jrn # None /\ inv' = inv
  BY <1>0, DeleteCall
<1>2. /\ op' \in Mutations /\ Going /\ op'.todo = Tail(op.todo) /\ op'.mig = op.mig
  <2> DEFINE l == Tail(op.todo)
  <2>1. op' = [op EXCEPT !.todo = l] /\ l \in Seq(Todo) /\ op \in Mutations
    BY <1>0, <1>1, CallFacts
  <2> HIDE DEF l
  <2>2. /\ op' \in Mutations /\ op'.kind = op.kind /\ op'.phase = op.phase /\ op'.value = op.value
        /\ op'.todo = l /\ op'.mig = op.mig
    BY <2>1, OpTodo
  <2> QED BY <1>0, <2>2 DEF l, Going
<1>3. Doing(op', op'.todo, Inventory', Root', parts', val', used')
  <2>1. Doing(op', Tail(op.todo), Inventory', Root', parts', val', used')
    BY <1>1, <1>2, DoingSame DEF Going
  <2> QED BY <1>2, <2>1
<1>4. op.mig = "inv" => Root' = "marker" /\ ~Stuck(inv)
  BY <1>1 DEF Root, Stuck
<1>5. MigInv'
  BY <1>0, <1>1, <1>2, <1>4, CallFacts DEF MigInv
<1>6. Outcome'
  BY <1>0, <1>1, <1>2, CallFacts DEF Outcome, Stuck
<1>7. op.kind # "idle"
  BY <1>0, Working
<1>8. StoreInv' /\ StoreTypes' /\ OpInv'
  BY <1>0, <1>1, <1>2, <1>3, CallFacts, CallKeeps
<1> QED BY <1>0, <1>1, <1>2, <1>4, <1>5, <1>6, <1>7, <1>8, CallFacts DEF Kept

\* The republish and the retirement of the journal.
LEMMA LastCallsKeep ==
  ASSUME Typed, StoreInv, OpInv, MigInv, Outcome, MigrateRepublish \/ MigrateRetire
  PROVE  Kept /\ Shift /\ op.kind # "idle" /\ Going /\ Inventory' = Inventory /\ Root' = Root
<1> DEFINE item == NextCall(Migrating)
<1>0. /\ op.mig # "none" /\ ~Migrating.foreign /\ Becomes(item)
      /\ parts' = parts /\ val' = val /\ used' = used /\ res' = res /\ faults' = faults
  BY StoreFacts DEF MigrateRepublish, MigrateRetire, Migrating
<1>1. /\ Shift /\ StoreInv' /\ Inventory' = Inventory /\ Root' = Root
      /\ op.mig = "inv" => root' = root /\ inv' = item
      /\ op.mig = "root" => inv' = inv /\ root' = item
  BY <1>0, LaterCall
<1>2. op.kind # "idle" /\ Doing(op, op.todo, Inventory, Root, parts, val, used) /\ op.mig \in {"inv", "root"}
  BY <1>0, CallFacts, Working
<1>3. /\ op' \in Mutations /\ op'.kind = op.kind /\ op'.phase = op.phase /\ op'.value = op.value
      /\ op'.todo = op.todo /\ (MigrateRepublish => op'.mig = op.mig) /\ op'.mig \in {op.mig, "none"}
      /\ op'.mig = "none" \/ MigrateRepublish
  <2>1. CASE MigrateRepublish
    BY <2>1, CallFacts DEF MigrateRepublish
  <2>2. CASE MigrateRetire
    <3>1. op' = [op EXCEPT !.mig = "none"] /\ ~MigrateRepublish
      BY <2>2 DEF MigrateRetire, MigrateRepublish
    <3> QED BY <3>1, CallFacts, OpMig
  <2> QED BY <2>1, <2>2
<1>4. Going
  BY <1>0, <1>3 DEF Going
<1>5. Doing(op', op'.todo, Inventory', Root', parts', val', used')
  <2>1. Doing(op', op.todo, Inventory, Root, parts, val, used)
    BY <1>2, <1>3, DoingSame
  <2> QED BY <1>0, <1>1, <1>3, <2>1
<1>6. StoreTypes' /\ OpInv'
  BY <1>0, <1>1, <1>3, <1>4, <1>5, CallFacts, CallKeeps
<1>7. MigInv'
  <2>1. CASE op'.mig = "none"
    BY <2>1 DEF MigInv
  <2>2. CASE MigrateRepublish
    <3>1. op'.mig = op.mig /\ Migrating.pri = None
      BY <1>3, <2>2 DEF MigrateRepublish
    <3>2. CASE op.mig = "inv"
      <4>1. inv'.jrn = inv.jrn /\ ~inv'.foreign
        BY <1>0, <1>1, <3>1, <3>2, StoreFacts, LastCallsLand DEF Migrating, MigInv, Shifted
      <4> QED BY <1>1, <3>1, <3>2, <4>1 DEF MigInv
    <3>3. CASE op.mig = "root"
      <4>1. root'.jrn = root.jrn /\ ~root'.foreign
        BY <1>0, <1>1, <3>1, <3>3, StoreFacts, LastCallsLand DEF Migrating, MigInv, Shifted
      <4> QED BY <1>1, <3>1, <3>3, <4>1 DEF MigInv
    <3> QED BY <1>2, <3>2, <3>3
  <2> QED BY <1>3, <2>1, <2>2
<1>8. Outcome'
  BY <1>0, <1>1, <1>2, <1>3 DEF Outcome
<1> QED BY <1>1, <1>2, <1>4, <1>6, <1>7, <1>8 DEF Kept

LEMMA MigrationFailsKeeps ==
  ASSUME Typed, StoreInv, OpInv, MigInv, MigrationFails
  PROVE  Kept /\ (Effect \/ Shift) /\ op.kind # "idle" /\ Failing /\ op'.mig = "none"
<1>0. /\ op.mig # "none" /\ Return("error", TRUE) /\ parts' = parts /\ val' = val /\ used' = used
      /\ faults < MaxFaults /\ faults' = faults + 1
  BY DEF MigrationFails
<1>1. PICK item \in {Migrating, NextCall(Migrating)} : Becomes(item)
  BY DEF MigrationFails
<1>2. Effect \/ (Shift /\ StoreInv')
  <2>1. CASE Migrating.foreign /\ item = NextCall(Migrating)
    BY <1>0, <1>1, <2>1, DeleteCall
  <2>2. CASE item = Migrating \/ (~Migrating.foreign /\ item = NextCall(Migrating))
    BY <1>0, <1>1, <2>2, LaterCall
  <2> QED BY <1>1, <2>1, <2>2
<1>3. faults' \in 0 .. MaxFaults
  BY <1>0, CallFacts, Bounds
<1> QED BY <1>0, <1>2, <1>3, CallKeeps, Working

LEMMA LeavesKeeps ==
  ASSUME Typed, StoreInv, OpInv, MigInv, Outcome, MigrationLeavesJournal
  PROVE  Kept /\ (Effect \/ Shift) /\ op.kind # "idle" /\ Going /\ op'.mig = "none"
<1>0. /\ op.mig # "none" /\ parts' = parts /\ val' = val /\ used' = used
      /\ op' = [op EXCEPT !.todo = Rest, !.hit = TRUE, !.mig = "none"]
      /\ faults < MaxFaults /\ faults' = faults + 1 /\ res' = res
  BY DEF MigrationLeavesJournal
<1>1. PICK item \in {Migrating, NextCall(Migrating)} : ~item.foreign /\ item.jrn # None /\ Becomes(item)
  BY DEF MigrationLeavesJournal
<1>2. op.kind # "idle" /\ Doing(op, op.todo, Inventory, Root, parts, val, used) /\ op.mig \in {"inv", "root"}
  BY <1>0, CallFacts, Working
<1>3. /\ Effect \/ (Shift /\ StoreInv')
      /\ Rest \in Seq(Todo) /\ Doing(op, Rest, Inventory', Root', parts', val', used')
  <2>1. CASE Migrating.foreign
    <3>1. item = NextCall(Migrating)
      BY <1>1, <2>1
    <3>2. Rest = Tail(op.todo)
      BY <2>1 DEF Rest
    <3> QED BY <1>0, <1>1, <2>1, <3>1, <3>2, DeleteCall
  <2>2. CASE ~Migrating.foreign
    <3>1. Shift /\ StoreInv' /\ Inventory' = Inventory /\ Root' = Root
      BY <1>0, <1>1, <2>2, LaterCall
    <3>2. Rest = op.todo
      BY <2>2 DEF Rest
    <3> QED BY <1>0, <1>2, <3>1, <3>2, CallFacts
  <2> QED BY <2>1, <2>2
<1>4. /\ op' \in Mutations /\ op'.kind = op.kind /\ op'.phase = op.phase /\ op'.value = op.value
      /\ op'.todo = Rest /\ op'.mig = "none"
  <2> DEFINE l == Rest
           o1 == [op EXCEPT !.todo = l]
           o3 == [o1 EXCEPT !.hit = TRUE]
  <2>1. op' = [op EXCEPT !.todo = l, !.hit = TRUE, !.mig = "none"] /\ l \in Seq(Todo) /\ op \in Mutations
    BY <1>0, <1>3, CallFacts
  <2> HIDE DEF l
  <2>2. op' = [o3 EXCEPT !.mig = "none"]
    BY <2>1
  <2>3. /\ o1 \in Mutations /\ o1.kind = op.kind /\ o1.phase = op.phase /\ o1.value = op.value
        /\ o1.todo = l
    BY <2>1, OpTodo
  <2> HIDE DEF o1
  <2>4. /\ o3 \in Mutations /\ o3.kind = o1.kind /\ o3.phase = o1.phase /\ o3.value = o1.value
        /\ o3.todo = o1.todo
    BY <2>3 DEF Mutations
  <2> HIDE DEF o3
  <2>5. /\ op' \in Mutations /\ op'.kind = o3.kind /\ op'.phase = o3.phase /\ op'.value = o3.value
        /\ op'.todo = o3.todo /\ op'.mig = "none"
    BY <2>2, <2>4 DEF Mutations
  <2> QED BY <2>3, <2>4, <2>5 DEF l
<1>5. Going
  BY <1>0, <1>4 DEF Going
<1>6. Doing(op', op'.todo, Inventory', Root', parts', val', used')
  <2>1. Doing(op', Rest, Inventory', Root', parts', val', used')
    BY <1>3, <1>4, DoingSame
  <2> QED BY <1>4, <2>1
<1>7. faults' \in 0 .. MaxFaults
  BY <1>0, CallFacts, Bounds
<1>8. StoreInv' /\ StoreTypes' /\ OpInv'
  BY <1>3, <1>4, <1>5, <1>6, <1>7, CallKeeps
<1>9. Outcome' /\ MigInv'
  <2>1. op.mig = "inv" => inv' = item /\ root' = root
    BY <1>1 DEF Becomes
  <2>2. op.mig = "root" => root' = item /\ inv' = inv
    BY <1>1 DEF Becomes
  <2> QED BY <1>0, <1>1, <1>2, <1>4, <2>1, <2>2 DEF Outcome, MigInv, Stuck
<1> QED BY <1>2, <1>3, <1>4, <1>5, <1>8, <1>9 DEF Kept

-----------------------------------------------------------------------------
\* What a get returns when nothing moves under it.

Plain(rt, vs) == IF rt = None THEN "absent" ELSE IF rt = "legacy" THEN vs[0] ELSE rt

Gets(iv, rt, vs) ==
  IF Unmanaged(iv) THEN Plain(rt, vs)
  ELSE IF iv.state \in {"Deleting", "DeletingLegacyV1"} THEN "deleting" ELSE vs[iv.primary]

LEMMA GetIs ==
  ASSUME NEW i \in Items(Inventories), NEW r \in Items(RootContents), NEW ps \in [0 .. MaxGen -> SUBSET Parts],
         NEW vs \in [0 .. MaxGen -> Values], NEW u \in 0 .. MaxGen, StoreOK(i, r, ps, u)
  PROVE  LET iv == RawGet(i)
             rt == RawGet(r)
         IN  /\ iv \in Inventories \cup {None} /\ rt \in RootContents \cup {None}
             /\ Unmanaged(iv) => Plain(rt, vs) \in Values \cup {"absent"}
             /\ ~Unmanaged(iv) /\ iv.state # "DeletingLegacyV1" => vs[iv.primary] \in Values
             /\ Unmanaged(iv) \/ iv.state \notin Serving \/ rt = "marker" \/ ~Stuck(i)
                  => Get(iv, rt, ps, vs) = Gets(iv, rt, vs)
<1> DEFINE iv == RawGet(i)
           rt == RawGet(r)
<1>0. iv \in Inventories \cup {None} /\ rt \in RootContents \cup {None} /\ vs[0] \in Values
  BY Bounds DEF RawGet, Items
<1>1. /\ iv # None => Shape(iv, u)
      /\ LegacyInv(iv, rt, ps) /\ RootInv(iv, r) /\ ServedInv(i, r, ps)
  BY DEF StoreOK
<1>2. iv # None => /\ iv.primary \in 0 .. MaxGen /\ iv.state \in InventoryStates
                   /\ vs[iv.primary] \in Values
  BY <1>0, <1>1, ShapeRange
<1>3. iv # None =>
        /\ iv.state \in Publishing => ps[iv.primary] = Parts
        /\ iv.state \in Serving =>
             \/ rt = "marker" /\ ps[iv.primary] = Parts
             \/ Stuck(i) /\ ps[iv.primary] = {} /\ rt = None
  BY <1>1 DEF ServedInv
<1>4. Unmanaged(iv) => rt # "marker" /\ (rt = "legacy" => LegacyReadable(ps))
  BY <1>1 DEF RootInv, LegacyInv, LegacyReadable
<1>5. "marker" # None
  BY Bounds
<1> HIDE DEF iv, rt
<1>6. Unmanaged(iv) => GetUnmanaged(rt, ps, vs) = Plain(rt, vs) /\ Plain(rt, vs) \in Values \cup {"absent"}
  BY <1>0, <1>4, Bounds DEF GetUnmanaged, Plain, RootContents
<1>7. CASE Unmanaged(iv)
  <2>1. Get(iv, rt, ps, vs) = GetUnmanaged(rt, ps, vs)
    BY <1>7 DEF Get, Unmanaged
  <2>2. Get(iv, rt, ps, vs) = Gets(iv, rt, vs)
    BY <1>6, <1>7, <2>1 DEF Gets
  <2> QED BY <1>0, <1>6, <1>7, <2>2 DEF iv, rt
<1>8. CASE iv # None /\ iv.state \in {"Deleting", "DeletingLegacyV1"}
  <2>1. Get(iv, rt, ps, vs) = Gets(iv, rt, vs) /\ ~Unmanaged(iv)
    BY <1>8 DEF Get, Gets, Unmanaged
  <2> QED BY <1>0, <1>2, <1>8, <2>1 DEF iv, rt
<1>9. CASE iv # None /\ iv.state \in Publishing
  <2>1. ps[iv.primary] = Parts
    BY <1>3, <1>9
  <2>2. Get(iv, rt, ps, vs) = vs[iv.primary]
    BY <1>9, <2>1 DEF Get, ReadGeneration, Publishing
  <2>3. Get(iv, rt, ps, vs) = Gets(iv, rt, vs) /\ ~Unmanaged(iv)
    BY <1>9, <2>2 DEF Gets, Unmanaged, Publishing
  <2> QED BY <1>0, <1>2, <1>9, <2>3 DEF iv, rt
<1>10. CASE iv # None /\ iv.state \in Serving
  <2>0. ~Unmanaged(iv)
    BY <1>10 DEF Unmanaged, Serving
  <2>1. ASSUME rt = "marker" \/ ~Stuck(i)
        PROVE  Get(iv, rt, ps, vs) = Gets(iv, rt, vs)
    <3>1. rt = "marker" /\ ps[iv.primary] = Parts
      BY <1>3, <1>5, <1>10, <2>1
    <3>2. Get(iv, rt, ps, vs) = vs[iv.primary]
      BY <1>10, <3>1 DEF Get, ReadGeneration, Serving
    <3> QED BY <1>10, <2>0, <3>2 DEF Gets, Serving
  <2> QED BY <1>0, <1>2, <1>10, <2>0, <2>1 DEF iv, rt
<1> QED BY <1>0, <1>2, <1>7, <1>8, <1>9, <1>10 DEF Unmanaged, Serving, Publishing, InventoryStates

LEMMA SecretIs ==
  ASSUME Typed, StoreInv
  PROVE  /\ Unmanaged(Inventory) => Plain(Root, val) \in Values \cup {"absent"}
         /\ ~Unmanaged(Inventory) /\ Inventory.state # "DeletingLegacyV1" => val[Inventory.primary] \in Values
         /\ Unmanaged(Inventory) \/ Inventory.state \notin Serving \/ Root = "marker" \/ ~Stuck(inv)
              => Secret = Gets(Inventory, Root, val)
<1>1. /\ inv \in Items(Inventories) /\ root \in Items(RootContents) /\ parts \in [0 .. MaxGen -> SUBSET Parts]
      /\ val \in [0 .. MaxGen -> Values] /\ used \in 0 .. MaxGen /\ StoreOK(inv, root, parts, used)
  BY StoreFacts DEF StoreInv
<1> QED BY <1>1, GetIs DEF Inventory, Root, Secret

LEMMA SecretNext ==
  ASSUME StoreTypes', StoreInv'
  PROVE  Unmanaged(Inventory') \/ Inventory'.state \notin Serving \/ Root' = "marker" \/ ~Stuck(inv')
              => Secret' = Gets(Inventory', Root', val')
BY GetIs DEF StoreTypes, StoreInv, Inventory, Root, Secret

\* How the secret may change under a mutation.
Crossing(o, s, s2) ==
  \/ s2 = s
  \/ s = "deleting" /\ s2 = "absent"
  \/ o.kind = "put" /\ s # "deleting" /\ s2 = o.value
  \/ o.kind = "delete" /\ s # "deleting" /\ s2 \in {"deleting", "absent"}

\* A write changes what a get returns only at the write that publishes,
\* records the deletion or ends it.
LEMMA MoveCrosses ==
  ASSUME NEW o, NEW iv \in Inventories \cup {None}, NEW x \in Inventories \cup {None}, NEW rt, NEW ps,
         NEW vs \in [0 .. MaxGen -> Values], NEW u \in 0 .. MaxGen,
         iv # None => Shape(iv, u), InvMove(o, iv, x, rt, ps, vs, u),
         Unmanaged(iv) => Plain(rt, vs) \in Values \cup {"absent"}
  PROVE  Crossing(o, Gets(iv, rt, vs), Gets(x, rt, vs))
<1>0. iv # None => iv.primary \in 0 .. MaxGen /\ vs[iv.primary] \in Values /\ vs[iv.primary] # "deleting"
  BY ShapeRange, Bounds
<1>1. 0 \in 0 .. MaxGen /\ "deleting" \notin Values
  BY Bounds
<1>2. Unmanaged(iv) => Plain(rt, vs) # "deleting"
  BY <1>1
<1>3. CASE Putting(o, vs, u) /\ Announce(iv, x, ps, u)
  <2>1. x = Entry("PreparingLegacy", u, 0) /\ x.state = "PreparingLegacy"
    BY <1>1, <1>3, EntryType DEF Announce, InventoryStates
  <2> QED BY <1>3, <2>1 DEF Announce, Unmanaged, Gets, Crossing
<1>4. CASE Putting(o, vs, u) /\ Publish(iv, x, rt, ps, u)
  <2>1. x # None /\ x.state \in Publishing /\ x.primary = u
    BY <1>1, <1>4, EntryType DEF Publish, InventoryStates, Publishing
  <2> QED BY <1>2, <1>4, <2>1 DEF Publish, Putting, Unmanaged, Gets, Crossing, Publishing
<1>5. CASE Putting(o, vs, u) /\ Pend(iv, x, rt, ps, u)
  <2>1. x # None /\ x.state = "ActiveWithPending" /\ x.primary = iv.primary
    BY <1>0, <1>5, EntryType DEF Pend, InventoryStates
  <2> QED BY <1>5, <2>1 DEF Pend, Unmanaged, Gets, Crossing
<1>6. CASE Putting(o, vs, u) /\ Retire(iv, x, rt, ps, u)
  <2>1. x # None /\ x.state = "ActiveWithRetiring" /\ x.primary = u
    BY <1>0, <1>6, EntryType DEF Retire, InventoryStates
  <2> QED BY <1>0, <1>6, <2>1 DEF Retire, Putting, Unmanaged, Gets, Crossing
<1>7. CASE Activate(iv, x, rt)
  <2>1. x # None /\ x.state = "Active" /\ x.primary = iv.primary
    BY <1>0, <1>1, <1>7, EntryType DEF Activate, InventoryStates
  <2> QED BY <1>7, <2>1 DEF Activate, Unmanaged, Gets, Crossing, Publishing
<1>8. CASE Settle(iv, x, ps)
  <2>1. x # None /\ x.state = "Active" /\ x.primary = iv.primary
    BY <1>0, <1>1, <1>8, EntryType DEF Settle, InventoryStates
  <2> QED BY <1>8, <2>1 DEF Settle, Unmanaged, Gets, Crossing, Paired
<1>9. CASE Forget(iv, x, ps)
  BY <1>9 DEF Forget, Unmanaged, Gets, Crossing
<1>10. CASE Gone(iv, x, rt, ps)
  BY <1>10 DEF Gone, Unmanaged, Gets, Plain, Crossing
<1>11. CASE o.kind = "delete" /\ MarkDelete(iv, x)
  <2>1. x # None /\ x.state = "Deleting"
    BY <1>0, <1>1, <1>11, EntryType DEF MarkDelete, InventoryStates
  <2> QED BY <1>0, <1>11, <2>1 DEF MarkDelete, Unmanaged, Gets, Crossing
<1>12. CASE o.kind = "delete" /\ MarkLegacy(iv, x, rt)
  <2>1. x # None /\ x.state = "DeletingLegacyV1"
    BY <1>1, <1>12, EntryType DEF MarkLegacy, InventoryStates
  <2> QED BY <1>2, <1>12, <2>1 DEF MarkLegacy, Unmanaged, Gets, Crossing
<1> QED BY <1>3, <1>4, <1>5, <1>6, <1>7, <1>8, <1>9, <1>10, <1>11, <1>12 DEF InvMove

\* The secret at a write that takes effect in one call.
LEMMA CleanCrosses ==
  ASSUME Typed, StoreInv, StoreTypes', StoreInv', InvLands \/ RootLands, val' = val,
         Root = "marker" \/ ~Stuck(inv), Root' = "marker" \/ ~Stuck(inv')
  PROVE  Crossing(op, Secret, Secret')
<1>0. /\ parts \in [0 .. MaxGen -> SUBSET Parts] /\ used \in 0 .. MaxGen /\ val \in [0 .. MaxGen -> Values]
      /\ Inventory \in Inventories \cup {None} /\ (Inventory # None => Shape(Inventory, used))
  BY StoreFacts
<1>2. /\ Secret = Gets(Inventory, Root, val) /\ Secret' = Gets(Inventory', Root', val)
      /\ Unmanaged(Inventory) => Plain(Root, val) \in Values \cup {"absent"}
  BY SecretIs, SecretNext
<1>4. CASE InvLands
  <2>1. PICK x \in Inventories \cup {None} :
          InvMove(op, Inventory, x, Root, parts, val, used) /\ Inventory' = x /\ root' = root
    BY <1>4 DEF InvLands
  <2>2. Root' = Root
    BY <2>1 DEF Root
  <2> QED BY <1>0, <1>2, <2>1, <2>2, MoveCrosses
<1>5. CASE RootLands
  <2>1. PICK x \in {"marker", None} :
          RootMove(op, Inventory, x, Root, parts) /\ Root' = x /\ inv' = inv
    BY <1>5 DEF RootLands
  <2>2. Inventory' = Inventory
    BY <2>1 DEF Inventory
  <2>3. CASE Scrub(Inventory, x, parts) \/ DropRoot(Inventory, x, parts)
    BY <1>2, <2>1, <2>2, <2>3 DEF Scrub, DropRoot, Gets, Unmanaged, Publishing, Crossing
  <2>4. CASE op.kind = "delete" /\ DropUnmanaged(Inventory, x, Root)
    BY <1>2, <2>1, <2>2, <2>4, Bounds DEF DropUnmanaged, Gets, Plain, Unmanaged, Crossing
  <2> QED BY <2>1, <2>3, <2>4 DEF RootMove
<1> QED BY <1>4, <1>5

LEMMA EffectCrosses ==
  ASSUME Typed, StoreInv, Effect, StoreTypes', StoreInv', ~Journaled', op'.mig = "none"
  PROVE  Crossing(op, Secret, Secret')
<1>1. inv'.jrn = None /\ root'.jrn = None /\ ~Stuck(inv') /\ ~Stuck(inv) /\ val' = val
  BY EffectStuck DEF Journaled, Stuck, Effect
<1>2. Secret = Gets(Inventory, Root, val) /\ Secret' = Gets(Inventory', Root', val)
  BY <1>1, SecretIs, SecretNext
<1>3. \A i, v, i2 : Landed(i, v, i2) /\ i2.jrn = None => i2 = i \/ RawGet(i2) = v
  BY DEF Landed, Reached, Pended, Reverted
<1>4. CASE InvStep
  <2>1. root' = root /\ (inv' = inv \/ InvLands)
    BY <1>1, <1>3, <1>4 DEF InvStep, InvLands, Inventory
  <2>2. CASE inv' = inv
    BY <1>2, <2>1, <2>2 DEF Inventory, Root, Crossing
  <2>3. CASE InvLands
    BY <1>1, <2>3, CleanCrosses
  <2> QED BY <2>1, <2>2, <2>3
<1>5. CASE RootStep
  <2>1. inv' = inv /\ (root' = root \/ RootLands)
    BY <1>1, <1>3, <1>5 DEF RootStep, RootLands, Root
  <2>2. CASE root' = root
    BY <1>2, <2>1, <2>2 DEF Inventory, Root, Crossing
  <2>3. CASE RootLands
    BY <1>1, <2>3, CleanCrosses
  <2> QED BY <2>1, <2>2, <2>3
<1>6. CASE PartStep
  BY <1>2, <1>6 DEF PartStep, Inventory, Root, Crossing
<1> QED BY <1>4, <1>5, <1>6 DEF Effect

\* What a get in progress relies on: the root only becomes the marker, or goes
\* when the secret does; parts appear only in the generation being staged; an
\* inventory of our own keeps its journal.
LEMMA EffectReads ==
  ASSUME Typed, StoreInv, Effect, StoreTypes', StoreInv'
  PROVE  /\ Root' \in {Root, "marker"} \/ (Root' = None /\ Secret' \in {"absent", "deleting"})
         /\ \A g \in 0 .. MaxGen : parts[g] = {} => parts'[g] = {} \/ (g = used /\ op.kind = "put" /\ op.phase = "main")
         /\ ~inv.foreign => ~inv'.foreign /\ inv'.jrn = inv.jrn
<1>0. /\ parts \in [0 .. MaxGen -> SUBSET Parts] /\ (root.foreign => root.pri # None) /\ RootItem(root)
  BY StoreFacts
<1>1. CASE InvStep
  BY <1>1 DEF InvStep, Root, Landed, Reached, Pended, Reverted
<1>2. CASE RootStep
  <2>1. PICK x \in {"marker", None} :
          /\ RootMove(op, Inventory, x, Root, parts) /\ Landed(root, x, root')
          /\ root' \in Items(RootContents) /\ inv' = inv /\ parts' = parts
    BY <1>2 DEF RootStep
  <2>2. Inventory' = Inventory
    BY <2>1 DEF Inventory
  <2>3. CASE root' = root
    BY <2>1, <2>3 DEF Root
  <2>4. CASE Reached(root, x, root')
    <3>1. Root' = x
      BY <2>4 DEF Reached, Root
    <3>2. CASE x = "marker"
      BY <2>1, <3>1, <3>2
    <3>3. CASE x = None
      <4>1. Inventory = None \/ Inventory.state \in {"Deleting", "DeletingLegacyV1"}
        BY <2>1, <3>3, Bounds DEF RootMove, Scrub, DropRoot, DropUnmanaged
      <4>2. Secret' = Gets(Inventory', Root', val')
        <5>1. Unmanaged(Inventory') \/ Inventory'.state \notin Serving
          BY <2>2, <4>1 DEF Unmanaged, Serving
        <5> QED BY <5>1, SecretNext
      <4>3. Secret' \in {"absent", "deleting"}
        BY <2>2, <3>1, <3>3, <4>1, <4>2 DEF Gets, Plain, Unmanaged
      <4> QED BY <2>1, <3>1, <3>3, <4>3
    <3> QED BY <3>2, <3>3
  <2>5. CASE Pended(root, x, root')
    BY <1>0, <2>1, <2>5 DEF Pended, Root, RawGet
  <2>6. CASE Reverted(root, x, root')
    BY <1>0, <2>1, <2>6 DEF Reverted, Root, RawGet, RootItem
  <2> QED BY <2>1, <2>3, <2>4, <2>5, <2>6 DEF Landed
<1>3. CASE PartStep
  <2>1. PICK d \in {"write", "erase"}, g \in 0 .. MaxGen, k \in Parts :
          /\ PartMove(op, Inventory, d, g, val, used)
          /\ parts' = parts \/ parts' = [parts EXCEPT ![g] = After(d, @, k)]
          /\ inv' = inv /\ root' = root
    BY <1>3 DEF PartStep
  <2>2. Root' = Root
    BY <2>1 DEF Root
  <2>3. ASSUME NEW h \in 0 .. MaxGen, parts[h] = {}, parts'[h] # {}
        PROVE  h = used /\ op.kind = "put" /\ op.phase = "main"
    <3>1. h = g /\ d = "write"
      BY <1>0, <2>1, <2>3 DEF After
    <3> QED BY <2>1, <3>1 DEF PartMove, StageMove, Putting
  <2> QED BY <2>1, <2>2, <2>3
<1> QED BY <1>1, <1>2, <1>3 DEF Effect

-----------------------------------------------------------------------------
\* A get while a mutation moves under it.

\* What a step of a mutation may change under a get.
Undisturbed ==
  /\ val'[0] = val[0] /\ \A g \in 1 .. used : val'[g] = val[g]
  /\ used' \in {used, used + 1}
  /\ Root' \in {Root, "marker"} \/ (Root' = None /\ Secret' \in {"absent", "deleting"})
  /\ \A g \in 1 .. used : parts[g] = {} => parts'[g] = {} \/ (g = used /\ op.kind = "put" /\ op.phase = "main")
  /\ op'.kind = "put" /\ op'.phase = "main" =>
       used' = used + 1 \/ (used' = used /\ op.kind = "put" /\ op.phase = "main")
  /\ ~inv.foreign => /\ ~inv'.foreign
                     /\ inv'.jrn = inv.jrn \/ (inv'.jrn = None /\ Root' = "marker")

LEMMA InvSeenStays ==
  ASSUME Typed, Undisturbed, seen \subseteq seen', NEW iv, InvSeen(iv, seen, parts, val, used, op)
  PROVE  InvSeen(iv, seen', parts', val', used', op')
<1> DEFINE p == iv.primary
<1>0. used \in Nat
  BY Bounds DEF Typed, TypeOK
<1> SUFFICES ASSUME iv # None
             PROVE  /\ Shape(iv, used')
                    /\ iv.state \in {"Deleting", "DeletingLegacyV1"} => "deleting" \in seen'
                    /\ iv.state \in Publishing => val'[p] \in seen'
                    /\ iv.state \in Serving =>
                         \/ val'[p] \in seen'
                         \/ /\ parts'[p] = {}
                            /\ op'.kind = "put" /\ op'.phase = "main" => p # used'
  BY DEF InvSeen
<1>1. /\ Shape(iv, used)
      /\ iv.state \in {"Deleting", "DeletingLegacyV1"} => "deleting" \in seen
      /\ iv.state \in Publishing => val[p] \in seen
      /\ iv.state \in Serving =>
           \/ val[p] \in seen
           \/ /\ parts[p] = {}
              /\ op.kind = "put" /\ op.phase = "main" => p # used
  BY DEF InvSeen
<1>2. Shape(iv, used')
  BY <1>0, <1>1 DEF Undisturbed, Shape
<1>3. iv.state \in Publishing \cup Serving => p \in 1 .. used
  BY <1>1 DEF Shape, Publishing, Serving
<1> HIDE DEF p
<1>4. p \in 1 .. used => val'[p] = val[p]
  BY DEF Undisturbed
<1>5. ASSUME p \in 1 .. used, parts[p] = {}, op.kind = "put" /\ op.phase = "main" => p # used
      PROVE  parts'[p] = {} /\ (op'.kind = "put" /\ op'.phase = "main" => p # used')
  <2>1. parts'[p] = {}
    BY <1>5 DEF Undisturbed
  <2>2. op'.kind = "put" /\ op'.phase = "main" => p # used'
    BY <1>0, <1>5 DEF Undisturbed
  <2> QED BY <2>1, <2>2
<1> QED BY <1>1, <1>2, <1>3, <1>4, <1>5

LEMMA RootSeenStays ==
  ASSUME Undisturbed, seen \subseteq seen', NEW rt, RootSeen(rt, seen, val)
  PROVE  RootSeen(rt, seen', val')
BY DEF Undisturbed, RootSeen, Absence

LEMMA RootStaysSeen ==
  ASSUME Undisturbed, seen' = seen \cup {Secret'}, RootSeen(Root, seen, val)
  PROVE  RootSeen(Root', seen', val')
<1>1. CASE Root' = Root
  BY <1>1, RootSeenStays
<1>2. CASE Root' = "marker"
  BY <1>2, Bounds DEF RootSeen
<1>3. CASE Root' = None /\ Secret' \in {"absent", "deleting"}
  BY <1>3, Bounds DEF RootSeen, Absence
<1> QED BY <1>1, <1>2, <1>3 DEF Undisturbed

LEMMA MutateReads ==
  ASSUME Typed, ReaderInv, Undisturbed, reader' = reader,
         seen' = IF reader.pc \notin {"idle", "done"} THEN seen \cup {Secret'} ELSE seen
  PROVE  ReaderInv'
<1>1. reader.pc = "done" => ReadIsCurrent'
  BY DEF ReaderInv, ReadIsCurrent
<1>2. CASE reader.pc \in {"idle", "done"}
  BY <1>1, <1>2 DEF ReaderInv
<1>3. CASE reader.pc \notin {"idle", "done"}
  <2>0. seen' = seen \cup {Secret'} /\ seen \subseteq seen' /\ Secret' \in seen'
    BY <1>3
  <2>1. reader.pc = "invJournal" =>
          /\ ~inv'.foreign /\ InvSeen(inv'.jrn, seen', parts', val', used', op')
          /\ inv'.jrn = None => RootSeen(Root', seen', val')
    <3> SUFFICES ASSUME reader.pc = "invJournal"
                 PROVE  /\ ~inv'.foreign /\ InvSeen(inv'.jrn, seen', parts', val', used', op')
                        /\ inv'.jrn = None => RootSeen(Root', seen', val')
      OBVIOUS
    <3>1. /\ ~inv.foreign /\ InvSeen(inv.jrn, seen, parts, val, used, op)
          /\ inv.jrn = None => RootSeen(Root, seen, val)
      BY DEF ReaderInv
    <3>2. ~inv'.foreign /\ (inv'.jrn = inv.jrn \/ (inv'.jrn = None /\ Root' = "marker"))
      BY <3>1 DEF Undisturbed
    <3>3. CASE inv'.jrn = inv.jrn
      <4>1. InvSeen(inv.jrn, seen', parts', val', used', op')
        BY <2>0, <3>1, InvSeenStays
      <4>2. inv.jrn = None => RootSeen(Root', seen', val')
        BY <2>0, <3>1, RootStaysSeen
      <4> QED BY <3>2, <3>3, <4>1, <4>2
    <3>4. CASE inv'.jrn = None /\ Root' = "marker"
      BY <3>2, <3>4, Bounds DEF InvSeen, RootSeen
    <3> QED BY <3>2, <3>3, <3>4
  <2>2. reader.pc \in {"root", "rootJournal", "parts"} => InvSeen(reader.inv, seen', parts', val', used', op')
    BY <2>0, InvSeenStays DEF ReaderInv
  <2>3. ASSUME Unmanaged(reader.inv)
        PROVE  /\ reader.pc = "root" => RootSeen(Root', seen', val')
               /\ reader.pc = "rootJournal" => Absence(seen') \/ reader.held # None
               /\ reader.pc = "parts" =>
                    RootSeen(reader.root, seen', val') \/ (reader.root = None /\ reader.held # None)
    <3>1. reader.pc = "root" => RootSeen(Root', seen', val')
      BY <2>0, <2>3, RootStaysSeen DEF ReaderInv
    <3>2. reader.pc = "rootJournal" => Absence(seen') \/ reader.held # None
      BY <2>0, <2>3 DEF ReaderInv, Absence
    <3>3. reader.pc = "parts" =>
            RootSeen(reader.root, seen', val') \/ (reader.root = None /\ reader.held # None)
      BY <2>0, <2>3, RootSeenStays DEF ReaderInv
    <3> QED BY <3>1, <3>2, <3>3
  <2> QED BY <1>3, <2>0, <2>1, <2>2, <2>3 DEF ReaderInv
<1> QED BY <1>2, <1>3

LEMMA MutateUndisturbed ==
  ASSUME Typed, StoreInv, OpInv, MigInv, Outcome, Mutate
  PROVE  Kept /\ Undisturbed
<1>0. used \in Nat /\ val \in [0 .. MaxGen -> Values] /\ used \in 0 .. MaxGen /\ MaxGen \in Nat
  BY Bounds, StoreFacts
<1>1. ASSUME NEW kind \in {"put", "delete"}, NEW v \in Values \cup {None}, kind = "put" => v \in Values, Begin(kind, v)
      PROVE  Kept /\ Undisturbed
  <2>1. Kept /\ op'.phase = "reconcile"
    BY <1>1, BeginKeeps
  <2>2. inv' = inv /\ root' = root /\ parts' = parts /\ val' = val /\ used' = used
    BY <1>1 DEF Begin, itemVars
  <2> QED BY <2>1, <2>2 DEF Undisturbed, Root
<1>2. ASSUME PlanPut
      PROVE  Kept /\ Undisturbed
  <2>1. /\ Kept /\ inv' = inv /\ root' = root /\ parts' = parts
        /\ \/ used' = used + 1 /\ val' = [val EXCEPT ![used + 1] = op.value]
           \/ op'.kind = "idle" /\ used' = used /\ val' = val
    BY <1>2, PlanPutKeeps
  <2>2. Root' = Root
    BY <2>1 DEF Root
  <2>3. CASE used' = used + 1 /\ val' = [val EXCEPT ![used + 1] = op.value]
    <3>1. val'[0] = val[0] /\ \A g \in 1 .. used : val'[g] = val[g]
      BY <1>0, <2>3
    <3> QED BY <2>1, <2>2, <2>3, <3>1 DEF Undisturbed
  <2>4. CASE op'.kind = "idle" /\ used' = used /\ val' = val
    BY <2>1, <2>2, <2>4 DEF Undisturbed
  <2> QED BY <2>1, <2>3, <2>4
<1>3. ASSUME PlanDelete
      PROVE  Kept /\ Undisturbed
  BY <1>3, PlanDeleteKeeps DEF Undisturbed, Root
<1>4. ASSUME Finish
      PROVE  Kept /\ Undisturbed
  BY <1>4, FinishKeeps DEF Undisturbed, Root
<1>5. ASSUME Kept, Effect, op'.kind = "put" /\ op'.phase = "main" => op.kind = "put" /\ op.phase = "main"
      PROVE  Undisturbed
  <2>1. val' = val /\ used' = used
    BY <1>5 DEF Effect
  <2>2. StoreTypes' /\ StoreInv'
    BY <1>5 DEF Kept
  <2>3. /\ Root' \in {Root, "marker"} \/ (Root' = None /\ Secret' \in {"absent", "deleting"})
        /\ \A g \in 0 .. MaxGen : parts[g] = {} => parts'[g] = {} \/ (g = used /\ op.kind = "put" /\ op.phase = "main")
        /\ ~inv.foreign => ~inv'.foreign /\ inv'.jrn = inv.jrn
    BY <1>5, <2>2, EffectReads
  <2>4. 1 .. used \subseteq 0 .. MaxGen
    BY <1>0
  <2> QED BY <1>5, <2>1, <2>3, <2>4 DEF Undisturbed
<1>8. ASSUME Shift, op'.kind = "put" /\ op'.phase = "main" => op.kind = "put" /\ op.phase = "main"
      PROVE  Undisturbed
  <2>1. parts' = parts /\ val' = val /\ used' = used
    BY <1>8 DEF Shift
  <2>2. Root' = Root /\ (~inv.foreign => ~inv'.foreign /\ (inv'.jrn = inv.jrn \/ (inv'.jrn = None /\ Root' = "marker")))
    BY <1>8 DEF Shift, Shifted, Root
  <2> QED BY <1>8, <2>1, <2>2 DEF Undisturbed
<1>9. CASE Step \/ StepRefused \/ StepFails
  <2>1. /\ Kept /\ Effect
        /\ op'.kind = "put" /\ op'.phase = "main" => op.kind = "put" /\ op.phase = "main"
    BY <1>9, WritesKeep
  <2> QED BY <1>5, <2>1
<1>10. CASE MigrateJournal
  BY <1>5, <1>10, JournalKeeps DEF Going
<1>11. CASE MigrateDelete
  BY <1>5, <1>11, DeleteKeeps DEF Going
<1>12. CASE MigrateRepublish \/ MigrateRetire
  BY <1>8, <1>12, LastCallsKeep DEF Going
<1>13. CASE MigrationFails
  <2>1. Kept /\ (Effect \/ Shift) /\ op'.kind = "idle"
    BY <1>13, MigrationFailsKeeps DEF Failing
  <2> QED BY <1>5, <1>8, <2>1
<1>14. CASE MigrationLeavesJournal
  <2>1. Kept /\ (Effect \/ Shift) /\ op'.kind = op.kind /\ op'.phase = op.phase
    BY <1>14, LeavesKeeps DEF Going
  <2> QED BY <1>5, <1>8, <2>1
<1>6. ASSUME NEW v \in Values, Begin("put", v)
      PROVE  Kept /\ Undisturbed
  BY <1>1, <1>6
<1>7. ASSUME Begin("delete", None)
      PROVE  Kept /\ Undisturbed
  BY <1>1, <1>7
<1> QED BY <1>2, <1>3, <1>4, <1>6, <1>7, <1>9, <1>10, <1>11, <1>12, <1>13, <1>14 DEF Mutate

\* The steps of a get itself.

\* The inventory and the root of the moment allow what a get returns now.
LEMMA CurrentSeen ==
  ASSUME Typed, KeyringInv
  PROVE  /\ InvSeen(Inventory, {Secret}, parts, val, used, op)
         /\ Unmanaged(Inventory) => RootSeen(Root, {Secret}, val)
<1>1. /\ Inventory \in Inventories \cup {None} /\ Root \in RootContents \cup {None}
      /\ Inventory # None => Shape(Inventory, used)
      /\ ServedInv(inv, root, parts)
  BY StoreFacts DEF KeyringInv
<1>2. ASSUME Unmanaged(Inventory)
      PROVE  RootSeen(Root, {Secret}, val)
  <2>1. Secret = Plain(Root, val)
    BY <1>2, SecretIs DEF KeyringInv, Gets
  <2> QED BY <2>1, Bounds DEF RootSeen, Absence, Plain
<1>3. ASSUME Inventory # None
      PROVE  /\ Shape(Inventory, used)
             /\ Inventory.state \in {"Deleting", "DeletingLegacyV1"} => "deleting" \in {Secret}
             /\ Inventory.state \in Publishing => val[Inventory.primary] \in {Secret}
             /\ Inventory.state \in Serving =>
                  \/ val[Inventory.primary] \in {Secret}
                  \/ /\ parts[Inventory.primary] = {}
                     /\ op.kind = "put" /\ op.phase = "main" => Inventory.primary # used
  <2>1. Unmanaged(Inventory) \/ Inventory.state \notin Serving \/ Root = "marker" => Secret = Gets(Inventory, Root, val)
    BY SecretIs DEF KeyringInv
  <2>2. Inventory.state \in {"Deleting", "DeletingLegacyV1"} => Secret = "deleting"
    BY <1>3, <2>1 DEF Gets, Unmanaged, Serving
  <2>3. Inventory.state \in Publishing => Secret = val[Inventory.primary]
    BY <1>3, <2>1 DEF Gets, Unmanaged, Serving, Publishing
  <2>4. Inventory.state \in Serving /\ Root = "marker" => Secret = val[Inventory.primary]
    BY <1>3, <2>1 DEF Gets, Unmanaged, Serving
  <2>5. ASSUME Inventory.state \in Serving, Root # "marker"
        PROVE  parts[Inventory.primary] = {} /\ ~(op.kind = "put" /\ op.phase = "main")
    <3>1. parts[Inventory.primary] = {}
      BY <1>1, <1>3, <2>5 DEF ServedInv, Inventory, Root
    <3>2. ~(op.kind = "put" /\ op.phase = "main")
      BY <1>3, <2>5, NoOpType DEF KeyringInv, OpInv, OpOK, Doing, Putting, Preparing, Serving, Publishing
    <3> QED BY <3>1, <3>2
  <2> QED BY <1>1, <1>3, <2>2, <2>3, <2>4, <2>5
<1> QED BY <1>2, <1>3 DEF InvSeen

LEMMA ReadKeeps ==
  ASSUME Typed, KeyringInv, Read, UNCHANGED <<itemVars, used, op, res, faults>>
  PROVE  Typed' /\ KeyringInv'
<1>0. /\ inv' = inv /\ root' = root /\ parts' = parts /\ val' = val /\ used' = used
      /\ op' = op /\ res' = res /\ faults' = faults
      /\ Inventory' = Inventory /\ Root' = Root /\ Secret' = Secret
  BY DEF itemVars, Inventory, Root, Secret
<1>1. StoreInv' /\ OpInv' /\ MigInv' /\ Outcome'
  BY <1>0 DEF KeyringInv, StoreInv, OpInv, MigInv, Outcome
<1>2. /\ inv \in Items(Inventories) /\ root \in Items(RootContents)
      /\ inv.pri \in Inventories \cup {None} /\ inv.jrn \in Inventories \cup {None}
      /\ root.pri \in RootContents \cup {None} /\ root.jrn \in RootContents \cup {None}
      /\ (inv.foreign => inv.pri # None) /\ InventoryItem(inv, used) /\ RootItem(root)
  BY StoreFacts DEF KeyringInv, Items
<1>3. ASSUME NEW pc \in {"idle", "invJournal", "root", "rootJournal", "parts", "done"},
             NEW iv \in Inventories \cup {None}, NEW rt \in RootContents \cup {None}, NEW held, NEW got,
             reader' = [pc |-> pc, inv |-> iv, root |-> rt, held |-> held, got |-> got],
             pc \notin {"idle", "done"} => Secret \in seen',
             pc = "invJournal" =>
               /\ ~inv.foreign /\ InvSeen(inv.jrn, seen', parts, val, used, op)
               /\ inv.jrn = None => RootSeen(Root, seen', val),
             pc \in {"root", "rootJournal", "parts"} => InvSeen(iv, seen', parts, val, used, op),
             Unmanaged(iv) =>
               /\ pc = "root" => RootSeen(Root, seen', val)
               /\ pc = "rootJournal" => Absence(seen') \/ held # None
               /\ pc = "parts" => RootSeen(rt, seen', val) \/ (rt = None /\ held # None),
             pc = "done" =>
               \/ got \in seen' \cup {"error"}
               \/ got = "absent" /\ "deleting" \in seen'
               \/ got = "marker" /\ Unmanaged(iv)
               \/ got = "absent" /\ held # None
      PROVE  Typed' /\ KeyringInv'
  <2>1. /\ reader'.pc = pc /\ reader'.inv = iv /\ reader'.root = rt /\ reader'.held = held /\ reader'.got = got
        /\ reader' = [pc |-> reader'.pc, inv |-> reader'.inv, root |-> reader'.root,
                      held |-> reader'.held, got |-> reader'.got]
    BY <1>3
  <2>2. TypeOK'
    BY <1>0, <1>3, <2>1 DEF Typed, TypeOK
  <2>3. pc = "done" => ReadIsCurrent'
    BY <1>3, <2>1 DEF ReadIsCurrent, Unmanaged
  <2>4. ReaderInv'
    BY <1>0, <1>3, <2>1, <2>3 DEF ReaderInv
  <2> QED BY <1>1, <1>3, <2>1, <2>2, <2>4 DEF Typed, KeyringInv
<1> DEFINE a == reader.pc
           b == reader.inv
           c == reader.root
           d == reader.held
           e == reader.got
<1>r. /\ reader = [pc |-> a, inv |-> b, root |-> c, held |-> d, got |-> e]
      /\ b \in Inventories \cup {None} /\ c \in RootContents \cup {None}
  BY DEF Typed
<1>i. /\ a \notin {"idle", "done"} => Secret \in seen
      /\ a = "invJournal" =>
           /\ ~inv.foreign /\ InvSeen(inv.jrn, seen, parts, val, used, op)
           /\ inv.jrn = None => RootSeen(Root, seen, val)
      /\ a \in {"root", "rootJournal", "parts"} => InvSeen(b, seen, parts, val, used, op)
      /\ Unmanaged(b) =>
           /\ a = "root" => RootSeen(Root, seen, val)
           /\ a = "rootJournal" => Absence(seen) \/ d # None
           /\ a = "parts" => RootSeen(c, seen, val) \/ (c = None /\ d # None)
  BY DEF KeyringInv, ReaderInv
<1>4. CASE ReadInventory
  <2> DEFINE pc == IF inv.pri = None THEN "invJournal" ELSE "root"
  <2>1. /\ reader' = [pc |-> pc, inv |-> inv.pri, root |-> None, held |-> None, got |-> None]
        /\ seen' = {Secret}
    BY <1>4 DEF ReadInventory, NoReader
  <2>2. /\ InvSeen(Inventory, seen', parts, val, used, op)
        /\ Unmanaged(Inventory) => RootSeen(Root, seen', val)
    BY <2>1, CurrentSeen
  <2>3. CASE inv.pri = None
    <3>1. Inventory = inv.jrn /\ pc = "invJournal" /\ ~inv.foreign
      BY <1>2, <2>3 DEF Inventory, RawGet
    <3>2. inv.jrn = None => Unmanaged(Inventory)
      BY <3>1 DEF Unmanaged
    <3> HIDE DEF pc
    <3> QED BY <1>2, <1>3, <2>1, <2>2, <3>1, <3>2
  <2>4. CASE inv.pri # None
    <3>1. Inventory = inv.pri /\ pc = "root"
      BY <2>4 DEF Inventory, RawGet
    <3> HIDE DEF pc
    <3> QED BY <1>2, <1>3, <2>1, <2>2, <3>1
  <2> QED BY <2>3, <2>4
<1> HIDE DEF a, b, c, d, e
<1>5. CASE ReadInventoryJournal
  <2>1. a = "invJournal" /\ seen' = seen /\ reader' = [reader EXCEPT !.pc = "root", !.inv = inv.jrn]
    BY <1>5 DEF ReadInventoryJournal, a
  <2>2. reader' = [pc |-> "root", inv |-> inv.jrn, root |-> c, held |-> d, got |-> e]
    BY <1>r, <2>1
  <2>3. Unmanaged(inv.jrn) => inv.jrn = None
    BY <1>2 DEF Unmanaged, InventoryItem
  <2>4. /\ Secret \in seen' /\ InvSeen(inv.jrn, seen', parts, val, used, op)
        /\ Unmanaged(inv.jrn) => RootSeen(Root, seen', val)
    BY <1>i, <2>1, <2>3
  <2> QED BY <1>2, <1>3, <1>r, <2>2, <2>4
<1>6. CASE ReadRoot
  <2> DEFINE pc == IF root.pri = None THEN "rootJournal" ELSE "parts"
             held == IF root.pri = None THEN root.jrn ELSE None
  <2>1. /\ a = "root" /\ seen' = seen
        /\ reader' = [reader EXCEPT !.pc = pc, !.root = root.pri, !.held = held]
    BY <1>6 DEF ReadRoot, a
  <2>2. reader' = [pc |-> pc, inv |-> b, root |-> root.pri, held |-> held, got |-> e]
    <3> HIDE DEF pc, held
    <3> QED BY <1>r, <2>1
  <2>3. ASSUME Unmanaged(b)
        PROVE  /\ pc = "rootJournal" => Absence(seen') \/ held # None
               /\ pc = "parts" => RootSeen(root.pri, seen', val)
    <3>1. RootSeen(Root, seen', val)
      BY <1>i, <2>1, <2>3
    <3> QED BY <3>1 DEF Root, RawGet, RootSeen
  <2>4. pc \in {"rootJournal", "parts"}
    OBVIOUS
  <2> HIDE DEF pc, held
  <2>5. Secret \in seen' /\ InvSeen(b, seen', parts, val, used, op)
    BY <1>i, <2>1
  <2> QED BY <1>2, <1>3, <1>r, <2>2, <2>3, <2>4, <2>5
<1>7. CASE ReadRootJournal
  <2>1. a = "rootJournal" /\ seen' = seen /\ reader' = [reader EXCEPT !.pc = "parts", !.root = root.jrn]
    BY <1>7 DEF ReadRootJournal, a
  <2>2. reader' = [pc |-> "parts", inv |-> b, root |-> root.jrn, held |-> d, got |-> e]
    BY <1>r, <2>1
  <2>3. ASSUME Unmanaged(b)
        PROVE  RootSeen(root.jrn, seen', val) \/ (root.jrn = None /\ d # None)
    <3>1. Absence(seen') \/ d # None
      BY <1>i, <2>1, <2>3
    <3> QED BY <1>2, <3>1, Bounds DEF RootItem, RootSeen
  <2>4. Secret \in seen' /\ InvSeen(b, seen', parts, val, used, op)
    BY <1>i, <2>1
  <2> QED BY <1>2, <1>3, <1>r, <2>2, <2>3, <2>4
<1>8. CASE ReadParts
  <2> DEFINE got == Get(b, c, parts, val)
  <2>0. a = "parts" /\ seen' = seen /\ reader' = [reader EXCEPT !.pc = "done", !.got = got]
    BY <1>8 DEF ReadParts, a, b, c
  <2>1. reader' = [pc |-> "done", inv |-> b, root |-> c, held |-> d, got |-> got]
    <3> HIDE DEF got
    <3> QED BY <1>r, <2>0
  <2>2. \/ got \in seen' \cup {"error"}
        \/ got = "absent" /\ "deleting" \in seen'
        \/ got = "marker" /\ Unmanaged(b)
        \/ got = "absent" /\ d # None
    <3>1. CASE Unmanaged(b)
      <4>1. got = GetUnmanaged(c, parts, val)
        BY <3>1 DEF Get, Unmanaged
      <4>2. RootSeen(c, seen, val) \/ (c = None /\ d # None)
        BY <1>i, <2>0, <3>1
      <4> HIDE DEF got
      <4>3. CASE c = None
        <5>1. got = "absent"
          BY <4>1, <4>3, Bounds DEF GetUnmanaged
        <5>2. Absence(seen') \/ d # None
          BY <2>0, <4>2, <4>3 DEF RootSeen
        <5> QED BY <5>1, <5>2 DEF Absence
      <4>4. CASE c = "legacy"
        BY <2>0, <4>1, <4>2, <4>4, Bounds DEF GetUnmanaged, RootSeen
      <4>5. CASE c \in Values \cup {"marker"}
        <5>1. got = c
          BY <4>1, <4>5, Bounds DEF GetUnmanaged
        <5> QED BY <2>0, <3>1, <4>2, <4>5, <5>1, Bounds DEF RootSeen
      <4> QED BY <1>r, <4>3, <4>4, <4>5 DEF RootContents
    <3>2. CASE ~Unmanaged(b)
      <4>1. b # None /\ b.state # "PreparingLegacy" /\ b.state \in InventoryStates
        BY <1>r, <3>2 DEF Unmanaged, Inventories
      <4>2. /\ b.state \in {"Deleting", "DeletingLegacyV1"} => "deleting" \in seen'
            /\ b.state \in Publishing => val[b.primary] \in seen'
            /\ b.state \in Serving => val[b.primary] \in seen' \/ parts[b.primary] = {}
        BY <1>i, <2>0, <4>1 DEF InvSeen
      <4>3. CASE b.state \in {"Deleting", "DeletingLegacyV1"}
        <5>1. got = "deleting"
          BY <4>1, <4>3 DEF Get
        <5> QED BY <4>2, <4>3, <5>1
      <4>4. CASE b.state \in Publishing
        <5>1. got = ReadGeneration(b.primary, parts, val)
          BY <4>1, <4>4 DEF Get, Publishing
        <5>2. got \in {val[b.primary], "error"}
          BY <5>1 DEF ReadGeneration
        <5> QED BY <4>2, <4>4, <5>2
      <4>5. CASE b.state \in Serving
        <5>1. got = "error" \/ got = ReadGeneration(b.primary, parts, val)
          BY <4>1, <4>5 DEF Get, Serving
        <5>2. Parts # {}
          BY Bounds
        <5>3. got = "error" \/ (got = val[b.primary] /\ parts[b.primary] # {})
          BY <5>1, <5>2 DEF ReadGeneration
        <5> QED BY <4>2, <4>5, <5>3
      <4> QED BY <4>1, <4>3, <4>4, <4>5 DEF InventoryStates, Publishing, Serving
    <3> QED BY <3>1, <3>2
  <2> HIDE DEF got
  <2> QED BY <1>3, <1>r, <2>1, <2>2
<1>9. CASE ReadReturns
  <2>1. reader' = [pc |-> "idle", inv |-> None, root |-> None, held |-> None, got |-> None]
    BY <1>9 DEF ReadReturns, NoReader
  <2> QED BY <1>3, <2>1
<1> QED BY <1>4, <1>5, <1>6, <1>7, <1>8, <1>9 DEF Read

-----------------------------------------------------------------------------
LEMMA StoredType ==
  ASSUME NEW C, NEW x \in C \cup {None}, NEW f \in BOOLEAN
  PROVE  /\ Stored(x, f) \in Items(C) /\ RawGet(Stored(x, f)) = x
         /\ Stored(x, f).pri = x /\ Stored(x, f).jrn = None /\ (Stored(x, f).foreign <=> f)
         /\ ~Stuck(Stored(x, f))
BY DEF Stored, Items, RawGet, Stuck

\* A key as some release left it.
LEMMA InitKeyring == Init => Typed /\ KeyringInv
<1> SUFFICES ASSUME Init PROVE Typed /\ KeyringInv
  OBVIOUS
<1>0. /\ MaxGen \in Nat \ {0} /\ N \in Nat \ {0} /\ MaxFaults \in Nat
      /\ None \notin Values /\ None # "marker" /\ None # "legacy" /\ None \notin Inventories
      /\ "marker" \notin Values /\ "legacy" \notin Values
      /\ 0 \in 0 .. MaxGen /\ 1 \in 0 .. MaxGen /\ Generations \subseteq 0 .. MaxGen /\ 0 \notin Generations
  BY Bounds, KeyringAssumption DEF Generations
<1>1. PICK f \in BOOLEAN, v \in Values :
        /\ val = [g \in 0 .. MaxGen |-> v]
        /\ \/ /\ root = Stored(None, FALSE) /\ inv = Stored(None, FALSE)
              /\ parts = [g \in 0 .. MaxGen |-> {}] /\ used = 0
           \/ /\ root = Stored(v, f) /\ inv = Stored(None, FALSE)
              /\ parts = [g \in 0 .. MaxGen |-> {}] /\ used = 0
           \/ /\ root = Stored("legacy", f) /\ inv = Stored(None, FALSE)
              /\ parts = [g \in 0 .. MaxGen |-> IF g = 0 THEN 1 .. N ELSE {}] /\ used = 0
           \/ /\ root = Stored("marker", f)
              /\ inv = Stored([state |-> "Active", primary |-> 1, secondary |-> 0], f)
              /\ parts = [g \in 0 .. MaxGen |-> IF g = 1 THEN Parts ELSE {}] /\ used = 1
  BY DEF Init
<1>2. /\ op = NoOp /\ res = [out |-> "ok", fault |-> FALSE] /\ reader = NoReader /\ seen = {} /\ faults = 0
  BY DEF Init
<1>3. /\ None \in RootContents \cup {None} /\ v \in RootContents \cup {None} /\ "legacy" \in RootContents \cup {None}
      /\ "marker" \in RootContents \cup {None} /\ None \in Inventories \cup {None}
      /\ 1 .. N \subseteq Parts
  BY <1>0, <1>1 DEF RootContents, Parts
<1>4. val \in [0 .. MaxGen -> Values]
  BY <1>1
<1>5. /\ inv \in Items(Inventories) /\ root \in Items(RootContents) /\ parts \in [0 .. MaxGen -> SUBSET Parts]
      /\ used \in 0 .. MaxGen /\ StoreInv
  <2>1. ASSUME inv = Stored(None, FALSE), NEW x \in RootContents \cup {None},
               root \in Items(RootContents), RawGet(root) = x, root.pri = x, root.jrn = None,
               root.foreign => x # None, x # "marker", used = 0,
               parts \in [0 .. MaxGen -> SUBSET Parts], \A g \in Generations : parts[g] = {},
               parts[0] = IF x = "legacy" THEN 1 .. N ELSE {}
        PROVE  /\ inv \in Items(Inventories) /\ root \in Items(RootContents) /\ parts \in [0 .. MaxGen -> SUBSET Parts]
               /\ used \in 0 .. MaxGen /\ StoreInv
    <3>1. /\ inv \in Items(Inventories) /\ RawGet(inv) = None /\ inv.jrn = None /\ ~inv.foreign
      BY <1>3, <2>1, StoredType
    <3>3. InventoryItem(inv, used) /\ RootItem(root)
      BY <2>1, <3>1 DEF InventoryItem, RootItem
    <3>4. Named(None, parts) /\ RootInv(None, root)
      BY <2>1 DEF Named, RootInv
    <3>5. LegacyInv(None, x, parts)
      BY <1>0, <2>1 DEF LegacyInv, Unmanaged
    <3>6. ServedInv(inv, root, parts)
      BY <3>1 DEF ServedInv
    <3> QED BY <1>0, <2>1, <3>1, <3>3, <3>4, <3>5, <3>6 DEF StoreInv, StoreOK
  <2>2. CASE /\ root = Stored(None, FALSE) /\ inv = Stored(None, FALSE)
             /\ parts = [g \in 0 .. MaxGen |-> {}] /\ used = 0
    <3>1. /\ parts \in [0 .. MaxGen -> SUBSET Parts] /\ \A g \in Generations : parts[g] = {}
          /\ parts[0] = {}
      BY <1>0, <2>2
    <3>2. root \in Items(RootContents) /\ RawGet(root) = None /\ root.pri = None /\ root.jrn = None /\ ~root.foreign
      BY <1>3, <2>2, StoredType
    <3> QED BY <1>0, <1>3, <2>1, <2>2, <3>1, <3>2
  <2>3. CASE /\ root = Stored(v, f) /\ inv = Stored(None, FALSE)
             /\ parts = [g \in 0 .. MaxGen |-> {}] /\ used = 0
    <3>1. /\ parts \in [0 .. MaxGen -> SUBSET Parts] /\ \A g \in Generations : parts[g] = {}
          /\ parts[0] = {}
      BY <1>0, <2>3
    <3>2. v # None /\ v # "marker" /\ v # "legacy"
      BY <1>0
    <3>3. root \in Items(RootContents) /\ RawGet(root) = v /\ root.pri = v /\ root.jrn = None
      <4>1. v \in RootContents \cup {None} /\ f \in BOOLEAN
        BY <1>3
      <4>2. Stored(v, f) \in Items(RootContents)
        BY <4>1 DEF Stored, Items
      <4>3. RawGet(Stored(v, f)) = v /\ Stored(v, f).pri = v /\ Stored(v, f).jrn = None
        BY DEF Stored, RawGet
      <4> QED BY <2>3, <4>2, <4>3
    <3> QED BY <1>3, <2>1, <2>3, <3>1, <3>2, <3>3
  <2>4. CASE /\ root = Stored("legacy", f) /\ inv = Stored(None, FALSE)
             /\ parts = [g \in 0 .. MaxGen |-> IF g = 0 THEN 1 .. N ELSE {}] /\ used = 0
    <3>1. /\ parts \in [0 .. MaxGen -> SUBSET Parts] /\ \A g \in Generations : parts[g] = {}
          /\ parts[0] = 1 .. N
      <4>1. \A g \in 0 .. MaxGen : parts[g] = IF g = 0 THEN 1 .. N ELSE {}
        BY <2>4
      <4>2. \A g \in Generations : g \in 0 .. MaxGen /\ g # 0
        BY <1>0
      <4> QED BY <1>0, <1>3, <2>4, <4>1, <4>2
    <3>2. root \in Items(RootContents) /\ RawGet(root) = "legacy" /\ root.pri = "legacy" /\ root.jrn = None
      BY <1>3, <2>4, StoredType
    <3> QED BY <1>0, <1>3, <2>1, <2>4, <3>1, <3>2
  <2>5. CASE /\ root = Stored("marker", f)
             /\ inv = Stored([state |-> "Active", primary |-> 1, secondary |-> 0], f)
             /\ parts = [g \in 0 .. MaxGen |-> IF g = 1 THEN Parts ELSE {}] /\ used = 1
    <3> DEFINE e == Entry("Active", 1, 0)
    <3>1. e \in Inventories /\ e # None /\ e.state = "Active" /\ e.primary = 1 /\ e.secondary = 0
      BY <1>0, EntryType DEF InventoryStates
    <3>2. inv = Stored(e, f)
      BY <2>5 DEF Entry
    <3> HIDE DEF e
    <3>3. /\ inv \in Items(Inventories) /\ RawGet(inv) = e /\ inv.pri = e /\ inv.jrn = None /\ (inv.foreign <=> f)
      BY <3>1, <3>2, StoredType
    <3>4. /\ root \in Items(RootContents) /\ RawGet(root) = "marker" /\ root.pri = "marker" /\ root.jrn = None
      BY <1>3, <2>5, StoredType
    <3>5. /\ parts \in [0 .. MaxGen -> SUBSET Parts] /\ \A g \in Generations : g # 1 => parts[g] = {}
          /\ parts[0] = {} /\ parts[1] = Parts
      <4>1. \A g \in 0 .. MaxGen : parts[g] = IF g = 1 THEN Parts ELSE {}
        BY <2>5
      <4> QED BY <1>0, <2>5, <4>1
    <3>6. Shape(e, used)
      BY <2>5, <3>1 DEF Shape, Paired
    <3>7. InventoryItem(inv, used) /\ RootItem(root)
      BY <1>0, <3>1, <3>3, <3>4 DEF InventoryItem, RootItem, Serving
    <3>8. Named(e, parts)
      BY <3>1, <3>5 DEF Named
    <3>9. LegacyInv(e, "marker", parts) /\ RootInv(e, root)
      BY <3>1, <3>5 DEF LegacyInv, RootInv, Unmanaged
    <3>10. ServedInv(inv, root, parts)
      BY <3>1, <3>3, <3>4, <3>5 DEF ServedInv, Publishing, Serving
    <3> QED BY <1>0, <2>5, <3>1, <3>3, <3>4, <3>5, <3>6, <3>7, <3>8, <3>9, <3>10 DEF StoreInv, StoreOK
  <2> QED BY <1>1, <2>2, <2>3, <2>4, <2>5
<1>6. Typed
  <2>1. /\ reader.pc = "idle" /\ reader.inv = None /\ reader.root = None
        /\ reader = [pc |-> reader.pc, inv |-> reader.inv, root |-> reader.root,
                     held |-> reader.held, got |-> reader.got]
    BY <1>2 DEF NoReader
  <2>2. faults \in 0 .. MaxFaults /\ res \in [out : {"ok", "error"}, fault : BOOLEAN]
    BY <1>0, <1>2
  <2> QED BY <1>2, <1>4, <1>5, <2>1, <2>2, NoOpType DEF Typed, TypeOK
<1>7. OpInv /\ MigInv /\ ReaderInv /\ Outcome
  BY <1>2, NoOpType DEF OpInv, OpOK, MigInv, ReaderInv, NoReader, Outcome
<1> QED BY <1>5, <1>6, <1>7 DEF KeyringInv

LEMMA NextKeyring == Typed /\ KeyringInv /\ [Next]_vars => Typed' /\ KeyringInv'
<1> SUFFICES ASSUME Typed, KeyringInv, [Next]_vars
             PROVE  Typed' /\ KeyringInv'
  OBVIOUS
<1>1. CASE /\ Mutate /\ UNCHANGED reader
           /\ seen' = IF reader.pc \notin {"idle", "done"} THEN seen \cup {Secret'} ELSE seen
  <2>1. Kept /\ Undisturbed /\ reader' = reader
    BY <1>1, MutateUndisturbed DEF KeyringInv
  <2>2. ReaderInv'
    BY <1>1, <2>1, MutateReads DEF KeyringInv
  <2>3. Typed'
    <3>1. TypeOK'
      BY <2>1 DEF Kept, StoreTypes, Typed, TypeOK
    <3> QED BY <2>1, <3>1 DEF Typed
  <2> QED BY <2>1, <2>2, <2>3 DEF Kept, KeyringInv
<1>2. CASE Read /\ UNCHANGED <<itemVars, used, op, res, faults>>
  BY <1>2, ReadKeeps
<1>3. CASE UNCHANGED vars
  <2>1. /\ inv' = inv /\ root' = root /\ parts' = parts /\ val' = val /\ used' = used
        /\ op' = op /\ res' = res /\ reader' = reader /\ seen' = seen /\ faults' = faults
    BY <1>3 DEF vars
  <2>2. Typed'
    BY <2>1 DEF Typed, TypeOK
  <2>3. StoreInv' /\ OpInv' /\ MigInv' /\ Outcome'
    BY <2>1 DEF KeyringInv, StoreInv, OpInv, MigInv, Outcome, Inventory, Root
  <2>4. ReaderInv'
    BY <2>1 DEF KeyringInv, ReaderInv, ReadIsCurrent, Secret, Inventory, Root
  <2> QED BY <2>2, <2>3, <2>4 DEF KeyringInv
<1> QED BY <1>1, <1>2, <1>3 DEF Next

-----------------------------------------------------------------------------
LEMMA KeyringInvariant == Spec => [](Typed /\ KeyringInv)
BY InitKeyring, NextKeyring, PTL DEF Spec

\* The store, the mutation under the lock and its outcome keep their types.
THEOREM KeyringTypeCorrect == Spec => []TypeOK
<1>1. Typed => TypeOK
  BY DEF Typed
<1> QED BY <1>1, KeyringInvariant, PTL

\* Whatever write of put_initial, put_managed, delete_unlocked or reconcile
\* fails, every stored part belongs to a generation the inventory names, and
\* legacy chunks to a root item that still says so.
THEOREM NothingStrandedHolds == Spec => []NothingStranded
<1>1. Typed /\ KeyringInv => NothingStranded
  BY StoreFacts DEF KeyringInv, NothingStranded, Named, LegacyInv
<1> QED BY <1>1, KeyringInvariant, PTL

\* A put or a delete that meets no fault of its own succeeds after any
\* interruption, unless an ownership migration left its journal behind.
THEOREM RetrySucceedsHolds == Spec => []RetrySucceeds
<1>1. Typed /\ KeyringInv => RetrySucceeds
  BY DEF KeyringInv, RetrySucceeds, Outcome, Stuck, Journaled
<1> QED BY <1>1, KeyringInvariant, PTL

\* A get, which takes no lock, returns what was stored at some moment since it
\* began, absent for a secret under deletion, or an error, whatever calls of a
\* mutation and of its ownership migrations run between its own, whatever fails.
\* Exceptions: the root marker, for a get that read no managed inventory, and
\* absent, for one that found the root absent while its journal answered.
THEOREM ReadIsCurrentHolds == Spec => []ReadIsCurrent
<1>1. KeyringInv => ReadIsCurrent
  BY DEF KeyringInv, ReaderInv, ReadIsCurrent
<1> QED BY <1>1, KeyringInvariant, PTL

-----------------------------------------------------------------------------
\* The chunked store implements an atomic secret.

LEMMA Requests ==
  /\ op.kind = "put" => Requested = op.value
  /\ op.kind = "delete" => Requested = "deleting"
  /\ op.kind = "idle" => Requested = "idle"
BY DEF Requested

LEMMA InitSecret == Init => Abstract!Init
<1> SUFFICES ASSUME Init PROVE Abstract!Init
  OBVIOUS
<1>1. Typed /\ StoreInv
  BY InitKeyring DEF KeyringInv
<1>2. op = NoOp /\ res = [out |-> "ok", fault |-> FALSE]
  BY DEF Init
<1>3. Requested = "idle" /\ res.out = "ok"
  BY <1>2, NoOpType, Requests
<1>4. /\ inv.jrn = None
      /\ Inventory = None \/ Inventory.state = "Active"
  BY DEF Init, Stored, Inventory, RawGet
<1>5. Secret = Gets(Inventory, Root, val)
  BY <1>1, <1>4, SecretIs DEF Stuck
<1>6. Secret \in Values \cup {"absent"}
  <2>1. CASE Unmanaged(Inventory)
    BY <1>1, <1>5, <2>1, SecretIs DEF Gets
  <2>2. CASE ~Unmanaged(Inventory)
    BY <1>1, <1>4, <1>5, <2>2, SecretIs DEF Gets, Unmanaged
  <2> QED BY <2>1, <2>2
<1> QED BY <1>3, <1>6 DEF Abstract!Init

\* Every step is a step of the atomic secret, or leaves it as it was.
LEMMA NextSecret ==
  ASSUME Typed, KeyringInv, [Next]_vars
  PROVE  [Journaled' \/ Abstract!Next]_<<Secret, Requested, res.out>>
<1> DEFINE Same == Secret' = Secret /\ Requested' = Requested /\ res'.out = res.out
<1> SUFFICES ASSUME ~Journaled' PROVE Abstract!Next \/ Same
  OBVIOUS
<1>0. /\ "deleting" \notin Values /\ "idle" \notin Values /\ op \in Mutations
      /\ (op.kind = "put" => op.value \in Values) /\ used \in 0 .. MaxGen /\ MaxGen \in Nat
      /\ val \in [0 .. MaxGen -> Values]
      /\ Inventory \in Inventories \cup {None} /\ (Inventory # None => Shape(Inventory, used))
  BY Bounds, StoreFacts DEF KeyringInv, OpInv
<1>i. StoreInv /\ OpInv /\ MigInv /\ Outcome
  BY DEF KeyringInv
<1>r. /\ op'.kind = "put" => Requested' = op'.value
      /\ op'.kind = "delete" => Requested' = "deleting"
      /\ op'.kind = "idle" => Requested' = "idle"
  BY DEF Requested
<1>s. ASSUME inv' = inv, root' = root, parts' = parts, val' = val
      PROVE  Secret' = Secret
  BY <1>s DEF Secret, Inventory, Root
<1>1. ASSUME NEW kind \in {"put", "delete"}, NEW v \in Values \cup {None}, kind = "put" => v \in Values, Begin(kind, v)
      PROVE  Abstract!Next \/ Same
  <2>1. op'.kind = kind /\ op'.value = v /\ op.kind = "idle" /\ res' = res
    BY <1>1, <1>i, BeginKeeps
  <2>2. Secret' = Secret
    BY <1>1, <1>s DEF Begin, itemVars
  <2>3. Requested = "idle" /\ Requested' \in Values \cup {"deleting"}
    BY <1>1, <1>r, <2>1, Requests
  <2> QED BY <2>1, <2>2, <2>3 DEF Abstract!Next, Abstract!Request
<1>2. CASE PlanPut
  <2>1. /\ Kept /\ inv' = inv /\ root' = root /\ parts' = parts /\ op'.mig = "none"
        /\ \/ /\ op'.kind = "put" /\ op'.value = op.value /\ op'.phase = "main" /\ res' = res
              /\ used' = used + 1 /\ val' = [val EXCEPT ![used + 1] = op.value]
           \/ op'.kind = "idle" /\ res'.out = "error" /\ used' = used /\ val' = val
    BY <1>2, <1>i, PlanPutKeeps
  <2>2. op.kind = "put" /\ Requested = op.value
    BY <1>2, Requests DEF PlanPut
  <2>3. CASE /\ op'.kind = "put" /\ op'.value = op.value /\ res' = res
             /\ used' = used + 1 /\ val' = [val EXCEPT ![used + 1] = op.value]
    <3>1. Inventory' = Inventory /\ Root' = Root /\ ~Stuck(inv) /\ ~Stuck(inv')
      BY <2>1 DEF Inventory, Root, Journaled, Stuck
    <3>2. Secret = Gets(Inventory, Root, val) /\ Secret' = Gets(Inventory, Root, val')
      BY <1>i, <2>1, <3>1, SecretIs, SecretNext DEF Kept
    <3>3. val'[0] = val[0] /\ \A g \in 1 .. used : val'[g] = val[g]
      BY <1>0, <2>3
    <3>4. Gets(Inventory, Root, val') = Gets(Inventory, Root, val)
      <4>1. Plain(Root, val') = Plain(Root, val)
        BY <3>3 DEF Plain
      <4>2. ~Unmanaged(Inventory) /\ Inventory.state # "DeletingLegacyV1" => val'[Inventory.primary] = val[Inventory.primary]
        BY <1>0, <3>3 DEF Unmanaged, Shape
      <4> QED BY <4>1, <4>2 DEF Gets
    <3> QED BY <1>r, <2>2, <2>3, <3>2, <3>4
  <2>4. CASE op'.kind = "idle" /\ res'.out = "error" /\ val' = val
    <3>1. Secret' = Secret /\ Requested' = "idle" /\ Requested # "idle"
      BY <1>0, <1>r, <1>s, <2>1, <2>2, <2>4
    <3> QED BY <2>4, <3>1 DEF Abstract!Next, Abstract!Fail
  <2> QED BY <2>1, <2>3, <2>4
<1>3. CASE PlanDelete
  <2>1. /\ inv' = inv /\ root' = root /\ parts' = parts /\ val' = val
        /\ op'.kind = "delete" /\ res' = res
    BY <1>3, <1>i, PlanDeleteKeeps
  <2>2. op.kind = "delete"
    BY <1>3 DEF PlanDelete
  <2> QED BY <1>r, <1>s, <2>1, <2>2, Requests
<1>4. CASE Finish
  <2>1. /\ inv' = inv /\ root' = root /\ parts' = parts /\ val' = val
        /\ op'.kind = "idle" /\ res'.out = "ok"
        /\ \/ /\ op.kind = "put" /\ op.value \in Values /\ Inventory # None /\ Inventory.state = "Active"
              /\ Inventory.primary = used /\ Root = "marker" /\ val[used] = op.value
           \/ op.kind = "delete" /\ Inventory = None /\ Root = None
    BY <1>4, <1>i, FinishKeeps
  <2>2. Secret' = Secret /\ Requested' = "idle"
    BY <1>r, <1>s, <2>1
  <2>3. Secret = IF Requested = "deleting" THEN "absent" ELSE Requested
    <3>1. Secret = Gets(Inventory, Root, val)
      BY <1>i, <2>1, SecretIs DEF Unmanaged
    <3>2. CASE op.kind = "put"
      BY <1>0, <2>1, <3>1, <3>2, Requests DEF Gets, Unmanaged
    <3>3. CASE op.kind = "delete"
      BY <2>1, <3>1, <3>3, Requests DEF Gets, Unmanaged, Plain
    <3> QED BY <2>1, <3>2, <3>3
  <2>4. Requested # "idle"
    BY <1>0, <2>1, Requests
  <2> QED BY <2>1, <2>2, <2>3, <2>4 DEF Abstract!Next, Abstract!Succeed
<1>5. ASSUME Kept, Crossing(op, Secret, Secret'), op.kind # "idle", Going \/ Failing
      PROVE  Abstract!Next \/ Same
  <2>1. op.kind \in {"put", "delete"}
    BY <1>0, <1>5 DEF Mutations
  <2>2. Requested # "idle" /\ (op.kind = "put" => Requested \in Values)
    BY <1>0, <2>1, Requests
  <2>3. \/ Secret' = Secret
        \/ Secret = "deleting" /\ Secret' = "absent"
        \/ Requested \in Values /\ Secret # "deleting" /\ Secret' = Requested
        \/ Requested = "deleting" /\ Secret # "deleting" /\ Secret' \in {"deleting", "absent"}
    BY <1>5, <2>2, Requests DEF Crossing
  <2>4. CASE Going
    <3>1. Requested' = Requested /\ res' = res
      BY <1>r, <2>1, <2>4, Requests DEF Going
    <3> QED BY <2>2, <2>3, <3>1
            DEF Abstract!Next, Abstract!FinishDelete, Abstract!Replace, Abstract!Delete
  <2>5. CASE Failing
    BY <1>r, <2>2, <2>3, <2>5 DEF Abstract!Next, Abstract!Fail, Failing
  <2> QED BY <1>5, <2>4, <2>5
<1>t. ASSUME Shift
      PROVE  Crossing(op, Secret, Secret')
  BY <1>t DEF Shift, Shifted, Secret, Inventory, Root, Crossing
<1>u. ASSUME Kept, Effect, op'.mig = "none"
      PROVE  Crossing(op, Secret, Secret')
  BY <1>i, <1>u, EffectCrosses DEF Kept
<1>10. CASE Step \/ StepRefused \/ StepFails
  <2>1. Kept /\ Effect /\ op.kind # "idle" /\ op'.mig = "none" /\ (Going \/ Failing)
    BY <1>10, <1>i, WritesKeep DEF Going, Failing
  <2> QED BY <1>5, <1>u, <2>1
<1>11. CASE MigrateJournal
  <2>1. /\ Kept /\ op.kind # "idle" /\ Going
        /\ Inventory' = Inventory /\ Root' = Root /\ parts' = parts /\ val' = val
    BY <1>11, <1>i, JournalKeeps
  <2>2. Crossing(op, Secret, Secret')
    BY <2>1 DEF Secret, Crossing
  <2> QED BY <1>5, <2>1, <2>2
<1>12. CASE MigrateDelete
  <2>1. /\ Kept /\ op.kind # "idle" /\ Going /\ op'.mig = op.mig /\ val' = val
        /\ \/ op.mig = "inv" /\ InvLands /\ Root = "marker" /\ Root' = "marker"
           \/ op.mig = "root" /\ RootLands
    BY <1>12, <1>i, DeleteKeeps
  <2>2. CASE op.mig = "inv" /\ InvLands /\ Root = "marker" /\ Root' = "marker"
    <3>1. Crossing(op, Secret, Secret')
      BY <1>i, <2>1, <2>2, CleanCrosses DEF Kept
    <3> QED BY <1>5, <2>1, <3>1
  <2>3. CASE op.mig = "root" /\ RootLands
    <3>1. inv' = inv /\ ~Stuck(inv) /\ ~Stuck(inv')
      BY <2>1, <2>3 DEF RootLands, Journaled, Stuck
    <3>2. Crossing(op, Secret, Secret')
      BY <1>i, <2>1, <2>3, <3>1, CleanCrosses DEF Kept
    <3> QED BY <1>5, <2>1, <3>2
  <2> QED BY <2>1, <2>2, <2>3
<1>13. CASE MigrateRepublish \/ MigrateRetire
  <2>1. Kept /\ Shift /\ op.kind # "idle" /\ Going
    BY <1>13, <1>i, LastCallsKeep
  <2> QED BY <1>5, <1>t, <2>1
<1>14. CASE MigrationFails
  <2>1. Kept /\ (Effect \/ Shift) /\ op.kind # "idle" /\ Failing /\ op'.mig = "none"
    BY <1>14, <1>i, MigrationFailsKeeps
  <2> QED BY <1>5, <1>t, <1>u, <2>1
<1>15. CASE MigrationLeavesJournal
  <2>1. Kept /\ (Effect \/ Shift) /\ op.kind # "idle" /\ Going /\ op'.mig = "none"
    BY <1>15, <1>i, LeavesKeeps
  <2> QED BY <1>5, <1>t, <1>u, <2>1
<1>6. CASE Read /\ UNCHANGED <<itemVars, used, op, res, faults>>
  BY <1>6, <1>s DEF itemVars, Requested
<1>7. CASE UNCHANGED vars
  BY <1>7, <1>s DEF vars, Requested
<1>8. ASSUME NEW v \in Values, Begin("put", v)
      PROVE  Abstract!Next \/ Same
  BY <1>1, <1>8
<1>9. ASSUME Begin("delete", None)
      PROVE  Abstract!Next \/ Same
  BY <1>1, <1>9
<1> HIDE DEF Same
<1> QED BY <1>2, <1>3, <1>4, <1>6, <1>7, <1>8, <1>9, <1>10, <1>11, <1>12, <1>13, <1>14, <1>15
        DEF Next, Mutate

\* Seen through a get, put and delete take effect at one write each, and an
\* operation that reports success has had its effect, whatever fails.
THEOREM ImplementsAtomicSecretHolds == Spec => ImplementsAtomicSecret
<1>1. Init => Abstract!Init
  BY InitSecret
<1>2. Typed /\ KeyringInv /\ [Next]_vars => [Journaled' \/ Abstract!Next]_<<Secret, Requested, res.out>>
  BY NextSecret
<1> QED BY <1>1, <1>2, KeyringInvariant, PTL DEF Spec, ImplementsAtomicSecret
=============================================================================
