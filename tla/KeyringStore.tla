---------------------------- MODULE KeyringStore ----------------------------
(***************************************************************************)
(* The macOS keyring value of one key.  A value is longer than an item may  *)
(* be, so it is stored as a generation (a manifest and its chunks) named by *)
(* an inventory item, next to a root item that older releases used for the  *)
(* value itself (raw) or for a chunk manifest of their own (legacy v1).     *)
(*                                                                          *)
(* put and delete run under the mutation lock, which the system releases    *)
(* when the process dies; get takes no lock.  A mutation is the list of     *)
(* item writes it has left: first those that reconcile what an interrupted  *)
(* predecessor left, then its own.  Every write is read back, so an error   *)
(* after the write took effect counts as success.                           *)
(*                                                                          *)
(* A step is one keychain call that another process can see between: a      *)
(* write is one call, or the four calls of an ownership migration, and a    *)
(* read is a call for the item and, when that is absent, one for its        *)
(* journal.  The holder of the lock reads in one step, since nobody else    *)
(* writes; the chunks of a generation are read in one step, since they are  *)
(* written once and erased once.                                            *)
(***************************************************************************)
EXTENDS Naturals, Sequences

CONSTANTS Values,       \* secrets
          None,         \* no item, or no value
          MaxGen,       \* bound: generations written in a behaviour
          N,            \* chunks of a generation
          Superseded,   \* the items may belong to the superseded adapter
          MaxFaults     \* bound: failed writes and crashes

ASSUME KeyringAssumption ==
    /\ MaxGen \in Nat \ {0} /\ N \in Nat \ {0} /\ MaxFaults \in Nat
    /\ Superseded \in BOOLEAN
    /\ Values \cap {"absent", "deleting", "idle", "marker", "legacy", "error"} = {}
    /\ None \notin Values \cup {"marker", "legacy"}

\* Generation 0 is the legacy v1 one, whose manifest is the root item.
Generations == 1 .. MaxGen
Parts == 0 .. N
Manifest == 0

InventoryStates ==
    {"PreparingLegacy", "Active", "ActiveWithPending", "ActiveWithRetiring",
     "PublishedNeedsRootScrub", "PublishedLegacyV1NeedsRootScrub",
     "Deleting", "DeletingLegacyV1"}

Inventories == [state : InventoryStates, primary : 0 .. MaxGen, secondary : 0 .. MaxGen]

ASSUME NoInventory == None \notin Inventories

\* A raw keychain item: its value, whether the superseded adapter owns it, and
\* the journal that carries a value across an ownership migration.
RootContents == Values \cup {"marker", "legacy"}
Items(content) == [pri : content \cup {None}, foreign : BOOLEAN, jrn : content \cup {None}]

Todo == [do : {"inv", "root", "write", "erase"}, g : 0 .. MaxGen, part : Parts,
         inv : Inventories \cup {None}, root : {"marker", None}]

\* mig names the item whose ownership the mutation is migrating.
Mutations == [kind : {"idle", "put", "delete"}, value : Values \cup {None},
              phase : {"reconcile", "main"}, todo : Seq(Todo), hit : BOOLEAN,
              mig : {"none", "inv", "root"}]

VARIABLES
    inv,      \* the inventory item
    root,     \* the root item
    parts,    \* stored parts of every generation, 0 the legacy one
    val,      \* the value a generation's chunks hold
    used,     \* generations (random write ids) drawn so far
    op,       \* the mutation under the mutation lock
    res,      \* how the last mutation returned, and whether a fault hit it
    reader,   \* a get in progress
    seen,     \* history: what a get could have returned since it began
    faults

itemVars == <<inv, root, parts, val>>
vars == <<inv, root, parts, val, used, op, res, reader, seen, faults>>

-----------------------------------------------------------------------------
\* Reading.

\* resolve_stored_value: the journal answers only for an absent item.
RawGet(item) == IF item.pri # None THEN item.pri ELSE item.jrn

Inventory == RawGet(inv)
Root == RawGet(root)

ReadGeneration(g, ps, vs) == IF ps[g] = Parts THEN vs[g] ELSE "error"

\* classify_legacy_v1 and read_legacy_v1_generation: no chunk is ambiguous,
\* some chunks are incomplete.
LegacyReadable(ps) == ps[0] = 1 .. N

GetUnmanaged(rt, ps, vs) ==
    CASE rt = None -> "absent"
      [] rt = "legacy" -> IF LegacyReadable(ps) THEN vs[0] ELSE "error"
      [] OTHER -> rt

Get(iv, rt, ps, vs) ==
    IF iv = None THEN GetUnmanaged(rt, ps, vs) ELSE
    CASE iv.state = "PreparingLegacy" -> GetUnmanaged(rt, ps, vs)
      [] iv.state \in {"Deleting", "DeletingLegacyV1"} -> "deleting"
      [] iv.state \in {"PublishedNeedsRootScrub", "PublishedLegacyV1NeedsRootScrub"}
           -> ReadGeneration(iv.primary, ps, vs)
      [] OTHER -> IF rt = "marker" THEN ReadGeneration(iv.primary, ps, vs) ELSE "error"

\* What a get returns when nothing moves under it.
Secret == Get(Inventory, Root, parts, val)

-----------------------------------------------------------------------------
\* Lists of item writes.

Blank == [do |-> "inv", g |-> 0, part |-> 0, inv |-> None, root |-> None]

WriteInventory(state, p, s) ==
    <<[Blank EXCEPT !.inv = [state |-> state, primary |-> p, secondary |-> s]]>>
DeleteInventory == <<Blank>>
SetRoot == <<[Blank EXCEPT !.do = "root", !.root = "marker"]>>
DeleteRoot == <<[Blank EXCEPT !.do = "root"]>>

\* The manifest, then the chunks.
StageGeneration(g) ==
    [k \in 1 .. N + 1 |-> [Blank EXCEPT !.do = "write", !.g = g, !.part = k - 1]]

\* The chunks, then the manifest.
CleanupGeneration(g) ==
    [k \in 1 .. N + 1 |->
        [Blank EXCEPT !.do = "erase", !.g = g, !.part = IF k <= N THEN k ELSE Manifest]]

CleanupLegacyV1 == [k \in 1 .. N |-> [Blank EXCEPT !.do = "erase", !.part = k]]

FinishDelete(g) == CleanupGeneration(g) \o DeleteRoot \o DeleteInventory
FinishDeleteLegacyV1 == CleanupLegacyV1 \o DeleteRoot \o DeleteInventory

Reconcile ==
    IF Inventory = None THEN <<>> ELSE
    LET iv == Inventory
    IN  CASE iv.state = "Active" -> <<>>
          [] iv.state = "PreparingLegacy" ->
               CleanupGeneration(iv.primary) \o DeleteInventory
          [] iv.state = "PublishedNeedsRootScrub" ->
               SetRoot \o WriteInventory("Active", iv.primary, 0)
          [] iv.state = "PublishedLegacyV1NeedsRootScrub" ->
               CleanupLegacyV1 \o SetRoot \o WriteInventory("Active", iv.primary, 0)
          [] iv.state \in {"ActiveWithPending", "ActiveWithRetiring"} ->
               CleanupGeneration(iv.secondary) \o WriteInventory("Active", iv.primary, 0)
          [] iv.state = "Deleting" -> FinishDelete(iv.primary)
          [] iv.state = "DeletingLegacyV1" -> FinishDeleteLegacyV1

\* A published generation is read before its root is scrubbed.
ReconcileReads ==
    (Inventory # None /\ Inventory.state \in
        {"PublishedNeedsRootScrub", "PublishedLegacyV1NeedsRootScrub"})
    => parts[Inventory.primary] = Parts

\* classify_legacy_v1: Confirmed legacy chunks are read in full first.
RootAdmits == Root = "legacy" => LegacyReadable(parts)

\* Defect: the generation is staged before the inventory names it.
PutInitial_StagesFirst(g) ==
    StageGeneration(g) \o WriteInventory("PreparingLegacy", g, 0)
    \o WriteInventory("PublishedNeedsRootScrub", g, 0)
    \o SetRoot \o WriteInventory("Active", g, 0)

\* Defect: the legacy chunks are removed before their successor is published.
PutInitial_CleansFirst(g) ==
    WriteInventory("PreparingLegacy", g, 0) \o StageGeneration(g)
    \o (IF Root = "legacy" THEN CleanupLegacyV1 ELSE <<>>)
    \o WriteInventory("PublishedNeedsRootScrub", g, 0)
    \o SetRoot \o WriteInventory("Active", g, 0)

PutInitial(g) ==
    WriteInventory("PreparingLegacy", g, 0) \o StageGeneration(g)
    \o (IF Root = "legacy"
        THEN WriteInventory("PublishedLegacyV1NeedsRootScrub", g, 0) \o CleanupLegacyV1
        ELSE WriteInventory("PublishedNeedsRootScrub", g, 0))
    \o SetRoot \o WriteInventory("Active", g, 0)

\* Defect: the old generation is removed before the new one is published.
PutManaged_CleansFirst(p, g) ==
    WriteInventory("ActiveWithPending", p, g) \o StageGeneration(g)
    \o CleanupGeneration(p) \o WriteInventory("ActiveWithRetiring", g, p)
    \o WriteInventory("Active", g, 0)

PutManaged(p, g) ==
    WriteInventory("ActiveWithPending", p, g) \o StageGeneration(g)
    \o WriteInventory("ActiveWithRetiring", g, p) \o CleanupGeneration(p)
    \o WriteInventory("Active", g, 0)

DeleteUnlocked ==
    CASE Inventory # None ->
           WriteInventory("Deleting", Inventory.primary, 0) \o FinishDelete(Inventory.primary)
      [] Inventory = None /\ Root = "legacy" ->
           WriteInventory("DeletingLegacyV1", 0, 0) \o FinishDeleteLegacyV1
      [] OTHER -> DeleteRoot

-----------------------------------------------------------------------------
NoOp == [kind |-> "idle", value |-> None, phase |-> "reconcile", todo |-> <<>>, hit |-> FALSE,
         mig |-> "none"]

\* held is history: what the root's journal held when the root was found absent.
NoReader == [pc |-> "idle", inv |-> None, root |-> None, held |-> None, got |-> None]

Stored(content, foreign) == [pri |-> content, foreign |-> foreign, jrn |-> None]

\* A key as some release left it: absent, raw, legacy v1 or managed.
Init ==
    /\ \E f \in (IF Superseded THEN BOOLEAN ELSE {FALSE}), v \in Values :
         /\ val = [g \in 0 .. MaxGen |-> v]
         /\ \/ /\ root = Stored(None, FALSE) /\ inv = Stored(None, FALSE)
               /\ parts = [g \in 0 .. MaxGen |-> {}] /\ used = 0
            \/ /\ root = Stored(v, f) /\ inv = Stored(None, FALSE)
               /\ parts = [g \in 0 .. MaxGen |-> {}] /\ used = 0
            \/ /\ root = Stored("legacy", f) /\ inv = Stored(None, FALSE)
               /\ parts = [g \in 0 .. MaxGen |-> IF g = 0 THEN 1 .. N ELSE {}] /\ used = 0
            \/ /\ root = Stored("marker", f)
               /\ inv = Stored([state |-> "Active", primary |-> 1, secondary |-> 0], f)
               /\ parts = [g \in 0 .. MaxGen |-> IF g = 1 THEN Parts ELSE {}] /\ used = 1
    /\ op = NoOp
    /\ res = [out |-> "ok", fault |-> FALSE]
    /\ reader = NoReader /\ seen = {}
    /\ faults = 0

-----------------------------------------------------------------------------
\* The mutation lock holder.

Return(out, fault) == op' = NoOp /\ res' = [out |-> out, fault |-> fault]

Begin(kind, v) ==
    /\ op.kind = "idle"
    /\ IF ReconcileReads
       THEN /\ op' = [kind |-> kind, value |-> v, phase |-> "reconcile", todo |-> Reconcile,
                       hit |-> FALSE, mig |-> "none"]
            /\ UNCHANGED res
       ELSE Return("error", op.hit)
    /\ UNCHANGED <<itemVars, used, faults>>

\* put_initial or put_managed; a managed key must still show its root marker.
PlanPut ==
    /\ op.kind = "put" /\ op.phase = "reconcile" /\ op.todo = <<>> /\ op.mig = "none"
    /\ IF (IF Inventory = None THEN RootAdmits ELSE Root = "marker")
       THEN LET g == used + 1
            IN  /\ g <= MaxGen
                /\ used' = g
                /\ val' = [val EXCEPT ![g] = op.value]
                /\ op' = [op EXCEPT !.phase = "main",
                                    !.todo = IF Inventory = None THEN PutInitial(g)
                                             ELSE PutManaged(Inventory.primary, g)]
                /\ UNCHANGED res
       ELSE Return("error", op.hit) /\ UNCHANGED <<used, val>>
    /\ UNCHANGED <<inv, root, parts, faults>>

PlanDelete ==
    /\ op.kind = "delete" /\ op.phase = "reconcile" /\ op.todo = <<>> /\ op.mig = "none"
    /\ IF Inventory = None => RootAdmits
       THEN op' = [op EXCEPT !.phase = "main", !.todo = DeleteUnlocked] /\ UNCHANGED res
       ELSE Return("error", op.hit)
    /\ UNCHANGED <<itemVars, used, faults>>

Finish ==
    /\ op.phase = "main" /\ op.todo = <<>> /\ op.mig = "none"
    /\ Return("ok", op.hit)
    /\ UNCHANGED <<itemVars, used, faults>>

\* set_generic_password creates or updates an item of one's own; on an item of
\* the superseded adapter it fails with an ownership conflict.
Written(item, v) == [item EXCEPT !.pri = v, !.foreign = FALSE]
Migrates(item, v) == v # None /\ item.pri # None /\ item.foreign

\* delete_generic_password removes the item and never its journal.
Erased(item) == [item EXCEPT !.pri = None, !.foreign = FALSE]

Put(item, v) == IF v = None THEN Erased(item) ELSE Written(item, v)

\* put_raw_exact and delete_raw_exact succeed on exact readback.
Apply(item, v, item2) == ~Migrates(item, v) /\ item2 = Put(item, v) /\ RawGet(item2) = v

Step ==
    /\ op.todo # <<>> /\ op.mig = "none"
    /\ LET t == Head(op.todo)
       IN  /\ CASE t.do = "inv"   -> Apply(inv, t.inv, inv') /\ UNCHANGED <<root, parts>>
                [] t.do = "root"  -> Apply(root, t.root, root') /\ UNCHANGED <<inv, parts>>
                [] t.do = "write" -> /\ parts' = [parts EXCEPT ![t.g] = @ \cup {t.part}]
                                     /\ UNCHANGED <<inv, root>>
                [] t.do = "erase" -> /\ parts' = [parts EXCEPT ![t.g] = @ \ {t.part}]
                                     /\ UNCHANGED <<inv, root>>
    /\ op' = [op EXCEPT !.todo = Tail(@)]
    /\ UNCHANGED <<val, used, res, faults>>

\* The item was deleted and its journal still answers: the read-back refuses.
StepRefused ==
    /\ op.todo # <<>> /\ op.mig = "none"
    /\ LET t == Head(op.todo)
       IN  \/ /\ t.do = "inv" /\ RawGet(Put(inv, t.inv)) # t.inv
              /\ inv' = Put(inv, t.inv) /\ UNCHANGED root
           \/ /\ t.do = "root" /\ RawGet(Put(root, t.root)) # t.root
              /\ root' = Put(root, t.root) /\ UNCHANGED inv
    /\ Return("error", op.hit)
    /\ UNCHANGED <<parts, val, used, faults>>

\* The call that changes something first: the write, or the migration's journal.
FirstCall(item, v) == IF Migrates(item, v) THEN [item EXCEPT !.jrn = v] ELSE Put(item, v)

\* The call reports an error and cannot be read back, or the process dies.
StepFails ==
    /\ op.todo # <<>> /\ op.mig = "none" /\ faults < MaxFaults
    /\ LET t == Head(op.todo)
       IN  CASE t.do = "inv"   -> inv' \in {inv, FirstCall(inv, t.inv)} /\ UNCHANGED <<root, parts>>
             [] t.do = "root"  -> root' \in {root, FirstCall(root, t.root)} /\ UNCHANGED <<inv, parts>>
             [] t.do = "write" -> /\ parts' \in {parts, [parts EXCEPT ![t.g] = @ \cup {t.part}]}
                                  /\ UNCHANGED <<inv, root>>
             [] t.do = "erase" -> /\ parts' \in {parts, [parts EXCEPT ![t.g] = @ \ {t.part}]}
                                  /\ UNCHANGED <<inv, root>>
    /\ Return("error", TRUE)
    /\ faults' = faults + 1
    /\ UNCHANGED <<val, used>>

-----------------------------------------------------------------------------
\* migrate_item_ownership: journal, delete, republish, retire.

Migrating == IF op.mig = "inv" THEN inv ELSE root

\* The migrated item becomes item.
Becomes(item) ==
    \/ op.mig = "inv" /\ inv' = item /\ UNCHANGED root
    \/ op.mig = "root" /\ root' = item /\ UNCHANGED inv

\* The item after the next call; which call that is shows in the item.
NextCall(item) ==
    CASE item.foreign -> Erased(item)
      [] ~item.foreign /\ item.pri = None -> [item EXCEPT !.pri = item.jrn]
      [] OTHER -> [item EXCEPT !.jrn = None]

\* From the delete on the journal answers with the new value.
Rest == IF Migrating.foreign THEN Tail(op.todo) ELSE op.todo

MigrateJournal ==
    /\ op.todo # <<>> /\ op.mig = "none"
    /\ LET t == Head(op.todo)
       IN  \/ t.do = "inv" /\ Migrates(inv, t.inv) /\ inv' = FirstCall(inv, t.inv) /\ UNCHANGED root
           \/ t.do = "root" /\ Migrates(root, t.root) /\ root' = FirstCall(root, t.root) /\ UNCHANGED inv
    /\ op' = [op EXCEPT !.mig = Head(op.todo).do]
    /\ UNCHANGED <<parts, val, used, res, faults>>

MigrateDelete ==
    /\ op.mig # "none" /\ Migrating.foreign
    /\ Becomes(NextCall(Migrating))
    /\ op' = [op EXCEPT !.todo = Rest]
    /\ UNCHANGED <<parts, val, used, res, faults>>

MigrateRepublish ==
    /\ op.mig # "none" /\ Migrating.pri = None
    /\ Becomes(NextCall(Migrating))
    /\ UNCHANGED <<parts, val, used, op, res, faults>>

MigrateRetire ==
    /\ op.mig # "none" /\ ~Migrating.foreign /\ Migrating.pri # None
    /\ Becomes(NextCall(Migrating))
    /\ op' = [op EXCEPT !.mig = "none"]
    /\ UNCHANGED <<parts, val, used, res, faults>>

\* A call of the migration fails, with or without effect, and the value cannot
\* be read back, or the process dies.
MigrationFails ==
    /\ op.mig # "none" /\ faults < MaxFaults
    /\ \E item \in {Migrating, NextCall(Migrating)} : Becomes(item)
    /\ Return("error", TRUE)
    /\ faults' = faults + 1
    /\ UNCHANGED <<parts, val, used>>

\* A call after the journal fails, the value is read back all the same, and the
\* mutation goes on over the journal it left.
MigrationLeavesJournal ==
    /\ op.mig # "none" /\ faults < MaxFaults
    /\ \E item \in {Migrating, NextCall(Migrating)} :
         ~item.foreign /\ item.jrn # None /\ Becomes(item)
    /\ op' = [op EXCEPT !.todo = Rest, !.hit = TRUE, !.mig = "none"]
    /\ faults' = faults + 1
    /\ UNCHANGED <<parts, val, used, res>>

-----------------------------------------------------------------------------
\* A get, without the lock: the inventory, the root, then the chunks; the
\* journal of an item is read after the item was found absent.

ReadInventory ==
    /\ reader.pc = "idle"
    /\ reader' = [NoReader EXCEPT !.pc = IF inv.pri = None THEN "invJournal" ELSE "root",
                                  !.inv = inv.pri]
    /\ seen' = {Secret}

ReadInventoryJournal ==
    /\ reader.pc = "invJournal"
    /\ reader' = [reader EXCEPT !.pc = "root", !.inv = inv.jrn]
    /\ UNCHANGED seen

ReadRoot ==
    /\ reader.pc = "root"
    /\ reader' = [reader EXCEPT !.pc = IF root.pri = None THEN "rootJournal" ELSE "parts",
                                !.root = root.pri,
                                !.held = IF root.pri = None THEN root.jrn ELSE None]
    /\ UNCHANGED seen

ReadRootJournal ==
    /\ reader.pc = "rootJournal"
    /\ reader' = [reader EXCEPT !.pc = "parts", !.root = root.jrn]
    /\ UNCHANGED seen

\* Defect: the inventory is read again after the root.
ReadParts_Rereads ==
    /\ reader.pc = "parts"
    /\ reader' = [reader EXCEPT !.pc = "done", !.got = Get(Inventory, reader.root, parts, val)]
    /\ UNCHANGED seen

ReadParts ==
    /\ reader.pc = "parts"
    /\ reader' = [reader EXCEPT !.pc = "done", !.got = Get(reader.inv, reader.root, parts, val)]
    /\ UNCHANGED seen

ReadReturns ==
    /\ reader.pc = "done"
    /\ reader' = NoReader /\ seen' = {}

Mutate ==
    \/ \E v \in Values : Begin("put", v)
    \/ Begin("delete", None)
    \/ PlanPut \/ PlanDelete \/ Finish
    \/ Step \/ StepRefused \/ StepFails
    \/ MigrateJournal \/ MigrateDelete \/ MigrateRepublish \/ MigrateRetire
    \/ MigrationFails \/ MigrationLeavesJournal

Read ==
    \/ ReadInventory \/ ReadInventoryJournal \/ ReadRoot \/ ReadRootJournal
    \/ ReadParts \/ ReadReturns

Next ==
    \/ /\ Mutate
       /\ seen' = IF reader.pc \notin {"idle", "done"} THEN seen \cup {Secret'} ELSE seen
       /\ UNCHANGED reader
    \/ Read /\ UNCHANGED <<itemVars, used, op, res, faults>>

Spec == Init /\ [][Next]_vars

-----------------------------------------------------------------------------
TypeOK ==
    /\ inv \in Items(Inventories) /\ root \in Items(RootContents)
    /\ parts \in [0 .. MaxGen -> SUBSET Parts]
    /\ val \in [0 .. MaxGen -> Values]
    /\ used \in 0 .. MaxGen
    /\ op \in Mutations
    /\ res \in [out : {"ok", "error"}, fault : BOOLEAN]
    /\ reader.pc \in {"idle", "invJournal", "root", "rootJournal", "parts", "done"}
    /\ faults \in 0 .. MaxFaults

\* Whatever write fails, every stored part belongs to a generation that the
\* inventory names, so the next mutation finds and removes it.
NothingStranded ==
    /\ \A g \in Generations : parts[g] # {} =>
           /\ Inventory # None
           /\ g = Inventory.primary \/ g = Inventory.secondary
    /\ parts[0] # {} => Root = "legacy"

\* An ownership migration stopped half-way and left its journal.
Journaled == (inv.jrn # None /\ op.mig # "inv") \/ (root.jrn # None /\ op.mig # "root")

\* From every state an interruption can leave, a put or a delete that meets no
\* further fault succeeds ("retry update", "retry deletion" in the tests),
\* unless an ownership migration left its journal behind.
RetrySucceeds == res.out = "error" => res.fault \/ Journaled

\* A get that takes no lock returns what was stored at some moment since it
\* began, absent for a secret under deletion, or an error, whatever calls of a
\* mutation, of its ownership migrations too, come between its own.  Two
\* exceptions.  A get that found no managed inventory, before the first managed
\* put published it or between the calls of its migration, may return the root
\* marker itself.  And a get that found the root absent in the middle of its
\* migration and then the journal retired answers absent.
ReadIsCurrent ==
    reader.pc = "done" =>
        \/ reader.got \in seen \cup {"error"}
        \/ reader.got = "absent" /\ "deleting" \in seen
        \/ /\ reader.got = "marker"
           /\ reader.inv = None \/ reader.inv.state = "PreparingLegacy"
        \/ reader.got = "absent" /\ reader.held # None

Requested == IF op.kind = "put" THEN op.value ELSE IF op.kind = "delete" THEN "deleting" ELSE "idle"

Abstract == INSTANCE AtomicSecret
              WITH Absent <- "absent", Deleting <- "deleting", Idle <- "idle",
                   secret <- Secret, req <- Requested, res <- res.out

\* Seen through a get, the chunked store is an atomic secret as long as no
\* interrupted ownership migration left a journal.
ImplementsAtomicSecret ==
    Abstract!Init /\ [][Journaled' \/ Abstract!Next]_<<Secret, Requested, res.out>>

\* "stopping after the republish leaves an inert journal that the primary
\* shadows on every read": a mutation that meets no fault succeeds.
JournalIsInert == res.out = "error" => res.fault

\* "The journal answers only when the primary is absent, which is exactly the
\* window where a migration deleted the superseded item and had not yet
\* republished it": a stored secret is never answered as absent.
AbsentIsAbsent ==
    reader.pc = "done" /\ reader.got = "absent" => {"absent", "deleting"} \cap seen # {}
=============================================================================
