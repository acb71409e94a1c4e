------------------------------ MODULE PlanLock ------------------------------
(***************************************************************************)
(* The per-operation plan lock of cfctl-storage: a lock file that is        *)
(* created exclusively, records when and by whom it was created, is never   *)
(* renewed, may be taken over once it is stale, and is removed by the Drop  *)
(* of the guard that owns it.  Every file-system call is one step, since    *)
(* the processes that share the state directory interleave between calls.   *)
(*                                                                          *)
(* A process stands for one cfctl invocation at a time.  The nonce of a     *)
(* record is represented by the process that created the file: a process    *)
(* has at most one live guard, and its next guard needs the file of the     *)
(* previous one to be gone.                                                 *)
(***************************************************************************)
EXTENDS Naturals, FiniteSets

CONSTANTS
    Proc,              \* the cfctl processes that contend for one plan
    NoOwner,           \* the owner of an absent lock file
    LockTtl,           \* LOCK_TTL (15 minutes), in ticks
    PartialRecordTtl,  \* age (30 seconds) at which an unreadable record is stale
    MaxFaults          \* bound: crashes and failed I/O calls in a behaviour

ASSUME ProcAssumption == NoOwner \notin Proc
ASSUME TtlAssumption ==
    /\ LockTtl \in Nat /\ PartialRecordTtl \in Nat
    /\ PartialRecordTtl <= LockTtl
ASSUME FaultsAssumption == MaxFaults \in Nat

VARIABLES
    lockFile,    \* the lock file: its owner, age, whether the record is written
    at,          \* where each process is in lock_plan or in the guard's life
    lockStolen,  \* history: a live owner's lock file has been removed by another
    faults       \* number of faults so far

lockVars == <<lockFile, at, lockStolen, faults>>

-----------------------------------------------------------------------------

Ages == 0 .. LockTtl + 1

\* The positions in lock_plan, the guard's life, and Drop.
LockPc == {"idle", "create", "write", "check", "remove", "recreate", "held", "drop"}

\* Positions in which a process is entitled to the lock file it created.
Owning == {"write", "held", "drop"}

\* examined (history) holds the processes that have read this very file.
LockFile == [owner: Proc \cup {NoOwner}, age: Ages, written: BOOLEAN, examined: SUBSET Proc]

NoFile == [owner |-> NoOwner, age |-> 0, written |-> FALSE, examined |-> {}]

FileExists == lockFile.owner # NoOwner

\* Defect: a record that does not parse counts as a live lock for ever.
RecordIsStale_NeverPartial == lockFile.written /\ lockFile.age > LockTtl

\* lock_is_expired on a file that exists: a parsable record by its creation
\* time, an empty or truncated one by its modification time.
RecordIsStale == lockFile.age > (IF lockFile.written THEN LockTtl ELSE PartialRecordTtl)

LockTypeOK ==
    /\ lockFile \in LockFile
    /\ at \in [Proc -> LockPc]
    /\ lockStolen \in BOOLEAN
    /\ faults \in 0 .. MaxFaults

LockInit ==
    /\ lockFile = NoFile
    /\ at = [p \in Proc |-> "idle"]
    /\ lockStolen = FALSE
    /\ faults = 0

-----------------------------------------------------------------------------

Goto(p, pc) == at' = [at EXCEPT ![p] = pc]

Fault == faults < MaxFaults /\ faults' = faults + 1

\* remove_file by p; removing an absent file is not an error.
RemoveFile(p) ==
    /\ lockFile' = NoFile
    /\ lockStolen' = (lockStolen \/ \E q \in Proc \ {p} : lockFile.owner = q /\ at[q] \in Owning)

\* Defect: open(create, truncate) instead of open(create_new).
CreatePlanLock_Truncates(p, exists) ==
    /\ Goto(p, "write") /\ lockFile' = [NoFile EXCEPT !.owner = p]
    /\ UNCHANGED <<lockStolen, faults>>

\* create_plan_lock up to and including open(create_new): the new file is
\* empty until write_all.
CreatePlanLock(p, exists) ==
    /\ IF FileExists
       THEN Goto(p, exists) /\ UNCHANGED lockFile
       ELSE Goto(p, "write") /\ lockFile' = [NoFile EXCEPT !.owner = p]
    /\ UNCHANGED <<lockStolen, faults>>

\* A command that needs the plan lock calls lock_plan.
Begin(p) ==
    /\ at[p] = "idle"
    /\ Goto(p, "create")
    /\ UNCHANGED <<lockFile, lockStolen, faults>>

TryLock(p) == at[p] = "create" /\ CreatePlanLock(p, "check")

\* write_all of the record and sync_all.  A file that has been removed in the
\* meantime is written without a name in the directory.
WriteRecord(p) ==
    /\ at[p] = "write"
    /\ lockFile' = IF lockFile.owner = p THEN [lockFile EXCEPT !.written = TRUE] ELSE lockFile
    /\ Goto(p, "held")
    /\ UNCHANGED <<lockStolen, faults>>

\* The permission change, the write or the sync fails: the error returns
\* without a guard and leaves the file, empty or complete, behind.
WriteRecordFails(p) ==
    /\ at[p] = "write" /\ Fault
    /\ \E complete \in BOOLEAN :
          lockFile' = IF lockFile.owner = p THEN [lockFile EXCEPT !.written = complete] ELSE lockFile
    /\ Goto(p, "idle")
    /\ UNCHANGED lockStolen

\* lock_is_expired: an absent file counts as expired.
CheckExpired(p) ==
    /\ at[p] = "check"
    /\ IF FileExists
       THEN /\ Goto(p, IF RecordIsStale THEN "remove" ELSE "idle")
            /\ lockFile' = [lockFile EXCEPT !.examined = @ \cup {p}]
       ELSE Goto(p, "remove") /\ UNCHANGED lockFile
    /\ UNCHANGED <<lockStolen, faults>>

RemoveExpired(p) ==
    /\ at[p] = "remove"
    /\ RemoveFile(p)
    /\ Goto(p, "recreate")
    /\ UNCHANGED faults

Recreate(p) == at[p] = "recreate" /\ CreatePlanLock(p, "idle")

\* Defect: Drop removes whatever lock file it finds, without the nonce test.
Release_IgnoresNonce(p) ==
    /\ at[p] = "held"
    /\ Goto(p, IF lockFile.written THEN "drop" ELSE "idle")
    /\ lockFile' = IF FileExists THEN [lockFile EXCEPT !.examined = @ \cup {p}] ELSE lockFile
    /\ UNCHANGED <<lockStolen, faults>>

\* PlanLock::drop, first half: read the record and compare the nonce.
Release(p) ==
    /\ at[p] = "held"
    /\ Goto(p, IF lockFile.owner = p /\ lockFile.written THEN "drop" ELSE "idle")
    /\ lockFile' = IF FileExists THEN [lockFile EXCEPT !.examined = @ \cup {p}] ELSE lockFile
    /\ UNCHANGED <<lockStolen, faults>>

\* PlanLock::drop, second half: remove the file that was read.
DropRemove(p) ==
    /\ at[p] = "drop"
    /\ RemoveFile(p)
    /\ Goto(p, "idle")
    /\ UNCHANGED faults

\* The process dies, or its Drop ignores a failed read or remove: either way
\* the file stays.
Crash(p) ==
    /\ at[p] # "idle" /\ Fault
    /\ Goto(p, "idle")
    /\ UNCHANGED <<lockFile, lockStolen>>

\* Time passes; an age beyond LockTtl is not told apart from a larger one.
Tick ==
    /\ FileExists /\ lockFile.age <= LockTtl
    /\ lockFile' = [lockFile EXCEPT !.age = @ + 1]
    /\ UNCHANGED <<at, lockStolen, faults>>

-----------------------------------------------------------------------------

\* The steps of lock_plan after its call and before it returns a guard.
AcquireStep(p) ==
    \/ TryLock(p) \/ WriteRecord(p) \/ WriteRecordFails(p)
    \/ CheckExpired(p) \/ RemoveExpired(p) \/ Recreate(p)

LockNext ==
    \/ \E p \in Proc : Begin(p) \/ AcquireStep(p) \/ Release(p)
                       \/ DropRemove(p) \/ Crash(p)
    \/ Tick

LockSpec == LockInit /\ [][LockNext]_lockVars

\* A process that is scheduled makes progress, and commands end; clocks run.
LockFairness ==
    /\ \A p \in Proc : WF_lockVars(TryLock(p) \/ WriteRecord(p) \/ CheckExpired(p)
                                   \/ RemoveExpired(p) \/ Recreate(p)
                                   \/ Release(p) \/ DropRemove(p))
    /\ WF_lockVars(Tick)

\* Somebody keeps asking for the plan: the assumption about the operator
\* under which a lock that nobody owns has to become available again.
OperatorRetries == \A p \in Proc : WF_lockVars(Begin(p))

LiveLockSpec == LockSpec /\ LockFairness /\ OperatorRetries

-----------------------------------------------------------------------------

\* Until a live owner's file has been removed, every process that created a
\* lock file and has neither failed nor released it still finds its own file
\* at the path: Drop therefore removes nothing but its own lock.
OwnerKeepsFile ==
    ~lockStolen => \A p \in Proc : at[p] \in Owning => lockFile.owner = p

\* Two processes hold the plan lock only after a takeover has removed a live
\* owner's file: in every behaviour without one the exclusive create, and
\* the order in which a guard ends and its file goes, exclude it.
MutualExclusion ==
    ~lockStolen => \A p, q \in Proc : at[p] = "held" /\ at[q] = "held" => p = q

\* The nonce test of PlanLock::drop: a guard whose lock has been taken over
\* never deletes its successor's file after having read it.  (A takeover
\* between the read and the remove of Drop can still cost a successor its
\* file, which Drop has then not read.)
DropKeepsSuccessor ==
    [][\A p \in Proc :
          (at[p] = "drop" /\ at'[p] = "idle" /\ lockFile.owner \notin {p, NoOwner}
             /\ lockFile' = NoFile)
          => p \notin lockFile.examined]_lockVars

\* The file of a process that crashed, or failed between create and return,
\* is orphaned: no guard will ever remove it.
Orphaned(p) == lockFile.owner = p /\ at[p] \notin Owning

\* A plan is never wedged by an orphaned lock file, empty or complete: if the
\* operator keeps asking, lock_plan takes it over.
OrphanIsReclaimed == \A p \in Proc : Orphaned(p) ~> ~Orphaned(p)

\* docs/runtime-policy.md, on the nonce: "nonce ownership prevents an older
\* process from deleting a newer lock".  A process deletes only the lock file
\* it examined, never one created since.
NewerLockKept ==
    [][\A p \in Proc :
          (at[p] \in {"remove", "drop"} /\ at'[p] \in {"recreate", "idle"}
             /\ FileExists /\ lockFile' = NoFile)
          => p \in lockFile.examined]_lockVars

=============================================================================
