------------------------------ MODULE FileLock ------------------------------
(***************************************************************************)
(* The advisory download lock of internal/flock: a file <path>.pid that is *)
(* created with O_EXCL, holds the PID of the process that created it, and  *)
(* is deleted to release the lock.  A process that finds the file polls it *)
(* and deletes it by force when the PID it read no longer runs, or when    *)
(* the file has stayed without a PID for longer than a grace period.       *)
(*                                                                         *)
(* One lock file is modelled: every binary of the cache has its own.       *)
(* Every file-system call is one step.  A PID is identified with the       *)
(* process it was given to; the kernel may give it to another program once *)
(* that one is gone.  ToolFetch runs these steps as part of getToolBinary. *)
(***************************************************************************)

CONSTANTS
    Proc,       \* the toolshare processes that want the same binary
    None,       \* no file, no PID, no process
    IOFaults    \* may file-system calls fail for reasons of their own?

ASSUME ProcAssumption == None \notin Proc
ASSUME IOFaultsAssumption == IOFaults \in BOOLEAN

VARIABLES
    pc,         \* pc[p]: the call p is about to make
    lockFile,   \* the process that created the present <path>.pid, or None
    lockPid,    \* the PID it contains, None while it is still empty
    lockOld,    \* is its mtime further back than the grace period?
    seen,       \* seen[p]: the PID p last read from the lock file
    exited,     \* the processes that have ended, by themselves or killed
    recycled,   \* exited processes whose PID an unrelated process now has
    raced,      \* history: a wait was overtaken (see CreateLock, GraceExpires)
    faulted     \* history: the processes that met an I/O fault

lockVars == <<lockFile, lockPid, lockOld>>
osVars == <<exited, recycled>>
flockVars == <<pc, lockVars, seen, osVars, raced, faulted>>

(* Where AcquireFileLock returns to, without the lock and with it.  *)
NotAcquired == "stat"
Acquired == "fetch"

LockLabels == {"open", "writePid", "readPid", "statPid", "checkPid",
               "forceRelease"}

LockTypeOK ==
    /\ lockFile \in Proc \cup {None}
    /\ lockPid \in Proc \cup {None}
    /\ lockOld \in BOOLEAN
    /\ seen \in [Proc -> Proc \cup {None}]
    /\ exited \in SUBSET Proc
    /\ recycled \in SUBSET exited
    /\ raced \in BOOLEAN
    /\ faulted \in SUBSET Proc

LockInit ==
    /\ lockFile = None /\ lockPid = None /\ lockOld = FALSE
    /\ seen = [p \in Proc |-> None]
    /\ exited = {} /\ recycled = {}
    /\ raced = FALSE
    /\ faulted = {}

-----------------------------------------------------------------------------
At(p, label) == pc[p] = label

Goto(p, label) == pc' = [pc EXCEPT ![p] = label]

(* p meets an I/O fault: only where the model admits them.  *)
Fault(p) == IOFaults /\ faulted' = faulted \cup {p}

(* A call of p that leaves nothing behind.  *)
Look(p, from, to) ==
    /\ At(p, from)
    /\ Goto(p, to)
    /\ UNCHANGED <<lockVars, seen, osVars, raced, faulted>>

NewLockFile(p) == lockFile' = p /\ lockPid' = None /\ lockOld' = FALSE

RemoveLockFile == lockFile' = None /\ lockPid' = None /\ lockOld' = FALSE

(* processIsRunning(pid): some process has this PID, as signal 0 reaches   *)
(* it (filelock_unix.go) or os.FindProcess can open it                     *)
(* (filelock_windows.go).                                                  *)
Running(q) == q \notin exited \/ q \in recycled

(***************************************************************************)
(* q stands between reading the lock file and doing what the read called   *)
(* for: what it does is right for the file it read only.                   *)
(***************************************************************************)
ActsOnRead(q) == pc[q] \in {"statPid", "checkPid", "forceRelease"}

(* Mutant: the lock file is opened without O_EXCL.  *)
CreateLockShared(p) ==
    /\ At(p, "open")
    /\ NewLockFile(p)
    /\ raced' = (raced \/ \E q \in Proc : ActsOnRead(q))
    /\ Goto(p, "writePid")
    /\ UNCHANGED <<seen, osVars, faulted>>

(* OpenFile(O_CREATE|O_EXCL): the file is new and p has the lock ...  *)
CreateLock(p) ==
    /\ At(p, "open")
    /\ lockFile = None
    /\ NewLockFile(p)
    /\ raced' = (raced \/ \E q \in Proc : ActsOnRead(q))
    /\ Goto(p, "writePid")
    /\ UNCHANGED <<seen, osVars, faulted>>

(* ... or ErrExist: p starts to wait on the PID in it.  *)
LockExists(p) == lockFile # None /\ Look(p, "open", "readPid")

(* The PID goes to the file p created, which may have been deleted since.  *)
PutPid(p) ==
    IF lockFile = p THEN lockPid' = p /\ lockOld' = FALSE /\ UNCHANGED lockFile
                    ELSE UNCHANGED lockVars

WritePid(p) ==
    /\ At(p, "writePid")
    /\ PutPid(p)
    /\ Goto(p, Acquired)
    /\ UNCHANGED <<seen, osVars, raced, faulted>>

(* waitOnPID reads a PID, an empty file, or none: the lock was released.  *)
ReadPid(p) ==
    /\ At(p, "readPid")
    /\ lockPid # None
    /\ seen' = [seen EXCEPT ![p] = lockPid]
    /\ Goto(p, "checkPid")
    /\ UNCHANGED <<lockVars, osVars, raced, faulted>>

(* Mutant: the error of Sscan is ignored and the PID is 0.  *)
ReadNoPidZero(p) ==
    /\ At(p, "readPid")
    /\ lockFile # None /\ lockPid = None
    /\ seen' = [seen EXCEPT ![p] = 0]
    /\ Goto(p, "checkPid")
    /\ UNCHANGED <<lockVars, osVars, raced, faulted>>

ReadNoPid(p) ==
    lockFile # None /\ lockPid = None /\ Look(p, "readPid", "statPid")

ReadReleased(p) == lockFile = None /\ Look(p, "readPid", NotAcquired)

(***************************************************************************)
(* The age of the file that exists now, which need not be the file that    *)
(* was read.  A file that is gone is an error here and ends the wait.      *)
(***************************************************************************)
StatPid(p) ==
    Look(p, "statPid", IF lockFile = None THEN NotAcquired
                       ELSE IF lockOld THEN "forceRelease" ELSE "readPid")

(* Mutant: a waiter does not look whether the owner still runs.  *)
CheckPidNever(p) ==
    /\ At(p, "checkPid")
    /\ Goto(p, "forceRelease")
    /\ seen' = [seen EXCEPT ![p] = None]
    /\ UNCHANGED <<lockVars, osVars, raced, faulted>>

(* The owner runs: sleep for the poll interval, and forget what was read.  *)
CheckPid(p) ==
    /\ At(p, "checkPid")
    /\ Goto(p, IF Running(seen[p]) THEN "readPid" ELSE "forceRelease")
    /\ seen' = [seen EXCEPT ![p] = None]
    /\ UNCHANGED <<lockVars, osVars, raced, faulted>>

(* ReleaseFileLock deletes whatever file has the name; none is fine too.  *)
Release(p, from, to) ==
    /\ At(p, from)
    /\ RemoveLockFile
    /\ Goto(p, to)
    /\ UNCHANGED <<seen, osVars, raced, faulted>>

ForceRelease(p) == Release(p, "forceRelease", NotAcquired)

(* Mutant: the deferred release is missing.  *)
ReleaseForgotten(p) == Look(p, "unlock", "done")

(* The deferred release at the end of getToolBinary.  *)
ReleaseLock(p) == Release(p, "unlock", "done")

LockStep(p) ==
    \/ CreateLock(p) \/ LockExists(p)
    \/ WritePid(p)
    \/ ReadPid(p) \/ ReadNoPid(p) \/ ReadReleased(p)
    \/ StatPid(p) \/ CheckPid(p)
    \/ ForceRelease(p) \/ ReleaseLock(p)

(***************************************************************************)
(* A call fails.  AcquireFileLock returns the error, which its caller only *)
(* logs; a lock file that p has created stays, without PID when the write  *)
(* failed and with it when the close did.                                  *)
(***************************************************************************)
AcquireFails(p) ==
    /\ pc[p] \in LockLabels \ {"checkPid"}
    /\ Fault(p)
    /\ Goto(p, NotAcquired)
    /\ IF At(p, "writePid") THEN PutPid(p) \/ UNCHANGED lockVars
                            ELSE UNCHANGED lockVars
    /\ UNCHANGED <<seen, osVars, raced>>

(* A failure to delete the file at the end changes no result.  *)
ReleaseLockFails(p) ==
    /\ At(p, "unlock")
    /\ Fault(p)
    /\ Goto(p, "done")
    /\ UNCHANGED <<lockVars, seen, osVars, raced>>

-----------------------------------------------------------------------------
(***************************************************************************)
(* The grace period since the last write to the lock file runs out.  A     *)
(* wait is overtaken when the file is still empty though its creator runs, *)
(* or when a process that read an empty file finds one with a PID and this *)
(* old: one of the two took longer than the grace period over one call.    *)
(***************************************************************************)
GraceExpires ==
    /\ lockFile # None /\ ~lockOld
    /\ lockOld' = TRUE
    /\ raced' = \/ raced
                \/ lockPid = None /\ lockFile \notin exited
                \/ lockPid # None /\ \E p \in Proc : At(p, "statPid")
    /\ UNCHANGED <<pc, lockFile, lockPid, seen, osVars, faulted>>

(* A process is killed during the call, or ends some time after it.  *)
Exit(p) ==
    /\ p \notin exited
    /\ exited' = exited \cup {p}
    /\ Goto(p, IF At(p, "done") THEN "done" ELSE "dead")
    /\ UNCHANGED <<lockVars, seen, recycled, raced, faulted>>

(* The kernel gives the PID to another program, or that one ends too.  *)
ReusePid(p) ==
    /\ p \in exited
    /\ recycled' = IF p \in recycled THEN recycled \ {p}
                                     ELSE recycled \cup {p}
    /\ UNCHANGED <<pc, lockVars, seen, exited, raced, faulted>>

OSStep == GraceExpires \/ \E p \in Proc : Exit(p) \/ ReusePid(p)
=============================================================================
