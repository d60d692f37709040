------------------------------ MODULE ToolFetch ------------------------------
(***************************************************************************)
(* getToolBinary of internal/driver: how `toolshare download` and          *)
(* `toolshare invoke` put one binary into the local cache, run by any      *)
(* number of processes at once.                                            *)
(*                                                                         *)
(* A process looks for the binary at its final path; if it is not there it *)
(* takes the download lock (module FileLock), asks the configured storages *)
(* for the binary one after the other, and stores the first answer by      *)
(* writing a temporary file next to the final path and renaming it.        *)
(* Processes share nothing but the cache directory.                        *)
(*                                                                         *)
(* A temporary file has a random name, so it is named here by the process  *)
(* that created it: a process calls getToolBinary once for a binary.       *)
(***************************************************************************)
EXTENDS FileLock

CONSTANT
    Backends    \* the storages that are configured

(* At most a remote cache and the source of the tool, asked in this order. *)
ASSUME BackendsAssumption == Backends \subseteq {"remote", "source"}

VARIABLES
    binary,     \* the process whose file has the final path, or None
    temp,       \* temp[p]: the state of the file that p created
    todo,       \* todo[p]: the storages p has not yet asked in vain
    reply       \* reply[p]: what getToolBinary has decided to return to p

vars == <<flockVars, binary, temp, todo, reply>>

StoreLabels == {"createTemp", "writeTemp", "finishTemp", "chmodTemp",
                "rename"}
Labels == {"start", "stat", "fetch", "unlock", "done", "dead"}
              \cup LockLabels \cup StoreLabels

TempStates == {"none", "empty", "partial", "whole", "executable"}

TypeOK ==
    /\ pc \in [Proc -> Labels]
    /\ LockTypeOK
    /\ binary \in Proc \cup {None}
    /\ temp \in [Proc -> TempStates]
    /\ todo \in [Proc -> SUBSET Backends]
    /\ reply \in [Proc -> {"none", "path", "error"}]

Init ==
    /\ pc = [p \in Proc |-> "start"]
    /\ LockInit
    /\ binary = None
    /\ temp = [p \in Proc |-> "none"]
    /\ todo = [p \in Proc |-> Backends]
    /\ reply = [p \in Proc |-> "none"]

-----------------------------------------------------------------------------
toolVars == <<binary, temp, todo, reply>>

Decide(p, r) == reply' = [reply EXCEPT ![p] = r]

(* p decides what it returns and goes to where it does so.  *)
Finish(p, r, to) ==
    /\ Decide(p, r)
    /\ Goto(p, to)
    /\ UNCHANGED <<lockVars, seen, osVars, raced, binary, temp, todo>>

(* MkdirAll of the folder of the final path.  *)
PrepareFolder(p) == Look(p, "start", "stat") /\ UNCHANGED toolVars

(* The head of the loop: the binary is there and its path is returned ...  *)
StatFound(p) ==
    /\ At(p, "stat")
    /\ binary # None
    /\ Finish(p, "path", "done")
    /\ UNCHANGED faulted

(* ... or it is not and the lock is tried.  *)
StatAbsent(p) ==
    binary = None /\ Look(p, "stat", "open") /\ UNCHANGED toolVars

(* Before the lock is held an error is returned at once.  *)
PrepareOrStatFails(p) ==
    /\ pc[p] \in {"start", "stat"}
    /\ Fault(p)
    /\ Finish(p, "error", "done")

(* The storage whose turn it is: the remote cache comes first.  *)
Asked(p) == IF "remote" \in todo[p] THEN "remote" ELSE "source"

FetchSucceeds(p) ==
    todo[p] # {} /\ Look(p, "fetch", "createTemp") /\ UNCHANGED toolVars

(* Mutant: the error of the remote cache ends the loop.  *)
FetchFailsForGood(p) ==
    /\ At(p, "fetch")
    /\ todo[p] # {}
    /\ Finish(p, "error", "unlock")
    /\ UNCHANGED faulted

(* The storage does not have the binary or cannot give it: ask the next.  *)
FetchFails(p) ==
    /\ todo[p] # {}
    /\ todo' = [todo EXCEPT ![p] = @ \ {Asked(p)}]
    /\ Look(p, "fetch", "fetch")
    /\ UNCHANGED <<binary, temp, reply>>

(* No storage is left, or none is configured.  *)
NoBackends(p) ==
    /\ At(p, "fetch")
    /\ todo[p] = {}
    /\ Finish(p, "error", "unlock")
    /\ UNCHANGED faulted

-----------------------------------------------------------------------------
(* FileSystem.Store takes the file of p from one state to the next ...  *)
StoreStep(p, from, to, state) ==
    /\ Look(p, from, to)
    /\ temp' = [temp EXCEPT ![p] = state]
    /\ UNCHANGED <<binary, todo, reply>>

(* Mutant: the file is created under its final path.  *)
CreateTempInPlace(p) ==
    /\ Look(p, "createTemp", "writeTemp")
    /\ binary' = p
    /\ temp' = [temp EXCEPT ![p] = "empty"]
    /\ UNCHANGED <<todo, reply>>

CreateTemp(p) == StoreStep(p, "createTemp", "writeTemp", "empty")

(* ... the content reaches it in more than one piece ...  *)
WriteTemp(p) == StoreStep(p, "writeTemp", "finishTemp", "partial")
FinishTemp(p) == StoreStep(p, "finishTemp", "chmodTemp", "whole")

ChmodTemp(p) == StoreStep(p, "chmodTemp", "rename", "executable")

(* ... and it replaces a binary that another process has put there.  *)
Rename(p) ==
    /\ Look(p, "rename", "unlock")
    /\ binary' = p
    /\ Decide(p, "path")
    /\ UNCHANGED <<temp, todo>>

(***************************************************************************)
(* An error of any of these calls is returned, without asking another      *)
(* storage; the temporary file stays as it is.                             *)
(***************************************************************************)
StoreFails(p) ==
    /\ pc[p] \in StoreLabels
    /\ Fault(p)
    /\ Finish(p, "error", "unlock")

-----------------------------------------------------------------------------
(* What p does by itself while no call fails; a fetch waits for a server.  *)
LocalStep(p) ==
    \/ PrepareFolder(p) \/ StatFound(p) \/ StatAbsent(p)
    \/ LockStep(p) /\ UNCHANGED toolVars
    \/ NoBackends(p)
    \/ CreateTemp(p) \/ WriteTemp(p) \/ FinishTemp(p) \/ ChmodTemp(p)
    \/ Rename(p)

FetchStep(p) == FetchSucceeds(p) \/ FetchFails(p)

FaultStep(p) ==
    \/ PrepareOrStatFails(p) \/ StoreFails(p)
    \/ (AcquireFails(p) \/ ReleaseLockFails(p)) /\ UNCHANGED toolVars

Next ==
    \/ \E p \in Proc : LocalStep(p) \/ FetchStep(p) \/ FaultStep(p)
    \/ OSStep /\ UNCHANGED toolVars

Spec == Init /\ [][Next]_vars

(***************************************************************************)
(* The scheduler runs every process and the clock runs.  A server need not *)
(* answer, no call need fail, no process need be killed or end, and no PID *)
(* need be reused or freed.                                                *)
(***************************************************************************)
Fairness ==
    /\ \A p \in Proc : WF_vars(LocalStep(p))
    /\ WF_vars(GraceExpires /\ UNCHANGED toolVars)

FairSpec == Spec /\ Fairness

-----------------------------------------------------------------------------
(* Properties.  *)

(* p is between the return of OpenFile and the deferred release.  *)
Holding(p) ==
    pc[p] \in {"writePid", "fetch", "unlock"} \cup StoreLabels

(***************************************************************************)
(* The download lock excludes: as long as no wait was overtaken, at most   *)
(* one process is between creating the lock file and deleting it.  This    *)
(* covers owners that die with the lock, that end right after releasing    *)
(* it, and PIDs that go to other programs (AcquireFileLock, waitOnPID).    *)
(***************************************************************************)
MutualExclusion ==
    ~raced => \A p, q \in Proc : Holding(p) /\ Holding(q) => p = q

(***************************************************************************)
(* No lock file is left behind by a call that went well: the lock file     *)
(* that is there belongs to a process that holds it, was killed, or met an *)
(* I/O fault (the deferred ReleaseFileLock of getToolBinary).              *)
(***************************************************************************)
LockAccountedFor ==
    lockFile # None =>
        \/ Holding(lockFile)
        \/ At(lockFile, "dead")
        \/ lockFile \in faulted

(***************************************************************************)
(* Whatever has the final path is a complete, executable binary: no crash, *)
(* failed write or second download, even with the lock lost, lets another  *)
(* process see less (FileSystem.Store).                                    *)
(***************************************************************************)
CachedBinaryWhole == binary # None => temp[binary] = "executable"

(***************************************************************************)
(* A process that was told a path can run what is there, and an error is   *)
(* reported only after every storage failed or after an I/O fault          *)
(* (the fetch loop of getToolBinary).                                      *)
(***************************************************************************)
ReplyJustified ==
    \A p \in Proc :
        /\ reply[p] = "path" => binary # None
        /\ reply[p] = "error" => todo[p] = {} \/ p \in faulted

(* The lock file has the PID of a live process that does not hold it, as   *)
(* it failed to close or to delete the file; it may be waiting for itself. *)
Orphaned == lockPid \in faulted \ exited /\ ~Holding(lockPid)

(***************************************************************************)
(* Every call ends, whoever is killed and whatever calls fail, once faults *)
(* end: unless a server never answers, the PID of a dead owner stays in    *)
(* use, or the lock file is for good an orphan of a live process.  So a    *)
(* lock file without a PID, a failed AcquireFileLock and the loop around   *)
(* it block nobody (getToolBinary, waitOnPID).                             *)
(***************************************************************************)
CallsReturn ==
    /\ <>[](recycled = {})
    /\ <>[][\A p \in Proc : ~FaultStep(p)]_vars
    => \A p \in Proc : \/ <>(pc[p] \in {"done", "dead"})
                       \/ \E q \in Proc : <>[]At(q, "fetch")
                       \/ <>[]Orphaned

(***************************************************************************)
(* Why MutualExclusion holds, as an inductive invariant.  As long as no    *)
(* wait was overtaken, a holder's file is the one in the directory, and a  *)
(* process about to delete a file by force, or to find one deletable, is   *)
(* looking at no file or at the file of a process that has ended.          *)
(***************************************************************************)
FileConsistent ==
    /\ lockFile = None => lockPid = None /\ ~lockOld
    /\ lockPid \in {None, lockFile}

EndedAreThrough == \A p \in exited : pc[p] \in {"done", "dead"}

Abandoned == lockFile \in {None} \cup exited

HoldersOwn == \A p \in Proc : Holding(p) => lockFile = p

WaitersSound ==
    /\ lockOld /\ lockPid = None => Abandoned
    /\ \A p \in Proc :
          /\ At(p, "statPid") /\ lockOld => Abandoned
          /\ At(p, "checkPid") => lockFile \in {None, seen[p]}
          /\ At(p, "forceRelease") => Abandoned

LockInv ==
    /\ FileConsistent
    /\ EndedAreThrough
    /\ ~raced => HoldersOwn /\ WaitersSound

(***************************************************************************)
(* docs/internals/architecture.md:116-117: toolshare "caches binaries      *)
(* locally in a folder tree on a write-once basis", so that a binary that  *)
(* is there is not replaced (getToolBinary, FileSystem.Store).             *)
(***************************************************************************)
WriteOnce == [][binary # None => binary' = binary]_vars

-----------------------------------------------------------------------------
(***************************************************************************)
(* The refinement mapping to BinaryCache: the cache as a file that is      *)
(* absent, whole or broken, and the answers that callers have received.    *)
(***************************************************************************)
cached ==
    IF binary = None THEN "absent"
    ELSE IF temp[binary] = "executable" THEN "whole" ELSE "broken"

answered ==
    [p \in Proc |-> IF At(p, "done") THEN reply[p] ELSE "none"]

Cache == INSTANCE BinaryCache WITH Client <- Proc, file <- cached,
                                   answer <- answered

(* What all processes do together is what the abstract cache does.  *)
ImplementsBinaryCache == Cache!Spec
=============================================================================
