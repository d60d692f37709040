--------------------------- MODULE ToolFetch_proofs ---------------------------
(***************************************************************************)
(* Proofs about ToolFetch, for any number of processes, with or without    *)
(* I/O faults and for every choice of storages.                            *)
(***************************************************************************)
EXTENDS ToolFetch, TLAPS

(***************************************************************************)
(* The types of all variables hold in every state, the first fact each     *)
(* later step uses (AcquireFileLock, getToolBinary, FileSystem.Store).     *)
(***************************************************************************)
LEMMA TypeInit == Init => TypeOK
  BY ProcAssumption, BackendsAssumption
  DEF Init, TypeOK, LockInit, LockTypeOK, Labels, TempStates

(* The steps of the lock keep the types (filelock.go).  *)
LEMMA TypeLockStep ==
  ASSUME TypeOK, NEW p \in Proc, LockStep(p) /\ UNCHANGED toolVars
  PROVE  TypeOK'
<1> USE DEF TypeOK, LockTypeOK, toolVars, lockVars, osVars, At, Goto, Look,
            Labels, LockLabels, NotAcquired, Acquired
<1>1. CASE CreateLock(p) \/ LockExists(p)
  BY <1>1 DEF CreateLock, LockExists, NewLockFile
<1>2. CASE WritePid(p)
  BY <1>2 DEF WritePid, PutPid
<1>3. CASE ReadPid(p) \/ ReadNoPid(p) \/ ReadReleased(p)
  BY <1>3 DEF ReadPid, ReadNoPid, ReadReleased
<1>4. CASE StatPid(p)
  BY <1>4 DEF StatPid
<1>5. CASE CheckPid(p)
  BY <1>5 DEF CheckPid
<1>6. CASE ForceRelease(p) \/ ReleaseLock(p)
  BY <1>6 DEF ForceRelease, ReleaseLock, Release, RemoveLockFile
<1> QED BY <1>1, <1>2, <1>3, <1>4, <1>5, <1>6 DEF LockStep

(* So do the failing ones.  *)
LEMMA TypeLockFaultStep ==
  ASSUME TypeOK, NEW p \in Proc,
         (AcquireFails(p) \/ ReleaseLockFails(p)) /\ UNCHANGED toolVars
  PROVE  TypeOK'
<1> USE DEF TypeOK, LockTypeOK, toolVars, lockVars, osVars, At, Goto, Labels,
            LockLabels, NotAcquired, Fault
<1>1. CASE AcquireFails(p)
  BY <1>1 DEF AcquireFails, PutPid
<1>2. CASE ReleaseLockFails(p)
  BY <1>2 DEF ReleaseLockFails
<1> QED BY <1>1, <1>2

(* And so does what the operating system does.  *)
LEMMA TypeOSStep ==
  ASSUME TypeOK, OSStep /\ UNCHANGED toolVars
  PROVE  TypeOK'
<1> USE DEF TypeOK, LockTypeOK, toolVars, lockVars, osVars, At, Goto, Labels
<1>1. CASE GraceExpires
  BY <1>1 DEF GraceExpires
<1>2. ASSUME NEW p \in Proc, Exit(p)
      PROVE  TypeOK'
  BY <1>2 DEF Exit
<1>3. ASSUME NEW p \in Proc, ReusePid(p)
      PROVE  TypeOK'
  BY <1>3 DEF ReusePid
<1> QED BY <1>1, <1>2, <1>3 DEF OSStep

(* The rest of getToolBinary, and Store, keep the types (download.go).  *)
LEMMA TypeToolStep ==
  ASSUME TypeOK, NEW p \in Proc,
         \/ PrepareFolder(p) \/ StatFound(p) \/ StatAbsent(p)
         \/ NoBackends(p) \/ FetchStep(p)
         \/ CreateTemp(p) \/ WriteTemp(p) \/ FinishTemp(p) \/ ChmodTemp(p)
         \/ Rename(p)
         \/ PrepareOrStatFails(p) \/ StoreFails(p)
  PROVE  TypeOK'
<1> USE DEF TypeOK, LockTypeOK, toolVars, lockVars, osVars, At, Goto, Look,
            Labels, LockLabels, StoreLabels, TempStates, Decide, Finish
<1>1. CASE PrepareFolder(p) \/ StatFound(p) \/ StatAbsent(p)
  BY <1>1 DEF PrepareFolder, StatFound, StatAbsent
<1>2. CASE NoBackends(p)
  BY <1>2 DEF NoBackends
<1>3. CASE FetchStep(p)
  BY <1>3 DEF FetchStep, FetchSucceeds, FetchFails, Asked
<1>4. CASE CreateTemp(p) \/ WriteTemp(p) \/ FinishTemp(p) \/ ChmodTemp(p)
  BY <1>4 DEF CreateTemp, WriteTemp, FinishTemp, ChmodTemp, StoreStep
<1>5. CASE Rename(p)
  BY <1>5 DEF Rename
<1>6. CASE PrepareOrStatFails(p) \/ StoreFails(p)
  BY <1>6 DEF PrepareOrStatFails, StoreFails, Fault
<1> QED BY <1>1, <1>2, <1>3, <1>4, <1>5, <1>6

LEMMA TypeNext == TypeOK /\ [Next]_vars => TypeOK'
<1> SUFFICES ASSUME TypeOK, [Next]_vars PROVE TypeOK'
  OBVIOUS
<1>1. CASE UNCHANGED vars
  BY <1>1 DEF vars, flockVars, lockVars, osVars, TypeOK, LockTypeOK
<1>2. ASSUME NEW p \in Proc, LocalStep(p) \/ FetchStep(p) \/ FaultStep(p)
      PROVE  TypeOK'
  BY <1>2, TypeLockStep, TypeLockFaultStep, TypeToolStep
  DEF LocalStep, FaultStep
<1>3. CASE OSStep /\ UNCHANGED toolVars
  BY <1>3, TypeOSStep
<1> QED BY <1>1, <1>2, <1>3 DEF Next

(* Every variable keeps its type in every behaviour of the processes.  *)
THEOREM TypeCorrect == Spec => []TypeOK
<1> QED BY TypeInit, TypeNext, PTL DEF Spec

-----------------------------------------------------------------------------
(* The download lock.  *)

LEMMA LockInvInit == Init => LockInv
  BY ProcAssumption
  DEF Init, LockInit, LockInv, FileConsistent, EndedAreThrough, HoldersOwn,
      WaitersSound, Holding, At, StoreLabels

(* The steps of AcquireFileLock, waitOnPID and ReleaseFileLock.  *)
LEMMA LockInvLockStep ==
  ASSUME TypeOK, LockInv, NEW p \in Proc, LockStep(p) /\ UNCHANGED toolVars
  PROVE  LockInv'
<1> USE ProcAssumption
    DEF TypeOK, LockTypeOK, LockInv, FileConsistent, EndedAreThrough,
        Abandoned, HoldersOwn, WaitersSound, Holding, At, Goto, StoreLabels,
        Look, lockVars, osVars, NotAcquired, Acquired
<1>1. CASE CreateLock(p)
  BY <1>1 DEF CreateLock, NewLockFile, ActsOnRead
<1>2. CASE LockExists(p)
  BY <1>2 DEF LockExists
<1>3. CASE WritePid(p)
  BY <1>3 DEF WritePid, PutPid
<1>4. CASE ReadPid(p)
  BY <1>4 DEF ReadPid
<1>5. CASE ReadNoPid(p)
  BY <1>5 DEF ReadNoPid
<1>6. CASE ReadReleased(p)
  BY <1>6 DEF ReadReleased
<1>7. CASE StatPid(p)
  BY <1>7 DEF StatPid
<1>8. CASE CheckPid(p)
  BY <1>8 DEF CheckPid, Running
<1>9. CASE ForceRelease(p)
  BY <1>9 DEF ForceRelease, Release, RemoveLockFile
<1>10. CASE ReleaseLock(p)
  BY <1>10 DEF ReleaseLock, Release, RemoveLockFile
<1> QED BY <1>1, <1>2, <1>3, <1>4, <1>5, <1>6, <1>7, <1>8, <1>9, <1>10
        DEF LockStep

LEMMA LockInvLockFaultStep ==
  ASSUME TypeOK, LockInv, NEW p \in Proc,
         (AcquireFails(p) \/ ReleaseLockFails(p)) /\ UNCHANGED toolVars
  PROVE  LockInv'
<1> USE ProcAssumption
    DEF TypeOK, LockTypeOK, LockInv, FileConsistent, EndedAreThrough,
        Abandoned, HoldersOwn, WaitersSound, Holding, At, Goto, StoreLabels,
        lockVars, osVars, NotAcquired
<1>1. CASE AcquireFails(p)
  BY <1>1 DEF AcquireFails, PutPid, LockLabels
<1>2. CASE ReleaseLockFails(p)
  BY <1>2 DEF ReleaseLockFails
<1> QED BY <1>1, <1>2

LEMMA LockInvOSStep ==
  ASSUME TypeOK, LockInv, OSStep /\ UNCHANGED toolVars
  PROVE  LockInv'
<1> USE ProcAssumption
    DEF TypeOK, LockTypeOK, LockInv, FileConsistent, EndedAreThrough,
        Abandoned, HoldersOwn, WaitersSound, Holding, At, Goto, StoreLabels,
        lockVars, osVars
<1>1. CASE GraceExpires
  BY <1>1 DEF GraceExpires
<1>2. ASSUME NEW p \in Proc, Exit(p)
      PROVE  LockInv'
  BY <1>2 DEF Exit
<1>3. ASSUME NEW p \in Proc, ReusePid(p)
      PROVE  LockInv'
  BY <1>3 DEF ReusePid
<1> QED BY <1>1, <1>2, <1>3 DEF OSStep

(* Outside the lock's own steps only who holds it can change.  *)
LEMMA LockInvToolStep ==
  ASSUME TypeOK, LockInv, NEW p \in Proc,
         \/ PrepareFolder(p) \/ StatFound(p) \/ StatAbsent(p)
         \/ NoBackends(p) \/ FetchStep(p)
         \/ CreateTemp(p) \/ WriteTemp(p) \/ FinishTemp(p) \/ ChmodTemp(p)
         \/ Rename(p)
         \/ PrepareOrStatFails(p) \/ StoreFails(p)
  PROVE  LockInv'
<1> USE ProcAssumption
    DEF TypeOK, LockTypeOK, LockInv, FileConsistent, EndedAreThrough,
        Abandoned, HoldersOwn, WaitersSound, Holding, At, Goto, StoreLabels,
        Look, Decide, Finish, toolVars, lockVars, osVars
<1>1. CASE PrepareFolder(p) \/ StatFound(p) \/ StatAbsent(p)
  BY <1>1 DEF PrepareFolder, StatFound, StatAbsent
<1>2. CASE NoBackends(p) \/ FetchStep(p)
  BY <1>2 DEF NoBackends, FetchStep, FetchSucceeds, FetchFails
<1>3. CASE CreateTemp(p) \/ WriteTemp(p) \/ FinishTemp(p) \/ ChmodTemp(p)
  BY <1>3 DEF CreateTemp, WriteTemp, FinishTemp, ChmodTemp, StoreStep
<1>4. CASE Rename(p)
  BY <1>4 DEF Rename
<1>5. CASE PrepareOrStatFails(p) \/ StoreFails(p)
  BY <1>5 DEF PrepareOrStatFails, StoreFails
<1> QED BY <1>1, <1>2, <1>3, <1>4, <1>5

LEMMA LockInvNext == TypeOK /\ LockInv /\ [Next]_vars => LockInv'
<1> SUFFICES ASSUME TypeOK, LockInv, [Next]_vars PROVE LockInv'
  OBVIOUS
<1>1. CASE UNCHANGED vars
  BY <1>1
  DEF vars, flockVars, lockVars, osVars, LockInv, FileConsistent,
      EndedAreThrough, Abandoned, HoldersOwn, WaitersSound, Holding, At
<1>2. ASSUME NEW p \in Proc, LocalStep(p) \/ FetchStep(p) \/ FaultStep(p)
      PROVE  LockInv'
  BY <1>2, LockInvLockStep, LockInvLockFaultStep, LockInvToolStep
  DEF LocalStep, FaultStep
<1>3. CASE OSStep /\ UNCHANGED toolVars
  BY <1>3, LockInvOSStep
<1> QED BY <1>1, <1>2, <1>3 DEF Next

LEMMA LockInvImplies == TypeOK /\ LockInv => MutualExclusion
  BY ProcAssumption DEF LockInv, HoldersOwn, MutualExclusion

(***************************************************************************)
(* Before a wait is overtaken, the file of a holder is the one in the      *)
(* directory, and whoever deletes a lock file by force looks at none or at *)
(* that of a process that has ended (waitOnPID, ReleaseFileLock).          *)
(***************************************************************************)
THEOREM LockFileIsTheHolders == Spec => []LockInv
<1>1. Spec => []TypeOK
  BY TypeCorrect
<1> QED BY <1>1, LockInvInit, LockInvNext, PTL DEF Spec

(***************************************************************************)
(* At most one process holds the download lock in every behaviour in which *)
(* no wait was overtaken, whoever dies or ends and whenever                *)
(* (AcquireFileLock, waitOnPID, ReleaseFileLock).                          *)
(***************************************************************************)
THEOREM LockExcludes == Spec => []MutualExclusion
<1>1. Spec => []TypeOK
  BY TypeCorrect
<1> QED BY <1>1, LockFileIsTheHolders, LockInvImplies, PTL

-----------------------------------------------------------------------------
(* The lock file that is left.  *)

LEMMA AccountedInit == Init => LockAccountedFor
  BY DEF Init, LockInit, LockAccountedFor

LEMMA AccountedLockStep ==
  ASSUME TypeOK, LockAccountedFor, NEW p \in Proc,
         \/ LockStep(p) /\ UNCHANGED toolVars
         \/ (AcquireFails(p) \/ ReleaseLockFails(p)) /\ UNCHANGED toolVars
  PROVE  LockAccountedFor'
<1> USE DEF TypeOK, LockTypeOK, LockAccountedFor, Holding, At, Goto, Look,
            Fault, StoreLabels, lockVars, NotAcquired, Acquired
<1>1. CASE CreateLock(p) \/ LockExists(p)
  BY <1>1 DEF CreateLock, LockExists, NewLockFile
<1>2. CASE WritePid(p)
  BY <1>2 DEF WritePid, PutPid
<1>3. CASE ReadPid(p) \/ ReadNoPid(p) \/ ReadReleased(p)
  BY <1>3 DEF ReadPid, ReadNoPid, ReadReleased
<1>4. CASE StatPid(p)
  BY <1>4 DEF StatPid
<1>5. CASE CheckPid(p)
  BY <1>5 DEF CheckPid
<1>6. CASE ForceRelease(p) \/ ReleaseLock(p)
  BY <1>6 DEF ForceRelease, ReleaseLock, Release, RemoveLockFile
<1>7. CASE AcquireFails(p)
  BY <1>7 DEF AcquireFails, PutPid, LockLabels
<1>8. CASE ReleaseLockFails(p)
  BY <1>8 DEF ReleaseLockFails
<1> QED BY <1>1, <1>2, <1>3, <1>4, <1>5, <1>6, <1>7, <1>8 DEF LockStep

LEMMA AccountedNext == TypeOK /\ LockAccountedFor /\ [Next]_vars
                         => LockAccountedFor'
<1> SUFFICES ASSUME TypeOK, LockAccountedFor, [Next]_vars
             PROVE  LockAccountedFor'
  OBVIOUS
<1> USE DEF TypeOK, LockTypeOK, LockAccountedFor, Holding, At, Goto,
            Look, Decide, Finish, StoreLabels, toolVars, lockVars, osVars
<1>1. CASE UNCHANGED vars
  BY <1>1 DEF vars, flockVars
<1>2. ASSUME NEW p \in Proc, LocalStep(p) \/ FetchStep(p) \/ FaultStep(p)
      PROVE  LockAccountedFor'
  <2>1. CASE \/ LockStep(p) /\ UNCHANGED toolVars
             \/ (AcquireFails(p) \/ ReleaseLockFails(p)) /\ UNCHANGED toolVars
    BY <2>1, AccountedLockStep
  <2>2. CASE PrepareFolder(p) \/ StatFound(p) \/ StatAbsent(p)
    BY <2>2 DEF PrepareFolder, StatFound, StatAbsent
  <2>3. CASE NoBackends(p) \/ FetchStep(p)
    BY <2>3 DEF NoBackends, FetchStep, FetchSucceeds, FetchFails
  <2>4. CASE \/ CreateTemp(p) \/ WriteTemp(p) \/ FinishTemp(p)
             \/ ChmodTemp(p) \/ Rename(p)
    BY <2>4
    DEF CreateTemp, WriteTemp, FinishTemp, ChmodTemp, StoreStep, Rename
  <2>5. CASE PrepareOrStatFails(p) \/ StoreFails(p)
    BY <2>5 DEF PrepareOrStatFails, StoreFails, Fault
  <2> QED BY <1>2, <2>1, <2>2, <2>3, <2>4, <2>5 DEF LocalStep, FaultStep
<1>3. CASE OSStep
  <2>1. CASE GraceExpires
    BY <2>1 DEF GraceExpires
  <2>2. ASSUME NEW p \in Proc, Exit(p) \/ ReusePid(p)
        PROVE  LockAccountedFor'
    BY <2>2 DEF Exit, ReusePid
  <2> QED BY <1>3, <2>1, <2>2 DEF OSStep
<1> QED BY <1>1, <1>2, <1>3 DEF Next

(***************************************************************************)
(* A call that goes well leaves no lock file, in every behaviour: one that *)
(* is there belongs to a holder, to a process killed during its call, or   *)
(* to one that met an I/O fault (ReleaseFileLock as deferred by            *)
(* getToolBinary).                                                         *)
(***************************************************************************)
THEOREM LocksAreAccountedFor == Spec => []LockAccountedFor
<1>1. Spec => []TypeOK
  BY TypeCorrect
<1> QED BY <1>1, AccountedInit, AccountedNext, PTL DEF Spec

-----------------------------------------------------------------------------
(***************************************************************************)
(* The cached file and the answers.  A file gets its final name only when  *)
(* it is executable, and its owner is past every step that changes it; a   *)
(* process that is about to return, or has returned, has decided what.     *)
(***************************************************************************)
RenameReady == \A p \in Proc : At(p, "rename") => temp[p] = "executable"

PublishedFinal ==
    binary # None => /\ temp[binary] = "executable"
                     /\ pc[binary] \in {"unlock", "done", "dead"}

Decided == \A p \in Proc : pc[p] \in {"unlock", "done"} => reply[p] # "none"

StoreInv == RenameReady /\ PublishedFinal /\ Decided /\ ReplyJustified

LEMMA StoreInvInit == Init => StoreInv
  BY DEF Init, LockInit, StoreInv, RenameReady, PublishedFinal, Decided,
         ReplyJustified, At

(* The lock's steps change neither file nor decision.  *)
LEMMA StoreInvLockStep ==
  ASSUME TypeOK, StoreInv, NEW p \in Proc, UNCHANGED toolVars,
         LockStep(p) \/ AcquireFails(p) \/ ReleaseLockFails(p)
  PROVE  StoreInv'
<1>1. /\ pc[p] \in LockLabels \cup {"unlock"}
      /\ pc'[p] \in LockLabels \cup {"stat", "fetch", "done"}
      /\ pc'[p] = "done" <=> pc[p] = "unlock"
      /\ pc' = [pc EXCEPT ![p] = pc'[p]]
      /\ faulted \subseteq faulted'
  <2> USE DEF TypeOK, LockTypeOK, At, Goto, Look, Fault, LockLabels,
              NotAcquired, Acquired
  <2>1. CASE LockStep(p)
    BY <2>1
    DEF LockStep, CreateLock, LockExists, WritePid, ReadPid, ReadNoPid,
        ReadReleased, StatPid, CheckPid, ForceRelease, ReleaseLock, Release
  <2>2. CASE AcquireFails(p) \/ ReleaseLockFails(p)
    BY <2>2 DEF AcquireFails, ReleaseLockFails
  <2> QED BY <2>1, <2>2
<1> QED
  BY <1>1
  DEF TypeOK, LockTypeOK, LockLabels, toolVars, StoreInv, RenameReady,
      PublishedFinal, Decided, ReplyJustified, At

LEMMA StoreInvToolStep ==
  ASSUME TypeOK, StoreInv, NEW p \in Proc,
         \/ PrepareFolder(p) \/ StatFound(p) \/ StatAbsent(p)
         \/ NoBackends(p) \/ FetchStep(p)
         \/ CreateTemp(p) \/ WriteTemp(p) \/ FinishTemp(p) \/ ChmodTemp(p)
         \/ Rename(p)
         \/ PrepareOrStatFails(p) \/ StoreFails(p)
  PROVE  StoreInv'
<1> USE ProcAssumption
    DEF TypeOK, LockTypeOK, StoreInv, RenameReady, PublishedFinal, Decided,
        ReplyJustified, At, Goto, Look, Decide, Finish, toolVars
<1>1. CASE PrepareFolder(p) \/ StatFound(p) \/ StatAbsent(p)
  BY <1>1 DEF PrepareFolder, StatFound, StatAbsent
<1>2. CASE NoBackends(p) \/ FetchStep(p)
  BY <1>2 DEF NoBackends, FetchStep, FetchSucceeds, FetchFails
<1>3. CASE CreateTemp(p) \/ WriteTemp(p) \/ FinishTemp(p) \/ ChmodTemp(p)
  BY <1>3 DEF CreateTemp, WriteTemp, FinishTemp, ChmodTemp, StoreStep
<1>4. CASE Rename(p)
  BY <1>4 DEF Rename
<1>5. CASE PrepareOrStatFails(p) \/ StoreFails(p)
  BY <1>5 DEF PrepareOrStatFails, StoreFails, Fault, StoreLabels
<1> QED BY <1>1, <1>2, <1>3, <1>4, <1>5

LEMMA StoreInvNext == TypeOK /\ StoreInv /\ [Next]_vars => StoreInv'
<1> SUFFICES ASSUME TypeOK, StoreInv, [Next]_vars PROVE StoreInv'
  OBVIOUS
<1>1. CASE UNCHANGED vars
  BY <1>1
  DEF vars, flockVars, StoreInv, RenameReady, PublishedFinal, Decided,
      ReplyJustified, At
<1>2. ASSUME NEW p \in Proc, LocalStep(p) \/ FetchStep(p) \/ FaultStep(p)
      PROVE  StoreInv'
  BY <1>2, StoreInvLockStep, StoreInvToolStep DEF LocalStep, FaultStep
<1>3. CASE OSStep /\ UNCHANGED toolVars
  <2> USE DEF TypeOK, LockTypeOK, toolVars, StoreInv, RenameReady,
              PublishedFinal, Decided, ReplyJustified, At, Goto
  <2>1. CASE GraceExpires
    BY <1>3, <2>1 DEF GraceExpires
  <2>2. ASSUME NEW p \in Proc, Exit(p) \/ ReusePid(p)
        PROVE  StoreInv'
    BY <1>3, <2>2 DEF Exit, ReusePid
  <2> QED BY <1>3, <2>1, <2>2 DEF OSStep
<1> QED BY <1>1, <1>2, <1>3 DEF Next

LEMMA StoreInvariant == Spec => [](TypeOK /\ StoreInv)
<1>1. Spec => []TypeOK
  BY TypeCorrect
<1> QED BY <1>1, StoreInvInit, StoreInvNext, PTL DEF Spec

(***************************************************************************)
(* What has the final path is complete and executable in every behaviour,  *)
(* also in those in which the lock excludes nobody: it is the temporary    *)
(* file and the rename that protect a reader, not the lock                 *)
(* (FileSystem.Store).                                                     *)
(***************************************************************************)
THEOREM CacheStaysWhole == Spec => []CachedBinaryWhole
<1>1. StoreInv => CachedBinaryWhole
  BY DEF StoreInv, PublishedFinal, CachedBinaryWhole
<1> QED BY <1>1, StoreInvariant, PTL

(***************************************************************************)
(* A path is returned only when the binary is there, an error only when    *)
(* every storage failed or a call did (getToolBinary).                     *)
(***************************************************************************)
THEOREM RepliesAreJustified == Spec => []ReplyJustified
<1>1. StoreInv => ReplyJustified
  BY DEF StoreInv
<1> QED BY <1>1, StoreInvariant, PTL

-----------------------------------------------------------------------------
(* The refinement.  *)

LEMMA RefinesInit == Init => Cache!CacheInit
  BY DEF Init, LockInit, Cache!CacheInit, cached, answered, At

(* Who does not return, and does not rename, stutters.  *)
LEMMA RefinesStutter ==
  ASSUME TypeOK, UNCHANGED <<binary, reply>>,
         binary # None => temp'[binary] = temp[binary],
         \A p \in Proc : At(p, "done") <=> At(p, "done")'
  PROVE  UNCHANGED Cache!cacheVars
  BY DEF Cache!cacheVars, cached, answered, At, TypeOK

(* A process that returns what it has decided is answered.  *)
LEMMA RefinesReturn ==
  ASSUME TypeOK, StoreInv', NEW p \in Proc,
         UNCHANGED <<binary, temp>>,
         pc[p] # "done", pc' = [pc EXCEPT ![p] = "done"],
         reply' = [reply EXCEPT ![p] = reply'[p]],
         reply'[p] \in {"path", "error"}
  PROVE  Cache!GivePath(p) \/ Cache!GiveError(p)
<1>1. /\ answered[p] = "none"
      /\ answered' = [answered EXCEPT ![p] = reply'[p]]
      /\ cached' = cached
  BY DEF TypeOK, answered, cached, At
<1>2. reply'[p] = "path" => cached = "whole"
  BY DEF StoreInv, ReplyJustified, PublishedFinal, cached
<1> QED BY <1>1, <1>2 DEF Cache!GivePath, Cache!GiveError

LEMMA RefinesLockStep ==
  ASSUME TypeOK, StoreInv, StoreInv', NEW p \in Proc, UNCHANGED toolVars,
         LockStep(p) \/ AcquireFails(p) \/ ReleaseLockFails(p)
  PROVE  [Cache!CacheNext]_Cache!cacheVars
<1> USE DEF toolVars, TypeOK, At, Goto, Look, NotAcquired, Acquired
<1>1. CASE ReleaseLock(p) \/ ReleaseLockFails(p)
  <2>1. /\ pc[p] = "unlock" /\ pc' = [pc EXCEPT ![p] = "done"]
        /\ UNCHANGED <<binary, temp, reply>>
    BY <1>1 DEF ReleaseLock, Release, ReleaseLockFails
  <2>2. reply'[p] \in {"path", "error"}
    BY <2>1 DEF StoreInv, Decided
  <2> QED BY <2>1, <2>2, RefinesReturn DEF Cache!CacheNext
<1>2. CASE LockStep(p) /\ ~ReleaseLock(p)
  <2>1. \A q \in Proc : At(q, "done") <=> At(q, "done")'
    BY <1>2
    DEF LockStep, CreateLock, LockExists, WritePid, ReadPid, ReadNoPid,
        ReadReleased, StatPid, CheckPid, ForceRelease, Release
  <2> QED BY <2>1, RefinesStutter
<1>3. CASE AcquireFails(p)
  <2>1. \A q \in Proc : At(q, "done") <=> At(q, "done")'
    BY <1>3 DEF AcquireFails, LockLabels
  <2> QED BY <2>1, RefinesStutter
<1> QED BY <1>1, <1>2, <1>3

LEMMA RefinesToolStep ==
  ASSUME TypeOK, StoreInv, StoreInv', NEW p \in Proc,
         \/ PrepareFolder(p) \/ StatFound(p) \/ StatAbsent(p)
         \/ NoBackends(p) \/ FetchStep(p)
         \/ CreateTemp(p) \/ WriteTemp(p) \/ FinishTemp(p) \/ ChmodTemp(p)
         \/ Rename(p)
         \/ PrepareOrStatFails(p) \/ StoreFails(p)
  PROVE  [Cache!CacheNext]_Cache!cacheVars
<1> USE DEF TypeOK, At, Goto, Look, Decide, Finish, toolVars
<1>1. CASE StatFound(p) \/ PrepareOrStatFails(p)
  <2>1. /\ pc[p] # "done" /\ pc' = [pc EXCEPT ![p] = "done"]
        /\ UNCHANGED <<binary, temp>>
        /\ reply' = [reply EXCEPT ![p] = reply'[p]]
        /\ reply'[p] \in {"path", "error"}
    BY <1>1 DEF StatFound, PrepareOrStatFails
  <2> QED BY <2>1, RefinesReturn DEF Cache!CacheNext
<1>2. CASE PrepareFolder(p) \/ StatAbsent(p) \/ FetchStep(p)
  <2>1. \A q \in Proc : At(q, "done") <=> At(q, "done")'
    BY <1>2 DEF PrepareFolder, StatAbsent, FetchStep, FetchSucceeds, FetchFails
  <2>2. UNCHANGED <<binary, temp, reply>>
    BY <1>2 DEF PrepareFolder, StatAbsent, FetchStep, FetchSucceeds, FetchFails
  <2> QED BY <2>1, <2>2, RefinesStutter
<1>3. CASE NoBackends(p) \/ StoreFails(p)
  <2>1. /\ UNCHANGED <<binary, temp>>
        /\ pc[p] # "done" /\ pc' = [pc EXCEPT ![p] = "unlock"]
        /\ \A q \in Proc \ {p} : reply'[q] = reply[q]
    BY <1>3 DEF NoBackends, StoreFails, StoreLabels
  <2>2. cached' = cached /\ answered' = answered
    BY <2>1 DEF cached, answered
  <2> QED BY <2>2 DEF Cache!cacheVars
<1>4. CASE CreateTemp(p) \/ WriteTemp(p) \/ FinishTemp(p) \/ ChmodTemp(p)
  <2>1. /\ UNCHANGED <<binary, reply>>
        /\ pc[p] \in StoreLabels
        /\ \A q \in Proc \ {p} : temp'[q] = temp[q]
        /\ \A q \in Proc : At(q, "done") <=> At(q, "done")'
    BY <1>4
    DEF CreateTemp, WriteTemp, FinishTemp, ChmodTemp, StoreStep, StoreLabels
  <2>2. binary # None => binary # p
    BY <2>1 DEF StoreInv, PublishedFinal, StoreLabels
  <2> QED BY <2>1, <2>2, RefinesStutter
<1>5. CASE Rename(p)
  <2>1. /\ pc[p] = "rename" /\ pc' = [pc EXCEPT ![p] = "unlock"]
        /\ binary' = p /\ temp' = temp
        /\ \A q \in Proc \ {p} : reply'[q] = reply[q]
    BY <1>5 DEF Rename
  <2>2. cached' = "whole" /\ answered' = answered
    BY <2>1, ProcAssumption DEF cached, answered, StoreInv, RenameReady
  <2> QED BY <2>2 DEF Cache!CacheNext, Cache!Publish
<1> QED BY <1>1, <1>2, <1>3, <1>4, <1>5

LEMMA RefinesNext ==
  TypeOK /\ StoreInv /\ StoreInv' /\ [Next]_vars
    => [Cache!CacheNext]_Cache!cacheVars
<1> SUFFICES ASSUME TypeOK, StoreInv, StoreInv', [Next]_vars
             PROVE  [Cache!CacheNext]_Cache!cacheVars
  OBVIOUS
<1>1. CASE UNCHANGED vars
  BY <1>1, RefinesStutter DEF vars, flockVars, At
<1>2. ASSUME NEW p \in Proc, LocalStep(p) \/ FetchStep(p) \/ FaultStep(p)
      PROVE  [Cache!CacheNext]_Cache!cacheVars
  BY <1>2, RefinesLockStep, RefinesToolStep DEF LocalStep, FaultStep
<1>3. CASE OSStep /\ UNCHANGED toolVars
  <2>1. \A q \in Proc : At(q, "done") <=> At(q, "done")'
    BY <1>3
    DEF OSStep, GraceExpires, Exit, ReusePid, At, Goto, TypeOK
  <2> QED BY <1>3, <2>1, RefinesStutter DEF toolVars
<1> QED BY <1>1, <1>2, <1>3 DEF Next

(***************************************************************************)
(* Any number of processes that run getToolBinary together, with crashes,  *)
(* lost locks and I/O faults, do only what BinaryCache allows: the binary  *)
(* appears once, whole and for good, and each caller is answered once and  *)
(* told a path only when the binary is there.                              *)
(***************************************************************************)
THEOREM FetchImplementsCache == Spec => ImplementsBinaryCache
<1>1. Spec => []TypeOK
  BY TypeCorrect
<1>2. Spec => []StoreInv
  BY StoreInvariant, PTL
<1> QED BY <1>1, <1>2, RefinesInit, RefinesNext, PTL
        DEF Spec, ImplementsBinaryCache, Cache!Spec
=============================================================================
