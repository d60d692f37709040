-------------------------- MODULE StateCache_proofs --------------------------
(***************************************************************************)
(* Proofs about StateCache, for any processes, tools and versions, any     *)
(* refresh interval, and any number of edits of the state.                 *)
(***************************************************************************)
EXTENDS StateCache, TLAPS

(***************************************************************************)
(* What a call that is at a certain place knows.  Its history is about the *)
(* state as it is: what has lasted is still there, and what is missing is  *)
(* not.  A refresh that is past the reading of tools has found none in the *)
(* remote, and an update that has read a tool does not miss it.            *)
(***************************************************************************)
Fits(at, c) ==
    /\ c.lasting \subseteq Present(remote)
    /\ c.missing \cap VersionsIn(remote) = {}
    /\ c.op \in Refreshes => c.missing = {}
    /\ at \in {"openStatus", "readStatus", "list", "listCache", "remove"}
          => c.op \in Refreshes
    /\ at = "clone" => kind = "git"
    /\ at = "list" /\ kind = "git" => c.lasting \subseteq Present(c.clone)
    /\ at = "readTools" /\ c.op \in Refreshes /\ c.work = {} => c.lasting = {}
    /\ at = "readTools" /\ kind # "git" => c.missing \subseteq c.work
    /\ at \in {"listCache", "remove"} => c.lasting = {}

CallInv == \A p \in Proc : Fits(pc[p], call[p])

(***************************************************************************)
(* The status file never has a time after the last successful fetch.       *)
(***************************************************************************)
StatusInv == status \in Nat => fetchedAt \in Nat /\ status <= fetchedAt

CacheInv == CallInv /\ StatusInv

LEMMA NoCallFits ==
  ASSUME NEW at \in Ends
  PROVE  NoCall \in Calls /\ Fits(at, NoCall)
  BY DEF NoCall, Calls, Contents, Fits, Refreshes, Updates, Ends

LEMMA CacheInvInit == Init => TypeOK /\ CacheInv
<1> SUFFICES ASSUME Init PROVE TypeOK /\ CacheInv
  OBVIOUS
<1>1. TypeOK
  BY NoCallFits, BoundsAssumption DEF Init, TypeOK, Ends
<1>2. CallInv
  BY NoCallFits DEF Init, CallInv, Ends
<1>3. StatusInv
  BY NoneAssumption DEF Init, StatusInv
<1> QED BY <1>1, <1>2, <1>3 DEF CacheInv

(* A process that goes on with what fits the place it goes to.  *)
LEMMA GoesKeeps ==
  ASSUME TypeOK, CallInv, NEW p \in Proc, NEW from,
         NEW to \in Ends \cup Steps, NEW known \in Calls,
         Goes(p, from, to, known), to \notin Ends => Fits(to, known)
  PROVE  /\ pc' \in [Proc -> Ends \cup Steps] /\ call' \in [Proc -> Calls]
         /\ CallInv'
<1> DEFINE next == IF to \in Ends THEN NoCall ELSE known
<1>1. next \in Calls /\ Fits(to, next)
  BY NoCallFits
<1>2. /\ pc' = [pc EXCEPT ![p] = to] /\ call' = [call EXCEPT ![p] = next]
      /\ UNCHANGED <<kind, now, remote, edits>>
  BY DEF Goes
<1> HIDE DEF next
<1>3. \A at, c : Fits(at, c)' <=> Fits(at, c)
  BY <1>2 DEF Fits, Present, VersionsIn
<1> QED BY <1>1, <1>2 DEF TypeOK, CallInv, Fits, Present, VersionsIn

(* The same, for a step that leaves the files alone.  *)
LEMMA LooksKeeps ==
  ASSUME TypeOK, CacheInv, NEW p \in Proc, NEW from,
         NEW to \in Ends \cup Steps, NEW known \in Calls,
         Looks(p, from, to, known), to \notin Ends => Fits(to, known)
  PROVE  TypeOK' /\ CacheInv'
<1>1. /\ pc' \in [Proc -> Ends \cup Steps] /\ call' \in [Proc -> Calls]
      /\ CallInv'
  BY GoesKeeps DEF Looks, CacheInv
<1>2. UNCHANGED <<kind, now, remote, edits, files>>
  BY DEF Looks, Goes
<1> QED BY <1>1, <1>2 DEF TypeOK, CacheInv, StatusInv, files

-----------------------------------------------------------------------------
(* One lemma for each group of steps.  *)

(* Calls that differ in some fields.  *)
LEMMA CallWork ==
  ASSUME NEW c \in Calls, NEW w \in SUBSET (Binaries \cup (Tools \X {None})),
         NEW d, d = [c EXCEPT !.work = w]
  PROVE  /\ d \in Calls /\ d.work = w /\ d.op = c.op /\ d.clone = c.clone
         /\ d.lasting = c.lasting /\ d.missing = c.missing
  BY DEF Calls

LEMMA CallPast ==
  ASSUME NEW c \in Calls, NEW b \in BOOLEAN, NEW d, d = [c EXCEPT !.past = b]
  PROVE  /\ d \in Calls /\ d.work = c.work /\ d.op = c.op
         /\ d.clone = c.clone
         /\ d.lasting = c.lasting /\ d.missing = c.missing
  BY DEF Calls

LEMMA CallClone ==
  ASSUME NEW c \in Calls, NEW r \in [Tools -> Contents],
         NEW d, d = [c EXCEPT !.clone = r]
  PROVE  /\ d \in Calls /\ d.work = c.work /\ d.op = c.op /\ d.clone = r
         /\ d.lasting = c.lasting /\ d.missing = c.missing
  BY DEF Calls

LEMMA CallHistory ==
  ASSUME NEW c \in Calls, NEW l \in SUBSET Tools, NEW m \in SUBSET Binaries,
         NEW d, d = [c EXCEPT !.lasting = l, !.missing = m]
  PROVE  /\ d \in Calls /\ d.work = c.work /\ d.op = c.op
         /\ d.clone = c.clone /\ d.lasting = l /\ d.missing = m
  BY DEF Calls

LEMMA KeepsBegin ==
  ASSUME TypeOK, CacheInv, NEW p \in Proc, NEW o \in Refreshes \cup Updates,
         NEW bs \in SUBSET Binaries, Begin(p, o, bs)
  PROVE  TypeOK' /\ CacheInv'
<1> DEFINE to == CASE o \in Refreshes -> "openStatus"
                   [] kind = "git" -> "clone"
                   [] OTHER -> "readTools"
           lasting == IF o \in Refreshes THEN Present(remote) ELSE {}
           missing == bs \ VersionsIn(remote)
           known == [NoCall EXCEPT !.op = o, !.work = bs,
                                   !.lasting = lasting, !.missing = missing]
<1>1. PICK from \in Ends \ {"panic"} : Looks(p, from, to, known)
  BY DEF Begin
<1>2. /\ bs = {} \/ o \in Updates
      /\ o \in Refreshes => o \notin Updates
  BY DEF Begin, Refreshes, Updates
<1>3. /\ lasting \in SUBSET Tools /\ missing \in SUBSET Binaries
      /\ lasting \subseteq Present(remote)
      /\ missing \cap VersionsIn(remote) = {} /\ missing \subseteq bs
      /\ o \notin Refreshes => lasting = {}
  BY DEF Present
<1>4. /\ to \in {"openStatus", "clone", "readTools"}
      /\ to = "readTools" => o \notin Refreshes
      /\ to = "openStatus" => o \in Refreshes
      /\ to = "clone" => kind = "git"
  BY Zenon
<1> HIDE DEF to, lasting, missing
<1>5. /\ known.op = o /\ known.work = bs
      /\ known.lasting = lasting /\ known.missing = missing
      /\ known.past = FALSE /\ known.clone = [t \in Tools |-> None]
  BY DEF NoCall
<1>6. known \in Calls
  BY <1>3, <1>5, NoCallFits DEF Calls, Contents, Ends
<1> HIDE DEF known
<1>7. Fits(to, known)
  BY <1>2, <1>3, <1>4, <1>5 DEF Fits
<1> QED BY <1>1, <1>4, <1>6, <1>7, LooksKeeps DEF Steps

LEMMA KeepsStatus ==
  ASSUME TypeOK, CacheInv, NEW p \in Proc,
         OpenStatus(p) \/ StatusBroken(p) \/ Skip(p) \/ Due(p)
  PROVE  TypeOK' /\ CacheInv'
<1>1. call[p] \in Calls /\ Fits(pc[p], call[p])
  BY DEF TypeOK, CacheInv, CallInv
<1>2. CASE OpenStatus(p)
  <2>1. Fits("readStatus", call[p])
    BY <1>1, <1>2 DEF Fits, OpenStatus, Goes
  <2>2. /\ pc' \in [Proc -> Ends \cup Steps] /\ call' \in [Proc -> Calls]
        /\ CallInv'
    BY <1>1, <1>2, <2>1, GoesKeeps DEF OpenStatus, CacheInv, Steps, Ends
  <2>3. /\ UNCHANGED <<kind, now, remote, edits, scratch, cache, fetchedAt>>
        /\ status' = None
    BY <1>2 DEF OpenStatus, Goes
  <2> QED BY <2>2, <2>3, NoneAssumption DEF TypeOK, CacheInv, StatusInv
<1>3. CASE StatusBroken(p) \/ Skip(p)
  BY <1>1, <1>3, LooksKeeps DEF StatusBroken, Skip, Ends
<1>4. CASE Due(p)
  <2> DEFINE known == [call[p] EXCEPT !.past = status # None]
  <2>1. PICK b \in BOOLEAN : b <=> status # None
    BY Zenon
  <2>2. known = [call[p] EXCEPT !.past = b]
    BY <2>1
  <2>3. pc[p] = "readStatus" /\ Looks(p, "readStatus", Remote, known)
    BY <1>4 DEF Due, Looks, Goes
  <2>4. /\ Remote \in {"list", "clone", "panic"}
        /\ Remote = "list" => kind # "git"
        /\ Remote = "clone" => kind = "git"
    BY Zenon DEF Remote
  <2> HIDE DEF known
  <2>5. /\ known \in Calls /\ known.op = call[p].op
        /\ known.lasting = call[p].lasting /\ known.missing = call[p].missing
    BY <1>1, <2>2, CallPast
  <2>6. Remote # "panic" => Fits(Remote, known)
    BY <1>1, <2>3, <2>4, <2>5 DEF Fits
  <2> QED BY <2>3, <2>4, <2>5, <2>6, LooksKeeps DEF Steps, Ends
<1> QED BY <1>2, <1>3, <1>4

(* The reading of the state, which for a git remote is that of a clone.  *)
LEMMA KeepsListing ==
  ASSUME TypeOK, CacheInv, NEW p \in Proc, Clone(p) \/ ListRemote(p)
  PROVE  TypeOK' /\ CacheInv'
<1>1. call[p] \in Calls /\ Fits(pc[p], call[p])
  BY DEF TypeOK, CacheInv, CallInv
<1>2. CASE Clone(p)
  <2> DEFINE known == [call[p] EXCEPT !.clone = remote]
             to == IF call[p].op \in Refreshes THEN "list" ELSE "readTools"
  <2>1. pc[p] = "clone" /\ Looks(p, "clone", to, known)
    BY <1>2 DEF Clone, Looks, Goes
  <2>2. known = [call[p] EXCEPT !.clone = remote] /\ remote \in [Tools -> Contents]
    BY DEF TypeOK
  <2> HIDE DEF known
  <2>3. /\ known \in Calls /\ known.op = call[p].op /\ known.clone = remote
        /\ known.lasting = call[p].lasting /\ known.missing = call[p].missing
    BY <1>1, <2>2, CallClone
  <2>4. to \in Steps /\ Fits(to, known)
    BY <1>1, <2>1, <2>3 DEF Fits, Steps
  <2> QED BY <2>1, <2>3, <2>4, LooksKeeps
<1>3. CASE ListRemote(p)
  <2> DEFINE work == Present(State(p)) \X {None}
             known == [call[p] EXCEPT !.work = work]
  <2>1. pc[p] = "list" /\ Looks(p, "list", "readTools", known)
    BY <1>3 DEF ListRemote, Looks, Goes
  <2>2. work \in SUBSET (Binaries \cup (Tools \X {None}))
    BY DEF Present
  <2>7. ASSUME work = {} PROVE Present(State(p)) = {}
    <3>1. \A t \in Present(State(p)) : <<t, None>> \in work
      OBVIOUS
    <3> QED BY <2>7, <3>1
  <2>3. call[p].lasting \subseteq Present(State(p))
    BY <1>1, <2>1 DEF Fits, State
  <2>4. known = [call[p] EXCEPT !.work = work]
    OBVIOUS
  <2> HIDE DEF work, known
  <2>5. /\ known \in Calls /\ known.op = call[p].op /\ known.work = work
        /\ known.lasting = call[p].lasting /\ known.missing = call[p].missing
    BY <1>1, <2>2, <2>4, CallWork
  <2>6. Fits("readTools", known)
    BY <1>1, <2>1, <2>7, <2>3, <2>5 DEF Fits
  <2> QED BY <2>1, <2>5, <2>6, LooksKeeps DEF Steps
<1> QED BY <1>2, <1>3

LEMMA KeepsPassKnown ==
  ASSUME TypeOK, CacheInv, NEW p \in Proc, NEW b \in call[p].work,
         PassKnown(p, b)
  PROVE  TypeOK' /\ CacheInv'
<1> DEFINE known == Without(p, b)
<1>1. call[p] \in Calls /\ Fits(pc[p], call[p])
  BY DEF TypeOK, CacheInv, CallInv
<1>2. /\ pc[p] = "readTools" /\ Looks(p, "readTools", "readTools", known)
      /\ call[p].op = "add" /\ b[2] \in State(p)[b[1]] /\ Readable(p, b)
  BY DEF PassKnown, Writes, Looks, Goes
<1>3. kind # "git" => b \notin call[p].missing
  <2>1. SUFFICES ASSUME kind # "git", b \in call[p].missing PROVE FALSE
    OBVIOUS
  <2>2. b \in Binaries
    BY <1>1, <2>1 DEF Calls
  <2>3. b \in VersionsIn(remote)
    BY <1>2, <2>1, <2>2 DEF VersionsIn, Readable, State
  <2> QED BY <1>1, <2>1, <2>3 DEF Fits
<1>4. /\ known = [call[p] EXCEPT !.work = call[p].work \ {b}]
      /\ call[p].work \ {b} \in SUBSET (Binaries \cup (Tools \X {None}))
  BY <1>1 DEF Without, Calls
<1> HIDE DEF known
<1>5. /\ known \in Calls /\ known.op = call[p].op
      /\ known.work = call[p].work \ {b}
      /\ known.lasting = call[p].lasting /\ known.missing = call[p].missing
  BY <1>1, <1>4, CallWork
<1>6. Fits("readTools", known)
  BY <1>1, <1>2, <1>3, <1>5 DEF Fits, Refreshes
<1> QED BY <1>2, <1>5, <1>6, LooksKeeps DEF Steps

LEMMA KeepsEnd ==
  ASSUME TypeOK, CacheInv, NEW p \in Proc,
         \/ \E b : Unreadable(p, b)
         \/ Commit(p) \/ Fails(p)
  PROVE  TypeOK' /\ CacheInv'
<1>1. call[p] \in Calls
  BY DEF TypeOK
<1>2. PICK from : Looks(p, from, "error", call[p])
  BY DEF Unreadable, Commit, Fails
<1> QED BY <1>1, <1>2, LooksKeeps DEF Ends

LEMMA KeepsWriteFails ==
  ASSUME TypeOK, CacheInv, NEW p \in Proc, NEW b \in call[p].work,
         WriteFails(p, b)
  PROVE  TypeOK' /\ CacheInv'
<1>1. call[p] \in Calls /\ b[1] \in Tools
  BY DEF TypeOK, Calls, Binaries
<1>2. /\ pc' \in [Proc -> Ends \cup Steps] /\ call' \in [Proc -> Calls]
      /\ CallInv'
  BY <1>1, GoesKeeps DEF WriteFails, CacheInv, Ends
<1>3. /\ UNCHANGED <<kind, now, remote, edits, cache, status, fetchedAt>>
      /\ scratch' \subseteq Tools
  BY <1>1 DEF WriteFails, Goes, TypeOK
<1> QED BY <1>2, <1>3 DEF TypeOK, CacheInv, StatusInv

(***************************************************************************)
(* The end of the reading.  A refresh that gets here has found no tool.    *)
(***************************************************************************)
LEMMA KeepsAllRead ==
  ASSUME TypeOK, CacheInv, NEW p \in Proc, AllRead(p)
  PROVE  TypeOK' /\ CacheInv'
<1> DEFINE to == CASE call[p].op \in Refreshes -> "listCache"
                   [] kind = "git" -> "commit"
                   [] OTHER -> "acked"
<1>1. call[p] \in Calls /\ Fits(pc[p], call[p])
  BY DEF TypeOK, CacheInv, CallInv
<1>2. /\ pc[p] = "readTools" /\ call[p].work = {}
      /\ Looks(p, "readTools", to, call[p])
  BY DEF AllRead, Looks, Goes
<1>3. /\ to \in {"listCache", "commit", "acked"}
      /\ to = "listCache" => call[p].op \in Refreshes
  BY Zenon
<1> HIDE DEF to
<1>4. to # "acked" => Fits(to, call[p])
  BY <1>1, <1>2, <1>3 DEF Fits
<1> QED BY <1>1, <1>2, <1>3, <1>4, LooksKeeps DEF Steps, Ends

(* The tidying of the cache, and the new status.  *)
LEMMA KeepsListCache ==
  ASSUME TypeOK, CacheInv, NEW p \in Proc, ListCache(p)
  PROVE  TypeOK' /\ CacheInv'
<1> DEFINE work == cache \X {None}
           known == [call[p] EXCEPT !.work = work]
<1>1. call[p] \in Calls /\ Fits(pc[p], call[p])
  BY DEF TypeOK, CacheInv, CallInv
<1>2. pc[p] = "listCache" /\ Looks(p, "listCache", "remove", known)
  BY DEF ListCache, Looks, Goes
<1>3. work \in SUBSET (Binaries \cup (Tools \X {None}))
  BY DEF TypeOK
<1>4. known = [call[p] EXCEPT !.work = work]
  OBVIOUS
<1> HIDE DEF work, known
<1>5. /\ known \in Calls /\ known.op = call[p].op
      /\ known.lasting = call[p].lasting /\ known.missing = call[p].missing
  BY <1>1, <1>3, <1>4, CallWork
<1>6. Fits("remove", known)
  BY <1>1, <1>2, <1>5 DEF Fits
<1> QED BY <1>2, <1>5, <1>6, LooksKeeps DEF Steps

LEMMA KeepsRemove ==
  ASSUME TypeOK, CacheInv, NEW p \in Proc, NEW b \in call[p].work,
         Remove(p, b)
  PROVE  TypeOK' /\ CacheInv'
<1> DEFINE known == Without(p, b)
<1>1. call[p] \in Calls /\ Fits(pc[p], call[p])
  BY DEF TypeOK, CacheInv, CallInv
<1>2. /\ known = [call[p] EXCEPT !.work = call[p].work \ {b}]
      /\ call[p].work \ {b} \in SUBSET (Binaries \cup (Tools \X {None}))
  BY <1>1 DEF Without, Calls
<1>3. /\ pc[p] = "remove" /\ cache' = cache \ {b[1]}
      /\ \E to \in {"remove", "error"} : Goes(p, "remove", to, known)
      /\ UNCHANGED <<kind, now, remote, edits, scratch, status, fetchedAt>>
  BY DEF Remove, Goes
<1> HIDE DEF known
<1>4. /\ known \in Calls /\ known.op = call[p].op
      /\ known.work = call[p].work \ {b}
      /\ known.lasting = call[p].lasting /\ known.missing = call[p].missing
  BY <1>1, <1>2, CallWork
<1>5. Fits("remove", known)
  BY <1>1, <1>3, <1>4 DEF Fits
<1>6. /\ pc' \in [Proc -> Ends \cup Steps] /\ call' \in [Proc -> Calls]
      /\ CallInv'
  BY <1>3, <1>4, <1>5, GoesKeeps DEF CacheInv, Steps, Ends
<1> QED BY <1>3, <1>6 DEF TypeOK, CacheInv, StatusInv

LEMMA KeepsWriteStatus ==
  ASSUME TypeOK, CacheInv, NEW p \in Proc, WriteStatus(p)
  PROVE  TypeOK' /\ CacheInv'
<1>1. /\ pc' \in [Proc -> Ends \cup Steps] /\ call' \in [Proc -> Calls]
      /\ CallInv'
  BY GoesKeeps DEF WriteStatus, CacheInv, TypeOK, Ends
<1>2. /\ UNCHANGED <<kind, now, remote, edits, scratch, cache>>
      /\ status' \in {now, Broken} /\ fetchedAt' = now
  BY DEF WriteStatus, Goes
<1>3. now \in Nat
  BY BoundsAssumption DEF TypeOK
<1> QED BY <1>1, <1>2, <1>3, NoneAssumption DEF TypeOK, CacheInv, StatusInv

(* What goes on around the processes.  *)
LEMMA KeepsEdit ==
  ASSUME TypeOK, CacheInv, NEW t \in Tools, NEW content \in Contents,
         Edit(t, content)
  PROVE  TypeOK' /\ CacheInv'
<1> DEFINE known(p) == [call[p] EXCEPT
                           !.lasting = call[p].lasting \cap Present(remote'),
                           !.missing = call[p].missing \ VersionsIn(remote')]
<1>1. /\ remote' \in [Tools -> Contents]
      /\ UNCHANGED <<kind, now, files, pc>>
  BY DEF Edit, TypeOK
<1>5. edits' \in 0 .. MaxEdits
  <2>1. edits \in 0 .. MaxEdits /\ edits < MaxEdits /\ edits' = edits + 1
    BY DEF Edit, TypeOK
  <2>2. MaxEdits \in Nat
    BY BoundsAssumption
  <2> QED BY <2>1, <2>2
<1>2. call' = [p \in Proc |-> known(p)]
  BY DEF Edit
<1>3. ASSUME NEW p \in Proc
      PROVE  /\ known(p) \in Calls /\ known(p).op = call[p].op
             /\ known(p).work = call[p].work /\ known(p).clone = call[p].clone
             /\ known(p).lasting = call[p].lasting \cap Present(remote')
             /\ known(p).missing = call[p].missing \ VersionsIn(remote')
  BY DEF TypeOK, Calls
<1> HIDE DEF known
<1>4. CallInv'
  <2> SUFFICES ASSUME NEW p \in Proc PROVE Fits(pc[p], call[p])'
    BY DEF CallInv
  <2>1. Fits(pc[p], call[p]) /\ call'[p] = known(p)
    BY <1>2 DEF CacheInv, CallInv
  <2> QED BY <1>1, <1>3, <2>1 DEF Fits
<1> QED BY <1>1, <1>2, <1>3, <1>4, <1>5 DEF TypeOK, CacheInv, StatusInv, files

LEMMA KeepsTick ==
  ASSUME TypeOK, CacheInv, Tick
  PROVE  TypeOK' /\ CacheInv'
<1>1. CallInv'
  BY DEF Tick, CacheInv, CallInv, Fits, Present, VersionsIn
<1>2. TypeOK'
  BY BoundsAssumption DEF Tick, TypeOK, files
<1> QED BY <1>1, <1>2 DEF Tick, CacheInv, StatusInv, files

-----------------------------------------------------------------------------
LEMMA CacheInvNext == TypeOK /\ CacheInv /\ [Next]_vars => TypeOK' /\ CacheInv'
<1> SUFFICES ASSUME TypeOK, CacheInv, [Next]_vars
             PROVE  TypeOK' /\ CacheInv'
  OBVIOUS
<1>1. CASE UNCHANGED vars
  BY <1>1
  DEF vars, files, TypeOK, CacheInv, CallInv, Fits, Present, VersionsIn,
      StatusInv
<1>2. ASSUME NEW p \in Proc, NEW b \in call[p].work,
             \/ Unreadable(p, b) \/ PassKnown(p, b) \/ WriteFails(p, b)
             \/ Remove(p, b)
      PROVE  TypeOK' /\ CacheInv'
  BY <1>2, KeepsEnd, KeepsPassKnown, KeepsWriteFails, KeepsRemove
<1>3. ASSUME NEW p \in Proc,
             \/ OpenStatus(p) \/ StatusBroken(p) \/ Skip(p) \/ Due(p)
             \/ Clone(p) \/ ListRemote(p) \/ AllRead(p) \/ Commit(p)
             \/ ListCache(p) \/ WriteStatus(p) \/ Fails(p)
      PROVE  TypeOK' /\ CacheInv'
  BY <1>3, KeepsStatus, KeepsListing, KeepsAllRead, KeepsEnd, KeepsListCache,
     KeepsWriteStatus
<1> QED BY <1>1, <1>2, <1>3, KeepsBegin, KeepsEdit, KeepsTick DEF Next

LEMMA CacheInvariant == Spec => [](TypeOK /\ CacheInv)
<1> QED BY CacheInvInit, CacheInvNext, PTL DEF Spec

(***************************************************************************)
(* Every variable keeps its type, for any processes, tools, versions and   *)
(* edits (internal/state).                                                 *)
(***************************************************************************)
THEOREM TypeCorrect == Spec => []TypeOK
<1> QED BY CacheInvariant, PTL

(***************************************************************************)
(* Whatever is edited while it runs, no refresh is ever about to remove a  *)
(* tool from the cache that the remote has had all the time                *)
(* (fileSystem.Fetch, git.Fetch).                                          *)
(***************************************************************************)
THEOREM NoToolIsRemovedInVain == Spec => []RemovalJustified
<1>1. CacheInv => RemovalJustified
  BY DEF CacheInv, CallInv, Fits, RemovalJustified
<1> QED BY <1>1, CacheInvariant, PTL

-----------------------------------------------------------------------------
(* Where a step that ends a call comes from.  *)

LEMMA GoesMoves ==
  ASSUME TypeOK, NEW p \in Proc, NEW q \in Proc, NEW from, NEW to, NEW known,
         Goes(q, from, to, known), pc'[p] # pc[p]
  PROVE  p = q /\ pc'[p] = to
  BY DEF Goes, TypeOK

LEMMA BeginMoves ==
  ASSUME TypeOK, NEW p \in Proc, NEW q \in Proc,
         NEW o \in Refreshes \cup Updates, NEW bs, Begin(q, o, bs),
         pc'[p] # pc[p]
  PROVE  pc'[p] \in Steps
<1> DEFINE to == CASE o \in Refreshes -> "openStatus"
                   [] kind = "git" -> "clone"
                   [] OTHER -> "readTools"
<1>1. PICK from, known : Goes(q, from, to, known)
  BY Zenon DEF Begin, Looks
<1>2. to \in {"openStatus", "clone", "readTools"}
  BY Zenon
<1> HIDE DEF to
<1> QED BY <1>1, <1>2, GoesMoves DEF Steps

LEMMA DueMoves ==
  ASSUME TypeOK, NEW p \in Proc, NEW q \in Proc, Due(q), pc'[p] # pc[p]
  PROVE  pc'[p] \in {"list", "clone", "panic"}
<1>1. PICK known : Goes(q, "readStatus", Remote, known)
  BY Zenon DEF Due, Looks
<1>2. Remote \in {"list", "clone", "panic"}
  BY Zenon DEF Remote
<1> QED BY <1>1, <1>2, GoesMoves

LEMMA AllReadMoves ==
  ASSUME TypeOK, NEW p \in Proc, NEW q \in Proc, AllRead(q), pc'[p] # pc[p]
  PROVE  /\ pc'[p] # "skipped"
         /\ pc'[p] = "acked" => AllRead(p) /\ kind # "git"
<1> DEFINE to == CASE call[q].op \in Refreshes -> "listCache"
                   [] kind = "git" -> "commit"
                   [] OTHER -> "acked"
<1>1. Goes(q, "readTools", to, call[q])
  BY DEF AllRead, Looks
<1>2. /\ to \in {"listCache", "commit", "acked"}
      /\ to = "acked" => kind # "git"
  BY Zenon
<1> HIDE DEF to
<1> QED BY <1>1, <1>2, GoesMoves

(* Only Skip leads to "skipped", and only AllRead to "acked".  *)
LEMMA EndsComeFrom ==
  ASSUME TypeOK, [Next]_vars, NEW p \in Proc, pc'[p] # pc[p]
  PROVE  /\ pc'[p] = "skipped" => Skip(p)
         /\ pc'[p] = "acked" => AllRead(p) /\ kind # "git"
<1>1. CASE Tick \/ UNCHANGED vars
  BY <1>1 DEF Tick, vars
<1>2. CASE \E t \in Tools, content \in Contents : Edit(t, content)
  BY <1>2 DEF Edit
<1>3. ASSUME NEW q \in Proc, NEW o \in Refreshes \cup Updates, NEW bs,
             Begin(q, o, bs)
      PROVE  pc'[p] \notin {"skipped", "acked"}
  BY <1>3, BeginMoves DEF Steps
<1>4. ASSUME NEW q \in Proc, NEW b,
             \/ Unreadable(q, b) \/ PassKnown(q, b) \/ WriteFails(q, b)
             \/ Remove(q, b)
      PROVE  pc'[p] \notin {"skipped", "acked"}
  BY <1>4, GoesMoves
  DEF Unreadable, PassKnown, WriteFails, Remove, Looks
<1>5. ASSUME NEW q \in Proc,
             \/ OpenStatus(q) \/ StatusBroken(q) \/ Clone(q) \/ ListRemote(q)
             \/ Commit(q) \/ ListCache(q) \/ WriteStatus(q) \/ Fails(q)
      PROVE  pc'[p] \notin {"skipped", "acked"}
  BY <1>5, GoesMoves
  DEF OpenStatus, StatusBroken, Clone, ListRemote, Commit, ListCache,
      WriteStatus, Fails, Looks
<1>6. ASSUME NEW q \in Proc, Skip(q)
      PROVE  Skip(p) /\ pc'[p] # "acked"
  BY <1>6, GoesMoves DEF Skip, Looks
<1> QED BY <1>1, <1>2, <1>3, <1>4, <1>5, <1>6, DueMoves, AllReadMoves DEF Next

LEMMA SkipsWhenNotDue ==
  ASSUME TypeOK, CacheInv, [Next]_vars, NEW p \in Proc,
         pc[p] # "skipped", pc'[p] = "skipped"
  PROVE  fetchedAt # None /\ now < fetchedAt + Interval
<1>1. NotDue(p) /\ status # Broken
  BY EndsComeFrom DEF Skip
<1>2. status \in Nat /\ now \in Nat /\ Interval \in Nat
  BY <1>1, BoundsAssumption DEF TypeOK, NotDue
<1>3. fetchedAt \in Nat /\ status <= fetchedAt
  BY <1>2 DEF CacheInv, StatusInv
<1> QED BY <1>1, <1>2, <1>3, NoneAssumption DEF NotDue

LEMMA AcksWhenAllRead ==
  ASSUME TypeOK, CacheInv, [Next]_vars, NEW p \in Proc,
         pc[p] # "acked", pc'[p] = "acked"
  PROVE  call[p].missing = {}
<1>1. AllRead(p) /\ kind # "git"
  BY EndsComeFrom
<1>2. pc[p] = "readTools" /\ call[p].work = {}
  BY <1>1 DEF AllRead, Looks, Goes
<1> QED BY <1>1, <1>2 DEF CacheInv, CallInv, Fits

(***************************************************************************)
(* No process skips a refresh unless one has succeeded within the          *)
(* interval, in whatever order the processes truncate, read and write the  *)
(* status file (fileSystem.Refresh).                                       *)
(***************************************************************************)
THEOREM SkipsAreJustified == Spec => SkipJustified
<1>1. TypeOK /\ CacheInv /\ [Next]_vars
      => [\A p \in Proc :
            pc[p] # "skipped" /\ pc'[p] = "skipped"
            => fetchedAt # None /\ now < fetchedAt + Interval]_vars
  BY SkipsWhenNotDue
<1> QED BY <1>1, CacheInvariant, PTL DEF Spec, SkipJustified

(***************************************************************************)
(* Each version of an acknowledged update has been in the state at some    *)
(* time during the call (AddVersions).                                     *)
(***************************************************************************)
THEOREM AcknowledgedUpdatesHeld == Spec => AckedHeld
<1>1. TypeOK /\ CacheInv /\ [Next]_vars
      => [\A p \in Proc :
            pc[p] # "acked" /\ pc'[p] = "acked" => call[p].missing = {}]_vars
  BY AcksWhenAllRead
<1> QED BY <1>1, CacheInvariant, PTL DEF Spec, AckedHeld
=============================================================================
