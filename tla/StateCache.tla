----------------------------- MODULE StateCache -----------------------------
(***************************************************************************)
(* internal/state: the shared state, a folder or a git repository with one *)
(* file per tool, and the cache of it in a folder of each user.  Processes *)
(* refresh one cache, or update the state, while its files are edited.     *)
(*                                                                         *)
(* writeToolState opens <tool>.yaml.new with O_CREATE|O_TRUNC alone, which *)
(* is for reading: the Write that follows always fails, so no tool file is *)
(* ever replaced, and Rename is never reached.  What a call has read makes *)
(* no difference once it has to write.  A refresh opens its status file    *)
(* with O_TRUNC before it reads it.                                        *)
(***************************************************************************)
EXTENDS Naturals

CONSTANTS
    Proc,       \* the processes that use the state
    None,       \* no file, no version, no time
    Broken,     \* content that cannot be unmarshalled
    Tools, Versions,
    Interval,   \* RefreshInterval
    MaxTime,    \* the last time there is (bound)
    MaxEdits    \* how often the state is edited (bound)

ASSUME NoneAssumption ==
    None # Broken /\ None \notin Versions /\ {None, Broken} \cap Nat = {}
ASSUME BoundsAssumption == {Interval, MaxTime, MaxEdits} \subseteq Nat

VARIABLES
    kind,       \* what the cache has as its remote; "none" without a Local
    now,
    remote,     \* remote[t]: the versions in the file of t, None, or Broken
    edits,      \* how often it has been edited
    scratch,    \* the tools with a .yaml.new in the folder of the state
    cache,      \* the tools with a file in the cache
    status,     \* the LastRefresh in the status file, None, or Broken
    fetchedAt,  \* history: when the last fetch from the remote succeeded
    pc,         \* pc[p]: what p does next, or how its last call ended
    call        \* call[p]: what p knows in its call

files == <<scratch, cache, status, fetchedAt>>
vars == <<kind, now, remote, edits, files, pc, call>>

Refreshes == {"refresh", "forced"}
Updates == {"add", "change"}    \* AddVersions; Recommend-, DeleteVersions
Ends == {"idle", "skipped", "refreshed", "acked", "error", "panic"}
Steps == {"openStatus", "readStatus", "clone", "list", "readTools",
          "listCache", "remove", "commit"}

Contents == (SUBSET Versions) \cup {None, Broken}
Binaries == Tools \X Versions

Present(state) == {t \in Tools : state[t] # None}

(* The versions of tools whose file can be read.  *)
VersionsIn(state) ==
    {b \in Binaries :
        state[b[1]] \notin {None, Broken} /\ b[2] \in state[b[1]]}

(***************************************************************************)
(* past: is the place at which p writes behind what the status file had?   *)
(* clone: the checkout of the repository.  work: the tools, with versions, *)
(* that p is not done with.  The others are history: lasting, the tools    *)
(* the remote has had all the time of a refresh, and missing, the versions *)
(* of an update that the state has not had since it began.                 *)
(***************************************************************************)
Calls ==
    [op : Refreshes \cup Updates, past : BOOLEAN,
     clone : [Tools -> Contents],
     work : SUBSET (Binaries \cup (Tools \X {None})),
     lasting : SUBSET Tools, missing : SUBSET Binaries]

NoCall ==
    [op |-> "refresh", past |-> FALSE, clone |-> [t \in Tools |-> None],
     work |-> {}, lasting |-> {}, missing |-> {}]

TypeOK ==
    /\ kind \in {"folder", "git", "none"} /\ now \in 0 .. MaxTime
    /\ remote \in [Tools -> Contents] /\ edits \in 0 .. MaxEdits
    /\ scratch \subseteq Tools /\ cache \subseteq Tools
    /\ status \in 0 .. now \cup {None, Broken}
    /\ fetchedAt \in 0 .. now \cup {None}
    /\ pc \in [Proc -> Ends \cup Steps]
    /\ call \in [Proc -> Calls]

Init ==
    /\ kind \in {"folder", "git", "none"} /\ now = 0
    /\ remote \in [Tools -> Contents] /\ edits = 0
    /\ scratch = {} /\ cache \in SUBSET Tools
    /\ status = None /\ fetchedAt = None
    /\ pc = [p \in Proc |-> "idle"]
    /\ call = [p \in Proc |-> NoCall]

-----------------------------------------------------------------------------
(* p goes on, and knows now what is given; at the end it forgets.  *)
Goes(p, from, to, known) ==
    /\ pc[p] = from
    /\ pc' = [pc EXCEPT ![p] = to]
    /\ call' = [call EXCEPT ![p] = IF to \in Ends THEN NoCall ELSE known]
    /\ UNCHANGED <<kind, now, remote, edits>>

(* A step that leaves all files as they are.  *)
Looks(p, from, to, known) == Goes(p, from, to, known) /\ UNCHANGED files

(* The readers refresh first, whatever comes of it, and then read.  *)
Begin(p, o, binaries) ==
    /\ IF o \in Updates THEN kind # "none" /\ binaries # {}
                        ELSE binaries = {}
    /\ \E from \in Ends \ {"panic"} :
          Looks(p, from, CASE o \in Refreshes -> "openStatus"
                           [] kind = "git" -> "clone"
                           [] OTHER -> "readTools",
                [NoCall EXCEPT
                    !.op = o, !.work = binaries,
                    !.lasting =
                        IF o \in Refreshes THEN Present(remote) ELSE {},
                    !.missing = binaries \ VersionsIn(remote)])

(* O_TRUNC: whatever was in the status file is lost.  *)
OpenStatus(p) ==
    /\ Goes(p, "openStatus", "readStatus", call[p])
    /\ status' = None
    /\ UNCHANGED <<scratch, cache, fetchedAt>>

NotDue(p) ==
    call[p].op = "refresh" /\ status # None /\ now < status + Interval

(* What there is to read another refresh has written since the truncation.  *)
StatusBroken(p) ==
    status = Broken /\ Looks(p, "readStatus", "error", call[p])

Skip(p) ==
    status # Broken /\ NotDue(p) /\ Looks(p, "readStatus", "skipped", call[p])

(* The remote of a cache whose settings have no Local is nil.  *)
Remote == CASE kind = "folder" -> "list"
            [] kind = "git" -> "clone"
            [] OTHER -> "panic"

(* Mutant: the time is recorded before the fetch.  *)
DueRecorded(p) ==
    /\ status # Broken /\ ~NotDue(p)
    /\ Goes(p, "readStatus", Remote, call[p])
    /\ status' = now
    /\ UNCHANGED <<scratch, cache, fetchedAt>>

Due(p) ==
    /\ status # Broken /\ ~NotDue(p)
    /\ Looks(p, "readStatus", Remote,
             [call[p] EXCEPT !.past = status # None])

(* createLocalCheckout: the repository as it is at one moment.  *)
Clone(p) ==
    Looks(p, "clone", IF call[p].op \in Refreshes THEN "list" ELSE "readTools",
          [call[p] EXCEPT !.clone = remote])

(* The state that p works on.  *)
State(p) == IF kind = "git" THEN call[p].clone ELSE remote

ListRemote(p) ==
    Looks(p, "list", "readTools",
          [call[p] EXCEPT !.work = Present(State(p)) \X {None}])

(* p is done with b and has others left.  *)
Without(p, b) == [call[p] EXCEPT !.work = @ \ {b}]

Readable(p, b) == State(p)[b[1]] \notin {None, Broken}

(* Mutant: a tool whose file cannot be read is passed over.  *)
UnreadablePassed(p, b) ==
    ~Readable(p, b) /\ Looks(p, "readTools", "readTools", Without(p, b))

(* readToolState: no file, or no YAML, ends the call.  *)
Unreadable(p, b) ==
    ~Readable(p, b) /\ Looks(p, "readTools", "error", call[p])

(* All but AddVersions write a file they have read, whatever it has.  *)
Writes(p, b) == call[p].op = "add" => b[2] \notin State(p)[b[1]]

PassKnown(p, b) ==
    /\ Readable(p, b) /\ ~Writes(p, b)
    /\ Looks(p, "readTools", "readTools", Without(p, b))

(* Mutant: the error of Write is not looked at.  *)
WriteUnchecked(p, b) ==
    /\ Readable(p, b) /\ Writes(p, b)
    /\ Looks(p, "readTools", "readTools", Without(p, b))

(* writeToolState, also of Fetch, leaves an empty file and fails.  *)
WriteFails(p, b) ==
    /\ Readable(p, b) /\ Writes(p, b)
    /\ Goes(p, "readTools", "error", call[p])
    /\ scratch' = IF kind = "git" THEN scratch ELSE scratch \cup {b[1]}
    /\ UNCHANGED <<cache, status, fetchedAt>>

AllRead(p) ==
    /\ call[p].work = {}
    /\ Looks(p, "readTools", CASE call[p].op \in Refreshes -> "listCache"
                               [] kind = "git" -> "commit"
                               [] OTHER -> "acked", call[p])

(* commitAndPush: nothing has changed, and an empty commit is an error.  *)
Commit(p) == Looks(p, "commit", "error", call[p])

(* No tool was copied, so that every tool of the cache is stale.  *)
ListCache(p) ==
    Looks(p, "listCache", "remove", [call[p] EXCEPT !.work = cache \X {None}])

(* Another refresh may have removed it first, which is an error.  *)
Remove(p, b) ==
    /\ Goes(p, "remove", IF b[1] \in cache THEN "remove" ELSE "error",
            Without(p, b))
    /\ cache' = cache \ {b[1]}
    /\ UNCHANGED <<scratch, status, fetchedAt>>

(* Mutant: the status file has the time at which it is due again.  *)
WriteStatusDue(p) ==
    /\ call[p].work = {}
    /\ Goes(p, "remove", "refreshed", call[p])
    /\ status' = now + Interval /\ fetchedAt' = now
    /\ UNCHANGED <<scratch, cache>>

(***************************************************************************)
(* The new status goes to where p stopped to read.  Over one that another  *)
(* refresh has written it may leave a rest of it, after one the file has   *)
(* two of them, or a hole.                                                 *)
(***************************************************************************)
WriteStatus(p) ==
    /\ call[p].work = {}
    /\ Goes(p, "remove", "refreshed", call[p])
    /\ status' \in IF call[p].past THEN {Broken}
                   ELSE IF status = None THEN {now} ELSE {now, Broken}
    /\ fetchedAt' = now
    /\ UNCHANGED <<scratch, cache>>

(* Any of these calls may fail by itself.  *)
Fails(p) == \E at \in Steps : Looks(p, at, "error", call[p])

(* Somebody edits the state: a tool file gets another content, or goes.  *)
Edit(t, content) ==
    /\ edits < MaxEdits /\ edits' = edits + 1
    /\ remote' = [remote EXCEPT ![t] = content]
    /\ call' = [p \in Proc |->
                   [call[p] EXCEPT !.lasting = @ \cap Present(remote'),
                                   !.missing = @ \ VersionsIn(remote')]]
    /\ UNCHANGED <<kind, now, files, pc>>

Tick ==
    /\ now < MaxTime
    /\ now' = now + 1
    /\ UNCHANGED <<kind, remote, edits, files, pc, call>>

Next ==
    \/ \E p \in Proc :
          \/ \E o \in Refreshes \cup Updates, bs \in SUBSET Binaries :
                Begin(p, o, bs)
          \/ OpenStatus(p) \/ StatusBroken(p) \/ Skip(p) \/ Due(p)
          \/ Clone(p) \/ ListRemote(p) \/ AllRead(p) \/ Commit(p)
          \/ \E b \in call[p].work :
                \/ Unreadable(p, b) \/ PassKnown(p, b) \/ WriteFails(p, b)
                \/ Remove(p, b)
          \/ ListCache(p) \/ WriteStatus(p) \/ Fails(p)
    \/ \E t \in Tools, content \in Contents : Edit(t, content)
    \/ Tick

Spec == Init /\ [][Next]_vars

-----------------------------------------------------------------------------
(* Properties.  *)

(***************************************************************************)
(* A refresh removes no tool from the cache that the remote has had ever   *)
(* since the refresh began, whether its file can be read or not, and       *)
(* whatever is edited meanwhile (fileSystem.Fetch, git.Fetch).             *)
(***************************************************************************)
RemovalJustified ==
    \A p \in Proc :
        pc[p] = "remove" =>
            \A b \in call[p].work : b[1] \notin call[p].lasting

(***************************************************************************)
(* A refresh is skipped only if the cache was refreshed with success, by   *)
(* whomever, within the interval: a status file that several processes     *)
(* truncate, read and write never claims more (fileSystem.Refresh).        *)
(***************************************************************************)
SkipJustified ==
    [][\A p \in Proc :
          pc[p] # "skipped" /\ pc'[p] = "skipped"
          => fetchedAt # None /\ now < fetchedAt + Interval]_vars

(***************************************************************************)
(* An update that is acknowledged is in effect: each of its versions has   *)
(* been in the state at some time during the call (AddVersions of the      *)
(* folder and of git).                                                     *)
(***************************************************************************)
AckedHeld ==
    [][\A p \in Proc :
          pc[p] # "acked" /\ pc'[p] = "acked" => call[p].missing = {}]_vars
=============================================================================
