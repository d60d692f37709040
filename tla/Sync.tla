-------------------------------- MODULE Sync --------------------------------
(***************************************************************************)
(* `toolshare sync` (internal/driver/sync.go): shim scripts for a list of  *)
(* tools, and then the binaries they will run, by any number of processes  *)
(* that share the subscription folder and an environment.                  *)
(*                                                                         *)
(* The list of tools of one run is a set: when it comes from the           *)
(* environment its order is that of a Go map, so any.  A download is one   *)
(* step here; module ToolFetch has what goes on inside.                    *)
(***************************************************************************)
EXTENDS FiniteSets, Sequences, Naturals

CONSTANTS
    Proc,       \* the processes that run sync
    Tools,      \* the names of tools
    DriverName, \* the one among them that is toolshare itself
    Windows     \* are there shims for CMD too?

ASSUME NamesAssumption == DriverName \in Tools
ASSUME WindowsAssumption == Windows \in BOOLEAN

VARIABLES
    registered, \* the tools the environment knows
    pinned,     \* those it has a version for
    asked,      \* asked[p]: the tools given with --tools, if any
    mode,       \* mode[p]: what is given with --mode
    pc,         \* pc[p]: what p does next
    todo,       \* todo[p]: the tools not yet seen to in this phase
    failed,     \* failed[p]: has a shim of p failed?
    pending,    \* pending[p]: the shims of one tool that p is to write
    temp,       \* temp[p]: the state of the temporary file of p
    shim,       \* shim[<<t, k>>]: the state of the shim of kind k for tool t
    cached,     \* the pinned tools whose binary is in the local cache
    outcome,    \* outcome[p]: how p has ended
    faulted     \* history: the processes that met a failing call

envVars == <<registered, pinned, asked, mode>>
shimVars == <<pending, temp, shim>>
vars == <<envVars, pc, todo, failed, shimVars, cached, outcome, faulted>>

(* Mutant: the other order.  *)
ShimsOfReversed(t) ==
    IF Windows THEN <<<<t, "shell">>, <<t, "cmd">>>> ELSE <<<<t, "shell">>>>

(* The shims of a tool, in the order in which they are written.  *)
ShimsOf(t) ==
    IF Windows THEN <<<<t, "cmd">>, <<t, "shell">>>> ELSE <<<<t, "shell">>>>

Shims == Tools \X {"cmd", "shell"}
FileStates == {"none", "empty", "whole", "executable"}
Labels == {"start", "shims", "createShim", "writeShim", "chmodShim",
           "renameShim", "fetches", "done"}

TypeOK ==
    /\ registered \in SUBSET Tools
    /\ pinned \in SUBSET registered
    /\ asked \in [Proc -> SUBSET Tools]
    /\ mode \in [Proc -> {"fetch", "shim", "other"}]
    /\ pc \in [Proc -> Labels]
    /\ todo \in [Proc -> SUBSET Tools]
    /\ failed \in [Proc -> BOOLEAN]
    /\ pending \in [Proc -> {<< >>} \cup UNION {{ShimsOf(t), <<<<t, "shell">>>>} :
                                             t \in Tools}]
    /\ temp \in [Proc -> FileStates]
    /\ shim \in [Shims -> FileStates]
    /\ cached \in SUBSET Tools
    /\ outcome \in [Proc -> {"none", "ok", "error", "exit128"}]
    /\ faulted \in SUBSET Proc

Init ==
    /\ registered \in SUBSET Tools
    /\ pinned \in SUBSET registered
    /\ asked \in [Proc -> SUBSET Tools]
    /\ mode \in [Proc -> {"fetch", "shim", "other"}]
    /\ pc = [p \in Proc |-> "start"]
    /\ todo = [p \in Proc |-> {}]
    /\ failed = [p \in Proc |-> FALSE]
    /\ pending = [p \in Proc |-> << >>]
    /\ temp = [p \in Proc |-> "none"]
    /\ shim = [s \in Shims |-> "none"]
    /\ cached = {}
    /\ outcome = [p \in Proc |-> "none"]
    /\ faulted = {}

-----------------------------------------------------------------------------
(* Without --tools every tool of the environment is synced.  *)
Listed(p) == IF asked[p] = {} THEN registered ELSE asked[p]

Step(p, from, to) ==
    /\ pc[p] = from /\ pc' = [pc EXCEPT ![p] = to]
    /\ UNCHANGED envVars

(* p turns to the next phase, for all of its tools.  *)
Enter(p, from, to) ==
    /\ Step(p, from, to)
    /\ todo' = [todo EXCEPT ![p] = Listed(p)]
    /\ UNCHANGED <<failed, shimVars, cached, outcome, faulted>>

End(p, from, result) ==
    /\ Step(p, from, "done")
    /\ outcome' = [outcome EXCEPT ![p] = result]
    /\ UNCHANGED <<todo, failed, shimVars, cached>>

(* A call fails for p.  *)
Fault(p) == faulted' = faulted \cup {p}

(* sync: the mode is checked first, then whether there is any tool ...  *)
ModeUnknown(p) ==
    mode[p] = "other" /\ End(p, "start", "error") /\ UNCHANGED faulted

Starts(p) == mode[p] # "other" /\ Listed(p) # {}

NoTools(p) ==
    /\ mode[p] # "other" /\ Listed(p) = {}
    /\ End(p, "start", "ok")
    /\ UNCHANGED faulted

(* ... and syncInitShimFolder makes the folder if need be, or fails.  *)
InitShimFolder(p) == Starts(p) /\ Enter(p, "start", "shims")

InitShimFolderFails(p) == Starts(p) /\ End(p, "start", "error") /\ Fault(p)

-----------------------------------------------------------------------------
(* syncCreateShims.  *)

Take(p, t) ==
    /\ t \in todo[p] /\ todo' = [todo EXCEPT ![p] = @ \ {t}]
    /\ UNCHANGED <<envVars, temp, shim, outcome, faulted>>

(***************************************************************************)
(* No shim for a tool the environment does not know, none for the driver   *)
(* itself, which would call itself forever, and, once a tool has failed,   *)
(* none for any tool that follows.                                         *)
(***************************************************************************)
Refused(p, t) == t \notin registered \/ t = DriverName \/ failed[p]

(* Mutant: a tool that gets no shim is only logged.  *)
RefuseShimQuietly(p, t) ==
    /\ pc[p] = "shims" /\ Refused(p, t)
    /\ Take(p, t)
    /\ UNCHANGED <<pc, failed, pending, cached>>

RefuseShim(p, t) ==
    /\ pc[p] = "shims" /\ Refused(p, t)
    /\ Take(p, t)
    /\ failed' = [failed EXCEPT ![p] = TRUE]
    /\ UNCHANGED <<pc, pending, cached>>

CreateShim(p, t) ==
    /\ ~Refused(p, t)
    /\ Take(p, t)
    /\ Step(p, "shims", "createShim")
    /\ pending' = [pending EXCEPT ![p] = ShimsOf(t)]
    /\ UNCHANGED <<failed, cached>>

(***************************************************************************)
(* syncWriteShim: a temporary file, its content, its mode, its name.       *)
(***************************************************************************)
WriteStep(p, from, to, state) ==
    /\ Step(p, from, to)
    /\ temp' = [temp EXCEPT ![p] = state]
    /\ UNCHANGED <<todo, cached, outcome>>

TempStep(p, from, to, state) ==
    WriteStep(p, from, to, state) /\ UNCHANGED <<failed, pending, shim, faulted>>

CreateTemp(p) == TempStep(p, "createShim", "writeShim", "empty")
WriteShim(p) == TempStep(p, "writeShim", "chmodShim", "whole")

(* Mutant: the file is not made executable.  *)
ChmodForgotten(p) == TempStep(p, "chmodShim", "renameShim", "whole")

ChmodShim(p) == TempStep(p, "chmodShim", "renameShim", "executable")

RenameShim(p) ==
    /\ WriteStep(p, "renameShim",
                 IF Len(pending[p]) = 1 THEN "shims" ELSE "createShim", "none")
    /\ shim' = [shim EXCEPT ![Head(pending[p])] = temp[p]]
    /\ pending' = [pending EXCEPT ![p] = Tail(@)]
    /\ UNCHANGED <<failed, faulted>>

WriteLabels == {"createShim", "writeShim", "chmodShim", "renameShim"}

(* The tool is given up, and its temporary file forgotten where it is.  *)
GiveUp(p) ==
    /\ pc[p] \in WriteLabels
    /\ WriteStep(p, pc[p], "shims", "none")
    /\ pending' = [pending EXCEPT ![p] = << >>]
    /\ Fault(p)
    /\ UNCHANGED shim

(* Mutant: an error while a shim is written is only logged.  *)
WriteFailsUnnoticed(p) == GiveUp(p) /\ UNCHANGED failed

WriteShimFails(p) == GiveUp(p) /\ failed' = [failed EXCEPT ![p] = TRUE]

AllTried(p) == pc[p] = "shims" /\ todo[p] = {}

ShimsFailed(p) ==
    AllTried(p) /\ failed[p] /\ End(p, "shims", "error") /\ UNCHANGED faulted

ShimsCreated(p) ==
    /\ AllTried(p) /\ ~failed[p]
    /\ IF mode[p] = "fetch" THEN Enter(p, "shims", "fetches")
       ELSE End(p, "shims", "ok") /\ UNCHANGED faulted

-----------------------------------------------------------------------------
(* The downloads; download() of a tool without a version ends the process. *)

Download(p, t) ==
    /\ pc[p] = "fetches" /\ t \in pinned
    /\ Take(p, t)
    /\ cached' = cached \cup {t}
    /\ UNCHANGED <<pc, failed, pending>>

(* The first download that fails ends the sync.  *)
DownloadFails(p, t) ==
    t \in todo[p] \cap pinned /\ End(p, "fetches", "error") /\ Fault(p)

DownloadUnpinned(p, t) ==
    t \in todo[p] \ pinned /\ End(p, "fetches", "exit128") /\ UNCHANGED faulted

SyncDone(p) == todo[p] = {} /\ End(p, "fetches", "ok") /\ UNCHANGED faulted

-----------------------------------------------------------------------------
ToolStep(p, t) ==
    \/ RefuseShim(p, t) \/ CreateShim(p, t)
    \/ Download(p, t) \/ DownloadFails(p, t) \/ DownloadUnpinned(p, t)

ProcStep(p) ==
    \/ ModeUnknown(p) \/ NoTools(p)
    \/ InitShimFolder(p) \/ InitShimFolderFails(p)
    \/ CreateTemp(p) \/ WriteShim(p) \/ ChmodShim(p) \/ RenameShim(p)
    \/ WriteShimFails(p)
    \/ ShimsFailed(p) \/ ShimsCreated(p) \/ SyncDone(p)
    \/ \E t \in Tools : ToolStep(p, t)

Ended == (\A p \in Proc : pc[p] = "done") /\ UNCHANGED vars

Next == (\E p \in Proc : ProcStep(p)) \/ Ended

Spec == Init /\ [][Next]_vars

-----------------------------------------------------------------------------
(* Properties.  *)

HasShims(t) == \A i \in DOMAIN ShimsOf(t) : shim[ShimsOf(t)[i]] = "executable"

(***************************************************************************)
(* Success means everything: when sync reports none of its errors, every   *)
(* tool on its list has all its shims and, in fetch mode, its binary.      *)
(***************************************************************************)
SuccessComplete ==
    \A p \in Proc : outcome[p] = "ok" => \A t \in Listed(p) :
        HasShims(t) /\ (mode[p] = "fetch" => t \in cached)

(***************************************************************************)
(* A shim that can be found is complete and executable, and stays so while *)
(* others write the same one; and no tool has one that the environment     *)
(* does not know, nor the driver, whose shim would call itself.            *)
(***************************************************************************)
ShimsUsable ==
    \A s \in Shims : shim[s] # "none" =>
        shim[s] = "executable" /\ s[1] \in registered \ {DriverName}

(***************************************************************************)
(* Binaries come after shims: a tool is downloaded by sync only when it    *)
(* can then be invoked through its shims (the order of the two phases).    *)
(***************************************************************************)
CachedHaveShims == \A t \in cached : HasShims(t)

(***************************************************************************)
(* sync.go:49: without --tools "all pinned tools in the current            *)
(* environment will be sync'd to": when no call fails and the driver is    *)
(* not among the tools, a sync that has ended has synced each of them.     *)
(***************************************************************************)
AllPinnedSynced ==
    \A p \in Proc :
        /\ outcome[p] # "none"
        /\ mode[p] = "fetch" /\ asked[p] = {}
        /\ p \notin faulted /\ DriverName \notin registered
        => \A t \in pinned : HasShims(t) /\ t \in cached
=============================================================================
