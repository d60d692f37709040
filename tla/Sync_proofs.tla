----------------------------- MODULE Sync_proofs -----------------------------
(***************************************************************************)
(* Proofs about Sync, for any processes and tools, with and without shims  *)
(* for CMD.                                                                *)
(***************************************************************************)
EXTENDS Sync, TLAPS

(* p writes the shims of t, and those that are not pending are there.  *)
Writing(p, t) ==
    \/ pending[p] = ShimsOf(t)
    \/ /\ Windows /\ pending[p] = <<<<t, "shell">>>>
       /\ shim[<<t, "cmd">>] = "executable"

(* As long as no shim has failed, p has seen to each tool it has taken from *)
(* its list, but for the one whose shims it writes.                         *)
ShimPhase(p) ==
    /\ pc[p] = "renameShim" => temp[p] = "executable"
    /\ pc[p] \notin WriteLabels => pending[p] = << >>
    /\ pc[p] \in WriteLabels =>
          \E t \in registered \ {DriverName} : Writing(p, t)
    /\ pc[p] \in WriteLabels \cup {"shims"} /\ ~failed[p] =>
          \A t \in Listed(p) \ todo[p] : HasShims(t) \/ Writing(p, t)

FetchPhase(p) ==
    pc[p] = "fetches" =>
        /\ mode[p] = "fetch" /\ todo[p] \subseteq Listed(p)
        /\ \A t \in Listed(p) : HasShims(t)
        /\ \A t \in Listed(p) \ todo[p] : t \in cached

Complete(p) ==
    outcome[p] = "ok" => \A t \in Listed(p) :
        HasShims(t) /\ (mode[p] = "fetch" => t \in cached)

ProcInv(p) == ShimPhase(p) /\ FetchPhase(p) /\ Complete(p)

SyncInv ==
    (\A p \in Proc : ProcInv(p)) /\ ShimsUsable /\ CachedHaveShims

-----------------------------------------------------------------------------
(* What the sequence of shims of a tool comes to.  *)

LEMMA ShimsFacts ==
  ASSUME NEW t \in Tools
  PROVE  /\ Windows => ShimsOf(t) = <<<<t, "cmd">>, <<t, "shell">>>>
         /\ ~Windows => ShimsOf(t) = <<<<t, "shell">>>>
         /\ ShimsOf(t) # << >> /\ <<<<t, "shell">>>> # << >>
  BY DEF ShimsOf

LEMMA ShimsAre ==
  ASSUME NEW t \in Tools, NEW i \in DOMAIN ShimsOf(t)
  PROVE  /\ ShimsOf(t)[i] \in Shims
         /\ \/ ShimsOf(t)[i] = <<t, "shell">>
            \/ Windows /\ ShimsOf(t)[i] = <<t, "cmd">>
<1>1. CASE Windows
  <2>1. ShimsOf(t) = <<<<t, "cmd">>, <<t, "shell">>>>
    BY <1>1, ShimsFacts
  <2> QED BY <1>1, <2>1 DEF Shims
<1>2. CASE ~Windows
  <2>1. ShimsOf(t) = <<<<t, "shell">>>>
    BY <1>2, ShimsFacts
  <2> QED BY <2>1 DEF Shims
<1> QED BY <1>1, <1>2

(* The shim that is written next, and what is left to write after it.  *)
LEMMA PendingFacts ==
  ASSUME NEW p \in Proc, NEW t \in Tools, Writing(p, t)
  PROVE  /\ Head(pending[p]) \in {<<t, "cmd">>, <<t, "shell">>}
         /\ Len(pending[p]) = 1 =>
               /\ Head(pending[p]) = <<t, "shell">>
               /\ Windows => shim[<<t, "cmd">>] = "executable"
               /\ Tail(pending[p]) = << >>
         /\ Len(pending[p]) # 1 =>
               /\ Windows /\ Head(pending[p]) = <<t, "cmd">>
               /\ Tail(pending[p]) = <<<<t, "shell">>>>
<1>1. CASE pending[p] = <<<<t, "shell">>>>
  <2>1. Windows => shim[<<t, "cmd">>] = "executable"
    BY <1>1, ShimsFacts DEF Writing
  <2> QED BY <1>1, <2>1
<1>2. CASE pending[p] # <<<<t, "shell">>>>
  <2>1. Windows /\ pending[p] = <<<<t, "cmd">>, <<t, "shell">>>>
    BY <1>2, ShimsFacts DEF Writing
  <2> QED BY <2>1
<1> QED BY <1>1, <1>2

-----------------------------------------------------------------------------
LEMMA SyncInvInit == Init => TypeOK /\ SyncInv
<1> SUFFICES ASSUME Init PROVE TypeOK /\ SyncInv
  OBVIOUS
<1>1. TypeOK
  BY DEF Init, TypeOK, FileStates, Labels
<1>2. ASSUME NEW p \in Proc PROVE ProcInv(p)
  BY DEF Init, ProcInv, ShimPhase, FetchPhase, Complete, WriteLabels
<1>3. ShimsUsable /\ CachedHaveShims
  BY DEF Init, ShimsUsable, CachedHaveShims
<1> QED BY <1>1, <1>2, <1>3 DEF SyncInv

(* No shim that is there is lost, nor any binary.  *)
Grows ==
    /\ \A s \in Shims : shim[s] = "executable" => shim'[s] = "executable"
    /\ cached \subseteq cached' /\ UNCHANGED envVars

LEMMA HasShimsGrows ==
  ASSUME NEW t \in Tools, Grows, HasShims(t)
  PROVE  HasShims(t)'
  BY ShimsAre DEF Grows, HasShims

(* A process that does nothing keeps what holds of it.  *)
LEMMA OthersKeep ==
  ASSUME TypeOK, Grows, NEW q \in Proc, ProcInv(q),
         pc'[q] = pc[q], todo'[q] = todo[q], failed'[q] = failed[q],
         pending'[q] = pending[q], temp'[q] = temp[q],
         outcome'[q] = outcome[q]
  PROVE  ProcInv(q)'
<1>1. /\ Listed(q)' = Listed(q) /\ Listed(q) \subseteq Tools
      /\ mode' = mode /\ registered' = registered
      /\ registered \subseteq Tools
  BY DEF Grows, envVars, Listed, TypeOK
<1>2. \A t \in Tools : Writing(q, t) => Writing(q, t)'
  BY DEF Writing, Grows, Shims
<1>3. \A t \in Tools : HasShims(t) => HasShims(t)'
  BY HasShimsGrows
<1>4. ShimPhase(q)'
  BY <1>1, <1>2, <1>3 DEF ProcInv, ShimPhase
<1>5. FetchPhase(q)'
  BY <1>1, <1>3 DEF ProcInv, FetchPhase, Grows
<1>6. Complete(q)'
  BY <1>1, <1>3 DEF ProcInv, Complete, Grows
<1> QED BY <1>4, <1>5, <1>6 DEF ProcInv

(***************************************************************************)
(* What is left to show of a step of p that changes no shim: the type of   *)
(* what it changes, and what then holds of p.                              *)
(***************************************************************************)
Alone(p) ==
    /\ pc' = [pc EXCEPT ![p] = pc'[p]]
    /\ todo' = [todo EXCEPT ![p] = todo'[p]]
    /\ failed' = [failed EXCEPT ![p] = failed'[p]]
    /\ pending' = [pending EXCEPT ![p] = pending'[p]]
    /\ temp' = [temp EXCEPT ![p] = temp'[p]]
    /\ outcome' = [outcome EXCEPT ![p] = outcome'[p]]

LEMMA AloneKeeps ==
  ASSUME TypeOK, SyncInv, NEW p \in Proc, Alone(p), Grows, ProcInv(p)'
  PROVE  \A q \in Proc : ProcInv(q)'
<1>1. ASSUME NEW q \in Proc, q # p PROVE ProcInv(q)'
  BY <1>1, OthersKeep DEF Alone, TypeOK, SyncInv
<1> QED BY <1>1

LEMMA LooksKeeps ==
  ASSUME TypeOK, SyncInv, NEW p \in Proc, Alone(p), ProcInv(p)',
         UNCHANGED <<envVars, shim, cached>>
  PROVE  SyncInv'
<1>1. Grows
  BY DEF Grows
<1>2. \A q \in Proc : ProcInv(q)'
  BY <1>1, AloneKeeps
<1>3. ShimsUsable'
  BY DEF SyncInv, ShimsUsable, envVars
<1>4. CachedHaveShims'
  BY DEF SyncInv, CachedHaveShims, HasShims
<1> QED BY <1>2, <1>3, <1>4 DEF SyncInv

-----------------------------------------------------------------------------
(* One lemma for each group of steps.  *)

LEMMA KeepsStart ==
  ASSUME TypeOK, SyncInv, NEW p \in Proc,
         \/ ModeUnknown(p) \/ NoTools(p)
         \/ InitShimFolder(p) \/ InitShimFolderFails(p)
  PROVE  TypeOK' /\ SyncInv'
<1>1. ProcInv(p)
  BY DEF SyncInv
<1>2. CASE ModeUnknown(p) \/ NoTools(p) \/ InitShimFolderFails(p)
  <2>1. PICK result \in {"ok", "error"} :
          /\ End(p, "start", result)
          /\ result = "ok" => Listed(p) = {}
          /\ faulted' \in {faulted, faulted \cup {p}}
    BY <1>2 DEF ModeUnknown, NoTools, InitShimFolderFails, Fault
  <2>2. /\ pc[p] = "start" /\ pc' = [pc EXCEPT ![p] = "done"]
        /\ outcome' = [outcome EXCEPT ![p] = result]
        /\ UNCHANGED <<envVars, todo, failed, shimVars, cached>>
    BY <2>1 DEF End, Step
  <2>3. TypeOK'
    BY <2>1, <2>2 DEF TypeOK, envVars, shimVars, Labels
  <2>4. ProcInv(p)'
    BY <1>1, <2>1, <2>2
    DEF ProcInv, ShimPhase, FetchPhase, Complete, TypeOK, envVars, shimVars,
        WriteLabels, Listed
  <2>5. Alone(p)
    BY <2>2 DEF Alone, TypeOK, shimVars
  <2> QED BY <2>2, <2>3, <2>4, <2>5, LooksKeeps DEF shimVars
<1>3. CASE InitShimFolder(p)
  <2>1. /\ pc[p] = "start" /\ pc' = [pc EXCEPT ![p] = "shims"]
        /\ todo' = [todo EXCEPT ![p] = Listed(p)]
        /\ UNCHANGED <<envVars, failed, shimVars, cached, outcome, faulted>>
    BY <1>3 DEF InitShimFolder, Enter, Step
  <2>2. Listed(p) \subseteq Tools
    BY DEF Listed, TypeOK
  <2>3. TypeOK'
    BY <2>1, <2>2 DEF TypeOK, envVars, shimVars, Labels
  <2>4. ProcInv(p)'
    BY <1>1, <2>1
    DEF ProcInv, ShimPhase, FetchPhase, Complete, TypeOK, envVars, shimVars,
        WriteLabels, Listed, HasShims
  <2>5. Alone(p)
    BY <2>1 DEF Alone, TypeOK, shimVars
  <2> QED BY <2>1, <2>3, <2>4, <2>5, LooksKeeps DEF shimVars
<1> QED BY <1>2, <1>3

(* A tool that gets no shim, and one that is to get its shims.  *)
LEMMA KeepsTake ==
  ASSUME TypeOK, SyncInv, NEW p \in Proc, NEW t \in Tools,
         RefuseShim(p, t) \/ CreateShim(p, t)
  PROVE  TypeOK' /\ SyncInv'
<1>1. ProcInv(p)
  BY DEF SyncInv
<1>2. CASE RefuseShim(p, t)
  <2>1. /\ pc[p] = "shims" /\ todo' = [todo EXCEPT ![p] = todo[p] \ {t}]
        /\ failed' = [failed EXCEPT ![p] = TRUE]
        /\ UNCHANGED <<envVars, pc, shimVars, cached, outcome, faulted>>
    BY <1>2 DEF RefuseShim, Take, shimVars
  <2>2. TypeOK'
    BY <2>1 DEF TypeOK, envVars, shimVars
  <2>3. ProcInv(p)'
    BY <1>1, <2>1
    DEF ProcInv, ShimPhase, FetchPhase, Complete, TypeOK, envVars, shimVars,
        WriteLabels, Listed, HasShims
  <2>4. Alone(p)
    BY <2>1 DEF Alone, TypeOK, shimVars
  <2> QED BY <2>1, <2>2, <2>3, <2>4, LooksKeeps DEF shimVars
<1>3. CASE CreateShim(p, t)
  <2>1. /\ pc[p] = "shims" /\ pc' = [pc EXCEPT ![p] = "createShim"]
        /\ todo' = [todo EXCEPT ![p] = todo[p] \ {t}]
        /\ pending' = [pending EXCEPT ![p] = ShimsOf(t)]
        /\ t \in registered \ {DriverName} /\ ~failed[p]
        /\ UNCHANGED <<envVars, failed, temp, shim, cached, outcome, faulted>>
    BY <1>3 DEF CreateShim, Take, Step, Refused
  <2>2. TypeOK'
    <3>1. ShimsOf(t) \in UNION {{ShimsOf(u), <<<<u, "shell">>>>} : u \in Tools}
      OBVIOUS
    <3> QED BY <2>1, <3>1 DEF TypeOK, envVars, Labels
  <2>3. Writing(p, t)' /\ pending[p] = << >>
    BY <1>1, <2>1
    DEF Writing, ProcInv, ShimPhase, WriteLabels, TypeOK
  <2>4. \A u \in Tools : ~Writing(p, u)
    BY <2>3, ShimsFacts DEF Writing
  <2>5. \A u \in Listed(p) \ todo[p] : HasShims(u)
    <3>1. Listed(p) \subseteq Tools
      BY DEF Listed, TypeOK
    <3> QED BY <1>1, <2>1, <2>4, <3>1 DEF ProcInv, ShimPhase
  <2>6. /\ Listed(p)' = Listed(p) /\ registered' = registered /\ mode' = mode
        /\ \A u : HasShims(u)' <=> HasShims(u)
    BY <2>1 DEF envVars, Listed, HasShims
  <2>7. ShimPhase(p)'
    BY <2>1, <2>3, <2>5, <2>6 DEF ShimPhase, WriteLabels, TypeOK
  <2>8. FetchPhase(p)' /\ Complete(p)'
    BY <1>1, <2>1, <2>6 DEF ProcInv, FetchPhase, Complete, TypeOK
  <2>9. Alone(p)
    BY <2>1 DEF Alone, TypeOK
  <2> QED BY <2>1, <2>2, <2>7, <2>8, <2>9, LooksKeeps DEF ProcInv
<1> QED BY <1>2, <1>3

(* The temporary file up to its new name, which it gets as executable.  *)
LEMMA KeepsTemp ==
  ASSUME TypeOK, SyncInv, NEW p \in Proc,
         CreateTemp(p) \/ WriteShim(p) \/ ChmodShim(p)
  PROVE  TypeOK' /\ SyncInv'
<1>1. ProcInv(p)
  BY DEF SyncInv
<1>2. PICK to \in {"writeShim", "chmodShim", "renameShim"},
           state \in {"empty", "whole", "executable"} :
        /\ pc[p] \in WriteLabels /\ pc' = [pc EXCEPT ![p] = to]
        /\ temp' = [temp EXCEPT ![p] = state]
        /\ to = "renameShim" => state = "executable"
        /\ UNCHANGED <<envVars, todo, failed, pending, shim, cached, outcome,
                       faulted>>
  BY DEF CreateTemp, WriteShim, ChmodShim, TempStep, WriteStep, Step,
         WriteLabels
<1>3. TypeOK'
  BY <1>2 DEF TypeOK, envVars, Labels, FileStates
<1>4. /\ Listed(p)' = Listed(p) /\ registered' = registered /\ mode' = mode
      /\ \A u : HasShims(u)' <=> HasShims(u)
      /\ \A u : Writing(p, u)' <=> Writing(p, u)
  BY <1>2 DEF envVars, Listed, HasShims, Writing
<1>5. ShimPhase(p)'
  BY <1>1, <1>2, <1>4 DEF ProcInv, ShimPhase, WriteLabels, TypeOK
<1>6. FetchPhase(p)' /\ Complete(p)'
  BY <1>1, <1>2, <1>4 DEF ProcInv, FetchPhase, Complete, TypeOK
<1>7. Alone(p)
  BY <1>2 DEF Alone, TypeOK
<1> QED BY <1>2, <1>3, <1>5, <1>6, <1>7, LooksKeeps DEF ProcInv

LEMMA KeepsWriteFails ==
  ASSUME TypeOK, SyncInv, NEW p \in Proc, WriteShimFails(p)
  PROVE  TypeOK' /\ SyncInv'
<1>1. ProcInv(p)
  BY DEF SyncInv
<1>2. /\ pc[p] \in WriteLabels /\ pc' = [pc EXCEPT ![p] = "shims"]
      /\ temp' = [temp EXCEPT ![p] = "none"]
      /\ pending' = [pending EXCEPT ![p] = << >>]
      /\ failed' = [failed EXCEPT ![p] = TRUE]
      /\ faulted' = faulted \cup {p}
      /\ UNCHANGED <<envVars, todo, shim, cached, outcome>>
  BY DEF WriteShimFails, GiveUp, WriteStep, Step, Fault
<1>3. TypeOK'
  BY <1>2 DEF TypeOK, envVars, Labels, FileStates
<1>4. /\ Listed(p)' = Listed(p) /\ mode' = mode
      /\ \A u : HasShims(u)' <=> HasShims(u)
  BY <1>2 DEF envVars, Listed, HasShims
<1>5. ProcInv(p)'
  BY <1>1, <1>2, <1>4
  DEF ProcInv, ShimPhase, FetchPhase, Complete, WriteLabels, TypeOK
<1>6. Alone(p)
  BY <1>2 DEF Alone, TypeOK
<1> QED BY <1>2, <1>3, <1>5, <1>6, LooksKeeps

(* A shim gets its name: what it replaces was as good.  *)
LEMMA RenameAdvances ==
  ASSUME TypeOK, NEW p \in Proc, NEW t \in Tools, Writing(p, t),
         Head(pending[p]) \in Shims,
         shim' = [shim EXCEPT ![Head(pending[p])] = "executable"],
         pending'[p] = Tail(pending[p])
  PROVE  /\ Len(pending[p]) = 1 => HasShims(t)' /\ pending'[p] = << >>
         /\ Len(pending[p]) # 1 => Writing(p, t)'
<1>1. <<t, "shell">> \in Shims /\ <<t, "cmd">> \in Shims
  BY DEF Shims
<1>2. CASE Len(pending[p]) = 1
  <2>1. /\ Head(pending[p]) = <<t, "shell">> /\ Tail(pending[p]) = << >>
        /\ Windows => shim[<<t, "cmd">>] = "executable"
    BY <1>2, PendingFacts
  <2>2. /\ shim'[<<t, "shell">>] = "executable"
        /\ Windows => shim'[<<t, "cmd">>] = "executable"
    BY <1>1, <2>1 DEF TypeOK
  <2> QED BY <1>2, <2>1, <2>2, ShimsAre DEF HasShims
<1>3. CASE Len(pending[p]) # 1
  <2>1. /\ Windows /\ Head(pending[p]) = <<t, "cmd">>
        /\ Tail(pending[p]) = <<<<t, "shell">>>>
    BY <1>3, PendingFacts
  <2>2. shim'[<<t, "cmd">>] = "executable"
    BY <1>1, <2>1 DEF TypeOK
  <2> QED BY <1>3, <2>1, <2>2 DEF Writing
<1> QED BY <1>2, <1>3

LEMMA KeepsRename ==
  ASSUME TypeOK, SyncInv, NEW p \in Proc, RenameShim(p)
  PROVE  TypeOK' /\ SyncInv'
<1> DEFINE to == IF Len(pending[p]) = 1 THEN "shims" ELSE "createShim"
<1>1. ProcInv(p)
  BY DEF SyncInv
<1>2. /\ pc[p] = "renameShim" /\ temp[p] = "executable"
      /\ pc' = [pc EXCEPT ![p] = to]
      /\ temp' = [temp EXCEPT ![p] = "none"]
      /\ shim' = [shim EXCEPT ![Head(pending[p])] = "executable"]
      /\ pending' = [pending EXCEPT ![p] = Tail(pending[p])]
      /\ UNCHANGED <<envVars, todo, failed, cached, outcome, faulted>>
  BY <1>1 DEF RenameShim, WriteStep, Step, ProcInv, ShimPhase
<1>3. PICK t \in registered \ {DriverName} : Writing(p, t)
  BY <1>1, <1>2 DEF ProcInv, ShimPhase, WriteLabels
<1>4. /\ Head(pending[p]) \in {<<t, "cmd">>, <<t, "shell">>}
      /\ t \in Tools /\ Head(pending[p]) \in Shims
  <2>1. t \in Tools
    BY DEF TypeOK
  <2>2. Head(pending[p]) \in {<<t, "cmd">>, <<t, "shell">>}
    BY <1>3, <2>1, PendingFacts
  <2> QED BY <2>1, <2>2 DEF Shims
<1>5. pending'[p] = Tail(pending[p])
  BY <1>2 DEF TypeOK
<1>6. /\ Len(pending[p]) = 1 => pending'[p] = << >>
      /\ Len(pending[p]) # 1 => pending'[p] = <<<<t, "shell">>>>
  BY <1>3, <1>4, <1>5, PendingFacts
<1>7. to = "shims" \/ to = "createShim"
  OBVIOUS
<1>8. TypeOK'
  <2>1. Tail(pending[p]) \in {<< >>} \cup UNION {{ShimsOf(u), <<<<u, "shell">>>>} :
                                              u \in Tools}
    BY <1>4, <1>5, <1>6
  <2>2. shim' \in [Shims -> FileStates]
    BY <1>2 DEF TypeOK, FileStates
  <2> HIDE DEF to
  <2> QED BY <1>2, <1>7, <2>1, <2>2 DEF TypeOK, envVars, Labels, FileStates
<1>9. Grows
  BY <1>2, <1>4 DEF Grows, TypeOK
<1>10. /\ Listed(p)' = Listed(p) /\ Listed(p) \subseteq Tools /\ mode' = mode
       /\ registered' = registered
  BY <1>2 DEF envVars, Listed, TypeOK
<1>11. ShimPhase(p)'
  <2>1. ASSUME NEW u \in Tools, Writing(p, u)
        PROVE  IF to = "shims" THEN HasShims(u)' ELSE Writing(p, u)'
    BY <1>2, <1>4, <1>5, <2>1, RenameAdvances
  <2>2. \A u \in Tools : HasShims(u) => HasShims(u)'
    BY <1>9, HasShimsGrows
  <2>3. pc'[p] = to /\ todo'[p] = todo[p] /\ failed'[p] = failed[p]
    BY <1>2 DEF TypeOK
  <2>4. to = "createShim" => Writing(p, t)'
    BY <1>3, <1>4, <2>1
  <2>5. to = "shims" => pending'[p] = << >>
    BY <1>6
  <2>6. ~failed[p] =>
          \A u \in Listed(p) \ todo[p] : HasShims(u)' \/ Writing(p, u)'
    BY <1>1, <1>2, <1>10, <2>1, <2>2 DEF ProcInv, ShimPhase, WriteLabels
  <2> HIDE DEF to
  <2> QED BY <1>3, <1>7, <1>10, <2>3, <2>4, <2>5, <2>6
      DEF ShimPhase, WriteLabels
<1>12. FetchPhase(p)'
  BY <1>2 DEF FetchPhase, TypeOK
<1>13. Complete(p)'
  BY <1>1, <1>2, <1>9, <1>10, HasShimsGrows DEF ProcInv, Complete
<1>14. \A q \in Proc : ProcInv(q)'
  <2>1. Alone(p)
    BY <1>2 DEF Alone, TypeOK
  <2> QED BY <1>9, <1>11, <1>12, <1>13, <2>1, AloneKeeps DEF ProcInv
<1>15. ShimsUsable'
  BY <1>2, <1>3, <1>4, <1>10 DEF SyncInv, ShimsUsable, TypeOK
<1>16. CachedHaveShims'
  BY <1>2, <1>9, HasShimsGrows DEF SyncInv, CachedHaveShims, TypeOK
<1> QED BY <1>8, <1>14, <1>15, <1>16 DEF SyncInv

(* The end of the first phase, and the second one.  *)
LEMMA KeepsShimsDone ==
  ASSUME TypeOK, SyncInv, NEW p \in Proc, ShimsFailed(p) \/ ShimsCreated(p)
  PROVE  TypeOK' /\ SyncInv'
<1>1. ProcInv(p) /\ pc[p] = "shims" /\ todo[p] = {}
  BY DEF SyncInv, ShimsFailed, ShimsCreated, AllTried
<1>2. Listed(p) \subseteq Tools
  BY DEF Listed, TypeOK
<1>3. ~failed[p] => \A t \in Listed(p) : HasShims(t)
  <2>1. pending[p] = << >>
    BY <1>1 DEF ProcInv, ShimPhase, WriteLabels
  <2>2. \A t \in Tools : ~Writing(p, t)
    BY <2>1, ShimsFacts DEF Writing
  <2> QED BY <1>1, <1>2, <2>2 DEF ProcInv, ShimPhase
<1>4. CASE \E result \in {"ok", "error"} :
             /\ End(p, "shims", result) /\ UNCHANGED faulted
             /\ result = "ok" => ~failed[p] /\ mode[p] # "fetch"
  <2>1. PICK result \in {"ok", "error"} :
             /\ End(p, "shims", result) /\ UNCHANGED faulted
             /\ result = "ok" => ~failed[p] /\ mode[p] # "fetch"
    BY <1>4
  <2>2. /\ pc' = [pc EXCEPT ![p] = "done"]
        /\ outcome' = [outcome EXCEPT ![p] = result]
        /\ UNCHANGED <<envVars, todo, failed, shimVars, cached, faulted>>
    BY <2>1 DEF End, Step
  <2>3. TypeOK'
    BY <2>1, <2>2 DEF TypeOK, envVars, shimVars, Labels
  <2>4. /\ Listed(p)' = Listed(p) /\ mode' = mode
        /\ \A u : HasShims(u)' <=> HasShims(u)
    BY <2>2 DEF envVars, shimVars, Listed, HasShims
  <2>5. ProcInv(p)'
    BY <1>1, <1>3, <2>1, <2>2, <2>4
    DEF ProcInv, ShimPhase, FetchPhase, Complete, WriteLabels, TypeOK,
        shimVars
  <2>6. Alone(p)
    BY <2>2 DEF Alone, TypeOK, shimVars
  <2> QED BY <2>2, <2>3, <2>5, <2>6, LooksKeeps DEF shimVars
<1>5. CASE Enter(p, "shims", "fetches") /\ ~failed[p] /\ mode[p] = "fetch"
  <2>1. /\ pc' = [pc EXCEPT ![p] = "fetches"]
        /\ todo' = [todo EXCEPT ![p] = Listed(p)]
        /\ UNCHANGED <<envVars, failed, shimVars, cached, outcome, faulted>>
    BY <1>5 DEF Enter, Step
  <2>2. TypeOK'
    BY <1>2, <2>1 DEF TypeOK, envVars, shimVars, Labels
  <2>3. /\ Listed(p)' = Listed(p) /\ mode' = mode
        /\ \A u : HasShims(u)' <=> HasShims(u)
    BY <2>1 DEF envVars, shimVars, Listed, HasShims
  <2>4. ProcInv(p)'
    BY <1>1, <1>3, <1>5, <2>1, <2>3
    DEF ProcInv, ShimPhase, FetchPhase, Complete, WriteLabels, TypeOK,
        shimVars
  <2>5. Alone(p)
    BY <2>1 DEF Alone, TypeOK, shimVars
  <2> QED BY <2>1, <2>2, <2>4, <2>5, LooksKeeps DEF shimVars
<1> QED BY <1>4, <1>5 DEF ShimsFailed, ShimsCreated

LEMMA KeepsDownload ==
  ASSUME TypeOK, SyncInv, NEW p \in Proc, NEW t \in Tools, Download(p, t)
  PROVE  TypeOK' /\ SyncInv'
<1>1. ProcInv(p)
  BY DEF SyncInv
<1>2. /\ pc[p] = "fetches" /\ t \in todo[p]
      /\ todo' = [todo EXCEPT ![p] = todo[p] \ {t}]
      /\ cached' = cached \cup {t}
      /\ UNCHANGED <<envVars, pc, failed, shimVars, outcome, faulted>>
  BY DEF Download, Take, shimVars
<1>3. TypeOK'
  BY <1>2 DEF TypeOK, envVars, shimVars
<1>4. Grows
  BY <1>2 DEF Grows, shimVars
<1>5. /\ Listed(p)' = Listed(p) /\ mode' = mode /\ registered' = registered
      /\ \A u : HasShims(u)' <=> HasShims(u)
      /\ \A u : Writing(p, u)' <=> Writing(p, u)
  BY <1>2 DEF envVars, shimVars, Listed, HasShims, Writing
<1>6. ProcInv(p)'
  BY <1>1, <1>2, <1>5
  DEF ProcInv, ShimPhase, FetchPhase, Complete, WriteLabels, TypeOK, shimVars
<1>7. \A q \in Proc : ProcInv(q)'
  <2>1. Alone(p)
    BY <1>2 DEF Alone, TypeOK, shimVars
  <2> QED BY <1>4, <1>6, <2>1, AloneKeeps
<1>8. ShimsUsable'
  BY <1>2 DEF SyncInv, ShimsUsable, envVars, shimVars
<1>9. CachedHaveShims'
  <2>1. HasShims(t)
    BY <1>1, <1>2 DEF ProcInv, FetchPhase
  <2> QED BY <1>2, <1>5, <2>1 DEF SyncInv, CachedHaveShims
<1> QED BY <1>3, <1>7, <1>8, <1>9 DEF SyncInv

LEMMA KeepsFetchesEnd ==
  ASSUME TypeOK, SyncInv, NEW p \in Proc,
         \/ SyncDone(p)
         \/ \E t \in Tools : DownloadFails(p, t) \/ DownloadUnpinned(p, t)
  PROVE  TypeOK' /\ SyncInv'
<1>1. ProcInv(p)
  BY DEF SyncInv
<1>2. PICK result \in {"ok", "error", "exit128"} :
        /\ End(p, "fetches", result)
        /\ result = "ok" => todo[p] = {}
        /\ faulted' \in {faulted, faulted \cup {p}}
  BY DEF SyncDone, DownloadFails, DownloadUnpinned, Fault
<1>3. /\ pc[p] = "fetches" /\ pc' = [pc EXCEPT ![p] = "done"]
      /\ outcome' = [outcome EXCEPT ![p] = result]
      /\ UNCHANGED <<envVars, todo, failed, shimVars, cached>>
  BY <1>2 DEF End, Step
<1>4. TypeOK'
  BY <1>2, <1>3 DEF TypeOK, envVars, shimVars, Labels
<1>5. /\ Listed(p)' = Listed(p) /\ mode' = mode
      /\ \A u : HasShims(u)' <=> HasShims(u)
  BY <1>3 DEF envVars, shimVars, Listed, HasShims
<1>6. ProcInv(p)'
  BY <1>1, <1>2, <1>3, <1>5
  DEF ProcInv, ShimPhase, FetchPhase, Complete, WriteLabels, TypeOK, shimVars
<1>7. Alone(p)
  BY <1>3 DEF Alone, TypeOK, shimVars
<1> QED BY <1>3, <1>4, <1>6, <1>7, LooksKeeps DEF shimVars

-----------------------------------------------------------------------------
LEMMA SyncInvNext == TypeOK /\ SyncInv /\ [Next]_vars => TypeOK' /\ SyncInv'
<1> SUFFICES ASSUME TypeOK, SyncInv, [Next]_vars
             PROVE  TypeOK' /\ SyncInv'
  OBVIOUS
<1>1. CASE Ended \/ UNCHANGED vars
  <2>1. UNCHANGED <<envVars, pc, todo, failed, pending, temp, shim, cached,
                    outcome, faulted>>
    BY <1>1 DEF Ended, vars, shimVars
  <2>2. TypeOK'
    BY <2>1 DEF TypeOK, envVars
  <2>3. \A p \in Proc : ProcInv(p)'
    <3>1. Grows
      BY <2>1 DEF Grows
    <3> QED BY <2>1, <3>1, OthersKeep DEF SyncInv
  <2>4. ShimsUsable' /\ CachedHaveShims'
    BY <2>1 DEF SyncInv, ShimsUsable, CachedHaveShims, HasShims, envVars
  <2> QED BY <2>2, <2>3, <2>4 DEF SyncInv
<1>2. ASSUME NEW p \in Proc, ProcStep(p) PROVE TypeOK' /\ SyncInv'
  BY <1>2, KeepsStart, KeepsTake, KeepsTemp, KeepsRename, KeepsWriteFails,
     KeepsShimsDone, KeepsDownload, KeepsFetchesEnd
  DEF ProcStep, ToolStep
<1> QED BY <1>1, <1>2 DEF Next

LEMMA SyncInvariant == Spec => [](TypeOK /\ SyncInv)
<1> QED BY SyncInvInit, SyncInvNext, PTL DEF Spec

(* Every variable keeps its type, for any processes and tools.  *)
THEOREM TypeCorrect == Spec => []TypeOK
<1> QED BY SyncInvariant, PTL

(***************************************************************************)
(* When sync reports success, every tool of its list has all its shims     *)
(* and, in fetch mode, its binary, however many processes sync and         *)
(* whichever of their calls fail (sync, syncCreateShims, syncFetchTools).  *)
(***************************************************************************)
THEOREM SuccessMeansAll == Spec => []SuccessComplete
<1>1. SyncInv => SuccessComplete
  BY DEF SyncInv, ProcInv, Complete, SuccessComplete
<1> QED BY <1>1, SyncInvariant, PTL

(***************************************************************************)
(* Any shim that is there is complete and executable, and of a tool the    *)
(* environment knows that is not the driver, while any number of processes *)
(* replace it (syncWriteShim, syncCreateShims).                            *)
(***************************************************************************)
THEOREM ShimsAreUsable == Spec => []ShimsUsable
<1> QED BY SyncInvariant, PTL DEF SyncInv

(* A binary that sync has downloaded can be invoked by its shims (sync).  *)
THEOREM BinariesComeAfterShims == Spec => []CachedHaveShims
<1> QED BY SyncInvariant, PTL DEF SyncInv
=============================================================================
