----------------------------- MODULE BinaryCache -----------------------------
(***************************************************************************)
(* What the local cache promises for one binary to the processes that ask  *)
(* for it, without locks, temporary files or storages: the binary appears  *)
(* in one step and stays, and a client is given its path only once it is   *)
(* there.  A client is answered once; one that is killed never is.         *)
(* ToolFetch implements this specification.                                *)
(***************************************************************************)

CONSTANT Client     \* the processes that ask for the binary

VARIABLES
    file,           \* what a reader of the final path finds
    answer          \* answer[c]: what c has been told

cacheVars == <<file, answer>>

CacheTypeOK ==
    /\ file \in {"absent", "whole"}
    /\ answer \in [Client -> {"none", "path", "error"}]

CacheInit ==
    /\ file = "absent"
    /\ answer = [c \in Client |-> "none"]

(* The binary appears, complete; a later copy of it changes nothing.  *)
Publish ==
    /\ file' = "whole"
    /\ UNCHANGED answer

GivePath(c) ==
    /\ answer[c] = "none"
    /\ file = "whole"
    /\ answer' = [answer EXCEPT ![c] = "path"]
    /\ UNCHANGED file

GiveError(c) ==
    /\ answer[c] = "none"
    /\ answer' = [answer EXCEPT ![c] = "error"]
    /\ UNCHANGED file

CacheNext ==
    \/ Publish
    \/ \E c \in Client : GivePath(c) \/ GiveError(c)

Spec == CacheInit /\ [][CacheNext]_cacheVars
=============================================================================
