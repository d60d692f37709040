------------------------------- MODULE Archive -------------------------------
(***************************************************************************)
(* extractFromArchive of internal/backend: what a fetched content yields   *)
(* when the tool is a member of an archive.                                *)
(*                                                                         *)
(* A content is [by, form, members]: whose it is, what it is, and the      *)
(* paths of its members in their order, "tool" being the one wanted.  The  *)
(* type of a member plays no part, as the code looks at none.  Of a        *)
(* content of n members some place in 0 .. 2n + 1 has arrived: member i    *)
(* has begun from 2i - 1 on and is complete from 2i on, and only the last  *)
(* place has the end, which in a ZIP is the directory.                     *)
(***************************************************************************)
EXTENDS FiniteSetsExt, Sequences

Everything(content) == 2 * Len(content.members) + 1

(* The members called "tool" of which anything is there.  *)
Matching(content, place) ==
    {i \in DOMAIN content.members :
        content.members[i] = "tool" /\ 2 * i - 1 <= place}

(* What is returned: member 0 is the content as it was fetched.  *)
Piece(content, i, intact) ==
    [by |-> content.by, member |-> i, intact |-> intact]

(* Of a path that it has twice an archive yields the first member.  *)
FirstMatch(content, place) ==
    {i \in Matching(content, place) : i = Min(Matching(content, place))}

(* A ZIP is found by its directory, at the end.  *)
ExtractZIP(content, place) ==
    {Piece(content, i, TRUE) :
        i \in {j \in FirstMatch(content, place) : place = Everything(content)}}

(* Mutant: what was read before the error is returned.  *)
ExtractTARPartly(content, place) ==
    {Piece(content, i, 2 * i <= place) : i \in FirstMatch(content, place)}

(* A TAR is read from its start, up to the end of the first match.  *)
ExtractTAR(content, place) ==
    {Piece(content, i, TRUE) :
        i \in {j \in FirstMatch(content, place) : 2 * j <= place}}

(***************************************************************************)
(* The name of the archive decides how it is read, and content of another  *)
(* form is an error, the empty set.  name is "" when there is no template  *)
(* for a path inside: the content is then the binary itself.               *)
(***************************************************************************)
extractFromArchive(name, content, place) ==
    CASE name = "" -> {Piece(content, 0, place = Everything(content))}
      [] name = ".zip" /\ content.form = ".zip" -> ExtractZIP(content, place)
      [] name \in {".tar", ".tar.gz", ".tar.xz"} /\ name = content.form ->
            ExtractTAR(content, place)
      [] OTHER -> {}
=============================================================================
