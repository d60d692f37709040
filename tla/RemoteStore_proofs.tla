-------------------------- MODULE RemoteStore_proofs --------------------------
(***************************************************************************)
(* Proofs about RemoteStore and Archive, for any number of calls, any      *)
(* objects and archives, and any number of requests that are sent again.   *)
(***************************************************************************)
EXTENDS RemoteStore, FiniteSetTheorems, WellFoundedInduction, TLAPS

-----------------------------------------------------------------------------
(* What extractFromArchive returns, and that it returns it.  *)

IsContent(content) == content.members \in Seq(STRING)

(* The members called "tool" of a content that is wholly there.  *)
Wanted(content) == {i \in DOMAIN content.members : content.members[i] = "tool"}

LEMMA MatchingFacts ==
  ASSUME NEW content, IsContent(content), NEW place
  PROVE  /\ Everything(content) \in Nat \ {0}
         /\ Matching(content, place) \subseteq Wanted(content)
         /\ Matching(content, Everything(content)) = Wanted(content)
         /\ IsFiniteSet(Matching(content, place))
         /\ Matching(content, place) \subseteq Nat \ {0}
<1>1. /\ Len(content.members) \in Nat
      /\ DOMAIN content.members = 1 .. Len(content.members)
  BY DEF IsContent
<1>2. IsFiniteSet(1 .. Len(content.members))
  BY <1>1, FS_Interval
<1>3. Matching(content, place) \subseteq 1 .. Len(content.members)
  BY <1>1 DEF Matching
<1>4. IsFiniteSet(Matching(content, place))
  BY <1>2, <1>3, FS_Subset
<1> QED BY <1>1, <1>3, <1>4 DEF Everything, Matching, Wanted

(* A set of natural numbers has a least element.  *)
LEMMA LeastExists ==
  ASSUME NEW S, S \subseteq Nat, S # {}
  PROVE  Min(S) \in S /\ \A y \in S : Min(S) <= y
<1> DEFINE R == {ss \in Nat \X Nat : ss[1] < ss[2]}
<1>1. R = OpToRel(<, Nat)
  BY Zenon DEF OpToRel
<1>2. IsWellFoundedOn(R, Nat)
  BY <1>1, NatLessThanWellFounded, Zenon
<1>3. \A x, y \in S : y < x => <<y, x>> \in R
  OBVIOUS
<1> HIDE DEF R
<1>4. PICK x \in S : \A y \in S : <<y, x>> \notin R
  BY <1>2, WFMin
<1>5. \A y \in S : ~(y < x)
  BY <1>3, <1>4
<1>6. \A y \in S : x <= y
  BY <1>5
<1> QED BY <1>4, <1>6 DEF Min

(* A set without two elements is finite and small.  *)
LEMMA AtMostOne ==
  ASSUME NEW S, \A x, y \in S : x = y
  PROVE  IsFiniteSet(S) /\ Cardinality(S) <= 1
<1>1. CASE S = {}
  BY <1>1, FS_EmptySet
<1>2. CASE \E x \in S : S = {x}
  <2>1. IsFiniteSet(S) /\ Cardinality(S) = 1
    BY <1>2, FS_Singleton
  <2> QED BY <2>1
<1> QED BY <1>1, <1>2

(* i is the first member called "tool".  *)
IsFirst(content, i) ==
    i \in Wanted(content) /\ \A j \in Wanted(content) : i <= j

(***************************************************************************)
(* What FirstMatch has is the first member of the whole content once that  *)
(* member is there, and a whole content that has the path has one.         *)
(***************************************************************************)
LEMMA FirstMatchFacts ==
  ASSUME NEW content, IsContent(content), NEW place \in Nat
  PROVE  /\ \A i, j \in FirstMatch(content, place) : i = j
         /\ \A i \in FirstMatch(content, place) :
               2 * i <= place => IsFirst(content, i)
         /\ place = Everything(content) =>
               /\ \A i \in FirstMatch(content, place) : 2 * i <= place
               /\ Wanted(content) # {} => FirstMatch(content, place) # {}
<1> DEFINE M == Matching(content, place)
<1>1. M \subseteq Wanted(content) /\ M \subseteq Nat
  BY MatchingFacts
<1>2. FirstMatch(content, place) = {i \in M : i = Min(M)}
  BY DEF FirstMatch, M
<1>3. Wanted(content) \subseteq 1 .. Len(content.members)
      /\ Len(content.members) \in Nat
  BY DEF Wanted, IsContent
<1>4. M # {} => Min(M) \in M /\ \A j \in M : Min(M) <= j
  BY <1>1, LeastExists
<1>5. ASSUME NEW i \in M, 2 * i <= place, NEW j \in Wanted(content), ~(i <= j)
      PROVE  j \in M
  <2>1. i \in Nat /\ j \in Nat
    BY <1>1, <1>3
  <2>2. 2 * j - 1 <= place
    BY <1>5, <2>1
  <2> QED BY <1>5, <2>2 DEF Matching, Wanted, M
<1>6. place = Everything(content) => M = Wanted(content)
  BY MatchingFacts
<1> HIDE DEF M
<1>7. ASSUME NEW i \in FirstMatch(content, place), 2 * i <= place
      PROVE  IsFirst(content, i)
  <2>1. i \in M /\ \A j \in M : i <= j
    BY <1>2, <1>4
  <2>2. \A j \in Wanted(content) : i <= j
    BY <1>5, <1>7, <2>1
  <2> QED BY <1>1, <2>1, <2>2 DEF IsFirst
<1>8. ASSUME place = Everything(content), NEW i \in Wanted(content)
      PROVE  2 * i <= place
  BY <1>3, <1>8 DEF Everything
<1> QED BY <1>1, <1>2, <1>4, <1>6, <1>7, <1>8

(* What is extracted of the first match, when it is there at all.  *)
LEMMA ExtractedFirst ==
  ASSUME NEW content, IsContent(content), NEW place \in Nat,
         NEW J \in SUBSET FirstMatch(content, place),
         \A i \in J : 2 * i <= place,
         NEW pieces, pieces = {Piece(content, i, TRUE) : i \in J}
  PROVE  /\ IsFiniteSet(pieces) /\ Cardinality(pieces) <= 1
         /\ pieces \subseteq [by : {content.by}, member : Nat, intact : BOOLEAN]
         /\ \A piece \in pieces : piece.intact /\ IsFirst(content, piece.member)
<1>1. \A i \in J : IsFirst(content, i)
  BY FirstMatchFacts
<1>2. \A x, y \in pieces : x = y
  <2>1. \A i, j \in J : i = j
    BY FirstMatchFacts
  <2> QED BY <2>1
<1>3. IsFiniteSet(pieces) /\ Cardinality(pieces) <= 1
  BY <1>2, AtMostOne
<1>4. ASSUME NEW piece \in pieces
      PROVE  /\ piece \in [by : {content.by}, member : Nat, intact : BOOLEAN]
             /\ piece.intact /\ IsFirst(content, piece.member)
  <2>1. PICK i \in J :
           piece = [by |-> content.by, member |-> i, intact |-> TRUE]
    BY DEF Piece
  <2>2. i \in Nat
    BY <1>1 DEF IsFirst, Wanted, IsContent
  <2> QED BY <1>1, <2>1, <2>2
<1> QED BY <1>3, <1>4

Formats == {".zip", ".tar", ".tar.gz", ".tar.xz"}

(***************************************************************************)
(* Whatever part of a content has come: at most one member is returned, it *)
(* is whole when there is a path inside, and the first one with this path; *)
(* and of a whole archive of the right form that has the path, it is.      *)
(***************************************************************************)
LEMMA Extraction ==
  ASSUME NEW content, IsContent(content), NEW n, NEW place \in Nat,
         NEW pieces, pieces = extractFromArchive(n, content, place)
  PROVE  /\ IsFiniteSet(pieces) /\ Cardinality(pieces) <= 1
         /\ pieces \subseteq [by : {content.by}, member : Nat, intact : BOOLEAN]
         /\ n # "" => \A piece \in pieces :
               piece.intact /\ IsFirst(content, piece.member)
         /\ n # "" /\ pieces = {} =>
               \/ Wanted(content) = {}
               \/ place # Everything(content)
               \/ content.form # n
               \/ n \notin Formats
<1> DEFINE First == FirstMatch(content, place)
<1>1. CASE n = ""
  <2>1. pieces = {Piece(content, 0, place = Everything(content))}
    BY <1>1 DEF extractFromArchive
  <2>2. pieces \subseteq [by : {content.by}, member : Nat, intact : BOOLEAN]
    BY <2>1 DEF Piece
  <2> QED BY <1>1, <2>1, <2>2, AtMostOne
<1>2. CASE n = ".zip" /\ content.form = ".zip"
  <2> DEFINE J == {i \in First : place = Everything(content)}
  <2>1. pieces = {Piece(content, i, TRUE) : i \in J}
    BY <1>2 DEF extractFromArchive, ExtractZIP
  <2>2. J \in SUBSET First /\ \A i \in J : 2 * i <= place
    BY FirstMatchFacts
  <2>3. place = Everything(content) /\ Wanted(content) # {} => J # {}
    BY FirstMatchFacts
  <2>4. J # {} => pieces # {}
    BY <2>1
  <2> HIDE DEF J
  <2> QED BY <2>1, <2>2, <2>3, <2>4, ExtractedFirst
<1>3. CASE n \in {".tar", ".tar.gz", ".tar.xz"} /\ n = content.form
  <2> DEFINE J == {i \in First : 2 * i <= place}
  <2>1. pieces = {Piece(content, i, TRUE) : i \in J}
    BY <1>3 DEF extractFromArchive, ExtractTAR
  <2>2. J \in SUBSET First /\ \A i \in J : 2 * i <= place
    OBVIOUS
  <2>3. place = Everything(content) /\ Wanted(content) # {} => J # {}
    BY FirstMatchFacts
  <2>4. J # {} => pieces # {}
    BY <2>1
  <2> HIDE DEF J
  <2> QED BY <2>1, <2>2, <2>3, <2>4, ExtractedFirst
<1>4. CASE /\ n # "" /\ ~(n = ".zip" /\ content.form = ".zip")
           /\ ~(n \in {".tar", ".tar.gz", ".tar.xz"} /\ n = content.form)
  <2>1. pieces = {}
    BY <1>4 DEF extractFromArchive
  <2> QED BY <1>4, <2>1, AtMostOne DEF Formats
<1> QED BY <1>1, <1>2, <1>3, <1>4

-----------------------------------------------------------------------------
(***************************************************************************)
(* Types, and what a fetch has read and made of it: the two are inductive  *)
(* together, as only a client that has a body can go on to read it.        *)
(***************************************************************************)
FetchInv ==
    \A c \in Client :
        /\ body[c] # None => pc[c] \in {"read", "fetched", "error"}
        /\ pc[c] \in {"read", "fetched"} => body[c] # None
        /\ pc[c] = "read" => body[c].place = 0
        /\ pc[c] = "fetched" =>
              got[c] = extractFromArchive(name, body[c].content, body[c].place)
        /\ pc[c] = "error" /\ body[c] # None =>
              \/ body[c].place = 0
              \/ got[c] =
                    extractFromArchive(name, body[c].content, body[c].place)

LEMMA ObjectsAreContents == \A o \in Objects : IsContent(o)
<1>1. ASSUME NEW c \in Client
      PROVE  IsContent(Binary(c))
  <2>1. Binary(c).members = << >>
    BY DEF Binary
  <2> QED BY <2>1 DEF IsContent
<1>2. \A u \in Uploads : IsContent(u)
  BY UploadsAssumption DEF IsContent
<1> QED BY <1>1, <1>2 DEF Objects

LEMMA TypeInit == Init => TypeOK /\ FetchInv
<1> SUFFICES ASSUME Init PROVE TypeOK /\ FetchInv
  OBVIOUS
<1>1. IsFiniteSet({}) /\ Cardinality({}) = 0
  BY FS_EmptySet
<1> QED
  BY <1>1, AttemptsAssumption
  DEF Init, TypeOK, FetchInv, Objects, Waiting, Ends

(* A client that only goes from one place to another.  *)
LEMMA TypeMoves ==
  ASSUME TypeOK, FetchInv, NEW c \in Client,
         NEW from \in {"idle"} \cup Waiting, NEW to \in Waiting \cup Ends,
         to \notin {"read", "fetched"}, from = "read" => to = "error",
         Moves(c, from, to)
  PROVE  TypeOK' /\ FetchInv'
<1>1. TypeOK'
  BY DEF TypeOK, Moves, Goes, Waiting, Ends
<1>2. FetchInv'
  BY DEF TypeOK, FetchInv, Moves, Goes, Waiting, Ends
<1> QED BY <1>1, <1>2

LEMMA TypeStore ==
  ASSUME TypeOK, FetchInv, NEW c \in Client,
         BeginStore(c) \/ Put(c) \/ PutAgain(c) \/ Land(c)
  PROVE  TypeOK' /\ FetchInv'
<1> USE DEF TypeOK, FetchInv, Goes, Waiting, Ends
<1>1. CASE BeginStore(c)
  BY <1>1 DEF BeginStore
<1>2. CASE Put(c) \/ PutAgain(c)
  <2>1. /\ left' \in [Client -> 0 .. Attempts]
        /\ flying' \in [Client -> 0 .. Attempts]
        /\ \A d \in Client : left'[d] + flying'[d] <= Attempts
    BY <1>2, AttemptsAssumption DEF Put, PutAgain, Send
  <2> QED BY <1>2, <2>1 DEF Put, PutAgain, Send
<1>3. CASE Land(c)
  <2>1. /\ flying' \in [Client -> 0 .. Attempts]
        /\ \A d \in Client : left'[d] + flying'[d] <= Attempts
    BY <1>3, AttemptsAssumption DEF Land
  <2> QED BY <1>3, <2>1 DEF Land, Objects
<1> QED BY <1>1, <1>2, <1>3

LEMMA TypeGet ==
  ASSUME TypeOK, FetchInv, NEW c \in Client, Get(c)
  PROVE  TypeOK' /\ FetchInv'
<1>1. object \in Objects /\ [content |-> object, place |-> 0] \in Bodies
  BY DEF Get, TypeOK, Bodies
<1>2. [content |-> object, place |-> 0] # None
  BY <1>1, NoneAssumption
<1> QED BY <1>1, <1>2 DEF Get, TypeOK, FetchInv, Goes, Waiting, Ends

(* The body as far as it came, and what extractFromArchive makes of it.  *)
LEMMA TypeReadBody ==
  ASSUME TypeOK, FetchInv, NEW c \in Client, pc[c] = "read",
         NEW place \in 0 .. Everything(body[c].content), ReadBody(c, place)
  PROVE  TypeOK' /\ FetchInv'
<1> DEFINE content == body[c].content
           pieces == extractFromArchive(name, content, place)
<1>1. body[c] \in Bodies /\ content \in Objects /\ IsContent(content)
  BY ObjectsAreContents DEF TypeOK, FetchInv, Bodies
<1>2. place \in Nat
  BY <1>1, MatchingFacts
<1>3. /\ IsFiniteSet(pieces) /\ Cardinality(pieces) <= 1
      /\ pieces \subseteq [by : {content.by}, member : Nat, intact : BOOLEAN]
  BY <1>1, <1>2, Extraction
<1>4. pieces \in SUBSET Pieces
  BY <1>1, <1>3 DEF Pieces
<1>5. /\ body' = [body EXCEPT ![c] = [content |-> content, place |-> place]]
      /\ [content |-> content, place |-> place] \in Bodies
      /\ [content |-> content, place |-> place] # None
  <2>1. [body[c] EXCEPT !.place = place]
           = [content |-> content, place |-> place]
    BY <1>1 DEF Bodies
  <2>2. body' = [body EXCEPT ![c] = [body[c] EXCEPT !.place = place]]
    BY DEF ReadBody
  <2>3. [content |-> content, place |-> place] \in Bodies
    BY <1>1, <1>2 DEF Bodies
  <2> QED BY <2>1, <2>2, <2>3, NoneAssumption
<1>6. /\ got' = [got EXCEPT ![c] = pieces]
      /\ pc' = [pc EXCEPT ![c] = IF pieces = {} THEN "error" ELSE "fetched"]
      /\ UNCHANGED <<kind, name, object, left, flying, landed, existed>>
  BY DEF ReadBody, Goes
<1> HIDE DEF pieces
<1>7. TypeOK'
  BY <1>3, <1>4, <1>5, <1>6 DEF TypeOK, Waiting, Ends
<1>8. FetchInv'
  BY <1>5, <1>6 DEF FetchInv, TypeOK, pieces
<1> QED BY <1>7, <1>8

LEMMA TypeNext == TypeOK /\ FetchInv /\ [Next]_vars => TypeOK' /\ FetchInv'
<1> SUFFICES ASSUME TypeOK, FetchInv, [Next]_vars
             PROVE  TypeOK' /\ FetchInv'
  OBVIOUS
<1>1. CASE UNCHANGED vars
  BY <1>1 DEF vars, callVars, TypeOK, FetchInv
<1>2. ASSUME NEW c \in Client,
             \/ StoreUnsupported(c) \/ CheckAbsent(c) \/ CheckPresent(c)
             \/ Stored(c) \/ BeginFetch(c) \/ GetMissing(c) \/ Fails(c)
      PROVE  TypeOK' /\ FetchInv'
  BY <1>2, TypeMoves
  DEF StoreUnsupported, CheckAbsent, CheckPresent, Stored, BeginFetch,
      GetMissing, Fails, Waiting, Ends
<1>3. ASSUME NEW c \in Client, pc[c] = "read",
             NEW place \in 0 .. Everything(body[c].content),
             ReadBody(c, place)
      PROVE  TypeOK' /\ FetchInv'
  BY <1>3, TypeReadBody
<1> QED BY <1>1, <1>2, <1>3, TypeStore, TypeGet DEF Next

LEMMA FetchInvariant == Spec => [](TypeOK /\ FetchInv)
<1> QED BY TypeInit, TypeNext, PTL DEF Spec

(***************************************************************************)
(* Every variable keeps its type, for any archives, calls and requests     *)
(* (Fetch and Store of GCS, S3 and HTTPS).                                 *)
(***************************************************************************)
THEOREM TypeCorrect == Spec => []TypeOK
<1> QED BY FetchInvariant, PTL

LEMMA FetchInvImplies == TypeOK /\ FetchInv => ExtractedRight
<1> SUFFICES ASSUME TypeOK, FetchInv, NEW c \in Client,
                    pc[c] \in {"fetched", "error"}, body[c] # None, name # ""
             PROVE  LET content == body[c].content
                    IN  /\ \A piece \in got[c] :
                              /\ piece.intact /\ piece.by = content.by
                              /\ IsFirst(content, piece.member)
                        /\ pc[c] = "error" =>
                              \/ Wanted(content) = {}
                              \/ body[c].place # Everything(content)
                              \/ content.form # name
                              \/ name \notin Formats
  BY DEF ExtractedRight, IsFirst, Wanted, Formats
<1> DEFINE content == body[c].content
           pieces == extractFromArchive(name, content, body[c].place)
<1>1. IsContent(content) /\ body[c].place \in Nat
  BY ObjectsAreContents DEF TypeOK, Bodies
<1>2. pc[c] = "error" => got[c] = {}
  BY DEF TypeOK
<1>3. pc[c] = "error" /\ body[c].place = 0
         => body[c].place # Everything(content)
  BY <1>1, MatchingFacts
<1>4. \/ got[c] = pieces
      \/ pc[c] = "error" /\ body[c].place = 0
  BY DEF FetchInv
<1>5. pieces = extractFromArchive(name, content, body[c].place)
  OBVIOUS
<1> HIDE DEF content, pieces
<1>6. PICK place \in Nat : place = body[c].place
  BY <1>1
<1>7. pieces = extractFromArchive(name, content, place)
  BY <1>5, <1>6
<1>8. /\ pieces \subseteq [by : {content.by}, member : Nat, intact : BOOLEAN]
      /\ \A piece \in pieces : piece.intact /\ IsFirst(content, piece.member)
      /\ pieces = {} => \/ Wanted(content) = {}
                        \/ place # Everything(content)
                        \/ content.form # name
                        \/ name \notin Formats
  BY <1>1, <1>7, Extraction DEF IsFirst
<1>9. \A piece \in pieces : piece.by = content.by
  BY <1>8
<1> QED BY <1>2, <1>3, <1>4, <1>6, <1>8, <1>9 DEF content

(***************************************************************************)
(* Whatever archive is fetched, and wherever its transfer was cut: what is *)
(* returned is the first member with the path, whole, and a whole archive  *)
(* with the path yields it (Fetch, extractFromArchive).                    *)
(***************************************************************************)
THEOREM ArchivesYieldWhatWasPacked == Spec => []ExtractedRight
<1> QED BY FetchInvariant, FetchInvImplies, PTL

-----------------------------------------------------------------------------
(***************************************************************************)
(* What a store knows.  Only a client that has found no object sends a     *)
(* request, and one that began when there was an object finds it.          *)
(***************************************************************************)
StoreInv ==
    \A c \in Client :
        /\ pc[c] = "idle" => flying[c] = 0 /\ ~existed[c]
        /\ existed[c] => /\ object # None /\ flying[c] = 0
                         /\ pc[c] \in {"check", "refused", "error"}
        /\ landed[c] => object # None
        /\ pc[c] = "stored" => landed[c]

LEMMA StoreInvInit == Init => StoreInv
  BY DEF Init, StoreInv

LEMMA StoreInvNext == TypeOK /\ StoreInv /\ [Next]_vars => StoreInv'
<1> SUFFICES ASSUME TypeOK, StoreInv, [Next]_vars PROVE StoreInv'
  OBVIOUS
<1> USE DEF TypeOK, StoreInv, Goes
<1>1. CASE UNCHANGED vars
  BY <1>1 DEF vars, callVars
<1>2. ASSUME NEW c \in Client, BeginStore(c)
      PROVE  StoreInv'
  BY <1>2 DEF BeginStore
<1>3. ASSUME NEW c \in Client,
             \/ StoreUnsupported(c) \/ CheckAbsent(c) \/ CheckPresent(c)
             \/ Stored(c) \/ BeginFetch(c) \/ GetMissing(c) \/ Fails(c)
      PROVE  StoreInv'
  BY <1>3
  DEF StoreUnsupported, CheckAbsent, CheckPresent, Stored, BeginFetch,
      GetMissing, Fails, Waiting, Moves
<1>4. ASSUME NEW c \in Client, Put(c) \/ PutAgain(c)
      PROVE  StoreInv'
  BY <1>4 DEF Put, PutAgain, Send
<1>5. ASSUME NEW c \in Client, Land(c)
      PROVE  StoreInv'
  <2>1. Binary(c) # None
    BY NoneAssumption DEF Objects
  <2> QED BY <1>5, <2>1 DEF Land
<1>6. ASSUME NEW c \in Client, Get(c)
      PROVE  StoreInv'
  BY <1>6 DEF Get
<1>7. ASSUME NEW c \in Client, NEW place, ReadBody(c, place)
      PROVE  StoreInv'
  BY <1>7 DEF ReadBody
<1> QED BY <1>1, <1>2, <1>3, <1>4, <1>5, <1>6, <1>7 DEF Next

LEMMA StoreInvariant == Spec => [](TypeOK /\ StoreInv)
<1> QED BY TypeCorrect, StoreInvInit, StoreInvNext, PTL DEF Spec

(***************************************************************************)
(* For any number of stores, failed, late and repeated requests: one that  *)
(* is acknowledged has left an object (the result of GCS.Store, S3.Store). *)
(***************************************************************************)
THEOREM AcknowledgedIsThere == Spec => []AckedThere
<1>1. StoreInv => AckedThere
  BY DEF StoreInv, AckedThere
<1> QED BY <1>1, StoreInvariant, PTL

LEMMA LateStoresSendNothing ==
  ASSUME TypeOK, StoreInv, [Next]_vars, NEW c \in Client, existed[c]
  PROVE  object' # Binary(c) \/ object = Binary(c)
<1>1. flying[c] = 0
  BY DEF StoreInv
<1>2. ASSUME NEW d \in Client, Land(d)
      PROVE  object' # Binary(c)
  BY <1>1, <1>2 DEF Land, Binary
<1>3. UNCHANGED object \/ \E d \in Client : Land(d)
  BY DEF Next, vars, BeginStore, StoreUnsupported, CheckAbsent, CheckPresent,
         Put, PutAgain, Send, Stored, BeginFetch, Get, GetMissing, ReadBody,
         Fails, Moves
<1> QED BY <1>2, <1>3

(***************************************************************************)
(* A store that began when there was an object never replaces it, with any *)
(* number of others and of repeated requests, however late they take       *)
(* effect (Store of GCS and S3: check, then put).                          *)
(***************************************************************************)
THEOREM OnlyOverlappingStoresReplace == Spec => NoLateReplace
<1>1. TypeOK /\ StoreInv /\ [Next]_vars
         => [\A c \in Client :
                existed[c] => object' # Binary(c) \/ object = Binary(c)]_vars
  BY LateStoresSendNothing
<1> QED BY <1>1, StoreInvariant, PTL DEF Spec, NoLateReplace
=============================================================================
