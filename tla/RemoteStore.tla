----------------------------- MODULE RemoteStore -----------------------------
(***************************************************************************)
(* The remote storages of internal/backend for one binary: GCS and S3,     *)
(* which fetch and store an object, and HTTPS, which only fetches.  Any    *)
(* number of clients call Fetch or Store at once.                          *)
(*                                                                         *)
(* Store asks whether the object exists and, if not, puts it, with nothing *)
(* to hold the two together.  A request may be lost, fail after it took    *)
(* effect, or take effect after its caller has given up; S3's client sends *)
(* a request again that was not answered.  Each object appears whole.      *)
(***************************************************************************)
EXTENDS Archive

CONSTANTS
    Client,     \* calls of Fetch or Store; a retry is another client
    None,       \* no object, no content
    Uploads,    \* what others may have put there beforehand
    Names,      \* the ends of the object's name, "" without an archive path
    Attempts    \* how often S3's client sends a request (bound)

(* The object that c stores.  *)
Binary(c) == [by |-> c, form |-> "binary", members |-> << >>]

Objects == Uploads \cup {Binary(c) : c \in Client}

(* What a client has read of an object, and up to which place.  *)
Bodies == [content : Objects, place : Nat]

ASSUME NoneAssumption == None \notin Objects \cup Bodies
ASSUME UploadsAssumption == \A u \in Uploads : u.members \in Seq(STRING)
ASSUME AttemptsAssumption == Attempts \in Nat \ {0}

VARIABLES
    kind,       \* the kind of storage
    name,       \* the end of the object's name
    object,     \* the object, or None
    pc,         \* pc[c]: what c waits for, or how its call ended
    left,       \* left[c]: how often its request may still be sent
    flying,     \* flying[c]: its requests that may still take effect
    landed,     \* landed[c]: has one of them taken effect?
    body,       \* body[c]: what c has read, or None
    got,        \* got[c]: what Fetch returned to c, nothing for an error
    existed     \* history: existed[c]: was the object there when c began?

callVars == <<pc, left, flying, landed, body, got, existed>>
vars == <<kind, name, object, callVars>>

Ends == {"stored", "refused", "error", "fetched"}
Waiting == {"check", "put", "answer", "get", "read"}

Pieces == [by : {o.by : o \in Objects}, member : Nat, intact : BOOLEAN]

TypeOK ==
    /\ kind \in {"gcs", "s3", "https"} /\ name \in Names
    /\ object \in Objects \cup {None}
    /\ pc \in [Client -> {"idle"} \cup Waiting \cup Ends]
    /\ left \in [Client -> 0 .. Attempts]
    /\ flying \in [Client -> 0 .. Attempts]
    /\ landed \in [Client -> BOOLEAN] /\ existed \in [Client -> BOOLEAN]
    /\ body \in [Client -> Bodies \cup {None}]
    /\ got \in [Client -> SUBSET Pieces]
    /\ \A c \in Client :
          /\ left[c] + flying[c] <= Attempts
          /\ Cardinality(got[c]) <= 1
          /\ pc[c] = "fetched" <=> got[c] # {}

Init ==
    /\ kind \in {"gcs", "s3", "https"} /\ name \in Names
    /\ object \in Uploads \cup {None}
    /\ pc = [c \in Client |-> "idle"]
    /\ left = [c \in Client |-> IF kind = "s3" THEN Attempts ELSE 1]
    /\ flying = [c \in Client |-> 0]
    /\ landed = [c \in Client |-> FALSE]
    /\ body = [c \in Client |-> None]
    /\ got = [c \in Client |-> {}]
    /\ existed = [c \in Client |-> FALSE]

-----------------------------------------------------------------------------
Goes(c, from, to) ==
    /\ pc[c] = from
    /\ pc' = [pc EXCEPT ![c] = to]
    /\ UNCHANGED <<kind, name>>

(* A step of c that changes nothing but where it is.  *)
Moves(c, from, to) ==
    /\ Goes(c, from, to)
    /\ UNCHANGED <<object, left, flying, landed, body, got, existed>>

BeginStore(c) ==
    /\ kind # "https"
    /\ Goes(c, "idle", "check")
    /\ existed' = [existed EXCEPT ![c] = object # None]
    /\ UNCHANGED <<object, left, flying, landed, body, got>>

(* HTTPS.Store is not supported.  *)
StoreUnsupported(c) == kind = "https" /\ Moves(c, "idle", "error")

(* Mutant: whatever error the check meets is taken for a missing object.  *)
CheckAnyError(c) == Moves(c, "check", "put")

(* Attrs, GetObjectAttributes: there is no object and it may be put ...  *)
CheckAbsent(c) == object = None /\ Moves(c, "check", "put")

(* ... or there is one.  *)
CheckPresent(c) == object # None /\ Moves(c, "check", "refused")

(* The request leaves, for the first time or again.  *)
Send(c, from) ==
    /\ left[c] > 0
    /\ Goes(c, from, "answer")
    /\ left' = [left EXCEPT ![c] = @ - 1]
    /\ flying' = [flying EXCEPT ![c] = @ + 1]
    /\ UNCHANGED <<object, landed, body, got, existed>>

(* PutObject, or Close of the writer that has been given the content.  *)
Put(c) == Send(c, "put")
PutAgain(c) == Send(c, "answer")

(* The service has the whole content of c and makes it the object.  *)
Land(c) ==
    /\ flying[c] > 0
    /\ object' = Binary(c)
    /\ flying' = [flying EXCEPT ![c] = @ - 1]
    /\ landed' = [landed EXCEPT ![c] = TRUE]
    /\ UNCHANGED <<kind, name, pc, left, body, got, existed>>

(* Mutant: the error of the deferred Close does not become the result.  *)
CloseUnchecked(c) == Moves(c, "answer", "stored")

Stored(c) == landed[c] /\ Moves(c, "answer", "stored")

-----------------------------------------------------------------------------
BeginFetch(c) == Moves(c, "idle", "get")

(* A reader, an output or a response with status 200 is returned ...  *)
Get(c) ==
    /\ object # None
    /\ Goes(c, "get", "read")
    /\ body' = [body EXCEPT ![c] = [content |-> object, place |-> 0]]
    /\ UNCHANGED <<object, left, flying, landed, got, existed>>

(* ... or an error, or another status.  *)
GetMissing(c) == object = None /\ Moves(c, "get", "error")

(* Mutant: the error of extractFromArchive is not returned.  *)
ReadBodyUnchecked(c, place) ==
    /\ place # Everything(body[c].content) => kind = "https"
    /\ Goes(c, "read", "fetched")
    /\ got' = [got EXCEPT ![c] =
                  extractFromArchive(name, body[c].content, place)]
    /\ body' = [body EXCEPT ![c].place = place]
    /\ UNCHANGED <<object, left, flying, landed, existed>>

(***************************************************************************)
(* ReadAll.  A body that ends too early is an error when its length was    *)
(* announced, which GCS and S3 do and a web server need not.  The binary,  *)
(* or the error, is then what extractFromArchive makes of it.              *)
(***************************************************************************)
ReadBody(c, place) ==
    LET content == body[c].content
        pieces == extractFromArchive(name, content, place)
    IN  /\ place # Everything(content) => kind = "https"
        /\ Goes(c, "read", IF pieces = {} THEN "error" ELSE "fetched")
        /\ got' = [got EXCEPT ![c] = pieces]
        /\ body' = [body EXCEPT ![c].place = place]
        /\ UNCHANGED <<object, left, flying, landed, existed>>

-----------------------------------------------------------------------------
(* Any request may fail, of which its effect knows nothing.  *)
Fails(c) == \E at \in Waiting : Moves(c, at, "error")

(* Mutant: only the check has a deadline.  *)
DeadlineOnCheck(c) == pc[c] = "check"

(* S3 has a deadline on all it does, GCS only on the check of Store.  *)
HasDeadline(c) == kind = "s3" \/ pc[c] = "check"

TimesOut(c) == HasDeadline(c) /\ Fails(c)

Next ==
    \E c \in Client :
        \/ BeginStore(c) \/ StoreUnsupported(c)
        \/ CheckAbsent(c) \/ CheckPresent(c)
        \/ Put(c) \/ PutAgain(c) \/ Land(c) \/ Stored(c)
        \/ BeginFetch(c) \/ Get(c) \/ GetMissing(c)
        \/ pc[c] = "read"
              /\ \E place \in 0 .. Everything(body[c].content) :
                    ReadBody(c, place)
        \/ Fails(c)

Spec == Init /\ [][Next]_vars

(* Deadlines pass, and what c does by itself is done; no service answers.  *)
Fairness == \A c \in Client : WF_vars(TimesOut(c)) /\ WF_vars(Put(c))

FairSpec == Spec /\ Fairness

-----------------------------------------------------------------------------
(* Properties.  *)

(***************************************************************************)
(* A store that begins once the object is there never replaces it, neither *)
(* at once nor by a request that is late or sent again: only stores that   *)
(* overlap may (Store of GCS and S3: check, then put).                     *)
(***************************************************************************)
NoLateReplace ==
    [][\A c \in Client :
          existed[c] => object' # Binary(c) \/ object = Binary(c)]_vars

(* A store that was acknowledged has left an object, whatever failed in    *)
(* other stores (the named result of GCS.Store and its deferred Close).    *)
AckedThere ==
    (\E c \in Client : pc[c] = "stored") => object # None

(***************************************************************************)
(* From an archive a Fetch returns the first member with the path asked    *)
(* for, as it was packed, even when the content was cut and nothing told   *)
(* so; and it does return that of a whole archive of the form that its     *)
(* name says, also when the path is there twice (Fetch,                    *)
(* extractFromArchive).                                                    *)
(***************************************************************************)
ExtractedRight ==
    \A c \in Client :
        pc[c] \in {"fetched", "error"} /\ body[c] # None /\ name # "" =>
            LET content == body[c].content
                wanted == {i \in DOMAIN content.members :
                              content.members[i] = "tool"}
            IN  /\ \A piece \in got[c] :
                      /\ piece.intact /\ piece.by = content.by
                      /\ piece.member \in wanted
                      /\ \A i \in wanted : piece.member <= i
                /\ pc[c] = "error" =>
                      \/ wanted = {}
                      \/ body[c].place # Everything(content)
                      \/ content.form # name
                      \/ name \notin {".zip", ".tar", ".tar.gz", ".tar.xz"}

(***************************************************************************)
(* Every call ends, though no service ever answers: except in a transfer   *)
(* from or to GCS or a web server, which has no deadline (NewReader and    *)
(* NewWriter get the background context, http.Get has none).               *)
(***************************************************************************)
CallsEnd ==
    \A c \in Client :
        pc[c] # "idle" ~> \/ pc[c] \in Ends
                          \/ kind # "s3" /\ pc[c] \in {"answer", "get", "read"}
=============================================================================
