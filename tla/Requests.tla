----------------------------- MODULE Requests -----------------------------
(***************************************************************************)
(* The HTTP client of a device (havenkeys-sync-client) against the         *)
(* server's router: the requests each operation sends, the fallbacks to a  *)
(* server without OPAQUE, what is accepted of an answer, and the error an  *)
(* operation ends with.  Requests and answers get lost; a proxy in front   *)
(* of the server refuses or gives up.  Sizes are bytes.                    *)
(***************************************************************************)
EXTENDS Naturals, Sequences, FiniteSets

CONSTANTS Batches,      \* writes: [n items, overview bytes, details bytes]
          NoOp

ASSUME RequestsAssumption ==
    /\ Batches \subseteq [n : Nat, overview : Nat, details : Nat]
    /\ NoOp \notin Batches

\* limits.rs of the server; wire.rs, transport.rs and the core of the client.
MaxBlobBytes == 8 * 1024 * 1024
MaxBodyBytes == 16 * 1024 * 1024
MaxPageBytes == 12 * 1024 * 1024
MaxResponseBytes == 17 * 1024 * 1024
MaxHeaderBytes == 64 * 1024
MaxChanges == 500
MaxAttachmentBlobBytes == 5 * 1024 * 1024 + 4096
MaxEnvelopeBytes == 4096
RowJsonBytes == 256         \* JSON around a row, at most
RequestRowBytes == 90       \* JSON around a change, at least

Base64(n) == ((n + 2) \div 3) * 4

-----------------------------------------------------------------------------
PlainOps == {"health", "params", "logout", "header", "pull", "write", "fetch", "devices", "revoke",
             "put", "get", "pair", "details", "approve", "deny", "claim"}
Ops == PlainOps \cup {"activate", "login", "change", "delete"}

\* The requests of an operation, in order; a device that has seen OPAQUE
\* work proves its key by it.
ActivateLegs == <<"activate/register", "activate">>
LoginLegs == <<"pake/start", "pake/finish">>
LegacyLoginLegs == <<"login", "pake/register", "enroll">>
ChangeLegs(pake) == IF pake THEN <<"pake/reauth", "pake/register", "credentials">> ELSE <<"credentials legacy">>
DeleteLegs(pake) == IF pake THEN <<"pake/reauth", "erase">> ELSE <<"erase legacy">>
Legs(o, pake) ==
    CASE o = "activate" -> ActivateLegs
      [] o = "login" -> LoginLegs
      [] o = "change" -> ChangeLegs(pake)
      [] o = "delete" -> DeleteLegs(pake)
      [] OTHER -> <<o>>

PakeRoutes == {"activate/register", "pake/start", "pake/finish", "pake/register", "pake/reauth", "enroll"}

\* The requests that carry the auth key itself.
KeyRoutes == {"activate legacy", "login", "enroll", "credentials legacy", "erase legacy"}

\* The request of an operation that changes what the server keeps.
Effects == {"activate", "activate legacy", "pake/finish", "login", "enroll", "credentials", "credentials legacy",
            "erase", "erase legacy", "logout", "write", "revoke", "put", "pair", "approve", "deny", "claim"}

\* The requests answered by a status alone.
StatusOnly == {"enroll", "logout", "erase", "erase legacy", "revoke", "approve", "deny", "put"}

-----------------------------------------------------------------------------
\* ApiError::parts
Status == [unauthorized |-> 401, not_found |-> 404, conflict |-> 409, invalid_request |-> 400, too_large |-> 413,
           vault_full |-> 413, attachments_full |-> 413, rate_limited |-> 429, account_deleted |-> 410,
           account_frozen |-> 402, unavailable |-> 503, upgrade_required |-> 426, internal |-> 500]

\* The refusals a request can meet.  (Of each handler, by its checks.)
Anonymous == {"health", "params", "pair", "claim", "activate", "activate legacy", "activate/register", "login", "pake/start", "pake/finish"}
Limited == {"pair", "claim", "activate", "activate legacy", "activate/register", "login", "pake/start", "pake/finish",
            "credentials", "credentials legacy", "erase", "erase legacy", "pake/reauth", "enroll"}
Refusals(route) ==
    {"internal", "unavailable", "invalid_request"}
    \cup (IF route \in Anonymous THEN {} ELSE {"unauthorized", "account_deleted"})
    \cup (IF route \in Limited THEN {"rate_limited", "unauthorized"} ELSE {})
    \cup (IF route \in {"write", "credentials", "credentials legacy", "approve"} THEN {"conflict"} ELSE {})
    \cup (IF route \in {"write", "put"} THEN {"vault_full", "account_frozen", "too_large"} ELSE {})
    \cup (IF route = "put" THEN {"attachments_full"} ELSE {})
    \cup (IF route \in {"get", "revoke", "details", "approve", "deny", "claim"} THEN {"not_found"} ELSE {})
    \cup (IF route \in {"login", "credentials legacy", "erase legacy"} THEN {"upgrade_required"} ELSE {})
    \cup (IF route \in {"login", "pake/finish"} THEN {"account_deleted"} ELSE {})

\* Mutant of ErrorFor: what is not understood counts as refused.
AllRefused(status) ==
    IF status \in {401, 403} THEN "unauthorized"
    ELSE IF status = 404 THEN "not found"
    ELSE IF status = 426 THEN "upgrade required"
    ELSE IF status = 409 THEN "conflict"
    ELSE IF status = 413 THEN "too large"
    ELSE IF status = 429 THEN "rate_limited"
    ELSE "refused"

\* error_for: the status alone.
ErrorFor(status) ==
    IF status \in {401, 403} THEN "unauthorized"
    ELSE IF status = 404 THEN "not found"
    ELSE IF status = 426 THEN "upgrade required"
    ELSE IF status = 409 THEN "conflict"
    ELSE IF status = 413 THEN "too large"
    ELSE IF status = 429 THEN "rate_limited"
    ELSE IF status \in 400..499 THEN "refused"
    ELSE "unavailable"

\* error_from: some codes say more, but only with their own status.
ErrorFrom(status, code) ==
    IF code \in {"account_deleted", "account_frozen", "attachments_full", "vault_full"} /\ Status[code] = status
    THEN code ELSE ErrorFor(status)

-----------------------------------------------------------------------------
VARIABLES site,     \* the server: "old" without OPAQUE, "open" to legacy sign-in, "closed" to it
          confirmed,\* OPAQUE has worked on this device
          op,       \* the operation under way
          reply,    \* the answer on its way
          did,      \* what the server did for the operation
          keyShown, \* why the auth key was sent in it
          stored,   \* the write the vault holds
          heard     \* how the last operation ended

requestVars == <<site, confirmed, op, reply, did, keyShown, stored, heard>>

NoReply == [status |-> 0, code |-> "", len |-> 0, bytes |-> 0]
Refusal(status, code) == [status |-> status, code |-> code, len |-> 0, bytes |-> 100]
Fine(len, bytes) == [status |-> 200, code |-> "", len |-> len, bytes |-> bytes]

RequestInit ==
    /\ site \in {"old", "open", "closed"} /\ confirmed \in BOOLEAN /\ (confirmed => site # "old")
    /\ op = NoOp /\ reply = NoReply /\ did = {} /\ keyShown = "no" /\ stored = NoOp /\ heard = NoOp

\* What a client checks before it sends: the size of a batch and of its blobs.
Sendable(o, batch) ==
    o = "write" => /\ batch.n \in 1..MaxChanges
                   /\ batch.overview <= MaxBlobBytes /\ batch.details <= MaxBlobBytes

Begin(o, batch) ==
    /\ op = NoOp /\ heard = NoOp /\ (o = "write" => Sendable(o, batch))
    /\ op' = [of |-> o, legs |-> Legs(o, confirmed), first |-> "none", batch |-> batch]
    /\ keyShown' = IF Head(Legs(o, confirmed)) \in KeyRoutes THEN "asked" ELSE "no"
    /\ UNCHANGED <<site, confirmed, reply, did, stored, heard>>

Waiting == op # NoOp /\ reply = NoReply
Route == Head(op.legs)

-----------------------------------------------------------------------------
\* The answers of the server.  A batch's size is that of its body.
BodyBytes(b) == b.n * (Base64(b.overview) + Base64(b.details) + RequestRowBytes)
PageBytes(b) == b.n * (Base64(b.overview) + Base64(b.details) + RowJsonBytes)

\* The place of a pairing's computer: the country alone, or "City, CC" with a
\* city of at most 64 characters.
LocationChars == {2} \cup {city + 4 : city \in {1, 60, 61, 64}}

\* The lengths that the client checks in an answer to a request it can get
\* from this server.
Lens(route) ==
    CASE route \in {"pake/start", "pake/reauth"} -> {43}            \* put_pending: 32 bytes
      [] route \in {"pake/finish", "login", "claim"} -> {43}        \* a token: 32 bytes
      [] route = "header" -> {1, MaxHeaderBytes}
      [] route = "details" -> {0, 64} \cup LocationChars
      [] route = "get" -> {MaxAttachmentBlobBytes}
      [] route \in {"pull", "fetch"} -> {0} \cup (IF stored = NoOp THEN {} ELSE {stored.n})
      [] OTHER -> {0}

\* page_len: a page holds its first revision whole; a fetch stops before it
\* passes the limit, after one row at least.
AnswerBytes(route, len) ==
    IF route \in {"pull", "fetch"} /\ len > 0
      THEN LET row == PageBytes([stored EXCEPT !.n = 1]) IN
           IF route = "pull" \/ PageBytes(stored) <= MaxPageBytes THEN PageBytes(stored)
           ELSE IF row > MaxPageBytes THEN row ELSE MaxPageBytes
    ELSE IF route \in {"get", "header"} THEN Base64(len) + RowJsonBytes
    ELSE IF route = "claim" THEN Base64(MaxEnvelopeBytes) + RowJsonBytes
    ELSE RowJsonBytes

NoRoute == (site = "old" /\ Route \in PakeRoutes)

\* The server refuses: a route it does not have, a body above the limit, or
\* one of the handler's checks.
Refuse ==
    /\ Waiting
    /\ \/ NoRoute /\ reply' = Refusal(404, "")
       \/ ~NoRoute /\ \E e \in Refusals(Route) : reply' = Refusal(Status[e], e)
    /\ UNCHANGED <<site, confirmed, op, did, keyShown, stored, heard>>

CanTake == ~NoRoute /\ (Route \in {"login", "credentials legacy", "erase legacy"} => site # "closed") /\ (Route = "write" => BodyBytes(op.batch) <= MaxBodyBytes)

\* The server does what it is asked; the answer goes out or is lost.
ServeRequest ==
    /\ Waiting /\ CanTake
    /\ did' = did \cup ({Route} \cap Effects)
    /\ stored' = IF Route = "write" THEN op.batch ELSE stored
    /\ \/ \E len \in Lens(Route) : reply' = Fine(len, AnswerBytes(Route, len))
       \/ reply' \in {Refusal(0, "lost"), Refusal(502, ""), Refusal(504, "")}
    /\ UNCHANGED <<site, confirmed, op, keyShown, heard>>

\* A request that does not reach the server: lost, or stopped by a proxy.
Stopped ==
    /\ Waiting /\ reply' \in {Refusal(0, "lost")} \cup {Refusal(s, "") : s \in {403, 408, 413, 429, 502, 503}}
    /\ UNCHANGED <<site, confirmed, op, did, keyShown, stored, heard>>

-----------------------------------------------------------------------------
\* decode_blob
BlobFits(n) == Base64(n) <= (MaxBlobBytes \div 3) * 4 + 4 /\ n <= MaxBlobBytes

\* What the client takes of an answer with the right status.
IdOK(len) == len \in 1..64
TokenOK(len) == len \in 1..128
HeaderOK(len) == len \in 1..MaxHeaderBytes
DetailsOK(len) == len <= 64
LongPlace(route, r) == route = "details" /\ ~DetailsOK(r.len)
RowsOK(len) == len <= MaxChanges
BlobsOK(len) == len > 0 => BlobFits(stored.overview) /\ BlobFits(stored.details)

Accepts(route, r) ==
    IF r.bytes > MaxResponseBytes THEN "too_large"
    ELSE IF route \in {"pake/start", "pake/reauth"} THEN (IF IdOK(r.len) THEN "ok" ELSE "protocol")
    ELSE IF route \in {"pake/finish", "login", "claim"} THEN (IF TokenOK(r.len) THEN "ok" ELSE "protocol")
    ELSE IF route = "header" THEN (IF HeaderOK(r.len) THEN "ok" ELSE "protocol")
    ELSE IF route = "details" THEN (IF DetailsOK(r.len) THEN "ok" ELSE "protocol")
    ELSE IF route \in {"pull", "fetch"} THEN (IF ~RowsOK(r.len) THEN "protocol" ELSE IF BlobsOK(r.len) THEN "ok" ELSE "too_large")
    ELSE IF route = "get" THEN (IF BlobFits(r.len) THEN "ok" ELSE "too_large")
    ELSE "ok"

\* The outcome of one request.
Outcome(route, r) ==
    IF r.code = "lost" THEN "unavailable"
    ELSE IF route = "health" THEN (IF r.status = 200 THEN "ok" ELSE "unavailable")
    ELSE IF route = "logout" /\ r.status = 401 THEN "ok"
    ELSE IF route = "put" /\ r.status = 404 THEN "unsupported"
    ELSE IF route = "write" /\ r.status = 409 THEN (IF r.code = "conflict" THEN "conflict" ELSE "protocol")
    ELSE IF r.status = 200 THEN (IF route \in StatusOnly THEN "ok" ELSE Accepts(route, r))
    ELSE ErrorFrom(r.status, r.code)

\* No operation or outcome is NoOp.
Routes == PlainOps \cup PakeRoutes \cup KeyRoutes \cup Effects
Outcomes == {"ok", "unavailable", "unsupported", "conflict", "protocol", "unauthorized", "not found",
             "upgrade required", "too large", "too_large", "rate_limited", "refused", "account_deleted",
             "account_frozen", "attachments_full", "vault_full"}
Operation == [of : Ops, legs : Seq(Routes), first : Outcomes \cup {"none"}, batch : Batches \cup {NoOp}]
ASSUME NoOpAssumption == NoOp \notin Operation /\ NoOp \notin [of : Ops, how : Outcomes, honest : BOOLEAN, far : BOOLEAN]

\* Mutant of FallsBack: an outage also leads to the legacy sign-in.
FallsBackAnyway(route, e) ==
    \/ route \in {"pake/start", "pake/finish"} /\ ~confirmed /\ e # "ok"
    \/ route = "activate/register" /\ e = "not found"

\* may_fall_back, and the fallback of an activation.
FallsBack(route, e) ==
    \/ route \in {"pake/start", "pake/finish"} /\ ~confirmed /\ e \in {"unauthorized", "not found"}
    \/ route = "activate/register" /\ e = "not found"

Continue(legs, first, why) ==
    /\ op' = [op EXCEPT !.legs = legs, !.first = first]
    /\ keyShown' = IF Head(legs) \in KeyRoutes THEN why ELSE keyShown
    /\ UNCHANGED <<confirmed, did, heard>>

\* An operation ends; a device that signed in by OPAQUE, or enrolled, notes
\* it.
Finish(e) ==
    /\ heard' = [of |-> op.of, how |-> e, honest |-> reply.status = 200, far |-> LongPlace(Route, reply)]
    /\ op' = NoOp
    /\ confirmed' = (confirmed \/ (op.of = "login" /\ e = "ok" /\ Route \in {"pake/finish", "enroll"} /\ reply.status = 200))
    /\ UNCHANGED <<keyShown, did>>

\* The client reads an answer: the next request, a fallback, or the end.  An
\* enrolment that fails does not fail the sign-in.
Receive ==
    /\ op # NoOp /\ reply # NoReply /\ reply' = NoReply
    /\ LET e == Outcome(Route, reply) IN
       \/ /\ FallsBack(Route, e)
          /\ Continue(IF op.of = "login" THEN LegacyLoginLegs ELSE <<"activate legacy">>, e, e)
       \/ /\ ~FallsBack(Route, e) /\ e = "ok" /\ Len(op.legs) > 1 /\ Continue(Tail(op.legs), op.first, "enrols")
       \/ /\ ~FallsBack(Route, e) /\ (e # "ok" \/ Len(op.legs) = 1)
          /\ Finish(IF op.of = "login" /\ Route \in {"pake/register", "enroll"} THEN "ok"
                    ELSE IF Route = "login" /\ e = "upgrade required" THEN op.first ELSE e)
    /\ UNCHANGED <<site, stored>>

\* The caller takes the outcome.
Taken ==
    /\ heard # NoOp /\ heard' = NoOp /\ did' = {} /\ keyShown' = "no"
    /\ UNCHANGED <<site, confirmed, op, reply, stored>>

RequestNext ==
    \/ \E o \in Ops \ {"write"} : Begin(o, NoOp)
    \/ \E b \in Batches : Begin("write", b)
    \/ Refuse \/ ServeRequest \/ Stopped \/ Receive \/ Taken

RequestSpec == RequestInit /\ [][RequestNext]_requestVars

-----------------------------------------------------------------------------
\* The operation and its effects have their types.
RequestTypeOK ==
    /\ site \in {"old", "open", "closed"} /\ confirmed \in BOOLEAN
    /\ op # NoOp => op.of \in Ops /\ op.legs # <<>>
    /\ did \subseteq Effects

\* An operation that is reported as done was done by the server, and one
\* reported as refused was not: only an outage, or an answer that makes no
\* sense, leaves it open.
OutcomesAreTrue ==
    heard # NoOp =>
        /\ heard.how = "ok" /\ heard.of \in Effects \cup {"activate", "login", "change", "delete"} =>
              did # {} \/ heard.of = "logout"
        /\ heard.how \notin {"ok", "unavailable", "protocol", "too_large"} => did = {}

\* A device on which OPAQUE has worked never sends its auth key again; on
\* another one no outage makes it send the key, only a server that refuses
\* or does not know OPAQUE.
KeyIsNotShown ==
    [][keyShown' \notin {"no", keyShown} =>
          ~confirmed /\ keyShown' \in {"asked", "unauthorized", "not found", "enrols"}]_requestVars

\* Whatever this server took from a client and answers, a client reads.  One
\* answer is excepted: the details of a pairing asked for from a city of more
\* than 60 characters, which the server labels and the client refuses
\* (locate.rs label, client.rs pairing_details).
AnswersAreRead ==
    heard # NoOp /\ heard.honest /\ ~heard.far => heard.how \notin {"protocol", "too_large"}

\* What a caller is told of a request is what became of it, and answers that
\* the server may give are answers the client takes, a place with too long a
\* name excepted (sync-client client.rs).
RequestsAreTrue == OutcomesAreTrue /\ AnswersAreRead
=============================================================================
