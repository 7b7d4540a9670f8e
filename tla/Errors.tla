-------------------------------- MODULE Errors --------------------------------
(***************************************************************************)
(* What a caller can tell of a failed call (client.go, notfound.go): the   *)
(* errors the methods return, the predicates that classify them, and the   *)
(* delay a Retry-After header asks for, with the width of a Go duration.   *)
(*                                                                         *)
(* An error is a record: kind says what errors.As and errors.Is find in    *)
(* it, "http" an *HTTPError, "absent" a not-found sentinel, "other"        *)
(* neither (a request that was not answered in time, a body that cannot be *)
(* read or decoded).                                                       *)
(***************************************************************************)
EXTENDS Integers

CONSTANTS
    Second,     \* time.Second, in units of a time.Duration
    Half        \* 2^63: an int, like a time.Duration, is in -Half..Half-1

ASSUME SecondAssumption == Second \in Nat \ {0}
ASSUME HalfAssumption   == Half \in Nat \ {0}

Duration == -Half..(Half - 1)

StatusOK                  == 200
StatusBadRequest          == 400
StatusUnauthorized        == 401
StatusForbidden           == 403
StatusNotFound            == 404
StatusConflict            == 409
StatusTooManyRequests     == 429
StatusInternalServerError == 500
StatusNotImplemented      == 501
StatusBadGateway          == 502
StatusServiceUnavailable  == 503
StatusGatewayTimeout      == 504

(***************************************************************************)
(* Retry-After.  A header is absent, a number, a date or neither; n is the *)
(* number, or how far in the future the date is.                           *)
(***************************************************************************)
Header(form, n) == [form |-> form, n |-> n]

NoHeader == Header("absent", 0)

Headers == [form : {"absent", "seconds", "date", "junk"}, n : Int]

\* The product of two Go integers: what does not fit wraps around.
Wrapped(x) == ((x + Half) % (2 * Half)) - Half

\* strconv.Atoi accepts what fits an int; a longer number is not a date either.
FitsInt(n) == n \in Duration

\* Mutation: a date is not held to what a Duration can express.
parseRetryAfterUnclamped(header) ==
    CASE header.form = "seconds" /\ FitsInt(header.n) /\ header.n > 0
            -> Wrapped(header.n * Second)
      [] header.form = "date" /\ header.n > 0 -> header.n
      [] OTHER -> 0

\* Mutation: the number is taken for a Duration as it is.
parseRetryAfterUnscaled(header) ==
    CASE header.form = "seconds" /\ FitsInt(header.n) /\ header.n > 0 -> header.n
      [] header.form = "date" /\ header.n > 0
            -> IF FitsInt(header.n) THEN header.n ELSE Half - 1
      [] OTHER -> 0

parseRetryAfter(header) ==
    CASE header.form = "seconds" /\ FitsInt(header.n) /\ header.n > 0
            -> Wrapped(header.n * Second)
      [] header.form = "date" /\ header.n > 0
            -> IF FitsInt(header.n) THEN header.n ELSE Half - 1
      [] OTHER -> 0

(***************************************************************************)
(* The errors.                                                             *)
(***************************************************************************)
NoError     == [kind |-> "none", status |-> StatusOK, retryAfter |-> 0]
OtherError  == [kind |-> "other", status |-> StatusOK, retryAfter |-> 0]
ErrNotFound == [kind |-> "absent", status |-> StatusOK, retryAfter |-> 0]

newHTTPError(status, header) ==
    [kind |-> "http", status |-> status, retryAfter |-> parseRetryAfter(header)]

\* Any error a call of this client returns.
CallErrors ==
    {NoError, OtherError, ErrNotFound}
        \union {newHTTPError(status, header) : status \in 300..599, header \in Headers}

(***************************************************************************)
(* The predicates.                                                         *)
(***************************************************************************)
hasStatusCode(err, status) == err.kind = "http" /\ err.status = status

IsNotFoundError(err) == hasStatusCode(err, StatusNotFound)

\* Mutation: a failure that says nothing is taken for absence.
IsNotFoundOrUnanswered(err) == err.kind \in {"absent", "other"} \/ IsNotFoundError(err)

IsNotFound(err) == err.kind = "absent" \/ IsNotFoundError(err)

IsConflict(err)      == hasStatusCode(err, StatusConflict)
IsAlreadyExists(err) == IsConflict(err)
IsUnauthorized(err)  == hasStatusCode(err, StatusUnauthorized)
IsForbidden(err)     == hasStatusCode(err, StatusForbidden)
IsRateLimited(err)   == hasStatusCode(err, StatusTooManyRequests)

\* Mutation: a status is missing from the list.
IsRetryableButBadGateway(err) ==
    \/ err.kind \in {"other", "absent"}
    \/ err.kind = "http" /\ err.status \in
          {StatusTooManyRequests, StatusInternalServerError,
           StatusServiceUnavailable, StatusGatewayTimeout}

IsRetryable(err) ==
    \/ err.kind \in {"other", "absent"}
    \/ err.kind = "http" /\ err.status \in
          {StatusTooManyRequests, StatusInternalServerError, StatusBadGateway,
           StatusServiceUnavailable, StatusGatewayTimeout}

\* Only a positive delay counts as one the server asked for.
RetryAfter(err) ==
    IF err.kind = "http" /\ err.retryAfter > 0
    THEN [delay |-> err.retryAfter, ok |-> TRUE]
    ELSE [delay |-> 0, ok |-> FALSE]
=============================================================================
