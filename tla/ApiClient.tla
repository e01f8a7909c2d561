------------------------------ MODULE ApiClient ------------------------------
(***************************************************************************)
(* _request() of the exchange clients: bot/wallex_client.py (WallexClient) *)
(* and bot/exchange/generic.py (GenericRESTAdapter).  Every call of every  *)
(* thread goes through it: it waits for a slot of the rate limit, sends,   *)
(* and sends again when there is no usable answer.                         *)
(*                                                                         *)
(* Time is abstract: a request that waits for the gap to pass, or for the  *)
(* pause before a retry, is one that has not got its slot yet.  What a     *)
(* request says and does is left to the module that extends this one.      *)
(***************************************************************************)
EXTENDS Integers

CONSTANTS
    Threads,      \* the threads that call the exchange
    MaxRetries,   \* max_retries
    Clients       \* which of "wallex" and "generic" are considered

ASSUME ClientAssumption ==
    /\ MaxRetries \in Nat
    /\ Clients \subseteq {"wallex", "generic"} /\ Clients # {}

VARIABLES
    client,       \* the client in use
    req           \* the request each thread is in

clientVars == <<client, req>>

\* What comes of a request: a result, an error of the caller (4xx), an
\* overloaded exchange (429, 5xx), a body that is no JSON, or nothing.
Answers == {"result", "refused", "busy", "garbled", "nothing"}

NoRequest == [stage |-> "idle", attempt |-> 0, answer |-> "none"]

-----------------------------------------------------------------------------
\* WallexClient: TransportError and JSONDecodeError are caught and retried.
WallexRetries == {"busy", "garbled", "nothing"}

\* GenericRESTAdapter: a body that is no JSON is raised at once.
GenericRetries == {"busy", "nothing"}

Retried == IF client = "wallex" THEN WallexRetries ELSE GenericRetries

\* The caller's next request.
Ask(r) == [NoRequest EXCEPT !.stage = "queued"]

\* What the client makes of it: a result, a reason to retry, or an error.
Class(a) == CASE a = "result" -> "result" [] a \in Retried -> "useless" [] OTHER -> "error"

\* The request gets its slot, taken under the lock and waited for outside it,
\* and is sent; the answer to it, or its absence.
Answered(t, a) ==
    /\ req[t].stage = "queued"
    /\ req' = [req EXCEPT ![t].stage = "answered", ![t].answer = Class(a)]

RetryOf(r) == [Ask(r) EXCEPT !.attempt = r.attempt + 1]

\* An attempt without a usable answer is repeated while attempts are left.
MayRetry(t) == req[t].answer = "useless" /\ req[t].attempt < MaxRetries

Retry(t) ==
    /\ req[t].stage = "answered" /\ MayRetry(t)
    /\ req' = [req EXCEPT ![t] = RetryOf(@)]
    /\ UNCHANGED client

\* _request returns a result, or raises.
Returns(t) == req[t].stage = "answered" /\ ~MayRetry(t) /\ req[t].answer = "result"
Raises(t) == req[t].stage = "answered" /\ ~MayRetry(t) /\ req[t].answer # "result"

ClientInit ==
    /\ client \in Clients
    /\ req = [t \in Threads |-> NoRequest]

ClientTypeOK ==
    /\ client \in Clients
    /\ req \in [Threads -> [stage : {"idle", "queued", "answered"},
                            attempt : 0..MaxRetries,
                            answer : {"none", "result", "useless", "error"}]]
=============================================================================
