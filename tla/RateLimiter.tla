---------------------------- MODULE RateLimiter ----------------------------
(***************************************************************************)
(* The rate limiter of HttpWarframeMarketService                           *)
(* (internal/adapter/http_warframe_market_service.go): one token per       *)
(* Interval and a burst of one, shared by every worker that calls the      *)
(* market, which in the operator are the workers of the two controllers    *)
(* (cmd/main.go builds one service for both).                              *)
(*                                                                         *)
(* makeRequestToURL waits for the limiter and then sends its request. The  *)
(* limiter grants points in time; when the goroutine runs again and its    *)
(* request reaches the market is up to the scheduler, so the requests of   *)
(* several workers may bunch up although their grants never do.            *)
(***************************************************************************)
EXTENDS Integers, FiniteSets

CONSTANTS
    Workers,    \* the goroutines that call the market, one request at a time each
    Interval,   \* the time between two tokens
    MaxTime     \* bound on the clock

ASSUME LimiterAssumption ==
    /\ IsFiniteSet(Workers)
    /\ Interval \in Nat \ {0}
    /\ MaxTime \in Nat

VARIABLES
    time,       \* the clock
    next,       \* when the limiter has its next token
    pc,         \* per worker: "idle", "wait" for the limiter, "flight" of a request
    asked,      \* per worker: when it last asked the limiter
    grant,      \* per worker: the time the limiter granted it last
    log         \* the requests sent: by whom, when granted and when sent

vars == <<time, next, pc, asked, grant, log>>

Later(a, b) == IF a < b THEN b ELSE a

Init ==
    /\ time = 0
    /\ next = 0
    /\ pc = [w \in Workers |-> "idle"]
    /\ asked = [w \in Workers |-> 0]
    /\ grant = [w \in Workers |-> 0]
    /\ log = {}

\* Wrong on purpose: tokens that were not used add up.
ReserveUnused(w) ==
    /\ pc[w] = "idle"
    /\ pc' = [pc EXCEPT ![w] = "wait"]
    /\ asked' = [asked EXCEPT ![w] = time]
    /\ grant' = [grant EXCEPT ![w] = next]
    /\ next' = next + Interval
    /\ UNCHANGED <<time, log>>

\* Wrong on purpose: every token costs two.
ReserveTwice(w) ==
    /\ pc[w] = "idle"
    /\ pc' = [pc EXCEPT ![w] = "wait"]
    /\ asked' = [asked EXCEPT ![w] = time]
    /\ grant' = [grant EXCEPT ![w] = Later(time, next)]
    /\ next' = Later(time, next) + 2 * Interval
    /\ UNCHANGED <<time, log>>

\* limiter.Wait reserves the next token, under the limiter's lock, and learns
\* when it may go on. A token that was not used does not add up: burst is one.
Reserve(w) ==
    /\ pc[w] = "idle"
    /\ pc' = [pc EXCEPT ![w] = "wait"]
    /\ asked' = [asked EXCEPT ![w] = time]
    /\ grant' = [grant EXCEPT ![w] = Later(time, next)]
    /\ next' = Later(time, next) + Interval
    /\ UNCHANGED <<time, log>>

\* Wrong on purpose: the reservation is made and not waited for.
SendRequestEarly(w) ==
    /\ pc[w] = "wait"
    /\ pc' = [pc EXCEPT ![w] = "flight"]
    /\ log' = log \cup {[by |-> w, due |-> grant[w], at |-> time]}
    /\ UNCHANGED <<time, next, asked, grant>>

\* The worker runs again some time after its token is due, and sends.
SendRequest(w) ==
    /\ pc[w] = "wait"
    /\ time >= grant[w]
    /\ pc' = [pc EXCEPT ![w] = "flight"]
    /\ log' = log \cup {[by |-> w, due |-> grant[w], at |-> time]}
    /\ UNCHANGED <<time, next, asked, grant>>

\* The response, or an error, frees the worker for its next request. The client
\* has no timeout: nothing bounds how long this takes.
Respond(w) ==
    /\ pc[w] = "flight"
    /\ pc' = [pc EXCEPT ![w] = "idle"]
    /\ UNCHANGED <<time, next, asked, grant, log>>

Elapse ==
    /\ time < MaxTime
    /\ time' = time + 1
    /\ UNCHANGED <<next, pc, asked, grant, log>>

Next ==
    \/ \E w \in Workers : Reserve(w) \/ SendRequest(w) \/ Respond(w)
    \/ Elapse

Spec == Init /\ [][Next]_vars

-----------------------------------------------------------------------------
Requests == [by : Workers, due : Nat, at : Nat]

\* Every variable has its type, and a worker never holds a token it did not ask
\* for.
TypeOK ==
    /\ time \in Nat
    /\ next \in Nat
    /\ pc \in [Workers -> {"idle", "wait", "flight"}]
    /\ asked \in [Workers -> Nat]
    /\ grant \in [Workers -> Nat]
    /\ log \in SUBSET Requests
    /\ \A w \in Workers : asked[w] <= time /\ asked[w] <= grant[w]

\* The requests that reach the market in the Interval that ends at t.
Sent(t) == {r \in log : t - Interval < r.at /\ r.at <= t}

\* The market sees at most one request per worker and one more in any Interval,
\* however late the workers run: with the two workers of the operator the three
\* requests per second the market allows (http_warframe_market_service.go:31).
WindowBound == \A t \in 0..time : Cardinality(Sent(t)) <= Cardinality(Workers) + 1

\* A worker that asks is granted a token within one Interval per worker: the
\* reservations of the others cannot push it further back.
WaitBound == \A w \in Workers : grant[w] - asked[w] <= Cardinality(Workers) * Interval

=============================================================================
