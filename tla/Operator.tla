------------------------------ MODULE Operator ------------------------------
(***************************************************************************)
(* The operator process (cmd/main.go) and time: how long may a watch go    *)
(* without anyone looking at the market for it? One manager runs two       *)
(* controllers, each with a queue and a worker of its own. A reconcile     *)
(* that succeeds comes back after the period, one that fails after a       *)
(* backoff that doubles, a call may hang for ever, since the HTTP clients  *)
(* have no timeout, and when the process ends the next one leads only once *)
(* the lease of the old one has run out.                                   *)
(*                                                                         *)
(* A reconcile is one span of time here; WatchController has its steps.    *)
(* The queue is controller-runtime's: one entry per key with the time at   *)
(* which it is ready. It orders ready keys by priority; here the worker    *)
(* takes any of them.                                                      *)
(***************************************************************************)
EXTENDS Integers, FiniteSets

CONSTANTS
    ItemWatches, RivenWatches,      \* the objects in the cluster
    Nobody,         \* no watch
    Period,         \* RequeueAfter
    ReconcileTime,  \* the longest reconcile whose calls are answered, with the
                    \* wait for the limiter (RateLimiter!WaitBound)
    FirstBackoff, MaxBackoff,
    LeaseDuration,  \* the longest wait for the lease of a process that ended
    MaxDisturbances,    \* the edits and failures of its peers that a watch can take
                    \* between two reconciles of its own
    MaxIncidents    \* bound on edits, failures, hung calls and restarts

VARIABLES
    leading,    \* a process runs the controllers
    lease,      \* when none does: the time until the next one may
    ready,      \* per watch: the time until its entry of the queue is ready, or Never
    running,    \* per worker: the watch being reconciled, or Nobody
    spent,      \* per worker: for how long
    hung,       \* per worker: a call will not be answered
    backoff,    \* per watch: the delay after its next failure
    idle,       \* per watch: the time since a reconcile of it succeeded
    allowance,  \* per watch: the time that incidents since then account for
    disturbed,  \* per watch: incidents of peers since it was last reconciled
    excused,    \* per watch: since then a call of its kind hung, or too many peers
                \* were disturbed
    incidents   \* how many there were

processVars == <<leading, lease>>
workerVars  == <<running, spent, hung>>
ghostVars   == <<idle, allowance, disturbed, excused>>
vars == <<processVars, ready, workerVars, backoff, ghostVars, incidents>>

Watches == ItemWatches \cup RivenWatches
Kinds   == {"itempricewatch", "rivenpricewatch"}
Never   == -1

KindOf(w) == IF w \in ItemWatches THEN "itempricewatch" ELSE "rivenpricewatch"
Peers(w)  == {v \in Watches : KindOf(v) = KindOf(w)}

\* The worker has done all peers of a watch, and some again, within a period.
ASSUME OperatorAssumption ==
    /\ IsFiniteSet(Watches)
    /\ ItemWatches \cap RivenWatches = {}
    /\ Nobody \notin Watches
    /\ {Period, ReconcileTime, FirstBackoff, MaxBackoff} \subseteq Nat \ {0}
    /\ {LeaseDuration, MaxDisturbances, MaxIncidents} \subseteq Nat
    /\ FirstBackoff <= MaxBackoff
    /\ \A w \in Watches : (Cardinality(Peers(w)) + MaxDisturbances) * ReconcileTime <= Period

\* Wrong on purpose: one controller reconciles both kinds.
OneWorker(w) == "itempricewatch"

\* A controller per kind, with the default of one reconcile at a time.
WorkerOf(w) == KindOf(w)

-----------------------------------------------------------------------------
\* Starting, every watch is a creation to the process.
Init ==
    /\ leading = TRUE
    /\ lease = 0
    /\ ready = [w \in Watches |-> 0]
    /\ running = [k \in Kinds |-> Nobody]
    /\ spent = [k \in Kinds |-> 0]
    /\ hung = [k \in Kinds |-> FALSE]
    /\ backoff = [w \in Watches |-> FirstBackoff]
    /\ idle = [w \in Watches |-> 0]
    /\ allowance = [w \in Watches |-> 0]
    /\ disturbed = [w \in Watches |-> 0]
    /\ excused = [w \in Watches |-> FALSE]
    /\ incidents = 0

Incident == incidents < MaxIncidents /\ incidents' = incidents + 1

\* What an incident may cost each of these watches.
Allow(watches, time) ==
    allowance' = [w \in Watches |-> allowance[w] + (IF w \in watches THEN time[w] ELSE 0)]

\* An incident of a watch disturbs its peers.
DisturbPeers(w, own) ==
    /\ disturbed' = [v \in Watches |-> IF v = w THEN own
                                       ELSE IF v \in Peers(w) THEN disturbed[v] + 1
                                       ELSE disturbed[v]]
    /\ excused' = [v \in Watches |-> excused[v] \/ disturbed'[v] > MaxDisturbances]

\* The time in which a worker is done with these watches.
Turns(watches) == Cardinality(watches) * ReconcileTime

\* The same for every watch of the kind.
Round(w) == Turns(Peers(w))

\* The queue keeps one entry per key, ready at the earliest time asked for.
Entry(w, delay) ==
    IF ready[w] # Never /\ ready[w] < delay THEN ready[w] ELSE delay

\* Wrong on purpose: the delay doubles without an end.
LongerUncapped(delay) == 2 * delay

\* The delay after one more failure.
Longer(delay) == IF 2 * delay > MaxBackoff THEN MaxBackoff ELSE 2 * delay

UserEdits(w) ==
    /\ leading
    /\ Incident
    /\ ready' = [ready EXCEPT ![w] = Entry(w, 0)]
    /\ Allow(Peers(w) \ {w}, [v \in Watches |-> ReconcileTime])
    /\ DisturbPeers(w, disturbed[w])
    /\ UNCHANGED <<processVars, workerVars, backoff, idle>>

StartReconcile(k) ==
    /\ leading
    /\ running[k] = Nobody
    /\ \E w \in Watches :
          /\ WorkerOf(w) = k
          /\ ready[w] = 0
          /\ running' = [running EXCEPT ![k] = w]
          /\ ready' = [ready EXCEPT ![w] = Never]
    /\ UNCHANGED <<processVars, spent, hung, backoff, ghostVars, incidents>>

Finish(k, delay) ==
    /\ running' = [running EXCEPT ![k] = Nobody]
    /\ spent' = [spent EXCEPT ![k] = 0]
    /\ ready' = [ready EXCEPT ![running[k]] = Entry(running[k], delay)]
    /\ UNCHANGED <<processVars, hung>>

ReconcileSucceeds(k) ==
    /\ running[k] # Nobody
    /\ ~hung[k]
    /\ Finish(k, Period)
    /\ backoff' = [backoff EXCEPT ![running[k]] = FirstBackoff]
    /\ idle' = [idle EXCEPT ![running[k]] = 0]
    /\ allowance' = [allowance EXCEPT ![running[k]] = 0]
    /\ disturbed' = [disturbed EXCEPT ![running[k]] = 0]
    /\ excused' = [excused EXCEPT ![running[k]] = FALSE]
    /\ UNCHANGED incidents

\* The use case or the status call returns an error, or the reconcile panics.
ReconcileFails(k) ==
    /\ running[k] # Nobody
    /\ ~hung[k]
    /\ Incident
    /\ LET w == running[k] IN
          /\ Finish(k, backoff[w])
          /\ backoff' = [backoff EXCEPT ![w] = Longer(@)]
          /\ Allow(Peers(w), [v \in Watches |-> IF v = w THEN backoff[w] + Round(w)
                                                         ELSE ReconcileTime])
          /\ DisturbPeers(w, 0)
    /\ UNCHANGED idle

\* A call is never answered, and no timeout ends the wait. The probes answer and
\* the lease is renewed as before.
CallHangs(k) ==
    /\ running[k] # Nobody
    /\ ~hung[k]
    /\ Incident
    /\ hung' = [hung EXCEPT ![k] = TRUE]
    /\ UNCHANGED <<processVars, ready, running, spent, backoff, ghostVars>>

\* The process ends. It does not release its lease.
ProcessEnds ==
    /\ leading
    /\ Incident
    /\ leading' = FALSE
    /\ lease' \in 0..LeaseDuration
    /\ ready' = [w \in Watches |-> Never]
    /\ running' = [k \in Kinds |-> Nobody]
    /\ spent' = [k \in Kinds |-> 0]
    /\ hung' = [k \in Kinds |-> FALSE]
    /\ backoff' = [w \in Watches |-> FirstBackoff]
    /\ Allow(Watches, [w \in Watches |-> LeaseDuration + Round(w)])
    /\ UNCHANGED <<idle, disturbed, excused>>

NextProcessLeads ==
    /\ ~leading
    /\ lease = 0
    /\ leading' = TRUE
    /\ ready' = [w \in Watches |-> 0]
    /\ UNCHANGED <<lease, workerVars, backoff, ghostVars, incidents>>

\* The worker does not let a ready key wait while it is free, and a reconcile
\* whose calls are answered ends.
WorkersKeepUp ==
    \A k \in Kinds :
        IF running[k] = Nobody THEN \A w \in Watches : WorkerOf(w) = k => ready[w] # 0
        ELSE hung[k] \/ spent[k] < ReconcileTime

Stalled(w) == \E k \in Kinds : hung[k] /\ running[k] \in Peers(w)

Tick ==
    /\ IF leading THEN WorkersKeepUp ELSE lease > 0
    /\ lease' = IF leading THEN lease ELSE lease - 1
    /\ ready' = [w \in Watches |-> IF ready[w] > 0 THEN ready[w] - 1 ELSE ready[w]]
    /\ spent' = [k \in Kinds |-> IF running[k] = Nobody \/ hung[k] THEN spent[k] ELSE spent[k] + 1]
    /\ excused' = [w \in Watches |-> excused[w] \/ Stalled(w)]
    /\ idle' = [w \in Watches |-> IF excused'[w] THEN idle[w] ELSE idle[w] + 1]
    /\ UNCHANGED <<leading, running, hung, backoff, allowance, disturbed, incidents>>

Next ==
    \/ \E w \in Watches : UserEdits(w)
    \/ \E k \in Kinds :
          StartReconcile(k) \/ ReconcileSucceeds(k) \/ ReconcileFails(k) \/ CallHangs(k)
    \/ ProcessEnds \/ NextProcessLeads
    \/ Tick

Spec == Init /\ [][Next]_vars

-----------------------------------------------------------------------------
\* Every variable has its type: no entry of the queue is ever further away than
\* the longer of the period and the longest backoff.
TypeOK ==
    /\ leading \in BOOLEAN
    /\ lease \in 0..LeaseDuration
    /\ ready \in [Watches -> {Never} \cup 0..Period \cup 0..MaxBackoff]
    /\ running \in [Kinds -> Watches \cup {Nobody}]
    /\ \A k \in Kinds : running[k] # Nobody => WorkerOf(running[k]) = k
    /\ spent \in [Kinds -> 0..ReconcileTime]
    /\ hung \in [Kinds -> BOOLEAN]
    /\ backoff \in [Watches -> 1..MaxBackoff]
    /\ idle \in [Watches -> Nat]
    /\ allowance \in [Watches -> Nat]
    /\ disturbed \in [Watches -> Nat]
    /\ excused \in [Watches -> BOOLEAN]
    /\ incidents \in 0..MaxIncidents

\* Every watch is looked at once per period and one round of its worker, and
\* whatever delays it more has a name and a price: a failure of its own costs its
\* backoff and a round, a failure or an edit of a peer one reconcile, a new process
\* the lease and a round. A call that hangs stops its own kind and never the other
\* (itempricewatch_controller.go:71, :74-80, main.go:215-233). So of a window at
\* least as long as the period and a round no day passes by unnoticed. Peers that are
\* disturbed more often than fits into a period may be due again before the watch has
\* had its turn; then nothing is promised.
LookedAtInTime ==
    \A w \in Watches :
        excused[w] \/ idle[w] <= Period + Round(w) + allowance[w]

=============================================================================
