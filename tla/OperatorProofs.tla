--------------------------- MODULE OperatorProofs ---------------------------
(***************************************************************************)
(* LookedAtInTime for every number of watches of both kinds, every period, *)
(* backoff, lease and number of incidents that fit OperatorAssumption.     *)
(***************************************************************************)
EXTENDS Operator, FiniteSetTheorems, TLAPS

-----------------------------------------------------------------------------
\* Why a watch is looked at in time: at every moment what is still ahead of it, in
\* the worst case, fits into what is left of its period and allowance.

\* What the reconcile in hand of a worker may still take.
Left(k) == IF running[k] = Nobody THEN 0 ELSE ReconcileTime - spent[k]

\* What peers that are disturbed may still cost it.
Slack(w) == (MaxDisturbances - disturbed[w]) * ReconcileTime

\* A peer that was edited while it is being reconciled runs once more.
Again(w) ==
    LET v == running[KindOf(w)]
    IN  IF v # Nobody /\ v # w /\ ready[v] # Never THEN ReconcileTime ELSE 0

\* While a watch waits for its worker no peer runs twice: the peers that are not
\* ahead of it are not ready before it has had its turn.
WaitsBehind(w, ahead) ==
    LET left == Left(KindOf(w)) + Turns(ahead)
    IN  /\ idle[w] + left + ReconcileTime <= Period + Round(w) + allowance[w]
        /\ \A v \in Peers(w) \ (ahead \cup {w}) :
              \/ running[KindOf(w)] = v /\ ready[v] = Never
              \/ ready[v] > left + Slack(w)

\* No process leads, it is reconciled, its entry is not ready yet, or it waits.
Leaderless(w) == ~leading /\ idle[w] + lease <= Period + allowance[w]

Reconciled(w) ==
    /\ leading /\ running[KindOf(w)] = w
    /\ idle[w] + Left(KindOf(w)) <= Period + Round(w) + allowance[w]

Scheduled(w) ==
    /\ leading /\ running[KindOf(w)] # w /\ ready[w] > 0
    /\ idle[w] + ready[w] + Again(w) <= Period + allowance[w]

Waiting(w) ==
    /\ leading /\ running[KindOf(w)] # w /\ ready[w] = 0
    /\ \E ahead \in SUBSET (Peers(w) \ {w}) : WaitsBehind(w, ahead)

OnSchedule(w) == Leaderless(w) \/ Reconciled(w) \/ Scheduled(w) \/ Waiting(w)

\* A worker that has no watch has spent no time, and none runs without a process.
WorkersConsistent ==
    \A k \in Kinds : ~leading \/ running[k] = Nobody => running[k] = Nobody /\ spent[k] = 0

IInv ==
    /\ TypeOK
    /\ WorkersConsistent
    /\ \A w \in Watches : excused[w] \/ (disturbed[w] <= MaxDisturbances /\ OnSchedule(w))

-----------------------------------------------------------------------------
(* Kinds, peers and the time they take. *)

\* The constants are numbers.
LEMMA Numbers ==
  /\ Period \in Nat /\ Period > 0
  /\ ReconcileTime \in Nat /\ ReconcileTime > 0
  /\ FirstBackoff \in Nat /\ FirstBackoff > 0
  /\ MaxBackoff \in Nat /\ FirstBackoff <= MaxBackoff
  /\ LeaseDuration \in Nat
  /\ MaxDisturbances \in Nat /\ MaxIncidents \in Nat
  /\ Nobody \notin Watches
  BY OperatorAssumption DEF OperatorAssumption

\* The peers of a watch are finitely many watches of its kind.
LEMMA PeersOf ==
  ASSUME NEW w \in Watches
  PROVE  /\ KindOf(w) \in Kinds
         /\ WorkerOf(w) = KindOf(w)
         /\ w \in Peers(w)
         /\ Peers(w) \subseteq Watches
         /\ IsFiniteSet(Peers(w))
         /\ \A v \in Watches : v \in Peers(w) <=> KindOf(v) = KindOf(w)
  <1>1. Peers(w) \subseteq Watches
    BY DEF Peers
  <1>2. IsFiniteSet(Peers(w))
    BY <1>1, FS_Subset, OperatorAssumption DEF OperatorAssumption
  <1> QED
    BY <1>1, <1>2 DEF Peers, KindOf, Kinds, WorkerOf

\* A round of finitely many watches takes a number of ticks.
LEMMA TurnsTyped ==
  ASSUME NEW S, IsFiniteSet(S)
  PROVE  Turns(S) \in Nat
  <1>1. Cardinality(S) \in Nat
    BY FS_CardinalityType
  <1> QED
    BY <1>1, Numbers DEF Turns

\* One watch more is one reconcile more.
LEMMA TurnsWith ==
  ASSUME NEW S, IsFiniteSet(S), NEW v, v \notin S
  PROVE  /\ IsFiniteSet(S \cup {v})
         /\ Turns(S \cup {v}) = Turns(S) + ReconcileTime
  <1> DEFINE n == Cardinality(S)
  <1>1. n \in Nat /\ Cardinality(S \cup {v}) = n + 1 /\ IsFiniteSet(S \cup {v})
    BY FS_CardinalityType, FS_AddElement
  <1> HIDE DEF n
  <1>2. (n + 1) * ReconcileTime = n * ReconcileTime + ReconcileTime
    BY <1>1, Numbers
  <1> QED
    BY <1>1, <1>2 DEF Turns, n

\* One watch more makes a round longer by one reconcile at most.
LEMMA TurnsWithAny ==
  ASSUME NEW S, IsFiniteSet(S), NEW v
  PROVE  Turns(S \cup {v}) \in Nat /\ Turns(S \cup {v}) <= Turns(S) + ReconcileTime
  <1>0. Turns(S) \in Nat
    BY TurnsTyped
  <1>1. CASE v \in S
    <2>1. S \cup {v} = S
      BY <1>1
    <2> QED
      BY <1>0, <2>1, Numbers
  <1>2. CASE v \notin S
    <2>1. Turns(S \cup {v}) = Turns(S) + ReconcileTime
      BY <1>2, TurnsWith
    <2> QED
      BY <1>0, <2>1, Numbers
  <1> QED
    BY <1>1, <1>2

\* One watch less makes a round shorter by one reconcile.
LEMMA TurnsWithout ==
  ASSUME NEW S, IsFiniteSet(S), NEW v \in S
  PROVE  /\ IsFiniteSet(S \ {v})
         /\ Turns(S) = Turns(S \ {v}) + ReconcileTime
  <1>1. IsFiniteSet(S \ {v}) /\ v \notin S \ {v} /\ (S \ {v}) \cup {v} = S
    BY FS_Subset
  <1> QED
    BY <1>1, TurnsWith

\* Fewer watches have a shorter round.
LEMMA TurnsMonotonic ==
  ASSUME NEW S, IsFiniteSet(S), NEW T \in SUBSET S
  PROVE  IsFiniteSet(T) /\ Turns(T) \in Nat /\ Turns(T) <= Turns(S)
  <1> DEFINE n == Cardinality(S)
             m == Cardinality(T)
  <1>1. IsFiniteSet(T) /\ n \in Nat /\ m \in Nat /\ m <= n
    BY FS_Subset, FS_CardinalityType
  <1> HIDE DEF n, m
  <1>2. m * ReconcileTime <= n * ReconcileTime
    BY <1>1, Numbers
  <1> QED
    BY <1>1, <1>2, TurnsTyped DEF Turns, n, m

\* All peers have their turn before a watch: that, and its own, is a round.
LEMMA RoundTyped ==
  ASSUME NEW w \in Watches
  PROVE  /\ Round(w) \in Nat
         /\ Turns(Peers(w) \ {w}) \in Nat
         /\ Round(w) = Turns(Peers(w) \ {w}) + ReconcileTime
  BY PeersOf, TurnsTyped, TurnsWithout, FS_Subset DEF Round

\* A round and all disturbances fit into a period.
LEMMA RoundFits ==
  ASSUME NEW w \in Watches, disturbed[w] \in 0..MaxDisturbances
  PROVE  Slack(w) \in Nat /\ Round(w) + Slack(w) <= Period
  <1> DEFINE n == Cardinality(Peers(w))
             i == MaxDisturbances - disturbed[w]
  <1>1. n \in Nat /\ (n + MaxDisturbances) * ReconcileTime <= Period
    BY PeersOf, FS_CardinalityType, OperatorAssumption DEF OperatorAssumption
  <1>2. i \in Nat /\ i <= MaxDisturbances
    BY Numbers
  <1> HIDE DEF n, i
  <1>3. i * ReconcileTime \in Nat
    BY <1>2, Numbers
  <1>4. n * ReconcileTime \in Nat
    BY <1>1, Numbers
  <1>5. i * ReconcileTime <= MaxDisturbances * ReconcileTime
    BY <1>2, Numbers
  <1>6. (n + MaxDisturbances) * ReconcileTime = n * ReconcileTime + MaxDisturbances * ReconcileTime
    BY <1>1, Numbers
  <1>7. MaxDisturbances * ReconcileTime \in Nat
    BY Numbers
  <1> QED
    BY <1>1, <1>3, <1>4, <1>5, <1>6, <1>7, Numbers DEF Round, Turns, Slack, n, i

\* A disturbance uses up one reconcile of the slack.
LEMMA SlackShrinks ==
  ASSUME NEW w \in Watches, disturbed[w] \in Nat,
         disturbed'[w] = disturbed[w] + 1, disturbed'[w] <= MaxDisturbances
  PROVE  Slack(w) \in Nat /\ Slack(w)' \in Nat /\ Slack(w) = Slack(w)' + ReconcileTime
  <1> DEFINE i == MaxDisturbances - disturbed'[w]
  <1>1. i \in Nat /\ MaxDisturbances - disturbed[w] = i + 1
    BY Numbers
  <1> HIDE DEF i
  <1>2. (i + 1) * ReconcileTime = i * ReconcileTime + ReconcileTime
    BY <1>1, Numbers
  <1>3. i * ReconcileTime \in Nat /\ (i + 1) * ReconcileTime \in Nat
    BY <1>1, Numbers
  <1> QED
    BY <1>1, <1>2, <1>3 DEF Slack, i

-----------------------------------------------------------------------------
(* Types, and workers that have no watch. *)

Basics == TypeOK /\ WorkersConsistent

\* An entry is ready after a delay, and no later than asked for.
LEMMA EntryTyped ==
  ASSUME TypeOK, NEW w \in Watches, NEW delay \in 0..Period \cup 0..MaxBackoff
  PROVE  /\ Entry(w, delay) \in 0..Period \cup 0..MaxBackoff
         /\ Entry(w, delay) <= delay
         /\ ready[w] = Never => Entry(w, delay) = delay
         /\ ready[w] # Never => Entry(w, delay) = delay \/ Entry(w, delay) = ready[w]
  BY Numbers DEF TypeOK, Entry, Never

\* The doubled backoff is one.
LEMMA LongerTyped ==
  ASSUME NEW delay \in 1..MaxBackoff
  PROVE  Longer(delay) \in 1..MaxBackoff
  BY Numbers DEF Longer

\* Incidents are counted up to their bound.
LEMMA IncidentTyped ==
  ASSUME TypeOK, Incident
  PROVE  incidents' \in 0..MaxIncidents
  BY Numbers DEF TypeOK, Incident

\* Disturbances are counted per watch.
LEMMA DisturbTyped ==
  ASSUME TypeOK, NEW w \in Watches, NEW own \in Nat, DisturbPeers(w, own)
  PROVE  disturbed' \in [Watches -> Nat] /\ excused' \in [Watches -> BOOLEAN]
  BY DEF TypeOK, DisturbPeers

\* Allowances are times per watch.
LEMMA AllowTyped ==
  ASSUME TypeOK, NEW watches, NEW time \in [Watches -> Nat], Allow(watches, time)
  PROVE  allowance' \in [Watches -> Nat]
  BY DEF TypeOK, Allow

\* The operator starts well typed and with consistent queues.
LEMMA BasicsInit == Init => Basics
  BY Numbers DEF Init, Basics, TypeOK, WorkersConsistent, Never, Kinds

\* An edit keeps types and queues.
LEMMA BasicsEdit ==
  ASSUME Basics, NEW w \in Watches, UserEdits(w)
  PROVE  Basics'
  <1>1. Entry(w, 0) \in 0..Period \cup 0..MaxBackoff
    BY EntryTyped, Numbers DEF Basics
  <1>2. [v \in Watches |-> ReconcileTime] \in [Watches -> Nat]
    BY Numbers
  <1>3. allowance' \in [Watches -> Nat]
    BY <1>2, AllowTyped DEF Basics, UserEdits
  <1>4. incidents' \in 0..MaxIncidents
    BY IncidentTyped DEF UserEdits, Basics
  <1>5. disturbed' \in [Watches -> Nat] /\ excused' \in [Watches -> BOOLEAN]
    BY DisturbTyped DEF UserEdits, Basics, TypeOK
  <1> QED
    BY <1>1, <1>3, <1>4, <1>5 DEF Basics, TypeOK, WorkersConsistent, UserEdits, processVars, workerVars

\* Taking a key keeps types and queues.
LEMMA BasicsStart ==
  ASSUME Basics, NEW k \in Kinds, StartReconcile(k)
  PROVE  Basics'
  <1>1. PICK w \in Watches : WorkerOf(w) = k /\ running' = [running EXCEPT ![k] = w]
                             /\ ready' = [ready EXCEPT ![w] = Never]
    BY DEF StartReconcile
  <1> QED
    BY <1>1, Numbers DEF Basics, TypeOK, WorkersConsistent, StartReconcile, processVars, ghostVars, Never

\* The end of a reconcile, with any delay, keeps types and queues.
LEMMA BasicsFinish ==
  ASSUME Basics, NEW k \in Kinds, NEW delay \in 0..Period \cup 0..MaxBackoff,
         running[k] # Nobody, Finish(k, delay)
  PROVE  /\ ready' \in [Watches -> {Never} \cup 0..Period \cup 0..MaxBackoff]
         /\ running' \in [Kinds -> Watches \cup {Nobody}]
         /\ \A j \in Kinds : running'[j] # Nobody => WorkerOf(running'[j]) = j
         /\ spent' \in [Kinds -> 0..ReconcileTime]
         /\ WorkersConsistent'
  <1>1. running[k] \in Watches
    BY DEF Basics, TypeOK
  <1>2. Entry(running[k], delay) \in 0..Period \cup 0..MaxBackoff
    BY <1>1, EntryTyped DEF Basics
  <1> QED
    BY <1>1, <1>2, Numbers DEF Basics, TypeOK, WorkersConsistent, Finish, processVars

\* A success keeps types and queues.
LEMMA BasicsSucceeds ==
  ASSUME Basics, NEW k \in Kinds, ReconcileSucceeds(k)
  PROVE  Basics'
  <1>1. Period \in 0..Period \cup 0..MaxBackoff
    BY Numbers
  <1>2. /\ ready' \in [Watches -> {Never} \cup 0..Period \cup 0..MaxBackoff]
        /\ running' \in [Kinds -> Watches \cup {Nobody}]
        /\ \A j \in Kinds : running'[j] # Nobody => WorkerOf(running'[j]) = j
        /\ spent' \in [Kinds -> 0..ReconcileTime]
        /\ WorkersConsistent'
    BY <1>1, BasicsFinish DEF ReconcileSucceeds
  <1> QED
    BY <1>2, Numbers DEF Basics, TypeOK, ReconcileSucceeds, Finish, processVars

\* A failure keeps types and queues.
LEMMA BasicsFails ==
  ASSUME Basics, NEW k \in Kinds, ReconcileFails(k)
  PROVE  Basics'
  <1> DEFINE w == running[k]
  <1>1. w \in Watches
    BY DEF Basics, TypeOK, ReconcileFails
  <1>2. backoff[w] \in 1..MaxBackoff
    BY <1>1 DEF Basics, TypeOK
  <1>3. backoff[w] \in 0..Period \cup 0..MaxBackoff /\ Longer(backoff[w]) \in 1..MaxBackoff
    BY <1>2, LongerTyped, Numbers
  <1>4. /\ ready' \in [Watches -> {Never} \cup 0..Period \cup 0..MaxBackoff]
        /\ running' \in [Kinds -> Watches \cup {Nobody}]
        /\ \A j \in Kinds : running'[j] # Nobody => WorkerOf(running'[j]) = j
        /\ spent' \in [Kinds -> 0..ReconcileTime]
        /\ WorkersConsistent'
    BY <1>3, BasicsFinish DEF ReconcileFails
  <1>5. [v \in Watches |-> IF v = w THEN backoff[w] + Round(w) ELSE ReconcileTime] \in [Watches -> Nat]
    <2>1. Round(w) \in Nat
      BY <1>1, RoundTyped
    <2>2. backoff[w] + Round(w) \in Nat
      BY <1>2, <2>1, Numbers
    <2> QED
      BY <2>2, Numbers
  <1>6. allowance' \in [Watches -> Nat]
    BY <1>5, AllowTyped DEF Basics, ReconcileFails
  <1>7. incidents' \in 0..MaxIncidents
    BY IncidentTyped DEF ReconcileFails, Basics
  <1>8. backoff' \in [Watches -> 1..MaxBackoff]
    BY <1>1, <1>3 DEF ReconcileFails, Basics, TypeOK
  <1>9. disturbed' \in [Watches -> Nat] /\ excused' \in [Watches -> BOOLEAN]
    BY <1>1, DisturbTyped DEF ReconcileFails, Basics
  <1> QED
    BY <1>4, <1>6, <1>7, <1>8, <1>9 DEF Basics, TypeOK, ReconcileFails, Finish, processVars

\* A hung call keeps types and queues.
LEMMA BasicsHangs ==
  ASSUME Basics, NEW k \in Kinds, CallHangs(k)
  PROVE  Basics'
  <1>1. incidents' \in 0..MaxIncidents
    BY IncidentTyped DEF CallHangs, Basics
  <1> QED
    BY <1>1 DEF Basics, TypeOK, WorkersConsistent, CallHangs, processVars, ghostVars

\* The end of the process keeps types and queues.
LEMMA BasicsEnds ==
  ASSUME Basics, ProcessEnds
  PROVE  Basics'
  <1>1. [w \in Watches |-> LeaseDuration + Round(w)] \in [Watches -> Nat]
    <2>1. \A w \in Watches : Round(w) \in Nat
      BY RoundTyped
    <2> QED
      BY <2>1, Numbers
  <1>2. allowance' \in [Watches -> Nat]
    BY <1>1, AllowTyped DEF Basics, ProcessEnds
  <1>3. incidents' \in 0..MaxIncidents
    BY IncidentTyped DEF ProcessEnds, Basics
  <1>4. backoff' \in [Watches -> 1..MaxBackoff] /\ spent' \in [Kinds -> 0..ReconcileTime]
    BY Numbers DEF ProcessEnds
  <1>5. WorkersConsistent'
    BY DEF ProcessEnds, WorkersConsistent
  <1> QED
    BY <1>2, <1>3, <1>4, <1>5 DEF Basics, TypeOK, ProcessEnds, Never

\* A new process starts with types and queues in order.
LEMMA BasicsLeads ==
  ASSUME Basics, NextProcessLeads
  PROVE  Basics'
  BY Numbers DEF Basics, TypeOK, WorkersConsistent, NextProcessLeads, workerVars, ghostVars

\* Time keeps types and queues.
LEMMA BasicsTick ==
  ASSUME Basics, Tick
  PROVE  Basics'
  <1>1. lease' \in 0..LeaseDuration
    BY Numbers DEF Basics, TypeOK, Tick
  <1>2. ready' \in [Watches -> {Never} \cup 0..Period \cup 0..MaxBackoff]
    BY Numbers DEF Basics, TypeOK, Tick, Never
  <1>3. spent' \in [Kinds -> 0..ReconcileTime]
    <2>1. leading \/ \A k \in Kinds : running[k] = Nobody
      BY DEF Basics, TypeOK, WorkersConsistent
    <2>2. \A k \in Kinds : running[k] = Nobody \/ hung[k] \/ spent[k] < ReconcileTime
      BY <2>1 DEF Tick, WorkersKeepUp
    <2> QED
      BY <2>2, Numbers DEF Basics, TypeOK, Tick
  <1>4. excused' \in [Watches -> BOOLEAN]
    BY DEF Basics, TypeOK, Tick, Stalled
  <1>5. idle' \in [Watches -> Nat]
    BY DEF Basics, TypeOK, Tick
  <1>6. WorkersConsistent'
    BY DEF Basics, WorkersConsistent, Tick
  <1> QED
    BY <1>1, <1>2, <1>3, <1>4, <1>5, <1>6 DEF Basics, TypeOK, Tick

\* Every step keeps types and queues.
LEMMA BasicsStep == Basics /\ [Next]_vars => Basics'
  <1> SUFFICES ASSUME Basics, [Next]_vars PROVE Basics'
    OBVIOUS
  <1>1. CASE UNCHANGED vars
    BY <1>1 DEF Basics, TypeOK, WorkersConsistent, vars, processVars, workerVars, ghostVars
  <1> QED
    BY <1>1, BasicsEdit, BasicsStart, BasicsSucceeds, BasicsFails, BasicsHangs, BasicsEnds,
       BasicsLeads, BasicsTick DEF Next

\* No entry of the queue is ever further away than the period or the longest backoff,
\* a worker runs watches of its own kind only, and no reconcile whose calls are
\* answered takes longer than it may (main.go:207-233).
THEOREM TypeCorrect == Spec => []TypeOK
  <1>1. Basics => TypeOK
    BY DEF Basics
  <1> QED
    BY <1>1, BasicsInit, BasicsStep, PTL DEF Spec

-----------------------------------------------------------------------------
(* A watch stays on schedule. *)

\* The numbers kept of one watch.
LEMMA WatchTyped ==
  ASSUME Basics, NEW w \in Watches
  PROVE  /\ ready[w] \in Int /\ ready[w] >= Never
         /\ idle[w] \in Nat /\ allowance[w] \in Nat
         /\ running[KindOf(w)] = Nobody \/ running[KindOf(w)] \in Peers(w)
         /\ Left(KindOf(w)) \in 0..ReconcileTime
         /\ Again(w) \in {0, ReconcileTime}
  BY Numbers, PeersOf DEF Basics, TypeOK, Left, Again, Never, WorkerOf

\* Whose entry becomes ready waits behind all peers at most.
LEMMA BecomesReady ==
  ASSUME Basics', NEW w \in Watches, leading', running'[KindOf(w)] # w, ready'[w] = 0,
         idle'[w] + Again(w)' <= Period + allowance'[w]
  PROVE  OnSchedule(w)'
  <1> DEFINE k == KindOf(w)
             v == running'[k]
             others == Peers(w) \ {w}
  <1>1. /\ ready'[w] \in Int /\ idle'[w] \in Nat /\ allowance'[w] \in Nat
        /\ v = Nobody \/ v \in others
        /\ Left(k)' \in 0..ReconcileTime
    BY Numbers, PeersOf DEF Basics, TypeOK, Left, Again, Never, WorkerOf
  <1>2. /\ Round(w) \in Nat /\ Turns(others) \in Nat /\ Round(w) = Turns(others) + ReconcileTime
        /\ IsFiniteSet(others)
    BY RoundTyped, PeersOf, FS_Subset
  <1>3. ASSUME NEW ahead \in SUBSET others, WaitsBehind(w, ahead)'
        PROVE  OnSchedule(w)'
    BY <1>3 DEF OnSchedule, Waiting
  <1>4. CASE v = Nobody
    <2>1. Left(k)' = 0 /\ Again(w)' = 0
      BY <1>4 DEF Left, Again
    <2>2. WaitsBehind(w, others)'
      BY <1>1, <1>2, <2>1, Numbers DEF WaitsBehind
    <2> QED
      BY <1>3, <2>2
  <1>5. CASE v # Nobody /\ ready'[v] # Never
    <2>1. Again(w)' = ReconcileTime
      BY <1>5 DEF Again
    <2>2. WaitsBehind(w, others)'
      BY <1>1, <1>2, <2>1, Numbers DEF WaitsBehind
    <2> QED
      BY <1>3, <2>2
  <1>6. CASE v # Nobody /\ ready'[v] = Never
    <2>1. Again(w)' = 0
      BY <1>6 DEF Again
    <2>2. PICK u \in others : u = v
      BY <1>1, <1>6
    <2>3. /\ Turns(others) = Turns(others \ {u}) + ReconcileTime
          /\ Turns(others \ {u}) \in Nat
      BY <1>1, <1>2, TurnsWithout, TurnsTyped
    <2>4. idle'[w] + (Left(k)' + Turns(others \ {u})) + ReconcileTime <= Period + Round(w) + allowance'[w]
      BY <1>1, <1>2, <2>1, <2>3, Numbers
    <2>5. WaitsBehind(w, others \ {u})'
      BY <1>6, <2>2, <2>4 DEF WaitsBehind
    <2> QED
      BY <1>3, <2>5
  <1> QED
    BY <1>4, <1>5, <1>6

\* What does not touch the worker and the entries of a kind leaves it on schedule.
LEMMA Elsewhere ==
  ASSUME Basics, Basics', NEW w \in Watches, OnSchedule(w),
         leading' = leading, lease' = lease,
         running'[KindOf(w)] = running[KindOf(w)], spent'[KindOf(w)] = spent[KindOf(w)],
         \A v \in Peers(w) : ready'[v] = ready[v],
         idle'[w] = idle[w], allowance'[w] >= allowance[w],
         disturbed'[w] = disturbed[w]
  PROVE  OnSchedule(w)'
  <1> DEFINE k == KindOf(w)
  <1>1. /\ w \in Peers(w) /\ Round(w) \in Nat /\ IsFiniteSet(Peers(w))
    BY PeersOf, RoundTyped
  <1>2. /\ idle[w] \in Nat /\ allowance[w] \in Nat /\ allowance'[w] \in Nat
        /\ ready[w] \in Int /\ Again(w) \in Nat /\ lease \in Nat
        /\ running[k] = Nobody \/ running[k] \in Peers(w)
    BY WatchTyped, Numbers DEF Basics, TypeOK
  <1>3. Left(k)' = Left(k) /\ Left(k) \in Nat
    BY WatchTyped, Numbers DEF Left
  <1>4. Again(w)' = Again(w)
    BY <1>2 DEF Again
  <1>5. Slack(w)' = Slack(w)
    BY DEF Slack
  <1>6. CASE Leaderless(w)
    BY <1>2, <1>6, Numbers DEF OnSchedule, Leaderless
  <1>7. CASE Reconciled(w)
    BY <1>1, <1>2, <1>3, <1>7, Numbers DEF OnSchedule, Reconciled
  <1>8. CASE Scheduled(w)
    BY <1>1, <1>2, <1>4, <1>8, Numbers DEF OnSchedule, Scheduled
  <1>9. CASE Waiting(w)
    <2>1. PICK ahead \in SUBSET (Peers(w) \ {w}) : WaitsBehind(w, ahead)
      BY <1>9 DEF Waiting
    <2>2. Turns(ahead) \in Nat
      BY <1>1, TurnsMonotonic
    <2>3. \A v \in Peers(w) : ready[v] \in Int
      BY WatchTyped, PeersOf
    <2>4. idle'[w] + (Left(k)' + Turns(ahead)) + ReconcileTime <= Period + Round(w) + allowance'[w]
      BY <1>1, <1>2, <1>3, <2>1, <2>2, Numbers DEF WaitsBehind
    <2>5. ASSUME NEW v \in Peers(w) \ (ahead \cup {w})
          PROVE  \/ running'[k] = v /\ ready'[v] = Never
                 \/ ready'[v] > Left(k)' + Turns(ahead) + Slack(w)'
      BY <1>3, <1>5, <2>1, <2>2, <2>3, <2>5 DEF WaitsBehind
    <2>6. WaitsBehind(w, ahead)'
      BY <2>4, <2>5 DEF WaitsBehind
    <2> QED
      BY <1>1, <1>9, <2>6 DEF OnSchedule, Waiting
  <1> QED
    BY <1>6, <1>7, <1>8, <1>9 DEF OnSchedule

\* An edit makes the watch ready, and its peers wait for one reconcile more.
LEMMA OnScheduleEdit ==
  ASSUME Basics, Basics', NEW v \in Watches, UserEdits(v), NEW w \in Watches, OnSchedule(w),
         disturbed'[w] <= MaxDisturbances
  PROVE  OnSchedule(w)'
  <1> DEFINE k == KindOf(w)
  <1>1. /\ leading /\ leading' /\ lease' = lease /\ running' = running /\ spent' = spent
        /\ idle' = idle
        /\ ready' = [ready EXCEPT ![v] = 0]
    <2>1. Entry(v, 0) = 0
      BY WatchTyped DEF Entry, Never
    <2> QED
      BY <2>1 DEF UserEdits, processVars, workerVars
  <1>2. /\ allowance'[w] = allowance[w] + (IF w \in Peers(v) \ {v} THEN ReconcileTime ELSE 0)
        /\ disturbed'[w] = disturbed[w] + (IF w \in Peers(v) \ {v} THEN 1 ELSE 0)
    BY DEF UserEdits, Allow, DisturbPeers, Basics, TypeOK
  <1>3. /\ ready[w] \in Int /\ ready[w] >= Never
        /\ idle[w] \in Nat /\ allowance[w] \in Nat
        /\ running[k] = Nobody \/ running[k] \in Peers(w)
        /\ Left(k) \in 0..ReconcileTime
        /\ Again(w) \in {0, ReconcileTime}
    BY WatchTyped
  <1>4. Left(k)' = Left(k)
    BY <1>1 DEF Left
  <1>5. DOMAIN ready = Watches /\ Peers(w) \subseteq Watches
    BY PeersOf DEF Basics, TypeOK
  <1>6. CASE KindOf(v) # KindOf(w)
    <2>1. \A u \in Peers(w) : ready'[u] = ready[u]
      BY <1>1, <1>6 DEF Peers
    <2>2. w \notin Peers(v) /\ disturbed[w] \in Nat
      BY <1>6 DEF Peers, Basics, TypeOK
    <2>3. allowance'[w] = allowance[w] /\ disturbed'[w] = disturbed[w]
      BY <1>2, <1>3, <2>2
    <2> QED
      BY <1>1, <1>3, <2>1, <2>3, Elsewhere
  <1>7. CASE v = w
    <2>1. allowance'[w] = allowance[w] /\ disturbed'[w] = disturbed[w]
      BY <1>2, <1>3, <1>7 DEF Basics, TypeOK
    <2>2. CASE Reconciled(w)
      BY <1>1, <1>4, <2>1, <2>2 DEF OnSchedule, Reconciled
    <2>3. CASE Waiting(w)
      <3>1. ready' = ready
        BY <1>1, <1>7, <2>3, <1>5 DEF Waiting, Basics, TypeOK
      <3> QED
        BY <1>1, <2>1, <3>1, <1>3, Elsewhere
    <2>4. CASE Scheduled(w)
      <3>1. Again(w)' = Again(w)
        BY <1>1, <1>3, <1>5, <1>7 DEF Again
      <3>2. ready'[w] = 0
        BY <1>1, <1>5, <1>7
      <3> QED
        BY <1>1, <1>3, <2>1, <2>4, <3>1, <3>2, BecomesReady, Numbers DEF Scheduled
    <2> QED
      BY <1>1, <2>2, <2>3, <2>4 DEF OnSchedule, Leaderless
  <1>8. CASE v # w /\ KindOf(v) = KindOf(w)
    <2>1. /\ v \in Peers(w) \ {w}
          /\ allowance'[w] = allowance[w] + ReconcileTime
          /\ disturbed'[w] = disturbed[w] + 1
          /\ ready'[w] = ready[w]
      BY <1>1, <1>2, <1>5, <1>8 DEF Peers
    <2>2. Round(w) \in Nat /\ IsFiniteSet(Peers(w))
      BY RoundTyped, PeersOf
    <2>3. CASE Reconciled(w)
      BY <1>1, <1>3, <1>4, <2>1, <2>2, <2>3, Numbers DEF OnSchedule, Reconciled
    <2>4. CASE Scheduled(w)
      <3>1. Again(w)' \in {0, ReconcileTime}
        BY DEF Again
      <3> QED
        BY <1>1, <1>3, <2>1, <2>4, <3>1, Numbers DEF OnSchedule, Scheduled
    <2>5. CASE Waiting(w)
      <3>1. PICK ahead \in SUBSET (Peers(w) \ {w}) : WaitsBehind(w, ahead)
        BY <2>5 DEF Waiting
      <3>2. IsFiniteSet(ahead) /\ Turns(ahead) \in Nat
        BY <2>2, TurnsMonotonic
      <3>3. Slack(w) \in Nat /\ Slack(w)' \in Nat /\ Slack(w) = Slack(w)' + ReconcileTime
        BY <2>1, SlackShrinks DEF Basics, TypeOK
      <3>4. /\ Turns(ahead \cup {v}) \in Nat
            /\ Turns(ahead \cup {v}) <= Turns(ahead) + ReconcileTime
            /\ ahead \cup {v} \in SUBSET (Peers(w) \ {w})
        BY <2>1, <3>2, TurnsWithAny
      <3>5. idle'[w] + (Left(k)' + Turns(ahead \cup {v})) + ReconcileTime
              <= Period + Round(w) + allowance'[w]
        BY <1>1, <1>3, <1>4, <2>1, <2>2, <3>1, <3>2, <3>4, Numbers DEF WaitsBehind
      <3>6. ASSUME NEW u \in Peers(w) \ ((ahead \cup {v}) \cup {w})
            PROVE  \/ running'[k] = u /\ ready'[u] = Never
                   \/ ready'[u] > (Left(k)' + Turns(ahead \cup {v})) + Slack(w)'
        <4>1. ready'[u] = ready[u] /\ ready[u] \in Int
          BY <1>1, <1>5, WatchTyped
        <4> QED
          BY <1>1, <1>3, <1>4, <3>1, <3>2, <3>3, <3>4, <4>1, Numbers DEF WaitsBehind
      <3>7. WaitsBehind(w, ahead \cup {v})'
        BY <3>5, <3>6 DEF WaitsBehind
      <3> QED
        BY <1>1, <2>1, <2>5, <3>4, <3>7 DEF OnSchedule, Waiting
    <2> QED
      BY <1>1, <2>3, <2>4, <2>5 DEF OnSchedule, Leaderless
  <1> QED
    BY <1>6, <1>7, <1>8

\* A worker takes the watch itself, or one of those that are ahead of it.
LEMMA OnScheduleStart ==
  ASSUME Basics, Basics', NEW j \in Kinds, StartReconcile(j), NEW w \in Watches, OnSchedule(w),
         disturbed[w] <= MaxDisturbances
  PROVE  OnSchedule(w)'
  <1> DEFINE k == KindOf(w)
  <1>1. PICK v \in Watches : /\ KindOf(v) = j /\ ready[v] = 0
                             /\ running' = [running EXCEPT ![j] = v]
                             /\ ready' = [ready EXCEPT ![v] = Never]
    BY PeersOf DEF StartReconcile
  <1>2. /\ leading /\ leading' /\ lease' = lease /\ spent' = spent
        /\ idle' = idle /\ allowance' = allowance /\ disturbed' = disturbed
        /\ running[j] = Nobody
    BY DEF StartReconcile, processVars, ghostVars
  <1>3. /\ ready[w] \in Int /\ ready[w] >= Never
        /\ idle[w] \in Nat /\ allowance[w] \in Nat
        /\ disturbed[w] \in 0..MaxDisturbances
    BY WatchTyped DEF Basics, TypeOK
  <1>4. /\ DOMAIN ready = Watches /\ DOMAIN running = Kinds
        /\ Peers(w) \subseteq Watches /\ k \in Kinds
    BY PeersOf DEF Basics, TypeOK
  <1>5. CASE j # k
    <2>1. \A u \in Peers(w) : ready'[u] = ready[u]
      BY <1>1, <1>5 DEF Peers
    <2>2. running'[k] = running[k]
      BY <1>1, <1>4, <1>5
    <2> QED
      BY <1>2, <1>3, <2>1, <2>2, Elsewhere
  <1>6. CASE j = k
    <2>1. /\ running'[k] = v /\ running[k] = Nobody
          /\ ready'[v] = Never
          /\ v \in Peers(w) /\ spent[k] = 0
      BY <1>1, <1>2, <1>4, <1>6 DEF Peers, Basics, WorkersConsistent
    <2>2. Left(k) = 0 /\ Left(k)' = ReconcileTime
      BY <1>2, <2>1, Numbers DEF Left
    <2>3. Round(w) \in Nat /\ IsFiniteSet(Peers(w))
      BY RoundTyped, PeersOf
    <2>4. CASE v = w
      <3>1. Waiting(w)
        BY <1>1, <1>2, <2>1, <2>4, Numbers DEF OnSchedule, Leaderless, Reconciled, Scheduled
      <3>2. PICK ahead \in SUBSET (Peers(w) \ {w}) : WaitsBehind(w, ahead)
        BY <3>1 DEF Waiting
      <3>3. Turns(ahead) \in Nat
        BY <2>3, TurnsMonotonic
      <3> QED
        BY <1>2, <1>3, <2>1, <2>2, <2>3, <2>4, <3>2, <3>3, Numbers
           DEF WaitsBehind, OnSchedule, Reconciled
    <2>5. CASE v # w
      <3>1. ready'[w] = ready[w] /\ w # Nobody
        BY <1>1, <2>5, Numbers
      <3>2. CASE Scheduled(w)
        <4>1. Again(w)' = 0 /\ Again(w) = 0
          BY <2>1 DEF Again
        <4> QED
          BY <1>2, <2>1, <2>5, <3>1, <3>2, <4>1 DEF OnSchedule, Scheduled
      <3>3. CASE Waiting(w)
        <4>1. PICK ahead \in SUBSET (Peers(w) \ {w}) : WaitsBehind(w, ahead)
          BY <3>3 DEF Waiting
        <4>2. IsFiniteSet(ahead) /\ Turns(ahead) \in Nat
          BY <2>3, TurnsMonotonic
        <4>3. Slack(w) \in Nat /\ Slack(w)' = Slack(w)
          BY <1>2, <1>3, RoundFits DEF Slack
        <4>4. v \in ahead
          BY <1>1, <2>1, <2>2, <2>5, <4>1, <4>2, <4>3, Numbers DEF WaitsBehind, Never
        <4>5. Turns(ahead \ {v}) \in Nat /\ Turns(ahead) = Turns(ahead \ {v}) + ReconcileTime
          BY <4>2, <4>4, TurnsWithout, TurnsTyped
        <4>6. Left(k)' + Turns(ahead \ {v}) = Left(k) + Turns(ahead)
          BY <2>2, <4>2, <4>5, Numbers
        <4>7. ASSUME NEW u \in Peers(w) \ ((ahead \ {v}) \cup {w})
              PROVE  \/ running'[k] = u /\ ready'[u] = Never
                     \/ ready'[u] > (Left(k)' + Turns(ahead \ {v})) + Slack(w)'
          <5>1. CASE u = v
            BY <2>1, <5>1
          <5>2. CASE u # v
            <6>1. ready'[u] = ready[u] /\ u # Nobody
              BY <1>1, <1>4, <5>2, Numbers
            <6> QED
              BY <2>1, <4>1, <4>3, <4>6, <5>2, <6>1 DEF WaitsBehind
          <5> QED
            BY <5>1, <5>2
        <4>8. WaitsBehind(w, ahead \ {v})'
          BY <1>2, <4>1, <4>6, <4>7 DEF WaitsBehind
        <4> QED
          BY <1>2, <2>1, <2>5, <3>1, <3>3, <4>8 DEF OnSchedule, Waiting
      <3> QED
        BY <1>2, <2>1, <3>1, <3>2, <3>3 DEF OnSchedule, Leaderless, Reconciled
    <2> QED
      BY <2>4, <2>5
  <1> QED
    BY <1>5, <1>6

\* What every end of a reconcile does to the watch and to the others.
LEMMA Finished ==
  ASSUME Basics, NEW j \in Kinds, running[j] # Nobody,
         NEW delay \in 0..Period \cup 0..MaxBackoff, Finish(j, delay),
         NEW w \in Watches
  PROVE  /\ running[j] \in Watches /\ KindOf(running[j]) = j
         /\ leading' = leading /\ leading /\ lease' = lease
         /\ running' = [running EXCEPT ![j] = Nobody]
         /\ spent' = [spent EXCEPT ![j] = 0]
         /\ w # running[j] => ready'[w] = ready[w]
         /\ w = running[j] /\ ready[w] = Never => ready'[w] = delay
         /\ w = running[j] /\ ready[w] # Never => ready'[w] = delay \/ ready'[w] = ready[w]
         /\ w = running[j] => ready'[w] \in 0..delay
         /\ KindOf(w) = j => running'[KindOf(w)] = Nobody /\ Left(KindOf(w))' = 0 /\ Again(w)' = 0
         /\ KindOf(w) # j => running'[KindOf(w)] = running[KindOf(w)]
                             /\ spent'[KindOf(w)] = spent[KindOf(w)]
  <1>1. running[j] \in Watches /\ KindOf(running[j]) = j /\ leading
    BY PeersOf DEF Basics, TypeOK, WorkersConsistent
  <1>2. DOMAIN running = Kinds /\ DOMAIN spent = Kinds /\ DOMAIN ready = Watches
    BY DEF Basics, TypeOK
  <1>3. /\ running' = [running EXCEPT ![j] = Nobody]
        /\ spent' = [spent EXCEPT ![j] = 0]
        /\ ready' = [ready EXCEPT ![running[j]] = Entry(running[j], delay)]
        /\ leading' = leading /\ lease' = lease
    BY DEF Finish, processVars
  <1>4. /\ Entry(running[j], delay) \in 0..delay
        /\ ready[running[j]] = Never => Entry(running[j], delay) = delay
        /\ ready[running[j]] # Never =>
             Entry(running[j], delay) = delay \/ Entry(running[j], delay) = ready[running[j]]
    <2>1. delay \in Nat
      BY Numbers
    <2>2. Entry(running[j], delay) \in Nat /\ Entry(running[j], delay) <= delay
      BY <1>1, EntryTyped, Numbers DEF Basics
    <2> QED
      BY <1>1, <2>1, <2>2, EntryTyped DEF Basics
  <1>5. KindOf(w) \in Kinds
    BY PeersOf
  <1>6. KindOf(w) = j => running'[KindOf(w)] = Nobody /\ Left(KindOf(w))' = 0 /\ Again(w)' = 0
    BY <1>2, <1>3, <1>5 DEF Left, Again
  <1> QED
    BY <1>1, <1>2, <1>3, <1>4, <1>5, <1>6

\* After a look at the market the watch is due in a period or, if it was edited
\* meanwhile, at once; a peer is not due again before the watch has had its turn.
LEMMA OnScheduleSucceeds ==
  ASSUME Basics, Basics', NEW j \in Kinds, ReconcileSucceeds(j),
         NEW w \in Watches, w # running[j] => OnSchedule(w) /\ disturbed[w] <= MaxDisturbances
  PROVE  OnSchedule(w)'
  <1> DEFINE k == KindOf(w)
             v == running[j]
  <1>1. /\ running[j] # Nobody /\ Finish(j, Period)
        /\ Period \in 0..Period \cup 0..MaxBackoff
    BY Numbers DEF ReconcileSucceeds
  <1>2. /\ v \in Watches /\ KindOf(v) = j
        /\ leading' = leading /\ leading /\ lease' = lease
        /\ running' = [running EXCEPT ![j] = Nobody]
        /\ KindOf(w) = j => running'[k] = Nobody /\ Left(k)' = 0 /\ Again(w)' = 0
        /\ KindOf(w) # j => running'[k] = running[k] /\ spent'[k] = spent[k]
    BY <1>1, Finished
  <1>3. ready' = [u \in Watches |-> IF u = v THEN ready'[v] ELSE ready[u]]
    BY <1>1, <1>2 DEF Finish, Basics, TypeOK
  <1>4. /\ ready'[v] \in 0..Period
        /\ ready[v] = Never => ready'[v] = Period
        /\ ready[v] # Never => ready'[v] = Period \/ ready'[v] = ready[v]
    BY <1>1, <1>2, Finished
  <1>5. /\ idle' = [idle EXCEPT ![v] = 0] /\ allowance' = [allowance EXCEPT ![v] = 0]
        /\ disturbed' = [disturbed EXCEPT ![v] = 0]
        /\ DOMAIN idle = Watches /\ DOMAIN allowance = Watches /\ DOMAIN disturbed = Watches
    BY DEF ReconcileSucceeds, Basics, TypeOK
  <1>6. /\ ready[w] \in Int /\ ready[w] >= Never
        /\ idle[w] \in Nat /\ allowance[w] \in Nat
        /\ w # v => disturbed[w] \in 0..MaxDisturbances
        /\ Left(k) \in 0..ReconcileTime
        /\ Again(w) \in {0, ReconcileTime}
    BY WatchTyped DEF Basics, TypeOK
  <1>7. CASE w = v
    <2>1. idle'[w] = 0 /\ allowance'[w] = 0 /\ Again(w)' = 0 /\ running'[k] # w
      BY <1>2, <1>5, <1>7, Numbers
    <2>2. CASE ready'[w] = 0
      BY <1>2, <2>1, <2>2, BecomesReady, Numbers
    <2>3. CASE ready'[w] > 0
      BY <1>2, <1>4, <1>7, <2>1, <2>3, Numbers DEF OnSchedule, Scheduled
    <2> QED
      BY <1>4, <1>7, <2>2, <2>3, Numbers
  <1>8. CASE w # v /\ KindOf(w) # j
    <2>1. \A u \in Peers(w) : ready'[u] = ready[u]
      BY <1>2, <1>3, <1>8 DEF Peers
    <2>2. idle'[w] = idle[w] /\ allowance'[w] = allowance[w] /\ disturbed'[w] = disturbed[w]
      BY <1>5, <1>8
    <2> QED
      BY <1>1, <1>2, <1>6, <1>8, <2>1, <2>2, Elsewhere
  <1>9. CASE w # v /\ KindOf(w) = j
    <2>1. /\ idle'[w] = idle[w] /\ allowance'[w] = allowance[w] /\ ready'[w] = ready[w]
          /\ disturbed'[w] = disturbed[w]
          /\ v \in Peers(w) \ {w} /\ running[k] = v /\ running'[k] # w
      BY <1>2, <1>3, <1>5, <1>9, Numbers DEF Peers
    <2>2. Round(w) \in Nat /\ IsFiniteSet(Peers(w))
      BY RoundTyped, PeersOf
    <2>3. CASE Scheduled(w)
      BY <1>2, <1>6, <1>9, <2>1, <2>3, Numbers DEF OnSchedule, Scheduled
    <2>4. CASE Waiting(w)
      <3>1. PICK ahead \in SUBSET (Peers(w) \ {w}) : WaitsBehind(w, ahead)
        BY <2>4 DEF Waiting
      <3>2. IsFiniteSet(Peers(w) \ {w}) /\ IsFiniteSet(ahead)
        BY <2>2, FS_Subset
      <3>3. Turns(ahead) \in Nat /\ Turns(ahead) + ReconcileTime <= Round(w)
        BY <3>2, TurnsMonotonic, RoundTyped, Numbers
      <3>4. Slack(w) \in Nat /\ Slack(w)' = Slack(w) /\ Round(w) + Slack(w) <= Period
        BY <1>6, <1>9, <2>1, RoundFits DEF Slack
      <3>5. ASSUME NEW u \in Peers(w) \ (ahead \cup {w})
            PROVE  ready'[u] > (Left(k)' + Turns(ahead)) + Slack(w)'
        <4>1. u \in Watches /\ ready[u] \in Int /\ ready[v] \in Int
          BY <1>2, PeersOf, WatchTyped
        <4>2. CASE u = v
          <5>1. Period > Turns(ahead) + Slack(w)
            BY <2>2, <3>3, <3>4, Numbers
          <5>2. ready[v] = Never \/ ready[v] > Turns(ahead) + Slack(w)
            BY <1>6, <1>9, <3>1, <3>3, <3>4, <4>1, <4>2, Numbers DEF WaitsBehind
          <5>3. ready'[v] > Turns(ahead) + Slack(w)
            BY <1>4, <5>1, <5>2
          <5> QED
            BY <1>2, <1>9, <3>3, <3>4, <4>2, <5>3
        <4>3. CASE u # v
          <5>1. ready'[u] = ready[u]
            BY <1>3, <4>1, <4>3
          <5> QED
            BY <1>2, <1>6, <1>9, <2>1, <3>1, <3>3, <3>4, <4>1, <4>3, <5>1, Numbers DEF WaitsBehind
        <4> QED
          BY <4>2, <4>3
      <3>6. idle'[w] + (Left(k)' + Turns(ahead)) + ReconcileTime <= Period + Round(w) + allowance'[w]
        BY <1>2, <1>6, <1>9, <2>1, <2>2, <3>1, <3>3, Numbers DEF WaitsBehind
      <3>7. WaitsBehind(w, ahead)'
        BY <3>5, <3>6 DEF WaitsBehind
      <3> QED
        BY <1>2, <2>1, <2>4, <3>7 DEF OnSchedule, Waiting
    <2> QED
      BY <1>2, <1>9, <2>1, <2>3, <2>4 DEF OnSchedule, Leaderless, Reconciled
  <1> QED
    BY <1>7, <1>8, <1>9

\* A failure makes the watch due after its backoff, or at once if it was edited, and
\* its peers wait for one reconcile more.
LEMMA OnScheduleFails ==
  ASSUME Basics, Basics', NEW j \in Kinds, ReconcileFails(j), NEW w \in Watches, OnSchedule(w),
         disturbed'[w] <= MaxDisturbances
  PROVE  OnSchedule(w)'
  <1> DEFINE k == KindOf(w)
             v == running[j]
             delay == backoff[v]
  <1>1. v \in Watches /\ KindOf(v) = j /\ v # Nobody
    BY PeersOf DEF ReconcileFails, Basics, TypeOK
  <1>2. delay \in Nat /\ delay \in 0..Period \cup 0..MaxBackoff
    BY <1>1, Numbers DEF Basics, TypeOK
  <1>3. Finish(j, delay) /\ Incident /\ idle' = idle
    BY DEF ReconcileFails
  <1>4. /\ leading' = leading /\ leading /\ lease' = lease
        /\ running' = [running EXCEPT ![j] = Nobody]
        /\ KindOf(w) = j => running'[k] = Nobody /\ Left(k)' = 0 /\ Again(w)' = 0
        /\ KindOf(w) # j => running'[k] = running[k] /\ spent'[k] = spent[k]
    BY <1>1, <1>2, <1>3, Finished
  <1>5. /\ ready' = [u \in Watches |-> IF u = v THEN ready'[v] ELSE ready[u]]
        /\ ready'[v] \in 0..delay
    <2>1. DOMAIN ready = Watches
      BY DEF Basics, TypeOK
    <2>2. ready' = [ready EXCEPT ![v] = Entry(v, delay)]
      BY <1>3 DEF Finish
    <2>3. ready'[v] \in 0..delay
      BY <1>1, <1>2, <1>3, Finished
    <2> QED
      BY <2>1, <2>2, <2>3
  <1>6. /\ allowance'[w] = allowance[w] + (IF w = v THEN delay + Round(w)
                                           ELSE IF w \in Peers(v) THEN ReconcileTime ELSE 0)
        /\ w # v => disturbed'[w] = disturbed[w] + (IF w \in Peers(v) THEN 1 ELSE 0)
    BY <1>1, PeersOf DEF ReconcileFails, Allow, DisturbPeers, Basics, TypeOK
  <1>7. /\ ready[w] \in Int /\ ready[w] >= Never
        /\ idle[w] \in Nat /\ allowance[w] \in Nat
        /\ Left(k) \in 0..ReconcileTime
        /\ Again(w) \in {0, ReconcileTime}
        /\ Round(w) \in Nat /\ IsFiniteSet(Peers(w))
    BY WatchTyped, RoundTyped, PeersOf
  <1>8. CASE w = v
    <2>1. idle[w] + Left(k) <= Period + Round(w) + allowance[w]
      BY <1>1, <1>4, <1>8 DEF OnSchedule, Leaderless, Reconciled, Scheduled, Waiting
    <2>2. idle[w] + delay <= Period + allowance'[w]
      BY <1>2, <1>6, <1>7, <1>8, <2>1, Numbers
    <2>3. Again(w)' = 0 /\ running'[k] # w
      BY <1>1, <1>4, <1>8
    <2>4. CASE ready'[w] = 0
      BY <1>2, <1>3, <1>4, <1>6, <1>7, <2>2, <2>3, <2>4, BecomesReady, Numbers
    <2>5. CASE ready'[w] > 0
      <3>1. ready'[w] <= delay /\ ready'[w] \in Int /\ allowance'[w] \in Int
        BY <1>2, <1>5, <1>6, <1>7, <1>8
      <3> QED
        BY <1>2, <1>3, <1>4, <1>7, <2>2, <2>3, <2>5, <3>1, Numbers DEF OnSchedule, Scheduled
    <2> QED
      BY <1>2, <1>5, <1>8, <2>4, <2>5
  <1>9. CASE w # v /\ KindOf(w) # j
    <2>1. \A u \in Peers(w) : ready'[u] = ready[u]
      BY <1>1, <1>5, <1>9 DEF Peers
    <2>2. w \notin Peers(v) /\ disturbed[w] \in Nat
      BY <1>1, <1>9 DEF Peers, Basics, TypeOK
    <2>3. allowance'[w] = allowance[w] /\ disturbed'[w] = disturbed[w]
      BY <1>6, <1>7, <1>9, <2>2
    <2> QED
      BY <1>3, <1>4, <1>7, <1>9, <2>1, <2>3, Elsewhere
  <1>10. CASE w # v /\ KindOf(w) = j
    <2>1. /\ v \in Peers(w) \ {w} /\ w \in Peers(v)
          /\ allowance'[w] = allowance[w] + ReconcileTime /\ ready'[w] = ready[w]
          /\ running[k] = v /\ running'[k] # w
          /\ disturbed'[w] = disturbed[w] + 1
      BY <1>1, <1>4, <1>5, <1>6, <1>10, Numbers DEF Peers
    <2>2. CASE Scheduled(w)
      BY <1>3, <1>4, <1>7, <1>10, <2>1, <2>2, Numbers DEF OnSchedule, Scheduled
    <2>3. CASE Waiting(w)
      <3>1. PICK ahead \in SUBSET (Peers(w) \ {w}) : WaitsBehind(w, ahead)
        BY <2>3 DEF Waiting
      <3>2. IsFiniteSet(ahead) /\ Turns(ahead) \in Nat
        BY <1>7, TurnsMonotonic
      <3>3. Slack(w) \in Nat /\ Slack(w)' \in Nat /\ Slack(w) = Slack(w)' + ReconcileTime
        BY <2>1, SlackShrinks DEF Basics, TypeOK
      <3>4. /\ Turns(ahead \cup {v}) \in Nat
            /\ Turns(ahead \cup {v}) <= Turns(ahead) + ReconcileTime
            /\ ahead \cup {v} \in SUBSET (Peers(w) \ {w})
        BY <2>1, <3>2, TurnsWithAny
      <3>5. idle'[w] + (Left(k)' + Turns(ahead \cup {v})) + ReconcileTime
              <= Period + Round(w) + allowance'[w]
        BY <1>3, <1>4, <1>7, <1>10, <2>1, <3>1, <3>2, <3>4, Numbers DEF WaitsBehind
      <3>6. ASSUME NEW u \in Peers(w) \ ((ahead \cup {v}) \cup {w})
            PROVE  ready'[u] > (Left(k)' + Turns(ahead \cup {v})) + Slack(w)'
        <4>1. ready'[u] = ready[u] /\ ready[u] \in Int
          BY <1>5, WatchTyped, PeersOf
        <4> QED
          BY <1>4, <1>7, <1>10, <2>1, <3>1, <3>2, <3>3, <3>4, <4>1, Numbers DEF WaitsBehind
      <3>7. PICK more \in SUBSET (Peers(w) \ {w}) : more = ahead \cup {v}
        BY <3>4
      <3>8. WaitsBehind(w, more)'
        BY <3>5, <3>6, <3>7 DEF WaitsBehind
      <3> QED
        BY <1>4, <2>1, <2>3, <3>8 DEF OnSchedule, Waiting
    <2> QED
      BY <1>4, <2>1, <2>2, <2>3, <1>10 DEF OnSchedule, Leaderless, Reconciled
  <1> QED
    BY <1>8, <1>9, <1>10

\* The next process looks after everything once the lease has run out.
LEMMA OnScheduleEnds ==
  ASSUME Basics, Basics', ProcessEnds, NEW w \in Watches, OnSchedule(w)
  PROVE  OnSchedule(w)'
  <1>1. /\ idle[w] \in Nat /\ allowance[w] \in Nat /\ ready[w] \in Int /\ Round(w) \in Nat
        /\ Left(KindOf(w)) \in 0..ReconcileTime /\ Again(w) \in {0, ReconcileTime}
        /\ IsFiniteSet(Peers(w))
    BY WatchTyped, RoundTyped, PeersOf
  <1>2. idle[w] <= Period + Round(w) + allowance[w]
    <2>1. CASE Waiting(w)
      <3>1. PICK ahead \in SUBSET (Peers(w) \ {w}) : WaitsBehind(w, ahead)
        BY <2>1 DEF Waiting
      <3>2. Turns(ahead) \in Nat
        BY <1>1, TurnsMonotonic
      <3> QED
        BY <1>1, <3>1, <3>2, Numbers DEF WaitsBehind
    <2> QED
      BY <1>1, <2>1, Numbers DEF OnSchedule, Leaderless, Reconciled, Scheduled, ProcessEnds
  <1>3. /\ ~leading' /\ lease' \in 0..LeaseDuration /\ idle' = idle
        /\ allowance'[w] = allowance[w] + (LeaseDuration + Round(w))
    BY DEF ProcessEnds, Allow
  <1> QED
    BY <1>1, <1>2, <1>3, Numbers DEF OnSchedule, Leaderless

\* A new process puts every watch on schedule.
LEMMA OnScheduleLeads ==
  ASSUME Basics, Basics', NextProcessLeads, NEW w \in Watches, OnSchedule(w)
  PROVE  OnSchedule(w)'
  <1>1. idle[w] \in Nat /\ allowance[w] \in Nat /\ KindOf(w) \in Kinds
    BY WatchTyped, PeersOf
  <1>2. /\ leading' /\ ready'[w] = 0 /\ idle' = idle /\ allowance' = allowance
        /\ running' = running /\ running[KindOf(w)] = Nobody /\ ~leading /\ lease = 0
    BY <1>1 DEF NextProcessLeads, workerVars, ghostVars, Basics, WorkersConsistent
  <1>3. Again(w)' = 0 /\ Nobody # w
    BY <1>2, Numbers DEF Again
  <1>4. idle'[w] + Again(w)' <= Period + allowance'[w]
    BY <1>1, <1>2, <1>3, Numbers DEF OnSchedule, Leaderless, Reconciled, Scheduled, Waiting
  <1> QED
    BY <1>2, <1>3, <1>4, BecomesReady

\* Time passes for the watch only while its worker makes as much progress.
LEMMA OnScheduleTick ==
  ASSUME Basics, Basics', Tick, NEW w \in Watches, OnSchedule(w), ~excused'[w],
         disturbed[w] <= MaxDisturbances
  PROVE  OnSchedule(w)'
  <1> DEFINE k == KindOf(w)
             v == running[k]
  <1>1. /\ idle[w] \in Nat /\ allowance[w] \in Nat
        /\ ready[w] \in Int /\ ready[w] >= Never /\ Round(w) \in Nat
        /\ Left(k) \in 0..ReconcileTime /\ Again(w) \in {0, ReconcileTime}
        /\ IsFiniteSet(Peers(w)) /\ k \in Kinds /\ WorkerOf(w) = k
        /\ v = Nobody \/ v \in Peers(w)
    BY WatchTyped, RoundTyped, PeersOf
  <1>2. /\ leading' = leading /\ running' = running /\ allowance' = allowance
        /\ disturbed' = disturbed /\ disturbed[w] \in 0..MaxDisturbances
        /\ \A u \in Watches : ready'[u] = IF ready[u] > 0 THEN ready[u] - 1 ELSE ready[u]
        /\ \A u \in Watches : ready[u] \in Int
    BY WatchTyped DEF Tick, Basics, TypeOK
  <1>3. ~Stalled(w) /\ idle'[w] = idle[w] + 1
    BY <1>1 DEF Tick
  <1>4. v # Nobody => ~hung[k]
    BY <1>1, <1>3 DEF Stalled
  <1>5. spent[k] \in 0..ReconcileTime /\ spent'[k] = IF v = Nobody \/ hung[k] THEN spent[k] ELSE spent[k] + 1
    BY <1>1 DEF Tick, Basics, TypeOK
  <1>6. leading /\ v # Nobody => Left(k)' = Left(k) - 1 /\ Left(k) \in 1..ReconcileTime
    <2>1. leading /\ v # Nobody => spent[k] < ReconcileTime
      BY <1>1, <1>4 DEF Tick, WorkersKeepUp
    <2> QED
      BY <1>2, <1>4, <1>5, <2>1, Numbers DEF Left
  <1>7. Peers(w) \subseteq Watches
    BY PeersOf
  <1>8. CASE Leaderless(w)
    <2>1. lease > 0 /\ lease' = lease - 1 /\ lease \in Nat
      BY <1>8, Numbers DEF Leaderless, Tick, Basics, TypeOK
    <2> QED
      BY <1>1, <1>2, <1>3, <1>8, <2>1, Numbers DEF OnSchedule, Leaderless
  <1>9. CASE Reconciled(w)
    <2>1. v = w /\ w # Nobody
      BY <1>9, Numbers DEF Reconciled
    <2> QED
      BY <1>1, <1>2, <1>3, <1>6, <1>9, <2>1, Numbers DEF OnSchedule, Reconciled
  <1>10. CASE Scheduled(w)
    <2>1. Again(w)' = Again(w)
      BY <1>1, <1>2, <1>7 DEF Again, Never
    <2>2. ready'[w] = ready[w] - 1 /\ idle'[w] + ready'[w] + Again(w)' <= Period + allowance'[w]
      BY <1>1, <1>2, <1>3, <1>10, <2>1, Numbers DEF Scheduled
    <2>3. CASE ready'[w] = 0
      BY <1>2, <1>10, <2>2, <2>3, <1>1, <1>3, <2>1, BecomesReady, Numbers DEF Scheduled
    <2>4. CASE ready'[w] # 0
      BY <1>1, <1>2, <1>10, <2>2, <2>4, Numbers DEF OnSchedule, Scheduled
    <2> QED
      BY <2>3, <2>4
  <1>11. CASE Waiting(w)
    <2>1. leading /\ ready[w] = 0 /\ v # Nobody
      BY <1>1, <1>11 DEF Waiting, Tick, WorkersKeepUp
    <2>2. PICK ahead \in SUBSET (Peers(w) \ {w}) : WaitsBehind(w, ahead)
      BY <1>11 DEF Waiting
    <2>3. Turns(ahead) \in Nat /\ Slack(w) \in Nat /\ Slack(w)' = Slack(w)
      BY <1>1, <1>2, TurnsMonotonic, RoundFits DEF Slack
    <2>4. idle'[w] + (Left(k)' + Turns(ahead)) + ReconcileTime <= Period + Round(w) + allowance'[w]
      BY <1>1, <1>2, <1>3, <1>6, <2>1, <2>2, <2>3, Numbers DEF WaitsBehind
    <2>5. ASSUME NEW u \in Peers(w) \ (ahead \cup {w})
          PROVE  \/ running'[k] = u /\ ready'[u] = Never
                 \/ ready'[u] > (Left(k)' + Turns(ahead)) + Slack(w)'
      <3>1. CASE running[k] = u /\ ready[u] = Never
        BY <1>2, <1>7, <3>1 DEF Never
      <3>2. CASE ready[u] > (Left(k) + Turns(ahead)) + Slack(w)
        BY <1>1, <1>2, <1>6, <1>7, <2>1, <2>3, <3>2, Numbers
      <3> QED
        BY <2>2, <3>1, <3>2 DEF WaitsBehind
    <2>6. WaitsBehind(w, ahead)'
      BY <2>4, <2>5 DEF WaitsBehind
    <2> QED
      BY <1>2, <1>11, <2>1, <2>6 DEF OnSchedule, Waiting
  <1> QED
    BY <1>8, <1>9, <1>10, <1>11 DEF OnSchedule

-----------------------------------------------------------------------------
(* The invariant, and what it says of the time without a look. *)

\* Every watch starts on schedule.
LEMMA IInvInit == Init => IInv
  <1> SUFFICES ASSUME Init PROVE IInv
    OBVIOUS
  <1>1. Basics
    BY BasicsInit
  <1>2. ASSUME NEW w \in Watches PROVE disturbed[w] <= MaxDisturbances /\ OnSchedule(w)
    <2>1. Round(w) = Turns(Peers(w) \ {w}) + ReconcileTime /\ Turns(Peers(w) \ {w}) \in Nat
          /\ KindOf(w) \in Kinds /\ w # Nobody
      BY RoundTyped, PeersOf, Numbers
    <2>2. /\ idle[w] = 0 /\ allowance[w] = 0 /\ disturbed[w] = 0 /\ ready[w] = 0 /\ leading
          /\ running[KindOf(w)] = Nobody /\ Left(KindOf(w)) = 0
      BY <2>1 DEF Init, Left
    <2>3. WaitsBehind(w, Peers(w) \ {w})
      BY <2>1, <2>2, Numbers DEF WaitsBehind
    <2> QED
      BY <2>1, <2>2, <2>3, Numbers DEF OnSchedule, Waiting
  <1> QED
    BY <1>1, <1>2 DEF IInv, Basics

\* A watch that is not excused after an incident had room for it before.
LEMMA NotTooDisturbed ==
  ASSUME TypeOK', NEW v \in Watches, NEW own, DisturbPeers(v, own),
         NEW w \in Watches, ~excused'[w]
  PROVE  ~excused[w] /\ disturbed'[w] <= MaxDisturbances
  <1>1. disturbed'[w] \in Nat
    BY DEF TypeOK
  <1>2. ~(excused[w] \/ disturbed'[w] > MaxDisturbances)
    BY Zenon DEF DisturbPeers
  <1> QED
    BY <1>1, <1>2, Numbers

\* Every step keeps every watch on schedule.
LEMMA IInvStep == IInv /\ [Next]_vars => IInv'
  <1> SUFFICES ASSUME IInv, [Next]_vars PROVE IInv'
    OBVIOUS
  <1>1. Basics /\ Basics'
    BY BasicsStep DEF IInv, Basics
  <1>2. ASSUME NEW w \in Watches, ~excused'[w]
        PROVE  disturbed'[w] <= MaxDisturbances /\ OnSchedule(w)'
    <2>1. /\ excused[w] \/ (disturbed[w] <= MaxDisturbances /\ OnSchedule(w))
          /\ allowance[w] \in Nat
      BY <1>1 DEF IInv, Basics, TypeOK
    <2>2. CASE UNCHANGED vars
      <3>1. UNCHANGED <<leading, lease, running, spent, ready, ghostVars>>
        BY <2>2 DEF vars, processVars, workerVars
      <3> QED
        BY <1>1, <1>2, <2>1, <3>1, Elsewhere DEF ghostVars
    <2>3. ASSUME NEW v \in Watches, UserEdits(v)
          PROVE  disturbed'[w] <= MaxDisturbances /\ OnSchedule(w)'
      <3>1. ~excused[w] /\ disturbed'[w] <= MaxDisturbances
        BY <1>1, <1>2, <2>3, NotTooDisturbed DEF UserEdits, Basics
      <3> QED
        BY <1>1, <2>1, <2>3, <3>1, OnScheduleEdit
    <2>4. ASSUME NEW k \in Kinds, StartReconcile(k)
          PROVE  disturbed'[w] <= MaxDisturbances /\ OnSchedule(w)'
      <3>1. excused' = excused /\ disturbed' = disturbed
        BY <2>4 DEF StartReconcile, ghostVars
      <3> QED
        BY <1>1, <1>2, <2>1, <2>4, <3>1, OnScheduleStart
    <2>5. ASSUME NEW k \in Kinds, ReconcileSucceeds(k)
          PROVE  disturbed'[w] <= MaxDisturbances /\ OnSchedule(w)'
      <3>1. /\ w # running[k] => excused'[w] = excused[w] /\ disturbed'[w] = disturbed[w]
            /\ w = running[k] => disturbed'[w] = 0
        BY <1>1, <2>5 DEF ReconcileSucceeds, Basics, TypeOK
      <3> QED
        BY <1>1, <1>2, <2>1, <2>5, <3>1, OnScheduleSucceeds, Numbers
    <2>6. ASSUME NEW k \in Kinds, ReconcileFails(k)
          PROVE  disturbed'[w] <= MaxDisturbances /\ OnSchedule(w)'
      <3>1. ~excused[w] /\ disturbed'[w] <= MaxDisturbances
        <4>1. running[k] \in Watches /\ DisturbPeers(running[k], 0)
          BY <1>1, <2>6 DEF ReconcileFails, Basics, TypeOK
        <4> QED
          BY <1>1, <1>2, <4>1, NotTooDisturbed DEF Basics
      <3> QED
        BY <1>1, <2>1, <2>6, <3>1, OnScheduleFails
    <2>7. ASSUME NEW k \in Kinds, CallHangs(k)
          PROVE  disturbed'[w] <= MaxDisturbances /\ OnSchedule(w)'
      <3>1. UNCHANGED <<leading, lease, running, spent, ready, ghostVars>>
        BY <2>7 DEF CallHangs, processVars
      <3> QED
        BY <1>1, <1>2, <2>1, <3>1, Elsewhere DEF ghostVars
    <2>8. CASE ProcessEnds
      <3>1. excused' = excused /\ disturbed' = disturbed
        BY <2>8 DEF ProcessEnds
      <3> QED
        BY <1>1, <1>2, <2>1, <2>8, <3>1, OnScheduleEnds
    <2>9. CASE NextProcessLeads
      <3>1. excused' = excused /\ disturbed' = disturbed
        BY <2>9 DEF NextProcessLeads, ghostVars
      <3> QED
        BY <1>1, <1>2, <2>1, <2>9, <3>1, OnScheduleLeads
    <2>10. CASE Tick
      <3>1. ~excused[w] /\ disturbed' = disturbed
        BY <1>2, <2>10 DEF Tick
      <3> QED
        BY <1>1, <1>2, <2>1, <2>10, <3>1, OnScheduleTick
    <2> QED
      BY <2>2, <2>3, <2>4, <2>5, <2>6, <2>7, <2>8, <2>9, <2>10 DEF Next
  <1> QED
    BY <1>1, <1>2 DEF IInv, Basics

\* In every reachable state every watch is on schedule, for any watches, incidents
\* and bounds.
THEOREM InductiveInvariant == Spec => []IInv
  BY IInvInit, IInvStep, PTL DEF Spec

\* A watch on schedule has been looked at in time.
LEMMA OnScheduleInTime ==
  ASSUME IInv
  PROVE  LookedAtInTime
  <1> SUFFICES ASSUME NEW w \in Watches, ~excused[w]
               PROVE  idle[w] <= Period + Round(w) + allowance[w]
    BY DEF LookedAtInTime
  <1>1. /\ idle[w] \in Nat /\ allowance[w] \in Nat /\ ready[w] \in Int /\ Round(w) \in Nat
        /\ Left(KindOf(w)) \in 0..ReconcileTime /\ Again(w) \in {0, ReconcileTime}
        /\ IsFiniteSet(Peers(w))
    BY WatchTyped, RoundTyped, PeersOf DEF IInv, Basics
  <1>2. OnSchedule(w) /\ lease \in Nat
    BY Numbers DEF IInv, TypeOK
  <1>3. CASE Waiting(w)
    <2>1. PICK ahead \in SUBSET (Peers(w) \ {w}) : WaitsBehind(w, ahead)
      BY <1>3 DEF Waiting
    <2>2. Turns(ahead) \in Nat
      BY <1>1, TurnsMonotonic
    <2> QED
      BY <1>1, <2>1, <2>2, Numbers DEF WaitsBehind
  <1> QED
    BY <1>1, <1>2, <1>3, Numbers DEF OnSchedule, Leaderless, Reconciled, Scheduled

\* No watch goes without a look at the market for longer than the period, a round of
\* its worker and what incidents may cost it, except while a call of its kind hangs
\* (itempricewatch_controller.go:71-80, main.go:215-233).
THEOREM LookedAt == Spec => []LookedAtInTime
  BY InductiveInvariant, OnScheduleInTime, PTL

=============================================================================
