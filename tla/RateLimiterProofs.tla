-------------------------- MODULE RateLimiterProofs --------------------------
(***************************************************************************)
(* The bounds on the requests the market sees and on the wait for a token, *)
(* for every number of workers, every Interval and an unbounded clock.     *)
(***************************************************************************)
EXTENDS RateLimiter, FiniteSetTheorems, TLAPS

-----------------------------------------------------------------------------
(* The inductive invariant behind WindowBound.                               *)

\* Two points in time are at least one Interval apart.
Apart(a, b) == a + Interval <= b \/ b + Interval <= a

\* A request is sent after its token is due, and its token is one of those the
\* limiter has given out.
LogIsPast ==
    \A r \in log : r.due <= r.at /\ r.at <= time /\ r.due + Interval <= next

\* Tokens are an Interval apart, and a worker asks for its next token only
\* after it sent the request of the one before.
LogIsSpaced ==
    \A r, s \in log : r # s =>
        /\ Apart(r.due, s.due)
        /\ r.by = s.by => r.at <= s.due \/ s.at <= r.due

\* The same, of the tokens that wait to be used.
GrantsAreSpaced ==
    \A w \in Workers : pc[w] = "wait" =>
        /\ grant[w] + Interval <= next
        /\ \A r \in log : Apart(grant[w], r.due) /\ (r.by = w => r.at <= grant[w])
        /\ \A v \in Workers \ {w} : pc[v] = "wait" => Apart(grant[w], grant[v])

IInv == TypeOK /\ LogIsPast /\ LogIsSpaced /\ GrantsAreSpaced

\* Behind WaitBound: whoever holds a token that is not due yet waits for it, and
\* none of them is missing between now and the next one.
TokensAreHeld ==
    \A k \in 1..next : time < next - k * Interval =>
        \E w \in Workers : pc[w] = "wait" /\ grant[w] = next - k * Interval

-----------------------------------------------------------------------------
\* The limiter starts with nothing granted.
LEMMA IInvInit == Init => IInv
  <1> SUFFICES ASSUME Init PROVE IInv
    OBVIOUS
  <1>1. TypeOK
    BY DEF Init, TypeOK, Requests
  <1> QED
    BY <1>1 DEF Init, IInv, LogIsPast, LogIsSpaced, GrantsAreSpaced

\* A token is granted no earlier than the limiter has one.
LEMMA LaterIsLater ==
  ASSUME NEW a \in Nat, NEW b \in Nat
  PROVE  Later(a, b) \in Nat /\ Later(a, b) >= a /\ Later(a, b) >= b
  BY DEF Later

\* A new token is an Interval or more after every one before it.
LEMMA ReserveStep ==
  ASSUME IInv, NEW w \in Workers, Reserve(w)
  PROVE  IInv'
  <1> USE LimiterAssumption DEF LimiterAssumption
  <1> DEFINE g == Later(time, next)
  <1>1. g \in Nat /\ g >= time /\ g >= next
    BY LaterIsLater DEF IInv, TypeOK
  <1>2. next' = g + Interval /\ grant' = [grant EXCEPT ![w] = g] /\ log' = log /\ time' = time
    BY DEF Reserve
  <1>3. pc' = [pc EXCEPT ![w] = "wait"] /\ asked' = [asked EXCEPT ![w] = time]
    BY DEF Reserve
  <1> HIDE DEF g
  <1>4. TypeOK'
    BY <1>1, <1>2, <1>3 DEF IInv, TypeOK
  <1>5. LogIsPast'
    BY <1>1, <1>2 DEF IInv, TypeOK, LogIsPast, Requests
  <1>6. LogIsSpaced'
    BY <1>2 DEF IInv, LogIsSpaced, Apart
  <1>7. \A r \in log : r.due + Interval <= g /\ r.at <= g
    BY <1>1 DEF IInv, TypeOK, LogIsPast, Requests
  <1>8. \A v \in Workers \ {w} : pc[v] = "wait" => grant[v] + Interval <= g
    BY <1>1 DEF IInv, TypeOK, GrantsAreSpaced
  <1>9. GrantsAreSpaced'
    <2> SUFFICES ASSUME NEW u \in Workers, pc'[u] = "wait"
                 PROVE  /\ grant'[u] + Interval <= next'
                        /\ \A r \in log : Apart(grant'[u], r.due) /\ (r.by = u => r.at <= grant'[u])
                        /\ \A v \in Workers \ {u} : pc'[v] = "wait" => Apart(grant'[u], grant'[v])
      BY <1>2 DEF GrantsAreSpaced, Apart
    <2>1. CASE u = w
      BY <2>1, <1>1, <1>2, <1>3, <1>7, <1>8 DEF IInv, TypeOK, Apart, Requests
    <2>2. CASE u # w
      BY <2>2, <1>1, <1>2, <1>3, <1>8 DEF IInv, TypeOK, Apart, GrantsAreSpaced
    <2> QED
      BY <2>1, <2>2
  <1> QED
    BY <1>4, <1>5, <1>6, <1>9 DEF IInv

\* The request sent takes the place of its token.
LEMMA SendStep ==
  ASSUME IInv, NEW w \in Workers, SendRequest(w)
  PROVE  IInv'
  <1> USE LimiterAssumption DEF LimiterAssumption
  <1> DEFINE q == [by |-> w, due |-> grant[w], at |-> time]
  <1>1. log' = log \cup {q} /\ q.by = w /\ q.due = grant[w] /\ q.at = time
    BY DEF SendRequest
  <1>2. q \in Requests
    BY DEF IInv, TypeOK, Requests
  <1> HIDE DEF q
  <1>3. TypeOK'
    BY <1>1, <1>2 DEF IInv, TypeOK, SendRequest
  <1>4. LogIsPast'
    BY <1>1 DEF IInv, TypeOK, SendRequest, LogIsPast, GrantsAreSpaced
  <1>5. \A r \in log : Apart(q.due, r.due) /\ (r.by = q.by => r.at <= q.due)
    BY <1>1 DEF IInv, SendRequest, GrantsAreSpaced
  <1>6. LogIsSpaced'
    <2> SUFFICES ASSUME NEW r \in log', NEW s \in log', r # s
                 PROVE  Apart(r.due, s.due) /\ (r.by = s.by => r.at <= s.due \/ s.at <= r.due)
      BY DEF LogIsSpaced, Apart
    <2>1. CASE r \in log /\ s \in log
      BY <2>1 DEF IInv, LogIsSpaced
    <2>2. CASE r = q /\ s \in log
      BY <2>2, <1>5
    <2>3. CASE s = q /\ r \in log
      BY <2>3, <1>5 DEF Apart
    <2> QED
      BY <1>1, <2>1, <2>2, <2>3
  <1>7. GrantsAreSpaced'
    <2> SUFFICES ASSUME NEW u \in Workers, pc'[u] = "wait"
                 PROVE  /\ grant[u] + Interval <= next
                        /\ \A r \in log' : Apart(grant[u], r.due) /\ (r.by = u => r.at <= grant[u])
                        /\ \A v \in Workers \ {u} : pc'[v] = "wait" => Apart(grant[u], grant[v])
      BY DEF GrantsAreSpaced, Apart, SendRequest
    <2>1. u # w /\ pc[u] = "wait" /\ pc[w] = "wait"
      BY DEF IInv, TypeOK, SendRequest
    <2>2. grant[u] + Interval <= next
      BY <2>1 DEF IInv, GrantsAreSpaced
    <2>3. \A r \in log' : Apart(grant[u], r.due) /\ (r.by = u => r.at <= grant[u])
      BY <2>1, <1>1 DEF IInv, GrantsAreSpaced
    <2>4. \A v \in Workers \ {u} : pc'[v] = "wait" => Apart(grant[u], grant[v])
      BY <2>1 DEF IInv, TypeOK, GrantsAreSpaced, SendRequest
    <2> QED
      BY <2>2, <2>3, <2>4
  <1> QED
    BY <1>3, <1>4, <1>6, <1>7 DEF IInv

\* Every step keeps the tokens an interval apart.
LEMMA IInvStep == IInv /\ [Next]_vars => IInv'
  <1> SUFFICES ASSUME IInv, [Next]_vars PROVE IInv'
    OBVIOUS
  <1>1. CASE \E w \in Workers : Reserve(w)
    BY <1>1, ReserveStep
  <1>2. CASE \E w \in Workers : SendRequest(w)
    BY <1>2, SendStep
  <1>3. CASE \E w \in Workers : Respond(w)
    <2>1. TypeOK' /\ LogIsPast' /\ LogIsSpaced'
      BY <1>3 DEF Respond, IInv, TypeOK, LogIsPast, LogIsSpaced, Apart
    <2>2. GrantsAreSpaced'
      BY <1>3 DEF Respond, IInv, TypeOK, GrantsAreSpaced, Apart
    <2> QED
      BY <2>1, <2>2 DEF IInv
  <1>4. CASE Elapse
    <2>1. TypeOK'
      BY <1>4 DEF Elapse, IInv, TypeOK
    <2>2. LogIsPast'
      BY <1>4 DEF Elapse, IInv, TypeOK, LogIsPast, Requests
    <2>3. LogIsSpaced' /\ GrantsAreSpaced'
      BY <1>4 DEF Elapse, IInv, LogIsSpaced, GrantsAreSpaced, Apart
    <2> QED
      BY <2>1, <2>2, <2>3 DEF IInv
  <1>5. CASE UNCHANGED vars
    BY <1>5 DEF vars, IInv, TypeOK, LogIsPast, LogIsSpaced, GrantsAreSpaced, Apart
  <1> QED
    BY <1>1, <1>2, <1>3, <1>4, <1>5 DEF Next

-----------------------------------------------------------------------------
\* The requests of an Interval whose token was due before it began: at most one
\* per worker, since a worker that sent one has asked for its next token later.
LEMMA LateRequests ==
  ASSUME IInv, NEW t \in Nat
  PROVE  LET late == {r \in Sent(t) : r.due <= t - Interval}
         IN  IsFiniteSet(late) /\ Cardinality(late) <= Cardinality(Workers)
  <1> USE LimiterAssumption DEF LimiterAssumption
  <1> DEFINE late == {r \in Sent(t) : r.due <= t - Interval}
             f == [r \in late |-> r.by]
  <1>1. f \in [late -> Workers]
    BY DEF Sent, IInv, TypeOK, Requests
  <1>2. ASSUME NEW r \in late, NEW s \in late, r.by = s.by, r # s
        PROVE  FALSE
    <2>1. r \in log /\ s \in log /\ r.due <= t - Interval /\ s.due <= t - Interval
      BY <1>2 DEF Sent
    <2>2. r.at > t - Interval /\ s.at > t - Interval
      BY <1>2 DEF Sent
    <2>3. r.at <= s.due \/ s.at <= r.due
      BY <1>2, <2>1 DEF IInv, LogIsSpaced
    <2> QED
      BY <2>1, <2>2, <2>3 DEF IInv, TypeOK, Requests
  <1>3. f \in Injection(late, Workers)
    BY <1>1, <1>2 DEF Injection, IsInjective
  <1> QED
    BY <1>3, FS_Injection

\* The other requests of an Interval: at most one, since two tokens are never
\* due within less than an Interval.
LEMMA PromptRequests ==
  ASSUME IInv, NEW t \in Nat
  PROVE  LET prompt == {r \in Sent(t) : r.due > t - Interval}
         IN  IsFiniteSet(prompt) /\ Cardinality(prompt) <= 1
  <1> USE LimiterAssumption DEF LimiterAssumption
  <1> DEFINE prompt == {r \in Sent(t) : r.due > t - Interval}
  <1>1. ASSUME NEW r \in prompt, NEW s \in prompt, r # s
        PROVE  FALSE
    <2>1. r \in log /\ s \in log /\ r.due > t - Interval /\ s.due > t - Interval
      BY <1>1 DEF Sent
    <2>2. r.due <= t /\ s.due <= t
      BY <1>1, <2>1 DEF Sent, IInv, TypeOK, LogIsPast, Requests
    <2>3. Apart(r.due, s.due)
      BY <1>1, <2>1 DEF IInv, LogIsSpaced
    <2> QED
      BY <2>1, <2>2, <2>3 DEF Apart, IInv, TypeOK, Requests
  <1>2. CASE prompt = {}
    BY <1>2, FS_EmptySet
  <1>3. CASE prompt # {}
    <2>1. PICK r \in prompt : TRUE
      BY <1>3
    <2>2. prompt = {r}
      BY <1>1, <2>1
    <2>3. IsFiniteSet({r}) /\ Cardinality({r}) = 1
      BY FS_Singleton
    <2> HIDE DEF prompt
    <2>4. IsFiniteSet(prompt) /\ Cardinality(prompt) <= 1
      BY <2>2, <2>3
    <2> QED
      BY <2>4 DEF prompt
  <1> QED
    BY <1>2, <1>3

\* The market sees at most one request per worker and one more in any Interval,
\* whatever the number of workers and however late they run.
THEOREM RequestsBounded == Spec => []WindowBound
  <1>1. IInv => WindowBound
    <2> SUFFICES ASSUME IInv, NEW t \in 0..time
                 PROVE  Cardinality(Sent(t)) <= Cardinality(Workers) + 1
      BY DEF WindowBound
    <2> DEFINE late   == {r \in Sent(t) : r.due <= t - Interval}
               prompt == {r \in Sent(t) : r.due > t - Interval}
    <2>1. t \in Nat
      BY DEF IInv, TypeOK
    <2>2. IsFiniteSet(late) /\ Cardinality(late) <= Cardinality(Workers)
      BY <2>1, LateRequests
    <2>3. IsFiniteSet(prompt) /\ Cardinality(prompt) <= 1
      BY <2>1, PromptRequests
    <2>4. Sent(t) = late \cup prompt
      BY <2>1, LimiterAssumption DEF Sent, IInv, TypeOK, Requests, LimiterAssumption
    <2>5. late \cap prompt = {}
      BY <2>1, LimiterAssumption DEF Sent, IInv, TypeOK, Requests, LimiterAssumption
    <2> HIDE DEF late, prompt
    <2>6. Cardinality(Sent(t)) = Cardinality(late) + Cardinality(prompt) - Cardinality({})
      BY <2>2, <2>3, <2>4, <2>5, FS_Union
    <2>7. Cardinality(late) \in Nat /\ Cardinality(prompt) \in Nat /\ Cardinality({}) = 0
      BY <2>2, <2>3, FS_CardinalityType, FS_EmptySet
    <2>8. Cardinality(Workers) \in Nat
      BY LimiterAssumption, FS_CardinalityType DEF LimiterAssumption
    <2> QED
      BY <2>2, <2>3, <2>6, <2>7, <2>8
  <1> QED
    BY <1>1, IInvInit, IInvStep, PTL DEF Spec

-----------------------------------------------------------------------------
\* Type correctness is a part of the invariant.
THEOREM TypeCorrect == Spec => []TypeOK
  <1>1. IInv => TypeOK
    BY DEF IInv
  <1> QED
    BY <1>1, IInvInit, IInvStep, PTL DEF Spec

\* Multiples of the Interval are an Interval apart.
LEMMA Multiples ==
  ASSUME NEW k \in Nat, NEW m \in Nat, k < m
  PROVE  /\ k * Interval \in Nat /\ m * Interval \in Nat
         /\ k <= k * Interval
         /\ k * Interval + Interval <= m * Interval
  <1> USE LimiterAssumption DEF LimiterAssumption
  <1> DEFINE d == m - k - 1
  <1>1. d \in Nat /\ m = k + 1 + d
    OBVIOUS
  <1> HIDE DEF d
  <1>2. m * Interval = k * Interval + Interval + d * Interval
    BY <1>1
  <1>3. k * Interval \in Nat /\ d * Interval \in Nat /\ k <= k * Interval
    BY <1>1
  <1> QED
    BY <1>2, <1>3

\* A token granted is the next one or, if that was due long ago, one that is due now.
LEMMA HeldReserve ==
  ASSUME IInv, TokensAreHeld, NEW w \in Workers, Reserve(w)
  PROVE  TokensAreHeld'
  <1> USE LimiterAssumption DEF LimiterAssumption
  <1> DEFINE g == Later(time, next)
  <1>1. g \in Nat /\ (g = next \/ g = time) /\ g >= next
    BY DEF IInv, TypeOK, Later
  <1>2. next' = g + Interval /\ grant'[w] = g /\ pc'[w] = "wait" /\ time' = time
    BY DEF Reserve, IInv, TypeOK
  <1>3. \A v \in Workers : pc[v] = "wait" => pc'[v] = "wait" /\ grant'[v] = grant[v]
    BY DEF Reserve, IInv, TypeOK
  <1> HIDE DEF g
  <1> SUFFICES ASSUME NEW k \in 1..next', time < next' - k * Interval
               PROVE  \E v \in Workers : pc'[v] = "wait" /\ grant'[v] = next' - k * Interval
    BY <1>2 DEF TokensAreHeld
  <1>4. CASE k = 1
    BY <1>1, <1>2, <1>4
  <1>5. CASE k # 1
    <2> DEFINE j == k - 1
    <2>1. j \in Nat /\ j >= 1 /\ k = j + 1
      BY <1>1, <1>2, <1>5
    <2> HIDE DEF j
    <2>2. k * Interval = j * Interval + Interval /\ j * Interval \in Nat
      BY <2>1
    <2>3. j <= j * Interval
      BY <2>1, Multiples
    <2>4. time < g - j * Interval /\ time \in Nat /\ next \in Nat
      BY <1>1, <1>2, <2>2 DEF IInv, TypeOK
    <2>5. g = next
      BY <1>1, <2>2, <2>4
    <2>6. j \in 1..next
      BY <2>1, <2>2, <2>3, <2>4, <2>5
    <2>7. PICK v \in Workers : pc[v] = "wait" /\ grant[v] = next - j * Interval
      BY <2>4, <2>5, <2>6 DEF TokensAreHeld
    <2>8. grant'[v] = next' - k * Interval
      BY <1>1, <1>2, <1>3, <2>2, <2>5, <2>7
    <2> QED
      BY <1>3, <2>7, <2>8
  <1> QED
    BY <1>4, <1>5

\* Every step keeps each token to come in the hands of a worker that waits for it.
LEMMA HeldStep == IInv /\ TokensAreHeld /\ [Next]_vars => TokensAreHeld'
  <1> USE LimiterAssumption DEF LimiterAssumption
  <1> SUFFICES ASSUME IInv, TokensAreHeld, [Next]_vars PROVE TokensAreHeld'
    OBVIOUS
  <1>1. CASE \E w \in Workers : Reserve(w)
    BY <1>1, HeldReserve
  <1>2. ASSUME NEW w \in Workers, SendRequest(w) \/ Respond(w)
        PROVE  TokensAreHeld'
    <2>1. next' = next /\ time' = time /\ grant' = grant
      BY <1>2 DEF SendRequest, Respond
    <2>2. \A v \in Workers : pc[v] = "wait" /\ time < grant[v] => pc'[v] = "wait"
      BY <1>2 DEF SendRequest, Respond, IInv, TypeOK
    <2> SUFFICES ASSUME NEW k \in 1..next, time < next - k * Interval
                 PROVE  \E v \in Workers : pc'[v] = "wait" /\ grant[v] = next - k * Interval
      BY <2>1 DEF TokensAreHeld
    <2>3. PICK v \in Workers : pc[v] = "wait" /\ grant[v] = next - k * Interval
      BY DEF TokensAreHeld
    <2> QED
      BY <2>2, <2>3
  <1>3. CASE Elapse
    <2>1. next' = next /\ time' = time + 1 /\ grant' = grant /\ pc' = pc
      BY <1>3 DEF Elapse
    <2> SUFFICES ASSUME NEW k \in 1..next, time + 1 < next - k * Interval
                 PROVE  \E v \in Workers : pc[v] = "wait" /\ grant[v] = next - k * Interval
      BY <2>1 DEF TokensAreHeld
    <2>2. time < next - k * Interval
      <3>1. time \in Nat /\ next \in Nat /\ k * Interval \in Nat
        BY DEF IInv, TypeOK
      <3> QED
        BY <3>1
    <2> QED
      BY <2>2 DEF TokensAreHeld
  <1>4. CASE UNCHANGED vars
    BY <1>4 DEF vars, TokensAreHeld
  <1> QED
    BY <1>1, <1>2, <1>3, <1>4 DEF Next

\* When a worker asks, fewer than all workers wait, and the tokens they hold reach
\* no further than an Interval each.
LEMMA NextIsNear ==
  ASSUME IInv, TokensAreHeld, NEW w \in Workers, pc[w] = "idle"
  PROVE  next - time <= Cardinality(Workers) * Interval
  <1> USE LimiterAssumption DEF LimiterAssumption
  <1> DEFINE n == Cardinality(Workers)
             others == Workers \ {w}
  <1>1. n \in Nat /\ IsFiniteSet(others) /\ Cardinality(others) = n - 1
    BY FS_CardinalityType, FS_RemoveElement
  <1>2. IsFiniteSet(1..n) /\ Cardinality(1..n) = n
    BY <1>1, FS_Interval
  <1> HIDE DEF n
  <1> SUFFICES ASSUME next - time > n * Interval PROVE FALSE
    BY <1>1 DEF n, IInv, TypeOK
  <1>3. time \in Nat /\ next \in Nat /\ n * Interval \in Nat
    BY <1>1 DEF IInv, TypeOK
  <1> DEFINE Holds(v, k) == pc[v] = "wait" /\ grant[v] = next - k * Interval
             f == [k \in 1..n |-> CHOOSE v \in others : Holds(v, k)]
  <1>4. ASSUME NEW k \in 1..n PROVE \E v \in others : Holds(v, k)
    <2>1. k \in Nat /\ k >= 1 /\ k * Interval \in Nat /\ k <= k * Interval
      BY <1>1, Multiples
    <2>2. k * Interval <= n * Interval
      <3>1. CASE k = n
        BY <3>1, <1>3
      <3>2. CASE k < n
        BY <3>2, <1>1, <2>1, Multiples
      <3> QED
        BY <3>1, <3>2, <1>1
    <2>3. time < next - k * Interval
      BY <1>3, <2>1, <2>2
    <2>4. k \in 1..next
      BY <1>3, <2>1, <2>3
    <2>5. PICK v \in Workers : Holds(v, k)
      BY <2>3, <2>4 DEF TokensAreHeld
    <2> QED
      BY <2>5
  <1> HIDE DEF Holds
  <1>5. \A k \in 1..n : f[k] \in others /\ Holds(f[k], k)
    BY <1>4
  <1>6. f \in [1..n -> others]
    BY <1>4
  <1> HIDE DEF f
  <1>7. PICK j \in 1..n, k \in 1..n : j # k /\ f[j] = f[k]
    <2>1. Cardinality(1..n) > Cardinality(others)
      BY <1>1, <1>2
    <2> QED
      BY <1>1, <1>2, <1>6, <2>1, FS_PigeonHole
  <1>8. next - j * Interval = next - k * Interval
    BY <1>5, <1>7 DEF Holds
  <1>9. j \in Nat /\ k \in Nat
    BY <1>1
  <1>10. CASE j < k
    BY <1>3, <1>8, <1>9, <1>10, Multiples
  <1>11. CASE k < j
    BY <1>3, <1>8, <1>9, <1>11, Multiples
  <1> QED
    BY <1>7, <1>9, <1>10, <1>11

\* A worker waits for its token at most one Interval per worker, whatever the
\* number of workers and whenever they ask.
THEOREM WaitIsBounded == Spec => []WaitBound
  <1> USE LimiterAssumption DEF LimiterAssumption
  <1>1. Init => IInv /\ TokensAreHeld /\ WaitBound
    <2> SUFFICES ASSUME Init PROVE TokensAreHeld /\ WaitBound
      BY IInvInit
    <2>1. Cardinality(Workers) * Interval \in Nat
      BY FS_CardinalityType
    <2> QED
      BY <2>1 DEF Init, TokensAreHeld, WaitBound
  <1>2. IInv /\ TokensAreHeld /\ WaitBound /\ [Next]_vars => WaitBound'
    <2> SUFFICES ASSUME IInv, TokensAreHeld, WaitBound, [Next]_vars PROVE WaitBound'
      OBVIOUS
    <2>1. ASSUME NEW w \in Workers, Reserve(w) PROVE WaitBound'
      <3>1. next - time <= Cardinality(Workers) * Interval
        BY <2>1, NextIsNear DEF Reserve
      <3>2. Cardinality(Workers) * Interval \in Nat
        BY FS_CardinalityType
      <3>3. Later(time, next) - time <= Cardinality(Workers) * Interval
        BY <3>1, <3>2 DEF Later, IInv, TypeOK
      <3> SUFFICES ASSUME NEW v \in Workers
                   PROVE  grant'[v] - asked'[v] <= Cardinality(Workers) * Interval
        BY DEF WaitBound
      <3> QED
        BY <2>1, <3>3 DEF Reserve, IInv, TypeOK, WaitBound
    <2>2. CASE UNCHANGED <<grant, asked>>
      BY <2>2 DEF WaitBound
    <2> QED
      BY <2>1, <2>2 DEF Next, SendRequest, Respond, Elapse, vars
  <1> QED
    BY <1>1, <1>2, IInvStep, HeldStep, PTL DEF Spec

=============================================================================
