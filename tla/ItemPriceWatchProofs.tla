------------------------ MODULE ItemPriceWatchProofs ------------------------
(***************************************************************************)
(* Safety of the ItemPriceWatch controller for every set of orders, prices *)
(* and specs, any number of edits and re-creations, and every set of       *)
(* faults.                                                                 *)
(***************************************************************************)
EXTENDS ItemPriceWatch, TLAPS

-----------------------------------------------------------------------------
(* The inductive invariant behind NoRepeatWithoutCause, NoAlertSwallowed,    *)
(* RecordedWasSent, NeverForgotten and FailureRetriedSoon.                   *)

\* Unless it may be lost, the last alert is on record wherever the next
\* decision will look for it: on the API server between two writes, in what
\* Reconcile read, and in the status it is about to apply.
LastAlertRecorded ==
    (told # NoOrder /\ ~loss) =>
        /\ pc # "apply" => obj # NoObject /\ obj.status.notified = told
        /\ pc = "fetch" => original.status.notified = told
        /\ pc \in {"send", "apply"} => patch.notified = told
        /\ pc = "send" => cand # told

\* The other way round: of the first watch no record names another order than
\* the last alert's, wherever the next decision will look for it.
RecordIsLastAlert ==
    (obj # NoObject /\ created = 1 /\ ~loss) =>
        /\ pc \in {"idle", "fetch"} => obj.status.notified \in {told, NoOrder}
        /\ pc = "fetch" => original.status.notified \in {told, NoOrder}
        /\ (pc = "send" /\ told # NoOrder) => obj.status.notified \in {told, NoOrder}
        /\ pc \in {"send", "apply"} => patch.notified \in {told, NoOrder}

\* Before the first creation there is nothing to reconcile.
NothingBefore ==
    created = 0 => obj = NoObject /\ cache = NoObject /\ pc = "idle"

\* No copy of a status names an order the user received no alert for.
CopiesWereSent ==
    /\ obj # NoObject => obj.status.notified \in sent \cup {NoOrder}
    /\ cache # NoObject => cache.status.notified \in sent \cup {NoOrder}
    /\ original # NoObject => original.status.notified \in sent \cup {NoOrder}
    /\ patch.notified \in sent \cup {NoOrder}

\* A watch the informer knows is queued, will be, or is being reconciled.
KnownIsWatched ==
    cache # NoObject => queued \/ timer # "none" \/ pc # "idle"

\* A failed fetch ends in a backoff, unless the informer has yet to see the
\* object, whose creation then queues it.
FailureIsRetried ==
    /\ (obj # NoObject /\ obj.status.reason = "FetchFailed") =>
           queued \/ timer = "backoff" \/ pc # "idle" \/ cache = NoObject
    /\ (pc = "apply" /\ patch.reason = "FetchFailed") => useCaseErr
    /\ pc # "apply" => patch.reason # "FetchFailed"

IInv ==
    /\ TypeOK
    /\ LastAlertRecorded /\ NothingBefore /\ RecordIsLastAlert
    /\ CopiesWereSent
    /\ KnownIsWatched /\ FailureIsRetried

-----------------------------------------------------------------------------
(* The inductive invariant behind NotifiedUnderThreshold.                    *)

\* A status names an alerted order only next to a price this threshold admits.
Justified(status, threshold) ==
    status.notified # NoOrder => status.cheapest \in Prices /\ status.cheapest <= threshold

\* Copies of the first watch are no newer than it is, and one of the same generation
\* has the same spec.
CopiesAgree ==
    (obj # NoObject /\ created = 1) =>
        /\ cache # NoObject =>
               /\ cache.generation <= obj.generation
               /\ cache.generation = obj.generation => cache.spec = obj.spec
        /\ pc # "idle" =>
               /\ original.generation <= obj.generation
               /\ original.generation = obj.generation => original.spec = obj.spec

\* What Execute reports fits the spec it was given, also once its alert is sent.
PatchIsJustified ==
    /\ pc \in {"send", "apply"} =>
           /\ patch.observed = original.generation
           /\ Justified(patch, original.spec.threshold)
    /\ pc = "send" =>
           patch.cheapest \in Prices /\ patch.cheapest <= original.spec.threshold

\* The status is that of a generation the watch went through.
StatusIsJustified ==
    (obj # NoObject /\ created = 1) =>
        /\ obj.status.observed <= obj.generation
        /\ obj.status.observed = obj.generation =>
               Justified(obj.status, obj.spec.threshold)

JInv == CopiesAgree /\ PatchIsJustified /\ StatusIsJustified

\* Behind ObservedNeverFalls: the first watch is never younger than the copy in the
\* cache, that one than the copy being reconciled, and that one than the status.
ObservedBehind ==
    (obj # NoObject /\ created = 1) =>
        /\ cache = NoObject => pc = "idle" /\ obj.status.observed = 0
        /\ cache # NoObject => obj.status.observed <= cache.generation
        /\ pc # "idle" => /\ obj.status.observed <= original.generation
                          /\ original.generation <= cache.generation

-----------------------------------------------------------------------------
\* The empty status is a status: what a new watch and an empty patch hold.
LEMMA ZeroStatusType == ZeroItemStatus \in Statuses
  BY ItemAssumption DEF ItemAssumption, ZeroItemStatus, Statuses

\* What Execute reports is a status with the fields it was given.
LEMMA ReportType ==
  ASSUME TypeOK, pc # "idle",
         NEW r \in {"FetchFailed", "NoSellOrders", "PriceFetched"},
         NEW c \in Prices \cup {0}, NEW n \in Orders \cup {NoOrder},
         Report(r, c, n)
  PROVE  patch' \in Statuses /\ patch'.notified = n /\ patch'.reason = r
  <1>1. original.generation \in 0..MaxGeneration
    BY ItemAssumption DEF TypeOK, Watches, ItemAssumption
  <1>2. patch' = [cheapest |-> c, notified |-> n, lastNotified |-> FALSE,
                  reason |-> r, observed |-> original.generation]
    BY DEF Report, ZeroItemStatus
  <1> QED
    BY <1>1, <1>2 DEF Statuses

\* The cheapest orders are orders the market shows, at a price.
LEMMA CheapestType ==
  ASSUME TypeOK, NEW o \in Cheapest(market)
  PROVE  o \in Orders /\ o \in DOMAIN market /\ market[o] \in Prices
  BY DEF TypeOK, Cheapest, Markets

\* The retained record is an order the market shows, or none.
LEMMA RetainedType ==
  ASSUME TypeOK
  PROVE  Retained \in Orders \cup {NoOrder}
  BY DEF TypeOK, Retained, Markets

\* The alerted order stays one that was alerted, or is forgotten.
LEMMA ToldType ==
  ASSUME TypeOK
  PROVE  ToldIfShown \in Orders \cup {NoOrder} /\ ToldIfShown \in {told, NoOrder}
  BY DEF TypeOK, ToldIfShown

\* An object whose status becomes the patch is still a watch.
LEMMA AppliedType ==
  ASSUME TypeOK, obj # NoObject
  PROVE  /\ Applied \in Watches
         /\ Applied # NoObject
         /\ Applied.status = patch
         /\ Applied.generation = obj.generation
         /\ Applied.uid = obj.uid
  BY NoObjectAssumption DEF TypeOK, Applied, Watches, NoObjectAssumption

\* An edit leaves a watch with the status it had.
LEMMA EditType ==
  ASSUME TypeOK, NEW spec \in Specs, EditSpec(spec)
  PROVE  obj' \in Watches /\ obj' # NoObject /\ obj'.status = obj.status
  <1>1. obj \in Watches /\ obj.generation + 1 \in 1..MaxGeneration
    BY ItemAssumption DEF EditSpec, Watches, TypeOK, ItemAssumption
  <1>2. obj' \in Watches /\ obj'.status = obj.status
    BY <1>1 DEF EditSpec, Watches
  <1> QED
    BY <1>2, NoObjectAssumption DEF NoObjectAssumption

-----------------------------------------------------------------------------
\* A read that fails leaves the key to the backoff and nothing else behind.
LEMMA GetFailsFrame ==
  ASSUME GetFails
  PROVE  /\ UNCHANGED <<obj, created, cache, pc, original, patch, useCaseErr>>
         /\ UNCHANGED <<market, now, cand, sent, told, loss>>
         /\ queued' = FALSE /\ timer' = "backoff"
  BY DEF GetFails, ReadFails, Arm, apiVars, runVars, worldVars, ghostVars

\* A process that starts without a watch is well typed.
LEMMA TypeInit == Init => TypeOK
  <1> SUFFICES ASSUME Init PROVE TypeOK
    OBVIOUS
  <1>1. created \in 0..MaxUID
    BY ItemAssumption DEF Init, ControllerInit, ItemAssumption
  <1> QED
    BY <1>1, ZeroStatusType DEF Init, ControllerInit, TypeOK, Timers, Steps

\* Every step keeps the types.
LEMMA TypeStep == TypeOK /\ [Next]_vars => TypeOK'
  <1> SUFFICES ASSUME TypeOK, [Next]_vars PROVE TypeOK'
    OBVIOUS
  <1> USE ItemAssumption, ZeroStatusType DEF ItemAssumption
  <1>1. CASE UserCreates
    <2>1. PICK spec \in Specs : CreateWatch(spec)
      BY <1>1 DEF UserCreates
    <2>2. created' \in 1..MaxUID /\ 1 \in 1..MaxGeneration
      BY <2>1 DEF CreateWatch, TypeOK
    <2>3. obj' \in Watches
      BY <2>1, <2>2 DEF CreateWatch, Watches
    <2> QED
      BY <1>1, <2>1, <2>2, <2>3
      DEF UserCreates, CreateWatch, TypeOK, worldVars, ghostVars, queueVars, runVars
  <1>2. CASE UserEdits
    <2>1. PICK spec \in Specs : EditSpec(spec)
      BY <1>2 DEF UserEdits
    <2>2. obj' \in Watches
      BY <2>1, EditType
    <2> QED
      BY <1>2, <2>1, <2>2
      DEF UserEdits, EditSpec, TypeOK, worldVars, ghostVars, queueVars, runVars
  <1>3. CASE UserDeletes
    BY <1>3 DEF UserDeletes, DeleteWatch, TypeOK, worldVars, queueVars, runVars
  <1>4. CASE MarketMoves
    BY <1>4 DEF MarketMoves, TypeOK, frameVars, shared, ghostVars
  <1>5. CASE Tick
    BY <1>5 DEF Tick, TypeOK, frameVars, shared, ghostVars
  <1>6. CASE InformerDelivers
    BY <1>6 DEF InformerDelivers, DeliverEvents, TypeOK, Timers, worldVars, ghostVars,
                apiVars, queueVars, runVars
  <1>7. CASE RequeueFires
    BY <1>7 DEF RequeueFires, TimerFires, TypeOK, Timers, worldVars, ghostVars,
                apiVars, runVars
  <1>8. CASE OperatorRestarts
    BY <1>8 DEF OperatorRestarts, Restart, TypeOK, Timers, Steps, worldVars, ghostVars, apiVars
  <1>9. CASE Get
    BY <1>9 DEF Get, StartReconcile, StaleRecord, TypeOK, Steps, worldVars, apiVars, runVars
  <1>10. CASE FetchFails
    <2>1. patch' \in Statuses
      BY <1>10, ReportType DEF FetchFails
    <2> QED
      BY <1>10, <2>1 DEF FetchFails, TypeOK, Steps, shared, worldVars
  <1>11. CASE NoSellOrders
    <2>1. patch' \in Statuses
      BY <1>11, ReportType DEF NoSellOrders
    <2> QED
      BY <1>11, <2>1 DEF NoSellOrders, NothingToSend, TypeOK, Steps, shared, worldVars
  <1>12. CASE AboveThreshold
    <2>1. patch' \in Statuses
      BY <1>12, ReportType, CheapestType DEF AboveThreshold
    <2> QED
      BY <1>12, <2>1 DEF AboveThreshold, NothingToSend, TypeOK, Steps, shared, worldVars
  <1>13. CASE AlreadyNotified
    <2>1. patch' \in Statuses
      BY <1>13, ReportType, CheapestType, RetainedType DEF AlreadyNotified
    <2> QED
      BY <1>13, <2>1, ToldType
      DEF AlreadyNotified, NothingToSend, TypeOK, Steps, shared, worldVars
  <1>14. CASE OutsideWindow
    <2>1. patch' \in Statuses
      BY <1>14, ReportType, CheapestType, RetainedType DEF OutsideWindow
    <2> QED
      BY <1>14, <2>1, ToldType
      DEF OutsideWindow, NothingToSend, TypeOK, Steps, shared, worldVars
  <1>15. CASE AlertDue
    <2>1. patch' \in Statuses /\ cand' \in Orders
      BY <1>15, ReportType, CheapestType, RetainedType DEF AlertDue
    <2> QED
      BY <1>15, <2>1, ToldType DEF AlertDue, TypeOK, Steps, shared, worldVars
  <1>16. CASE SendSucceeds
    <2>1. patch' \in Statuses
      BY <1>16 DEF SendSucceeds, TypeOK, Statuses
    <2> QED
      BY <1>16, <2>1 DEF SendSucceeds, Delivered, TypeOK, Steps, shared, worldVars
  <1>17. CASE SendFails
    BY <1>17 DEF SendFails, Delivered, TypeOK, Steps, shared, worldVars, ghostVars
  <1>18. CASE StatusApplied
    <2>1. obj' \in Watches
      BY <1>18, AppliedType DEF StatusApplied, ApplyStatus
    <2> QED
      BY <1>18, <2>1
      DEF StatusApplied, ApplyStatus, FinishReconcile, Arm, TypeOK, Timers, Steps,
          worldVars, ghostVars
  <1>19. CASE StatusApplyFails
    <2>1. obj' \in Watches \cup {NoObject}
      BY <1>19, AppliedType DEF StatusApplyFails, ApplyStatusFails, TypeOK
    <2> QED
      BY <1>19, <2>1
      DEF StatusApplyFails, ApplyStatusFails, FinishReconcile, Arm, TypeOK, Timers, Steps,
          worldVars
  <1>20. CASE GetFails \/ UNCHANGED vars
    BY <1>20, GetFailsFrame DEF vars, frameVars, shared, worldVars, ghostVars, TypeOK, Timers
  <1> QED
    BY <1>1, <1>2, <1>3, <1>4, <1>5, <1>6, <1>7, <1>8, <1>9, <1>10, <1>11, <1>12, <1>13,
       <1>14, <1>15, <1>16, <1>17, <1>18, <1>19, <1>20
    DEF Next, Reconcile

\* Every status, on the API server, in the cache, read by Reconcile or about to
\* be applied, is well formed whatever the users, the market and the faults do.
THEOREM TypeCorrect == Spec => []TypeOK
  BY TypeInit, TypeStep, PTL DEF Spec

-----------------------------------------------------------------------------
(* The steps of Execute: they touch neither the objects nor the queue. *)

ExecuteStep ==
    \/ FetchFails \/ NoSellOrders \/ AboveThreshold \/ AlreadyNotified
    \/ OutsideWindow \/ AlertDue \/ SendSucceeds \/ SendFails

\* Between the read and the apply only the patch and the alerts change.
LEMMA ExecuteFrame ==
  ASSUME ExecuteStep
  PROVE  /\ UNCHANGED <<obj, created, cache, queued, timer, original>>
         /\ pc \in {"fetch", "send"}
         /\ pc' \in {"send", "apply"}
  BY DEF ExecuteStep, FetchFails, NoSellOrders, AboveThreshold, AlreadyNotified,
         OutsideWindow, AlertDue, SendSucceeds, SendFails, NothingToSend, shared

\* The strengthening holds before the first watch.
LEMMA IInvInit == Init => IInv
  <1> SUFFICES ASSUME Init PROVE IInv
    OBVIOUS
  <1>1. TypeOK
    BY TypeInit
  <1>2. LastAlertRecorded /\ KnownIsWatched /\ FailureIsRetried
    BY DEF Init, ControllerInit, LastAlertRecorded, KnownIsWatched, FailureIsRetried,
           ZeroItemStatus
  <1>3. CopiesWereSent /\ NothingBefore /\ RecordIsLastAlert
    BY DEF Init, ControllerInit, CopiesWereSent, NothingBefore, RecordIsLastAlert,
           ZeroItemStatus
  <1> QED
    BY <1>1, <1>2, <1>3 DEF IInv

\* A watch the informer knows stays queued, scheduled or under way.
LEMMA WatchedStep == IInv /\ [Next]_vars => KnownIsWatched'
  <1> SUFFICES ASSUME IInv, [Next]_vars PROVE KnownIsWatched'
    OBVIOUS
  <1> USE DEF IInv, KnownIsWatched
  <1>1. CASE UserCreates \/ UserEdits \/ UserDeletes
    BY <1>1 DEF UserCreates, UserEdits, UserDeletes, CreateWatch, EditSpec, DeleteWatch,
                queueVars, runVars
  <1>2. CASE MarketMoves \/ Tick \/ UNCHANGED vars
    BY <1>2 DEF MarketMoves, Tick, vars, frameVars, shared
  <1>3. CASE InformerDelivers
    BY <1>3 DEF InformerDelivers, DeliverEvents, Triggers, queueVars, runVars
  <1>4. CASE RequeueFires \/ OperatorRestarts
    BY <1>4 DEF RequeueFires, TimerFires, OperatorRestarts, Restart
  <1>5. CASE Get \/ GetFails
    BY <1>5, GetFailsFrame DEF Get, StartReconcile
  <1>6. CASE ExecuteStep
    BY <1>6, ExecuteFrame
  <1>7. CASE StatusApplied \/ StatusApplyFails
    BY <1>7 DEF StatusApplied, StatusApplyFails, ApplyStatus, ApplyStatusFails,
                FinishReconcile, Arm
  <1> QED
    BY <1>1, <1>2, <1>3, <1>4, <1>5, <1>6, <1>7 DEF Next, Reconcile, ExecuteStep

\* What Execute retains of the old record.
LEMMA RetainedFrom == Retained \in {original.status.notified, NoOrder}
  BY DEF Retained

\* Every status that is applied names an order the user was alerted about.
LEMMA SentStep == IInv /\ [Next]_vars => CopiesWereSent'
  <1> SUFFICES ASSUME IInv, [Next]_vars PROVE CopiesWereSent'
    OBVIOUS
  <1> USE DEF IInv, CopiesWereSent
  <1>1. CASE UserCreates
    <2>1. PICK spec \in Specs : CreateWatch(spec)
      BY <1>1 DEF UserCreates
    <2>2. obj'.status = ZeroItemStatus
      BY <2>1 DEF CreateWatch
    <2> QED
      BY <1>1, <2>1, <2>2
      DEF UserCreates, CreateWatch, ZeroItemStatus, runVars, ghostVars
  <1>2. CASE UserEdits
    <2>1. PICK spec \in Specs : EditSpec(spec)
      BY <1>2 DEF UserEdits
    <2>2. obj' # NoObject /\ obj'.status = obj.status
      BY <2>1, EditType
    <2> QED
      BY <1>2, <2>1, <2>2 DEF UserEdits, EditSpec, runVars, ghostVars
  <1>3. CASE UserDeletes
    BY <1>3 DEF UserDeletes, DeleteWatch, runVars
  <1>4. CASE MarketMoves \/ Tick \/ GetFails \/ UNCHANGED vars
    BY <1>4, GetFailsFrame DEF MarketMoves, Tick, vars, frameVars, shared, ghostVars
  <1>5. CASE InformerDelivers \/ RequeueFires
    BY <1>5 DEF InformerDelivers, DeliverEvents, RequeueFires, TimerFires, apiVars, runVars,
                ghostVars
  <1>6. CASE OperatorRestarts
    BY <1>6 DEF OperatorRestarts, Restart, apiVars, ZeroItemStatus
  <1>7. CASE Get
    BY <1>7 DEF Get, StartReconcile, apiVars, runVars
  <1>8. CASE ExecuteStep
    <2>1. original.status.notified \in sent \cup {NoOrder}
      BY <1>8, ExecuteFrame, NoObjectAssumption DEF TypeOK, NoObjectAssumption
    <2>2. patch'.notified \in sent' \cup {NoOrder}
      <3>1. CASE FetchFails \/ NoSellOrders
        BY <3>1, ReportType DEF FetchFails, NoSellOrders
      <3>2. CASE AboveThreshold
        BY <3>2, ReportType, CheapestType DEF AboveThreshold
      <3>3. CASE AlreadyNotified
        BY <2>1, <3>3, ReportType, CheapestType, RetainedType, RetainedFrom
        DEF AlreadyNotified, NothingToSend
      <3>4. CASE OutsideWindow
        BY <2>1, <3>4, ReportType, CheapestType, RetainedType, RetainedFrom
        DEF OutsideWindow, NothingToSend
      <3>5. CASE AlertDue
        BY <2>1, <3>5, ReportType, CheapestType, RetainedType, RetainedFrom DEF AlertDue
      <3>6. CASE SendSucceeds
        BY <3>6 DEF SendSucceeds, Delivered, TypeOK, Statuses
      <3>7. CASE SendFails
        BY <3>7 DEF SendFails, Delivered, ghostVars
      <3> QED
        BY <1>8, <3>1, <3>2, <3>3, <3>4, <3>5, <3>6, <3>7 DEF ExecuteStep
    <2>3. sent \subseteq sent'
      BY <1>8 DEF ExecuteStep, FetchFails, NoSellOrders, AboveThreshold, AlreadyNotified,
                  OutsideWindow, AlertDue, SendSucceeds, SendFails, NothingToSend,
                  Delivered, ghostVars
    <2> QED
      BY <1>8, <2>2, <2>3, ExecuteFrame
  <1>9. CASE StatusApplied
    BY <1>9, AppliedType, NoObjectAssumption
    DEF StatusApplied, ApplyStatus, FinishReconcile, ZeroItemStatus, ghostVars
  <1>10. CASE StatusApplyFails
    BY <1>10, AppliedType, NoObjectAssumption
    DEF StatusApplyFails, ApplyStatusFails, FinishReconcile, ZeroItemStatus
  <1> QED
    BY <1>1, <1>2, <1>3, <1>4, <1>5, <1>6, <1>7, <1>8, <1>9, <1>10
    DEF Next, Reconcile, ExecuteStep

\* A failed fetch leaves a backoff behind.
LEMMA RetryStep == IInv /\ [Next]_vars => FailureIsRetried'
  <1> SUFFICES ASSUME IInv, [Next]_vars PROVE FailureIsRetried'
    OBVIOUS
  <1> USE DEF IInv, FailureIsRetried
  <1>1. CASE UserCreates
    <2>1. PICK spec \in Specs : CreateWatch(spec)
      BY <1>1 DEF UserCreates
    <2>2. obj'.status = ZeroItemStatus
      BY <2>1 DEF CreateWatch
    <2> QED
      BY <2>1, <2>2 DEF CreateWatch, ZeroItemStatus, runVars
  <1>2. CASE UserEdits
    <2>1. PICK spec \in Specs : EditSpec(spec)
      BY <1>2 DEF UserEdits
    <2>2. obj' # NoObject /\ obj'.status = obj.status
      BY <2>1, EditType
    <2> QED
      BY <2>1, <2>2 DEF EditSpec, queueVars, runVars
  <1>3. CASE UserDeletes
    BY <1>3 DEF UserDeletes, DeleteWatch, runVars
  <1>4. CASE MarketMoves \/ Tick \/ GetFails \/ UNCHANGED vars
    BY <1>4, GetFailsFrame DEF MarketMoves, Tick, vars, frameVars, shared
  <1>5. CASE InformerDelivers
    BY <1>5 DEF InformerDelivers, DeliverEvents, Triggers, Recreated, apiVars, queueVars,
                runVars
  <1>6. CASE RequeueFires
    BY <1>6 DEF RequeueFires, TimerFires, apiVars, runVars
  <1>7. CASE OperatorRestarts
    BY <1>7 DEF OperatorRestarts, Restart, apiVars, ZeroItemStatus
  <1>8. CASE Get
    BY <1>8 DEF Get, StartReconcile, apiVars, runVars
  <1>9. CASE ExecuteStep
    <2>1. /\ (pc' = "apply" /\ patch'.reason = "FetchFailed") => useCaseErr'
          /\ pc' # "apply" => patch'.reason # "FetchFailed"
      <3>1. CASE FetchFails
        BY <3>1 DEF FetchFails
      <3>2. CASE NoSellOrders \/ AboveThreshold
        BY <3>2, ReportType, CheapestType DEF NoSellOrders, AboveThreshold
      <3>3. CASE AlreadyNotified \/ OutsideWindow
        BY <3>3, ReportType, CheapestType, RetainedType DEF AlreadyNotified, OutsideWindow
      <3>4. CASE AlertDue
        BY <3>4, ReportType, CheapestType, RetainedType DEF AlertDue
      <3>5. CASE SendSucceeds
        BY <3>5 DEF SendSucceeds, TypeOK, Statuses
      <3>6. CASE SendFails
        BY <3>6 DEF SendFails
      <3> QED
        BY <1>9, <3>1, <3>2, <3>3, <3>4, <3>5, <3>6 DEF ExecuteStep
    <2> QED
      BY <1>9, <2>1, ExecuteFrame
  <1>10. CASE StatusApplied
    BY <1>10, AppliedType
    DEF StatusApplied, ApplyStatus, FinishReconcile, Arm, ZeroItemStatus
  <1>11. CASE StatusApplyFails
    BY <1>11, AppliedType
    DEF StatusApplyFails, ApplyStatusFails, FinishReconcile, Arm, ZeroItemStatus
  <1> QED
    BY <1>1, <1>2, <1>3, <1>4, <1>5, <1>6, <1>7, <1>8, <1>9, <1>10, <1>11
    DEF Next, Reconcile, ExecuteStep

\* The record of the last alert moves with the status: from the API server to
\* what Reconcile reads, through the patch, and back.
LEMMA RecordStep == IInv /\ [Next]_vars => LastAlertRecorded'
  <1> SUFFICES ASSUME IInv, [Next]_vars, told' # NoOrder, ~loss'
               PROVE  /\ pc' # "apply" => obj' # NoObject /\ obj'.status.notified = told'
                      /\ pc' = "fetch" => original'.status.notified = told'
                      /\ pc' \in {"send", "apply"} => patch'.notified = told'
                      /\ pc' = "send" => cand' # told'
    BY DEF LastAlertRecorded
  <1> USE DEF IInv, LastAlertRecorded
  <1>1. CASE UserCreates
    BY <1>1 DEF UserCreates, CreateWatch, runVars, ghostVars, TypeOK, Steps
  <1>2. CASE UserEdits
    <2>1. PICK spec \in Specs : EditSpec(spec)
      BY <1>2 DEF UserEdits
    <2>2. obj' # NoObject /\ obj'.status = obj.status
      BY <2>1, EditType
    <2> QED
      BY <1>2, <2>1, <2>2 DEF UserEdits, EditSpec, runVars, ghostVars
  <1>3. CASE UserDeletes
    BY <1>3 DEF UserDeletes
  <1>4. CASE MarketMoves \/ Tick \/ GetFails \/ UNCHANGED vars
    BY <1>4, GetFailsFrame DEF MarketMoves, Tick, vars, frameVars, shared, ghostVars
  <1>5. CASE InformerDelivers \/ RequeueFires
    BY <1>5 DEF InformerDelivers, DeliverEvents, RequeueFires, TimerFires, apiVars, runVars,
                ghostVars
  <1>6. CASE OperatorRestarts
    BY <1>6 DEF OperatorRestarts, Restart, apiVars
  <1>7. CASE Get
    <2>1. ~loss /\ told' = told /\ UNCHANGED obj /\ pc = "idle" /\ ~StaleRecord
      BY <1>7 DEF Get, StartReconcile, apiVars, TypeOK
    <2>2. obj # NoObject /\ obj.status.notified = told
      BY <2>1
    <2>3. CASE cache = NoObject
      BY <1>7, <2>1, <2>2, <2>3 DEF Get, StartReconcile, runVars
    <2>4. CASE cache # NoObject
      BY <1>7, <2>1, <2>2, <2>4 DEF Get, StartReconcile, StaleRecord
    <2> QED
      BY <2>3, <2>4
  <1>8. CASE FetchFails \/ NoSellOrders \/ AboveThreshold
    BY <1>8 DEF FetchFails, NoSellOrders, AboveThreshold
  <1>9. CASE AlreadyNotified \/ OutsideWindow \/ AlertDue
    <2>1. ~loss /\ told' = ToldIfShown /\ pc = "fetch"
      BY <1>9 DEF AlreadyNotified, OutsideWindow, AlertDue, NothingToSend, TypeOK
    <2>2. told' = told /\ told \in DOMAIN market
      BY <2>1 DEF ToldIfShown
    <2>3. Retained = told
      BY <2>1, <2>2 DEF Retained
    <2>4. patch'.notified = told'
      BY <1>9, <2>2, <2>3, ReportType, CheapestType, RetainedType
      DEF AlreadyNotified, OutsideWindow, AlertDue
    <2>5. CASE AlreadyNotified \/ OutsideWindow
      BY <2>4, <2>5 DEF AlreadyNotified, OutsideWindow, NothingToSend
    <2>6. CASE AlertDue
      <3>1. cand' # told'
        BY <2>2, <2>3, <2>6 DEF AlertDue
      <3>2. obj' = obj /\ pc' = "send" /\ obj # NoObject /\ obj.status.notified = told'
        BY <2>1, <2>2, <2>6 DEF AlertDue, shared
      <3> QED
        BY <2>4, <3>1, <3>2
    <2> QED
      BY <1>9, <2>5, <2>6
  <1>10. CASE SendSucceeds
    BY <1>10 DEF SendSucceeds, Delivered, TypeOK, Statuses
  <1>11. CASE SendFails
    BY <1>11 DEF SendFails, ghostVars
  <1>12. CASE StatusApplied
    BY <1>12, AppliedType
    DEF StatusApplied, ApplyStatus, FinishReconcile, ghostVars
  <1>13. CASE StatusApplyFails
    BY <1>13 DEF StatusApplyFails
  <1> QED
    BY <1>1, <1>2, <1>3, <1>4, <1>5, <1>6, <1>7, <1>8, <1>9, <1>10, <1>11, <1>12, <1>13
    DEF Next, Reconcile

\* Nothing is read or queued for a watch that was never created.
LEMMA NothingStep == IInv /\ [Next]_vars => NothingBefore'
  <1> SUFFICES ASSUME IInv, [Next]_vars, created' = 0
               PROVE  obj' = NoObject /\ cache' = NoObject /\ pc' = "idle"
    BY DEF NothingBefore
  <1> USE DEF IInv, NothingBefore
  <1>1. CASE UserCreates
    <2>1. created' = created + 1 /\ created \in Nat
      BY <1>1, ItemAssumption DEF UserCreates, CreateWatch, TypeOK, ItemAssumption
    <2> QED
      BY <2>1
  <1>2. CASE UserEdits \/ UserDeletes \/ MarketMoves \/ Tick \/ UNCHANGED vars
    BY <1>2 DEF UserEdits, EditSpec, UserDeletes, DeleteWatch, MarketMoves, Tick, vars,
                frameVars, shared, runVars
  <1>3. CASE InformerDelivers \/ RequeueFires \/ OperatorRestarts
    BY <1>3 DEF InformerDelivers, DeliverEvents, RequeueFires, TimerFires, OperatorRestarts,
                Restart, apiVars, runVars
  <1>4. CASE Get \/ GetFails
    BY <1>4, GetFailsFrame DEF Get, StartReconcile, apiVars, runVars
  <1>5. CASE ExecuteStep
    BY <1>5, ExecuteFrame
  <1>6. CASE StatusApplied \/ StatusApplyFails
    BY <1>6 DEF StatusApplied, StatusApplyFails, ApplyStatus, ApplyStatusFails,
                FinishReconcile
  <1> QED
    BY <1>1, <1>2, <1>3, <1>4, <1>5, <1>6 DEF Next, Reconcile, ExecuteStep

\* A record names the last alert or nothing, wherever it is read: each branch of
\* Execute drops a record in the step that gives a reason to alert again.
LEMMA LastAlertStep == IInv /\ [Next]_vars => RecordIsLastAlert'
  <1> SUFFICES ASSUME IInv, [Next]_vars, obj' # NoObject, created' = 1, ~loss'
               PROVE  /\ pc' \in {"idle", "fetch"} => obj'.status.notified \in {told', NoOrder}
                      /\ pc' = "fetch" => original'.status.notified \in {told', NoOrder}
                      /\ (pc' = "send" /\ told' # NoOrder)
                             => obj'.status.notified \in {told', NoOrder}
                      /\ pc' \in {"send", "apply"} => patch'.notified \in {told', NoOrder}
    BY DEF RecordIsLastAlert
  <1> USE DEF IInv, RecordIsLastAlert
  <1>1. CASE UserCreates
    <2>1. PICK spec \in Specs : CreateWatch(spec)
      BY <1>1 DEF UserCreates
    <2>2. obj'.status.notified = NoOrder
      BY <2>1 DEF CreateWatch, ZeroItemStatus
    <2>3. created = 0
      BY <2>1, ItemAssumption DEF CreateWatch, TypeOK, ItemAssumption
    <2>4. pc' = "idle"
      BY <2>1, <2>3 DEF CreateWatch, NothingBefore, runVars
    <2> QED
      BY <2>2, <2>4
  <1>2. CASE UserEdits
    <2>1. PICK spec \in Specs : EditSpec(spec)
      BY <1>2 DEF UserEdits
    <2>2. obj # NoObject /\ obj'.status = obj.status
      BY <2>1, EditType DEF EditSpec
    <2> QED
      BY <1>2, <2>1, <2>2 DEF UserEdits, EditSpec, runVars, ghostVars
  <1>3. CASE UserDeletes
    BY <1>3 DEF UserDeletes, DeleteWatch
  <1>4. CASE MarketMoves \/ Tick \/ GetFails \/ UNCHANGED vars
    BY <1>4, GetFailsFrame DEF MarketMoves, Tick, vars, frameVars, shared, ghostVars
  <1>5. CASE InformerDelivers \/ RequeueFires
    BY <1>5 DEF InformerDelivers, DeliverEvents, RequeueFires, TimerFires, apiVars, runVars,
                ghostVars
  <1>6. CASE OperatorRestarts
    BY <1>6 DEF OperatorRestarts, Restart, apiVars, TypeOK, Steps
  <1>7. CASE Get
    <2>1. /\ ~loss /\ told' = told /\ UNCHANGED <<obj, created>> /\ pc = "idle"
          /\ ~StaleRecord
      BY <1>7 DEF Get, StartReconcile, apiVars, TypeOK
    <2>2. obj.status.notified \in {told, NoOrder}
      BY <2>1
    <2>3. CASE cache = NoObject
      BY <1>7, <2>1, <2>2, <2>3 DEF Get, StartReconcile, runVars
    <2>4. CASE cache # NoObject
      BY <1>7, <2>1, <2>2, <2>4 DEF Get, StartReconcile, StaleRecord
    <2> QED
      BY <2>3, <2>4
  <1>8. CASE FetchFails \/ NoSellOrders \/ AboveThreshold
    BY <1>8, ReportType, CheapestType DEF FetchFails, NoSellOrders, AboveThreshold,
                                          NothingToSend
  <1>9. CASE AlreadyNotified \/ OutsideWindow \/ AlertDue
    <2>1. /\ ~loss /\ told' = ToldIfShown /\ pc = "fetch" /\ pc' \in {"send", "apply"}
          /\ UNCHANGED <<obj, created>>
      BY <1>9 DEF AlreadyNotified, OutsideWindow, AlertDue, NothingToSend, TypeOK, shared
    <2>2. original.status.notified \in {told, NoOrder}
      BY <2>1
    <2>3. Retained \in {told', NoOrder}
      BY <2>1, <2>2 DEF Retained, ToldIfShown
    <2>4. patch'.notified \in {told', NoOrder}
      BY <1>9, <2>3, ReportType, CheapestType, RetainedType
      DEF AlreadyNotified, OutsideWindow, AlertDue
    <2>5. told' # NoOrder => obj'.status.notified \in {told', NoOrder}
      BY <2>1 DEF ToldIfShown
    <2> QED
      BY <2>1, <2>4, <2>5
  <1>10. CASE SendSucceeds
    BY <1>10 DEF SendSucceeds, Delivered, TypeOK, Statuses
  <1>11. CASE SendFails
    BY <1>11 DEF SendFails, ghostVars, shared
  <1>12. CASE StatusApplied
    BY <1>12, AppliedType
    DEF StatusApplied, ApplyStatus, FinishReconcile, ghostVars
  <1>13. CASE StatusApplyFails
    BY <1>13 DEF StatusApplyFails
  <1> QED
    BY <1>1, <1>2, <1>3, <1>4, <1>5, <1>6, <1>7, <1>8, <1>9, <1>10, <1>11, <1>12, <1>13
    DEF Next, Reconcile

-----------------------------------------------------------------------------
\* Every step keeps the strengthening.
LEMMA IInvStep == IInv /\ [Next]_vars => IInv'
  <1> SUFFICES ASSUME IInv, [Next]_vars PROVE IInv'
    OBVIOUS
  <1>1. TypeOK'
    BY TypeStep DEF IInv
  <1> QED
    BY <1>1, RecordStep, NothingStep, LastAlertStep, SentStep, WatchedStep, RetryStep DEF IInv

\* The inductive invariant holds in every reachable state.
THEOREM InductiveInvariant == Spec => []IInv
  BY IInvInit, IInvStep, PTL DEF Spec

\* Two alerts in a row are never about the same order while every reply between
\* them shows it at or under the threshold, unless a fault could lose the record
\* of the first.
THEOREM NoRepeat == Spec => []NoRepeatWithoutCause
  <1>1. IInv => NoRepeatWithoutCause
    <2> SUFFICES ASSUME IInv, pc = "send", cand = told PROVE loss
      BY DEF NoRepeatWithoutCause
    <2>1. told # NoOrder
      BY ItemAssumption DEF IInv, TypeOK, ItemAssumption
    <2> QED
      BY <2>1 DEF IInv, LastAlertRecorded, TypeOK
  <1> QED
    BY <1>1, InductiveInvariant, PTL

\* No alert is held back for an order that left the threshold or the market
\* since the user was told of it, unless a fault could lose the reset.
THEOREM NothingSwallowed == Spec => []NoAlertSwallowed
  <1>1. IInv => NoAlertSwallowed
    BY DEF IInv, RecordIsLastAlert, NoAlertSwallowed
  <1> QED
    BY <1>1, InductiveInvariant, PTL

\* The status never claims an alert that did not reach the user.
THEOREM RecordIsTrue == Spec => []RecordedWasSent
  <1>1. IInv => RecordedWasSent
    BY DEF IInv, CopiesWereSent, RecordedWasSent
  <1> QED
    BY <1>1, InductiveInvariant, PTL

\* A watch that exists is always going to be looked at again.
THEOREM WatchKept == Spec => []NeverForgotten
  <1>1. IInv => NeverForgotten
    BY DEF IInv, KnownIsWatched, NeverForgotten, EventPending, Triggers
  <1> QED
    BY <1>1, InductiveInvariant, PTL

\* A watch that reports a failed fetch is never left to the period alone.
THEOREM FailureRetried == Spec => []FailureRetriedSoon
  <1>1. IInv => FailureRetriedSoon
    BY DEF IInv, FailureIsRetried, FailureRetriedSoon, EventPending, Triggers
  <1> QED
    BY <1>1, InductiveInvariant, PTL

-----------------------------------------------------------------------------
(* The record and the threshold of the current spec. *)

\* What Execute reports it reports of the generation it read.
LEMMA ReportFields ==
  ASSUME NEW r, NEW c, NEW n, Report(r, c, n)
  PROVE  /\ patch'.cheapest = c
         /\ patch'.notified = n
         /\ patch'.observed = original.generation
  BY DEF Report, ZeroItemStatus

\* A branch of Execute writes a record only next to a price under the threshold.
LEMMA PatchStep == IInv /\ JInv /\ [Next]_vars => PatchIsJustified'
  <1> SUFFICES ASSUME IInv, JInv, [Next]_vars PROVE PatchIsJustified'
    OBVIOUS
  <1> USE DEF IInv, JInv, PatchIsJustified, Justified
  <1>1. CASE UserCreates \/ UserEdits \/ UserDeletes
    BY <1>1 DEF UserCreates, UserEdits, UserDeletes, CreateWatch, EditSpec, DeleteWatch,
                runVars
  <1>2. CASE MarketMoves \/ Tick \/ GetFails \/ UNCHANGED vars
    BY <1>2, GetFailsFrame DEF MarketMoves, Tick, vars, frameVars, shared
  <1>3. CASE InformerDelivers \/ RequeueFires
    BY <1>3 DEF InformerDelivers, DeliverEvents, RequeueFires, TimerFires, runVars
  <1>4. CASE OperatorRestarts
    BY <1>4 DEF OperatorRestarts, Restart
  <1>5. CASE Get
    BY <1>5 DEF Get, StartReconcile, runVars
  <1>6. CASE FetchFails \/ NoSellOrders
    BY <1>6, ReportFields DEF FetchFails, NoSellOrders, NothingToSend, shared
  <1>7. CASE AboveThreshold
    BY <1>7, ReportFields DEF AboveThreshold, NothingToSend
  <1>8. CASE AlreadyNotified
    BY <1>8, ReportFields, CheapestType DEF AlreadyNotified, NothingToSend
  <1>9. CASE OutsideWindow
    BY <1>9, ReportFields, CheapestType DEF OutsideWindow, NothingToSend
  <1>10. CASE AlertDue
    BY <1>10, ReportFields, CheapestType DEF AlertDue, shared
  <1>11. CASE SendSucceeds
    <2>1. /\ patch'.cheapest = patch.cheapest /\ patch'.observed = patch.observed
          /\ original' = original /\ pc' = "apply" /\ pc = "send"
      BY <1>11 DEF SendSucceeds, TypeOK, Statuses, shared
    <2> QED
      BY <2>1
  <1>12. CASE SendFails
    BY <1>12 DEF SendFails, shared
  <1>13. CASE StatusApplied \/ StatusApplyFails
    BY <1>13 DEF StatusApplied, StatusApplyFails, ApplyStatus, ApplyStatusFails,
                 FinishReconcile
  <1> QED
    BY <1>1, <1>2, <1>3, <1>4, <1>5, <1>6, <1>7, <1>8, <1>9, <1>10, <1>11, <1>12, <1>13
    DEF Next, Reconcile

\* Generations are numbers, and a new status names neither an order nor one of them.
LEMMA GenerationType ==
  ASSUME NEW w \in Watches
  PROVE  w.generation \in Nat /\ w.status.observed \in Nat
  <1>1. w.status \in Statuses /\ w.generation \in 1..MaxGeneration
    BY DEF Watches
  <1>2. w.status.observed \in 0..MaxGeneration
    BY <1>1 DEF Statuses
  <1> QED
    BY <1>1, <1>2, ItemAssumption DEF ItemAssumption

\* The empty status names no order and has observed no generation.
LEMMA ZeroStatusFields ==
  ZeroItemStatus.notified = NoOrder /\ ZeroItemStatus.observed = 0
  BY DEF ZeroItemStatus

\* An edit raises the generation, so that no older copy passes for the new spec.
LEMMA AgreeStep == IInv /\ JInv /\ [Next]_vars => CopiesAgree' /\ StatusIsJustified'
  <1> SUFFICES ASSUME IInv, JInv, [Next]_vars PROVE CopiesAgree' /\ StatusIsJustified'
    OBVIOUS
  <1> USE NoObjectAssumption
      DEF IInv, JInv, CopiesAgree, StatusIsJustified, Justified, NoObjectAssumption
  <1>1. CASE UserCreates
    <2>1. PICK spec \in Specs : CreateWatch(spec)
      BY <1>1 DEF UserCreates
    <2>2. obj'.status = ZeroItemStatus /\ obj'.generation = 1 /\ created' = created + 1
      BY <2>1 DEF CreateWatch
    <2>3. created' = 1 => cache' = NoObject /\ pc' = "idle"
      BY <2>1, <2>2, ItemAssumption DEF CreateWatch, runVars, NothingBefore, TypeOK, ItemAssumption
    <2>4. obj'.status.notified = NoOrder /\ obj'.status.observed = 0
      BY <2>2, ZeroStatusFields
    <2>5. CopiesAgree'
      BY <2>3
    <2>6. StatusIsJustified'
      BY <2>2, <2>4
    <2> QED
      BY <2>5, <2>6
  <1>2. CASE UserEdits
    <2>1. PICK spec \in Specs : EditSpec(spec)
      BY <1>2 DEF UserEdits
    <2>2. obj # NoObject /\ UNCHANGED <<created, cache, pc, original>>
      BY <2>1 DEF EditSpec, runVars
    <2>3. \A w \in Watches : w.generation \in Nat /\ w.status.observed \in Nat
      BY GenerationType
    <2>4. /\ obj \in Watches
          /\ cache # NoObject => cache \in Watches
          /\ pc # "idle" => original \in Watches
      BY <2>2 DEF TypeOK
    <2>5. obj'.generation = obj.generation + 1 /\ obj'.status = obj.status
      BY <2>1, <2>4 DEF EditSpec, Watches
    <2> QED
      BY <2>2, <2>3, <2>4, <2>5
  <1>3. CASE UserDeletes
    BY <1>3 DEF UserDeletes, DeleteWatch
  <1>4. CASE MarketMoves \/ Tick \/ GetFails \/ UNCHANGED vars
    BY <1>4, GetFailsFrame DEF MarketMoves, Tick, vars, frameVars, shared
  <1>5. CASE InformerDelivers \/ RequeueFires
    <2>1. obj # NoObject => obj.generation \in Nat
      BY ItemAssumption DEF TypeOK, Watches, ItemAssumption
    <2> QED
      BY <1>5, <2>1
      DEF InformerDelivers, DeliverEvents, RequeueFires, TimerFires, apiVars, runVars
  <1>6. CASE OperatorRestarts
    <2>1. obj # NoObject => obj.generation \in Nat
      BY ItemAssumption DEF TypeOK, Watches, ItemAssumption
    <2> QED
      BY <1>6, <2>1 DEF OperatorRestarts, Restart, apiVars
  <1>7. CASE Get
    BY <1>7 DEF Get, StartReconcile, apiVars, runVars
  <1>8. CASE ExecuteStep
    BY <1>8, ExecuteFrame
  <1>9. CASE StatusApplied \/ StatusApplyFails
    <2>1. pc = "apply" /\ pc' = "idle" /\ created' = created /\ cache' = cache
      BY <1>9 DEF StatusApplied, StatusApplyFails, ApplyStatus, ApplyStatusFails,
                  FinishReconcile
    <2>2. obj' = obj \/ (obj # NoObject /\ obj' = Applied)
      BY <1>9 DEF StatusApplied, StatusApplyFails, ApplyStatus, ApplyStatusFails
    <2>3. CASE obj' = obj
      BY <2>1, <2>3
    <2>4. CASE obj # NoObject /\ obj' = Applied
      <3>1. /\ Applied.status = patch /\ Applied.generation = obj.generation
            /\ Applied.spec = obj.spec
        BY <2>4 DEF Applied, TypeOK, Watches
      <3>2. patch.observed = original.generation /\ Justified(patch, original.spec.threshold)
        BY <2>1 DEF PatchIsJustified
      <3> QED
        BY <2>1, <2>4, <3>1, <3>2
    <2> QED
      BY <2>2, <2>3, <2>4
  <1> QED
    BY <1>1, <1>2, <1>3, <1>4, <1>5, <1>6, <1>7, <1>8, <1>9
    DEF Next, Reconcile, ExecuteStep

\* Whatever is edited, every patch and every status is justified by its spec.
LEMMA JustifiedInvariant == Spec => []JInv
  <1>1. Init => JInv
    BY DEF Init, ControllerInit, JInv, CopiesAgree, PatchIsJustified, StatusIsJustified
  <1>2. IInv /\ JInv /\ [Next]_vars => JInv'
    BY PatchStep, AgreeStep DEF JInv
  <1> QED
    BY <1>1, <1>2, InductiveInvariant, PTL DEF Spec

\* A status of the current spec never names an alerted order whose price that spec
\* does not admit, however the threshold was edited on the way.
THEOREM RecordFitsSpec == Spec => []NotifiedUnderThreshold
  <1>1. JInv => NotifiedUnderThreshold
    BY DEF JInv, StatusIsJustified, Justified, NotifiedUnderThreshold
  <1> QED
    BY <1>1, JustifiedInvariant, PTL

-----------------------------------------------------------------------------
(* The generation a status observed. *)

Growing ==
  (obj # NoObject /\ obj' # NoObject /\ created' = 1) => obj.status.observed <= obj'.status.observed

\* A status is that of the copy that was reconciled, which no later one is older than.
LEMMA ObservedStep ==
  IInv /\ JInv /\ ObservedBehind /\ [Next]_vars => ObservedBehind' /\ Growing
  <1> SUFFICES ASSUME IInv, JInv, ObservedBehind, [Next]_vars PROVE ObservedBehind' /\ Growing
    OBVIOUS
  <1> USE NoObjectAssumption DEF IInv, ObservedBehind, Growing, NoObjectAssumption
  <1>1. \A w \in Watches : w.generation \in Nat /\ w.status.observed \in Nat
    BY GenerationType
  <1>2. /\ obj # NoObject => obj \in Watches
        /\ cache # NoObject => cache \in Watches
        /\ pc # "idle" => original \in Watches
    BY DEF TypeOK
  <1>3. CASE UserCreates
    <2>1. PICK spec \in Specs : CreateWatch(spec)
      BY <1>3 DEF UserCreates
    <2>2. obj = NoObject /\ obj'.status = ZeroItemStatus /\ created' = created + 1
      BY <2>1 DEF CreateWatch
    <2>3. created' = 1 => cache' = NoObject /\ pc' = "idle"
      BY <2>1, <2>2, ItemAssumption DEF CreateWatch, runVars, NothingBefore, TypeOK, ItemAssumption
    <2>4. obj'.status.observed = 0
      BY <2>2, ZeroStatusFields
    <2> QED
      BY <2>2, <2>3, <2>4
  <1>4. CASE UserEdits
    <2>1. PICK spec \in Specs : EditSpec(spec)
      BY <1>4 DEF UserEdits
    <2>2. obj # NoObject /\ UNCHANGED <<created, cache, pc, original>>
      BY <2>1 DEF EditSpec, runVars
    <2>3. obj'.status = obj.status
      BY <1>2, <2>1, <2>2 DEF EditSpec, Watches
    <2> QED
      BY <1>1, <1>2, <2>2, <2>3
  <1>5. CASE UserDeletes
    BY <1>5 DEF UserDeletes, DeleteWatch
  <1>6. CASE MarketMoves \/ Tick \/ RequeueFires \/ GetFails \/ UNCHANGED vars
    <2>1. UNCHANGED <<obj, created, cache, pc, original>>
      BY <1>6, GetFailsFrame
      DEF MarketMoves, Tick, RequeueFires, TimerFires, vars, frameVars, shared, apiVars, runVars
    <2> QED
      BY <1>1, <1>2, <2>1
  <1>7. CASE InformerDelivers
    <2>1. cache' = obj /\ UNCHANGED <<obj, created, pc, original>>
      BY <1>7 DEF InformerDelivers, DeliverEvents, apiVars, runVars
    <2> QED
      BY <1>1, <1>2, <2>1 DEF JInv, StatusIsJustified, CopiesAgree
  <1>8. CASE OperatorRestarts
    <2>1. cache' = obj /\ pc' = "idle" /\ UNCHANGED <<obj, created>>
      BY <1>8 DEF OperatorRestarts, Restart, apiVars
    <2> QED
      BY <1>1, <1>2, <2>1 DEF JInv, StatusIsJustified
  <1>9. CASE Get
    <2>1. /\ UNCHANGED <<obj, created, cache>>
          /\ \/ cache = NoObject /\ UNCHANGED <<pc, original>>
             \/ cache # NoObject /\ original' = cache
      BY <1>9 DEF Get, StartReconcile, apiVars, runVars
    <2> QED
      BY <1>1, <1>2, <2>1
  <1>10. CASE ExecuteStep
    <2>1. UNCHANGED <<obj, created, cache, original>> /\ pc # "idle"
      BY <1>10, ExecuteFrame
    <2> QED
      BY <1>1, <1>2, <2>1
  <1>11. CASE StatusApplied \/ StatusApplyFails
    <2>1. pc = "apply" /\ pc' = "idle" /\ created' = created /\ cache' = cache
      BY <1>11 DEF StatusApplied, StatusApplyFails, ApplyStatus, ApplyStatusFails,
                   FinishReconcile
    <2>2. obj' = obj \/ (obj # NoObject /\ obj' = Applied)
      BY <1>11 DEF StatusApplied, StatusApplyFails, ApplyStatus, ApplyStatusFails
    <2>3. CASE obj' = obj
      BY <1>1, <1>2, <2>1, <2>3
    <2>4. CASE obj # NoObject /\ obj' = Applied
      <3>1. Applied.status = patch
        BY <2>4 DEF Applied, TypeOK, Watches
      <3>2. patch.observed = original.generation
        BY <2>1 DEF JInv, PatchIsJustified
      <3> QED
        BY <1>1, <1>2, <2>1, <2>4, <3>1, <3>2
    <2> QED
      BY <2>2, <2>3, <2>4
  <1> QED
    BY <1>3, <1>4, <1>5, <1>6, <1>7, <1>8, <1>9, <1>10, <1>11 DEF Next, Reconcile, ExecuteStep

\* Until a watch is created again under its name its status is never replaced by one
\* that was made of an older spec, for any faults, edits and lag of the cache.
THEOREM ObservedOnlyGrows == Spec => ObservedNeverFalls
  <1>1. Init => ObservedBehind
    BY DEF Init, ControllerInit, ObservedBehind
  <1>2. IInv /\ JInv /\ ObservedBehind /\ [Next]_vars
          => ObservedBehind' /\ [(obj # NoObject /\ obj' # NoObject /\ created' = 1)
                                    => obj.status.observed <= obj'.status.observed]_obj
    BY ObservedStep DEF Growing
  <1> QED
    BY <1>1, <1>2, InductiveInvariant, JustifiedInvariant, PTL DEF Spec, ObservedNeverFalls

-----------------------------------------------------------------------------
(* The item watch implements Alerts. *)

\* In each step the user sees an alert, a release, a record, the end of the watch,
\* or nothing.
LEMMA PromiseStep == IInv /\ [Next]_vars => [Promise!Next]_(Promise!alertVars)
  <1> SUFFICES ASSUME IInv, [Next]_vars PROVE [Promise!Next]_(Promise!alertVars)
    OBVIOUS
  <1> USE DEF IInv, Known, Secured
  <1>1. CASE UserCreates
    <2>1. PICK spec \in Specs : CreateWatch(spec)
      BY <1>1 DEF UserCreates
    <2>2. obj = NoObject /\ obj'.status.notified = NoOrder
      BY <2>1 DEF CreateWatch, ZeroItemStatus
    <2> QED
      BY <1>1, <2>2 DEF UserCreates, ghostVars, Listed, Promise!alertVars
  <1>2. CASE UserEdits
    <2>1. PICK spec \in Specs : EditSpec(spec)
      BY <1>2 DEF UserEdits
    <2>2. obj # NoObject /\ obj' # NoObject /\ obj'.status = obj.status
      BY <2>1, EditType DEF EditSpec
    <2> QED
      BY <1>2, <2>2 DEF UserEdits, ghostVars, Listed, Promise!alertVars
  <1>3. CASE UserDeletes
    <2>1. Promise!Forget
      BY <1>3 DEF UserDeletes, DeleteWatch, Listed, Promise!Forget
    <2> QED
      BY <2>1 DEF Promise!Next
  <1>4. CASE \/ MarketMoves \/ Tick \/ InformerDelivers \/ RequeueFires \/ GetFails
             \/ UNCHANGED vars
    <2>1. UNCHANGED <<obj, sent, told, loss>>
      BY <1>4, GetFailsFrame DEF MarketMoves, Tick, InformerDelivers, DeliverEvents, RequeueFires,
                  TimerFires, vars, frameVars, shared, apiVars, ghostVars
    <2> QED
      BY <2>1 DEF Listed, Promise!alertVars
  <1>5. CASE OperatorRestarts \/ Get
    <2>1. UNCHANGED <<sent, told, obj>>
      BY <1>5 DEF OperatorRestarts, Restart, Get, StartReconcile, apiVars
    <2>2. loss => loss'
      BY <1>5 DEF OperatorRestarts, Get
    <2>3. Known' = Known /\ Listed' = Listed /\ Secured' \subseteq Secured
      BY <2>1, <2>2 DEF Listed
    <2>4. Promise!Release
      BY <2>1, <2>3 DEF Promise!Release
    <2> QED
      BY <2>4 DEF Promise!Next
  <1>6. CASE ExecuteStep /\ ~SendSucceeds /\ ~SendFails
    <2>1. UNCHANGED <<sent, obj>> /\ told' \in {told, NoOrder} /\ loss' \in {loss, TRUE}
      BY <1>6, ExecuteFrame, ToldType
      DEF ExecuteStep, FetchFails, NoSellOrders, AboveThreshold, AlreadyNotified,
          OutsideWindow, AlertDue, NothingToSend
    <2>2. loss => loss'
      BY <2>1
    <2>3. Listed' = Listed
      BY <2>1 DEF Listed
    <2>4. Known' \subseteq Known
      BY <2>1
    <2>5. Secured' \subseteq Secured /\ Secured' \subseteq Known'
      BY <2>2, <2>4
    <2>6. Promise!Release
      BY <2>1, <2>3, <2>4, <2>5 DEF Promise!Release
    <2> QED
      BY <2>6 DEF Promise!Next
  <1>7. CASE SendSucceeds \/ SendFails
    <2>1. cand \in Orders /\ cand # NoOrder /\ cand \notin Secured
      BY <1>7, ItemAssumption
      DEF SendSucceeds, SendFails, LastAlertRecorded, TypeOK, ItemAssumption
    <2>2. UNCHANGED obj
      BY <1>7 DEF SendSucceeds, SendFails, shared
    <2>3. CASE UNCHANGED ghostVars
      BY <2>2, <2>3 DEF ghostVars, Listed, Promise!alertVars
    <2>4. CASE Delivered
      <3>1. Promise!Announce(cand)
        BY <2>1, <2>2, <2>4 DEF Delivered, Listed, Promise!Announce
      <3> QED
        BY <2>1, <3>1 DEF Promise!Next
    <2> QED
      BY <1>7, <2>3, <2>4 DEF SendSucceeds, SendFails
  <1>8. CASE StatusApplied
    <2>1. /\ obj' # NoObject /\ obj'.status = patch
          /\ UNCHANGED <<sent, told, loss>> /\ pc = "apply"
      BY <1>8, AppliedType DEF StatusApplied, ApplyStatus, ghostVars
    <2>2. Promise!Record
      BY <2>1 DEF Listed, LastAlertRecorded, CopiesWereSent, Promise!Record
    <2> QED
      BY <2>2 DEF Promise!Next
  <1>9. CASE StatusApplyFails
    <2>1. /\ obj' = obj \/ (obj' # NoObject /\ obj'.status = patch)
          /\ UNCHANGED <<sent, told>> /\ loss'
      BY <1>9, AppliedType DEF StatusApplyFails, ApplyStatusFails
    <2>2. Promise!Record
      BY <2>1 DEF Listed, CopiesWereSent, Promise!Record
    <2> QED
      BY <2>2 DEF Promise!Next
  <1> QED
    BY <1>1, <1>2, <1>3, <1>4, <1>5, <1>6, <1>7, <1>8, <1>9 DEF Next, Reconcile, ExecuteStep

\* For any orders, prices, specs and faults the item watch keeps the promise of
\* Alerts.
THEOREM PromiseKept == Spec => ImplementsAlerts
  <1>1. Init => Promise!Init
    BY DEF Init, ControllerInit, Known, Secured, Listed, Promise!Init
  <1> QED
    BY <1>1, PromiseStep, InductiveInvariant, PTL DEF Spec, ImplementsAlerts, Promise!Spec

=============================================================================
