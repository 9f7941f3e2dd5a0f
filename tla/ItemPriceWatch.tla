--------------------------- MODULE ItemPriceWatch ---------------------------
(***************************************************************************)
(* The ItemPriceWatch controller: ItemPriceWatchUseCase.Execute            *)
(* (internal/domain/usecase/item_price_watch_use_case.go) inside the       *)
(* frame of Reconcile (WatchController), next to a user who creates,       *)
(* edits and deletes the watch, a market whose sell orders come and go, a  *)
(* clock, and the ntfy server the alerts are sent to.                      *)
(*                                                                         *)
(* The item the watch names is not a part of the model: to point a watch   *)
(* at another item is to edit it and to let every order change at once.    *)
(***************************************************************************)
EXTENDS Integers, NotificationWindow

CONSTANTS
    Orders,         \* the order ids the market may show
    NoOrder,        \* the empty order id
    Prices,         \* the prices an order may have, in platinum
    Specs,          \* the specs a user may write: threshold and window
    DayLength,      \* how many times of day the clock tells apart
    NoObject, MaxGeneration, MaxUID, Faults     \* see WatchController

VARIABLES
    obj, created, cache, queued, timer, pc, original, patch, useCaseErr,
    market,     \* the price of every visible sell order
    now,        \* the time of day
    cand,       \* the order the alert being sent is about
    sent,       \* the orders the user received an alert for
    told,       \* the order of the last alert, until a reply of the market
                \* that the controller saw gave a reason to alert again; an
                \* alert about another order, now the cheapest, replaces it
    loss        \* since the last alert something happened that may lose it

ZeroItemStatus ==
    [cheapest |-> 0, notified |-> NoOrder, lastNotified |-> FALSE,
     reason |-> "", observed |-> 0]

INSTANCE WatchController WITH ZeroStatus <- ZeroItemStatus

\* The variables of the frame, and those of it that no step of Execute changes.
shared    == <<obj, created, cache, queued, timer>>
frameVars == <<shared, pc, original, patch, useCaseErr>>
ghostVars == <<sent, told, loss>>
worldVars == <<market, now>>
vars == <<frameVars, worldVars, cand, ghostVars>>

\* A market shows some orders, each at one price. A price is positive, so that
\* 0 can stand for "no price" in a status.
Markets == UNION {[shown -> Prices] : shown \in SUBSET Orders}

SpecType == [threshold : Int, window : Windows]

ASSUME ItemAssumption ==
    /\ NoOrder \notin Orders
    /\ Prices \subseteq Nat \ {0}
    /\ Specs \subseteq SpecType
    /\ DayLength \in Nat \ {0}
    /\ MaxGeneration \in Nat \ {0}
    /\ MaxUID \in Nat \ {0}
    /\ Faults \subseteq FaultKinds

Statuses ==
    [cheapest : Prices \cup {0}, notified : Orders \cup {NoOrder},
     lastNotified : BOOLEAN,
     reason : {"", "FetchFailed", "NoSellOrders", "PriceFetched"},
     observed : 0..MaxGeneration]

Watches ==
    [uid : 1..MaxUID, generation : 1..MaxGeneration, spec : Specs, status : Statuses]

ASSUME NoObjectAssumption == NoObject \notin Watches

Steps == {"idle", "fetch", "send", "apply"}

-----------------------------------------------------------------------------
(* The choice of the order. *)

\* minOrder takes the first of the cheapest orders, in the order the market
\* lists them, which nothing fixes: any of them.
Cheapest(shown) ==
    {o \in DOMAIN shown : \A p \in DOMAIN shown : shown[o] <= shown[p]}

\* Wrong on purpose: a record outlives the offer it is about.
RetainedAlways == original.status.notified

\* The order the status names, as long as the market still shows it.
Retained ==
    IF original.status.notified \in DOMAIN market
    THEN original.status.notified ELSE NoOrder

-----------------------------------------------------------------------------
Init ==
    /\ ControllerInit
    /\ market \in Markets
    /\ now \in 0..(DayLength - 1)
    /\ cand = NoOrder
    /\ sent = {}
    /\ told = NoOrder
    /\ loss = FALSE

-----------------------------------------------------------------------------
(* The user, the market, the clock, the cluster. *)

UserCreates ==
    /\ \E spec \in Specs : CreateWatch(spec)
    /\ UNCHANGED <<worldVars, cand, ghostVars>>

UserEdits ==
    /\ \E spec \in Specs : EditSpec(spec)
    /\ UNCHANGED <<worldVars, cand, ghostVars>>

\* Who deletes a watch does not expect the next one to remember its alerts.
UserDeletes ==
    /\ DeleteWatch
    /\ told' = NoOrder
    /\ UNCHANGED <<worldVars, cand, sent, loss>>

MarketMoves ==
    /\ market' \in Markets \ {market}
    /\ UNCHANGED <<frameVars, now, cand, ghostVars>>

Tick ==
    /\ DayLength > 1
    /\ now' = (now + 1) % DayLength
    /\ UNCHANGED <<frameVars, market, cand, ghostVars>>

InformerDelivers ==
    /\ DeliverEvents
    /\ UNCHANGED <<worldVars, cand, ghostVars>>

RequeueFires ==
    /\ TimerFires
    /\ UNCHANGED <<worldVars, cand, ghostVars>>

\* The new process does not know of an alert whose status was not applied, nor
\* of a record that was to be reset.
OperatorRestarts ==
    /\ Restart
    /\ cand' = NoOrder
    /\ loss' = (loss \/ pc = "apply" \/ (pc = "send" /\ told = NoOrder))
    /\ UNCHANGED <<worldVars, sent, told>>

-----------------------------------------------------------------------------
(* Reconcile and Execute. *)

\* The cache still names another order than the object on the API server.
StaleRecord ==
    /\ cache # NoObject
    /\ obj # NoObject
    /\ cache.status.notified # obj.status.notified

Get ==
    /\ StartReconcile("fetch")
    /\ loss' = (loss \/ StaleRecord)
    /\ UNCHANGED <<worldVars, cand, sent, told>>

GetFails ==
    /\ ReadFails
    /\ UNCHANGED <<worldVars, cand, ghostVars>>

\* Wrong on purpose: the condition observes a generation the watch may not have.
ReportAhead(reason, cheapest, notified) ==
    patch' = [ZeroItemStatus EXCEPT !.reason = reason, !.cheapest = cheapest,
                 !.notified = notified, !.observed = original.generation + 1]

\* What Execute returns once it has a reply of the market: the fields it names
\* are set, the others stay unset and the apply removes them.
Report(reason, cheapest, notified) ==
    patch' = [ZeroItemStatus EXCEPT !.reason = reason, !.cheapest = cheapest,
                 !.notified = notified, !.observed = original.generation]

\* Wrong on purpose: the error branch forgets which generation it looked at.
FetchFailsUnobserved ==
    /\ pc = "fetch"
    /\ "fetch" \in Faults
    /\ pc' = "apply"
    /\ patch' = [ZeroItemStatus EXCEPT !.reason = "FetchFailed"]
    /\ useCaseErr' = TRUE
    /\ loss' = TRUE
    /\ UNCHANGED <<shared, original, worldVars, cand, sent, told>>

FetchFails ==
    /\ pc = "fetch"
    /\ "fetch" \in Faults
    /\ pc' = "apply"
    /\ Report("FetchFailed", 0, NoOrder)
    /\ useCaseErr' = TRUE
    /\ loss' = TRUE
    /\ UNCHANGED <<shared, original, worldVars, cand, sent, told>>

\* The market answers and there is nothing to alert about: no sell order, none
\* cheap enough, the cheapest is the one alerted before, or not the time.
NothingToSend ==
    /\ pc' = "apply"
    /\ UNCHANGED <<shared, original, useCaseErr,
                   worldVars, cand, sent, loss>>

NoSellOrders ==
    /\ pc = "fetch"
    /\ DOMAIN market = {}
    /\ Report("NoSellOrders", 0, NoOrder)
    /\ told' = NoOrder
    /\ NothingToSend

\* Wrong on purpose: a price above the threshold leaves the record.
AboveThresholdKeeps ==
    /\ pc = "fetch"
    /\ \E o \in Cheapest(market) :
          /\ market[o] > original.spec.threshold
          /\ Report("PriceFetched", market[o], Retained)
    /\ told' = NoOrder
    /\ NothingToSend

AboveThreshold ==
    /\ pc = "fetch"
    /\ \E o \in Cheapest(market) :
          /\ market[o] > original.spec.threshold
          /\ Report("PriceFetched", market[o], NoOrder)
    /\ told' = NoOrder
    /\ NothingToSend

\* A reply that does not show the alerted order is a reason to alert again.
ToldIfShown == IF told \in DOMAIN market THEN told ELSE NoOrder

\* Wrong on purpose: the record is not written again, so the apply removes it.
AlreadyNotifiedForgets ==
    /\ pc = "fetch"
    /\ \E o \in Cheapest(market) :
          /\ market[o] <= original.spec.threshold
          /\ Retained = o
          /\ Report("PriceFetched", market[o], NoOrder)
    /\ told' = ToldIfShown
    /\ NothingToSend

AlreadyNotified ==
    /\ pc = "fetch"
    /\ \E o \in Cheapest(market) :
          /\ market[o] <= original.spec.threshold
          /\ Retained = o
          /\ Report("PriceFetched", market[o], Retained)
    /\ told' = ToldIfShown
    /\ NothingToSend

\* Wrong on purpose: outside the window the record is dropped.
OutsideWindowForgets ==
    /\ pc = "fetch"
    /\ OutsideOf(original.spec.window, now)
    /\ \E o \in Cheapest(market) :
          /\ market[o] <= original.spec.threshold
          /\ Report("PriceFetched", market[o], NoOrder)
    /\ told' = ToldIfShown
    /\ NothingToSend

OutsideWindow ==
    /\ pc = "fetch"
    /\ OutsideOf(original.spec.window, now)
    /\ \E o \in Cheapest(market) :
          /\ market[o] <= original.spec.threshold
          /\ Retained # o
          /\ Report("PriceFetched", market[o], Retained)
    /\ told' = ToldIfShown
    /\ NothingToSend

\* The status is the one to report if the alert cannot be sent.
AlertDue ==
    /\ pc = "fetch"
    /\ ~OutsideOf(original.spec.window, now)
    /\ \E o \in Cheapest(market) :
          /\ market[o] <= original.spec.threshold
          /\ Retained # o
          /\ Report("PriceFetched", market[o], Retained)
          /\ cand' = o
    /\ pc' = "send"
    /\ told' = ToldIfShown
    /\ UNCHANGED <<shared, original, useCaseErr,
                   worldVars, sent, loss>>

Delivered == sent' = sent \cup {cand} /\ told' = cand

\* Wrong on purpose: the alert is dated, but not recorded.
SendSucceedsUnrecorded ==
    /\ pc = "send"
    /\ pc' = "apply"
    /\ patch' = [patch EXCEPT !.lastNotified = TRUE]
    /\ Delivered
    /\ loss' = FALSE
    /\ cand' = NoOrder
    /\ UNCHANGED <<shared, original, useCaseErr, worldVars>>

SendSucceeds ==
    /\ pc = "send"
    /\ pc' = "apply"
    /\ patch' = [patch EXCEPT !.notified = cand, !.lastNotified = TRUE]
    /\ Delivered
    /\ loss' = FALSE
    /\ cand' = NoOrder
    /\ UNCHANGED <<shared, original, useCaseErr, worldVars>>

\* Wrong on purpose: an alert that failed is recorded.
SendFailsRecords ==
    /\ pc = "send"
    /\ "send" \in Faults
    /\ pc' = "apply"
    /\ useCaseErr' = TRUE
    /\ patch' = [patch EXCEPT !.notified = cand]
    /\ UNCHANGED ghostVars
    /\ cand' = NoOrder
    /\ UNCHANGED <<shared, original, worldVars>>

\* Send returns an error: the alert never arrived, or its answer did not.
SendFails ==
    /\ pc = "send"
    /\ "send" \in Faults
    /\ pc' = "apply"
    /\ useCaseErr' = TRUE
    /\ \/ UNCHANGED ghostVars
       \/ Delivered /\ loss' = TRUE
    /\ cand' = NoOrder
    /\ UNCHANGED <<shared, original, patch, worldVars>>

StatusApplied ==
    /\ ApplyStatus
    /\ UNCHANGED <<worldVars, cand, ghostVars>>

StatusApplyFails ==
    /\ ApplyStatusFails
    /\ loss' = TRUE
    /\ UNCHANGED <<worldVars, cand, sent, told>>

-----------------------------------------------------------------------------
Reply == NoSellOrders \/ AboveThreshold \/ AlreadyNotified \/ OutsideWindow \/ AlertDue

Reconcile ==
    \/ Get \/ GetFails
    \/ FetchFails \/ NoSellOrders \/ AboveThreshold \/ AlreadyNotified
    \/ OutsideWindow \/ AlertDue
    \/ SendSucceeds \/ SendFails
    \/ StatusApplied \/ StatusApplyFails

Next ==
    \/ UserCreates \/ UserEdits \/ UserDeletes
    \/ MarketMoves \/ Tick
    \/ InformerDelivers \/ RequeueFires \/ OperatorRestarts
    \/ Reconcile

Spec == Init /\ [][Next]_vars

\* The informer and the queue make progress and the worker takes what is
\* queued. A call the controller makes over and over (the read, the fetch, the
\* alert, the status) does not fail every time.
Fairness ==
    /\ WF_vars(InformerDelivers)
    /\ WF_vars(RequeueFires)
    /\ SF_vars(Get)
    /\ SF_vars(Reply)
    /\ SF_vars(SendSucceeds)
    /\ SF_vars(StatusApplied)
    /\ WF_vars(StatusApplyFails)

FairSpec == Spec /\ Fairness

-----------------------------------------------------------------------------
(* Properties. *)

\* Every variable has its type: in particular a status only ever names an
\* order of the market or none, and a generation the object went through.
TypeOK ==
    /\ obj \in Watches \cup {NoObject}
    /\ created \in 0..MaxUID
    /\ cache \in Watches \cup {NoObject}
    /\ queued \in BOOLEAN
    /\ timer \in Timers
    /\ pc \in Steps
    /\ original \in Watches \cup {NoObject}
    /\ pc # "idle" => original \in Watches
    /\ patch \in Statuses
    /\ useCaseErr \in BOOLEAN
    /\ market \in Markets
    /\ now \in 0..(DayLength - 1)
    /\ cand \in Orders \cup {NoOrder}
    /\ pc = "send" => cand \in Orders
    /\ sent \subseteq Orders
    /\ told \in Orders \cup {NoOrder}
    /\ loss \in BOOLEAN

\* Two alerts in a row are never about the same order as long as every reply
\* between them showed it at or under the threshold, unless the record of the
\* first could be lost: a failed fetch, a status that was not applied, an alert
\* whose answer was lost, a restart in between, a read from a stale cache. The
\* record is notifiedOrderId, kept across reconciles only because every branch of
\* Execute from line 82 on writes it again. It names one order only: an alert
\* about another order is a change of the cheapest seller, after which the first
\* is news again once it is the cheapest (item_price_watch_use_case.go:29).
NoRepeatWithoutCause == (pc = "send" /\ cand = told) => loss

\* An alert is only held back for an order the user was told about and that
\* every reply since showed at or under the threshold, under the same provisos:
\* no branch of Execute keeps the record of an order that left, so the return of
\* a bargain is news. (A watch created again under its name may receive the
\* status of the one before it.)
NoAlertSwallowed ==
    (/\ pc = "apply"
     /\ patch.notified # NoOrder
     /\ obj # NoObject
     /\ created = 1
     /\ ~loss)
        => patch.notified = told

\* The status never names an order the user received no alert for: a failed
\* alert leaves the old record (item_price_watch_use_case.go:131-135).
RecordedWasSent ==
    (obj # NoObject /\ obj.status.notified # NoOrder) => obj.status.notified \in sent

\* A status computed from the current spec names an alerted order only next to
\* a cheapest price that reaches the threshold of that spec: an edit of the
\* threshold cannot leave a record the new threshold does not justify. (A watch
\* created again under its name may receive the status of the one before it.)
NotifiedUnderThreshold ==
    (/\ obj # NoObject
     /\ created = 1
     /\ obj.status.observed = obj.generation
     /\ obj.status.notified # NoOrder)
        => obj.status.cheapest \in Prices /\ obj.status.cheapest <= obj.spec.threshold

\* A bargain: the one cheapest order, at or under the threshold, of a watch
\* without a window.
Bargain(o) ==
    /\ obj # NoObject
    /\ obj.spec.window = <<>>
    /\ Cheapest(market) = {o}
    /\ market[o] <= obj.spec.threshold

\* A bargain that stays is announced at least once, whatever failed on the way
\* and however often the status with the record of it was lost.
BargainAnnounced == \A o \in Orders : <>[]Bargain(o) => <>(o \in sent)

Failure == GetFails \/ FetchFails \/ SendFails \/ StatusApplyFails \/ OperatorRestarts

\* Once nothing fails any more the record of a bargain that stays settles in the
\* status, and with it the alerts about it end.
BargainSettles ==
    \A o \in Orders :
        (<>[]Bargain(o) /\ <>[][~Failure]_vars)
            => <>[](pc # "send" /\ obj # NoObject /\ obj.status.notified = o)

\* An object that is neither edited nor deleted any more ends with a status
\* computed from its last spec: no event is lost between the watch stream, the
\* predicate and the queue, also not one that arrives during a reconcile.
StatusCatchesUp ==
    \A g \in 1..MaxGeneration :
        <>[](obj # NoObject /\ obj.generation = g)
            => <>[](obj # NoObject /\ obj.status.observed = g)

-----------------------------------------------------------------------------
(* What the user sees of all this. *)

\* The offer the user knows of, if there is one, and the same while its record is
\* not at risk.
Known   == {told} \ {NoOrder}
Secured == IF loss THEN {} ELSE Known

\* The offer the status names, if there is one.
Listed == IF obj = NoObject THEN {} ELSE {obj.status.notified} \ {NoOrder}

Promise == INSTANCE Alerts WITH
    Offers <- Orders, received <- sent, known <- Known, secured <- Secured, listed <- Listed

\* However reads, calls, events, timers, faults and restarts interleave, the user
\* sees alerts and records that follow one upon the other as in Alerts: the record
\* of an alert is never ahead of it, and whenever a status is written it names
\* what must not be announced again.
ImplementsAlerts == Promise!Spec

=============================================================================
