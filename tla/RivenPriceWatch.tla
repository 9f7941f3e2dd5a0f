-------------------------- MODULE RivenPriceWatch --------------------------
(***************************************************************************)
(* The RivenPriceWatch controller: RivenPriceWatchUseCase.Execute          *)
(* (internal/domain/usecase/riven_price_watch_use_case.go) inside the      *)
(* frame of Reconcile (WatchController). One reconcile searches the        *)
(* auctions, looks the weapon up to score them, visits the auctions one    *)
(* by one, sends an alert for each new one that qualifies, and applies a   *)
(* status that lists the auctions alerted so far.                          *)
(*                                                                         *)
(* The market answers each search as it likes: an auction may appear,      *)
(* change its price and vanish between any two searches. The clock and the *)
(* user move between any two steps of a reconcile.                         *)
(***************************************************************************)
EXTENDS Integers, NotificationWindow

CONSTANTS
    Auctions,       \* the auction ids the market may show
    Listings,       \* how an auction may be listed: price, direct sale or bidding
                    \* only, the seller's status, the roll quality of the riven
                    \* (RivenScore)
    Specs,          \* the specs a user may write
    DayLength,      \* how many times of day the clock tells apart
    MaxDay,         \* bound on the days that pass
    NoObject, MaxGeneration, MaxUID, Faults     \* see WatchController

VARIABLES
    obj, created, cache, queued, timer, pc, original, patch, useCaseErr,
    day,        \* the date
    now,        \* the time of day
    reply,      \* the auctions the search returned
    todo,       \* those the loop has yet to visit
    weapon,     \* the export knew the weapon, so that rivens can be scored
    ids,        \* newNotifiedIDs, the auctions alerted so far
    low,        \* the price and quality of the cheapest auction so far
    fresh,      \* the auctions this reconcile sent an alert for
    sent,       \* the auctions the user ever received an alert for
    told,       \* those of this day, for the watch that exists now
    safe        \* of these, those whose record no fault has put at risk

\* No alert was ever sent: the date of a nil lastNotifiedAt.
Never == 0

ZeroRivenStatus ==
    [cheapest |-> 0, best |-> 0, notified |-> {}, lastNotified |-> Never,
     reason |-> "", observed |-> 0]

INSTANCE WatchController WITH ZeroStatus <- ZeroRivenStatus

\* The variables of the frame, and those of it that no step of Execute changes.
shared    == <<obj, created, cache, queued, timer>>
frameVars == <<shared, pc, original, patch, useCaseErr>>
clock     == <<day, now>>
loopVars  == <<reply, todo, weapon, ids, low, fresh>>
ghostVars == <<sent, told, safe>>
vars      == <<frameVars, clock, loopVars, ghostVars>>

UserStatuses == {"ingame", "online", "offline"}

ListingType ==
    [price : Nat, direct : BOOLEAN, status : UserStatuses, quality : 0..100]

\* A spec: the filters of the search that the operator applies itself, the
\* least quality, the window, and whether its slug is a name the export knows.
SpecType ==
    [threshold : Nat \ {0}, buyoutOnly : BOOLEAN, playerStatus : SUBSET UserStatuses,
     minQuality : 0..100, window : Windows, named : BOOLEAN]

ASSUME RivenAssumption ==
    /\ Listings \subseteq ListingType
    /\ Specs \subseteq SpecType
    /\ DayLength \in Nat \ {0}
    /\ MaxDay \in Nat \ {0}
    /\ MaxGeneration \in Nat \ {0}
    /\ MaxUID \in Nat \ {0}
    /\ Faults \subseteq FaultKinds

Reasons == {"", "FetchFailed", "NoAuctions", "AuctionFound", "QualityThresholdNotMet"}

Statuses ==
    [cheapest : Nat, best : 0..100, notified : SUBSET Auctions,
     lastNotified : 0..MaxDay, reason : Reasons, observed : 0..MaxGeneration]

Watches ==
    [uid : 1..MaxUID, generation : 1..MaxGeneration, spec : Specs, status : Statuses]

ASSUME NoObjectAssumption == NoObject \notin Watches

Steps == {"idle", "search", "lookup", "loop", "apply"}

-----------------------------------------------------------------------------
(* The search and the score. *)

\* toUserStatuses: no player status in the spec means sellers who are online.
Wanted(playerStatus) ==
    IF playerStatus = {} THEN {"ingame", "online"} ELSE playerStatus

\* What SearchAuctions leaves of the market's answer.
Matches(listing, spec) ==
    /\ listing.status \in Wanted(spec.playerStatus)
    /\ spec.buyoutOnly => listing.direct
    /\ listing.price <= spec.threshold

Offers == [price : Nat, quality : 0..100]

Replies(spec) ==
    LET Fit  == {listing \in Listings : Matches(listing, spec)}
        Seen == {[price |-> l.price, quality |-> l.quality] : l \in Fit}
    IN  UNION {[shown -> Seen] : shown \in SUBSET Auctions}

\* ScoreAuction returns no scores without a weapon, and no scores average to 0.
Quality(a) == IF weapon THEN reply[a].quality ELSE 0

Qualifies(a) == Quality(a) >= original.spec.minQuality

\* A price of 0 stands for "none so far".
NoOffer == [price |-> 0, quality |-> 0]

\* Wrong on purpose: the last qualifying auction wins.
LowWithLast(a) == [price |-> reply[a].price, quality |-> Quality(a)]

LowWith(a) ==
    IF low.price = 0 \/ reply[a].price < low.price
    THEN [price |-> reply[a].price, quality |-> Quality(a)] ELSE low

\* Wrong on purpose: a list without a date is taken for one of another day.
HeldBackIfDated ==
    IF original.status.lastNotified # day
    THEN {} ELSE original.status.notified

\* The auctions a reconcile holds back: those the status lists, unless its last
\* alert was sent on another date.
HeldBack ==
    IF original.status.lastNotified \notin {Never, day}
    THEN {} ELSE original.status.notified

-----------------------------------------------------------------------------
ClearLoop ==
    /\ reply' = <<>>
    /\ todo' = {}
    /\ weapon' = FALSE
    /\ ids' = {}
    /\ low' = NoOffer
    /\ fresh' = {}

Init ==
    /\ ControllerInit
    /\ day = 1
    /\ now = 0
    /\ reply = <<>>
    /\ todo = {}
    /\ weapon = FALSE
    /\ ids = {}
    /\ low = NoOffer
    /\ fresh = {}
    /\ sent = {}
    /\ told = {}
    /\ safe = {}

-----------------------------------------------------------------------------
(* The user, the clock, the cluster. *)

UserCreates ==
    /\ \E spec \in Specs : CreateWatch(spec)
    /\ UNCHANGED <<clock, loopVars, ghostVars>>

UserEdits ==
    /\ \E spec \in Specs : EditSpec(spec)
    /\ UNCHANGED <<clock, loopVars, ghostVars>>

UserDeletes ==
    /\ DeleteWatch
    /\ told' = {}
    /\ safe' = {}
    /\ UNCHANGED <<clock, loopVars, sent>>

Tick ==
    /\ now + 1 < DayLength
    /\ now' = now + 1
    /\ UNCHANGED <<frameVars, day, loopVars, ghostVars>>

\* A new day is a reason to alert again.
Midnight ==
    /\ now + 1 = DayLength
    /\ day < MaxDay
    /\ now' = 0
    /\ day' = day + 1
    /\ told' = {}
    /\ safe' = {}
    /\ UNCHANGED <<frameVars, loopVars, sent>>

InformerDelivers ==
    /\ DeliverEvents
    /\ UNCHANGED <<clock, loopVars, ghostVars>>

RequeueFires ==
    /\ TimerFires
    /\ UNCHANGED <<clock, loopVars, ghostVars>>

\* The alerts of the reconcile under way are not on record.
OperatorRestarts ==
    /\ Restart
    /\ ClearLoop
    /\ safe' = safe \ fresh
    /\ UNCHANGED <<clock, sent, told>>

-----------------------------------------------------------------------------
(* Reconcile and Execute. *)

StaleRecord ==
    /\ cache # NoObject
    /\ obj # NoObject
    /\ cache.status # obj.status

Get ==
    /\ StartReconcile("search")
    /\ safe' = IF StaleRecord THEN {} ELSE safe
    /\ UNCHANGED <<clock, loopVars, sent, told>>

GetFails ==
    /\ ReadFails
    /\ UNCHANGED <<clock, loopVars, ghostVars>>

\* Wrong on purpose: the condition observes a generation the watch may not have.
ReportOnlyAhead(reason) ==
    patch' = [ZeroRivenStatus EXCEPT !.reason = reason, !.observed = original.generation + 1]

\* Wrong on purpose: the condition does not say which generation was observed.
ReportOnlyUnobserved(reason) ==
    patch' = [ZeroRivenStatus EXCEPT !.reason = reason]

\* The status Execute returns: a field it does not set is removed by the apply.
Report(reason, cheapest, best, notified, lastNotified) ==
    patch' = [cheapest |-> cheapest, best |-> best, notified |-> notified,
              lastNotified |-> lastNotified, reason |-> reason,
              observed |-> original.generation]

\* A status that sets no more than its condition.
ReportOnly(reason) == Report(reason, 0, 0, {}, Never)

SearchFails ==
    /\ pc = "search"
    /\ "fetch" \in Faults
    /\ pc' = "apply"
    /\ ReportOnly("FetchFailed")
    /\ useCaseErr' = TRUE
    /\ safe' = {}
    /\ UNCHANGED <<shared, original, clock, loopVars, sent, told>>

\* The status of an empty search lists no alerted auction.
NoAuctions ==
    /\ pc = "search"
    /\ pc' = "apply"
    /\ ReportOnly("NoAuctions")
    /\ safe' = {}
    /\ UNCHANGED <<shared, original, useCaseErr, clock, loopVars, sent, told>>

SearchReplies ==
    /\ pc = "search"
    /\ reply' \in Replies(original.spec) \ {<<>>}
    /\ pc' = "lookup"
    /\ UNCHANGED <<shared, original, patch, useCaseErr, clock,
                   todo, weapon, ids, low, fresh, ghostVars>>

\* Whether the export gives a weapon: an error of either request leaves none, as
\* does a slug that is not the name of one.
GetWeaponByName ==
    {original.spec.named} \cup {found \in {FALSE} : "lookup" \in Faults}

\* The error is logged and forgotten.
Lookup ==
    /\ pc = "lookup"
    /\ weapon' \in GetWeaponByName
    /\ ids' = HeldBack
    /\ todo' = DOMAIN reply
    /\ pc' = "loop"
    /\ UNCHANGED <<shared, original, patch, useCaseErr, clock,
                   reply, low, fresh, ghostVars>>

BelowQuality(a) ==
    /\ pc = "loop"
    /\ a \in todo
    /\ ~Qualifies(a)
    /\ todo' = todo \ {a}
    /\ UNCHANGED <<frameVars, clock, reply, weapon, ids, low, fresh, ghostVars>>

NoAlertFor(a) ==
    /\ pc = "loop"
    /\ a \in todo
    /\ Qualifies(a)
    /\ a \in ids \/ OutsideOf(original.spec.window, now)
    /\ todo' = todo \ {a}
    /\ low' = LowWith(a)
    /\ UNCHANGED <<frameVars, clock, reply, weapon, ids, fresh, ghostVars>>

AlertIsDue(a) ==
    /\ pc = "loop"
    /\ a \in todo
    /\ Qualifies(a)
    /\ a \notin ids
    /\ ~OutsideOf(original.spec.window, now)

Delivered(a) ==
    /\ sent' = sent \cup {a}
    /\ told' = told \cup {a}

SendSucceeds(a) ==
    /\ AlertIsDue(a)
    /\ weapon
    /\ todo' = todo \ {a}
    /\ ids' = ids \cup {a}
    /\ low' = LowWith(a)
    /\ fresh' = fresh \cup {a}
    /\ Delivered(a)
    /\ safe' = safe \cup {a}
    /\ UNCHANGED <<frameVars, clock, reply, weapon>>

\* Wrong on purpose: the alert that failed is recorded, and never lost either.
SendFailsRecords(a) ==
    /\ AlertIsDue(a)
    /\ weapon
    /\ "send" \in Faults
    /\ pc' = "apply"
    /\ Report("AuctionFound", 0, 0, ids \cup {a}, Never)
    /\ useCaseErr' = TRUE
    /\ UNCHANGED <<shared, original, clock, loopVars, ghostVars>>

\* The loop ends with the alerts recorded that were sent before; the one that
\* failed may have arrived all the same.
SendFails(a) ==
    /\ AlertIsDue(a)
    /\ weapon
    /\ "send" \in Faults
    /\ pc' = "apply"
    /\ Report("AuctionFound", 0, 0, ids, Never)
    /\ useCaseErr' = TRUE
    /\ UNCHANGED <<sent, told>> \/ Delivered(a)
    /\ UNCHANGED <<shared, original, clock, loopVars, safe>>

\* Wrong on purpose: the recovered panic ends the reconcile without an error.
PanicsSilently(a) ==
    /\ AlertIsDue(a)
    /\ ~weapon
    /\ pc' = "idle"
    /\ original' = NoObject
    /\ patch' = ZeroRivenStatus
    /\ useCaseErr' = FALSE
    /\ ClearLoop
    /\ UNCHANGED <<shared, clock, ghostVars>>

\* The title of the alert is the name of the weapon: without one the use case
\* panics, the controller recovers and retries with backoff, and no status is
\* applied.
Panics(a) ==
    /\ AlertIsDue(a)
    /\ ~weapon
    /\ FinishReconcile("backoff")
    /\ ClearLoop
    /\ UNCHANGED <<obj, clock, ghostVars>>

NothingQualifies ==
    /\ pc = "loop"
    /\ todo = {}
    /\ low.price = 0
    /\ pc' = "apply"
    /\ ReportOnly("QualityThresholdNotMet")
    /\ safe' = {}
    /\ UNCHANGED <<shared, original, useCaseErr, clock, loopVars, sent, told>>

\* lastNotifiedAt is set only by a reconcile that sent an alert.
AuctionFound ==
    /\ pc = "loop"
    /\ todo = {}
    /\ low.price # 0
    /\ pc' = "apply"
    /\ Report("AuctionFound", low.price, low.quality, ids, IF fresh = {} THEN Never ELSE day)
    /\ UNCHANGED <<shared, original, useCaseErr, clock, loopVars, ghostVars>>

StatusApplied ==
    /\ ApplyStatus
    /\ ClearLoop
    /\ UNCHANGED <<clock, ghostVars>>

StatusApplyFails ==
    /\ ApplyStatusFails
    /\ ClearLoop
    /\ safe' = safe \ fresh
    /\ UNCHANGED <<clock, sent, told>>

-----------------------------------------------------------------------------
Loop ==
    \E a \in Auctions :
        BelowQuality(a) \/ NoAlertFor(a) \/ SendSucceeds(a) \/ SendFails(a) \/ Panics(a)

Next ==
    \/ UserCreates \/ UserEdits \/ UserDeletes
    \/ Tick \/ Midnight
    \/ InformerDelivers \/ RequeueFires \/ OperatorRestarts
    \/ Get \/ GetFails \/ SearchFails \/ NoAuctions \/ SearchReplies \/ Lookup
    \/ Loop
    \/ NothingQualifies \/ AuctionFound
    \/ StatusApplied \/ StatusApplyFails

Spec == Init /\ [][Next]_vars

\* As in ItemPriceWatch: the queue and the worker go on, and no call the
\* controller makes over and over fails every time, for any of the auctions.
Fairness ==
    /\ WF_vars(InformerDelivers)
    /\ WF_vars(RequeueFires)
    /\ SF_vars(Get)
    /\ SF_vars(SearchReplies \/ NoAuctions)
    /\ SF_vars(Lookup /\ weapon' = original.spec.named)
    /\ \A a \in Auctions :
          /\ WF_vars(BelowQuality(a) \/ NoAlertFor(a) \/ Panics(a))
          /\ SF_vars(SendSucceeds(a))
    /\ WF_vars(NothingQualifies \/ AuctionFound)
    /\ SF_vars(StatusApplied)
    /\ WF_vars(StatusApplyFails)

FairSpec == Spec /\ Fairness

-----------------------------------------------------------------------------
(* Properties. *)

\* Every variable has its type: in particular a status lists auctions, dates
\* and generations that exist.
TypeOK ==
    /\ obj \in Watches \cup {NoObject}
    /\ created \in 0..MaxUID
    /\ cache \in Watches \cup {NoObject}
    /\ queued \in BOOLEAN
    /\ timer \in Timers
    /\ pc \in Steps
    /\ original \in Watches \cup {NoObject}
    /\ pc # "idle" => original \in Watches
    /\ patch \in Statuses
    /\ useCaseErr \in BOOLEAN
    /\ day \in 1..MaxDay
    /\ now \in 0..(DayLength - 1)
    /\ DOMAIN reply \subseteq Auctions
    /\ \A a \in DOMAIN reply : reply[a] \in Offers
    /\ todo \subseteq Auctions
    /\ pc = "loop" => todo \subseteq DOMAIN reply
    /\ weapon \in BOOLEAN
    /\ ids \subseteq Auctions
    /\ low \in Offers
    /\ fresh \subseteq Auctions
    /\ sent \subseteq Auctions
    /\ told \subseteq sent
    /\ safe \subseteq told

\* An alert that was sent today, and whose record no fault, no empty reply and
\* no reply without a qualifying auction has put at risk since, is not sent
\* again today: the list of notified auctions survives every reconcile in
\* between, also one that ends at a failed alert (lines 159-166).
NoRepeatWithoutCause ==
    \A a \in safe : ~AlertIsDue(a)

\* The status never lists an auction the user received no alert for.
RecordedWasSent == obj # NoObject => obj.status.notified \subseteq sent

\* When every price is positive the reported price is the lowest of the
\* qualifying auctions of the reply, next to the quality of one at that price
\* (rivenpricewatch_types.go:72 and :76).
ReportedLowest ==
    (pc = "apply" /\ patch.reason = "AuctionFound" /\ ~useCaseErr) =>
        \E a \in DOMAIN reply :
            /\ Qualifies(a)
            /\ patch.cheapest = reply[a].price
            /\ patch.best = Quality(a)
            /\ \A b \in DOMAIN reply : Qualifies(b) => reply[a].price <= reply[b].price

\* The search keeps returning the auction, its riven is as good as the watch asks
\* for, and the watch has no window.
Offered(a) ==
    /\ obj # NoObject
    /\ obj.spec.window = <<>>
    /\ pc \in {"lookup", "loop"} => a \in DOMAIN reply
    /\ pc = "loop" => reply[a].quality >= original.spec.minQuality
    /\ pc = "apply" => patch.reason # "NoAuctions"

\* An auction that stays on offer is announced, whatever fails on the way and
\* whichever other auctions come and go, if the slug of the watch is a name the
\* export knows: also a lookup that fails, and the panic after it, only delay it.
OfferAnnounced ==
    \A a \in Auctions : <>[](Offered(a) /\ obj.spec.named) => <>(a \in sent)

\* What the comment at line 97 says: a failed lookup of the weapon is not fatal,
\* the reconcile continues without scoring, so it never ends in the loop.
LookupNotFatal == [][(pc = "loop" /\ ~weapon) => pc' # "idle"]_vars

\* What the comment at line 100 says: auctions are alerted again each day, so a
\* reconcile of a watch that exists holds back only auctions alerted today, or
\* ones of a list that carries today's date.
AlertedAgainDaily ==
    [][(pc = "lookup" /\ pc' = "loop" /\ obj # NoObject) =>
          ids' \subseteq told \/ original.status.lastNotified = day]_vars

\* What rivenpricewatch_types.go:80-81 says: the list of notified auctions
\* prevents duplicates across reconcile cycles.
NoDuplicates == \A a \in told : ~AlertIsDue(a)

\* What the message at line 178 says of a status with this reason: no auction
\* meets the least roll quality.
ThresholdNotMet ==
    (pc = "apply" /\ patch.reason = "QualityThresholdNotMet") =>
        \A a \in DOMAIN reply : ~Qualifies(a)

-----------------------------------------------------------------------------
(* What the user sees of all this. *)

\* The auctions the status lists.
Listed == IF obj = NoObject THEN {} ELSE obj.status.notified

Promise == INSTANCE Alerts WITH
    Offers <- Auctions, received <- sent, known <- told, secured <- safe, listed <- Listed

\* However reads, calls, events, timers, days, faults and restarts interleave, the
\* user sees alerts and records that follow one upon the other as in Alerts: the
\* list is never ahead of the alerts, and whenever a status is written it lists
\* what must not be announced again that day.
ImplementsAlerts == Promise!Spec

=============================================================================
