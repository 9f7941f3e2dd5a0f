----------------------- MODULE RivenPriceWatchProofs -----------------------
(***************************************************************************)
(* Safety of the RivenPriceWatch controller for every set of auctions,     *)
(* listings and specs, any number of days, edits and re-creations, and     *)
(* every set of faults.                                                    *)
(***************************************************************************)
EXTENDS RivenPriceWatch, TLAPS

-----------------------------------------------------------------------------
(* The inductive invariant behind NoRepeatWithoutCause, RecordedWasSent,     *)
(* NeverForgotten and ImplementsAlerts.                                      *)

\* A record of another day is reset.
OfToday(status) == status.lastNotified \in {Never, day}

\* The alerts no fault has put at risk are on record wherever the next decision
\* will look for them: on the API server, but for those of the reconcile under
\* way, in what Reconcile read, in the list the loop extends, and in the status it
\* is about to apply.
SafeRecorded ==
    /\ safe \ fresh # {} =>
           obj # NoObject /\ OfToday(obj.status) /\ safe \ fresh \subseteq obj.status.notified
    /\ pc \in {"search", "lookup"} =>
           safe \subseteq original.status.notified /\ (safe # {} => OfToday(original.status))
    /\ pc = "loop" => safe \subseteq ids
    /\ pc = "apply" => safe \subseteq patch.notified /\ (safe # {} => OfToday(patch))

\* Only the loop sends alerts, and never before it knows the weapon.
FreshInLoop ==
    /\ pc \notin {"loop", "apply"} => fresh = {}
    /\ pc = "loop" /\ ~weapon => fresh = {}

\* No copy of a status lists an auction the user received no alert for.
CopiesWereSent ==
    /\ obj # NoObject => obj.status.notified \subseteq sent
    /\ cache # NoObject => cache.status.notified \subseteq sent
    /\ original # NoObject => original.status.notified \subseteq sent
    /\ patch.notified \subseteq sent
    /\ ids \subseteq sent

\* A watch the informer knows is queued, will be, or is being reconciled.
KnownIsWatched ==
    cache # NoObject => queued \/ timer # "none" \/ pc # "idle"

IInv ==
    /\ TypeOK
    /\ SafeRecorded /\ FreshInLoop
    /\ CopiesWereSent
    /\ KnownIsWatched

-----------------------------------------------------------------------------
(* The inductive invariant behind ReportedLowest.                            *)

PricesArePositive == \A a \in DOMAIN reply : reply[a].price # 0

\* The qualifying auctions the loop is done with.
Considered == {a \in DOMAIN reply \ todo : Qualifies(a)}

\* The lowest offer so far is that of one of them, and none before the first.
LowIsLowest ==
    /\ pc \in {"idle", "search", "lookup"} => low = NoOffer
    /\ pc = "loop" =>
           \/ Considered = {} /\ low = NoOffer
           \/ /\ \E a \in Considered : low = [price |-> reply[a].price, quality |-> Quality(a)]
              /\ \A a \in Considered : low.price <= reply[a].price

LInv == PricesArePositive /\ LowIsLowest /\ ReportedLowest

-----------------------------------------------------------------------------
\* The empty status is a status: what a new watch and an empty patch hold.
LEMMA ZeroStatusType ==
  /\ ZeroRivenStatus \in Statuses
  /\ ZeroRivenStatus.notified = {}
  /\ OfToday(ZeroRivenStatus)
  BY RivenAssumption DEF RivenAssumption, ZeroRivenStatus, Statuses, Reasons, Never, OfToday

\* What Execute reports is a status with the fields it was given.
LEMMA ReportType ==
  ASSUME TypeOK, pc # "idle",
         NEW r \in Reasons, NEW c \in Nat, NEW b \in 0..100, NEW n \in SUBSET Auctions,
         NEW d \in 0..MaxDay,
         Report(r, c, b, n, d)
  PROVE  patch' \in Statuses /\ patch'.notified = n /\ patch'.lastNotified = d
  <1>1. original.generation \in 0..MaxGeneration
    BY RivenAssumption DEF TypeOK, Watches, RivenAssumption
  <1> QED
    BY <1>1 DEF Report, Statuses

\* A status with nothing but a condition lists no auction.
LEMMA ReportOnlyType ==
  ASSUME TypeOK, pc # "idle", NEW r \in Reasons, ReportOnly(r)
  PROVE  patch' \in Statuses /\ patch'.notified = {}
  <1>1. 0 \in 0..MaxDay /\ Never = 0
    BY RivenAssumption DEF RivenAssumption, Never
  <1> QED
    BY <1>1, ReportType DEF ReportOnly

\* The auctions of a reply and their prices and qualities are what listings have.
LEMMA ReplyType ==
  ASSUME TypeOK, pc = "search", reply' \in Replies(original.spec)
  PROVE  DOMAIN reply' \subseteq Auctions /\ \A a \in DOMAIN reply' : reply'[a] \in Offers
  <1> DEFINE Seen == {[price |-> l.price, quality |-> l.quality] :
                         l \in {listing \in Listings : Matches(listing, original.spec)}}
  <1>1. Seen \subseteq Offers
    BY RivenAssumption DEF RivenAssumption, ListingType, Offers
  <1>2. PICK shown \in SUBSET Auctions : reply' \in [shown -> Seen]
    BY DEF Replies
  <1> QED
    BY <1>1, <1>2

\* The quality of a riven is a percentage, also without a weapon.
LEMMA QualityType ==
  ASSUME TypeOK, NEW a \in DOMAIN reply
  PROVE  Quality(a) \in 0..100 /\ LowWith(a) \in Offers
  <1>1. reply[a].price \in Nat /\ reply[a].quality \in 0..100
    BY DEF TypeOK, Offers
  <1>2. Quality(a) \in 0..100
    BY <1>1 DEF Quality
  <1> QED
    BY <1>1, <1>2 DEF LowWith, Offers, TypeOK

\* The auctions held back come from the record, which is one of the list or none.
LEMMA HeldBackType ==
  ASSUME TypeOK, pc # "idle"
  PROVE  /\ HeldBack \subseteq Auctions
         /\ HeldBack \subseteq original.status.notified
         /\ OfToday(original.status) => HeldBack = original.status.notified
  BY DEF TypeOK, Watches, Statuses, HeldBack, OfToday

\* The status of a loop that found an auction lists what the loop listed, and its
\* date is this day or none.
LEMMA FoundType ==
  ASSUME TypeOK, AuctionFound
  PROVE  patch' \in Statuses /\ patch'.notified = ids /\ OfToday(patch')
  <1> DEFINE date == IF fresh = {} THEN Never ELSE day
  <1>1. pc # "idle" /\ Report("AuctionFound", low.price, low.quality, ids, date)
    BY DEF AuctionFound
  <1>2. /\ "AuctionFound" \in Reasons /\ low.price \in Nat /\ low.quality \in 0..100
        /\ ids \in SUBSET Auctions
    BY DEF TypeOK, Offers, Reasons
  <1>3. date \in 0..MaxDay /\ date \in {Never, day}
    BY RivenAssumption DEF TypeOK, Never, RivenAssumption
  <1> HIDE DEF date
  <1> QED
    BY <1>1, <1>2, <1>3, ReportType DEF OfToday

\* The status of a failed alert lists what the loop listed before it.
LEMMA FailedType ==
  ASSUME TypeOK, NEW a \in Auctions, SendFails(a)
  PROVE  patch' \in Statuses /\ patch'.notified = ids /\ OfToday(patch')
  <1>1. pc # "idle" /\ Report("AuctionFound", 0, 0, ids, Never)
    BY DEF SendFails, AlertIsDue
  <1>2. /\ "AuctionFound" \in Reasons /\ 0 \in Nat /\ 0 \in 0..100
        /\ ids \in SUBSET Auctions /\ Never \in 0..MaxDay
    BY RivenAssumption DEF TypeOK, Reasons, Never, RivenAssumption
  <1> QED
    BY <1>1, <1>2, ReportType DEF OfToday

\* An object whose status becomes the patch is still a watch.
LEMMA AppliedType ==
  ASSUME TypeOK, obj # NoObject
  PROVE  Applied \in Watches /\ Applied # NoObject /\ Applied.status = patch
  BY NoObjectAssumption DEF TypeOK, Applied, Watches, NoObjectAssumption

\* An edit leaves a watch with the status it had.
LEMMA EditType ==
  ASSUME TypeOK, NEW spec \in Specs, EditSpec(spec)
  PROVE  obj # NoObject /\ obj' \in Watches /\ obj' # NoObject /\ obj'.status = obj.status
  <1>1. obj \in Watches /\ obj.generation + 1 \in 1..MaxGeneration
    BY RivenAssumption DEF EditSpec, Watches, TypeOK, RivenAssumption
  <1>2. obj' \in Watches /\ obj'.status = obj.status
    BY <1>1 DEF EditSpec, Watches
  <1> QED
    BY <1>2, NoObjectAssumption DEF NoObjectAssumption, EditSpec

\* A creation makes a watch with an empty status.
LEMMA CreateType ==
  ASSUME TypeOK, NEW spec \in Specs, CreateWatch(spec)
  PROVE  /\ created' \in 0..MaxUID
         /\ obj = NoObject /\ obj' \in Watches /\ obj'.status = ZeroRivenStatus
  <1>1. created' \in 1..MaxUID /\ 1 \in 1..MaxGeneration
    BY RivenAssumption DEF CreateWatch, TypeOK, RivenAssumption
  <1> QED
    BY <1>1, ZeroStatusType, RivenAssumption
    DEF CreateWatch, Watches, RivenAssumption

\* Between two reconciles the loop holds nothing.
LEMMA ClearLoopType ==
  ASSUME ClearLoop
  PROVE  /\ DOMAIN reply' = {} /\ todo' = {} /\ weapon' = FALSE
         /\ ids' = {} /\ low' \in Offers /\ fresh' = {}
  BY DEF ClearLoop, NoOffer, Offers

-----------------------------------------------------------------------------
\* A process that starts without a watch is well typed.
LEMMA TypeInit == Init => TypeOK
  <1> SUFFICES ASSUME Init PROVE TypeOK
    OBVIOUS
  <1>1. created \in 0..MaxUID /\ day \in 1..MaxDay /\ now \in 0..(DayLength - 1)
    BY RivenAssumption DEF Init, ControllerInit, RivenAssumption
  <1>2. DOMAIN reply = {} /\ low \in Offers
    BY DEF Init, NoOffer, Offers
  <1> QED
    BY <1>1, <1>2, ZeroStatusType DEF Init, ControllerInit, TypeOK, Timers, Steps

\* A read that fails leaves the key to the backoff and nothing else behind.
LEMMA GetFailsFrame ==
  ASSUME GetFails
  PROVE  /\ UNCHANGED <<obj, created, cache, pc, original, patch, useCaseErr, day, now>>
         /\ UNCHANGED <<reply, todo, weapon, ids, low, fresh, sent, told, safe>>
         /\ queued' = FALSE /\ timer' = "backoff"
  BY DEF GetFails, ReadFails, Arm, apiVars, runVars, clock, loopVars, ghostVars

\* The user, the clock, the informer and the queue keep the types.
LEMMA TypeEnvironment ==
  ASSUME TypeOK,
         \/ UserCreates \/ UserEdits \/ UserDeletes \/ Tick \/ Midnight
         \/ InformerDelivers \/ RequeueFires
  PROVE  TypeOK'
  <1>1. CASE UserCreates
    <2>1. PICK spec \in Specs : CreateWatch(spec)
      BY <1>1 DEF UserCreates
    <2> QED
      BY <1>1, <2>1, CreateType
      DEF UserCreates, CreateWatch, TypeOK, clock, loopVars, ghostVars, queueVars, runVars
  <1>2. CASE UserEdits
    <2>1. PICK spec \in Specs : EditSpec(spec)
      BY <1>2 DEF UserEdits
    <2> QED
      BY <1>2, <2>1, EditType
      DEF UserEdits, EditSpec, TypeOK, clock, loopVars, ghostVars, queueVars, runVars
  <1>3. CASE UserDeletes
    BY <1>3 DEF UserDeletes, DeleteWatch, TypeOK, clock, loopVars, queueVars, runVars
  <1>4. CASE Tick
    <2>1. now' \in 0..(DayLength - 1)
      BY <1>4, RivenAssumption DEF Tick, TypeOK, RivenAssumption
    <2> QED
      BY <1>4, <2>1 DEF Tick, TypeOK, frameVars, shared, loopVars, ghostVars
  <1>5. CASE Midnight
    <2>1. now' \in 0..(DayLength - 1) /\ day' \in 1..MaxDay
      BY <1>5, RivenAssumption DEF Midnight, TypeOK, RivenAssumption
    <2> QED
      BY <1>5, <2>1 DEF Midnight, TypeOK, frameVars, shared, loopVars
  <1>6. CASE InformerDelivers
    BY <1>6 DEF InformerDelivers, DeliverEvents, TypeOK, Timers, clock, loopVars, ghostVars,
                apiVars, queueVars, runVars
  <1>7. CASE RequeueFires
    BY <1>7 DEF RequeueFires, TimerFires, TypeOK, Timers, clock, loopVars, ghostVars,
                apiVars, runVars
  <1> QED
    BY <1>1, <1>2, <1>3, <1>4, <1>5, <1>6, <1>7

\* So do the steps of the loop.
LEMMA TypeLoop ==
  ASSUME TypeOK, Loop
  PROVE  TypeOK'
  <1>1. PICK a \in Auctions :
           BelowQuality(a) \/ NoAlertFor(a) \/ SendSucceeds(a) \/ SendFails(a) \/ Panics(a)
    BY DEF Loop
  <1>2. a \in DOMAIN reply
    BY <1>1 DEF BelowQuality, NoAlertFor, SendSucceeds, SendFails, Panics, AlertIsDue, TypeOK
  <1>3. CASE BelowQuality(a)
    BY <1>3 DEF BelowQuality, TypeOK, frameVars, shared, clock, ghostVars
  <1>4. CASE NoAlertFor(a)
    BY <1>2, <1>4, QualityType DEF NoAlertFor, TypeOK, frameVars, shared, clock, ghostVars
  <1>5. CASE SendSucceeds(a)
    BY <1>2, <1>5, QualityType DEF SendSucceeds, Delivered, TypeOK, frameVars, shared, clock
  <1>6. CASE SendFails(a)
    <2>1. patch' \in Statuses
      BY <1>6, FailedType
    <2> QED
      BY <1>1, <1>6, <2>1
      DEF SendFails, AlertIsDue, Delivered, TypeOK, Steps, shared, clock, loopVars
  <1>7. CASE Panics(a)
    BY <1>7, ClearLoopType, ZeroStatusType
    DEF Panics, FinishReconcile, Arm, TypeOK, Timers, Steps, clock, ghostVars
  <1> QED
    BY <1>1, <1>3, <1>4, <1>5, <1>6, <1>7

\* Every step keeps the types.
LEMMA TypeStep == TypeOK /\ [Next]_vars => TypeOK'
  <1> SUFFICES ASSUME TypeOK, [Next]_vars PROVE TypeOK'
    OBVIOUS
  <1> USE ZeroStatusType
  <1>1. CASE OperatorRestarts
    BY <1>1, ClearLoopType DEF OperatorRestarts, Restart, TypeOK, Timers, Steps, clock, apiVars
  <1>2. CASE Get
    BY <1>2 DEF Get, StartReconcile, TypeOK, Steps, clock, loopVars, apiVars, runVars
  <1>3. CASE SearchFails
    <2>1. patch' \in Statuses
      BY <1>3, ReportOnlyType DEF SearchFails, Reasons
    <2> QED
      BY <1>3, <2>1 DEF SearchFails, TypeOK, Steps, shared, clock, loopVars
  <1>4. CASE NoAuctions
    <2>1. patch' \in Statuses
      BY <1>4, ReportOnlyType DEF NoAuctions, Reasons
    <2> QED
      BY <1>4, <2>1 DEF NoAuctions, TypeOK, Steps, shared, clock, loopVars
  <1>5. CASE SearchReplies
    <2>1. DOMAIN reply' \subseteq Auctions /\ \A a \in DOMAIN reply' : reply'[a] \in Offers
      BY <1>5, ReplyType DEF SearchReplies
    <2> QED
      BY <1>5, <2>1 DEF SearchReplies, TypeOK, Steps, shared, clock, ghostVars
  <1>6. CASE Lookup
    <2>1. weapon' \in BOOLEAN
      BY <1>6, RivenAssumption
      DEF Lookup, GetWeaponByName, TypeOK, Watches, SpecType, RivenAssumption
    <2> QED
      BY <1>6, <2>1, HeldBackType DEF Lookup, TypeOK, Steps, shared, clock, ghostVars
  <1>7. CASE NothingQualifies
    <2>1. patch' \in Statuses
      BY <1>7, ReportOnlyType DEF NothingQualifies, Reasons
    <2> QED
      BY <1>7, <2>1 DEF NothingQualifies, TypeOK, Steps, shared, clock, loopVars
  <1>8. CASE AuctionFound
    <2>1. patch' \in Statuses
      BY <1>8, FoundType
    <2> QED
      BY <1>8, <2>1 DEF AuctionFound, TypeOK, Steps, shared, clock, loopVars, ghostVars
  <1>9. CASE StatusApplied
    BY <1>9, AppliedType, ClearLoopType
    DEF StatusApplied, ApplyStatus, FinishReconcile, Arm, TypeOK, Timers, Steps, clock, ghostVars
  <1>10. CASE StatusApplyFails
    BY <1>10, AppliedType, ClearLoopType
    DEF StatusApplyFails, ApplyStatusFails, FinishReconcile, Arm, TypeOK, Timers, Steps, clock
  <1>11. CASE GetFails \/ UNCHANGED vars
    BY <1>11, GetFailsFrame DEF Timers, vars, frameVars, shared, clock, loopVars, ghostVars, TypeOK
  <1> QED
    BY <1>1, <1>2, <1>3, <1>4, <1>5, <1>6, <1>7, <1>8, <1>9, <1>10, <1>11,
       TypeEnvironment, TypeLoop
    DEF Next

\* Every status, on the API server, in the cache, read by Reconcile or about to
\* be applied, is well formed whatever the users, the market and the faults do.
THEOREM TypeCorrect == Spec => []TypeOK
  BY TypeInit, TypeStep, PTL DEF Spec

-----------------------------------------------------------------------------
(* The steps of Execute: they touch neither the objects nor the queue. *)

SendFailsFor    == \E a \in Auctions : SendFails(a)
SendSucceedsFor == \E a \in Auctions : SendSucceeds(a)
PanicsFor       == \E a \in Auctions : Panics(a)
Visited         == \E a \in Auctions : BelowQuality(a) \/ NoAlertFor(a)

ExecuteStep ==
    \/ SearchFails \/ NoAuctions \/ SearchReplies \/ Lookup
    \/ Visited \/ SendSucceedsFor \/ SendFailsFor
    \/ NothingQualifies \/ AuctionFound

\* Between the read and the apply only the patch, the loop and the alerts change.
LEMMA ExecuteFrame ==
  ASSUME ExecuteStep
  PROVE  /\ UNCHANGED <<obj, created, cache, queued, timer, original, day>>
         /\ pc \in {"search", "lookup", "loop"}
         /\ pc' \in {"lookup", "loop", "apply"}
  <1>1. CASE SearchFails \/ NoAuctions \/ SearchReplies \/ Lookup
    BY <1>1 DEF SearchFails, NoAuctions, SearchReplies, Lookup, shared, clock
  <1>2. CASE Visited
    BY <1>2 DEF Visited, BelowQuality, NoAlertFor, frameVars, shared, clock
  <1>3. CASE SendSucceedsFor \/ SendFailsFor
    BY <1>3 DEF SendSucceedsFor, SendFailsFor, SendSucceeds, SendFails, AlertIsDue, frameVars,
                shared, clock
  <1>4. CASE NothingQualifies \/ AuctionFound
    BY <1>4 DEF NothingQualifies, AuctionFound, shared, clock
  <1> QED
    BY <1>1, <1>2, <1>3, <1>4 DEF ExecuteStep

\* The strengthening holds before the first watch.
LEMMA IInvInit == Init => IInv
  <1> SUFFICES ASSUME Init PROVE IInv
    OBVIOUS
  <1>1. TypeOK
    BY TypeInit
  <1>2. SafeRecorded /\ FreshInLoop /\ KnownIsWatched
    BY DEF Init, ControllerInit, SafeRecorded, FreshInLoop, KnownIsWatched
  <1>3. CopiesWereSent
    BY DEF Init, ControllerInit, CopiesWereSent, ZeroRivenStatus
  <1> QED
    BY <1>1, <1>2, <1>3 DEF IInv

\* A watch the informer knows stays queued, scheduled or under way.
LEMMA WatchedStep == IInv /\ [Next]_vars => KnownIsWatched'
  <1> SUFFICES ASSUME IInv, [Next]_vars PROVE KnownIsWatched'
    OBVIOUS
  <1> USE DEF IInv, KnownIsWatched
  <1>1. CASE UserCreates \/ UserEdits \/ UserDeletes
    BY <1>1 DEF UserCreates, UserEdits, UserDeletes, CreateWatch, EditSpec, DeleteWatch,
                queueVars, runVars
  <1>2. CASE Tick \/ Midnight \/ UNCHANGED vars
    BY <1>2 DEF Tick, Midnight, vars, frameVars, shared
  <1>3. CASE InformerDelivers
    BY <1>3 DEF InformerDelivers, DeliverEvents, Triggers, queueVars, runVars
  <1>4. CASE RequeueFires \/ OperatorRestarts
    BY <1>4 DEF RequeueFires, TimerFires, OperatorRestarts, Restart
  <1>5. CASE Get \/ GetFails
    BY <1>5, GetFailsFrame DEF Get, StartReconcile
  <1>6. CASE ExecuteStep
    BY <1>6, ExecuteFrame
  <1>7. CASE PanicsFor \/ StatusApplied \/ StatusApplyFails
    BY <1>7 DEF PanicsFor, Panics, StatusApplied, StatusApplyFails, ApplyStatus,
                ApplyStatusFails, FinishReconcile, Arm
  <1> QED
    BY <1>1, <1>2, <1>3, <1>4, <1>5, <1>6, <1>7
    DEF Next, Loop, ExecuteStep, Visited, SendSucceedsFor, SendFailsFor, PanicsFor

\* Alerts are sent in the loop and forgotten at its end, and none is sent without a
\* weapon, which only the lookup before the loop finds.
LEMMA FreshStep == IInv /\ [Next]_vars => FreshInLoop'
  <1> SUFFICES ASSUME IInv, [Next]_vars PROVE FreshInLoop'
    OBVIOUS
  <1> USE DEF IInv, FreshInLoop
  <1>1. CASE UserCreates \/ UserEdits \/ UserDeletes
    BY <1>1 DEF UserCreates, UserEdits, UserDeletes, CreateWatch, EditSpec, DeleteWatch,
                runVars, loopVars
  <1>2. CASE Tick \/ Midnight \/ GetFails \/ UNCHANGED vars
    BY <1>2, GetFailsFrame DEF Tick, Midnight, vars, frameVars, loopVars
  <1>3. CASE InformerDelivers \/ RequeueFires
    BY <1>3 DEF InformerDelivers, DeliverEvents, RequeueFires, TimerFires, runVars, loopVars
  <1>4. CASE Get
    BY <1>4 DEF Get, StartReconcile, runVars, loopVars, TypeOK
  <1>5. CASE SearchFails \/ NoAuctions \/ SearchReplies \/ Lookup
    BY <1>5 DEF SearchFails, NoAuctions, SearchReplies, Lookup, loopVars
  <1>6. CASE Visited
    BY <1>6 DEF Visited, BelowQuality, NoAlertFor, frameVars
  <1>7. CASE SendSucceedsFor \/ SendFailsFor
    BY <1>7 DEF SendSucceedsFor, SendFailsFor, SendSucceeds, SendFails, AlertIsDue,
                frameVars, loopVars
  <1>8. CASE NothingQualifies \/ AuctionFound
    BY <1>8 DEF NothingQualifies, AuctionFound, loopVars
  <1>9. CASE PanicsFor \/ OperatorRestarts \/ StatusApplied \/ StatusApplyFails
    BY <1>9 DEF PanicsFor, Panics, OperatorRestarts, StatusApplied, StatusApplyFails, ClearLoop
  <1> QED
    BY <1>1, <1>2, <1>3, <1>4, <1>5, <1>6, <1>7, <1>8, <1>9
    DEF Next, Loop, Visited, SendSucceedsFor, SendFailsFor, PanicsFor

\* Alerts that were sent stay sent.
LEMMA SentGrows == [Next]_vars => sent \subseteq sent'
  <1> SUFFICES ASSUME [Next]_vars PROVE sent \subseteq sent'
    OBVIOUS
  <1>1. CASE Loop
    BY <1>1 DEF Loop, BelowQuality, NoAlertFor, SendSucceeds, SendFails, Panics, Delivered,
                ghostVars
  <1>2. CASE ~Loop
    BY <1>2 DEF Next, vars, ghostVars, UserCreates, UserEdits, UserDeletes, Tick, Midnight,
                InformerDelivers, RequeueFires, OperatorRestarts, Get, GetFails, SearchFails,
                NoAuctions, SearchReplies, Lookup, NothingQualifies, AuctionFound,
                StatusApplied, StatusApplyFails
  <1> QED
    BY <1>1, <1>2

\* Every status that is applied lists only auctions the user was alerted about.
LEMMA SentStep == IInv /\ [Next]_vars => CopiesWereSent'
  <1> SUFFICES ASSUME IInv, [Next]_vars PROVE CopiesWereSent'
    OBVIOUS
  <1> USE SentGrows DEF IInv, CopiesWereSent
  <1>1. CASE UserCreates
    <2>1. PICK spec \in Specs : CreateWatch(spec)
      BY <1>1 DEF UserCreates
    <2>2. obj'.status.notified = {}
      BY <2>1, CreateType, ZeroStatusType
    <2> QED
      BY <1>1, <2>1, <2>2 DEF UserCreates, CreateWatch, runVars, loopVars
  <1>2. CASE UserEdits
    <2>1. PICK spec \in Specs : EditSpec(spec)
      BY <1>2 DEF UserEdits
    <2> QED
      BY <1>2, <2>1, EditType DEF UserEdits, EditSpec, runVars, loopVars
  <1>3. CASE UserDeletes
    BY <1>3 DEF UserDeletes, DeleteWatch, runVars, loopVars
  <1>4. CASE Tick \/ Midnight \/ GetFails \/ UNCHANGED vars
    BY <1>4, GetFailsFrame DEF Tick, Midnight, vars, frameVars, shared, loopVars
  <1>5. CASE InformerDelivers \/ RequeueFires
    BY <1>5 DEF InformerDelivers, DeliverEvents, RequeueFires, TimerFires, apiVars, runVars,
                loopVars
  <1>6. CASE OperatorRestarts
    BY <1>6, ZeroStatusType, ClearLoopType DEF OperatorRestarts, Restart, apiVars
  <1>7. CASE Get
    BY <1>7 DEF Get, StartReconcile, apiVars, runVars, loopVars
  <1>8. CASE ExecuteStep
    <2>1. patch'.notified \subseteq sent' /\ ids' \subseteq sent'
      <3>1. CASE SearchFails \/ NoAuctions \/ NothingQualifies
        BY <3>1, ReportOnlyType
        DEF SearchFails, NoAuctions, NothingQualifies, Reasons, loopVars
      <3>2. CASE SearchReplies \/ Visited
        BY <3>2 DEF SearchReplies, Visited, BelowQuality, NoAlertFor, frameVars
      <3>3. CASE Lookup
        <4>1. original # NoObject
          BY <3>3, NoObjectAssumption DEF Lookup, TypeOK, NoObjectAssumption
        <4> QED
          BY <3>3, <4>1, HeldBackType DEF Lookup
      <3>4. CASE SendSucceedsFor
        BY <3>4 DEF SendSucceedsFor, SendSucceeds, Delivered, frameVars
      <3>5. CASE SendFailsFor
        BY <3>5, FailedType DEF SendFailsFor, SendFails, loopVars
      <3>6. CASE AuctionFound
        BY <3>6, FoundType DEF AuctionFound, loopVars
      <3> QED
        BY <1>8, <3>1, <3>2, <3>3, <3>4, <3>5, <3>6 DEF ExecuteStep
    <2> QED
      BY <1>8, <2>1, ExecuteFrame
  <1>9. CASE PanicsFor
    BY <1>9, ZeroStatusType, ClearLoopType
    DEF PanicsFor, Panics, FinishReconcile
  <1>10. CASE StatusApplied \/ StatusApplyFails
    BY <1>10, AppliedType, ZeroStatusType, ClearLoopType
    DEF StatusApplied, StatusApplyFails, ApplyStatus, ApplyStatusFails, FinishReconcile
  <1> QED
    BY <1>1, <1>2, <1>3, <1>4, <1>5, <1>6, <1>7, <1>8, <1>9, <1>10
    DEF Next, Loop, ExecuteStep, Visited, SendSucceedsFor, SendFailsFor, PanicsFor

\* The record of the alerts that no fault has put at risk moves with the status:
\* from the API server to what Reconcile reads, into the list of the loop, which
\* grows by the new ones, into the patch, and back.
LEMMA SafeStep == IInv /\ [Next]_vars => SafeRecorded'
  <1> SUFFICES ASSUME IInv, [Next]_vars PROVE SafeRecorded'
    OBVIOUS
  <1> USE DEF IInv, SafeRecorded, OfToday
  <1>1. CASE UserCreates
    <2>1. obj = NoObject /\ UNCHANGED <<runVars, loopVars, ghostVars, clock>>
      BY <1>1 DEF UserCreates, CreateWatch
    <2>2. safe \ fresh = {}
      BY <2>1
    <2> QED
      BY <2>1, <2>2 DEF runVars, loopVars, ghostVars, clock
  <1>2. CASE UserEdits
    <2>1. PICK spec \in Specs : EditSpec(spec)
      BY <1>2 DEF UserEdits
    <2> QED
      BY <1>2, <2>1, EditType DEF UserEdits, EditSpec, runVars, loopVars, ghostVars, clock
  <1>3. CASE UserDeletes \/ Midnight
    <2>1. safe' = {}
      BY <1>3 DEF UserDeletes, Midnight
    <2> QED
      BY <2>1
  <1>4. CASE Tick \/ GetFails \/ UNCHANGED vars
    BY <1>4, GetFailsFrame DEF Tick, vars, frameVars, shared, loopVars, ghostVars, clock
  <1>5. CASE InformerDelivers \/ RequeueFires
    BY <1>5 DEF InformerDelivers, DeliverEvents, RequeueFires, TimerFires, apiVars, runVars,
                loopVars, ghostVars, clock
  <1>6. CASE OperatorRestarts
    <2>1. /\ UNCHANGED <<obj, day>> /\ pc' = "idle"
          /\ safe' = safe \ fresh /\ fresh' = {}
      BY <1>6 DEF OperatorRestarts, Restart, ClearLoop, apiVars, clock
    <2> QED
      BY <2>1
  <1>7. CASE Get
    <2>1. /\ pc = "idle" /\ UNCHANGED <<obj, fresh, day>> /\ fresh = {}
          /\ safe' = IF StaleRecord THEN {} ELSE safe
      BY <1>7 DEF Get, StartReconcile, FreshInLoop, apiVars, loopVars, clock
    <2>2. CASE safe' = {}
      BY <2>2
    <2>3. CASE safe' # {}
      <3>1. safe' = safe /\ ~StaleRecord /\ safe \ fresh # {}
        BY <2>1, <2>3
      <3>2. /\ obj # NoObject /\ OfToday(obj.status)
            /\ safe \subseteq obj.status.notified
        BY <2>1, <3>1
      <3>3. CASE cache = NoObject
        BY <1>7, <2>1, <3>1, <3>2, <3>3 DEF Get, StartReconcile, runVars
      <3>4. CASE cache # NoObject
        <4>1. original'.status = obj.status /\ pc' = "search"
          BY <1>7, <3>1, <3>2, <3>4 DEF Get, StartReconcile, StaleRecord
        <4> QED
          BY <2>1, <3>1, <3>2, <4>1
      <3> QED
        BY <3>3, <3>4
    <2> QED
      BY <2>2, <2>3
  <1>8. CASE SearchFails \/ NoAuctions \/ NothingQualifies
    <2>1. safe' = {}
      BY <1>8 DEF SearchFails, NoAuctions, NothingQualifies
    <2> QED
      BY <2>1
  <1>9. CASE SearchReplies
    BY <1>9 DEF SearchReplies, shared, ghostVars, clock
  <1>10. CASE Lookup
    BY <1>10, HeldBackType DEF Lookup, shared, ghostVars, clock
  <1>11. CASE Visited
    BY <1>11 DEF Visited, BelowQuality, NoAlertFor, frameVars, shared, ghostVars, clock
  <1>12. CASE SendSucceedsFor
    <2>1. PICK a \in Auctions :
             /\ UNCHANGED <<obj, day, pc>> /\ pc = "loop"
             /\ safe' = safe \cup {a} /\ fresh' = fresh \cup {a} /\ ids' = ids \cup {a}
      BY <1>12 DEF SendSucceedsFor, SendSucceeds, AlertIsDue, frameVars, shared, clock
    <2>2. safe' \ fresh' \subseteq safe \ fresh
      BY <2>1
    <2> QED
      BY <2>1, <2>2
  <1>13. CASE SendFailsFor
    BY <1>13, FailedType
    DEF SendFailsFor, SendFails, AlertIsDue, shared, loopVars, clock
  <1>14. CASE AuctionFound
    BY <1>14, FoundType DEF AuctionFound, shared, loopVars, ghostVars, clock
  <1>15. CASE PanicsFor
    <2>1. /\ UNCHANGED <<obj, day, safe>> /\ pc' = "idle" /\ fresh = {} /\ fresh' = {}
      BY <1>15 DEF PanicsFor, Panics, AlertIsDue, FinishReconcile, ClearLoop, FreshInLoop,
                   ghostVars, clock
    <2> QED
      BY <2>1
  <1>16. CASE StatusApplied
    <2>1. /\ obj' # NoObject /\ obj'.status = patch /\ pc = "apply"
          /\ UNCHANGED <<day, safe>> /\ pc' = "idle"
      BY <1>16, AppliedType
      DEF StatusApplied, ApplyStatus, FinishReconcile, ghostVars, clock
    <2> QED
      BY <2>1
  <1>17. CASE StatusApplyFails
    <2>1. /\ obj' = obj \/ (obj' # NoObject /\ obj'.status = patch)
          /\ pc = "apply" /\ pc' = "idle"
          /\ UNCHANGED day /\ safe' = safe \ fresh /\ fresh' = {}
      BY <1>17, AppliedType
      DEF StatusApplyFails, ApplyStatusFails, FinishReconcile, ClearLoop, clock
    <2> QED
      BY <2>1
  <1> QED
    BY <1>1, <1>2, <1>3, <1>4, <1>5, <1>6, <1>7, <1>8, <1>9, <1>10, <1>11, <1>12, <1>13,
       <1>14, <1>15, <1>16, <1>17
    DEF Next, Loop, Visited, SendSucceedsFor, SendFailsFor, PanicsFor

-----------------------------------------------------------------------------
\* Every step keeps the strengthening.
LEMMA IInvStep == IInv /\ [Next]_vars => IInv'
  <1> SUFFICES ASSUME IInv, [Next]_vars PROVE IInv'
    OBVIOUS
  <1>1. TypeOK'
    BY TypeStep DEF IInv
  <1> QED
    BY <1>1, SafeStep, FreshStep, SentStep, WatchedStep DEF IInv

\* The inductive invariant holds in every reachable state: between the alert and
\* the next decision its record is always on the way.
THEOREM InductiveInvariant == Spec => []IInv
  BY IInvInit, IInvStep, PTL DEF Spec

\* No alert is repeated on its day, unless a fault or a reply could lose the list.
THEOREM NoRepeat == Spec => []NoRepeatWithoutCause
  <1>1. IInv => NoRepeatWithoutCause
    BY DEF IInv, SafeRecorded, NoRepeatWithoutCause, AlertIsDue
  <1> QED
    BY <1>1, InductiveInvariant, PTL

\* The status never claims an alert that did not reach the user.
THEOREM RecordIsTrue == Spec => []RecordedWasSent
  <1>1. IInv => RecordedWasSent
    BY DEF IInv, CopiesWereSent, RecordedWasSent
  <1> QED
    BY <1>1, InductiveInvariant, PTL

\* A watch that exists is always going to be looked at again, also after a panic.
THEOREM WatchKept == Spec => []NeverForgotten
  <1>1. IInv => NeverForgotten
    BY DEF IInv, KnownIsWatched, NeverForgotten, EventPending, Triggers
  <1> QED
    BY <1>1, InductiveInvariant, PTL

-----------------------------------------------------------------------------
(* The reported price. *)

\* One more auction: the lowest offer takes it into account.
LEMMA LowStep ==
  ASSUME TypeOK, LInv, pc = "loop", NEW a \in todo, Qualifies(a),
         todo' = todo \ {a}, low' = LowWith(a), UNCHANGED <<pc, original, reply, weapon>>
  PROVE  LowIsLowest'
  <1>1. a \in DOMAIN reply /\ reply[a].price \in Nat /\ reply[a].price # 0
    BY DEF TypeOK, Offers, LInv, PricesArePositive
  <1>2. Considered' = Considered \cup {a}
    BY <1>1 DEF Considered, Qualifies, Quality
  <1>3. \A b \in DOMAIN reply : Quality(b)' = Quality(b)
    BY DEF Quality
  <1>4. Considered \subseteq DOMAIN reply /\ \A b \in DOMAIN reply : reply[b].price \in Nat
    BY DEF Considered, TypeOK, Offers
  <1> DEFINE offer(b) == [price |-> reply[b].price, quality |-> Quality(b)]
  <1> SUFFICES /\ \E b \in Considered \cup {a} : LowWith(a) = offer(b)
               /\ \A b \in Considered \cup {a} : LowWith(a).price <= reply[b].price
    BY <1>1, <1>2, <1>3, <1>4 DEF LowIsLowest
  <1>5. CASE Considered = {} /\ low = NoOffer
    <2>1. LowWith(a) = offer(a)
      BY <1>5 DEF LowWith, NoOffer
    <2> QED
      BY <1>1, <1>5, <2>1
  <1>6. CASE /\ \E b \in Considered : low = offer(b)
             /\ \A b \in Considered : low.price <= reply[b].price
    <2>1. PICK c \in Considered : low = offer(c)
      BY <1>6
    <2>2. low.price = reply[c].price /\ low.price # 0 /\ low.price \in Nat
      BY <1>4, <2>1 DEF LInv, PricesArePositive
    <2>3. CASE reply[a].price < low.price
      <3>1. LowWith(a) = offer(a) /\ LowWith(a).price = reply[a].price
        BY <2>3 DEF LowWith
      <3> QED
        BY <1>1, <1>4, <1>6, <2>2, <2>3, <3>1
    <2>4. CASE ~(reply[a].price < low.price)
      <3>1. LowWith(a) = low
        BY <2>2, <2>4 DEF LowWith
      <3> QED
        BY <1>1, <1>6, <2>1, <2>2, <2>4, <3>1
    <2> QED
      BY <2>3, <2>4
  <1> QED
    BY <1>5, <1>6 DEF LInv, LowIsLowest

\* When the loop ends it has visited every auction, so the lowest offer it met is
\* the lowest of the reply.
LEMMA FoundLowest ==
  ASSUME TypeOK, LInv, AuctionFound
  PROVE  ReportedLowest'
  <1>1. /\ pc = "loop" /\ todo = {} /\ low.price # 0
        /\ UNCHANGED <<original, reply, weapon>>
        /\ patch'.cheapest = low.price /\ patch'.best = low.quality
    BY DEF AuctionFound, Report, shared, loopVars
  <1>2. Considered = {a \in DOMAIN reply : Qualifies(a)}
    BY <1>1 DEF Considered
  <1>3. low # NoOffer
    BY <1>1 DEF NoOffer
  <1>4. PICK a \in Considered : low = [price |-> reply[a].price, quality |-> Quality(a)]
    BY <1>1, <1>3 DEF LInv, LowIsLowest
  <1>5. \A b \in Considered : low.price <= reply[b].price
    BY <1>1, <1>3 DEF LInv, LowIsLowest
  <1>6. low.price = reply[a].price /\ low.quality = Quality(a)
    BY <1>4
  <1>7. \A b \in DOMAIN reply : Quality(b)' = Quality(b) /\ Qualifies(b)' = Qualifies(b)
    BY <1>1 DEF Quality, Qualifies
  <1> QED
    BY <1>1, <1>2, <1>4, <1>5, <1>6, <1>7 DEF ReportedLowest

\* What the loop works on does not change but by its own steps.
LEMMA LowFrame ==
  ASSUME LInv, UNCHANGED <<pc, original, patch, useCaseErr, loopVars>>
  PROVE  LInv'
  BY DEF LInv, PricesArePositive, LowIsLowest, ReportedLowest, Considered, Qualifies, Quality,
         loopVars

\* Between two reconciles there is nothing to report.
LEMMA LowCleared ==
  ASSUME pc' = "idle", ClearLoop
  PROVE  LInv'
  BY DEF LInv, PricesArePositive, LowIsLowest, ReportedLowest, ClearLoop

\* If every price is positive, every step keeps the lowest offer the lowest so far.
LEMMA LInvStep ==
  ASSUME \A l \in Listings : l.price # 0
  PROVE  TypeOK /\ LInv /\ [Next]_vars => LInv'
  <1> SUFFICES ASSUME TypeOK, LInv, [Next]_vars PROVE LInv'
    OBVIOUS
  <1>1. CASE UserCreates \/ UserEdits \/ UserDeletes
    BY <1>1, LowFrame DEF UserCreates, UserEdits, UserDeletes, CreateWatch, EditSpec,
                          DeleteWatch, runVars
  <1>2. CASE Tick \/ Midnight \/ GetFails \/ UNCHANGED vars
    <2>1. UNCHANGED <<pc, original, patch, useCaseErr, loopVars>>
      BY <1>2 DEF Tick, Midnight, GetFails, ReadFails, vars, frameVars, runVars
    <2> QED
      BY <2>1, LowFrame
  <1>3. CASE InformerDelivers \/ RequeueFires
    BY <1>3, LowFrame DEF InformerDelivers, DeliverEvents, RequeueFires, TimerFires, runVars
  <1>4. CASE OperatorRestarts \/ StatusApplied \/ StatusApplyFails
    BY <1>4, LowCleared DEF OperatorRestarts, Restart, StatusApplied, StatusApplyFails,
                            ApplyStatus, ApplyStatusFails, FinishReconcile
  <1>5. CASE Get
    BY <1>5 DEF Get, StartReconcile, runVars, loopVars, LInv, PricesArePositive, LowIsLowest,
                ReportedLowest
  <1>6. CASE SearchFails \/ NoAuctions \/ NothingQualifies
    BY <1>6 DEF SearchFails, NoAuctions, NothingQualifies, ReportOnly, Report, loopVars,
                LInv, PricesArePositive, LowIsLowest, ReportedLowest
  <1>7. CASE SearchReplies
    <2>1. \A a \in DOMAIN reply' : reply'[a].price # 0
      <3> DEFINE Seen == {[price |-> l.price, quality |-> l.quality] :
                             l \in {listing \in Listings : Matches(listing, original.spec)}}
      <3>1. \A offer \in Seen : offer.price # 0
        OBVIOUS
      <3>2. PICK shown \in SUBSET Auctions : reply' \in [shown -> Seen]
        BY <1>7 DEF SearchReplies, Replies
      <3> QED
        BY <3>1, <3>2
    <2> QED
      BY <1>7, <2>1 DEF SearchReplies, LInv, PricesArePositive, LowIsLowest, ReportedLowest
  <1>8. CASE Lookup
    <2>1. low' = NoOffer /\ Considered' = {} /\ pc' = "loop" /\ reply' = reply
      BY <1>8 DEF Lookup, Considered, LInv, LowIsLowest
    <2> QED
      BY <2>1 DEF LInv, PricesArePositive, LowIsLowest, ReportedLowest
  <1>9. CASE Loop
    <2>1. PICK a \in Auctions :
             BelowQuality(a) \/ NoAlertFor(a) \/ SendSucceeds(a) \/ SendFails(a) \/ Panics(a)
      BY <1>9 DEF Loop
    <2>2. CASE BelowQuality(a)
      <3>1. Considered' = Considered
        BY <2>2 DEF BelowQuality, Considered, Qualifies, Quality, frameVars, TypeOK
      <3>2. UNCHANGED <<pc, reply, low, weapon>> /\ pc = "loop"
        BY <2>2 DEF BelowQuality, frameVars
      <3> QED
        BY <3>1, <3>2 DEF LInv, PricesArePositive, LowIsLowest, ReportedLowest, Quality
    <2>3. CASE NoAlertFor(a) \/ SendSucceeds(a)
      <3>1. /\ pc = "loop" /\ a \in todo /\ Qualifies(a) /\ todo' = todo \ {a}
            /\ low' = LowWith(a) /\ UNCHANGED <<pc, original, reply, weapon>>
        BY <2>3 DEF NoAlertFor, SendSucceeds, AlertIsDue, frameVars
      <3> QED
        BY <3>1, LowStep DEF LInv, PricesArePositive, ReportedLowest
    <2>4. CASE SendFails(a)
      BY <2>4 DEF SendFails, loopVars, LInv, PricesArePositive, LowIsLowest, ReportedLowest
    <2>5. CASE Panics(a)
      BY <2>5, LowCleared DEF Panics, FinishReconcile
    <2> QED
      BY <2>1, <2>2, <2>3, <2>4, <2>5
  <1>10. CASE AuctionFound
    BY <1>10, FoundLowest DEF AuctionFound, loopVars, LInv, PricesArePositive, LowIsLowest
  <1> QED
    BY <1>1, <1>2, <1>3, <1>4, <1>5, <1>6, <1>7, <1>8, <1>9, <1>10 DEF Next

\* When every price is positive, a status reports the lowest price that qualifies,
\* in whichever order the loop visits the auctions.
THEOREM LowestReported ==
  ASSUME \A l \in Listings : l.price # 0
  PROVE  Spec => []ReportedLowest
  <1>1. Init => LInv
    BY DEF Init, ControllerInit, LInv, PricesArePositive, LowIsLowest, ReportedLowest
  <1>2. LInv => ReportedLowest
    BY DEF LInv
  <1> QED
    BY <1>1, <1>2, LInvStep, TypeCorrect, PTL DEF Spec

-----------------------------------------------------------------------------
(* The generation a status observed.                                         *)

\* The status is of no newer spec than the cached copy, that of no newer one than
\* the object, and in between is the copy under way, which the patch observes. So
\* it is for the first watch of the name; the cache may hold a copy of the first
\* one when the second exists, and nothing relates their generations.
CopiesInOrder ==
    (obj # NoObject /\ created = 1) =>
        /\ obj.status.observed <= obj.generation
        /\ cache = NoObject => pc = "idle" /\ obj.status.observed = 0
        /\ cache # NoObject => /\ obj.status.observed <= cache.generation
                               /\ cache.generation <= obj.generation
        /\ pc # "idle" => /\ obj.status.observed <= original.generation
                          /\ original.generation <= cache.generation

NothingBefore == created = 0 => obj = NoObject /\ cache = NoObject /\ pc = "idle"

PatchObserves == pc = "apply" => patch.observed = original.generation

OInv == TypeOK /\ CopiesInOrder /\ NothingBefore /\ PatchObserves

Growing ==
    (obj # NoObject /\ obj' # NoObject /\ created' = 1) =>
        obj.status.observed <= obj'.status.observed

\* Generations are numbers.
LEMMA GenerationType ==
  ASSUME NEW w \in Watches
  PROVE  w.generation \in Nat /\ w.status.observed \in Nat
  <1>1. w.status \in Statuses /\ w.generation \in 1..MaxGeneration
    BY DEF Watches
  <1>2. w.status.observed \in 0..MaxGeneration
    BY <1>1 DEF Statuses
  <1> QED
    BY <1>1, <1>2, RivenAssumption DEF RivenAssumption

\* Every branch of Execute reports the generation that was read.
LEMMA ObservesStep == OInv /\ [Next]_vars => PatchObserves'
  <1> SUFFICES ASSUME OInv, [Next]_vars, pc' = "apply"
               PROVE  patch'.observed = original'.generation
    BY DEF PatchObserves
  <1> USE DEF OInv, PatchObserves
  <1>1. CASE UserCreates \/ UserEdits \/ UserDeletes
    BY <1>1 DEF UserCreates, UserEdits, UserDeletes, CreateWatch, EditSpec, DeleteWatch, runVars
  <1>2. CASE Tick \/ Midnight \/ InformerDelivers \/ RequeueFires \/ GetFails \/ UNCHANGED vars
    BY <1>2, GetFailsFrame DEF Tick, Midnight, InformerDelivers, DeliverEvents, RequeueFires, TimerFires, vars,
                frameVars, runVars
  <1>3. CASE OperatorRestarts \/ Get
    BY <1>3 DEF OperatorRestarts, Restart, Get, StartReconcile, runVars
  <1>4. CASE SearchReplies \/ Lookup \/ Visited \/ SendSucceedsFor
    BY <1>4 DEF SearchReplies, Lookup, Visited, BelowQuality, NoAlertFor, SendSucceedsFor,
                SendSucceeds, AlertIsDue, frameVars
  <1>5. CASE SearchFails \/ NoAuctions \/ NothingQualifies
    BY <1>5 DEF SearchFails, NoAuctions, NothingQualifies, ReportOnly, Report
  <1>6. CASE SendFailsFor \/ AuctionFound
    BY <1>6 DEF SendFailsFor, SendFails, AuctionFound, Report
  <1>7. CASE PanicsFor
    BY <1>7 DEF PanicsFor, Panics, FinishReconcile
  <1>8. CASE StatusApplied \/ StatusApplyFails
    BY <1>8 DEF StatusApplied, StatusApplyFails, ApplyStatus, ApplyStatusFails, FinishReconcile
  <1> QED
    BY <1>1, <1>2, <1>3, <1>4, <1>5, <1>6, <1>7, <1>8
    DEF Next, Loop, Visited, SendSucceedsFor, SendFailsFor, PanicsFor

\* Nothing is known of a watch before the first one.
LEMMA BeforeStep == OInv /\ [Next]_vars => NothingBefore'
  <1> SUFFICES ASSUME OInv, [Next]_vars, created' = 0
               PROVE  obj' = NoObject /\ cache' = NoObject /\ pc' = "idle"
    BY DEF NothingBefore
  <1> USE DEF OInv, NothingBefore
  <1>1. CASE UserCreates
    <2>1. created \in Nat /\ created' = created + 1
      BY <1>1, RivenAssumption DEF UserCreates, CreateWatch, TypeOK, RivenAssumption
    <2> QED
      BY <2>1
  <1>2. CASE UserEdits \/ UserDeletes
    BY <1>2 DEF UserEdits, UserDeletes, EditSpec, DeleteWatch, runVars
  <1>3. CASE Tick \/ Midnight \/ InformerDelivers \/ RequeueFires \/ GetFails \/ UNCHANGED vars
    BY <1>3, GetFailsFrame DEF Tick, Midnight, InformerDelivers, DeliverEvents, RequeueFires, TimerFires, vars,
                frameVars, shared, apiVars, runVars
  <1>4. CASE OperatorRestarts \/ Get
    BY <1>4 DEF OperatorRestarts, Restart, Get, StartReconcile, apiVars, runVars
  <1>5. CASE ExecuteStep
    BY <1>5, ExecuteFrame
  <1>6. CASE PanicsFor
    BY <1>6 DEF PanicsFor, Panics, AlertIsDue, FinishReconcile
  <1>7. CASE StatusApplied \/ StatusApplyFails
    BY <1>7 DEF StatusApplied, StatusApplyFails, ApplyStatus, ApplyStatusFails, FinishReconcile
  <1> QED
    BY <1>1, <1>2, <1>3, <1>4, <1>5, <1>6, <1>7
    DEF Next, Loop, ExecuteStep, Visited, SendSucceedsFor, SendFailsFor, PanicsFor

\* No step puts the copies out of order, and a status that replaces one is that of
\* the copy that was read, which the replaced one is not newer than.
LEMMA OrderStep == OInv /\ [Next]_vars => CopiesInOrder' /\ Growing
  <1> SUFFICES ASSUME OInv, [Next]_vars PROVE CopiesInOrder' /\ Growing
    OBVIOUS
  <1> USE NoObjectAssumption DEF OInv, CopiesInOrder, Growing, NoObjectAssumption
  <1>1. \A w \in Watches : w.generation \in Nat /\ w.status.observed \in Nat
    BY GenerationType
  <1>2. /\ obj # NoObject => obj \in Watches
        /\ cache # NoObject => cache \in Watches
        /\ pc # "idle" => original \in Watches
    BY DEF TypeOK
  <1>3. CASE UserCreates
    <2>1. PICK spec \in Specs : CreateWatch(spec)
      BY <1>3 DEF UserCreates
    <2>2. /\ obj = NoObject /\ created' = created + 1 /\ UNCHANGED <<cache, pc>>
          /\ obj'.status = ZeroRivenStatus /\ obj'.generation = 1
      BY <2>1 DEF CreateWatch, runVars
    <2>3. created' = 1 => cache' = NoObject /\ pc' = "idle"
      BY <2>2, RivenAssumption DEF NothingBefore, TypeOK, RivenAssumption
    <2>4. ZeroRivenStatus.observed = 0
      BY DEF ZeroRivenStatus
    <2>5. obj'.status.observed = 0
      BY <2>2, <2>4, Zenon
    <2> QED
      BY <2>2, <2>3, <2>5
  <1>4. CASE UserEdits
    <2>1. PICK spec \in Specs : EditSpec(spec)
      BY <1>4 DEF UserEdits
    <2>2. obj # NoObject /\ UNCHANGED <<created, cache, pc, original>>
      BY <2>1 DEF EditSpec, runVars
    <2>3. obj'.status = obj.status /\ obj'.generation = obj.generation + 1
      BY <1>2, <2>1, <2>2 DEF EditSpec, Watches
    <2> QED
      BY <1>1, <1>2, <2>2, <2>3
  <1>5. CASE UserDeletes
    BY <1>5 DEF UserDeletes, DeleteWatch
  <1>6. CASE Tick \/ Midnight \/ RequeueFires \/ GetFails \/ UNCHANGED vars
    <2>1. UNCHANGED <<obj, created, cache, pc, original>>
      BY <1>6, GetFailsFrame DEF Tick, Midnight, RequeueFires, TimerFires, vars, frameVars, shared, apiVars,
                  runVars
    <2> QED
      BY <1>1, <1>2, <2>1
  <1>7. CASE InformerDelivers
    <2>1. cache' = obj /\ UNCHANGED <<obj, created, pc, original>>
      BY <1>7 DEF InformerDelivers, DeliverEvents, apiVars, runVars
    <2> QED
      BY <1>1, <1>2, <2>1
  <1>8. CASE OperatorRestarts
    <2>1. cache' = obj /\ pc' = "idle" /\ UNCHANGED <<obj, created>>
      BY <1>8 DEF OperatorRestarts, Restart, apiVars
    <2> QED
      BY <1>1, <1>2, <2>1
  <1>9. CASE Get
    <2>1. /\ UNCHANGED <<obj, created, cache>>
          /\ \/ cache = NoObject /\ UNCHANGED <<pc, original>>
             \/ cache # NoObject /\ original' = cache
      BY <1>9 DEF Get, StartReconcile, apiVars, runVars
    <2> QED
      BY <1>1, <1>2, <2>1
  <1>10. CASE ExecuteStep
    <2>1. UNCHANGED <<obj, created, cache, original>> /\ pc # "idle"
      BY <1>10, ExecuteFrame
    <2> QED
      BY <1>1, <1>2, <2>1
  <1>11. CASE PanicsFor
    <2>1. UNCHANGED <<obj, created, cache>> /\ pc # "idle" /\ pc' = "idle"
      BY <1>11 DEF PanicsFor, Panics, AlertIsDue, FinishReconcile
    <2> QED
      BY <1>1, <1>2, <2>1
  <1>12. CASE StatusApplied \/ StatusApplyFails
    <2>1. pc = "apply" /\ pc' = "idle" /\ UNCHANGED <<created, cache>>
      BY <1>12 DEF StatusApplied, StatusApplyFails, ApplyStatus, ApplyStatusFails,
                   FinishReconcile
    <2>2. obj' = obj \/ (obj # NoObject /\ obj' = Applied)
      BY <1>12 DEF StatusApplied, StatusApplyFails, ApplyStatus, ApplyStatusFails
    <2>3. CASE obj' = obj
      BY <1>1, <1>2, <2>1, <2>3
    <2>4. CASE obj # NoObject /\ obj' = Applied
      <3>1. Applied.status = patch /\ Applied.generation = obj.generation
        BY <1>2, <2>4 DEF Applied, Watches
      <3>2. patch.observed = original.generation
        BY <2>1 DEF PatchObserves
      <3> QED
        BY <1>1, <1>2, <2>1, <2>4, <3>1, <3>2
    <2> QED
      BY <2>2, <2>3, <2>4
  <1> QED
    BY <1>3, <1>4, <1>5, <1>6, <1>7, <1>8, <1>9, <1>10, <1>11, <1>12
    DEF Next, Loop, ExecuteStep, Visited, SendSucceedsFor, SendFailsFor, PanicsFor

\* Until a watch is created again under its name its status is never replaced by one
\* that was made of an older spec, for any faults, edits and lag of the cache.
THEOREM ObservedOnlyGrows == Spec => ObservedNeverFalls
  <1>1. Init => OInv
    BY TypeInit DEF Init, ControllerInit, OInv, CopiesInOrder, NothingBefore, PatchObserves
  <1>2. OInv /\ [Next]_vars => OInv'
    BY TypeStep, ObservesStep, BeforeStep, OrderStep DEF OInv
  <1>3. OInv /\ [Next]_vars => [(obj # NoObject /\ obj' # NoObject /\ created' = 1)
                                  => obj.status.observed <= obj'.status.observed]_obj
    BY OrderStep DEF Growing
  <1> QED
    BY <1>1, <1>2, <1>3, PTL DEF Spec, ObservedNeverFalls

-----------------------------------------------------------------------------
(* The riven watch implements Alerts. *)

\* In each step the user sees an alert, a release, a record, the end of the watch,
\* or nothing.
LEMMA PromiseStep == IInv /\ [Next]_vars => [Promise!Next]_(Promise!alertVars)
  <1> SUFFICES ASSUME IInv, [Next]_vars PROVE [Promise!Next]_(Promise!alertVars)
    OBVIOUS
  <1> USE DEF IInv
  <1>1. CASE UserCreates
    <2>1. PICK spec \in Specs : CreateWatch(spec)
      BY <1>1 DEF UserCreates
    <2>2. Listed = {} /\ Listed' = {}
      BY <2>1, CreateType, ZeroStatusType DEF Listed
    <2> QED
      BY <1>1, <2>2 DEF UserCreates, ghostVars, Promise!alertVars
  <1>2. CASE UserEdits
    <2>1. PICK spec \in Specs : EditSpec(spec)
      BY <1>2 DEF UserEdits
    <2>2. Listed' = Listed
      BY <2>1, EditType DEF Listed
    <2> QED
      BY <1>2, <2>2 DEF UserEdits, ghostVars, Promise!alertVars
  <1>3. CASE UserDeletes
    <2>1. Promise!Forget
      BY <1>3 DEF UserDeletes, DeleteWatch, Listed, Promise!Forget
    <2> QED
      BY <2>1 DEF Promise!Next
  <1>4. CASE Tick \/ InformerDelivers \/ RequeueFires \/ GetFails \/ UNCHANGED vars
    <2>1. UNCHANGED <<obj, sent, told, safe>>
      BY <1>4, GetFailsFrame DEF Tick, InformerDelivers, DeliverEvents, RequeueFires, TimerFires, vars,
                  frameVars, shared, apiVars, ghostVars
    <2> QED
      BY <2>1 DEF Listed, Promise!alertVars
  <1>5. CASE \/ Midnight \/ OperatorRestarts \/ Get
             \/ SearchFails \/ NoAuctions \/ NothingQualifies
    <2>1. UNCHANGED <<obj, sent>> /\ told' \subseteq told /\ safe' \subseteq safe
      BY <1>5 DEF Midnight, OperatorRestarts, Restart, Get, StartReconcile, SearchFails,
                  NoAuctions, NothingQualifies, frameVars, shared, apiVars
    <2>2. safe' \subseteq told'
      BY <1>5, <2>1 DEF TypeOK, Midnight, OperatorRestarts, Get, SearchFails, NoAuctions,
                        NothingQualifies
    <2>3. Promise!Release
      BY <2>1, <2>2 DEF Listed, Promise!Release
    <2> QED
      BY <2>3 DEF Promise!Next
  <1>6. CASE SearchReplies \/ Lookup \/ Visited \/ AuctionFound \/ PanicsFor
    <2>1. UNCHANGED <<obj, sent, told, safe>>
      BY <1>6 DEF SearchReplies, Lookup, Visited, BelowQuality, NoAlertFor, AuctionFound,
                  PanicsFor, Panics, frameVars, shared, ghostVars
    <2> QED
      BY <2>1 DEF Listed, Promise!alertVars
  <1>7. CASE SendSucceedsFor \/ SendFailsFor
    <2>1. PICK a \in Auctions : SendSucceeds(a) \/ SendFails(a)
      BY <1>7 DEF SendSucceedsFor, SendFailsFor
    <2>2. UNCHANGED obj /\ a \notin safe
      BY <2>1 DEF SendSucceeds, SendFails, AlertIsDue, SafeRecorded, frameVars, shared
    <2>3. CASE UNCHANGED ghostVars
      BY <2>2, <2>3 DEF ghostVars, Listed, Promise!alertVars
    <2>4. CASE Delivered(a) /\ safe' \in {safe, safe \cup {a}}
      <3>1. safe' \subseteq told'
        BY <2>4 DEF Delivered, TypeOK
      <3>2. Promise!Announce(a)
        BY <2>2, <2>4, <3>1 DEF Delivered, Listed, Promise!Announce
      <3> QED
        BY <3>2 DEF Promise!Next
    <2> QED
      BY <2>1, <2>3, <2>4 DEF SendSucceeds, SendFails, ghostVars
  <1>8. CASE StatusApplied \/ StatusApplyFails
    <2>1. /\ obj' = obj \/ (obj' # NoObject /\ obj'.status = patch)
          /\ UNCHANGED <<sent, told>> /\ safe' \subseteq safe
      BY <1>8, AppliedType
      DEF StatusApplied, StatusApplyFails, ApplyStatus, ApplyStatusFails, ghostVars
    <2>2. Listed' \subseteq sent
      BY <2>1 DEF Listed, CopiesWereSent
    <2>3. safe' \subseteq Listed'
      <3>1. CASE StatusApplied
        BY <3>1, AppliedType DEF StatusApplied, ApplyStatus, SafeRecorded, Listed, ghostVars
      <3>2. CASE StatusApplyFails
        BY <2>1, <3>2 DEF StatusApplyFails, ApplyStatusFails, SafeRecorded, Listed
      <3> QED
        BY <1>8, <3>1, <3>2
    <2>4. Promise!Record
      BY <2>1, <2>2, <2>3 DEF Promise!Record
    <2> QED
      BY <2>4 DEF Promise!Next
  <1> QED
    BY <1>1, <1>2, <1>3, <1>4, <1>5, <1>6, <1>7, <1>8
    DEF Next, Loop, Visited, SendSucceedsFor, SendFailsFor, PanicsFor

\* For any auctions, listings, specs, days and faults the riven watch keeps the
\* promise of Alerts.
THEOREM PromiseKept == Spec => ImplementsAlerts
  <1>1. Init => Promise!Init
    BY DEF Init, ControllerInit, Listed, Promise!Init
  <1> QED
    BY <1>1, PromiseStep, InductiveInvariant, PTL DEF Spec, ImplementsAlerts, Promise!Spec

=============================================================================
