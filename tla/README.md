# TLA+ models of warframe-market-operator

The operator watches the Warframe Market. A user creates an `ItemPriceWatch` or
a `RivenPriceWatch` in a Kubernetes cluster; a controller looks at the market
every five minutes, writes what it finds into the status of the watch and sends
an alert through ntfy when an offer is cheap enough. The command line tool
`wfmctl` uses the same services.

What makes this hard is not the arithmetic. The alert goes out before the status
that records it is written, the status is the only memory the operator has, it
is read back from a cache that may lag, and it is written by server-side apply,
which removes every field the writer does not name again. Whether a user is
alerted once, twice or never is decided across several reconciles.

## Parts of the system

| Part | State it keeps | Operations | Talks to |
|---|---|---|---|
| Reconcile frame (`internal/controller/*_controller.go`) | none of its own; the object, the informer's cache, the work queue | read the cache, run the use case, apply the status, requeue after 5 minutes or with backoff | API server, informer, queue |
| `ItemPriceWatchUseCase.Execute` | none: reads `status.notifiedOrderId` | fetch the top orders, choose the cheapest, compare, alert, report | market client, ntfy client |
| `RivenPriceWatchUseCase.Execute` | none: reads `status.notifiedAuctionIds`, `status.lastNotifiedAt` | search, look the weapon up, score and visit each auction, alert, report | market, export and ntfy clients |
| Notification window (`isWithinWindow`) | none | compare a time of day | both use cases |
| Market client (`http_warframe_market_service.go`) | the rate limiter, shared by both controllers | wait, request, filter, sort | Warframe Market |
| Export client (`http_warframe_export_service.go`) | none between two calls | ask the index for the file of the current version, read the file, find a weapon or a recipe | public export |
| ntfy client (`ntfy_notification_service.go`) | none | send | ntfy server |
| Set pricing (`get_set_info_use_case.go`, `get_set_component_price_use_case.go`) | none | parts and counts of a set, buy plan per part, total | market and export clients |
| Riven score (`riven_calculator_use_case.go`) | tables | quality of a roll | riven use case, `wfmctl` |
| `wfmctl` (`cmd/wfmctl`) | none | list, search and show orders, items, sets and rivens | market and export clients, set pricing, riven score |
| Operator process (`cmd/main.go`) | two controllers with a queue and a worker each, the lease | start, reconcile, requeue, back off, end | everything above |
| Types, apply configurations | none | schema, setters | API server |

What must be right, per part:

- frame: a watch that exists is always looked at again; a failed reconcile is
  retried soon; the status catches up with the last edit;
- item watch: no alert is repeated without a cause, none is swallowed, a status
  never claims an alert that was not received, an offer that stays is announced;
- riven watch: the same for many auctions at once, with a loop that may end in the
  middle, and a list that is reset every day;
- operator process: a watch goes without a look at the market no longer than the
  period, one round of its worker and what named incidents cost, and what hangs for
  one kind of watch does not stop the other;
- orders: filter, sort and limit lose no better order than they show, in either
  direction;
- rate limiter: the requests of two workers stay under what the market allows, and
  neither waits for ever;
- set pricing: the counts are those of one published recipe, and the plan is a
  cheapest way to buy what is needed;
- riven score: the quality is that of the rolls, whatever weapon, rank, number of
  buffs and curse hide them behind.

The hazards, each with its line and the properties that watch it, are listed in
`PROJECT.json`.

## Modules

```
NotificationWindow   WatchController   Alerts      ExportClient  MarketOrders  Sums
       |                  |              :                   \       |         /   \
       +---------+--------+              : implements          \     |        /     \
                 |                       :                        SetPrice     RivenScore
   ItemPriceWatch, RivenPriceWatch  . . .:                              \       /
                                                                         Wfmctl
RateLimiter          Operator
```

Next to a specification `M` stand `MCM`, which instantiates it for TLC, and `MProofs`
with its inductive invariants and theorems: `ItemPriceWatchProofs`,
`RivenPriceWatchProofs`, `RateLimiterProofs`, `OperatorProofs`, `MarketOrdersProofs`,
`SetPriceProofs` and `WfmctlProofs`. `SumTheorems` has the lemmas about `Sums` and the
numbers that the last three need.

**`WatchController`** is the frame both reconcilers share: one object on the API
server (`obj`), the informer's copy (`cache`), the work queue (`queued`, `timer`)
and one `Reconcile` (`pc`, `original`, `patch`, `useCaseErr`). `StartReconcile`
is `r.Get` (which reads the cache; `ReadFails` when it returns an error, which is
retried with backoff), `ApplyStatus` and `ApplyStatusFails` are the
status call with what follows it, `FinishReconcile` is the result that
`Reconcile` returns. Server-side apply by the only manager of the status means
that the status *becomes* the patch: what the code does not name again is gone
(`Applied`). `DeliverEvents` applies `GenerationChangedPredicate`, and knows that
a deletion and a creation seen at once, in a new list, are one update. A restart
loses the queue and everything in memory, and finds every object anew.

**`ItemPriceWatch`** and **`RivenPriceWatch`** instantiate the frame and add one
action per branch of their `Execute`, between the read and the apply. Each call
out of the process is a step of its own, so users, market, clock, informer and a
crash come in between. A failed call is a fault; a failed `Send` may have
delivered, a failed apply may have been applied. For the item watch the market is
a variable that changes at any time. For the riven watch each search is answered
arbitrarily, which allows every market, and the loop over the auctions visits them
in any order: the code asks for `price_asc` but does not sort.

History variables say what the user knows. `sent`: the alerts that ever arrived.
`told`: those without a reason to alert again since. The reasons are the ones the
code has: a reply without the order or with a price above the threshold, or an alert
about another order, which is a change of the cheapest seller (item); a new day
(riven). `loss` (item) and `safe` (riven) say whether something that may lose the
record has happened: a failed fetch, a status that was not applied, a stale read, an
alert whose answer was lost, a restart between alert and apply.

**`Alerts`** is what a user may rely on, without reconciles, caches and queues: the
alerts that arrive and the offers a status names. An offer is *secured* while no
fault stands in the way of its record; secured offers are not announced again, and
every status that is written names all of them. Both watches implement it. The
mapping takes `sent` and `told` for what was received and is known, `told` without
`loss` (item) or `safe` (riven) for what is secured, and the status on the API
server for what is listed.

**`Operator`** is the process over time: per controller a queue and one worker, per
watch the time until its entry is ready. A reconcile is one span of time here,
`WatchController` has its steps. Failures with their doubling backoff, hung calls,
edits and the end of the process with its lease are *incidents*; `allowance` adds up
what they may cost each watch, which the property compares with the time a watch
went without a look (`idle`). The backoff is the watch's own, as in the queue's rate
limiter, and is forgotten after a success. What the bound cannot cover is `excused`:
a hung call of the watch's own kind, and more incidents of its peers between two
reconciles of its own (`disturbed`) than `MaxDisturbances`. Peers that are due again
before the watch has had its turn may go first, as the queue decides by priority, and
enough of them keep it waiting for ever; the code does nothing against that.

**`RateLimiter`** is `makeRequestToURL` as concurrent workers see it: the limiter
grants points in time, and a request goes out some time after its grant.

**`RivenScore`** is the calculator and the average of the buffs, in scaled integers
(the units are in the head of the module). Of each table of base values it keeps a
stat that all tables have, stats that only some have, and the largest value, so
that known and unknown stats of every type occur. `RivenPriceWatch` takes the
quality of a listing as given; `MCRivenPriceWatch` lists rivens with attributes
and lets `RivenScore` rate them.

**`MarketOrders`** is what `GetOrdersByItem` makes of a reply: the filter and
`sort.SliceStable`, with insertion in blocks and merging, since the comparison of the
descending order is no order (of two equal orders each goes before the other) and the
result depends on how the library sorts. (`SliceStable` merges the blocks one after the
other, where Go merges neighbours in rounds; both only ever merge neighbouring runs, and
the proofs show that no more matters.) `Admits` is the filter for one order.
**`ExportClient`** is the two requests of a
lookup, with a new version of the export between them. **`SetPrice`** walks through
the two use cases of set pricing over both, from the parts list to the total. Its book
is the orders the filter admits, each under its place in the reply: `buildBuyPlan` sorts
them itself, with a sort that leaves the order of equal prices open. `Sums` is the sum
that the loops of set pricing and of both averages of a riven compute.

**`Wfmctl`** is the command line tool, which executes one command and ends: `sets
price` and `sets info` are `SetPrice` or its first half; `items info` shows an item and
its recipe; `items search`, `orders list` and `orders top` show what the market returns,
filtered, sorted and cut; and `rivens search` searches, looks the weapon up and fills a
row of its table with an average of its own over `RivenScore`'s scores. The market
shows rivens whose values are made of rolls with the formula in the head of the
calculator, so that the rolls can be compared with what comes out. A name is words and
what is written between them: the slug of an auction has `_` there, the export a space,
and `SlugToName` turns the one into the other, as the tool does and the operator does
not. So `WatchWeapon`, what the operator finds for the slug, is another lookup than
`FindWeapon`.

In the modules a comment *Wrong on purpose* marks the mutated form of the
operator next to it. No specification uses these forms: each one is what a
plausible mistake in the code would look like, and `PROJECT.json` names the
property that notices it.

## Runs

| Run | Question | Bounds |
|---|---|---|
| `Item_faults` | safety of the item watch under every fault, and that it implements `Alerts` | 2 orders, 2 prices around the threshold, the watch created twice |
| `Item_edits` | the same while the user edits threshold and window, and that no status gives way to an older one | 2 specs, 2 generations, 2 times of day, failed fetches and applies, stale reads |
| `Item_live` | liveness of the item watch | 2 orders, one price, an edit between 2 thresholds, failing reads, alerts and applies, stale reads |
| `Riven_faults` | safety of the riven watch under every fault, and that it implements `Alerts` | 2 auctions, 4 listings of which 2 pass the search, 2 specs, 2 days of 2 times |
| `Riven_live` | liveness of the riven watch, and that no status gives way to an older one | 2 auctions, 2 days, an edit between 2 specs, one of them with a slug of several words, all faults but restarts and stale reads |
| `Operator` | how long may a watch go without a look at the market | 2 item watches and a riven watch; period 4, a reconcile of 1, backoff from 2 to 7, a lease of 2; 3 incidents, of which a watch takes 2 from its peers |
| `Limiter` | load and fairness of the rate limiter | 2 workers as in the operator, interval of 3 ticks, 7 ticks |
| `Wfmctl` | every command: are the counts those of one recipe, is the greedy plan optimal; are the orders shown the best ones; does the score find the rolls, and do tool and operator agree on it | parts lists with the set itself, an unknown part and none; 3 versions of the export, with repeated, zero and missing counts; books of up to 3 orders, lists of up to 4 with blocks of 2. Rivens of 5 categories, the lowest and highest disposition and rank, 1 to 4 buffs at the worst, a middle and the best roll, with a curse and without, with slugs of one and of two words |
| `Riven_lookup`, `Riven_daily`, `Riven_duplicates`, `Riven_bidding` | disagreements, see below | the smallest instance that shows them |

Why the bounds are enough. The code compares at most one recorded order with the
cheapest one, so two orders give every case of "same", "another" and "gone", and
two prices with the threshold between them every outcome of the comparison; the
proofs then cover any number of either. One edit and one re-creation suffice to
put an old generation or an old object next to a new one. Two days with midnight
at any step show every comparison of two dates that the code makes. In the limiter
run seven ticks hold two full intervals; the theorems cover the rest. In the operator
run two watches share a worker and a third has another, so that a peer's incident and
one of the other kind both occur; three incidents in a row reach the backoff's maximum
and put a failure, a hung call and a restart one after the other, and are one more from
peers than the watch is promised to take; two watches and two such incidents fill the
period, the most that the assumption of the module admits. Four orders in blocks
of two are the smallest list that the sort merges from two sorted blocks.

What the runs show:

- `NoRepeatWithoutCause`, `NoAlertSwallowed`: an item watch does not alert twice in a
  row about an order that every reply in between showed at or under the threshold. (The
  record holds one order: when the cheapest seller changes and changes back, the first
  is alerted about again, as the documentation of the use case has it.) A riven watch
  does not alert twice on a day about an auction. An alert is only held back for an
  offer the user knows of. All this holds as long as the record is not lost, and the
  invariants name every way in which it can be.
- `RecordedWasSent`, `NotifiedUnderThreshold`, `ReportedLowest`: the status tells
  the truth, also across edits and failed alerts.
- `NeverForgotten`, `FailureRetriedSoon`: no interleaving of events, timers,
  re-creations and restarts leaves a watch without a next reconcile.
- `BargainAnnounced`, `BargainSettles`, `OfferAnnounced`, `StatusCatchesUp`: an
  offer that stays is announced, the alerts about it come to an end, and the status
  describes the last spec. A failed lookup of the weapon, and the panic that may follow,
  only delay the announcement; a slug of several words prevents it (see below), so
  `OfferAnnounced` is about the others.
- `ImplementsAlerts`: the same as a refinement, for both kinds: whatever interleaves
  in the controller, what the user sees is a behaviour of `Alerts`.
- `LookedAtInTime`: a watch is looked at once per period and round of its worker, and
  each thing that delays it more has a name and a price: a failure of its own its
  backoff and a round, a failure or an edit of a peer one reconcile, a new process the
  lease and a round. All peers, and those that incidents bring back, must fit into a
  period. A call that hangs stops its own kind for good and never the
  other. So, but for incidents, a window at least a period and a round long is met
  every day.
- `ListedAreBest`: a limit never cuts off an order better than one that is shown, also
  when the list descends and is sorted by a comparison that is no order.
- `CountsArePublished`: a new version of the export in the middle of a command never
  mixes two recipes, and a failed request is never taken for "no recipe".
- `WindowBound`, `WaitBound`: at most three requests of the two controllers in any
  second, and a worker waits for its token at most two seconds. The bound is one
  more than the number of workers: requests bunch up although tokens do not.
- `ObservedNeverFalls`: until the watch is created again under its name, the generation
  its status has observed only grows: an apply replaces the whole status, on the error
  returns as on the others, and the copy it was computed from may be old, but never older
  than what the status describes. That rests on one worker per kind and on an informer
  that never goes back. (Created again, the watch may receive the status of its
  predecessor, with any generation, which its next reconcile replaces.)
- `RollsRecovered`: the score finds the average of the rolls again that the values were
  made of. Only rounding is lost: half a percent by the row, and for each buff a tenth
  and what 2.1 units of its value are worth. With the values of the game that is a
  percent or two; a wrong factor costs up to the whole range.
- `WatchAgrees`: for a slug of one word the quality a watch compares with its least
  quality is the one a user reads in the table, or one percent less. For a slug of
  several words, and where the table shows none, it is 0.
- `PlansAreCheapest`: with as many units as needed, or all there are.

### Fairness

The informer delivers, timers fire and the worker takes what is queued: weak
fairness, as client-go and controller-runtime promise of a running process. The
calls that may fail (read, fetch or search, lookup, alert, status) are repeated by the
code's own requeue and backoff; strong fairness of their success says that a call
tried again and again succeeds at some time. Nothing is assumed of users, market
and clock. Two things of the code are outside of this assumption: the HTTP clients
have no timeout, so a call may hang and with it the only worker of its controller;
and the backoff grows beyond five minutes. `Operator` has both, and states how long a
watch waits as a bound on time, without fairness: a tick does not pass while a free
worker has a ready key, nor while a reconcile whose calls are answered takes longer
than `ReconcileTime`.

### Disagreements

Four runs each show a place where the code does something else than a comment, a
type's documentation or a message says:

- `Riven_lookup`: a lookup "not fatal" by its comment leaves a nil weapon that the
  first alert dereferences. The panic is recovered by the controller, no status is
  applied, and the watch is retried with backoff until the lookup succeeds.
- `Riven_daily`: the list of alerted auctions is reset on a new day only if the
  last reconcile of the day before sent an alert, since any other removes the date.
- `Riven_duplicates`: a search without results removes the list, and the auctions
  are alerted again when they are back.
- `Riven_bidding`: an auction without a buyout price has price 0. It is alerted
  about, and the status then says that no auction met the quality, and drops the
  list, so the alert is repeated at every reconcile.

More follows from what is modelled, without a run of its own. A failed fetch returns
a status without `notifiedOrderId`, which the apply removes, and the next reconcile
alerts about the same order again, although its price stayed under the threshold and
no other seller was the cheapest in between, the two occasions the use case's
documentation names; the models count it as a cause. `wfmctl` turns a slug of several
words into a name before it asks the export (`slugToName`), the operator asks for the
slug itself, although the documentation of the field gives `gram_prime` as an
example: it finds no weapon, a watch with a least quality never alerts, and one
without runs into the nil weapon of `Riven_lookup` at every alert. `WatchAgrees` says
what that makes of the quality. `lastNotifiedAt` of an item watch, documented as the
time of the last alert, is gone after the first quiet reconcile, because the branches
that keep `notifiedOrderId` do not name it again; nothing decides by it. `NtfyConfig`
documents a token that `Send` never sends. `TotalPlatinum` covers only the units that
are on sale. The quality of a curse is not negative, as the comment on `RollQuality`
has it, but clamped to 0 and above. And the riven type of a kitgun has no table of
base values, so that every kitgun riven scores 0.

## Proofs

**`ItemPriceWatchProofs`** proves, for every set of orders, prices, specs and faults
and every bound: type correctness, `NoRepeatWithoutCause`, `NoAlertSwallowed`,
`RecordedWasSent`, `NeverForgotten`, `FailureRetriedSoon`, `NotifiedUnderThreshold`,
`ObservedNeverFalls` and `ImplementsAlerts`. The inductive invariant `IInv` adds to the types:

- `LastAlertRecorded`: unless it may be lost, the last alert is on record wherever
  the next decision looks: on the API server, in what `Reconcile` read, in the
  patch. The property alone speaks of the moment of the alert and is not inductive;
  the record has to be followed from write to write.
- `RecordIsLastAlert`: the converse, that no record names anything else
  (`NothingBefore` is its start).
- `CopiesWereSent`: the same for every copy of a status, stale ones included.
- `KnownIsWatched`, `FailureIsRetried`: the queue, relative to what the informer
  knows. With an event still to be delivered they give the properties.

`NotifiedUnderThreshold` has an invariant of its own, `JInv`: a copy of the watch of the
same generation has the same spec, and a patch is justified by the spec it was computed
from. An edit raises the generation, so an old status no longer passes for the new spec.
`ObservedNeverFalls` is about steps and needs the order of the copies (`ObservedBehind`):
no status is of a newer spec than the copy in the cache, nor than the copy under way,
which the patch observes. So the status that is applied is of no older spec than the one
it replaces.

**`RivenPriceWatchProofs`** proves type correctness, `NoRepeatWithoutCause`,
`RecordedWasSent`, `NeverForgotten`, `ObservedNeverFalls` (with the same order of the
copies, `CopiesInOrder`), `ImplementsAlerts` and, if every price is positive,
`ReportedLowest`, for every set of auctions, listings and specs, any number of days and
every set of faults. `SafeRecorded` follows the alerts that no fault has put at risk:
they are in the status on the API server, except those of the reconcile under way, in
what `Reconcile` read, in the list the loop extends and in the patch, and each of these
records carries today's date or none. `FreshInLoop` says that only the loop sends. The
assumption on prices is what `Riven_bidding` shows to be necessary. Its invariant,
`LInv`, compares the lowest offer so far with every auction the loop is done with.

In both, a lemma `ExecuteFrame` says that the steps of `Execute` touch neither objects
nor queue, so that each part of the invariant has one short case per action. The
refinement theorems map each step to an alert, a release, a record, the end of the
watch or a stutter: writing the status is a `Record` because `LastAlertRecorded` and
`SafeRecorded` put every secured offer into the patch, and sending is an `Announce`
because they keep secured offers from being due.

**`RateLimiterProofs`** proves type correctness, `WindowBound` and `WaitBound` for any
finite set of workers and any interval. Tokens are an interval apart (`LogIsSpaced`,
`GrantsAreSpaced`) and a worker asks again only after it has sent, so of the requests
in one interval those whose token was due before it began belong to different workers,
and at most one other token falls into it; a counting argument over an injection closes
the proof. For the wait, `TokensAreHeld` says that each token between now and the next
one is held by a worker that waits. Who asks is not one of them, so by the pigeonhole
principle the next token is no further away than an interval per worker.

**`OperatorProofs`** proves type correctness and `LookedAtInTime` for any number of
watches of both kinds, any period, backoff, lease and number of incidents. The property
compares two clocks at the moment it is asked; the invariant says for every moment that
what is still ahead of a watch in the worst case fits into what is left of its period and
its allowance (`OnSchedule`). No process leads; or the watch is being reconciled; or its
entry is not ready yet; or it waits. For the last, `WaitsBehind` names the set of peers
that go first, and says of each other peer that its entry is not ready before they, and
the watch, have had their turn, even if all the incidents the watch can still take
happen now (`Slack`). So no peer runs twice while a watch waits: a peer that starts was
in the set, or an incident has brought it back and paid for it. That a worker returns
within a round then follows from counting, and that the set is there at all, when a watch
becomes ready, from the assumption that a round and the incidents fit into a period.

**`SetPriceProofs`** proves for every set of parts, recipe, export and list of orders that
the counts and plans of `SetPrice` are right: the inductive invariant `IInv`. `Greedy`
says of a plan under way that nothing bought is dearer than what is left, that only the
last order is cut, and that it is then the dearest. That no other way is cheaper
(`PlansAreCheapest`) follows by an exchange argument: let *c* be the price of the dearest
order the plan uses. Every unit that another way buys instead costs at least *c*, every
unit it saves at most *c*, and there are equally many of both. `FromOneExport` follows
the file from the index to the recipe, and each count from the recipe to the part.

**`MarketOrdersProofs`** proves that the list comes out sorted (`ListSorted`), for any
reply, filter and length of the blocks. The descending comparison is no order, so the
proof is not that of a textbook: it rests on the code of the sort asking only whether an
order from a later place of the reply goes before one from an earlier place. On such
pairs the comparison agrees with a strict order of the places (`Precedes`: by value,
and of equal values the place decides, the earlier one when ascending, the later one when
descending). `Sorted` says that a list is made of the orders at a set of places, each
once, in this order; inserting (`InsertedSorted`), merging neighbouring runs
(`MergedSorted`) and filtering before (`SortedInWhole`) keep it. Merging computes where
each order goes by counting, and by the pigeonhole principle no place stays free
(`PlacesFilled`). There is only one such list (`SortedOneWay`).

**`WfmctlProofs`** carries both over to every command: a step of a command is one of
`SetPrice` or leaves its state alone. So `PlansAreCheapest` and `CountsArePublished` hold
for the specification the runs check, whichever command is executed. For `rivens search`
it adds what a row was made of (`RowIsRollText`), and proves `WatchAgrees`: stats of an
auction are distinct, so finding scores again by the name of the stat finds the right one
(`ScoreOf`); both averages are over the same attributes; and one rounds to nearest where
the other rounds down. `SlugOfWords` says that the export lists no weapon under a slug
of several words, so that the watch finds none. It also proves `RollsRecovered`, for any weapon, disposition, rank,
curse and rolls. Each rounding is a quotient that is off by less than one
(`AtMostQuotient`, `AtLeastQuotient`). With a curse the game rounds the mean value of a
buff once more than the score does, so that the two differ by one at most
(`CurseRounding`, `Matches`), and the best roll makes that 1.1. The rest of the formula
cancels, and what remains is the bound for one buff (`RatedRoll`). The buffs that the row
averages are the ones a table's base value rates, so that their bounds add up over the
same set (`SumsWithin`). The one hypothesis is that
the export lists the weapon as the riven was made for. For `orders list` it proves
`ListedAreBest`, since an order that the list shows less often than the reply is one
that was sorted behind the limit (`BeyondLimit`).

**`SumTheorems`** proves what these rest on: `Sum` adds up a function of any finite set,
with one element more, element by element, under a bound, times a constant. The
library's theorems on folds and induction take operators as arguments, which the provers
cannot instantiate; here a property is a set of subsets (`SubsetInduction`), and the
recursion inside the fold is shown to have exactly one solution (`Exists`, `Unique`).

The assumptions are the named `ASSUME`s of the modules: positive prices (of the item
watch), well-typed specs, values for "none" that are no members of the sets, bounds of
at least one, finitely many workers and watches, exports and orders that are well-formed
lists, an export that writes the names of weapons with spaces, and of the market that a riven has at most five buffs and no stat twice, as the
game makes them. TLC evaluates them in the runs.

Every invariant and action property of the passing runs is proved, and so are both
refinements. Only model-checked: liveness (`BargainAnnounced`, `BargainSettles`,
`StatusCatchesUp`, `OfferAnnounced`), since the prover handles neither fairness nor
`ENABLED`.

## Not modelled

- The flags, metrics, webhooks and TLS of `cmd/main.go`, generated deep copies, clients
  and manifests, deployment: they hold no state of the program's own.
- The text of alerts, the layout of tables, the decoding of replies and the
  decompression of the export's index. `GetWeaponByGameRef` has no caller.
- `HH:MM`: the schema's pattern admits only what parses, and times of day are numbers.
- The last transition time of a condition, which the code sets anew each time.
- Which of several orders at the lowest price is taken: the first of the list, and
  nothing fixes the order of the list. The models let it be any of them, and no
  document says what should happen.
- The size of the list of alerted auctions, which only grows within a day.
- Two processes that lead at once. The controller never runs two reconciles of one key,
  and `Operator` starts the next process once the lease has run out.

## What could follow

1. liveness of the two kinds of watch on larger instances;
2. the size of the riven watch's list against the limit of an object.
