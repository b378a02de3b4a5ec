# A TLA+ model of the yellow-pines e-commerce backend

The backend is one Go process over a Postgres database: HTTP features (user,
admin, session, product, inventory) behind a chi router, and an in-process
event engine that couples product and inventory. This directory holds
TLA+ modules translated from its source, TLC configurations that check them on
small instances, and TLAPS proofs for all instances.

Paths below are relative to `src/`; `features/` is `internal/features/`.

## 1. Inventory

| Component | State it keeps | Operations | Interacts by |
|---|---|---|---|
| event engine `internal/eventengine` | map `events` (name -> addressChs), `eventEngineCh`, `wg` | `RegisterEvents`, `Subscribe`, `Publish`, goroutine `listen` with `broadcaster` and its helpers | buffered channels, `DoneCh`, `InternalSrvWG` |
| event types `internal/eventengine/event` | none | names and payloads | values on the channels |
| product `features/product` | table `products`; handler's `addressCh` | create, list, get; deletes a product on `inventory.creation.failed` | publishes `product.created`, subscribes to the failure |
| inventory `features/inventory` | table `inventory`; handler's `addressCh` | stocks a product on `product.created` | publishes `inventory.creation.failed` |
| server `cmd/server` | `doneCh`, `internalSrvWG`, `http.Server` | wiring of features, serving, graceful shutdown | starts and stops all others |
| session `features/session` | table `sessions` | `LoginEntity`, `renewTokens`, `LogoutEntity` | called by user and admin; tokens in cookies |
| user, admin `features/user`, `features/admin` | tables `users`, `admins` | register (user), login, logout | call session |
| tokens, passwords `internal/auth` | secrets | generate, validate, hash, compare | called by session, user, admin, middleware |
| middlewares, handlerutils, servererrors, validate | none | check, parse and answer one request | wrap the handlers |
| config, storage, main | none | read environment, open the database | start the server |

Hard behaviours, and what makes each component correct:

* **Event engine.** Goroutines of publishers, `listen`, helpers and subscribers
  interleave over bounded channels while a shutdown may start at any time.
  Correct: every accepted event reaches each subscriber of its name once and in
  order, nothing is sent on or closed twice after a close, and at shutdown
  every handler's channel is closed.
* **Wiring.** Handlers subscribe from their own goroutines while the main one
  still registers names, on a map without a lock. Correct: nobody subscribes
  to a name that is not there, and no subscription is lost.
* **Product and inventory.** A product is committed first and stocked by
  another goroutine, with a compensating deletion. Correct: every product ends
  up stocked, deleted or reported; a visible one is not withdrawn.
* **Shutdown.** Requests, then `doneCh`, then internal goroutines, then the
  database. Correct: a clean exit leaves no work and no client unanswered, and
  the shutdown comes to an end.
* **Sessions.** Look-up, deletion and insertion are separate statements of
  concurrent requests, answers get lost and clients retry. Correct: a rotated
  token is dead, its reuse ends the entity's sessions, entities do not
  affect each other.
* **Accounts.** A registration looks its email up, hashes for a while and inserts;
  a look-up without a row yields a zero user; an access token outlives what it
  was issued for. Correct: emails stay apart but for overlaps, who was told
  "user created" can log in, only admins create products, and a request that can be
  read is answered 500 only if a statement failed.
* **Listing.** Two statements per page, numbered placeholders over four optional
  filters, unsigned page arithmetic, and a catalogue that changes between pages.
  Correct: every mix of filters makes two sound statements, counters and pages
  agree, and following the pages ends and misses nothing.

`PROJECT.json` lists every component, and under `hazards` each of these dangers
at the line where it bites, with the properties that would notice. Some have none: what
the code does there (two rows after overlapping logins, a crash that loses events, a body
that is answered 500 or not at all) is modelled, but nothing in the repository
says that it must not happen, and the `note` says which premise excepts it.

## 2. Modules

| Module | Models |
|---|---|
| `EventBus` | abstract specification: post once, see in order, close |
| `EventEngine` | `event_engine.go`, every goroutine and channel of it |
| `EventEngineProofs` | theorems about `EventEngine` |
| `SequenceFacts` | lemmas about heads, tails and members of sequences |
| `Startup` | the wiring phase and the first requests, one map access at a time, with data races |
| `StartupProofs` | theorems about `Startup` |
| `ProductCatalog` | create / stock / compensate and the server's shutdown, on top of an instance of `EventEngine` |
| `ProductCatalogProofs` | theorems about `ProductCatalog` |
| `SessionService` | abstract specification: a login, a renewal, a logout as one step on the table |
| `Sessions` | the session feature, one SQL statement at a time |
| `SessionsProofs` | theorems about `Sessions` |
| `Responses` | bodies a client may send, and `MakeHandler`'s mapping of errors to statuses |
| `Accounts` | registration, login of users and admins, and the middleware in front of `POST /products` |
| `AccountsProofs` | theorems about `Accounts` |
| `Catalogue` | abstract specification: the life of a product as customers see it |
| `ListingQuery` | `GET /products` from the URL to the two SQL statements |
| `Listing` | a customer who walks through the pages while the catalogue changes |
| `ListingProofs` | theorems about `ListingQuery` and one page of `Listing` |
| `ListingPagesProofs` | theorems about all pages of a walk |
| `MC*` | small instances for TLC |

How they fit together: `EventEngine` implements `EventBus` (`BusSpec`, a
refinement with `posted`, `promised`, `seen` and `closed` mapped to the
engine's variables). `Startup` refines the wiring actions of `EventEngine`
(`WiringIsAtomic`): what the engine takes for one step is several map accesses
there. `ProductCatalog` instantiates `EventEngine` with the two handlers as
subscribers, and each of its actions that publishes, receives or closes is a
conjunction with the engine's own action, so the two move in one step where
the code makes one call.

`ProductCatalog` implements `Catalogue` (`ShopSpec`): what a product is to customers
is read off the tables `products` and `inventory` and off whether its stocking
has been reported as failed. `Listing` runs against an instance of `Catalogue`: the
catalogue under a customer's feet changes in every way in which `ProductCatalog`
can change it, without the engine. `Sessions` implements `SessionService` as long as the calls of
each entity come one at a time (`CallsAreAtomic`). `Accounts` and `Sessions` meet at `LoginEntity`:
`Accounts` ends a login there (`Enter`), `Sessions` begins it there.

Correspondence to the code, in short (every definition's lines are in the
`map` of `PROJECT.json`):

* **EventEngine.** `pc` is where `listen` is: the `select`, `wg.Wait`, the
  drain loop, returned. `Take` starts `broadcaster` on the head of
  `eventEngineCh`; `event` and `targets` are what its own loop has still to
  send, `helper[m]` what the goroutine of a split broadcast has. A blocked send is an action
  whose guard is false. `pending` holds the events whose `Publish` is at its
  send. Go serves senders that wait on a channel first come first served, but the
  order in which goroutines arrive there is free, so any pending event may be the next one.
  `stream` and `handled` are histories. `DoneCh` is closed by the server
  once its requests are done; `LateEvents` are events of publishers that it does
  not wait for (the inventory handler). `Subscribe` and `Publish` refuse a name that is not
  registered, as the code does; the comments of the interfaces say that they add it
  (`event_engine.go:13` and `:17`); for `Subscribe` the run `startup_order` shows what follows.
* **Startup.** `Program[t]` lists thread t's accesses in program order; an
  access begins and ends in separate steps. Two that overlap, one of them a
  write, set `raced`; from then on reads may miss, writes may be lost and
  the runtime may throw. The threads are main, the two handlers and any number of
  `Requests`. A request stands for its `Publish` and for what `listen` then reads for
  its event: the subscribers to send to. `listen` reads the map for no other reason, so it
  is not a thread of its own.
* **ProductCatalog.** A request is `find`, `insert`, `send`; a handler is
  `receive` and then its statement. A statement may fail without effect
  (`fail`), after it (`lost`), or break off while rows are fetched (`unread`:
  `rows.Err` is never asked). `reported` collects products about which an
  error was answered or logged. `panicked`, `fatal` and `exited` end everything.
* **Sessions.** A call is its own session id (a fresh uuid); `opener` gives
  the columns entity_id and user_agent. The refresh token carries the id and
  expires with the row, so the id stands for it. Client addresses change
  with connections; answers are delivered or lost. `swallowed` is a history of the
  errors that `LoginEntity` passes over.
* **SessionService.** Its rows are those of the table and those that a call has deleted
  in order to put another in their place (`Held`). A call is then one step, the one
  that answers it; the earlier ones are stutters.
* **Accounts.** A call is also the user_id of the row it inserts. A look-up
  picks any of the rows, or none when fetching breaks off. An access token is the
  login that issued it; `actsAs` is the id that the middleware puts into the
  context. `fault` and `before` are histories.
* **ListingQuery.** A clause is a test and the numbers of its operands, a
  parameter a type and a value. `Accepts` is what the database checks before
  it runs a statement. `UInt64`, `Int64` and `Quotient` are Go's conversions and division, at width
  `2 * Half` instead of 2^64.
* **Listing.** `count` and the page are two steps, between which the catalogue may
  change. Rows with equal keys come in any order. `upset` collects what went on during
  the walk that a property excepts.

## 3. Runs

Bounds: channel capacity 1 where the code has 20 and 10, so that every channel
is full and empty within few events; `maxPartitionSize` is the code's 4.

| Run | Instance | Shows |
|---|---|---|
| `engine` | 2 names, 3 subscribers, one of them of both names, 3 events, one late | `IndInv` (the inductive invariant of the proofs), `NothingOwedAtExit`, `PanicCauses`, refinement of `EventBus`, and under fairness `EveryPromiseSeen`, `HandlersReleased` |
| `engine_fanout` | 1 name, 6 subscribers (the least that split), 2 events, one late | `ExactlyOnce` even across split broadcasts; `InOrder` up to five subscribers |
| `startup` | the server's own threads and two requests | `IInv` (the inductive invariant of the proofs), `OnlyInventoryTooEarly`, `SubscriptionKept`, `NobodyOnlyEarly`, refinement of the engine's wiring (`WiringIsAtomic`), and under fairness `Wired` |
| `catalog` | 3 creations, 2 of one name, all failures | `IInv` (the inductive invariant of the proofs), `NoSilentOrphan`, `CleanExit`, `StockHasProduct`, refinement of `Catalogue` (`ShopSpec`), and under fairness `Settles`, `ShutdownEnds` |
| `sessions` | 3 calls; 2 clients of one entity and one of another that shares a User-Agent; all failures | `OldTokenGone`, `ReuseOnlyByOverlap`, `ReuseEndsSessions`, `OneSessionPerAgent`, `OwnSessionsOnly`, refinement of `SessionService` (`CallsAreAtomic`) |
| `accounts` | 3 calls, 2 emails, 2 passwords, an admin with one of those emails, all failures | `OneAccountPerEmail`, `CredentialsWork`, `OnlyAdminsCreate`, `ServerErrorsProvoked` |
| `listing` | 3 products, 17 first URLs, `Half` = 32, all failures | `WalkInv` (the inductive invariant of the proofs), `StatementsSound`, `PagesCover`, `PagesInOrder`, `CountersAgree`, `ListedMatch`, `Served`, `OpensWhatIsListed`, and under fairness `WalkEnds` |

Runs that find a statement of the repository violated (details and quotes under
`findings` in `PROJECT.json`):

| Run | What the code does |
|---|---|
| `startup_order` | the inventory handler can subscribe before `product.created` is registered; `Subscribe` does not add the name, and the process ends |
| `catalog_cycle` | listen and the inventory handler wait for each other; shutdown hangs |
| `catalog_panic` | the inventory handler publishes on the closed `eventEngineCh` during shutdown |
| `sessions_reuse` | two overlapping renewals with one token both succeed |
| `sessions_port` | a renewal over a new connection is refused since the stored address includes the port |

Why the bounds are enough. *engine*: two events of one name exercise order, the
third another list; two subscribers of one name make a broadcast stop halfway. The late
event is the failure, which the inventory handler publishes after `doneCh`, and the third
subscriber may take one name or both, so that the process dies of either in some
behaviours and shuts down in the others.
*engine_fanout*: four receivers go to the helper and two stay with listen, so
both have a next receiver while the other is blocked. *catalog*: two requests
of a name race on it and the third keeps the channels full while one compensates;
four requests, all stocked in vain, are the least that close the cycle
(request, `eventEngineCh`, listen's hand, `addressCh`), and that run has four.
With three the cycle is also reachable once the failure event itself takes
a place; `Settles` and `ShutdownEnds` name `CircularWait` as their exception.
*startup*: two requests let an event find nobody and a later one the handler; main and
the handlers are those of the server.
*sessions*: log in, renew, renew again is the shortest history with reuse, and
with a second client in place of one of them the shortest in which another
session is there to be ended; a call of another entity can interleave with two of one. A changing address is left to the run
`sessions_port` and to the proofs; a session that expires between the validation of its token and
its look-up fails the same checks. Calls are
interchangeable, so the runs of sessions and accounts use their symmetry; the invariants and
the action properties do not tell them apart. The same holds for the subscribers of
`engine_fanout`. Runs with liveness use no symmetry.
*accounts*: register, register or log in with the same email, and use what that
opened is the longest chain there is. *listing*: three products make three pages
of one, or two of two of which the second is not full; two products have equal category
and price. The URLs have every filter alone or mixed, both directions, the default order,
an order that does not exist, an unparsable page and limit (-1 stands for both),
`page=0`, `limit=0`, a limit and an offset that do not fit `int` and, with page 11 of 3,
the last page before one whose product does not. `Half` must exceed the default limit
of 20. `Unlucky` bounds the products whose stocking may fail to one.

**Fairness.** `FairSpec` has weak fairness of each goroutine's steps: the Go
scheduler runs every runnable goroutine, a statement sent to the database returns, and
the shutdown timer fires. In `Listing` the customer also goes on to the next page
while there is one (`Walk`); a page count that never reached 0 would be a walk without end. Nothing forces a request, a signal, a publish, a
registration or a subscription to happen. `Startup` has weak fairness of
main and the handlers, since wiring is straight-line code; no request has to come.
In `ProductCatalog` a request that has been accepted goes on (it is a
goroutine), but none has to arrive. No strong fairness is assumed: with several
senders on one channel, `PublishSend` is fair per event because Go queues
blocked senders first in, first out, and the number of events is finite.

**Deadlock** is checked in every run. `Terminating` names the ends: a
panic, exit or fatal error, everything returned, and in `ProductCatalog`
the circular wait, which is a finding and not an accepted end.

**Mutants.** Next to the actions stand small variants marked `Mutant:`, each a
plausible slip in that code (a send that skips a full channel, a drain
left out, an error swallowed, a `return` forgotten, a `select` on `DoneCh` in place of a
range loop, a missing `WHERE` condition). They occur in no
specification. Putting one in its action's place must make TLC report the property it
is listed with, which shows that the property depends on that code.

## 4. Proofs

**The engine.** `EventEngineProofs` proves, for any finite or infinite sets of events, names and
subscribers, any capacities of at least 1 and any `maxPartitionSize` of at
least 2:

| Theorem | Statement |
|---|---|
| `IndInvAlways` | `Spec => []IndInv` |
| `TypeCorrect` | `Spec => []TypeOK`; channels respect their capacity |
| `OrderedDelivery` | `Spec => []InOrder` |
| `DrainedAtExit` | `Spec => [](~SplitFanout => NothingOwedAtExit)` |
| `PanicsExplained` | `Spec => []PanicCauses` |
| `EngineImplementsBus` | `Spec /\ []~SplitFanout => BusSpec` |
| `DeliveredOnce` | `Spec => []ExactlyOnce`, split broadcasts included |

The only assumption is `EngineAssumption`, which TLC evaluates in every run of the module.
`PanicCauses` leaves three ways for a goroutine to panic on a closed channel. A publisher
that `doneCh` does not wait for is at its send when `eventEngineCh` is closed: the
inventory handler is one, and the run `catalog_panic` finds it. A handler with two names in
its array, which the comment at `features/product/handler_event.go:119-120` invites, has
its channel closed twice (`ClosedTwice`); the run `engine` has one, the server none. With
six subscribers of one event the drain loop can start a helper after `wg.Wait` has
returned (`event_engine.go:85-95`), and `NothingOwedAtExit` fails, too; the server has one
subscriber of each event. That there is no fourth way follows from `Phases`: requests are
through their `Publish` when `doneCh` closes, and listen and its helpers hold no
event when the addressChs are closed unless a broadcast was split.

`InOrder` alone is not inductive. To see that a send puts the right event in
the right place one needs that listen has an event in hand exactly while it has
receivers left (`Busy`), that a receiver is listed once (`Wired`, `Owing`), that
no helper is at work unless a broadcast was split (`Owing`), and that an event is
in `eventEngineCh` once and no longer with its publisher (`Accepted`). That listen is done
when it closes channels is `Phases`. `IndInv` is the conjunction; the run
`engine` checks it as an invariant, and `NextIndInv` combines one lemma
per conjunct, each with a case per group of actions that touch its variables.
`SplitGrows` shows that once an event has so many subscribers it keeps them, so
`~SplitFanout` now means that it held all along.
For the refinement, `NextIsBusNext` maps `Take` to `Post`, `Receive` to `See`, the
close of the addressChs to `Close`, and every other step to a stutter.

`ExactlyOnce` holds without a bound on the number of subscribers. `OnceInv` adds to
`IndInv` that an event enters a subscriber's stream once and only after it has left
`eventEngineCh` (`Streams`), and that the helper of an event owes it to distinct
subscribers, none of whom listen serves itself (`Shares`). The heart of the proof is the
lemma `PartsPartition`: what a split broadcast gives to listen and to its helper are
two parts of the receivers, disjoint and together all of them.

**Wiring.** `StartupProofs` proves the safety properties of the run `startup` for any number of
requests, from `StartupAssumption` (requests are threads of their own):

| Theorem | Statement |
|---|---|
| `IInvAlways`, `TypeCorrect` | `Spec => []IInv`, `Spec => []TypeOK` |
| `OthersInTime` | `Spec => []OnlyInventoryTooEarly` |
| `SubscriptionsLast` | `Spec => []SubscriptionKept` |
| `LaterEventsReach` | `Spec => NobodyOnlyEarly` |
| `StartupWires` | `Spec => WiringIsAtomic` |

`IInv` says what follows from where a thread stands in its program: main's place tells
which threads run and which names are registered, a handler's place what its `Subscribe` has
read and stored. The last two parts hold while nothing has raced, and they need each other: a handler
may store what it loaded because no other access came in between, which
is what an access that overlapped would have recorded. The lemma `MainProgram` computes the steps
of `v1Router` from the features' parts. The refinement maps the end of a `put` to `RegisterEvents`, the
end of a `store` to `Subscribe` and everything else to a stutter.

**Product and inventory.** `ProductCatalogProofs` proves all the safety properties of the run
`catalog` and its refinement, for any requests, product names, failures and channel
capacities, from `CatalogAssumption`:

| Theorem | Statement |
|---|---|
| `IInvAlways` | `Spec => []IInv` |
| `TypeCorrect` | `Spec => []TypeOK` |
| `StockedOnce` | `Spec => []StockHasProduct` |
| `NothingForgotten` | `Spec => []NoSilentOrphan` |
| `ExitsClean` | `Spec => []CleanExit` |
| `ImplementsShop` | `Spec => ShopSpec` |

The invariant follows a product through the code. `Requesting`: its request publishes
what it has inserted and returns before `doneCh` closes. `Routing`: what was published is
in its Publish, in `eventEngineCh` or in the stream of the one handler it is for. The
engine's `OnceInv` takes it from there, through listen and the addressCh, to what the
handler has received. `Stocking`: what the inventory handler has received is in its hand,
stocked, or published as a failure, and stocked once because it is received once.
`Undoing`: a failure received is in the product handler's hand, or the product is gone or
reported. `Handling` closes the chain at the exit: a handler returns when its addressCh is
closed and empty, which the engine does only when nothing is left. None of the parts
is inductive without the others. The engine's lemmas are not proved again: its proof module
is instantiated with the handlers as subscribers (`EngineProofs`), and the engine's
assumption is proved of these constants (`EngineConstants`). For the refinement each
action is mapped to the one change of a product's life it makes, or to a stutter.

**Sessions.** `SessionsProofs` proves all the properties of the run `sessions` as
theorems (`OldTokensGo`, `ReuseTakesOverlap`, `ReuseEnds`,
`OnlyOwnSessions`, `OneSession`, `CallsServe`) and `TypeCorrect`, for any calls, clients, entities, User-Agents and
failures, from `SessionsAssumption`. Every action is first shown to have an
`Effect`, one formula that says of each call and session what a step may do to it;
the invariants then follow from `Effect` without looking at actions again.
`OldTokenGone` needs that a call that is about to create a session has already
deleted the one it exchanges and that deleted sessions stay so, since a session is
inserted by the one call that bears its id. `ReuseEndsSessions` needs that between
a call's deletion of everything and its answer nothing happens, and that a session which
appears later belongs to a call not answered before.

`OneSessionPerAgent` and `CallsAreAtomic` are about an entity whose calls come one at a
time and none of whose logins passes over an error (`OneByOne`); other entities
do as they like, and every statement may fail. Both premises are needed: of two overlapping
logins each may create a session, and a login that misses the row it should find, or
fails to delete the expired one, leaves two. The invariant `OneInv` says per entity that it has a row
at most for each User-Agent (`OneEach`) and that what a call has looked up still describes
the table at its next statement (`Relied`). It holds since all but one call of the
entity have not begun or been answered (`Alone`), and a call of another entity
touches other rows (`Owned`). `OneByOne`, once false, stays false, so that a step
after which it holds starts where it held.

For the refinement `CallsServe` each statement is mapped to the step of `SessionService` that
answers the call, or to a stutter. A renewal's deletion is a stutter, as the row is then held; the
insertion that follows is the renewal. A deletion whose error comes after its effect,
or an insertion that fails, is a renewal that has removed the session and answered an error. So a call
that fails halfway leaves nothing that a call in one step could not leave as well.

**Accounts.** `AccountsProofs` proves all the properties of the run `accounts`
(`EmailsKeptApart`, `CredentialsGood`, `AdminsOnly`, `ErrorsProvoked`) and `TypeCorrect`
from `AccountsAssumption`. `IInv` adds to them where a call may be and what it has found there:
a call answered has ended, one at its insert saw no account that was answered before it
began unless it missed rows, a login holds a row of its email and its password, and a creation at work has an admin's token.

**Listing.** `ListingProofs` proves the safety properties that concern a single page
(`TypeCorrect`, `AllStatementsSound`, `OnlyMatchesListed`, `ProperQueriesServed`,
`ListedOpens`), for any catalogue, any URLs and any width of integers, from
`QueryAssumption` and `ListingAssumption`. The lemma `AddBound` shows that appending
a clause keeps the earlier ones bound to their operands; four uses of it give that every mix of filters
makes two sound statements. `Served` follows, as the database accepts what is
sound if limit and offset fit.

`ListingPagesProofs` proves what spans several pages (`WalkInvAlways`, `PagesComplete`,
`ReadInOrder`, `CountersFit`). `ListingAssumption` says there that the catalogue has fewer products
than an `int` can count. A product's place in the listing is the number of products that
precede it (`Position`); without ties it is where the database puts it (`Sorted`), and a page
holds the places from its offset on (`PageRows`). The offset of the next page is where this one
ends, unless that is beyond `int` (`NextOffset`), and an answer that says no pages are left
has counted no product beyond its end (`AnswerCounts`). `WalkInv` states for each product
that was there at the start that it has been seen or its place is still ahead
(`Covered`), since a product that appears moves others back and never forward; and for what has been seen that
its places are before the offset, which is then within the listing (`InStep`).
Page numbers and offsets may wrap around in 64 bits, and the pages then start over; `InStep` shows
that this comes only before anything was listed, since an offset that follows listed
products is below their number. `Counted` ties the page to a count made one statement earlier:
it is the number of products found, or less if some have appeared in between. So `CountersAgree`
has three parts. The counters of an answer fit each other whatever happened (the total of pages is
rounded down and the pages left are rounded up, as the code computes them, so on a page
that is not the last one the two need not add up). With the page they make at least
the count if nothing was withdrawn and no rows broke off, and exactly the count if nothing appeared
between the two statements either. `PagesCover` and `PagesInOrder` except what does make a
customer miss products or see them twice: a withdrawal, rows that break off, equal keys and, for
`PagesCover`, a product that appears between a count and its page.

Model-checked only: the liveness properties (`EveryPromiseSeen`, `HandlersReleased`, `Wired`,
`Settles`, `ShutdownEnds`, `WalkEnds`), as fairness and ENABLED are outside the prover's reach;
and the five violations, each a behaviour that TLC exhibits. Every invariant, action property
and refinement that a run checks is also a theorem, under the premises named above.

## 5. Not modelled, and why

* `createProduct`'s own undo after a failed `Publish`: both names are registered before
  requests are served, so `Publish` returns no error there. A nil addressCh: the handlers
  always make theirs. `publishWorkers` and `shutdownWorkersJobsCh`: no caller.
* The schema. It is not in the repository; a constraint that refuses a statement is one
  of the ways in which the statement may fail. There is no restart: nothing in the
  code reads back what a crash left, so a restart is `Init` over the tables as they are.
* `is_revoked`: no writer. Session times other than expiry: never read.
* Hashing, signing, JSON and the wording of messages: library code or pure functions. A
  payload is sound, invalid, null or malformed; which tag it breaks is not modelled,
  except for the listing's query.
* Handler deadlines (30 seconds): a context that expires makes a statement fail, which is
  one of the failures.
* `updateOne` panics as unimplemented; `findByID` of users and admins and `create` of
  admins have no caller. Configuration, opening the database and `main` are straight-line code.
* Texts longer than the columns, time zones, float rounding in prices.
* `cmd/server/server.go` imports `features/cart`, which is absent, and misses
  a parenthesis in line 196 at this commit; the model takes the evident reading
  (`inventory.NewService(inventoryStore)`).

## 6. Plan

Done: `EventBus`, `EventEngine`; `Startup`; `ProductCatalog` and `Catalogue`; `SessionService` and
`Sessions`; `Accounts`; `Listing`; and the proofs of all their safety properties and refinements.
Left: **a composition of `Startup` and `ProductCatalog`**, in which a product created between the
first request and the inventory handler's subscription is one behaviour instead of the two that
`NobodyOnlyEarly` and `NoSilentOrphan` describe.
