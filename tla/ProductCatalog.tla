--------------------------- MODULE ProductCatalog ---------------------------
(***************************************************************************)
(* Creating a product, across the features product and inventory, the      *)
(* event engine between them and the server that shuts them all down.      *)
(*                                                                         *)
(* A request inserts the product row and publishes product.created; the    *)
(* inventory handler inserts the inventory row or, when that fails,        *)
(* publishes inventory.creation.failed; the product handler then deletes   *)
(* the product row.  Both handlers log an error and go on.  On a signal    *)
(* the server waits for its requests, 20 seconds at most, closes doneCh,   *)
(* waits for the three goroutines, closes the database and exits.          *)
(*                                                                         *)
(* The module starts where the server starts to accept requests, with both *)
(* handlers subscribed (Startup is about the time before).  Both event     *)
(* names are then registered, so Publish returns no error, and the deletion*)
(* by which createProduct would undo its insert is unreachable.            *)
(***************************************************************************)
EXTENDS Naturals, Sequences, FiniteSets, Functions

CONSTANTS
  Requests,     \* POST /products; a request also names the product it makes
  ProductName,  \* ProductName[r]: the trimmed name in the payload of r
  Failures,     \* of a statement: "fail", "lost" (after its effect), "unread"
  EngineCap, AddressCap, MaxPartitionSize, NoEvent, NoProduct

inventory == "handler_event.inventory"
product   == "handler_event.product"
Handlers  == {inventory, product}

ProductCreated(p)          == <<"product.created", p>>
InventoryCreationFailed(p) == <<"inventory.creation.failed", p>>

CreatedEvents == {ProductCreated(p) : p \in Requests}
FailedEvents  == {InventoryCreationFailed(p) : p \in Requests}
EventNames    == {"product.created", "inventory.creation.failed"}

ASSUME CatalogAssumption ==
  /\ DOMAIN ProductName = Requests
  /\ Failures \subseteq {"fail", "lost", "unread"}
  /\ NoProduct \notin Requests
  /\ NoEvent \notin CreatedEvents \cup FailedEvents
  /\ EngineCap \in Nat \ {0}
  /\ AddressCap \in Nat \ {0}
  /\ MaxPartitionSize \in Nat \ {0, 1}

(* addSubscription(s) of the two handlers.                                  *)
SubscribeTo ==
  [h \in Handlers |-> IF h = inventory THEN {"product.created"}
                                       ELSE {"inventory.creation.failed"}]

VARIABLES
  registered, subs, published, pending, engineCh, engineClosed, addressCh,
  addressClosed, doneCh, pc, event, targets, helper, panicked, stream, handled

engineVars == <<registered, subs, published, pending, engineCh, engineClosed,
                addressCh, addressClosed, doneCh, pc, event, targets, helper,
                panicked, stream, handled>>

Engine == INSTANCE EventEngine WITH
            Events      <- CreatedEvents \cup FailedEvents,
            NameOf      <- [m \in CreatedEvents \cup FailedEvents |-> m[1]],
            LateEvents  <- FailedEvents,
            Subscribers <- Handlers

VARIABLES
  request,    \* request[r]: the next step of request r
  answer,     \* answer[r]: its response, or "none"
  products,   \* the rows of table products
  stock,      \* stock[p]: the number of rows of table inventory for p
  at,         \* at[h]: the next step of handler h
  work,       \* work[h]: the product of the event h is handling, or NoProduct
  reported,   \* the products about which an error was answered or logged
  server      \* "up", "draining", "failing", "waiting", "exited" or "fatal"

requestVars == <<request, answer>>
tableVars   == <<products, stock>>
handlerVars == <<at, work>>
vars == <<engineVars, requestVars, tableVars, handlerVars, reported, server>>

TypeOK ==
  /\ request \in [Requests -> {"new", "find", "insert", "send", "done"}]
  /\ answer \in [Requests -> {"none", "created", "conflict", "error"}]
  /\ products \subseteq Requests
  /\ stock \in [Requests -> Nat]
  /\ at \in [Handlers -> {"receive", "insert", "send", "delete", "done"}]
  /\ work \in [Handlers -> Requests \cup {NoProduct}]
  /\ reported \subseteq Requests
  /\ server \in {"up", "draining", "failing", "waiting", "exited", "fatal"}
  /\ Engine!TypeOK

Init ==
  /\ registered = EventNames
  /\ subs = [n \in EventNames |->
               IF n = "product.created" THEN <<inventory>> ELSE <<product>>]
  /\ Engine!Idle
  /\ request = [r \in Requests |-> "new"]
  /\ answer = [r \in Requests |-> "none"]
  /\ products = {}
  /\ stock = [p \in Requests |-> 0]
  /\ at = [h \in Handlers |-> "receive"]
  /\ work = [h \in Handlers |-> NoProduct]
  /\ reported = {}
  /\ server = "up"

(* A panic, log.Fatal and os.Exit end every goroutine.                      *)
Alive == ~panicked /\ server \notin {"exited", "fatal"}

-----------------------------------------------------------------------------
(* service.createProduct                                                    *)

Answer(r, a) ==
  /\ request' = [request EXCEPT ![r] = "done"]
  /\ answer' = [answer EXCEPT ![r] = a]

Accept(r) ==
  /\ Alive
  /\ server = "up"
  /\ request[r] = "new"
  /\ request' = [request EXCEPT ![r] = "find"]
  /\ UNCHANGED <<engineVars, answer, tableVars, handlerVars, reported, server>>

NameTaken(r) == \E p \in products : ProductName[p] = ProductName[r]

FindByName(r) ==
  /\ Alive
  /\ request[r] = "find"
  /\ IF NameTaken(r)
     THEN Answer(r, "conflict")
     ELSE request' = [request EXCEPT ![r] = "insert"] /\ UNCHANGED answer
  /\ UNCHANGED <<engineVars, tableVars, handlerVars, reported, server>>

FindByNameFails(r) ==
  /\ Alive
  /\ request[r] = "find"
  /\ Failures \cap {"fail", "lost"} # {}
  /\ Answer(r, "error")
  /\ UNCHANGED <<engineVars, tableVars, handlerVars, reported, server>>

(* Fetching the rows fails, and rows.Err is never asked: nothing is found.  *)
FindByNameUnread(r) ==
  /\ Alive
  /\ request[r] = "find"
  /\ "unread" \in Failures
  /\ request' = [request EXCEPT ![r] = "insert"]
  /\ UNCHANGED <<engineVars, answer, tableVars, handlerVars, reported, server>>

(* The row is in; Publish is called and is about to send.                   *)
CreateOne(r) ==
  /\ Alive
  /\ request[r] = "insert"
  /\ products' = products \cup {r}
  /\ Engine!Publish(ProductCreated(r))
  /\ request' = [request EXCEPT ![r] = "send"]
  /\ UNCHANGED <<answer, stock, handlerVars, reported, server>>

(* Mutant: the error of the insert is swallowed.                            *)
CreateOneFailsSwallowed(r) ==
  /\ Alive
  /\ request[r] = "insert"
  /\ \/ "fail" \in Failures /\ UNCHANGED products
     \/ "lost" \in Failures /\ products' = products \cup {r}
  /\ Answer(r, "created")
  /\ UNCHANGED <<engineVars, stock, handlerVars, reported, server>>

(* An error of the statement, a refusal by a constraint of the schema among *)
(* them, is answered and nothing is published, be the row in or not.        *)
CreateOneFails(r) ==
  /\ Alive
  /\ request[r] = "insert"
  /\ \/ "fail" \in Failures /\ UNCHANGED products
     \/ "lost" \in Failures /\ products' = products \cup {r}
  /\ Answer(r, "error")
  /\ reported' = reported \cup {r}
  /\ UNCHANGED <<engineVars, stock, handlerVars, server>>

(* Publish returns once there was room on eventEngineCh, however late.      *)
PublishReturns(r) ==
  /\ Alive
  /\ request[r] = "send"
  /\ Engine!PublishSend(ProductCreated(r))
  /\ Answer(r, "created")
  /\ UNCHANGED <<tableVars, handlerVars, reported, server>>

-----------------------------------------------------------------------------
(* The two handlers: one event at a time, in the order of their addressCh.  *)

TakeEvent(h, step) ==
  /\ Alive
  /\ at[h] = "receive"
  /\ Engine!Receive(h)
  /\ work' = [work EXCEPT ![h] = Head(addressCh[h])[2]]
  /\ at' = [at EXCEPT ![h] = step]
  /\ UNCHANGED <<requestVars, tableVars, reported, server>>

Finish(h) ==
  /\ work' = [work EXCEPT ![h] = NoProduct]
  /\ at' = [at EXCEPT ![h] = "receive"]

(* Mutant: the event is handled a second time.                              *)
CreateInventoryAgain ==
  /\ Alive
  /\ at[inventory] = "insert"
  /\ stock' = [stock EXCEPT ![work[inventory]] = @ + 1]
  /\ Finish(inventory) \/ UNCHANGED handlerVars
  /\ UNCHANGED <<engineVars, requestVars, products, reported, server>>

(* productCreatedEventHandler                                               *)
CreateInventory ==
  /\ Alive
  /\ at[inventory] = "insert"
  /\ stock' = [stock EXCEPT ![work[inventory]] = @ + 1]
  /\ Finish(inventory)
  /\ UNCHANGED <<engineVars, requestVars, products, reported, server>>

(* Mutant: a failure is not published.                                      *)
CreateInventoryFailsSilently ==
  /\ Alive
  /\ at[inventory] = "insert"
  /\ \/ "fail" \in Failures /\ UNCHANGED stock
     \/ "lost" \in Failures
        /\ stock' = [stock EXCEPT ![work[inventory]] = @ + 1]
  /\ Finish(inventory)
  /\ UNCHANGED <<engineVars, requestVars, products, reported, server>>

CreateInventoryFails ==
  /\ Alive
  /\ at[inventory] = "insert"
  /\ \/ "fail" \in Failures /\ UNCHANGED stock
     \/ "lost" \in Failures
        /\ stock' = [stock EXCEPT ![work[inventory]] = @ + 1]
  /\ Engine!Publish(InventoryCreationFailed(work[inventory]))
  /\ at' = [at EXCEPT ![inventory] = "send"]
  /\ UNCHANGED <<requestVars, products, work, reported, server>>

PublishFailed ==
  /\ Alive
  /\ at[inventory] = "send"
  /\ Engine!PublishSend(InventoryCreationFailed(work[inventory]))
  /\ Finish(inventory)
  /\ UNCHANGED <<requestVars, tableVars, reported, server>>

PublishFailedPanics ==
  /\ Alive
  /\ at[inventory] = "send"
  /\ Engine!PublishPanic(InventoryCreationFailed(work[inventory]))
  /\ UNCHANGED <<requestVars, tableVars, handlerVars, reported, server>>

(* Mutant: the products of that name are deleted.                           *)
DeleteProductByName ==
  /\ Alive
  /\ at[product] = "delete"
  /\ products' = {p \in products : ProductName[p] # ProductName[work[product]]}
  /\ Finish(product)
  /\ UNCHANGED <<engineVars, requestVars, stock, reported, server>>

(* inventoryCreationFailedEventHandler                                      *)
DeleteProduct ==
  /\ Alive
  /\ at[product] = "delete"
  /\ products' = products \ {work[product]}
  /\ Finish(product)
  /\ UNCHANGED <<engineVars, requestVars, stock, reported, server>>

DeleteProductFails ==
  /\ Alive
  /\ at[product] = "delete"
  /\ \/ "fail" \in Failures /\ UNCHANGED products
     \/ "lost" \in Failures /\ products' = products \ {work[product]}
  /\ reported' = reported \cup {work[product]}
  /\ Finish(product)
  /\ UNCHANGED <<engineVars, requestVars, stock, server>>

(* Mutant: InternalSrvWG.Done is never called.                              *)
HandlerLingers(h) ==
  /\ Alive
  /\ at[h] = "receive"
  /\ h \in addressClosed
  /\ addressCh[h] = <<>>
  /\ UNCHANGED vars

(* Mutant: a for select on DoneCh in place of the range loop.               *)
HandlerReturnsOnDone(h) ==
  /\ Alive
  /\ at[h] = "receive"
  /\ doneCh
  /\ at' = [at EXCEPT ![h] = "done"]
  /\ UNCHANGED <<engineVars, requestVars, tableVars, work, reported, server>>

(* The range loop ends and InternalSrvWG.Done is called.                    *)
HandlerReturns(h) ==
  /\ Alive
  /\ at[h] = "receive"
  /\ h \in addressClosed
  /\ addressCh[h] = <<>>
  /\ at' = [at EXCEPT ![h] = "done"]
  /\ UNCHANGED <<engineVars, requestVars, tableVars, work, reported, server>>

-----------------------------------------------------------------------------
(* server.listenAndServe                                                    *)

RequestsDone == \A r \in Requests : request[r] \in {"new", "done"}

Signal ==
  /\ Alive
  /\ server = "up"
  /\ server' = "draining"
  /\ UNCHANGED <<engineVars, requestVars, tableVars, handlerVars, reported>>

(* srv.ListenAndServe returns an error: the group's context is cancelled,   *)
(* which shuts down as a signal does.                                       *)
ServeFails ==
  /\ Alive
  /\ server = "up"
  /\ server' = "failing"
  /\ UNCHANGED <<engineVars, requestVars, tableVars, handlerVars, reported>>

(* errGrp.Wait returns that error, or that srv.Shutdown gave up after 20    *)
(* seconds: log.Fatal.                                                      *)
Fatal ==
  /\ Alive
  /\ \/ server = "draining" /\ ~RequestsDone
     \/ server = "failing"
  /\ server' = "fatal"
  /\ UNCHANGED <<engineVars, requestVars, tableVars, handlerVars, reported>>

(* Mutant: srv.Close: requests in progress are not waited for.              *)
CloseDoneChAtOnce ==
  /\ Alive
  /\ server = "draining"
  /\ Engine!CloseDoneCh
  /\ server' = "waiting"
  /\ UNCHANGED <<requestVars, tableVars, handlerVars, reported>>

CloseDoneCh ==
  /\ Alive
  /\ server = "draining"
  /\ RequestsDone
  /\ Engine!CloseDoneCh
  /\ server' = "waiting"
  /\ UNCHANGED <<requestVars, tableVars, handlerVars, reported>>

(* internalSrvWG.Wait returns; DB.Close; os.Exit(0).                        *)
Exit ==
  /\ Alive
  /\ server = "waiting"
  /\ pc = "exit"
  /\ \A h \in Handlers : at[h] = "done"
  /\ server' = "exited"
  /\ UNCHANGED <<engineVars, requestVars, tableVars, handlerVars, reported>>

-----------------------------------------------------------------------------
ListenStep ==
  /\ Alive
  /\ Engine!Listen \/ Engine!BroadcastSend
  /\ UNCHANGED <<requestVars, tableVars, handlerVars, reported, server>>

CreateProduct(r) ==
  \/ FindByName(r)
  \/ FindByNameFails(r)
  \/ FindByNameUnread(r)
  \/ CreateOne(r)
  \/ CreateOneFails(r)
  \/ PublishReturns(r)

InventoryHandler ==
  \/ TakeEvent(inventory, "insert")
  \/ CreateInventory
  \/ CreateInventoryFails
  \/ PublishFailed
  \/ PublishFailedPanics
  \/ HandlerReturns(inventory)

ProductHandler ==
  \/ TakeEvent(product, "delete")
  \/ DeleteProduct
  \/ DeleteProductFails
  \/ HandlerReturns(product)

Shutdown ==
  \/ Fatal
  \/ CloseDoneCh
  \/ Exit

(* listen is blocked sending to the inventory handler, which is blocked     *)
(* publishing to listen: neither moves again.                               *)
CircularWait ==
  /\ at[inventory] = "send"
  /\ Len(engineCh) = EngineCap
  /\ targets # <<>>
  /\ Head(targets) = inventory
  /\ Len(addressCh[inventory]) = AddressCap

Terminating == (~Alive \/ CircularWait) /\ UNCHANGED vars

Next ==
  \/ \E r \in Requests : Accept(r) \/ CreateProduct(r)
  \/ InventoryHandler
  \/ ProductHandler
  \/ ListenStep
  \/ Signal
  \/ ServeFails
  \/ Shutdown
  \/ Terminating

Spec == Init /\ [][Next]_vars

(* The scheduler runs every goroutine, a statement sent to the database     *)
(* returns, and a request or a shutdown that has begun goes on.             *)
Fairness ==
  /\ \A r \in Requests : WF_vars(CreateProduct(r))
  /\ WF_vars(InventoryHandler)
  /\ WF_vars(ProductHandler)
  /\ WF_vars(ListenStep)
  /\ WF_vars(Shutdown)

FairSpec == Spec /\ Fairness

-----------------------------------------------------------------------------
(* Properties.                                                              *)

Orphan(p)  == p \in products /\ stock[p] = 0

EventInFlight(m) ==
  \/ m \in pending
  \/ m \in Range(engineCh)
  \/ m = event
  \/ \E h \in Handlers : m \in Range(addressCh[h])

InFlight(p) ==
  \/ EventInFlight(ProductCreated(p))
  \/ EventInFlight(InventoryCreationFailed(p))
  \/ \E h \in Handlers : work[h] = p

(* In a live process, and after a clean exit, a product without stock is    *)
(* one that an event or a handler is still about to stock or delete, or one *)
(* about which an error was answered or logged: the chain insert, publish,  *)
(* stock, publish, delete never drops a product in silence.                 *)
NoSilentOrphan ==
  (Alive \/ server = "exited") =>
    \A p \in Requests : Orphan(p) => InFlight(p) \/ p \in reported

(* "all internal go routines are done" (server.go:130): when the database   *)
(* is closed and the process exits, no event and no handler is left with    *)
(* work to do on it, and no client is left without an answer.               *)
CleanExit ==
  server = "exited" =>
    \A p \in Requests : ~InFlight(p) /\ (request[p] # "new" => answer[p] # "none")

(* Inserting the stock of p has reported an error.                          *)
StockRefused(p) == InventoryCreationFailed(p) \in published

(* A product is stocked at most once, and stock outlives its product only   *)
(* when the insert that put it there has reported an error.                 *)
StockHasProduct ==
  \A p \in Requests :
    stock[p] <= 1 /\ (stock[p] = 1 => p \in products \/ StockRefused(p))

Life(p) ==
  IF p \in products
  THEN IF StockRefused(p)
       THEN IF stock[p] = 0 THEN "refused" ELSE "doubtful"
       ELSE IF stock[p] = 0 THEN "pending" ELSE "visible"
  ELSE IF StockRefused(p) THEN "gone" ELSE "absent"

Shop == INSTANCE Catalogue WITH
          Products <- Requests,
          life     <- [p \in Requests |-> Life(p)]

(* The two features and the events between them keep what the shop promises *)
(* of a product: once customers can see it, nothing that is created, stocked*)
(* or deleted besides takes it away, only its own failure event, and a      *)
(* product that has gone never comes back.                                  *)
ShopSpec == Shop!Spec

(* The inductive invariant.  The two names keep their one subscriber each,  *)
(* and what left eventEngineCh has been broadcast to the one it is for;     *)
Routing ==
  /\ registered = EventNames
  /\ subs = [n \in EventNames |->
               IF n = "product.created" THEN <<inventory>> ELSE <<product>>]
  /\ Range(stream[inventory]) \subseteq CreatedEvents
  /\ Range(stream[product]) \subseteq FailedEvents
  /\ published \cap CreatedEvents
       \subseteq pending \cup Range(engineCh) \cup Range(stream[inventory])
  /\ published \cap FailedEvents
       \subseteq pending \cup Range(engineCh) \cup Range(stream[product])

(* a request inserts before it publishes, and returns before doneCh closes; *)
Requesting ==
  \A r \in Requests :
    /\ request[r] \in {"new", "find", "insert"} =>
         r \notin products /\ ProductCreated(r) \notin published
    /\ ProductCreated(r) \in pending <=> request[r] = "send"
    /\ r \in products /\ ProductCreated(r) \notin published => r \in reported
    /\ request[r] = "done" => answer[r] # "none"
    /\ server \in {"waiting", "exited"} => request[r] \in {"new", "done"}

(* a handler has a product in hand while it is not at its receive, and      *)
(* returns when listen has, with nothing left on its addressCh;             *)
Handling ==
  /\ at[inventory] \in {"receive", "insert", "send", "done"}
  /\ at[product] \in {"receive", "delete", "done"}
  /\ \A h \in Handlers :
       /\ work[h] = NoProduct <=> at[h] \in {"receive", "done"}
       /\ at[h] = "done" => pc = "exit" /\ addressCh[h] = <<>>
       /\ server = "exited" => at[h] = "done"

(* stocking begins with the event, once, and ends in stock or in a failure; *)
Inserting(p) == work[inventory] = p /\ at[inventory] = "insert"

Stocking ==
  \A p \in Requests :
    /\ stock[p] <= 1
    /\ (stock[p] = 1 \/ StockRefused(p) \/ work[inventory] = p) =>
         ProductCreated(p) \in Range(handled[inventory])
    /\ Inserting(p) => stock[p] = 0 /\ ~StockRefused(p)
    /\ ProductCreated(p) \in Range(handled[inventory]) =>
         Inserting(p) \/ stock[p] = 1 \/ StockRefused(p)
    /\ InventoryCreationFailed(p) \in pending <=>
         work[inventory] = p /\ at[inventory] = "send"

(* and only a failure takes a published product away, or is reported.       *)
Undoing ==
  \A p \in Requests :
    /\ work[product] = p =>
         InventoryCreationFailed(p) \in Range(handled[product])
    /\ ProductCreated(p) \in published /\ p \notin products => StockRefused(p)
    /\ InventoryCreationFailed(p) \in Range(handled[product]) =>
         work[product] = p \/ p \notin products \/ p \in reported

IInv ==
  /\ TypeOK
  /\ Engine!OnceInv
  /\ Routing
  /\ Requesting
  /\ Handling
  /\ Stocking
  /\ Undoing

(* A product without stock gets it, or goes, or is reported, unless the     *)
(* process ends or runs into the circular wait first.                       *)
Settles ==
  \A p \in Requests :
    Orphan(p) ~> (~Orphan(p) \/ p \in reported \/ ~Alive \/ CircularWait)

(* A shutdown that has begun ends the process, but for the circular wait.   *)
ShutdownEnds ==
  server \in {"draining", "failing"} ~> (~Alive \/ CircularWait)

(* "the event engine will close the addressCh" (handler_event.go:68-69), so *)
(* that a handler needs no other way to hear of the shutdown.               *)
AddressChsClosed == doneCh ~> (panicked \/ addressClosed = Handlers)

(* The wait group "used to wait for all internal go routines ... before     *)
(* shutting down the server" (server.go:40): none of them dies of a send on *)
(* a channel that another has already closed.                               *)
NoPanic == ~panicked
=============================================================================
