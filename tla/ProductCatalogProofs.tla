------------------------ MODULE ProductCatalogProofs ------------------------
(***************************************************************************)
(* Theorems about ProductCatalog, for any requests, names, failures and    *)
(* channel capacities.  What they need of the engine is cited from its own *)
(* theorems, instantiated as the engine itself is.                         *)
(***************************************************************************)
EXTENDS ProductCatalog, SequenceFacts, TLAPS

EngineProofs == INSTANCE EventEngineProofs WITH
                  Events      <- CreatedEvents \cup FailedEvents,
                  NameOf      <- [m \in CreatedEvents \cup FailedEvents |-> m[1]],
                  LateEvents  <- FailedEvents,
                  Subscribers <- Handlers

-----------------------------------------------------------------------------
(* The engine within the catalogue.                                         *)

(* The engine's assumption, of the constants it is instantiated with.       *)
LEMMA EngineConstants ==
  /\ [m \in CreatedEvents \cup FailedEvents |-> m[1]]
       \in [CreatedEvents \cup FailedEvents -> EventNames]
  /\ FailedEvents \subseteq CreatedEvents \cup FailedEvents
  /\ SubscribeTo \in [Handlers -> SUBSET EventNames]
  /\ EngineCap \in Nat \ {0}
  /\ AddressCap \in Nat \ {0}
  /\ MaxPartitionSize \in Nat \ {0, 1}
  /\ NoEvent \notin CreatedEvents \cup FailedEvents
<1>1. \A m \in CreatedEvents \cup FailedEvents : m[1] \in EventNames
  BY DEF CreatedEvents, FailedEvents, EventNames, ProductCreated,
         InventoryCreationFailed
<1>2. SubscribeTo \in [Handlers -> SUBSET EventNames]
  BY DEF SubscribeTo, EventNames
<1> QED BY <1>1, <1>2, CatalogAssumption

(* Events of distinct products or of distinct names are distinct.           *)
LEMMA EventsDiffer ==
  /\ \A p, q \in Requests : ProductCreated(p) = ProductCreated(q) => p = q
  /\ \A p, q \in Requests :
       InventoryCreationFailed(p) = InventoryCreationFailed(q) => p = q
  /\ \A p, q : ProductCreated(p) # InventoryCreationFailed(q)
  /\ CreatedEvents \cap FailedEvents = {}
  /\ \A p : ProductCreated(p)[2] = p /\ InventoryCreationFailed(p)[2] = p
  /\ \A p \in Requests : /\ ProductCreated(p) \in CreatedEvents
                         /\ InventoryCreationFailed(p) \in FailedEvents
BY DEF ProductCreated, InventoryCreationFailed, CreatedEvents, FailedEvents

(* Both instances of the engine's module say the same.                      *)
LEMMA SameOnceInv ==
  /\ Engine!OnceInv <=> EngineProofs!OnceInv
  /\ Engine!OnceInv' <=> EngineProofs!OnceInv'
BY Zenon
  DEF Engine!OnceInv, EngineProofs!OnceInv, Engine!IndInv, EngineProofs!IndInv,
      Engine!TypeOK, EngineProofs!TypeOK, Engine!Busy, EngineProofs!Busy,
      Engine!Phases, EngineProofs!Phases, Engine!Accepted,
      EngineProofs!Accepted, Engine!Wired, EngineProofs!Wired, Engine!Owing,
      EngineProofs!Owing, Engine!InOrder, EngineProofs!InOrder, Engine!Unsent,
      EngineProofs!Unsent, Engine!SplitFanout, EngineProofs!SplitFanout,
      Engine!Split, EngineProofs!Split, Engine!PartitionSize,
      EngineProofs!PartitionSize, Engine!Streams, EngineProofs!Streams,
      Engine!Shares, EngineProofs!Shares, Engine!ExactlyOnce,
      EngineProofs!ExactlyOnce, Engine!Owed, EngineProofs!Owed, Engine!Range,
      EngineProofs!Range, Engine!IsInjective, EngineProofs!IsInjective

LEMMA SamePublish ==
  ASSUME NEW m
  PROVE  /\ Engine!Publish(m) => EngineProofs!Publish(m)
         /\ Engine!PublishSend(m) => EngineProofs!PublishSend(m)
         /\ Engine!PublishPanic(m) => EngineProofs!PublishPanic(m)
BY Zenon
  DEF Engine!Publish, EngineProofs!Publish, Engine!PublishSend,
      EngineProofs!PublishSend, Engine!PublishPanic, EngineProofs!PublishPanic,
      Engine!wiringVars, EngineProofs!wiringVars, Engine!publishVars,
      EngineProofs!publishVars, Engine!listenVars, EngineProofs!listenVars

LEMMA SameReceive ==
  ASSUME NEW h
  PROVE  Engine!Receive(h) => EngineProofs!Receive(h)
BY Zenon
  DEF Engine!Receive, EngineProofs!Receive, Engine!wiringVars,
      EngineProofs!wiringVars, Engine!publishVars, EngineProofs!publishVars,
      Engine!listenVars, EngineProofs!listenVars

LEMMA SameCloseDoneCh == Engine!CloseDoneCh => EngineProofs!CloseDoneCh
BY Zenon
  DEF Engine!CloseDoneCh, EngineProofs!CloseDoneCh, Engine!wiringVars,
      EngineProofs!wiringVars, Engine!publishVars, EngineProofs!publishVars,
      Engine!listenVars, EngineProofs!listenVars

LEMMA SameBroadcast ==
  /\ Engine!Take => EngineProofs!Take
  /\ Engine!BroadcastSend => EngineProofs!BroadcastSend
BY Zenon
  DEF Engine!Take, EngineProofs!Take, Engine!BroadcastSend,
      EngineProofs!BroadcastSend, Engine!Inline, EngineProofs!Inline,
      Engine!Offloaded, EngineProofs!Offloaded, Engine!Split,
      EngineProofs!Split, Engine!PartitionSize, EngineProofs!PartitionSize,
      Engine!Range, EngineProofs!Range, Engine!wiringVars,
      EngineProofs!wiringVars, Engine!publishVars, EngineProofs!publishVars,
      Engine!listenVars, EngineProofs!listenVars

LEMMA SameListen == Engine!Listen => EngineProofs!Listen
BY Zenon, SameBroadcast
  DEF Engine!Listen, EngineProofs!Listen, Engine!ListenReceive,
      EngineProofs!ListenReceive, Engine!ListenDone, EngineProofs!ListenDone,
      Engine!ListenCloseEngineCh, EngineProofs!ListenCloseEngineCh,
      Engine!DrainReceive, EngineProofs!DrainReceive,
      Engine!ShutdownSubscribersAddressCh,
      EngineProofs!ShutdownSubscribersAddressCh, Engine!ClosedTwice,
      EngineProofs!ClosedTwice, Engine!Subscribed, EngineProofs!Subscribed,
      Engine!Range, EngineProofs!Range, Engine!wiringVars,
      EngineProofs!wiringVars, Engine!publishVars, EngineProofs!publishVars,
      Engine!listenVars, EngineProofs!listenVars

(* The product in a handler's hand, and the failure it would publish.       *)
LEMMA InHand ==
  ASSUME TypeOK, Handling
  PROVE  /\ at[inventory] \in {"insert", "send"} =>
              /\ work[inventory] \in Requests
              /\ InventoryCreationFailed(work[inventory]) \in FailedEvents
         /\ at[product] = "delete" => work[product] \in Requests
<1>1. \A h \in Handlers : work[h] \in Requests \cup {NoProduct}
  BY DEF TypeOK
<1>2. inventory \in Handlers /\ product \in Handlers
  BY DEF Handlers
<1> QED BY <1>1, <1>2, EventsDiffer DEF Handling

(* Every step of the catalogue is a step of the engine, or none.            *)
LEMMA EngineSteps ==
  ASSUME TypeOK, Handling, [Next]_vars
  PROVE  [EngineProofs!Next]_(EngineProofs!vars)
<1> SUFFICES EngineProofs!Next \/ UNCHANGED engineVars
  BY DEF engineVars, EngineProofs!vars, EngineProofs!wiringVars,
         EngineProofs!publishVars, EngineProofs!listenVars
<1>1. ASSUME NEW m \in CreatedEvents \cup FailedEvents,
             Engine!Publish(m) \/ Engine!PublishSend(m) \/ Engine!PublishPanic(m)
      PROVE  EngineProofs!Next
  BY Zenon, <1>1, SamePublish DEF EngineProofs!Next
<1>2. ASSUME NEW h \in Handlers, Engine!Receive(h) PROVE EngineProofs!Next
  BY Zenon, <1>2, SameReceive DEF EngineProofs!Next
<1>3. Engine!CloseDoneCh => EngineProofs!Next
  BY Zenon, SameCloseDoneCh DEF EngineProofs!Next
<1>4. Engine!Listen \/ Engine!BroadcastSend => EngineProofs!Next
  BY Zenon, SameListen, SameBroadcast DEF EngineProofs!Next
<1>5. ASSUME NEW r \in Requests, Accept(r) \/ CreateProduct(r)
      PROVE  EngineProofs!Next \/ UNCHANGED engineVars
  <2>1. ProductCreated(r) \in CreatedEvents \cup FailedEvents
    BY EventsDiffer
  <2> QED BY <1>1, <1>5, <2>1
          DEF Accept, CreateProduct, FindByName, FindByNameFails,
              FindByNameUnread, CreateOne, CreateOneFails, PublishReturns
<1>6. ASSUME InventoryHandler
      PROVE  EngineProofs!Next \/ UNCHANGED engineVars
  <2>1. inventory \in Handlers
    BY DEF Handlers
  <2>2. at[inventory] \in {"insert", "send"} =>
          InventoryCreationFailed(work[inventory]) \in CreatedEvents \cup FailedEvents
    BY InHand
  <2> QED BY <1>1, <1>2, <1>6, <2>1, <2>2
          DEF InventoryHandler, TakeEvent, CreateInventory, CreateInventoryFails,
              PublishFailed, PublishFailedPanics, HandlerReturns
<1>7. ASSUME ProductHandler
      PROVE  EngineProofs!Next \/ UNCHANGED engineVars
  <2>1. product \in Handlers
    BY DEF Handlers
  <2> QED BY <1>2, <1>7, <2>1
          DEF ProductHandler, TakeEvent, DeleteProduct, DeleteProductFails,
              HandlerReturns
<1>8. Signal \/ ServeFails \/ Shutdown => EngineProofs!Next \/ UNCHANGED engineVars
  BY <1>3 DEF Signal, ServeFails, Shutdown, Fatal, CloseDoneCh, Exit
<1>9. ListenStep => EngineProofs!Next
  BY <1>4 DEF ListenStep
<1>10. Terminating \/ UNCHANGED vars => UNCHANGED engineVars
  BY DEF Terminating, vars
<1> QED BY <1>5, <1>6, <1>7, <1>8, <1>9, <1>10 DEF Next

(* What the engine maintains by itself, it maintains in the catalogue.      *)
LEMMA NextOnceInv ==
  ASSUME TypeOK, Handling, Engine!OnceInv, [Next]_vars
  PROVE  Engine!OnceInv'
<1>1. EngineProofs!OnceInv
  BY SameOnceInv
<1>2. EngineProofs!OnceInv'
  BY <1>1, EngineConstants, EngineSteps, EngineProofs!NextOnceInv
<1> QED BY <1>2, SameOnceInv

(* With one subscriber of each name no broadcast is split, no helper owes   *)
(* anything, and what was broadcast to a handler is handled, in its channel *)
(* or in the hands of listen.                                               *)
LEMMA EngineFacts ==
  ASSUME Engine!OnceInv, Routing
  PROVE  /\ engineCh \in Seq(CreatedEvents \cup FailedEvents)
         /\ IsInjective(engineCh)
         /\ Range(engineCh) \subseteq published
         /\ event = NoEvent <=> targets = <<>>
         /\ event \in CreatedEvents \cup FailedEvents \cup {NoEvent}
         /\ pc = "exit" => event = NoEvent /\ engineCh = <<>>
         /\ addressClosed # {} => pc = "exit"
         /\ \A h \in Handlers :
              /\ stream[h] \in Seq(CreatedEvents \cup FailedEvents)
              /\ handled[h] \in Seq(CreatedEvents \cup FailedEvents)
              /\ addressCh[h] \in Seq(CreatedEvents \cup FailedEvents)
              /\ Range(stream[h]) \subseteq published \ (pending \cup Range(engineCh))
              /\ IsInjective(addressCh[h])
              /\ Range(handled[h]) \cap Range(addressCh[h]) = {}
              /\ Range(stream[h]) = Range(handled[h]) \cup Range(addressCh[h])
                                      \cup (IF h \in Range(targets) THEN {event} ELSE {})
<1> DEFINE Events == CreatedEvents \cup FailedEvents
<1>1. /\ engineCh \in Seq(Events)
      /\ Range(engineCh) \subseteq published
      /\ event = NoEvent <=> targets = <<>>
      /\ event \in Events \cup {NoEvent}
      /\ pc = "exit" => event = NoEvent /\ engineCh = <<>>
      /\ addressClosed # {} => pc = "exit"
  BY DEF Engine!OnceInv, Engine!IndInv, Engine!TypeOK, Engine!Busy, Engine!Phases,
         Engine!Accepted, Engine!Range, Range
<1>2. IsInjective(engineCh)
  BY DEF Engine!OnceInv, Engine!IndInv, Engine!Accepted, Engine!IsInjective, IsInjective
<1>3. ~Engine!SplitFanout
  <2>1. \A n \in EventNames : Len(subs[n]) = 1
    BY DEF Routing
  <2>2. (1 \div 2) + 1 = 1
    OBVIOUS
  <2>3. \A n \in EventNames : Engine!PartitionSize(subs[n]) = 1
    BY Zenon, <2>1, <2>2 DEF Engine!PartitionSize
  <2>4. ~(1 >= MaxPartitionSize)
    BY CatalogAssumption
  <2> QED BY <2>3, <2>4 DEF Engine!SplitFanout, Engine!Split
<1>4. \A m \in Events : helper[m] = <<>>
  BY <1>3 DEF Engine!OnceInv, Engine!IndInv, Engine!Owing
<1>5. ASSUME NEW h \in Handlers
      PROVE  /\ stream[h] \in Seq(Events)
             /\ handled[h] \in Seq(Events)
             /\ addressCh[h] \in Seq(Events)
             /\ Range(stream[h]) \subseteq published \ (pending \cup Range(engineCh))
             /\ IsInjective(addressCh[h])
             /\ Range(handled[h]) \cap Range(addressCh[h]) = {}
             /\ Range(stream[h]) = Range(handled[h]) \cup Range(addressCh[h])
                                     \cup (IF h \in Range(targets) THEN {event} ELSE {})
  <2>1. /\ stream[h] \in Seq(Events)
        /\ handled[h] \in Seq(Events)
        /\ addressCh[h] \in Seq(Events)
    BY DEF Engine!OnceInv, Engine!IndInv, Engine!TypeOK
  <2>2. Range(stream[h]) \subseteq published \ (pending \cup Range(engineCh))
    BY DEF Engine!OnceInv, Engine!Streams, Engine!Range, Range
  <2> DEFINE got == handled[h] \o addressCh[h]
  <2>3. IsInjective(got) /\ Range(got) \cup Engine!Owed(h) = Range(stream[h])
    BY Zenon DEF Engine!OnceInv, Engine!ExactlyOnce, Engine!Range, Range, IsInjective
  <2>4. /\ Range(got) = Range(handled[h]) \cup Range(addressCh[h])
        /\ IsInjective(addressCh[h])
        /\ Range(handled[h]) \cap Range(addressCh[h]) = {}
    BY <2>1, <2>3, RangeConcat, ConcatInjective
  <2>5. Engine!Owed(h) = IF h \in Range(targets) THEN {event} ELSE {}
    BY <1>4 DEF Engine!Owed, Engine!Range, Range
  <2> QED BY <2>1, <2>2, <2>3, <2>4, <2>5
<1> QED BY <1>1, <1>2, <1>5

-----------------------------------------------------------------------------
(* Which steps touch what.                                                  *)

LEMMA RoutingSteps ==
  [Next]_vars => \/ \E r \in Requests : CreateOne(r) \/ PublishReturns(r)
                 \/ CreateInventoryFails
                 \/ PublishFailed
                 \/ Engine!Take
                 \/ UNCHANGED <<registered, subs, stream, published, pending, engineCh>>
BY DEF Next, CreateProduct, InventoryHandler, ProductHandler, Shutdown,
       Terminating, Accept, FindByName, FindByNameFails, FindByNameUnread,
       CreateOneFails, TakeEvent, CreateInventory, PublishFailedPanics,
       DeleteProduct, DeleteProductFails, HandlerReturns, Signal, ServeFails,
       Fatal, CloseDoneCh, Exit, ListenStep, vars, engineVars,
       Engine!PublishPanic, Engine!CloseDoneCh, Engine!Receive, Engine!Listen,
       Engine!ListenReceive, Engine!ListenDone, Engine!ListenCloseEngineCh,
       Engine!DrainReceive, Engine!ShutdownSubscribersAddressCh,
       Engine!BroadcastSend, Engine!wiringVars, Engine!publishVars,
       Engine!listenVars

(* What a step of listen leaves alone.                                      *)
LEMMA ListenKeeps ==
  ListenStep => /\ UNCHANGED <<published, pending, handled, registered, subs>>
                /\ UNCHANGED <<request, answer, products, stock, at, work, reported>>
                /\ UNCHANGED server
BY DEF ListenStep, requestVars, tableVars, handlerVars, Engine!Listen,
       Engine!ListenReceive, Engine!ListenDone, Engine!ListenCloseEngineCh,
       Engine!DrainReceive, Engine!ShutdownSubscribersAddressCh, Engine!Take,
       Engine!BroadcastSend, Engine!wiringVars, Engine!publishVars,
       Engine!listenVars

-----------------------------------------------------------------------------
(* The parts of the inductive invariant, one by one.                        *)

(* An event leaves eventEngineCh for the one handler that it is for.        *)
LEMMA NextRouting ==
  ASSUME TypeOK, Engine!OnceInv, Routing, Handling, [Next]_vars
  PROVE  Routing'
<1> USE DEF Engine!wiringVars, Engine!publishVars, Engine!listenVars
<1> DEFINE Events == CreatedEvents \cup FailedEvents
<1>1. ASSUME NEW m \in Events, Engine!Publish(m) PROVE Routing'
  BY <1>1 DEF Routing, Engine!Publish
<1>2. ASSUME NEW m \in Events, Engine!PublishSend(m) PROVE Routing'
  <2>1. Range(Append(engineCh, m)) = Range(engineCh) \cup {m}
    BY EngineFacts, RangeAppend
  <2> QED BY <1>2, <2>1 DEF Routing, Engine!PublishSend
<1>3. ASSUME Engine!Take PROVE Routing'
  <2> DEFINE m == Head(engineCh)
  <2>1. m \in Events /\ Range(engineCh) = {m} \cup Range(engineCh')
    BY <1>3, EngineFacts, HeadTail, RangeHeadTail DEF Engine!Take
  <2>2. \A h \in Handlers : stream[h] \in Seq(Events)
    BY EngineFacts
  <2>3. \A h \in Handlers :
          stream'[h] = IF h \in Range(subs[m[1]]) THEN Append(stream[h], m)
                                                  ELSE stream[h]
    BY <1>3, <2>1 DEF Engine!Take, Engine!Range, Range
  <2>4. Range(<<inventory>>) = {inventory} /\ Range(<<product>>) = {product}
    BY RangeOne
  <2>5. \A h \in Handlers : Range(Append(stream[h], m)) = Range(stream[h]) \cup {m}
    BY <2>1, <2>2, RangeAppend
  <2>6. CASE m \in CreatedEvents
    <3>1. m[1] = "product.created"
      BY <2>6 DEF CreatedEvents, ProductCreated
    <3>2. subs[m[1]] = <<inventory>>
      BY <3>1 DEF Routing, EventNames
    <3>3. /\ Range(stream'[inventory]) = Range(stream[inventory]) \cup {m}
          /\ stream'[product] = stream[product]
      BY <2>3, <2>4, <2>5, <3>2 DEF Handlers, inventory, product
    <3>4. m \notin FailedEvents /\ UNCHANGED <<registered, subs, published, pending>>
      BY <1>3, <2>6, EventsDiffer DEF Engine!Take
    <3> QED BY <2>1, <2>6, <3>3, <3>4 DEF Routing
  <2>7. CASE m \in FailedEvents
    <3>1. m[1] = "inventory.creation.failed"
      BY <2>7 DEF FailedEvents, InventoryCreationFailed
    <3>2. subs[m[1]] = <<product>>
      BY <3>1 DEF Routing, EventNames
    <3>3. /\ Range(stream'[product]) = Range(stream[product]) \cup {m}
          /\ stream'[inventory] = stream[inventory]
      BY <2>3, <2>4, <2>5, <3>2 DEF Handlers, inventory, product
    <3>4. m \notin CreatedEvents /\ UNCHANGED <<registered, subs, published, pending>>
      BY <1>3, <2>7, EventsDiffer DEF Engine!Take
    <3> QED BY <2>1, <2>7, <3>3, <3>4 DEF Routing
  <2> QED BY <2>1, <2>6, <2>7
<1>4. ASSUME NEW r \in Requests, CreateOne(r) \/ PublishReturns(r) PROVE Routing'
  BY <1>1, <1>2, <1>4, EventsDiffer DEF CreateOne, PublishReturns
<1>5. ASSUME CreateInventoryFails \/ PublishFailed PROVE Routing'
  BY <1>1, <1>2, <1>5, InHand DEF CreateInventoryFails, PublishFailed
<1>6. CASE UNCHANGED <<registered, subs, stream, published, pending, engineCh>>
  BY <1>6 DEF Routing
<1> QED BY <1>3, <1>4, <1>5, <1>6, RoutingSteps

(* The types of the catalogue's own variables.                              *)
LEMMA NextTypeOK ==
  ASSUME TypeOK, Engine!OnceInv', Routing, Engine!OnceInv, Handling, [Next]_vars
  PROVE  TypeOK'
<1> USE DEF TypeOK, requestVars, tableVars, handlerVars
<1> DEFINE Typed ==
             /\ request \in [Requests -> {"new", "find", "insert", "send", "done"}]
             /\ answer \in [Requests -> {"none", "created", "conflict", "error"}]
             /\ products \subseteq Requests
             /\ stock \in [Requests -> Nat]
             /\ at \in [Handlers -> {"receive", "insert", "send", "delete", "done"}]
             /\ work \in [Handlers -> Requests \cup {NoProduct}]
             /\ reported \subseteq Requests
             /\ server \in {"up", "draining", "failing", "waiting", "exited", "fatal"}
<1>1. ASSUME NEW r \in Requests, Accept(r) \/ CreateProduct(r) PROVE Typed'
  BY <1>1 DEF Accept, CreateProduct, FindByName, FindByNameFails,
              FindByNameUnread, CreateOne, CreateOneFails, PublishReturns, Answer
<1>2. ASSUME NEW h \in Handlers, NEW step \in {"insert", "delete"}, TakeEvent(h, step)
      PROVE  Typed'
  <2>1. Head(addressCh[h]) \in CreatedEvents \cup FailedEvents
    BY <1>2, EngineFacts, HeadTail DEF TakeEvent, Engine!Receive
  <2>2. Head(addressCh[h])[2] \in Requests
    BY <2>1, EventsDiffer DEF CreatedEvents, FailedEvents
  <2> QED BY <1>2, <2>2 DEF TakeEvent
<1>3. ASSUME NEW h \in Handlers, Finish(h) \/ HandlerReturns(h)
      PROVE  /\ at' \in [Handlers -> {"receive", "insert", "send", "delete", "done"}]
             /\ work' \in [Handlers -> Requests \cup {NoProduct}]
  BY <1>3 DEF Finish, HandlerReturns
<1>4. /\ inventory \in Handlers
      /\ product \in Handlers
      /\ at[inventory] \in {"insert", "send"} => work[inventory] \in Requests
      /\ at[product] = "delete" => work[product] \in Requests
  BY InHand DEF Handlers
<1>5. ASSUME InventoryHandler PROVE Typed'
  BY SMTT(60), <1>2, <1>3, <1>4, <1>5
  DEF InventoryHandler, CreateInventory, CreateInventoryFails, PublishFailed,
      PublishFailedPanics, HandlerReturns
<1>6. ASSUME ProductHandler PROVE Typed'
  BY <1>2, <1>3, <1>4, <1>6
  DEF ProductHandler, DeleteProduct, DeleteProductFails, HandlerReturns
<1>7. ASSUME Signal \/ ServeFails \/ Shutdown PROVE Typed'
  BY <1>7 DEF Signal, ServeFails, Shutdown, Fatal, CloseDoneCh, Exit
<1>8. ASSUME ListenStep PROVE Typed'
  BY <1>8 DEF ListenStep
<1>9. ASSUME Terminating \/ UNCHANGED vars PROVE Typed'
  BY <1>9 DEF Terminating, vars
<1>10. Typed'
  BY <1>1, <1>5, <1>6, <1>7, <1>8, <1>9 DEF Next
<1>11. Engine!TypeOK'
  BY DEF Engine!OnceInv, Engine!IndInv
<1> QED BY <1>10, <1>11

(* A request's row, its event and its answer come in this order, and all of *)
(* them before doneCh is closed.                                            *)
LEMMA NextRequesting ==
  ASSUME TypeOK, Requesting, Handling, [Next]_vars
  PROVE  Requesting'
<1> USE DEF requestVars, tableVars, handlerVars, engineVars, Engine!wiringVars,
            Engine!publishVars, Engine!listenVars, Requesting, TypeOK
<1>1. ASSUME NEW r \in Requests, Accept(r) PROVE Requesting'
  BY <1>1 DEF Accept
<1>2. ASSUME NEW r \in Requests,
             FindByName(r) \/ FindByNameFails(r) \/ FindByNameUnread(r)
      PROVE  Requesting'
  BY <1>2 DEF FindByName, FindByNameFails, FindByNameUnread, Answer
<1>3. ASSUME NEW r \in Requests, CreateOne(r) PROVE Requesting'
  BY <1>3, EventsDiffer DEF CreateOne, Engine!Publish
<1>4. ASSUME NEW r \in Requests, CreateOneFails(r) PROVE Requesting'
  BY <1>4 DEF CreateOneFails, Answer
<1>5. ASSUME NEW r \in Requests, PublishReturns(r) PROVE Requesting'
  BY <1>5, EventsDiffer DEF PublishReturns, Engine!PublishSend, Answer
<1>6. ASSUME NEW h \in Handlers, NEW step, TakeEvent(h, step) PROVE Requesting'
  BY <1>6 DEF TakeEvent, Engine!Receive
<1>7. ASSUME CreateInventory PROVE Requesting'
  BY <1>7 DEF CreateInventory
<1>8. ASSUME CreateInventoryFails PROVE Requesting'
  BY <1>8, EventsDiffer DEF CreateInventoryFails, Engine!Publish
<1>9. ASSUME PublishFailed PROVE Requesting'
  BY <1>9, EventsDiffer DEF PublishFailed, Engine!PublishSend
<1>10. ASSUME PublishFailedPanics PROVE Requesting'
  BY <1>10 DEF PublishFailedPanics, Engine!PublishPanic
<1>11. ASSUME DeleteProduct \/ DeleteProductFails PROVE Requesting'
  BY <1>11 DEF DeleteProduct, DeleteProductFails
<1>12. ASSUME NEW h \in Handlers, HandlerReturns(h) PROVE Requesting'
  BY <1>12 DEF HandlerReturns
<1>13. ASSUME Signal \/ ServeFails \/ Fatal \/ Exit PROVE Requesting'
  BY <1>13 DEF Signal, ServeFails, Fatal, Exit
<1>14. ASSUME CloseDoneCh PROVE Requesting'
  BY <1>14 DEF CloseDoneCh, RequestsDone, Engine!CloseDoneCh
<1>15. ASSUME ListenStep PROVE Requesting'
  BY <1>15, ListenKeeps
<1>16. ASSUME Terminating \/ UNCHANGED vars PROVE Requesting'
  BY <1>16 DEF Terminating, vars
<1>17. inventory \in Handlers /\ product \in Handlers
  BY DEF Handlers
<1> QED
  BY <1>1, <1>2, <1>3, <1>4, <1>5, <1>6, <1>7, <1>8, <1>9, <1>10, <1>11, <1>12,
     <1>13, <1>14, <1>15, <1>16, <1>17
  DEF Next, CreateProduct, InventoryHandler, ProductHandler, Shutdown

(* A handler has a product in hand between its receive and the next one.    *)
LEMMA NextHandling ==
  ASSUME TypeOK, Engine!OnceInv, Routing, Handling, [Next]_vars
  PROVE  Handling'
<1> USE DEF requestVars, tableVars, handlerVars, engineVars, Engine!wiringVars,
            Engine!publishVars, Engine!listenVars
<1>0. /\ inventory \in Handlers /\ product \in Handlers /\ inventory # product
      /\ Handlers = {inventory, product}
      /\ at \in [Handlers -> {"receive", "insert", "send", "delete", "done"}]
      /\ work \in [Handlers -> Requests \cup {NoProduct}]
      /\ NoProduct \notin Requests
      /\ event = NoEvent <=> targets = <<>>
      /\ pc = "exit" => event = NoEvent /\ engineCh = <<>>
      /\ addressClosed # {} => pc = "exit"
  BY EngineFacts, CatalogAssumption DEF Handlers, inventory, product, TypeOK
<1>1. ASSUME NEW h \in Handlers, NEW step, TakeEvent(h, step),
             step = IF h = inventory THEN "insert" ELSE "delete"
      PROVE  Handling'
  <2>1. Head(addressCh[h]) \in CreatedEvents \cup FailedEvents
    BY <1>1, EngineFacts, HeadTail DEF TakeEvent, Engine!Receive
  <2>2. Head(addressCh[h])[2] \in Requests
    BY <2>1, EventsDiffer DEF CreatedEvents, FailedEvents
  <2>3. /\ at' = [at EXCEPT ![h] = step]
        /\ work' = [work EXCEPT ![h] = Head(addressCh[h])[2]]
        /\ UNCHANGED <<pc, server>>
        /\ Alive
    BY <1>1 DEF TakeEvent, Engine!Receive
  <2>4. \A k \in Handlers : k # h => addressCh'[k] = addressCh[k]
    BY <1>1 DEF TakeEvent, Engine!Receive, TypeOK, Engine!TypeOK
  <2>5. \A k \in Handlers : /\ at'[k] = IF k = h THEN step ELSE at[k]
                            /\ work'[k] = IF k = h THEN Head(addressCh[h])[2] ELSE work[k]
    BY <1>0, <2>3
  <2> QED BY <1>0, <1>1, <2>2, <2>3, <2>4, <2>5 DEF Handling, Alive
<1>2. ASSUME NEW h \in Handlers, Finish(h), Alive, at[h] # "done",
             UNCHANGED <<pc, addressCh, server>>
      PROVE  Handling'
  BY <1>0, <1>2 DEF Finish, Handling, Alive
<1>3. ASSUME CreateInventory PROVE Handling'
  BY <1>0, <1>2, <1>3 DEF CreateInventory
<1>4. ASSUME CreateInventoryFails PROVE Handling'
  BY <1>0, <1>4 DEF CreateInventoryFails, Engine!Publish, Handling, Alive
<1>5. ASSUME PublishFailed PROVE Handling'
  BY <1>0, <1>2, <1>5 DEF PublishFailed, Engine!PublishSend
<1>6. ASSUME DeleteProduct \/ DeleteProductFails PROVE Handling'
  BY <1>0, <1>2, <1>6 DEF DeleteProduct, DeleteProductFails
<1>7. ASSUME NEW h \in Handlers, HandlerReturns(h) PROVE Handling'
  BY <1>0, <1>7 DEF HandlerReturns, Handling, Alive
<1>8. ASSUME NEW r \in Requests, Accept(r) \/ CreateProduct(r) PROVE Handling'
  BY <1>8
  DEF Accept, CreateProduct, FindByName, FindByNameFails, FindByNameUnread,
      CreateOne, CreateOneFails, PublishReturns, Engine!Publish,
      Engine!PublishSend, Handling
<1>9. ASSUME PublishFailedPanics PROVE Handling'
  BY <1>9 DEF PublishFailedPanics, Engine!PublishPanic, Handling
<1>10. ASSUME Signal \/ ServeFails \/ Shutdown PROVE Handling'
  BY <1>10 DEF Signal, ServeFails, Shutdown, Fatal, CloseDoneCh, Exit,
               Engine!CloseDoneCh, Handling, Alive
<1>11. ASSUME ListenStep PROVE Handling'
  <2>1. UNCHANGED <<at, work, server>>
    BY <1>11, ListenKeeps
  <2>2. CASE \E h \in Handlers : at[h] = "done"
    <3>1. pc = "exit" /\ event = NoEvent /\ targets = <<>>
      BY <1>0, <2>2 DEF Handling
    <3> QED BY <1>11, <3>1
            DEF ListenStep, Engine!Listen, Engine!ListenReceive, Engine!ListenDone,
                Engine!ListenCloseEngineCh, Engine!DrainReceive,
                Engine!ShutdownSubscribersAddressCh, Engine!BroadcastSend
  <2>3. CASE ~\E h \in Handlers : at[h] = "done"
    BY <2>1, <2>3 DEF Handling
  <2> QED BY <2>2, <2>3
<1>12. ASSUME Terminating \/ UNCHANGED vars PROVE Handling'
  BY <1>12 DEF Terminating, vars, Handling
<1> QED
  BY <1>0, <1>1, <1>3, <1>4, <1>5, <1>6, <1>7, <1>8, <1>9, <1>10, <1>11, <1>12
  DEF Next, InventoryHandler, ProductHandler

(* The event a handler takes is of its own kind and new to it.              *)
LEMMA TakenEvent ==
  ASSUME TypeOK, Engine!OnceInv, Routing, NEW h \in Handlers, Engine!Receive(h),
         NEW m, m = Head(addressCh[h])
  PROVE  /\ m \in IF h = inventory THEN CreatedEvents ELSE FailedEvents
         /\ m \notin Range(handled[h])
         /\ Range(handled'[h]) = Range(handled[h]) \cup {m}
         /\ \A k \in Handlers : k # h => handled'[k] = handled[k]
         /\ UNCHANGED <<published, pending>>
<1> DEFINE Events == CreatedEvents \cup FailedEvents
<1>1. /\ addressCh[h] \in Seq(Events) /\ addressCh[h] # <<>>
      /\ handled[h] \in Seq(Events)
      /\ Range(handled[h]) \cap Range(addressCh[h]) = {}
      /\ Range(addressCh[h]) \subseteq Range(stream[h])
  BY EngineFacts DEF Engine!Receive
<1>2. m \in Events /\ m \in Range(addressCh[h])
  BY <1>1, HeadTail, RangeHeadTail
<1>3. handled' = [handled EXCEPT ![h] = Append(@, m)]
  BY DEF Engine!Receive
<1>4. handled'[h] = Append(handled[h], m) /\ \A k \in Handlers : k # h => handled'[k] = handled[k]
  BY <1>3 DEF TypeOK, Engine!TypeOK
<1>5. Range(handled'[h]) = Range(handled[h]) \cup {m}
  BY <1>1, <1>2, <1>4, RangeAppend
<1>6. m \in IF h = inventory THEN CreatedEvents ELSE FailedEvents
  BY <1>1, <1>2 DEF Routing, Handlers
<1> QED BY <1>1, <1>2, <1>4, <1>5, <1>6 DEF Engine!Receive, Engine!publishVars

LEMMA HandlerSteps ==
  [Next]_vars => \/ \E r \in Requests : CreateOne(r) \/ PublishReturns(r)
                 \/ TakeEvent(inventory, "insert")
                 \/ TakeEvent(product, "delete")
                 \/ CreateInventory
                 \/ CreateInventoryFails
                 \/ PublishFailed
                 \/ DeleteProduct
                 \/ DeleteProductFails
                 \/ \E h \in Handlers : HandlerReturns(h)
                 \/ UNCHANGED <<stock, published, pending, handled, work, at>>
<1> USE DEF requestVars, tableVars, handlerVars, engineVars, Engine!wiringVars,
            Engine!publishVars, Engine!listenVars
<1>1. inventory \in Handlers /\ product \in Handlers
  BY DEF Handlers
<1>2. ListenStep => UNCHANGED <<stock, published, pending, handled, work, at>>
  BY ListenKeeps
<1> QED BY <1>1, <1>2
  DEF Next, CreateProduct, InventoryHandler, ProductHandler, Shutdown,
      Terminating, Accept, FindByName, FindByNameFails, FindByNameUnread,
      CreateOneFails, PublishFailedPanics, Signal, ServeFails, Fatal,
      CloseDoneCh, Exit, vars, Engine!PublishPanic, Engine!CloseDoneCh

(* The stocking of a product begins when its event is taken, which happens  *)
(* once, and ends in a row of table inventory, in a failure, or in both.    *)
LEMMA NextStocking ==
  ASSUME TypeOK, Engine!OnceInv, Routing, Handling, Stocking, [Next]_vars
  PROVE  Stocking'
<1> USE DEF requestVars, tableVars, handlerVars, engineVars, Engine!wiringVars,
            Engine!publishVars, Engine!listenVars, Inserting, StockRefused
<1>0. /\ inventory \in Handlers /\ product \in Handlers /\ inventory # product
      /\ at \in [Handlers -> {"receive", "insert", "send", "delete", "done"}]
      /\ work \in [Handlers -> Requests \cup {NoProduct}]
      /\ stock \in [Requests -> Nat]
      /\ NoProduct \notin Requests
  BY CatalogAssumption DEF Handlers, inventory, product, TypeOK
<1>1. ASSUME NEW r \in Requests, CreateOne(r) PROVE Stocking'
  BY <1>1, EventsDiffer DEF CreateOne, Engine!Publish, Stocking
<1>2. ASSUME NEW r \in Requests, PublishReturns(r) PROVE Stocking'
  BY <1>2, EventsDiffer DEF PublishReturns, Engine!PublishSend, Stocking
<1>3. ASSUME TakeEvent(inventory, "insert") PROVE Stocking'
  <2> DEFINE m == Head(addressCh[inventory])
  <2>1. /\ m \in CreatedEvents
        /\ m \notin Range(handled[inventory])
        /\ Range(handled'[inventory]) = Range(handled[inventory]) \cup {m}
        /\ UNCHANGED <<published, pending>>
    BY <1>0, <1>3, TakenEvent DEF TakeEvent
  <2>2. PICK p \in Requests : m = ProductCreated(p)
    BY <2>1 DEF CreatedEvents
  <2>3. /\ work'[inventory] = p
        /\ at'[inventory] = "insert"
        /\ at[inventory] = "receive"
        /\ work[inventory] = NoProduct
        /\ stock' = stock
    BY <1>0, <1>3, <2>2, EventsDiffer DEF TakeEvent, Handling
  <2>4. stock[p] = 0 /\ ~StockRefused(p)
    BY <1>0, <2>1, <2>2 DEF Stocking
  <2> QED BY <1>0, <2>1, <2>2, <2>3, <2>4, EventsDiffer DEF Stocking
<1>4. ASSUME TakeEvent(product, "delete") PROVE Stocking'
  <2>1. handled'[inventory] = handled[inventory] /\ UNCHANGED <<published, pending>>
    BY <1>0, <1>4, TakenEvent DEF TakeEvent
  <2> QED BY <1>0, <1>4, <2>1 DEF TakeEvent, Stocking
<1>5. ASSUME CreateInventory PROVE Stocking'
  <2>1. work[inventory] \in Requests
    BY <1>5, InHand DEF CreateInventory
  <2> QED BY <1>0, <1>5, <2>1 DEF CreateInventory, Finish, Stocking
<1>6. ASSUME CreateInventoryFails PROVE Stocking'
  <2>1. work[inventory] \in Requests
    BY <1>6, InHand DEF CreateInventoryFails
  <2> QED BY <1>0, <1>6, <2>1, EventsDiffer
          DEF CreateInventoryFails, Engine!Publish, Stocking
<1>7. ASSUME PublishFailed PROVE Stocking'
  <2>1. work[inventory] \in Requests
    BY <1>7, InHand DEF PublishFailed
  <2> QED BY <1>0, <1>7, <2>1, EventsDiffer
          DEF PublishFailed, Engine!PublishSend, Finish, Stocking
<1>8. ASSUME DeleteProduct \/ DeleteProductFails PROVE Stocking'
  BY <1>0, <1>8 DEF DeleteProduct, DeleteProductFails, Finish, Stocking
<1>9. ASSUME NEW h \in Handlers, HandlerReturns(h) PROVE Stocking'
  BY <1>0, <1>9 DEF HandlerReturns, Stocking
<1>10. CASE UNCHANGED <<stock, published, pending, handled, work, at>>
  BY <1>10 DEF Stocking
<1> QED BY <1>1, <1>2, <1>3, <1>4, <1>5, <1>6, <1>7, <1>8, <1>9, <1>10, HandlerSteps

(* A product goes after its failure has been published, never before, and   *)
(* the handler that took the failure deletes the product or reports it.     *)
LEMMA NextUndoing ==
  ASSUME TypeOK, Engine!OnceInv, Routing, Requesting, Handling, Stocking, Undoing,
         [Next]_vars
  PROVE  Undoing'
<1> USE DEF requestVars, tableVars, handlerVars, engineVars, Engine!wiringVars,
            Engine!publishVars, Engine!listenVars, StockRefused
<1>0. /\ inventory \in Handlers /\ product \in Handlers /\ inventory # product
      /\ at \in [Handlers -> {"receive", "insert", "send", "delete", "done"}]
      /\ work \in [Handlers -> Requests \cup {NoProduct}]
      /\ NoProduct \notin Requests
  BY CatalogAssumption DEF Handlers, inventory, product, TypeOK
<1>14. at[product] = "delete" => work[product] \in Requests
  BY InHand
<1>15. Range(handled[product]) \subseteq published
  <2>1. /\ Range(stream[product]) \subseteq published
        /\ Range(handled[product]) \subseteq Range(stream[product])
    BY <1>0, EngineFacts
  <2> QED BY <2>1
<1>16. \A p \in Requests : StockRefused(p) => ProductCreated(p) \in published
  <2>1. Range(handled[inventory]) \subseteq published
    <3>1. /\ Range(stream[inventory]) \subseteq published
          /\ Range(handled[inventory]) \subseteq Range(stream[inventory])
      BY <1>0, EngineFacts
    <3> QED BY <3>1
  <2> QED BY <2>1 DEF Stocking
<1>1. ASSUME NEW r \in Requests, CreateOne(r) PROVE Undoing'
  <2>1. ProductCreated(r) \notin published
    BY <1>1 DEF CreateOne, Engine!Publish
  <2>2. InventoryCreationFailed(r) \notin Range(handled[product])
    BY <1>15, <1>16, <2>1
  <2> QED BY <1>1, <2>2, EventsDiffer DEF CreateOne, Engine!Publish, Undoing
<1>2. ASSUME NEW r \in Requests, CreateOneFails(r) PROVE Undoing'
  BY <1>2 DEF CreateOneFails, Undoing, Requesting
<1>3. ASSUME TakeEvent(product, "delete") PROVE Undoing'
  <2> DEFINE m == Head(addressCh[product])
  <2>1. /\ m \in FailedEvents
        /\ Range(handled'[product]) = Range(handled[product]) \cup {m}
        /\ UNCHANGED <<published, pending>>
    BY <1>0, <1>3, TakenEvent DEF TakeEvent
  <2>2. PICK p \in Requests : m = InventoryCreationFailed(p)
    BY <2>1 DEF FailedEvents
  <2>3. /\ work'[product] = p
        /\ work[product] = NoProduct
        /\ UNCHANGED <<products, reported>>
    BY <1>0, <1>3, <2>2, EventsDiffer DEF TakeEvent, Handling
  <2> QED BY <1>0, <2>1, <2>2, <2>3, EventsDiffer DEF Undoing
<1>4. ASSUME TakeEvent(inventory, "insert") PROVE Undoing'
  <2>1. handled'[product] = handled[product] /\ UNCHANGED <<published, pending>>
    BY <1>0, <1>4, TakenEvent DEF TakeEvent
  <2> QED BY <1>0, <1>4, <2>1 DEF TakeEvent, Undoing
<1>5. ASSUME CreateInventory PROVE Undoing'
  BY <1>0, <1>5 DEF CreateInventory, Finish, Undoing
<1>6. ASSUME CreateInventoryFails PROVE Undoing'
  BY <1>0, <1>6, InHand, EventsDiffer DEF CreateInventoryFails, Engine!Publish, Undoing
<1>7. ASSUME PublishFailed PROVE Undoing'
  BY <1>0, <1>7 DEF PublishFailed, Engine!PublishSend, Finish, Undoing
<1>8. ASSUME DeleteProduct PROVE Undoing'
  BY <1>0, <1>8, <1>14, <1>15 DEF DeleteProduct, Finish, Undoing
<1>9. ASSUME DeleteProductFails PROVE Undoing'
  BY <1>0, <1>9, <1>14, <1>15 DEF DeleteProductFails, Finish, Undoing
<1>10. CASE UNCHANGED <<products, published, handled, work, reported>>
  BY <1>10 DEF Undoing
<1>11. \/ \E r \in Requests : PublishReturns(r)
       \/ \E h \in Handlers : HandlerReturns(h)
       => UNCHANGED <<products, published, handled, work, reported>>
  BY DEF PublishReturns, Engine!PublishSend, HandlerReturns
<1>12. ListenStep => UNCHANGED <<products, published, handled, work, reported>>
  BY ListenKeeps
<1>13. \/ \E r \in Requests : \/ Accept(r)
                              \/ FindByName(r)
                              \/ FindByNameFails(r)
                              \/ FindByNameUnread(r)
       \/ PublishFailedPanics \/ Signal \/ ServeFails \/ Shutdown
       \/ Terminating \/ UNCHANGED vars
       => UNCHANGED <<products, published, handled, work, reported>>
  BY DEF Accept, FindByName, FindByNameFails, FindByNameUnread,
         PublishFailedPanics, Signal, ServeFails, Shutdown, Fatal, CloseDoneCh,
         Exit, Terminating, vars, Engine!PublishPanic, Engine!CloseDoneCh
<1> QED
  BY <1>0, <1>1, <1>2, <1>3, <1>4, <1>5, <1>6, <1>7, <1>8, <1>9, <1>10, <1>11,
     <1>12, <1>13
  DEF Next, CreateProduct, InventoryHandler, ProductHandler

-----------------------------------------------------------------------------
(* The inductive invariant.                                                 *)

(* The server starts with an idle engine, one subscriber to each name.      *)
LEMMA InitOnceInv == Init => Engine!OnceInv
<1> SUFFICES ASSUME Init PROVE Engine!OnceInv
  OBVIOUS
<1>1. EngineProofs!Idle
  BY Zenon DEF Init, Engine!Idle, EngineProofs!Idle
<1>2. registered \subseteq EventNames
  BY DEF Init
<1>3. inventory \in Handlers /\ product \in Handlers
  BY DEF Handlers
<1>4. subs \in [EventNames -> Seq(Handlers)]
  BY <1>3 DEF Init
<1>5. EngineProofs!Wired
  <2> SUFFICES ASSUME NEW n \in EventNames
               PROVE  /\ IsInjective(subs[n])
                      /\ \A s \in Range(subs[n]) : n \in SubscribeTo[s]
    BY <1>2 DEF Init, EngineProofs!Wired, EngineProofs!Range, Range,
                EngineProofs!IsInjective, IsInjective
  <2>1. PICK h \in Handlers : subs[n] = <<h>> /\ n \in SubscribeTo[h]
    BY <1>3 DEF Init, EventNames, SubscribeTo, inventory, product
  <2>2. Range(<<h>>) = {h}
    BY RangeOne
  <2>3. IsInjective(<<h>>)
    BY DEF IsInjective
  <2> QED BY <2>1, <2>2, <2>3
<1>6. EngineProofs!IndInv
  BY <1>1, <1>2, <1>4, <1>5, EngineConstants, EngineProofs!IdleIndInv
<1>7. EngineProofs!OnceInv
  BY <1>1, <1>6, EngineConstants, EngineProofs!IdleOnceInv
<1> QED BY <1>7, SameOnceInv

LEMMA InitIInv == Init => IInv
<1> SUFFICES ASSUME Init PROVE IInv
  OBVIOUS
<1>1. Engine!OnceInv
  BY InitOnceInv
<1>2. /\ inventory \in Handlers /\ product \in Handlers
      /\ \A h \in Handlers : handled[h] = <<>> /\ stream[h] = <<>>
      /\ published = {} /\ pending = {}
      /\ NoProduct \notin Requests
  BY CatalogAssumption DEF Init, Engine!Idle, Handlers
<1>3. Range(<<>>) = {}
  BY DEF Range
<1>4. TypeOK
  <2>1. Engine!TypeOK
    BY <1>1 DEF Engine!OnceInv, Engine!IndInv
  <2> QED BY <2>1 DEF Init, TypeOK
<1>5. Routing
  BY <1>2, <1>3 DEF Init, Routing
<1>6. Requesting
  BY <1>2 DEF Init, Requesting
<1>7. Handling
  BY <1>2 DEF Init, Handling
<1>8. Stocking
  BY <1>2, <1>3 DEF Init, Stocking, StockRefused, Inserting
<1>9. Undoing
  BY <1>2, <1>3 DEF Init, Undoing, StockRefused
<1> QED BY <1>1, <1>4, <1>5, <1>6, <1>7, <1>8, <1>9 DEF IInv

LEMMA NextIInv == IInv /\ [Next]_vars => IInv'
<1> SUFFICES ASSUME IInv, [Next]_vars PROVE IInv'
  OBVIOUS
<1>1. TypeOK /\ Engine!OnceInv /\ Routing /\ Requesting /\ Handling /\ Stocking /\ Undoing
  BY DEF IInv
<1>2. Engine!OnceInv'
  BY <1>1, NextOnceInv
<1>3. TypeOK' /\ Routing' /\ Requesting'
  BY <1>1, <1>2, NextTypeOK, NextRouting, NextRequesting
<1>4. Handling' /\ Stocking' /\ Undoing'
  BY <1>1, NextHandling, NextStocking, NextUndoing
<1> QED BY <1>2, <1>3, <1>4 DEF IInv

-----------------------------------------------------------------------------
(* What the invariant says of the events of a product.                      *)

(* A published event is on its way, or has been taken by its handler.       *)
LEMMA WhereEvents ==
  ASSUME IInv, NEW p \in Requests
  PROVE  /\ ProductCreated(p) \in published =>
              \/ EventInFlight(ProductCreated(p))
              \/ ProductCreated(p) \in Range(handled[inventory])
         /\ InventoryCreationFailed(p) \in published =>
              \/ EventInFlight(InventoryCreationFailed(p))
              \/ InventoryCreationFailed(p) \in Range(handled[product])
<1>1. Engine!OnceInv /\ Routing
  BY DEF IInv
<1>2. inventory \in Handlers /\ product \in Handlers
  BY DEF Handlers
<1>3. \A h \in Handlers : \A m \in Range(stream[h]) :
        m \in Range(handled[h]) \/ EventInFlight(m)
  <2> SUFFICES ASSUME NEW h \in Handlers, NEW m \in Range(stream[h])
               PROVE  m \in Range(handled[h]) \/ m \in Range(addressCh[h]) \/ m = event
    BY DEF EventInFlight
  <2>1. Range(stream[h]) = Range(handled[h]) \cup Range(addressCh[h])
                             \cup (IF h \in Range(targets) THEN {event} ELSE {})
    BY <1>1, EngineFacts
  <2> QED BY <2>1
<1>4. ASSUME ProductCreated(p) \in published
      PROVE  \/ EventInFlight(ProductCreated(p))
             \/ ProductCreated(p) \in Range(handled[inventory])
  <2>1. ProductCreated(p) \in pending \cup Range(engineCh) \cup Range(stream[inventory])
    BY <1>1, <1>4, EventsDiffer DEF Routing
  <2> QED BY <1>2, <1>3, <2>1 DEF EventInFlight
<1>5. ASSUME InventoryCreationFailed(p) \in published
      PROVE  \/ EventInFlight(InventoryCreationFailed(p))
             \/ InventoryCreationFailed(p) \in Range(handled[product])
  <2>1. InventoryCreationFailed(p)
          \in pending \cup Range(engineCh) \cup Range(stream[product])
    BY <1>1, <1>5, EventsDiffer DEF Routing
  <2> QED BY <1>2, <1>3, <2>1 DEF EventInFlight
<1> QED BY <1>4, <1>5

(* A product whose stocking has begun has had its event published.          *)
LEMMA StockAfterEvent ==
  ASSUME IInv, NEW p \in Requests
  PROVE  (stock[p] = 1 \/ StockRefused(p) \/ work[inventory] = p) =>
           ProductCreated(p) \in published
<1>1. Engine!OnceInv /\ Routing /\ inventory \in Handlers
  BY DEF IInv, Handlers
<1>2. Range(handled[inventory]) \subseteq published
  <2>1. /\ Range(stream[inventory]) \subseteq published
        /\ Range(handled[inventory]) \subseteq Range(stream[inventory])
    BY <1>1, EngineFacts
  <2> QED BY <2>1
<1> QED BY <1>2 DEF IInv, Stocking

(* What the invariant is for.                                               *)
LEMMA IInvSafe == IInv => StockHasProduct /\ NoSilentOrphan /\ CleanExit
<1> SUFFICES ASSUME IInv PROVE StockHasProduct /\ NoSilentOrphan /\ CleanExit
  OBVIOUS
<1>1. /\ TypeOK /\ Engine!OnceInv /\ Routing /\ Requesting /\ Handling
      /\ Stocking /\ Undoing
  BY DEF IInv
<1>2. inventory \in Handlers /\ product \in Handlers
  BY DEF Handlers
<1>3. stock \in [Requests -> Nat] /\ \A p \in Requests : stock[p] \in {0, 1}
  BY <1>1 DEF TypeOK, Stocking
<1>4. StockHasProduct
  BY <1>1, StockAfterEvent DEF StockHasProduct, Stocking, Undoing
<1>5. NoSilentOrphan
  <2> SUFFICES ASSUME NEW p \in Requests, p \in products, stock[p] = 0, ~InFlight(p)
               PROVE  p \in reported
    BY DEF NoSilentOrphan, Orphan
  <2>1. CASE ProductCreated(p) \notin published
    BY <1>1, <2>1 DEF Requesting
  <2>2. CASE ProductCreated(p) \in published
    <3>1. work[inventory] # p /\ work[product] # p
      BY <1>2 DEF InFlight
    <3>2. ProductCreated(p) \in Range(handled[inventory])
      BY <2>2, WhereEvents DEF InFlight
    <3>3. StockRefused(p)
      BY <1>1, <3>1, <3>2 DEF Stocking, Inserting
    <3>4. InventoryCreationFailed(p) \in Range(handled[product])
      BY <3>3, WhereEvents DEF InFlight, StockRefused
    <3> QED BY <1>1, <3>1, <3>4 DEF Undoing
  <2> QED BY <2>1, <2>2
<1>6. CleanExit
  <2> SUFFICES ASSUME server = "exited", NEW p \in Requests
               PROVE  ~InFlight(p) /\ (request[p] # "new" => answer[p] # "none")
    BY DEF CleanExit
  <2>1. \A h \in Handlers : at[h] = "done" /\ work[h] = NoProduct /\ addressCh[h] = <<>>
    BY <1>1 DEF Handling
  <2>2. event = NoEvent /\ engineCh = <<>>
    <3>1. pc = "exit"
      BY <1>1, <1>2, <2>1 DEF Handling
    <3> QED BY <1>1, <3>1, EngineFacts
  <2>3. request[p] \in {"new", "done"}
    BY <1>1 DEF Requesting
  <2>4. ProductCreated(p) \notin pending /\ InventoryCreationFailed(p) \notin pending
    BY <1>1, <1>2, <2>1, <2>3 DEF Requesting, Stocking
  <2>5. Range(<<>>) = {}
    BY DEF Range
  <2>6. NoEvent # ProductCreated(p) /\ NoEvent # InventoryCreationFailed(p)
    BY EventsDiffer, CatalogAssumption
  <2>7. \A h \in Handlers : work[h] # p
    BY <2>1, CatalogAssumption
  <2>8. ~EventInFlight(ProductCreated(p)) /\ ~EventInFlight(InventoryCreationFailed(p))
    BY <2>1, <2>2, <2>4, <2>5, <2>6 DEF EventInFlight
  <2> QED BY <1>1, <2>3, <2>7, <2>8 DEF InFlight, Requesting
<1> QED BY <1>4, <1>5, <1>6

-----------------------------------------------------------------------------
(* The shop.                                                                *)

(* A step that changes the life of one product is that step of the shop.    *)
LEMMA OneLifeChanges ==
  ASSUME NEW p \in Requests, NEW from, NEW to,
         Life(p) \in from, Life(p)' = to,
         \A q \in Requests : q # p => Life(q)' = Life(q)
  PROVE  Shop!Pass(p, from, to)
<1> DEFINE lives == [q \in Requests |-> Life(q)]
<1>1. lives[p] \in from
  OBVIOUS
<1>2. lives' = [lives EXCEPT ![p] = to]
  <2>1. lives' = [q \in Requests |-> Life(q)']
    OBVIOUS
  <2> QED BY Zenon, <2>1
<1> QED BY <1>1, <1>2 DEF Shop!Pass

(* Only these steps concern the shop.                                       *)
LEMMA ShopSteps ==
  [Next]_vars => \/ \E r \in Requests : CreateOne(r) \/ CreateOneFails(r)
                 \/ CreateInventory
                 \/ CreateInventoryFails
                 \/ DeleteProduct
                 \/ DeleteProductFails
                 \/ UNCHANGED <<products, stock, published>>
<1>1. ListenStep => UNCHANGED <<products, stock, published>>
  BY ListenKeeps
<1> QED BY <1>1
  DEF Next, CreateProduct, InventoryHandler, ProductHandler, Shutdown,
      Terminating, Accept, FindByName, FindByNameFails, FindByNameUnread,
      PublishReturns, TakeEvent, PublishFailed, PublishFailedPanics,
      HandlerReturns, Signal, ServeFails, Fatal, CloseDoneCh, Exit, vars,
      engineVars, requestVars, tableVars, handlerVars, Engine!PublishSend,
      Engine!PublishPanic, Engine!CloseDoneCh, Engine!Receive,
      Engine!wiringVars, Engine!publishVars, Engine!listenVars

LEMMA InitIsShopInit == Init => Shop!Init
<1> SUFFICES ASSUME Init, NEW p \in Requests PROVE Life(p) = "absent"
  BY Zenon DEF Shop!Init
<1> QED BY DEF Init, Engine!Idle, Life, StockRefused

LEMMA NextIsShopNext ==
  ASSUME IInv, [Next]_vars
  PROVE  [Shop!Next]_([p \in Requests |-> Life(p)])
<1>1. /\ TypeOK /\ Engine!OnceInv /\ Routing /\ Requesting /\ Handling
      /\ Stocking /\ Undoing
  BY DEF IInv
<1>2. \A p \in Requests : stock[p] \in {0, 1}
  BY <1>1 DEF TypeOK, Stocking
<1>3. /\ inventory \in Handlers /\ product \in Handlers
      /\ stock \in [Requests -> Nat]
  BY <1>1 DEF Handlers, TypeOK
<1>4. ASSUME NEW r \in Requests, request[r] = "insert",
             products' = products \cup {r}, stock' = stock,
             \A q \in Requests : StockRefused(q)' <=> StockRefused(q)
      PROVE  Shop!Next
  <2>1. r \notin products /\ ProductCreated(r) \notin published
    BY <1>1, <1>4 DEF Requesting
  <2>2. stock[r] = 0 /\ ~StockRefused(r)
    BY <1>2, <2>1, StockAfterEvent
  <2>3. Life(r) = "absent" /\ Life(r)' = "pending"
    BY <1>4, <2>1, <2>2 DEF Life
  <2>4. \A q \in Requests : q # r => Life(q)' = Life(q)
    BY <1>4 DEF Life
  <2>5. Shop!Add(r)
    BY <2>3, <2>4, OneLifeChanges DEF Shop!Add
  <2> QED BY <2>5 DEF Shop!Next
<1>5. ASSUME UNCHANGED <<products, stock>>,
             \A q \in Requests : StockRefused(q)' <=> StockRefused(q)
      PROVE  UNCHANGED [p \in Requests |-> Life(p)]
  <2>1. \A q \in Requests : Life(q)' = Life(q)
    BY <1>5 DEF Life
  <2> QED BY Zenon, <2>1
<1>6. ASSUME NEW r \in Requests, CreateOne(r) PROVE Shop!Next
  <2>1. \A q \in Requests : StockRefused(q)' <=> StockRefused(q)
    BY <1>6, EventsDiffer DEF CreateOne, Engine!Publish, StockRefused
  <2> QED BY <1>4, <1>6, <2>1 DEF CreateOne
<1>7. ASSUME NEW r \in Requests, CreateOneFails(r)
      PROVE  Shop!Next \/ UNCHANGED [p \in Requests |-> Life(p)]
  <2>1. \A q \in Requests : StockRefused(q)' <=> StockRefused(q)
    BY <1>7 DEF CreateOneFails, engineVars, StockRefused
  <2> QED BY <1>4, <1>5, <1>7, <2>1 DEF CreateOneFails
<1>8. ASSUME at[inventory] = "insert"
      PROVE  /\ work[inventory] \in Requests
             /\ Life(work[inventory]) = "pending"
             /\ stock[work[inventory]] = 0
             /\ work[inventory] \in products
  <2> DEFINE p == work[inventory]
  <2>1. p \in Requests
    BY <1>1, <1>8, InHand
  <2>2. stock[p] = 0 /\ ~StockRefused(p)
    BY <1>1, <1>8, <2>1 DEF Stocking, Inserting
  <2>3. p \in products
    BY <1>1, <2>1, <2>2, StockAfterEvent DEF Undoing
  <2> QED BY <2>1, <2>2, <2>3 DEF Life
<1>9. ASSUME CreateInventory PROVE Shop!Next
  <2>1. PICK p \in Requests : /\ p = work[inventory] /\ p \in products
                              /\ Life(p) = "pending" /\ ~StockRefused(p)
                              /\ stock[p] = 0
    BY <1>8, <1>9 DEF CreateInventory, Life
  <2>2. /\ stock'[p] = 1
        /\ \A q \in Requests : q # p => stock'[q] = stock[q]
        /\ UNCHANGED <<products, published>>
    BY <1>3, <1>9, <2>1 DEF CreateInventory, engineVars
  <2>3. Life(p)' = "visible"
    BY <2>1, <2>2 DEF Life, StockRefused
  <2>4. \A q \in Requests : q # p => Life(q)' = Life(q)
    BY <2>2 DEF Life, StockRefused
  <2>5. Shop!Stock(p)
    BY <2>1, <2>3, <2>4, OneLifeChanges DEF Shop!Stock
  <2> QED BY <2>1, <2>5 DEF Shop!Next
<1>10. ASSUME CreateInventoryFails PROVE Shop!Next
  <2>1. PICK p \in Requests : /\ p = work[inventory] /\ p \in products
                              /\ Life(p) = "pending"
    BY <1>8, <1>10 DEF CreateInventoryFails
  <2>2. /\ \A q \in Requests : q # p => stock'[q] = stock[q]
        /\ products' = products
        /\ published' = published \cup {InventoryCreationFailed(p)}
    BY <1>3, <1>10, <2>1 DEF CreateInventoryFails, Engine!Publish
  <2>3. Life(p)' = "refused" \/ Life(p)' = "doubtful"
    BY <2>1, <2>2 DEF Life, StockRefused
  <2>4. \A q \in Requests : q # p => Life(q)' = Life(q)
    BY <2>1, <2>2, EventsDiffer DEF Life, StockRefused
  <2>5. Shop!Refuse(p) \/ Shop!Doubt(p)
    BY <2>1, <2>3, <2>4, OneLifeChanges DEF Shop!Refuse, Shop!Doubt
  <2> QED BY <2>1, <2>5 DEF Shop!Next
<1>11. ASSUME at[product] = "delete", products' = products \ {work[product]},
              UNCHANGED <<stock, published>>
       PROVE  Shop!Next \/ UNCHANGED [p \in Requests |-> Life(p)]
  <2>1. PICK p \in Requests : p = work[product]
    BY <1>1, <1>11, InHand
  <2>2. StockRefused(p)
    <3>1. InventoryCreationFailed(p) \in Range(handled[product])
      BY <1>1, <2>1 DEF Undoing
    <3>2. /\ Range(stream[product]) \subseteq published
          /\ Range(handled[product]) \subseteq Range(stream[product])
      BY <1>1, <1>3, EngineFacts
    <3> QED BY <3>1, <3>2 DEF StockRefused
  <2>3. \A q \in Requests : q # p => Life(q)' = Life(q)
    BY <1>11, <2>1 DEF Life, StockRefused
  <2>4. CASE p \in products
    <3>1. Life(p) \in {"refused", "doubtful"} /\ Life(p)' = "gone"
      BY <1>11, <2>1, <2>2, <2>4 DEF Life, StockRefused
    <3>2. Shop!Withdraw(p)
      BY <2>1, <2>3, <3>1, OneLifeChanges DEF Shop!Withdraw
    <3> QED BY <2>1, <3>2 DEF Shop!Next
  <2>5. CASE p \notin products
    BY <1>5, <1>11, <2>1, <2>5 DEF StockRefused
  <2> QED BY <2>4, <2>5
<1>12. ASSUME DeleteProduct \/ DeleteProductFails
       PROVE  Shop!Next \/ UNCHANGED [p \in Requests |-> Life(p)]
  <2>1. /\ at[product] = "delete"
        /\ UNCHANGED <<stock, published>>
        /\ products' = products \/ products' = products \ {work[product]}
    BY <1>12 DEF DeleteProduct, DeleteProductFails, engineVars
  <2> QED BY <1>5, <1>11, <2>1 DEF StockRefused
<1>13. CASE UNCHANGED <<products, stock, published>>
  BY <1>5, <1>13 DEF StockRefused
<1> QED BY <1>6, <1>7, <1>9, <1>10, <1>12, <1>13, ShopSteps

-----------------------------------------------------------------------------
(* The theorems.                                                            *)

(* What the requests, the engine, the two handlers and the shutdown keep    *)
(* between them, in any interleaving, whichever statements fail, and        *)
(* whether their effect is lost or not.                                     *)
THEOREM IInvAlways == Spec => []IInv
<1> QED BY InitIInv, NextIInv, PTL DEF Spec

(* Every variable keeps its type: a handler's product is one of a request,  *)
(* whatever the name of the event it was taken from.                        *)
THEOREM TypeCorrect == Spec => []TypeOK
<1>1. IInv => TypeOK
  BY DEF IInv
<1> QED BY <1>1, IInvAlways, PTL

(* createProduct, the events and the two handlers stock a product at most   *)
(* once, and delete one that has stock only after its insert reported an    *)
(* error.                                                                   *)
THEOREM StockedOnce == Spec => []StockHasProduct
<1> QED BY IInvSafe, IInvAlways, PTL

(* The chain insert, publish, stock, publish, delete never drops a product  *)
(* in silence, wherever a statement fails or a shutdown begins.             *)
THEOREM NothingForgotten == Spec => []NoSilentOrphan
<1> QED BY IInvSafe, IInvAlways, PTL

(* When internalSrvWG.Wait has returned and the server exits, no event, no  *)
(* handler and no accepted request is left unfinished.                      *)
THEOREM ExitsClean == Spec => []CleanExit
<1> QED BY IInvSafe, IInvAlways, PTL

(* The features product and inventory implement what the shop promises: no  *)
(* product that customers see is withdrawn, and none returns.               *)
THEOREM ImplementsShop == Spec => ShopSpec
<1>1. Init => Shop!Init
  BY InitIsShopInit
<1>2. IInv /\ [Next]_vars => [Shop!Next]_([p \in Requests |-> Life(p)])
  BY NextIsShopNext
<1> QED BY <1>1, <1>2, IInvAlways, PTL DEF Spec, ShopSpec, Shop!Spec
=============================================================================
