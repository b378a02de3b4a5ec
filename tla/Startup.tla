------------------------------- MODULE Startup -------------------------------
(***************************************************************************)
(* The wiring of the event engine while the server starts, one access to   *)
(* the map e.events at a time.                                             *)
(*                                                                         *)
(* v1Router registers the name the inventory feature publishes and starts  *)
(* its handler, then does the same for the product feature, then serves.   *)
(* Each handler subscribes from its own goroutine to the other's name, and *)
(* ends the process with log.Fatalf if that is not registered.  Requests   *)
(* publish product.created and listen reads its subscribers for each.  No  *)
(* lock guards the map.                                                    *)
(*                                                                         *)
(* An access to the map that overlaps a write is a data race: the runtime  *)
(* may throw ("concurrent map writes"), a read may miss the key and a      *)
(* write may be lost.  raced says that one has happened.                   *)
(***************************************************************************)
EXTENDS Naturals, Sequences, FiniteSets, Functions

CONSTANT Requests    \* the requests that create a product

created   == "product.created"
failed    == "inventory.creation.failed"
EventNames == {created, failed}

inventory == "handler_event.inventory"
product   == "handler_event.product"
Handlers  == {inventory, product}
Threads   == Handlers \cup {"main"} \cup Requests

ASSUME StartupAssumption == Requests \cap (Handlers \cup {"main"}) = {}

(* subscribeToEventNames of each handler.                                   *)
Awaits == [h \in Handlers |-> IF h = inventory THEN created ELSE failed]

(* What each thread does to the map and to the others, in program order.    *)
(* A step is <<operation, operand>>; the operations find, load, put, must   *)
(* and store are accesses to e.events, go starts threads.                   *)
RegisterEvents(n) == <<<<"find", n>>, <<"put", n>>>>

(* Mutant: the new entry is not put into the map.                           *)
SubscribeUnstored(n) == <<<<"must", n>>, <<"load", n>>, <<"load", n>>>>

(* Subscribe looks n up, loads names, loads addressChs, stores both.        *)
Subscribe(n) == <<<<"must", n>>, <<"load", n>>, <<"load", n>>, <<"store", n>>>>

(* Publish looks n up; listen loads addressChs for the event's broadcast.   *)
Publish(n) == <<<<"must", n>>, <<"load", n>>>>

(* Mutant: the inventory feature registers nothing.                         *)
NewEventHandlerUnregistered == <<<<"go", {inventory}>>>>

NewEventHandler  == RegisterEvents(failed) \o <<<<"go", {inventory}>>>>
NewHandlerEvents == RegisterEvents(created) \o <<<<"go", {product}>>>>

(* Mutant: the product feature is wired before the inventory feature.       *)
v1RouterSwapped == NewHandlerEvents \o NewEventHandler \o <<<<"go", Requests>>>>

v1Router == NewEventHandler \o NewHandlerEvents \o <<<<"go", Requests>>>>

Program ==
  [t \in Threads |-> IF t = "main" THEN v1Router
                     ELSE IF t \in Handlers THEN Subscribe(Awaits[t])
                     ELSE Publish(created)]

Reads  == {"find", "must", "load"}
Writes == {"put", "store"}

VARIABLES
  started,     \* the threads that run
  next,        \* next[t]: the index in Program[t] of t's next step
  inside,      \* the threads in the middle of an access to the map
  registered,  \* the keys of e.events
  subs,        \* subs[n]: e.events[n].addressChs
  loaded,      \* loaded[t]: the addressChs that t has read
  dead,        \* why the process ended, or "no"
  raced        \* history: two accesses have overlapped, one a write

vars == <<started, next, inside, registered, subs, loaded, dead, raced>>

TypeOK ==
  /\ started \subseteq Threads
  /\ next \in [Threads -> 1 .. 8]
  /\ inside \subseteq started
  /\ registered \subseteq EventNames
  /\ subs \in [EventNames -> Seq(Handlers)]
  /\ loaded \in [Threads -> Seq(Handlers)]
  /\ dead \in {"no", "unregistered", "fault"}
  /\ raced \in BOOLEAN

Init ==
  /\ started = {"main"}
  /\ next = [t \in Threads |-> 1]
  /\ inside = {}
  /\ registered = {}
  /\ subs = [n \in EventNames |-> <<>>]
  /\ loaded = [t \in Threads |-> <<>>]
  /\ dead = "no"
  /\ raced = FALSE

Runs(t) == dead = "no" /\ t \in started /\ next[t] <= Len(Program[t])
Op(t)   == Program[t][next[t]][1]
Arg(t)  == Program[t][next[t]][2]

-----------------------------------------------------------------------------
Go(t) ==
  /\ Runs(t)
  /\ Op(t) = "go"
  /\ started' = started \cup Arg(t)
  /\ next' = [next EXCEPT ![t] = @ + 1]
  /\ UNCHANGED <<inside, registered, subs, loaded, dead, raced>>

Overlaps(t) ==
  \E u \in inside \ {t} : Op(t) \in Writes \/ Op(u) \in Writes

BeginAccess(t) ==
  /\ Runs(t)
  /\ Op(t) \in Reads \cup Writes
  /\ t \notin inside
  /\ inside' = inside \cup {t}
  /\ raced' = (raced \/ Overlaps(t))
  /\ UNCHANGED <<started, next, registered, subs, loaded, dead>>

(* The runtime notices an overlap and throws.                               *)
MapFault(t) ==
  /\ dead = "no"
  /\ t \in inside
  /\ Overlaps(t)
  /\ dead' = "fault"
  /\ UNCHANGED <<started, next, inside, registered, subs, loaded, raced>>

(* t is in an access of kind op; it ends, and t goes on with its step i.    *)
In(t, op) == Runs(t) /\ t \in inside /\ Op(t) = op

EndAccess(t, i) ==
  /\ inside' = inside \ {t}
  /\ next' = [next EXCEPT ![t] = i]

(* What a read of Arg(t) may find: after a race, also nothing.              *)
Found(t) == {Arg(t) \in registered} \cup (IF raced THEN {FALSE} ELSE {})

(* RegisterEvents leaves a name alone that is there already.                *)
EndFind(t) ==
  /\ In(t, "find")
  /\ \E found \in Found(t) : EndAccess(t, next[t] + IF found THEN 2 ELSE 1)
  /\ UNCHANGED <<started, registered, subs, loaded, dead, raced>>

EndPut(t) ==
  /\ In(t, "put")
  /\ EndAccess(t, next[t] + 1)
  /\ \/ /\ registered' = registered \cup {Arg(t)}
        /\ subs' = [subs EXCEPT ![Arg(t)] = <<>>]
     \/ raced /\ UNCHANGED <<registered, subs>>
  /\ UNCHANGED <<started, loaded, dead, raced>>

(* Mutant: the name is not looked up.                                       *)
EndMustUnchecked(t) ==
  /\ In(t, "must")
  /\ EndAccess(t, next[t] + 1)
  /\ UNCHANGED <<started, registered, subs, loaded, dead, raced>>

(* Mutant: a handler that cannot subscribe returns.                         *)
EndMustReturns(t) ==
  /\ In(t, "must")
  /\ \E found \in Found(t) :
       EndAccess(t, IF found THEN next[t] + 1 ELSE Len(Program[t]) + 1)
  /\ UNCHANGED <<started, registered, subs, loaded, dead, raced>>

(* Subscribe and Publish of a name that is not there return an error: a     *)
(* handler's log.Fatalf; a request's own error.                             *)
EndMust(t) ==
  /\ In(t, "must")
  /\ \E found \in Found(t) :
       /\ EndAccess(t, IF found THEN next[t] + 1 ELSE Len(Program[t]) + 1)
       /\ dead' = IF found \/ t \in Requests THEN dead ELSE "unregistered"
  /\ UNCHANGED <<started, registered, subs, loaded, raced>>

EndLoad(t) ==
  /\ In(t, "load")
  /\ EndAccess(t, next[t] + 1)
  /\ loaded' = [loaded EXCEPT ![t] = subs[Arg(t)]]
  /\ UNCHANGED <<started, registered, subs, dead, raced>>

EndStore(t) ==
  /\ In(t, "store")
  /\ EndAccess(t, next[t] + 1)
  /\ \/ subs' = [subs EXCEPT ![Arg(t)] = Append(loaded[t], t)]
     \/ raced /\ UNCHANGED subs
  /\ UNCHANGED <<started, registered, loaded, dead, raced>>

-----------------------------------------------------------------------------
Step(t) ==
  \/ Go(t)
  \/ BeginAccess(t)
  \/ EndFind(t)
  \/ EndPut(t)
  \/ EndMust(t)
  \/ EndLoad(t)
  \/ EndStore(t)

Terminating == (\A t \in started : ~Runs(t)) /\ UNCHANGED vars

Next ==
  \/ \E t \in Threads : Step(t) \/ MapFault(t)
  \/ Terminating

Spec == Init /\ [][Next]_vars
FairSpec == Spec /\ \A t \in Threads \ Requests : WF_vars(Step(t))

-----------------------------------------------------------------------------
(* Properties.                                                              *)

(* main has gone past this step of its program.                             *)
Passed(step) == \E i \in DOMAIN v1Router : i < next["main"] /\ v1Router[i] = step

(* How far a handler is with Subscribe, while nothing has raced.            *)
Subscribing(h) ==
  /\ next[h] <= 4 => subs[Awaits[h]] = <<>>
  /\ next[h] \in {3, 4} => loaded[h] = <<>>
  /\ next[h] > 1 /\ dead = "no" => Awaits[h] \in registered
  /\ next[h] > 4 /\ dead = "no" => subs[Awaits[h]] = <<h>>

(* The inductive invariant: where main stands says which threads run and,   *)
(* while nothing has raced, which names are registered; where a handler     *)
(* stands says what its Subscribe has done.                                 *)
IInv ==
  /\ TypeOK
  /\ \A t \in Threads : next[t] <= Len(Program[t]) + 1
  /\ \A h \in Handlers : IF Passed(<<"go", {h}>>) THEN h \in started
                                                 ELSE h \notin started /\ next[h] = 1
  /\ Requests \cap started # {} => Passed(<<"go", Requests>>)
  /\ ~raced =>
       /\ registered = {n \in EventNames : Passed(<<"put", n>>)}
       /\ dead = "unregistered" => created \notin registered
       /\ \A h \in Handlers : Subscribing(h)

(* "Register an event before you try to publish or subscribe to it"         *)
(* (event_engine.go:169), and Subscribe "should add an event if does not    *)
(* exist" (event_engine.go:17): by the order of v1Router, or else by        *)
(* Subscribe itself, no handler ends the process because the name it        *)
(* subscribes to is not registered yet.                                     *)
SubscribesRegistered == dead = "unregistered" => raced

(* It does for the product handler, whose name the inventory feature has    *)
(* registered before, and for a request: only the inventory handler can     *)
(* come too early.                                                          *)
OnlyInventoryTooEarly ==
  ~raced =>
    /\ dead = "unregistered" => ~(created \in registered)
    /\ product \in started => failed \in registered
    /\ Requests \cap started # {} => EventNames \subseteq registered

(* Unless the map is corrupted, a handler past its Subscribe is subscribed, *)
(* once, and stays so: no later RegisterEvents or Subscribe undoes it.      *)
SubscriptionKept ==
  ~raced =>
    \A h \in Handlers :
      next[h] > Len(Program[h]) /\ dead = "no" => subs[Awaits[h]] = <<h>>

(* The event of a product is broadcast to nobody only while the inventory   *)
(* handler is still about to subscribe: later ones all reach it.            *)
NobodyOnlyEarly ==
  [][\A r \in Requests :
       /\ ~raced'
       /\ next[r] = Len(Program[r]) /\ next'[r] > next[r]
       /\ loaded'[r] # <<inventory>>
       => next[inventory] <= Len(Program[inventory])]_vars

(* Startup comes to an end: both handlers are subscribed, or the process    *)
(* has died, or the map is corrupted.                                       *)
Wired ==
  <>(\/ dead # "no" \/ raced
     \/ \A h \in Handlers : \E n \in EventNames : h \in Range(subs[n]))

(* Without a race the separate accesses amount to the indivisible           *)
(* RegisterEvents and Subscribe that EventEngine takes them for.            *)
Wiring == INSTANCE EventEngine WITH
  Events <- {}, NameOf <- <<>>, LateEvents <- {}, NoEvent <- "none",
  Subscribers <- Handlers,
  SubscribeTo <- [h \in Handlers |-> {Awaits[h]}],
  EngineCap <- 20, AddressCap <- 10, MaxPartitionSize <- 4,
  published <- {}, pending <- {}, engineCh <- <<>>, engineClosed <- FALSE,
  addressCh <- [h \in Handlers |-> <<>>], addressClosed <- {},
  doneCh <- FALSE, pc <- "select", event <- "none", targets <- <<>>,
  helper <- <<>>, panicked <- FALSE,
  stream <- [h \in Handlers |-> <<>>], handled <- [h \in Handlers |-> <<>>]

WiringIsAtomic ==
  Wiring!Init /\ [][~raced' => Wiring!Next]_<<registered, subs>>
=============================================================================
