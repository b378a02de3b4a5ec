----------------------------- MODULE EventEngine -----------------------------
(***************************************************************************)
(* The in-process event engine, internal/eventengine/event_engine.go.      *)
(*                                                                         *)
(* Publish puts an event on the buffered channel eventEngineCh and blocks  *)
(* while it is full.  One goroutine, listen, takes events off it and       *)
(* broadcasts each to the addressCh of every subscriber of its name,       *)
(* blocking on a full one.  When an event has so many subscribers that     *)
(* partitionSize reaches maxPartitionSize, the first partition is handed   *)
(* to a new goroutine (a helper) and listen serves the rest.  Once doneCh  *)
(* is closed listen waits for its helpers, closes eventEngineCh, drains    *)
(* what is left on it and closes every addressCh.                          *)
(*                                                                         *)
(* A send on a closed channel and the second close of a channel panic, and *)
(* a panic in any goroutine ends the process: panicked stops every action. *)
(*                                                                         *)
(* One access to the map e.events is one step here; the unsynchronised     *)
(* accesses of the wiring phase are the subject of Startup.                *)
(***************************************************************************)
EXTENDS Naturals, Sequences, FiniteSets, Functions

CONSTANTS
  EventNames,        \* event.EventName
  Events,            \* the events published, each by one call of Publish
  NameOf,            \* NameOf[m]: the Name of event m
  LateEvents,        \* events of publishers that doneCh does not wait for
  Subscribers,       \* the handlers, each with an addressCh of its own
  SubscribeTo,       \* SubscribeTo[s]: s's array subscribeToEventNames
  EngineCap,         \* capacity of eventEngineCh
  AddressCap,        \* capacity of an addressCh
  MaxPartitionSize,  \* const maxPartitionSize
  NoEvent

ASSUME EngineAssumption ==
  /\ NameOf \in [Events -> EventNames]
  /\ LateEvents \subseteq Events
  /\ SubscribeTo \in [Subscribers -> SUBSET EventNames]
  /\ EngineCap \in Nat \ {0}
  /\ AddressCap \in Nat \ {0}
  /\ MaxPartitionSize \in Nat \ {0, 1}   \* 4: a partition fits its slice
  /\ NoEvent \notin Events

VARIABLES
  registered,     \* the keys of e.events
  subs,           \* subs[n]: e.events[n].addressChs
  published,      \* the events whose Publish call has begun
  pending,        \* those blocked at e.eventEngineCh <- event
  engineCh,       \* contents of eventEngineCh
  engineClosed,   \* eventEngineCh has been closed
  addressCh,      \* addressCh[s]: contents of s's channel
  addressClosed,  \* the subscribers whose channel has been closed
  doneCh,         \* DoneCh has been closed
  pc,             \* where listen is: "select", "wait", "drain", "exit"
  event,          \* the event listen is broadcasting, or NoEvent
  targets,        \* the addressChs it still has to send that event to
  helper,         \* helper[m]: those left to the helper of m's broadcast
  panicked,       \* the process died of a panic
  stream,         \* history: stream[s], the events broadcast to s
  handled         \* history: handled[s], the events s took off its channel

wiringVars  == <<registered, subs>>
publishVars == <<published, pending>>
listenVars  == <<pc, event, targets>>
vars == <<wiringVars, publishVars, engineCh, engineClosed, addressCh,
          addressClosed, doneCh, listenVars, helper, panicked, stream, handled>>

TypeOK ==
  /\ registered \subseteq EventNames
  /\ subs \in [EventNames -> Seq(Subscribers)]
  /\ published \subseteq Events
  /\ pending \subseteq published
  /\ engineCh \in Seq(Events)
  /\ Len(engineCh) <= EngineCap
  /\ engineClosed \in BOOLEAN
  /\ addressCh \in [Subscribers -> Seq(Events)]
  /\ \A s \in Subscribers : Len(addressCh[s]) <= AddressCap
  /\ addressClosed \subseteq Subscribers
  /\ doneCh \in BOOLEAN
  /\ pc \in {"select", "wait", "drain", "exit"}
  /\ event \in Events \cup {NoEvent}
  /\ targets \in Seq(Subscribers)
  /\ helper \in [Events -> Seq(Subscribers)]
  /\ panicked \in BOOLEAN
  /\ stream \in [Subscribers -> Seq(Events)]
  /\ handled \in [Subscribers -> Seq(Events)]

(* NewEventEngine, and nothing published yet.                              *)
Idle ==
  /\ published = {}
  /\ pending = {}
  /\ engineCh = <<>>
  /\ engineClosed = FALSE
  /\ addressCh = [s \in Subscribers |-> <<>>]
  /\ addressClosed = {}
  /\ doneCh = FALSE
  /\ pc = "select"
  /\ event = NoEvent
  /\ targets = <<>>
  /\ helper = [m \in Events |-> <<>>]
  /\ panicked = FALSE
  /\ stream = [s \in Subscribers |-> <<>>]
  /\ handled = [s \in Subscribers |-> <<>>]

Init ==
  /\ registered = {}
  /\ subs = [n \in EventNames |-> <<>>]
  /\ Idle

-----------------------------------------------------------------------------
(* Wiring.  Every RegisterEvents call precedes the close of doneCh          *)
(* (server.Run); a handler subscribes from its own goroutine, at any time,  *)
(* once to each name of its array.                                          *)

RegisterEvents(n) ==
  /\ ~panicked
  /\ ~doneCh
  /\ n \notin registered
  /\ registered' = registered \cup {n}
  /\ subs' = [subs EXCEPT ![n] = <<>>]
  /\ UNCHANGED <<publishVars, engineCh, engineClosed, addressCh, addressClosed,
                 doneCh, listenVars, helper, panicked, stream, handled>>

Subscribe(s, n) ==
  /\ ~panicked
  /\ n \in registered
  /\ n \in SubscribeTo[s]
  /\ s \notin Range(subs[n])
  /\ subs' = [subs EXCEPT ![n] = Append(@, s)]
  /\ UNCHANGED <<registered, publishVars, engineCh, engineClosed, addressCh,
                 addressClosed, doneCh, listenVars, helper, panicked, stream,
                 handled>>

-----------------------------------------------------------------------------
(* Publish.  An unregistered name is refused without a change of state.     *)

Publish(m) ==
  /\ ~panicked
  /\ m \notin published
  /\ NameOf[m] \in registered
  /\ doneCh => m \in LateEvents
  /\ published' = published \cup {m}
  /\ pending' = pending \cup {m}
  /\ UNCHANGED <<wiringVars, engineCh, engineClosed, addressCh, addressClosed,
                 doneCh, listenVars, helper, panicked, stream, handled>>

PublishSend(m) ==
  /\ ~panicked
  /\ m \in pending
  /\ ~engineClosed
  /\ Len(engineCh) < EngineCap
  /\ engineCh' = Append(engineCh, m)
  /\ pending' = pending \ {m}
  /\ UNCHANGED <<wiringVars, published, engineClosed, addressCh, addressClosed,
                 doneCh, listenVars, helper, panicked, stream, handled>>

PublishPanic(m) ==
  /\ ~panicked
  /\ m \in pending
  /\ engineClosed
  /\ panicked' = TRUE
  /\ UNCHANGED <<wiringVars, publishVars, engineCh, engineClosed, addressCh,
                 addressClosed, doneCh, listenVars, helper, stream, handled>>

(* Mutant: doneCh is closed while requests still publish.                   *)
CloseDoneChEarly ==
  /\ ~panicked
  /\ ~doneCh
  /\ doneCh' = TRUE
  /\ UNCHANGED <<wiringVars, publishVars, engineCh, engineClosed, addressCh,
                 addressClosed, listenVars, helper, panicked, stream, handled>>

(* server.listenAndServe closes doneCh once every request has returned;     *)
(* only LateEvents may still be on their way.                               *)
CloseDoneCh ==
  /\ ~panicked
  /\ ~doneCh
  /\ pending \subseteq LateEvents
  /\ doneCh' = TRUE
  /\ UNCHANGED <<wiringVars, publishVars, engineCh, engineClosed, addressCh,
                 addressClosed, listenVars, helper, panicked, stream, handled>>

-----------------------------------------------------------------------------
(* broadcaster *)

PartitionSize(chs) == (Len(chs) \div 2) + 1

(* Mutant: every broadcast is handed to a helper.                           *)
SplitAlways(chs) == chs # <<>>

Split(chs) == PartitionSize(chs) >= MaxPartitionSize

(* Mutant: the broadcast without a split does not return (event_engine.go:  *)
(* 134), and falls through to starting a helper.                            *)
OffloadedUnsplit(chs) ==
  IF chs = <<>> THEN <<>> ELSE SubSeq(chs, 1, PartitionSize(chs))

(* The addressChs served by a helper, and those served by listen itself.    *)
Offloaded(chs) ==
  IF Split(chs) THEN SubSeq(chs, 1, PartitionSize(chs)) ELSE <<>>

(* Mutant: the second partition begins one too early.                       *)
InlineOverlap(chs) ==
  IF Split(chs) THEN SubSeq(chs, PartitionSize(chs), Len(chs)) ELSE chs

Inline(chs) ==
  IF Split(chs) THEN SubSeq(chs, PartitionSize(chs) + 1, Len(chs)) ELSE chs

(* listen takes the head of eventEngineCh and starts its broadcast.         *)
Take ==
  LET m   == Head(engineCh)
      chs == subs[NameOf[m]]
  IN  /\ event = NoEvent
      /\ engineCh # <<>>
      /\ engineCh' = Tail(engineCh)
      /\ targets' = Inline(chs)
      /\ event' = IF Inline(chs) = <<>> THEN NoEvent ELSE m
      /\ helper' = [helper EXCEPT ![m] = Offloaded(chs)]
      /\ stream' = [s \in Subscribers |->
                      IF s \in Range(chs) THEN Append(stream[s], m)
                                          ELSE stream[s]]
      /\ UNCHANGED <<wiringVars, publishVars, engineClosed, addressCh,
                     addressClosed, doneCh, pc, panicked, handled>>

(* Mutant: a send that would block is skipped (select with default).        *)
BroadcastSendOrDrop ==
  /\ ~panicked
  /\ targets # <<>>
  /\ LET s == Head(targets)
     IN  addressCh' = IF Len(addressCh[s]) < AddressCap
                      THEN [addressCh EXCEPT ![s] = Append(@, event)]
                      ELSE addressCh
  /\ targets' = Tail(targets)
  /\ event' = IF Tail(targets) = <<>> THEN NoEvent ELSE event
  /\ UNCHANGED <<wiringVars, publishVars, engineCh, engineClosed,
                 addressClosed, doneCh, pc, helper, panicked, stream, handled>>

(* One blocking send of listen's own loop.  Only listen closes an           *)
(* addressCh, as its last step, so this send never meets a closed one.      *)
BroadcastSend ==
  /\ ~panicked
  /\ targets # <<>>
  /\ LET s == Head(targets)
     IN  /\ Len(addressCh[s]) < AddressCap
         /\ addressCh' = [addressCh EXCEPT ![s] = Append(@, event)]
  /\ targets' = Tail(targets)
  /\ event' = IF Tail(targets) = <<>> THEN NoEvent ELSE event
  /\ UNCHANGED <<wiringVars, publishVars, engineCh, engineClosed,
                 addressClosed, doneCh, pc, helper, panicked, stream, handled>>

HelperSend(m) ==
  /\ ~panicked
  /\ helper[m] # <<>>
  /\ LET s == Head(helper[m])
     IN  /\ s \notin addressClosed
         /\ Len(addressCh[s]) < AddressCap
         /\ addressCh' = [addressCh EXCEPT ![s] = Append(@, m)]
  /\ helper' = [helper EXCEPT ![m] = Tail(@)]
  /\ UNCHANGED <<wiringVars, publishVars, engineCh, engineClosed,
                 addressClosed, doneCh, listenVars, panicked, stream, handled>>

HelperPanic(m) ==
  /\ ~panicked
  /\ helper[m] # <<>>
  /\ Head(helper[m]) \in addressClosed
  /\ panicked' = TRUE
  /\ UNCHANGED <<wiringVars, publishVars, engineCh, engineClosed, addressCh,
                 addressClosed, doneCh, listenVars, helper, stream, handled>>

-----------------------------------------------------------------------------
(* listen *)

ListenReceive ==
  /\ ~panicked
  /\ pc = "select"
  /\ Take

ListenDone ==
  /\ ~panicked
  /\ pc = "select"
  /\ event = NoEvent
  /\ doneCh
  /\ pc' = "wait"
  /\ UNCHANGED <<wiringVars, publishVars, engineCh, engineClosed, addressCh,
                 addressClosed, doneCh, event, targets, helper, panicked,
                 stream, handled>>

(* e.wg.Wait() returns, then shutdownEventEngineCh.                         *)
ListenCloseEngineCh ==
  /\ ~panicked
  /\ pc = "wait"
  /\ \A m \in Events : helper[m] = <<>>
  /\ engineClosed' = TRUE
  /\ pc' = "drain"
  /\ UNCHANGED <<wiringVars, publishVars, engineCh, addressCh, addressClosed,
                 doneCh, event, targets, helper, panicked, stream, handled>>

DrainReceive ==
  /\ ~panicked
  /\ pc = "drain"
  /\ Take

Subscribed(s) == \E n \in registered : s \in Range(subs[n])

(* shutdownSubscribersAddressCh closes the channels of every event in turn: *)
(* the channel of a subscriber of two events is closed twice.               *)
ClosedTwice ==
  \E n1, n2 \in registered :
    n1 # n2 /\ Range(subs[n1]) \cap Range(subs[n2]) # {}

(* Mutant: eventEngineCh is not drained first.                              *)
ShutdownUndrained ==
  /\ ~panicked
  /\ pc = "drain"
  /\ event = NoEvent
  /\ addressClosed' = {s \in Subscribers : Subscribed(s)}
  /\ panicked' = ClosedTwice
  /\ pc' = "exit"
  /\ UNCHANGED <<wiringVars, publishVars, engineCh, engineClosed, addressCh,
                 doneCh, event, targets, helper, stream, handled>>

(* Mutant: listen returns without calling shutdownSubscribersAddressCh.     *)
ShutdownSkipped ==
  /\ ~panicked
  /\ pc = "drain"
  /\ event = NoEvent
  /\ engineCh = <<>>
  /\ pc' = "exit"
  /\ UNCHANGED <<wiringVars, publishVars, engineCh, engineClosed, addressCh,
                 addressClosed, doneCh, event, targets, helper, panicked,
                 stream, handled>>

ShutdownSubscribersAddressCh ==
  /\ ~panicked
  /\ pc = "drain"
  /\ event = NoEvent
  /\ engineCh = <<>>
  /\ addressClosed' = {s \in Subscribers : Subscribed(s)}
  /\ panicked' = ClosedTwice
  /\ pc' = "exit"
  /\ UNCHANGED <<wiringVars, publishVars, engineCh, engineClosed, addressCh,
                 doneCh, event, targets, helper, stream, handled>>

-----------------------------------------------------------------------------
(* The loop "for newEvent := range h.addressCh" of a subscriber.            *)
Receive(s) ==
  /\ ~panicked
  /\ addressCh[s] # <<>>
  /\ handled' = [handled EXCEPT ![s] = Append(@, Head(addressCh[s]))]
  /\ addressCh' = [addressCh EXCEPT ![s] = Tail(@)]
  /\ UNCHANGED <<wiringVars, publishVars, engineCh, engineClosed,
                 addressClosed, doneCh, listenVars, helper, panicked, stream>>

(* The process is gone, or everything has stopped.                          *)
Terminated ==
  \/ panicked
  \/ /\ pc = "exit"
     /\ pending = {}
     /\ \A m \in Events : helper[m] = <<>>
     /\ \A s \in Subscribers : addressCh[s] = <<>>

Terminating == Terminated /\ UNCHANGED vars

Listen ==
  \/ ListenReceive
  \/ ListenDone
  \/ ListenCloseEngineCh
  \/ DrainReceive
  \/ ShutdownSubscribersAddressCh

Next ==
  \/ \E n \in EventNames : RegisterEvents(n)
  \/ \E s \in Subscribers, n \in EventNames : Subscribe(s, n)
  \/ \E m \in Events : Publish(m) \/ PublishSend(m) \/ PublishPanic(m)
  \/ CloseDoneCh
  \/ BroadcastSend
  \/ \E m \in Events : HelperSend(m) \/ HelperPanic(m)
  \/ Listen
  \/ \E s \in Subscribers : Receive(s)
  \/ Terminating

Spec == Init /\ [][Next]_vars

(* Every goroutine keeps running; who publishes, wires or asks for the      *)
(* shutdown does so if and when it likes.                                   *)
Fairness ==
  /\ WF_vars(Listen)
  /\ WF_vars(BroadcastSend)
  /\ \A m \in Events : WF_vars(PublishSend(m)) /\ WF_vars(HelperSend(m))
  /\ \A s \in Subscribers : WF_vars(Receive(s))

FairSpec == Spec /\ Fairness

-----------------------------------------------------------------------------
(* Properties.                                                              *)

(* Some event has so many subscribers that its broadcast is split.          *)
SplitFanout == \E n \in EventNames : Split(subs[n])

(* What listen, and what anyone, still owes to s.                           *)
Unsent(s) == IF s \in Range(targets) THEN <<event>> ELSE <<>>

Owed(s) ==
  {m \in Events : s \in Range(helper[m])}
    \cup (IF s \in Range(targets) THEN {event} ELSE {})

(* Without split broadcasts a subscriber gets what was broadcast to it in   *)
(* broadcast order: handled, then buffered, then at most the one event that *)
(* listen is blocked on.  Nothing is lost, repeated or overtaken, whatever  *)
(* the interleaving and however the process ends.                           *)
InOrder ==
  ~SplitFanout =>
    \A s \in Subscribers : stream[s] = handled[s] \o addressCh[s] \o Unsent(s)

(* With split broadcasts too, an event broadcast to s is in exactly one     *)
(* place: handled, in the channel, or owed by listen or by one helper; and  *)
(* it never appears twice.  (Only the order is given up.)                   *)
ExactlyOnce ==
  \A s \in Subscribers :
    LET got == handled[s] \o addressCh[s]
    IN  /\ \A i, j \in DOMAIN got : got[i] = got[j] => i = j
        /\ Range(got) \cap Owed(s) = {}
        /\ Range(got) \cup Owed(s) = Range(stream[s])

(* "find the subscribers to that event and broadcast to each of their       *)
(* addressCh" (event_engine.go:122): once listen has closed the addressChs  *)
(* and returned, no accepted event is waiting to be sent to a subscriber.   *)
NothingOwedAtExit ==
  pc = "exit" =>
    /\ engineCh = <<>>
    /\ \A s \in Subscribers : Owed(s) = {}

(* The inductive invariant.  listen has an event in hand exactly while it   *)
(* has someone to send it to;                                               *)
Busy == event = NoEvent <=> targets = <<>>

(* its phases follow doneCh, and what is closed follows its phases;         *)
Phases ==
  /\ pc # "select" => doneCh
  /\ engineClosed <=> pc \in {"drain", "exit"}
  /\ pc \in {"wait", "exit"} => event = NoEvent
  /\ pc = "exit" => engineCh = <<>>
  /\ addressClosed # {} => pc = "exit"
  /\ doneCh => pending \subseteq LateEvents

(* an accepted event is in eventEngineCh once, and no longer in its Publish;*)
Accepted ==
  /\ IsInjective(engineCh)
  /\ Range(engineCh) \subseteq published
  /\ Range(engineCh) \cap pending = {}

(* a subscriber is in the list of a registered name of its own, once;       *)
Wired ==
  \A n \in EventNames :
    /\ IsInjective(subs[n])
    /\ n \notin registered => subs[n] = <<>>
    /\ \A s \in Range(subs[n]) : n \in SubscribeTo[s]

(* listen owes its event once to each; without splits nobody else owes any. *)
Owing ==
  /\ IsInjective(targets)
  /\ ~SplitFanout => \A m \in Events : helper[m] = <<>>

IndInv == TypeOK /\ Busy /\ Phases /\ Accepted /\ Wired /\ Owing /\ InOrder

(* What ExactlyOnce rests on besides: an event is broadcast to a subscriber *)
(* once, when it is no longer in its Publish or in eventEngineCh;           *)
Streams ==
  \A s \in Subscribers :
    /\ IsInjective(stream[s])
    /\ Range(stream[s]) \subseteq published \ (pending \cup Range(engineCh))

(* and a helper owes its event once to each of its addressChs, none of them *)
(* one that listen serves.                                                  *)
Shares ==
  \A m \in Events :
    /\ IsInjective(helper[m])
    /\ m = event => Range(helper[m]) \cap Range(targets) = {}

OnceInv == IndInv /\ Streams /\ Shares /\ ExactlyOnce

(* A handler whose array subscribeToEventNames has more than one name.      *)
ManyNames == \E s \in Subscribers : \E n1, n2 \in SubscribeTo[s] : n1 # n2

(* A goroutine sends on a closed channel, or closes one twice, for three    *)
(* reasons only, and only once listen has closed eventEngineCh: a publisher *)
(* that nobody waits for is still at its send; a handler has two names, so  *)
(* that its addressCh is in two lists; or the drain loop has split a        *)
(* broadcast, and its helper outlives the addressChs.  No publisher that    *)
(* doneCh waits for ever meets a closed eventEngineCh.                      *)
PanicCauses ==
  panicked =>
    \/ engineClosed /\ pending \cap LateEvents # {}
    \/ pc = "exit" /\ (ManyNames \/ SplitFanout)

(* Every event broadcast to a subscriber is eventually taken by it, unless  *)
(* the process dies.                                                        *)
EveryPromiseSeen ==
  \A s \in Subscribers, m \in Events :
    m \in Range(stream[s]) ~> (m \in Range(handled[s]) \/ panicked)

(* Once doneCh is closed, a handler that has subscribed before listen       *)
(* returns finds its channel closed and empty, unless the process dies: its *)
(* range loop ends and InternalSrvWG.Wait does not hang on it.              *)
HandlersReleased ==
  \A s \in Subscribers :
    (doneCh /\ pc # "exit" /\ Subscribed(s))
      ~> ((s \in addressClosed /\ addressCh[s] = <<>>) \/ panicked)

(* The engine implements the bus.                                           *)
Bus == INSTANCE EventBus WITH
         posted   <- published \ (pending \cup Range(engineCh)),
         promised <- stream,
         seen     <- handled,
         closed   <- addressClosed

BusSpec == Bus!BusSpec
=============================================================================
