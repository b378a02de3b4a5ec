------------------------------ MODULE EventBus ------------------------------
(***************************************************************************)
(* What the event engine promises to the features that use it, with none   *)
(* of its channels or goroutines: an event is posted once, to the          *)
(* subscribers of its name at that moment; each of them sees it exactly    *)
(* once, in the order of posting; nothing is posted to a subscriber whose  *)
(* stream has been closed.  EventEngine implements this specification as   *)
(* long as no event has enough subscribers for its broadcast to be split.  *)
(***************************************************************************)
EXTENDS Naturals, Sequences, Functions

CONSTANTS Events,        \* the events, each one posted at most once
          Subscribers    \* the holders of an addressCh

VARIABLES posted,        \* the events already routed to their subscribers
          promised,      \* promised[s]: the events s is to see, in order
          seen,          \* seen[s]: the events s has seen, in order
          closed         \* the subscribers whose stream has ended

busVars == <<posted, promised, seen, closed>>

BusInit ==
  /\ posted = {}
  /\ promised = [s \in Subscribers |-> <<>>]
  /\ seen = [s \in Subscribers |-> <<>>]
  /\ closed = {}

Post(m, S) ==
  /\ m \notin posted
  /\ S \cap closed = {}
  /\ posted' = posted \cup {m}
  /\ promised' = [s \in Subscribers |->
                    IF s \in S THEN Append(promised[s], m) ELSE promised[s]]
  /\ UNCHANGED <<seen, closed>>

See(s) ==
  /\ Len(seen[s]) < Len(promised[s])
  /\ seen' = [seen EXCEPT ![s] = Append(@, promised[s][Len(@) + 1])]
  /\ UNCHANGED <<posted, promised, closed>>

Close(S) ==
  /\ closed' = closed \cup S
  /\ UNCHANGED <<posted, promised, seen>>

BusNext ==
  \/ \E m \in Events, S \in SUBSET Subscribers : Post(m, S)
  \/ \E s \in Subscribers : See(s)
  \/ \E S \in SUBSET Subscribers : Close(S)

BusSpec == BusInit /\ [][BusNext]_busVars
=============================================================================
