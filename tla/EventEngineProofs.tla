-------------------------- MODULE EventEngineProofs --------------------------
(***************************************************************************)
(* Theorems about EventEngine, for any events, names, subscribers, channel *)
(* capacities and partition size.                                          *)
(***************************************************************************)
EXTENDS EventEngine, SequenceFacts, TLAPS

-----------------------------------------------------------------------------
(* Delivery exactly once.                                                   *)

(* A partition fits the slice it is cut from, and both parts are sequences  *)
(* of subscribers; a broadcast that is not split leaves nothing to a helper.*)
LEMMA BroadcastParts ==
  ASSUME NEW chs \in Seq(Subscribers)
  PROVE  /\ Offloaded(chs) \in Seq(Subscribers)
         /\ Inline(chs) \in Seq(Subscribers)
         /\ ~Split(chs) => Offloaded(chs) = <<>> /\ Inline(chs) = chs
<1>1. Len(chs) \in Nat /\ \A i \in 1 .. Len(chs) : chs[i] \in Subscribers
  BY ElementOfSeq, LenProperties
<1>2. CASE ~Split(chs)
  BY <1>2, EmptySeq DEF Offloaded, Inline
<1>3. CASE Split(chs)
  <2>1. PartitionSize(chs) \in 1 .. Len(chs)
    BY <1>1, <1>3, EngineAssumption DEF Split, PartitionSize
  <2>2. /\ \A i \in 1 .. PartitionSize(chs) : chs[i] \in Subscribers
        /\ \A i \in PartitionSize(chs) + 1 .. Len(chs) : chs[i] \in Subscribers
    BY <1>1, <2>1
  <2>3. SubSeq(chs, 1, PartitionSize(chs)) \in Seq(Subscribers)
    BY <2>1, <2>2, SubSeqProperties
  <2>4. SubSeq(chs, PartitionSize(chs) + 1, Len(chs)) \in Seq(Subscribers)
    BY <1>1, <2>1, <2>2, SubSeqProperties
  <2> QED BY <1>3, <2>3, <2>4 DEF Offloaded, Inline
<1> QED BY <1>2, <1>3

-----------------------------------------------------------------------------
(* Type correctness.                                                        *)

LEMMA InitTypeOK == Init => TypeOK
<1> SUFFICES ASSUME Init PROVE TypeOK
  OBVIOUS
<1>1. /\ <<>> \in Seq(Subscribers)
      /\ <<>> \in Seq(Events)
      /\ Len(<<>>) = 0
  BY EmptySeq
<1>2. Len(engineCh) <= EngineCap /\ \A s \in Subscribers : Len(addressCh[s]) <= AddressCap
  BY <1>1, EngineAssumption DEF Init, Idle
<1> QED BY <1>1, <1>2 DEF Init, Idle, TypeOK

(* A broadcast keeps the types, wherever listen takes its event from.       *)
LEMMA TakeTypeOK == TypeOK /\ Take => TypeOK'
<1> SUFFICES ASSUME TypeOK, Take PROVE TypeOK'
  OBVIOUS
<1> USE EngineAssumption
<1> DEFINE m   == Head(engineCh)
           chs == subs[NameOf[m]]
<1>1. /\ m \in Events
      /\ Tail(engineCh) \in Seq(Events)
      /\ Len(Tail(engineCh)) <= EngineCap
  BY HeadTail, LenProperties DEF Take, TypeOK
<1>2. chs \in Seq(Subscribers)
  BY <1>1 DEF TypeOK
<1>3. Inline(chs) \in Seq(Subscribers) /\ Offloaded(chs) \in Seq(Subscribers)
  BY <1>2, BroadcastParts
<1>4. targets' \in Seq(Subscribers) /\ event' \in Events \cup {NoEvent}
  BY <1>1, <1>3 DEF Take
<1>5. helper' \in [Events -> Seq(Subscribers)]
  BY <1>1, <1>3 DEF Take, TypeOK
<1>6. stream' \in [Subscribers -> Seq(Events)]
  <2>1. \A s \in Subscribers : Append(stream[s], m) \in Seq(Events)
    BY <1>1, AppendProperties DEF TypeOK
  <2> QED BY <2>1 DEF Take, TypeOK
<1> QED BY <1>1, <1>4, <1>5, <1>6
        DEF Take, TypeOK, wiringVars, publishVars

LEMMA NextTypeOK == TypeOK /\ Busy /\ [Next]_vars => TypeOK'
<1> SUFFICES ASSUME TypeOK, Busy, [Next]_vars PROVE TypeOK'
  OBVIOUS
<1> USE EngineAssumption
<1> USE DEF wiringVars, publishVars, listenVars
<1>1. ASSUME NEW n \in EventNames, RegisterEvents(n) PROVE TypeOK'
  BY <1>1, EmptySeq DEF RegisterEvents, TypeOK
<1>2. ASSUME NEW s \in Subscribers, NEW n \in EventNames, Subscribe(s, n)
      PROVE  TypeOK'
  <2>1. Append(subs[n], s) \in Seq(Subscribers)
    BY AppendProperties DEF TypeOK
  <2> QED BY <1>2, <2>1 DEF Subscribe, TypeOK
<1>3. ASSUME NEW m \in Events, Publish(m) PROVE TypeOK'
  BY <1>3 DEF Publish, TypeOK
<1>4. ASSUME NEW m \in Events, PublishSend(m) PROVE TypeOK'
  <2>1. /\ Append(engineCh, m) \in Seq(Events)
        /\ Len(Append(engineCh, m)) = Len(engineCh) + 1
        /\ Len(engineCh) \in Nat
    BY AppendProperties, LenProperties DEF TypeOK
  <2>2. engineCh' \in Seq(Events) /\ Len(engineCh') <= EngineCap
    BY <1>4, <2>1 DEF PublishSend
  <2> QED BY <1>4, <2>2 DEF PublishSend, TypeOK
<1>5. ASSUME NEW m \in Events, PublishPanic(m) PROVE TypeOK'
  BY <1>5 DEF PublishPanic, TypeOK
<1>6. CASE CloseDoneCh
  BY <1>6 DEF CloseDoneCh, TypeOK
<1>7. CASE BroadcastSend
  <2> DEFINE s == Head(targets)
  <2>1. event \in Events /\ s \in Subscribers /\ Tail(targets) \in Seq(Subscribers)
    BY <1>7, HeadTail DEF BroadcastSend, TypeOK, Busy
  <2>2. addressCh' \in [Subscribers -> Seq(Events)]
    BY <1>7, <2>1, AppendProperties DEF BroadcastSend, TypeOK
  <2>3. \A t \in Subscribers : Len(addressCh'[t]) <= AddressCap
    <3>1. Len(Append(addressCh[s], event)) = Len(addressCh[s]) + 1
      BY <2>1, AppendProperties DEF TypeOK
    <3>2. Len(addressCh[s]) \in Nat /\ Len(addressCh[s]) < AddressCap
      BY <1>7, <2>1, LenProperties DEF BroadcastSend, TypeOK
    <3>3. \A t \in Subscribers :
            addressCh'[t] = IF t = s THEN Append(addressCh[s], event) ELSE addressCh[t]
      BY <1>7, <2>1 DEF BroadcastSend, TypeOK
    <3>4. Len(Append(addressCh[s], event)) <= AddressCap
      BY <3>1, <3>2
    <3>5. \A t \in Subscribers : Len(addressCh[t]) <= AddressCap
      BY DEF TypeOK
    <3> QED BY <3>3, <3>4, <3>5
  <2>4. event' \in Events \cup {NoEvent} /\ targets' \in Seq(Subscribers)
    BY <1>7, <2>1 DEF BroadcastSend
  <2> QED BY <1>7, <2>2, <2>3, <2>4 DEF BroadcastSend, TypeOK
<1>8. ASSUME NEW m \in Events, HelperSend(m) PROVE TypeOK'
  <2> DEFINE s == Head(helper[m])
  <2>1. s \in Subscribers /\ Tail(helper[m]) \in Seq(Subscribers)
    BY <1>8, HeadTail DEF HelperSend, TypeOK
  <2>2. addressCh' \in [Subscribers -> Seq(Events)]
    BY <1>8, <2>1, AppendProperties DEF HelperSend, TypeOK
  <2>3. \A t \in Subscribers : Len(addressCh'[t]) <= AddressCap
    <3>1. Len(Append(addressCh[s], m)) = Len(addressCh[s]) + 1
      BY <2>1, AppendProperties DEF TypeOK
    <3>2. Len(addressCh[s]) \in Nat /\ Len(addressCh[s]) < AddressCap
      BY <1>8, <2>1, LenProperties DEF HelperSend, TypeOK
    <3>3. \A t \in Subscribers :
            addressCh'[t] = IF t = s THEN Append(addressCh[s], m) ELSE addressCh[t]
      BY <1>8, <2>1 DEF HelperSend, TypeOK
    <3>4. Len(Append(addressCh[s], m)) <= AddressCap
      BY <3>1, <3>2
    <3>5. \A t \in Subscribers : Len(addressCh[t]) <= AddressCap
      BY DEF TypeOK
    <3> QED BY <3>3, <3>4, <3>5
  <2>4. helper' \in [Events -> Seq(Subscribers)]
    BY <1>8, <2>1 DEF HelperSend, TypeOK
  <2> QED BY <1>8, <2>2, <2>3, <2>4 DEF HelperSend, TypeOK
<1>9. ASSUME NEW m \in Events, HelperPanic(m) PROVE TypeOK'
  BY <1>9 DEF HelperPanic, TypeOK
<1>10. CASE ListenReceive
  BY <1>10, TakeTypeOK DEF ListenReceive
<1>11. CASE ListenDone
  BY <1>11 DEF ListenDone, TypeOK
<1>12. CASE ListenCloseEngineCh
  BY <1>12 DEF ListenCloseEngineCh, TypeOK
<1>13. CASE DrainReceive
  BY <1>13, TakeTypeOK DEF DrainReceive
<1>14. CASE ShutdownSubscribersAddressCh
  BY <1>14 DEF ShutdownSubscribersAddressCh, ClosedTwice, TypeOK
<1>15. ASSUME NEW s \in Subscribers, Receive(s) PROVE TypeOK'
  <2>1. /\ Head(addressCh[s]) \in Events
        /\ Tail(addressCh[s]) \in Seq(Events)
        /\ Len(Tail(addressCh[s])) = Len(addressCh[s]) - 1
        /\ Len(addressCh[s]) \in Nat
    BY <1>15, HeadTail, LenProperties DEF Receive, TypeOK
  <2>2. Append(handled[s], Head(addressCh[s])) \in Seq(Events)
    BY <2>1, AppendProperties DEF TypeOK
  <2>3. \A t \in Subscribers : Len(addressCh'[t]) <= AddressCap
    BY <1>15, <2>1 DEF Receive, TypeOK
  <2> QED BY <1>15, <2>1, <2>2, <2>3 DEF Receive, TypeOK
<1>16. CASE Terminating
  BY <1>16 DEF Terminating, vars, TypeOK
<1>17. CASE UNCHANGED vars
  BY <1>17 DEF vars, TypeOK
<1> QED
  BY <1>1, <1>2, <1>3, <1>4, <1>5, <1>6, <1>7, <1>8, <1>9, <1>10, <1>11, <1>12,
     <1>13, <1>14, <1>15, <1>16, <1>17
  DEF Next, Listen

-----------------------------------------------------------------------------
(* Which steps touch what.                                                  *)

LEMMA ListenSteps ==
  [Next]_vars => \/ pc = "select" /\ Take
                 \/ pc = "drain" /\ Take
                 \/ BroadcastSend
                 \/ UNCHANGED <<event, targets>>
BY DEF Next, Listen, vars, wiringVars, publishVars, listenVars, RegisterEvents,
       Subscribe, Publish, PublishSend, PublishPanic, CloseDoneCh, HelperSend,
       HelperPanic, ListenReceive, ListenDone, ListenCloseEngineCh, DrainReceive,
       ShutdownSubscribersAddressCh, Receive, Terminating

LEMMA WiringSteps ==
  [Next]_vars => \/ \E n \in EventNames : RegisterEvents(n)
                 \/ \E s \in Subscribers, n \in EventNames : Subscribe(s, n)
                 \/ UNCHANGED <<registered, subs>>
BY DEF Next, Listen, vars, wiringVars, publishVars, listenVars, Take, Publish,
       PublishSend, PublishPanic, CloseDoneCh, BroadcastSend, HelperSend,
       HelperPanic, ListenReceive, ListenDone, ListenCloseEngineCh, DrainReceive,
       ShutdownSubscribersAddressCh, Receive, Terminating

LEMMA PublishSteps ==
  [Next]_vars => \/ \E m \in Events : Publish(m) \/ PublishSend(m)
                 \/ /\ engineCh # <<>> /\ engineCh' = Tail(engineCh)
                    /\ UNCHANGED <<published, pending>>
                 \/ UNCHANGED <<published, pending, engineCh>>
BY DEF Next, Listen, vars, wiringVars, publishVars, listenVars, Take,
       RegisterEvents, Subscribe, PublishPanic, CloseDoneCh, BroadcastSend,
       HelperSend, HelperPanic, ListenReceive, ListenDone, ListenCloseEngineCh,
       DrainReceive, ShutdownSubscribersAddressCh, Receive, Terminating

LEMMA HelperSteps ==
  [Next]_vars => \/ Take
                 \/ \E m \in Events : HelperSend(m)
                 \/ UNCHANGED helper
BY DEF Next, Listen, vars, wiringVars, publishVars, listenVars, RegisterEvents,
       Subscribe, Publish, PublishSend, PublishPanic, CloseDoneCh, BroadcastSend,
       HelperPanic, ListenReceive, ListenDone, ListenCloseEngineCh, DrainReceive,
       ShutdownSubscribersAddressCh, Receive, Terminating

LEMMA StreamSteps ==
  [Next]_vars => \/ Take
                 \/ BroadcastSend
                 \/ \E m \in Events : HelperSend(m)
                 \/ \E s \in Subscribers : Receive(s)
                 \/ UNCHANGED <<event, targets, addressCh, stream, handled>>
BY DEF Next, Listen, vars, wiringVars, publishVars, listenVars, RegisterEvents,
       Subscribe, Publish, PublishSend, PublishPanic, CloseDoneCh, HelperPanic,
       ListenReceive, ListenDone, ListenCloseEngineCh, DrainReceive,
       ShutdownSubscribersAddressCh, Terminating

-----------------------------------------------------------------------------
(* The parts of the inductive invariant, one by one.                        *)

(* Taking an event, listen has it in hand exactly if it sends to someone;   *)
(* the last send puts it down.                                              *)
LEMMA NextBusy == TypeOK /\ Busy /\ [Next]_vars => Busy'
<1> SUFFICES ASSUME TypeOK, Busy, [Next]_vars PROVE Busy'
  OBVIOUS
<1>1. CASE Take
  <2>1. Head(engineCh) \in Events
    BY <1>1, HeadTail DEF Take, TypeOK
  <2>2. Head(engineCh) # NoEvent
    BY <2>1, EngineAssumption
  <2> QED BY <1>1, <2>2 DEF Take, Busy
<1>2. CASE BroadcastSend
  BY <1>2 DEF BroadcastSend, Busy
<1>3. CASE UNCHANGED <<event, targets>>
  BY <1>3 DEF Busy
<1> QED BY <1>1, <1>2, <1>3, ListenSteps

LEMMA NextPhases == TypeOK /\ Busy /\ Phases /\ [Next]_vars => Phases'
<1> SUFFICES ASSUME TypeOK, Busy, Phases, [Next]_vars PROVE Phases'
  OBVIOUS
<1> USE DEF Phases, wiringVars, publishVars, listenVars
<1>1. ASSUME NEW n \in EventNames, RegisterEvents(n) PROVE Phases'
  BY <1>1 DEF RegisterEvents
<1>2. ASSUME NEW s \in Subscribers, NEW n \in EventNames, Subscribe(s, n)
      PROVE  Phases'
  BY <1>2 DEF Subscribe
<1>3. ASSUME NEW m \in Events, Publish(m) PROVE Phases'
  BY <1>3 DEF Publish
<1>4. ASSUME NEW m \in Events, PublishSend(m) PROVE Phases'
  BY <1>4 DEF PublishSend
<1>5. ASSUME NEW m \in Events, PublishPanic(m) PROVE Phases'
  BY <1>5 DEF PublishPanic
<1>6. CASE CloseDoneCh
  BY <1>6 DEF CloseDoneCh
<1>7. CASE BroadcastSend
  BY <1>7 DEF BroadcastSend, Busy
<1>8. ASSUME NEW m \in Events, HelperSend(m) PROVE Phases'
  BY <1>8 DEF HelperSend
<1>9. ASSUME NEW m \in Events, HelperPanic(m) PROVE Phases'
  BY <1>9 DEF HelperPanic
<1>10. CASE ListenReceive
  BY <1>10 DEF ListenReceive, Take
<1>11. CASE ListenDone
  BY <1>11 DEF ListenDone
<1>12. CASE ListenCloseEngineCh
  BY <1>12 DEF ListenCloseEngineCh
<1>13. CASE DrainReceive
  BY <1>13 DEF DrainReceive, Take
<1>14. CASE ShutdownSubscribersAddressCh
  BY <1>14 DEF ShutdownSubscribersAddressCh
<1>15. ASSUME NEW s \in Subscribers, Receive(s) PROVE Phases'
  BY <1>15 DEF Receive
<1>16. CASE UNCHANGED vars
  BY <1>16 DEF vars
<1> QED
  BY <1>1, <1>2, <1>3, <1>4, <1>5, <1>6, <1>7, <1>8, <1>9, <1>10, <1>11, <1>12,
     <1>13, <1>14, <1>15, <1>16
  DEF Next, Listen, Terminating

LEMMA NextAccepted == TypeOK /\ Accepted /\ [Next]_vars => Accepted'
<1> SUFFICES ASSUME TypeOK, Accepted, [Next]_vars PROVE Accepted'
  OBVIOUS
<1>1. ASSUME NEW m \in Events, Publish(m) PROVE Accepted'
  BY <1>1 DEF Publish, Accepted
<1>2. ASSUME NEW m \in Events, PublishSend(m) PROVE Accepted'
  <2>1. engineCh \in Seq(Events) /\ m \notin Range(engineCh) /\ m \in published
    BY <1>2 DEF PublishSend, Accepted, TypeOK
  <2>2. Range(engineCh') = Range(engineCh) \cup {m}
    BY <1>2, <2>1, RangeAppend DEF PublishSend
  <2>3. IsInjective(engineCh')
    BY <1>2, <2>1, InjectiveAppend DEF PublishSend, Accepted
  <2> QED BY <1>2, <2>1, <2>2, <2>3 DEF PublishSend, Accepted
<1>3. ASSUME engineCh # <<>>, engineCh' = Tail(engineCh),
             UNCHANGED <<published, pending>>
      PROVE  Accepted'
  <2>1. Range(engineCh') \subseteq Range(engineCh) /\ IsInjective(engineCh')
    BY <1>3, RangeHeadTail DEF Accepted, TypeOK
  <2> QED BY <1>3, <2>1 DEF Accepted
<1>4. CASE UNCHANGED <<published, pending, engineCh>>
  BY <1>4 DEF Accepted
<1> QED BY <1>1, <1>2, <1>3, <1>4, PublishSteps

(* Registering a name leaves the lists as they are; subscribing adds one.   *)
LEMMA RegisterKeepsSubs ==
  ASSUME TypeOK, Wired, NEW n \in EventNames, RegisterEvents(n)
  PROVE  UNCHANGED subs
BY DEF RegisterEvents, Wired, TypeOK

LEMMA NextWired == TypeOK /\ Wired /\ [Next]_vars => Wired'
<1> SUFFICES ASSUME TypeOK, Wired, [Next]_vars PROVE Wired'
  OBVIOUS
<1>1. ASSUME NEW n \in EventNames, RegisterEvents(n) PROVE Wired'
  BY <1>1, RegisterKeepsSubs DEF RegisterEvents, Wired
<1>2. ASSUME NEW s \in Subscribers, NEW n \in EventNames, Subscribe(s, n)
      PROVE  Wired'
  <2>1. subs[n] \in Seq(Subscribers) /\ s \notin Range(subs[n])
    BY <1>2 DEF Subscribe, TypeOK
  <2>2. /\ IsInjective(Append(subs[n], s))
        /\ Range(Append(subs[n], s)) = Range(subs[n]) \cup {s}
    BY <2>1, RangeAppend, InjectiveAppend DEF Wired
  <2>3. \A k \in EventNames :
          subs'[k] = IF k = n THEN Append(subs[n], s) ELSE subs[k]
    BY <1>2 DEF Subscribe, TypeOK
  <2> QED BY <1>2, <2>2, <2>3 DEF Subscribe, Wired
<1>3. CASE UNCHANGED <<registered, subs>>
  BY <1>3 DEF Wired
<1> QED BY <1>1, <1>2, <1>3, WiringSteps

(* A list only grows, so a split broadcast stays split.                     *)
LEMMA SplitGrows ==
  TypeOK /\ Wired /\ [Next]_vars /\ SplitFanout => SplitFanout'
<1> SUFFICES ASSUME TypeOK, Wired, [Next]_vars,
                    NEW k \in EventNames, Split(subs[k])
             PROVE  Split(subs'[k])
  BY DEF SplitFanout
<1>1. ASSUME NEW n \in EventNames, RegisterEvents(n) PROVE Split(subs'[k])
  BY <1>1, RegisterKeepsSubs
<1>2. ASSUME NEW s \in Subscribers, NEW n \in EventNames, Subscribe(s, n)
      PROVE  Split(subs'[k])
  <2>1. subs'[k] = IF k = n THEN Append(subs[k], s) ELSE subs[k]
    BY <1>2 DEF Subscribe, TypeOK
  <2>2. Len(Append(subs[k], s)) = Len(subs[k]) + 1 /\ Len(subs[k]) \in Nat
    BY AppendProperties, LenProperties DEF TypeOK
  <2>3. Split(Append(subs[k], s))
    <3>1. (Len(subs[k]) \div 2) + 1 >= MaxPartitionSize
      BY DEF Split, PartitionSize
    <3>2. \A l \in Nat : /\ l \div 2 \in Nat
                         /\ (l + 1) \div 2 \in Nat
                         /\ (l + 1) \div 2 >= l \div 2
      OBVIOUS
    <3>3. \A x, y, z \in Nat : x + 1 >= z /\ y >= x => y + 1 >= z
      OBVIOUS
    <3>4. ((Len(subs[k]) + 1) \div 2) + 1 >= MaxPartitionSize
      <4>1. /\ Len(subs[k]) \div 2 \in Nat
            /\ (Len(subs[k]) + 1) \div 2 \in Nat
            /\ (Len(subs[k]) + 1) \div 2 >= Len(subs[k]) \div 2
        BY <2>2, <3>2
      <4>2. MaxPartitionSize \in Nat
        BY EngineAssumption
      <4> QED BY <3>1, <3>3, <4>1, <4>2
    <3>5. (Len(Append(subs[k], s)) \div 2) + 1 >= MaxPartitionSize
      BY <2>2, <3>4
    <3> QED BY <3>5 DEF Split, PartitionSize
  <2> QED BY <2>1, <2>3
<1>3. CASE UNCHANGED <<registered, subs>>
  BY <1>3
<1> QED BY <1>1, <1>2, <1>3, WiringSteps

(* A part of a list without repetitions has none.                           *)
LEMMA InlineInjective ==
  ASSUME NEW chs \in Seq(Subscribers), IsInjective(chs)
  PROVE  IsInjective(Inline(chs))
<1>1. CASE ~Split(chs)
  BY <1>1, BroadcastParts
<1>2. CASE Split(chs)
  <2> DEFINE k == PartitionSize(chs)
             t == SubSeq(chs, k + 1, Len(chs))
  <2>1. Len(chs) \in Nat /\ DOMAIN chs = 1 .. Len(chs) /\ k \in 1 .. Len(chs)
    BY <1>2, LenProperties, EngineAssumption DEF Split, PartitionSize
  <2>2. \A i \in k + 1 .. Len(chs) : chs[i] \in Subscribers
    BY <2>1, ElementOfSeq
  <2> HIDE DEF k
  <2>3. /\ t \in Seq(Subscribers)
        /\ Len(t) = IF k + 1 <= Len(chs) THEN Len(chs) - (k + 1) + 1 ELSE 0
        /\ \A i \in 1 .. Len(chs) - (k + 1) + 1 : t[i] = chs[k + 1 + i - 1]
    BY <2>1, <2>2, SubSeqProperties
  <2> HIDE DEF t
  <2>4. Len(t) = Len(chs) - k /\ \A i \in 1 .. Len(chs) - k : t[i] = chs[k + i]
    <3>1. Len(chs) - (k + 1) + 1 = Len(chs) - k
      BY <2>1
    <3>2. \A i \in 1 .. Len(chs) - k : k + 1 + i - 1 = k + i
      BY <2>1
    <3>3. ~(k + 1 <= Len(chs)) => Len(chs) - k = 0
      <4>1. \A l, i \in Nat : i <= l /\ ~(i + 1 <= l) => l - i = 0
        OBVIOUS
      <4>2. k \in Nat /\ k <= Len(chs) /\ Len(chs) \in Nat
        BY <2>1
      <4> QED BY <4>1, <4>2
    <3> QED BY <2>3, <3>1, <3>2, <3>3
  <2>5. DOMAIN t = 1 .. Len(chs) - k
    BY <2>3, <2>4, LenProperties
  <2>6. ASSUME NEW i \in 1 .. Len(chs) - k, NEW j \in 1 .. Len(chs) - k,
               t[i] = t[j]
        PROVE  i = j
    <3>1. k + i \in DOMAIN chs /\ k + j \in DOMAIN chs
      BY <2>1
    <3>2. chs[k + i] = chs[k + j]
      BY <2>4, <2>6
    <3>3. k + i = k + j
      BY <3>1, <3>2 DEF IsInjective
    <3> QED BY <2>1, <3>3
  <2>7. IsInjective(t)
    BY <2>5, <2>6 DEF IsInjective
  <2> QED BY <1>2, <2>7 DEF Inline, t, k
<1> QED BY <1>1, <1>2

LEMMA NextOwing ==
  TypeOK /\ Wired /\ Owing /\ [Next]_vars => Owing'
<1> SUFFICES ASSUME TypeOK, Wired, Owing, [Next]_vars PROVE Owing'
  OBVIOUS
<1>1. IsInjective(targets')
  <2>1. CASE Take
    <3>1. Head(engineCh) \in Events
      BY <2>1, HeadTail DEF Take, TypeOK
    <3>2. /\ subs[NameOf[Head(engineCh)]] \in Seq(Subscribers)
          /\ IsInjective(subs[NameOf[Head(engineCh)]])
      BY <3>1, EngineAssumption DEF TypeOK, Wired
    <3> QED BY <2>1, <3>2, InlineInjective DEF Take
  <2>2. CASE BroadcastSend
    BY <2>2, RangeHeadTail DEF BroadcastSend, Owing, TypeOK
  <2>3. CASE UNCHANGED <<event, targets>>
    BY <2>3 DEF Owing
  <2> QED BY <2>1, <2>2, <2>3, ListenSteps
<1>2. ASSUME ~SplitFanout', NEW m \in Events PROVE helper'[m] = <<>>
  <2>1. ~SplitFanout /\ \A k \in Events : helper[k] = <<>>
    BY <1>2, SplitGrows DEF Owing
  <2>2. CASE Take
    <3> DEFINE e   == Head(engineCh)
               chs == subs[NameOf[e]]
    <3>1. e \in Events
      BY <2>2, HeadTail DEF Take, TypeOK
    <3>2. chs \in Seq(Subscribers) /\ ~Split(chs)
      BY <2>1, <3>1, EngineAssumption DEF TypeOK, SplitFanout
    <3>3. Offloaded(chs) = <<>>
      BY <3>2, BroadcastParts
    <3>4. helper' = [helper EXCEPT ![e] = Offloaded(chs)]
      BY <2>2 DEF Take
    <3> QED BY <2>1, <3>1, <3>3, <3>4 DEF TypeOK
  <2>3. ASSUME NEW k \in Events, HelperSend(k) PROVE helper'[m] = <<>>
    BY <2>1, <2>3 DEF HelperSend
  <2>4. CASE UNCHANGED helper
    BY <2>1, <2>4
  <2> QED BY <2>2, <2>3, <2>4, HelperSteps
<1> QED BY <1>1, <1>2 DEF Owing

-----------------------------------------------------------------------------
(* Order of delivery.                                                       *)

(* Taking an event and starting its broadcast, not split.                   *)
LEMMA TakeInOrder ==
  ASSUME TypeOK, Busy, Wired, Owing, InOrder, Take, ~SplitFanout, UNCHANGED subs
  PROVE  \A s \in Subscribers : stream'[s] = handled'[s] \o addressCh'[s] \o Unsent(s)'
<1> SUFFICES ASSUME NEW s \in Subscribers
             PROVE  stream'[s] = handled'[s] \o addressCh'[s] \o Unsent(s)'
  OBVIOUS
<1> DEFINE m   == Head(engineCh)
           chs == subs[NameOf[m]]
           had == handled[s] \o addressCh[s]
<1>1. m \in Events /\ chs \in Seq(Subscribers) /\ ~Split(chs)
  BY HeadTail, EngineAssumption DEF Take, TypeOK, SplitFanout
<1>2. /\ targets' = chs
      /\ event' = IF chs = <<>> THEN NoEvent ELSE m
      /\ stream'[s] = IF s \in Range(chs) THEN Append(stream[s], m) ELSE stream[s]
      /\ UNCHANGED <<handled, addressCh>>
  BY <1>1, BroadcastParts DEF Take
<1>3. had \in Seq(Events)
  BY ConcatProperties DEF TypeOK
<1>4. stream[s] = had
  <2>1. targets = <<>>
    BY DEF Take, Busy
  <2>2. Unsent(s) = <<>>
    BY <2>1 DEF Unsent, Range
  <2> QED BY <1>3, <2>2, ConcatEmptySeq DEF InOrder
<1>5. CASE s \in Range(chs)
  <2>1. chs # <<>>
    BY <1>5 DEF Range
  <2>2. Unsent(s)' = <<m>>
    BY <1>2, <1>5, <2>1 DEF Unsent
  <2>3. Append(had, m) = had \o <<m>>
    BY <1>1, <1>3, AppendIsConcat
  <2> QED BY <1>2, <1>4, <1>5, <2>2, <2>3
<1>6. CASE s \notin Range(chs)
  <2>1. Unsent(s)' = <<>>
    BY <1>2, <1>6 DEF Unsent
  <2> QED BY <1>2, <1>3, <1>4, <1>6, <2>1, ConcatEmptySeq
<1> QED BY <1>5, <1>6

(* One send of listen: its event goes from Unsent to the end of a channel.  *)
LEMMA SendInOrder ==
  ASSUME TypeOK, Busy, Owing, InOrder, BroadcastSend, ~SplitFanout
  PROVE  \A s \in Subscribers : stream'[s] = handled'[s] \o addressCh'[s] \o Unsent(s)'
<1> SUFFICES ASSUME NEW s \in Subscribers
             PROVE  stream'[s] = handled'[s] \o addressCh'[s] \o Unsent(s)'
  OBVIOUS
<1> DEFINE h == Head(targets)
<1>1. /\ event \in Events
      /\ h \in Subscribers
      /\ Tail(targets) \in Seq(Subscribers)
      /\ Range(targets) = {h} \cup Range(Tail(targets))
      /\ h \notin Range(Tail(targets))
  BY HeadTail, RangeHeadTail DEF BroadcastSend, TypeOK, Busy, Owing
<1>2. /\ addressCh' = [addressCh EXCEPT ![h] = Append(@, event)]
      /\ targets' = Tail(targets)
      /\ event' = IF Tail(targets) = <<>> THEN NoEvent ELSE event
      /\ UNCHANGED <<stream, handled>>
  BY DEF BroadcastSend
<1>3. stream[s] = handled[s] \o addressCh[s] \o Unsent(s)
  BY DEF InOrder
<1>4. handled[s] \in Seq(Events) /\ addressCh[s] \in Seq(Events)
  BY DEF TypeOK
<1>5. CASE s = h
  <2>1. Unsent(s) = <<event>> /\ Unsent(s)' = <<>>
    BY <1>1, <1>2, <1>5 DEF Unsent
  <2>2. addressCh'[s] = Append(addressCh[s], event)
    BY <1>1, <1>2, <1>5 DEF TypeOK
  <2>3. handled[s] \o Append(addressCh[s], event)
          = (handled[s] \o addressCh[s]) \o <<event>>
    <3> DEFINE p == handled[s]
               q == addressCh[s]
    <3>1. p \in Seq(Events) /\ q \in Seq(Events)
      BY <1>4
    <3> HIDE DEF p, q
    <3>2. p \o Append(q, event) = (p \o q) \o <<event>>
      BY <1>1, <3>1, ConcatAppend
    <3> QED BY <3>2 DEF p, q
  <2>4. handled[s] \o Append(addressCh[s], event) \in Seq(Events)
    BY <1>1, <1>4, AppendProperties, ConcatProperties
  <2>5. handled[s] \o Append(addressCh[s], event) \o <<>>
          = handled[s] \o Append(addressCh[s], event)
    BY <2>4, ConcatEmptySeq
  <2> QED BY <1>2, <1>3, <2>1, <2>2, <2>3, <2>5
<1>6. CASE s # h
  <2>1. addressCh'[s] = addressCh[s]
    BY <1>2, <1>6 DEF TypeOK
  <2>2. s \in Range(targets) <=> s \in Range(targets')
    BY <1>1, <1>2, <1>6
  <2>3. s \in Range(targets') => event' = event
    BY <1>2 DEF Range
  <2>4. Unsent(s)' = Unsent(s)
    BY <2>2, <2>3 DEF Unsent
  <2> QED BY <1>2, <1>3, <2>1, <2>4
<1> QED BY <1>5, <1>6

(* A handler takes the head of its channel.                                 *)
LEMMA ReceiveInOrder ==
  ASSUME TypeOK, InOrder, NEW r \in Subscribers, Receive(r), ~SplitFanout
  PROVE  \A s \in Subscribers : stream'[s] = handled'[s] \o addressCh'[s] \o Unsent(s)'
<1> SUFFICES ASSUME NEW s \in Subscribers
             PROVE  stream'[s] = handled'[s] \o addressCh'[s] \o Unsent(s)'
  OBVIOUS
<1>1. stream[s] = handled[s] \o addressCh[s] \o Unsent(s)
  BY DEF InOrder
<1>2. Unsent(s)' = Unsent(s) /\ stream' = stream
  BY DEF Receive, Unsent, listenVars
<1>3. handled'[s] \o addressCh'[s] = handled[s] \o addressCh[s]
  <2>1. CASE s = r
    <3>1. /\ handled'[s] = Append(handled[s], Head(addressCh[s]))
          /\ addressCh'[s] = Tail(addressCh[s])
      BY <2>1 DEF Receive, TypeOK
    <3>2. /\ handled[s] \in Seq(Events)
          /\ addressCh[s] \in Seq(Events)
          /\ addressCh[s] # <<>>
      BY <2>1 DEF Receive, TypeOK
    <3>3. Append(handled[s], Head(addressCh[s])) \o Tail(addressCh[s])
            = handled[s] \o addressCh[s]
      BY <3>2, MoveHead
    <3> QED BY <3>1, <3>3
  <2>2. CASE s # r
    BY <2>2 DEF Receive, TypeOK
  <2> QED BY <2>1, <2>2
<1> QED BY <1>1, <1>2, <1>3

LEMMA NextInOrder ==
  TypeOK /\ Busy /\ Wired /\ Owing /\ InOrder /\ [Next]_vars => InOrder'
<1> SUFFICES ASSUME TypeOK, Busy, Wired, Owing, InOrder, [Next]_vars,
                    ~SplitFanout'
             PROVE  \A s \in Subscribers :
                      stream'[s] = handled'[s] \o addressCh'[s] \o Unsent(s)'
  BY DEF InOrder
<1>1. ~SplitFanout /\ \A m \in Events : helper[m] = <<>>
  BY SplitGrows DEF Owing
<1>2. CASE Take
  BY <1>1, <1>2, TakeInOrder DEF Take, wiringVars
<1>3. CASE BroadcastSend
  BY <1>1, <1>3, SendInOrder
<1>4. ASSUME NEW m \in Events, HelperSend(m) PROVE FALSE
  BY <1>1, <1>4 DEF HelperSend
<1>5. ASSUME NEW r \in Subscribers, Receive(r)
      PROVE  \A s \in Subscribers :
               stream'[s] = handled'[s] \o addressCh'[s] \o Unsent(s)'
  BY <1>1, <1>5, ReceiveInOrder
<1>6. CASE UNCHANGED <<event, targets, addressCh, stream, handled>>
  BY <1>1, <1>6 DEF InOrder, Unsent
<1> QED BY <1>2, <1>3, <1>4, <1>5, <1>6, StreamSteps

-----------------------------------------------------------------------------
(* The theorems.                                                            *)

LEMMA IdleIndInv ==
  ASSUME Idle, registered \subseteq EventNames, Wired,
         subs \in [EventNames -> Seq(Subscribers)]
  PROVE  IndInv
<1>1. TypeOK
  <2>1. \A S : <<>> \in Seq(S) /\ Len(<<>>) = 0
    BY EmptySeq
  <2>2. 0 <= EngineCap /\ 0 <= AddressCap
    BY EngineAssumption
  <2> QED BY <2>1, <2>2 DEF Idle, TypeOK
<1>2. Range(<<>>) = {} /\ IsInjective(<<>>) /\ <<>> \o <<>> \o <<>> = <<>>
  <2>1. <<>> \in Seq(Events) /\ DOMAIN <<>> = {}
    BY EmptySeq
  <2> QED BY <2>1, ConcatEmptySeq DEF Range, IsInjective
<1>3. Busy /\ Phases /\ Accepted /\ Owing
  BY <1>2 DEF Idle, Busy, Phases, Accepted, Owing
<1>4. InOrder
  BY <1>2 DEF Idle, InOrder, Unsent
<1> QED BY <1>1, <1>3, <1>4 DEF IndInv

LEMMA InitIndInv == Init => IndInv
<1> SUFFICES ASSUME Init PROVE IndInv
  OBVIOUS
<1>1. Idle /\ registered \subseteq EventNames
  BY DEF Init
<1>2. subs \in [EventNames -> Seq(Subscribers)]
  BY InitTypeOK DEF TypeOK
<1>3. Wired
  <2>1. Range(<<>>) = {} /\ IsInjective(<<>>)
    BY DEF Range, IsInjective
  <2> QED BY <2>1 DEF Init, Wired
<1> QED BY <1>1, <1>2, <1>3, IdleIndInv

LEMMA NextIndInv == IndInv /\ [Next]_vars => IndInv'
BY NextTypeOK, NextBusy, NextPhases, NextAccepted, NextWired, NextOwing,
   NextInOrder DEF IndInv

(* IndInv holds in every state the engine can reach: the invariant that     *)
(* listen, Publish, Subscribe and the handlers maintain between them.       *)
THEOREM IndInvAlways == Spec => []IndInv
<1>1. Init => IndInv
  BY InitIndInv
<1>2. IndInv /\ [Next]_vars => IndInv'
  BY NextIndInv
<1> QED BY <1>1, <1>2, PTL DEF Spec

(* Every variable of the engine keeps its type; in particular no buffered   *)
(* channel ever holds more than its capacity.                               *)
THEOREM TypeCorrect == Spec => []TypeOK
<1>1. IndInv => TypeOK
  BY DEF IndInv
<1> QED BY <1>1, IndInvAlways, PTL

(* As long as no broadcast is split, each subscriber has handled a prefix   *)
(* of what was broadcast to it, and the rest is in its channel or in the    *)
(* hands of listen, in order: nothing lost, repeated or overtaken.          *)
THEOREM OrderedDelivery == Spec => []InOrder
<1>1. IndInv => InOrder
  BY DEF IndInv
<1> QED BY <1>1, IndInvAlways, PTL

(* When listen has returned without ever splitting a broadcast, it owes     *)
(* nobody an event: the drain loop has delivered all that was accepted.     *)
THEOREM DrainedAtExit == Spec => [](~SplitFanout => NothingOwedAtExit)
<1>1. IndInv => (~SplitFanout => NothingOwedAtExit)
  <2> SUFFICES ASSUME IndInv, ~SplitFanout, pc = "exit", NEW s \in Subscribers
               PROVE  engineCh = <<>> /\ Owed(s) = {}
    BY DEF NothingOwedAtExit, IndInv, Phases
  <2>1. engineCh = <<>> /\ targets = <<>>
    BY DEF IndInv, Phases, Busy
  <2>2. \A m \in Events : helper[m] = <<>>
    BY DEF IndInv, Owing
  <2>3. Range(<<>>) = {}
    BY DEF Range
  <2> QED BY <2>1, <2>2, <2>3 DEF Owed
<1> QED BY <1>1, IndInvAlways, PTL

-----------------------------------------------------------------------------
(* Panics.                                                                  *)

(* A publisher panics because nobody waits for it, a helper because the     *)
(* drain loop has split a broadcast, listen because of a handler with two   *)
(* names.                                                                   *)
LEMMA PublishPanics ==
  ASSUME IndInv, NEW m \in Events, PublishPanic(m)
  PROVE  engineClosed' /\ pending' \cap LateEvents # {}
BY DEF PublishPanic, publishVars, IndInv, Phases

LEMMA HelperPanics ==
  ASSUME IndInv, NEW m \in Events, HelperPanic(m)
  PROVE  pc' = "exit" /\ SplitFanout'
<1>1. pc = "exit" /\ SplitFanout
  BY DEF HelperPanic, IndInv, Phases, Owing
<1> QED BY <1>1 DEF HelperPanic, listenVars, wiringVars, SplitFanout

LEMMA ListenPanics ==
  ASSUME IndInv, ShutdownSubscribersAddressCh, panicked'
  PROVE  pc' = "exit" /\ ManyNames
<1>1. PICK n1 \in registered, n2 \in registered :
        n1 # n2 /\ Range(subs[n1]) \cap Range(subs[n2]) # {}
  BY DEF ShutdownSubscribersAddressCh, ClosedTwice
<1>2. PICK s : s \in Range(subs[n1]) /\ s \in Range(subs[n2])
  BY <1>1
<1>3. n1 \in EventNames /\ n2 \in EventNames /\ s \in Subscribers
  BY <1>2, RangeOfSeq DEF IndInv, TypeOK
<1>4. n1 \in SubscribeTo[s] /\ n2 \in SubscribeTo[s]
  BY <1>2, <1>3 DEF IndInv, Wired
<1> QED BY <1>1, <1>3, <1>4 DEF ShutdownSubscribersAddressCh, ManyNames

LEMMA PanicSteps ==
  ASSUME [Next]_vars
  PROVE  \/ \E m \in Events : PublishPanic(m) \/ HelperPanic(m)
         \/ ShutdownSubscribersAddressCh
         \/ ~panicked /\ ~panicked'
         \/ UNCHANGED vars
BY DEF Next, Listen, RegisterEvents, Subscribe, Publish, PublishSend, CloseDoneCh,
       BroadcastSend, HelperSend, ListenReceive, ListenDone, ListenCloseEngineCh,
       DrainReceive, Take, Receive, Terminating

LEMMA NextPanicCauses == IndInv /\ PanicCauses /\ [Next]_vars => PanicCauses'
<1> SUFFICES ASSUME IndInv, PanicCauses, [Next]_vars, panicked'
             PROVE  \/ engineClosed' /\ pending' \cap LateEvents # {}
                    \/ pc' = "exit" /\ (ManyNames \/ SplitFanout')
  BY DEF PanicCauses, ManyNames
<1>1. CASE UNCHANGED vars
  BY <1>1 DEF PanicCauses, SplitFanout, vars, publishVars, listenVars, wiringVars
<1> QED BY <1>1, PublishPanics, HelperPanics, ListenPanics, PanicSteps

(* Whatever the wiring, the publishers and the number of subscribers: when  *)
(* a goroutine has panicked on a closed channel, a publisher that doneCh    *)
(* does not wait for is still at its send, or listen has returned and a     *)
(* handler has two names or a broadcast has been split.                     *)
THEOREM PanicsExplained == Spec => []PanicCauses
<1>1. Init => IndInv /\ PanicCauses
  BY InitIndInv DEF Init, Idle, PanicCauses
<1>2. (IndInv /\ PanicCauses) /\ [Next]_vars => (IndInv /\ PanicCauses)'
  BY NextIndInv, NextPanicCauses
<1> QED BY <1>1, <1>2, PTL DEF Spec

-----------------------------------------------------------------------------
(* The engine implements the bus.                                           *)

LEMMA InitIsBusInit == Init => Bus!BusInit
<1> SUFFICES ASSUME Init PROVE Bus!BusInit
  OBVIOUS
<1>1. Range(<<>>) = {}
  BY DEF Range
<1> QED BY <1>1 DEF Init, Idle, Bus!BusInit

(* The events that have been posted do not change by a call of Publish nor  *)
(* by its send.                                                             *)
Posted == published \ (pending \cup Range(engineCh))

LEMMA NextIsBusNext ==
  ASSUME IndInv, [Next]_vars, ~SplitFanout
  PROVE  [Bus!BusNext]_(Bus!busVars)
<1> USE DEF wiringVars, publishVars, listenVars
<1> DEFINE Same == UNCHANGED <<Posted, stream, handled, addressClosed>>
<1>0. Same => UNCHANGED Bus!busVars
  BY DEF Posted, Bus!busVars
<1>1. ASSUME NEW m \in Events, Publish(m) PROVE Same
  BY <1>1 DEF Publish, IndInv, Accepted, Posted
<1>2. ASSUME NEW m \in Events, PublishSend(m) PROVE Same
  <2>1. Range(engineCh') = Range(engineCh) \cup {m}
    BY <1>2, RangeAppend DEF PublishSend, IndInv, TypeOK
  <2> QED BY <1>2, <2>1 DEF PublishSend, Posted
<1>3. CASE Take
  <2> DEFINE m   == Head(engineCh)
             chs == subs[NameOf[m]]
             S   == Range(chs)
  <2>1. /\ m \in Events
        /\ m \in Range(engineCh)
        /\ Range(engineCh) = {m} \cup Range(Tail(engineCh))
        /\ m \notin Range(Tail(engineCh))
    BY <1>3, HeadTail, RangeHeadTail DEF Take, IndInv, TypeOK, Accepted
  <2>2. S \in SUBSET Subscribers
    BY <2>1, RangeOfSeq, EngineAssumption DEF IndInv, TypeOK
  <2>3. Posted' = Posted \cup {m} /\ m \notin Posted
    BY <1>3, <2>1 DEF Take, IndInv, Accepted, Posted
  <2>4. addressClosed = {}
    BY <1>3 DEF Take, IndInv, Phases
  <2>5. Bus!Post(m, S)
    BY <1>3, <2>3, <2>4 DEF Take, Bus!Post, Posted
  <2> QED BY <2>1, <2>2, <2>5 DEF Bus!BusNext
<1>4. CASE ShutdownSubscribersAddressCh
  <2>1. addressClosed = {} /\ addressClosed' \in SUBSET Subscribers
    BY <1>4 DEF ShutdownSubscribersAddressCh, IndInv, Phases
  <2>2. Bus!Close(addressClosed')
    BY <1>4, <2>1 DEF ShutdownSubscribersAddressCh, Bus!Close
  <2> QED BY <2>1, <2>2 DEF Bus!BusNext
<1>5. ASSUME NEW s \in Subscribers, Receive(s) PROVE Bus!See(s)
  <2>1. /\ addressCh[s] \in Seq(Events) /\ addressCh[s] # <<>>
        /\ handled[s] \in Seq(Events)
        /\ Unsent(s) \in Seq(Events)
    <3>1. s \in Range(targets) => event \in Events
      BY DEF IndInv, TypeOK, Busy, Range
    <3>2. Unsent(s) \in Seq(Events)
      BY <3>1, EmptySeq DEF Unsent
    <3> QED BY <1>5, <3>2 DEF Receive, IndInv, TypeOK
  <2>2. stream[s] = handled[s] \o addressCh[s] \o Unsent(s)
    BY DEF IndInv, InOrder
  <2> DEFINE h == handled[s]
             c == addressCh[s]
             u == Unsent(s)
  <2>3. h \in Seq(Events) /\ c \in Seq(Events) /\ u \in Seq(Events) /\ c # <<>>
    BY <2>1
  <2> HIDE DEF h, c, u
  <2>4. Len((h \o c) \o u) > Len(h) /\ ((h \o c) \o u)[Len(h) + 1] = Head(c)
    <3>1. /\ Len(h) \in Nat /\ Len(c) \in Nat \ {0} /\ Len(u) \in Nat
          /\ Head(c) = c[1]
      BY <2>3, LenProperties, EmptySeq, HeadTail
    <3>2. /\ h \o c \in Seq(Events)
          /\ Len(h \o c) = Len(h) + Len(c)
          /\ \A i \in 1 .. Len(h) + Len(c) :
               (h \o c)[i] = IF i <= Len(h) THEN h[i] ELSE c[i - Len(h)]
      BY <2>3, ConcatProperties
    <3>3. /\ Len((h \o c) \o u) = Len(h \o c) + Len(u)
          /\ \A i \in 1 .. Len(h \o c) + Len(u) :
               ((h \o c) \o u)[i] = IF i <= Len(h \o c) THEN (h \o c)[i]
                                                        ELSE u[i - Len(h \o c)]
      BY <2>3, <3>2, ConcatProperties
    <3>4. /\ Len(h) + 1 \in 1 .. Len(h) + Len(c)
          /\ Len(h) + 1 \in 1 .. Len(h \o c) + Len(u)
          /\ ~(Len(h) + 1 <= Len(h))
          /\ (Len(h) + 1) - Len(h) = 1
          /\ Len(h) + 1 <= Len(h \o c)
      BY <3>1, <3>2
    <3>5. ((h \o c) \o u)[Len(h) + 1] = c[1]
      BY <3>2, <3>3, <3>4
    <3> QED BY <3>1, <3>2, <3>3, <3>5
  <2>5. /\ Len(handled[s]) < Len(stream[s])
        /\ Head(addressCh[s]) = stream[s][Len(handled[s]) + 1]
    <3>1. Len(h) \in Nat /\ Len((h \o c) \o u) \in Nat
      BY <2>3, ConcatProperties, LenProperties
    <3> QED BY <2>2, <2>4, <3>1 DEF h, c, u
  <2>6. handled' = [handled EXCEPT ![s] = Append(@, stream[s][Len(@) + 1])]
    BY <1>5, <2>5 DEF Receive, IndInv, TypeOK
  <2>7. UNCHANGED <<Posted, stream, addressClosed>>
    BY <1>5 DEF Receive, Posted
  <2> QED BY <2>5, <2>6, <2>7 DEF Bus!See, Posted
<1>6. \/ \E m \in Events : Publish(m) \/ PublishSend(m)
      \/ Take
      \/ ShutdownSubscribersAddressCh
      \/ \E s \in Subscribers : Receive(s)
      \/ Same
  BY DEF Next, Listen, vars, RegisterEvents, Subscribe, PublishPanic,
         CloseDoneCh, BroadcastSend, HelperSend, HelperPanic, ListenReceive,
         ListenDone, ListenCloseEngineCh, DrainReceive, Terminating, Posted
<1> HIDE DEF Same
<1> QED BY <1>0, <1>1, <1>2, <1>3, <1>4, <1>5, <1>6 DEF Bus!BusNext

(* As long as no broadcast is split the engine, with its channels and its   *)
(* goroutines, is a bus: every event is posted once and seen by each of its *)
(* subscribers exactly once and in order, and none is posted to a closed    *)
(* stream.                                                                  *)
THEOREM EngineImplementsBus == Spec /\ []~SplitFanout => BusSpec
<1>1. Init => Bus!BusInit
  BY InitIsBusInit
<1>2. IndInv /\ ~SplitFanout /\ [Next]_vars => [Bus!BusNext]_(Bus!busVars)
  BY NextIsBusNext
<1> QED BY <1>1, <1>2, IndInvAlways, PTL DEF Spec, BusSpec, Bus!BusSpec

-----------------------------------------------------------------------------
(* Delivery exactly once.                                                   *)

(* A list without repetitions is cut into two lists without repetitions     *)
(* that have no member in common and together all of its members: every     *)
(* subscriber is served, by the helper or by listen and never by both.      *)
LEMMA PartsPartition ==
  ASSUME NEW chs \in Seq(Subscribers), IsInjective(chs)
  PROVE  /\ IsInjective(Offloaded(chs))
         /\ Range(Offloaded(chs)) \cup Range(Inline(chs)) = Range(chs)
         /\ Range(Offloaded(chs)) \cap Range(Inline(chs)) = {}
<1>1. CASE ~Split(chs)
  <2>1. Range(<<>>) = {} /\ IsInjective(<<>>)
    BY EmptySeq DEF Range, IsInjective
  <2> QED BY <1>1, <2>1, BroadcastParts
<1>2. CASE Split(chs)
  <2> DEFINE k == PartitionSize(chs)
             n == Len(chs)
             a == SubSeq(chs, 1, k)
             b == SubSeq(chs, k + 1, n)
  <2>1. n \in Nat /\ DOMAIN chs = 1 .. n /\ k \in 1 .. n
    BY <1>2, LenProperties, EngineAssumption DEF Split, PartitionSize
  <2>2. \A i \in 1 .. n : chs[i] \in Subscribers
    BY ElementOfSeq
  <2> HIDE DEF k, n
  <2>3. /\ a \in Seq(Subscribers)
        /\ Len(a) = k
        /\ \A i \in 1 .. k : a[i] = chs[i]
    <3>1. \A i \in 1 .. k : chs[i] \in Subscribers
      BY <2>1, <2>2
    <3>2. /\ a \in Seq(Subscribers)
          /\ Len(a) = IF 1 <= k THEN k - 1 + 1 ELSE 0
          /\ \A i \in 1 .. k - 1 + 1 : a[i] = chs[1 + i - 1]
      BY <2>1, <3>1, SubSeqProperties
    <3>3. k - 1 + 1 = k /\ 1 <= k /\ \A i \in 1 .. k : 1 + i - 1 = i
      BY <2>1
    <3> QED BY <3>2, <3>3
  <2>4. /\ b \in Seq(Subscribers)
        /\ Len(b) = n - k
        /\ \A i \in 1 .. n - k : b[i] = chs[k + i]
    <3>1. \A i \in k + 1 .. n : chs[i] \in Subscribers
      BY <2>1, <2>2
    <3>2. /\ b \in Seq(Subscribers)
          /\ Len(b) = IF k + 1 <= n THEN n - (k + 1) + 1 ELSE 0
          /\ \A i \in 1 .. n - (k + 1) + 1 : b[i] = chs[k + 1 + i - 1]
      BY <2>1, <3>1, SubSeqProperties
    <3>3. /\ n - (k + 1) + 1 = n - k
          /\ ~(k + 1 <= n) => n - k = 0
          /\ \A i \in 1 .. n - k : k + 1 + i - 1 = k + i
      BY <2>1
    <3> QED BY <3>2, <3>3
  <2>5. k \in Nat /\ n - k \in Nat
    BY <2>1
  <2> HIDE DEF a, b
  <2>6. /\ DOMAIN a = 1 .. k
        /\ Range(a) = {chs[i] : i \in 1 .. k}
        /\ Range(b) = {chs[k + i] : i \in 1 .. n - k}
        /\ Range(chs) = {chs[i] : i \in 1 .. n}
    <3>1. DOMAIN a = 1 .. k
      BY <2>3, LenProperties
    <3>2. Range(a) = {a[i] : i \in 1 .. k}
      BY <2>3, RangeEquality
    <3>3. Range(b) = {b[i] : i \in 1 .. n - k}
      BY <2>4, RangeEquality
    <3>4. {a[i] : i \in 1 .. k} = {chs[i] : i \in 1 .. k}
      BY <2>3
    <3>5. {b[i] : i \in 1 .. n - k} = {chs[k + i] : i \in 1 .. n - k}
      BY <2>4
    <3>6. Range(chs) = {chs[i] : i \in 1 .. n}
      BY <2>1 DEF Range
    <3> QED BY <3>1, <3>2, <3>3, <3>4, <3>5, <3>6
  <2>7. IsInjective(a)
    <3>1. \A i \in 1 .. k : i \in DOMAIN chs
      BY <2>1
    <3> QED BY <2>3, <2>6, <3>1 DEF IsInjective
  <2>8. Range(a) \cup Range(b) = Range(chs)
    <3>1. \A i \in 1 .. k : i \in 1 .. n
      BY <2>1
    <3>2. \A i \in 1 .. n - k : k + i \in 1 .. n
      BY <2>1
    <3>3. \A i \in 1 .. n : i \in 1 .. k \/ (i - k \in 1 .. n - k /\ k + (i - k) = i)
      BY <2>1
    <3>4. \A i \in 1 .. n : chs[i] \in Range(a) \cup Range(b)
      BY <2>6, <3>3
    <3> QED BY <2>6, <3>1, <3>2, <3>4
  <2>9. Range(a) \cap Range(b) = {}
    <3> SUFFICES ASSUME NEW i \in 1 .. k, NEW j \in 1 .. n - k, chs[i] = chs[k + j]
                 PROVE  FALSE
      BY <2>6
    <3>1. i \in DOMAIN chs /\ k + j \in DOMAIN chs /\ i # k + j
      BY <2>1
    <3> QED BY <3>1 DEF IsInjective
  <2> QED BY <1>2, <2>7, <2>8, <2>9 DEF Offloaded, Inline, a, b, k, n
<1> QED BY <1>1, <1>2

-----------------------------------------------------------------------------
(* Which steps touch what.                                                  *)

LEMMA BroadcastSteps ==
  [Next]_vars => \/ \E m \in Events : Publish(m) \/ PublishSend(m)
                 \/ Take
                 \/ UNCHANGED <<published, pending, engineCh, stream>>
BY DEF Next, Listen, vars, wiringVars, publishVars, listenVars, RegisterEvents,
       Subscribe, PublishPanic, CloseDoneCh, BroadcastSend, HelperSend,
       HelperPanic, ListenReceive, ListenDone, ListenCloseEngineCh, DrainReceive,
       ShutdownSubscribersAddressCh, Receive, Terminating

LEMMA DeliverySteps ==
  [Next]_vars => \/ Take
                 \/ BroadcastSend
                 \/ \E m \in Events : HelperSend(m)
                 \/ \E s \in Subscribers : Receive(s)
                 \/ UNCHANGED <<event, targets, helper, addressCh, stream, handled>>
BY DEF Next, Listen, vars, wiringVars, publishVars, listenVars, RegisterEvents,
       Subscribe, Publish, PublishSend, PublishPanic, CloseDoneCh, HelperPanic,
       ListenReceive, ListenDone, ListenCloseEngineCh, DrainReceive,
       ShutdownSubscribersAddressCh, Terminating

(* What a broadcast starts with: the event leaves eventEngineCh, and listen *)
(* has no other in hand.                                                    *)
LEMMA TakeFacts ==
  ASSUME TypeOK, Busy, Accepted, Wired, Take,
         NEW m, m = Head(engineCh), NEW chs, chs = subs[NameOf[m]]
  PROVE  /\ m \in Events
         /\ m \in published
         /\ m \notin pending
         /\ Range(engineCh) = {m} \cup Range(engineCh')
         /\ m \notin Range(engineCh')
         /\ chs \in Seq(Subscribers)
         /\ IsInjective(chs)
         /\ event = NoEvent
         /\ targets = <<>>
<1>1. engineCh \in Seq(Events) /\ engineCh # <<>> /\ engineCh' = Tail(engineCh)
  BY DEF Take, TypeOK
<1>2. m \in Events
  BY <1>1, HeadTail
<1>3. /\ Range(engineCh) = {m} \cup Range(engineCh')
      /\ m \notin Range(engineCh')
  BY <1>1, RangeHeadTail DEF Accepted
<1>4. chs \in Seq(Subscribers) /\ IsInjective(chs)
  BY <1>2, EngineAssumption DEF TypeOK, Wired
<1> QED BY <1>2, <1>3, <1>4 DEF Accepted, Take, Busy

-----------------------------------------------------------------------------
(* The parts of the inductive invariant.                                    *)

(* Only listen extends a stream, with an event that nobody has seen.        *)
LEMMA NextStreams ==
  TypeOK /\ Busy /\ Accepted /\ Wired /\ Streams /\ [Next]_vars => Streams'
<1> SUFFICES ASSUME TypeOK, Busy, Accepted, Wired, Streams, [Next]_vars,
                    NEW s \in Subscribers
             PROVE  /\ IsInjective(stream'[s])
                    /\ Range(stream'[s])
                         \subseteq published' \ (pending' \cup Range(engineCh'))
  BY DEF Streams
<1>0. /\ stream[s] \in Seq(Events)
      /\ IsInjective(stream[s])
      /\ Range(stream[s]) \subseteq published \ (pending \cup Range(engineCh))
  BY DEF TypeOK, Streams
<1>1. CASE Take
  <2> DEFINE m   == Head(engineCh)
             chs == subs[NameOf[m]]
  <2>1. /\ m \in Events
        /\ m \in published
        /\ m \notin pending
        /\ Range(engineCh) = {m} \cup Range(engineCh')
        /\ m \notin Range(engineCh')
    BY <1>1, TakeFacts
  <2>2. UNCHANGED <<published, pending>>
    BY <1>1 DEF Take, publishVars
  <2>3. stream'[s] = IF s \in Range(chs) THEN Append(stream[s], m) ELSE stream[s]
    BY <1>1 DEF Take
  <2>4. /\ IsInjective(Append(stream[s], m))
        /\ Range(Append(stream[s], m)) = Range(stream[s]) \cup {m}
    BY <1>0, <2>1, InjectiveAppend, RangeAppend
  <2> QED BY <1>0, <2>1, <2>2, <2>3, <2>4
<1>2. ASSUME NEW m \in Events, Publish(m)
      PROVE  /\ published' = published \cup {m}
             /\ pending' = pending \cup {m}
             /\ m \notin published
             /\ UNCHANGED <<engineCh, stream>>
  BY <1>2 DEF Publish
<1>3. ASSUME NEW m \in Events, PublishSend(m)
      PROVE  /\ Range(engineCh') = Range(engineCh) \cup {m}
             /\ m \in pending
             /\ pending' = pending \ {m}
             /\ UNCHANGED <<published, stream>>
  <2>1. Range(Append(engineCh, m)) = Range(engineCh) \cup {m}
    BY RangeAppend DEF TypeOK
  <2> QED BY <1>3, <2>1 DEF PublishSend
<1>4. CASE UNCHANGED <<published, pending, engineCh, stream>>
  BY <1>0, <1>4
<1> QED BY <1>0, <1>1, <1>2, <1>3, <1>4, BroadcastSteps

(* A broadcast gives the helper one part of the list and listen the other.  *)
LEMMA NextShares ==
  ASSUME TypeOK, Busy, Accepted, Wired, Owing, Shares, [Next]_vars
  PROVE  Shares'
<1> SUFFICES ASSUME NEW k \in Events
             PROVE  /\ IsInjective(helper'[k])
                    /\ k = event' => Range(helper'[k]) \cap Range(targets') = {}
  BY DEF Shares
<1>0. /\ IsInjective(helper[k])
      /\ k = event => Range(helper[k]) \cap Range(targets) = {}
      /\ helper \in [Events -> Seq(Subscribers)]
      /\ targets \in Seq(Subscribers)
      /\ NoEvent \notin Events
  BY EngineAssumption DEF Shares, TypeOK
<1>1. CASE Take
  <2> DEFINE m   == Head(engineCh)
             chs == subs[NameOf[m]]
  <2>1. m \in Events /\ chs \in Seq(Subscribers) /\ IsInjective(chs)
    BY <1>1, TakeFacts
  <2>2. /\ helper' = [helper EXCEPT ![m] = Offloaded(chs)]
        /\ targets' = Inline(chs)
        /\ event' = m \/ event' = NoEvent
    BY <1>1 DEF Take
  <2>3. /\ IsInjective(Offloaded(chs))
        /\ Range(Offloaded(chs)) \cap Range(Inline(chs)) = {}
    BY <2>1, PartsPartition
  <2>4. helper'[k] = IF k = m THEN Offloaded(chs) ELSE helper[k]
    BY <1>0, <2>1, <2>2
  <2> QED BY <1>0, <2>2, <2>3, <2>4
<1>2. CASE BroadcastSend
  <2>1. /\ targets' = Tail(targets)
        /\ event' = event \/ event' = NoEvent
        /\ helper' = helper
    BY <1>2 DEF BroadcastSend
  <2>2. Range(Tail(targets)) \subseteq Range(targets)
    BY <1>0, <1>2, RangeHeadTail DEF BroadcastSend
  <2> QED BY <1>0, <2>1, <2>2
<1>3. ASSUME NEW m \in Events, HelperSend(m)
      PROVE  /\ IsInjective(helper'[k])
             /\ k = event' => Range(helper'[k]) \cap Range(targets') = {}
  <2>1. /\ helper[m] # <<>>
        /\ helper' = [helper EXCEPT ![m] = Tail(@)]
        /\ UNCHANGED <<event, targets>>
    BY <1>3 DEF HelperSend, listenVars
  <2>2. helper'[k] = IF k = m THEN Tail(helper[k]) ELSE helper[k]
    BY <1>0, <2>1
  <2>3. k = m => /\ Range(Tail(helper[k])) \subseteq Range(helper[k])
                 /\ IsInjective(Tail(helper[k]))
    BY <1>0, <2>1, RangeHeadTail
  <2> QED BY <1>0, <2>1, <2>2, <2>3
<1>4. CASE UNCHANGED <<event, targets, helper>>
  BY <1>0, <1>4
<1>5. ASSUME NEW s \in Subscribers, Receive(s)
      PROVE  UNCHANGED <<event, targets, helper>>
  BY <1>5 DEF Receive, listenVars
<1> QED BY <1>1, <1>2, <1>3, <1>4, <1>5, DeliverySteps

-----------------------------------------------------------------------------
(* Exactly once.                                                            *)

(* What s has got, and that it is in one place with what it is owed.        *)
Got(s) == handled[s] \o addressCh[s]

Once(s) ==
  /\ IsInjective(Got(s))
  /\ Range(Got(s)) \cap Owed(s) = {}
  /\ Range(Got(s)) \cup Owed(s) = Range(stream[s])

LEMMA OnceIsExactlyOnce == ExactlyOnce <=> \A s \in Subscribers : Once(s)
BY Zenon DEF ExactlyOnce, Once, Got, IsInjective

LEMMA GotType ==
  ASSUME TypeOK, NEW s \in Subscribers
  PROVE  Got(s) \in Seq(Events)
BY ConcatProperties DEF Got, TypeOK

(* A broadcast makes its event owed to every subscriber in the list.        *)
LEMMA TakeOnce ==
  ASSUME TypeOK, Busy, Accepted, Wired, Streams, Take,
         \A t \in Subscribers : Once(t), NEW s \in Subscribers
  PROVE  Once(s)'
<1> DEFINE m   == Head(engineCh)
           chs == subs[NameOf[m]]
<1>1. /\ m \in Events
      /\ m \in Range(engineCh)
      /\ chs \in Seq(Subscribers)
      /\ IsInjective(chs)
      /\ event = NoEvent
      /\ targets = <<>>
  BY TakeFacts
<1>2. /\ helper' = [helper EXCEPT ![m] = Offloaded(chs)]
      /\ targets' = Inline(chs)
      /\ event' = IF Inline(chs) = <<>> THEN NoEvent ELSE m
      /\ stream'[s] = IF s \in Range(chs) THEN Append(stream[s], m) ELSE stream[s]
      /\ Got(s)' = Got(s)
  BY DEF Take, Got
<1>3. m \notin Range(stream[s])
  BY <1>1 DEF Streams
<1>4. s \notin Range(helper[m])
  BY <1>1, <1>3 DEF Once, Owed
<1>5. Range(<<>>) = {}
  BY DEF Range
<1>6. Owed(s) = {k \in Events : s \in Range(helper[k])}
  BY <1>1, <1>5 DEF Owed
<1>7. Owed(s)' = Owed(s) \cup (IF s \in Range(chs) THEN {m} ELSE {})
  <2>1. Range(Offloaded(chs)) \cup Range(Inline(chs)) = Range(chs)
    BY <1>1, PartsPartition
  <2>2. \A k \in Events :
          helper'[k] = IF k = m THEN Offloaded(chs) ELSE helper[k]
    BY <1>1, <1>2 DEF TypeOK
  <2>3. s \in Range(Inline(chs)) => event' = m
    BY <1>2, <1>5
  <2>4. Owed(s)' = {k \in Events : s \in Range(helper'[k])}
                     \cup (IF s \in Range(targets') THEN {event'} ELSE {})
    BY DEF Owed
  <2>5. {k \in Events : s \in Range(helper'[k])}
          = Owed(s) \cup (IF s \in Range(Offloaded(chs)) THEN {m} ELSE {})
    BY <1>1, <1>4, <1>6, <2>2
  <2> QED BY <1>2, <2>1, <2>3, <2>4, <2>5
<1>8. Range(stream'[s]) = Range(stream[s]) \cup (IF s \in Range(chs) THEN {m} ELSE {})
  <2>1. Range(Append(stream[s], m)) = Range(stream[s]) \cup {m}
    BY <1>1, RangeAppend DEF TypeOK
  <2> QED BY <1>2, <2>1
<1>9. Once(s)
  OBVIOUS
<1>10. m \notin Range(Got(s))
  BY <1>3, <1>9 DEF Once
<1> QED BY <1>2, <1>7, <1>8, <1>9, <1>10 DEF Once

(* An event that is sent to s ceases to be owed to it.                      *)
LEMMA SentOnce ==
  ASSUME TypeOK, NEW s \in Subscribers, NEW m \in Events, Once(s),
         m \in Owed(s),
         Owed(s)' = Owed(s) \ {m},
         addressCh'[s] = Append(addressCh[s], m),
         handled'[s] = handled[s],
         stream'[s] = stream[s]
  PROVE  Once(s)'
<1>1. Got(s)' = Append(Got(s), m)
  <2> DEFINE p == handled[s]
             q == addressCh[s]
  <2>1. p \in Seq(Events) /\ q \in Seq(Events)
    BY DEF TypeOK
  <2> HIDE DEF p, q
  <2>2. p \o Append(q, m) = (p \o q) \o <<m>> /\ p \o q \in Seq(Events)
    BY <2>1, ConcatAppend, ConcatProperties
  <2>3. Append(p \o q, m) = (p \o q) \o <<m>>
    BY <2>2, AppendIsConcat
  <2>4. Got(s)' = p \o Append(q, m) /\ Got(s) = p \o q
    BY DEF Got, p, q
  <2> QED BY <2>2, <2>3, <2>4
<1>2. m \notin Range(Got(s))
  BY DEF Once
<1>3. /\ IsInjective(Append(Got(s), m))
      /\ Range(Append(Got(s), m)) = Range(Got(s)) \cup {m}
  BY <1>2, GotType, InjectiveAppend, RangeAppend DEF Once
<1> QED BY <1>1, <1>2, <1>3 DEF Once

LEMMA SendOnce ==
  ASSUME TypeOK, Busy, Owing, Shares, BroadcastSend,
         NEW s \in Subscribers, Once(s)
  PROVE  Once(s)'
<1> DEFINE h == Head(targets)
<1>1. /\ event \in Events
      /\ targets \in Seq(Subscribers)
      /\ Range(targets) = {h} \cup Range(Tail(targets))
      /\ h \notin Range(Tail(targets))
  BY RangeHeadTail DEF BroadcastSend, TypeOK, Busy, Owing
<1>2. /\ addressCh' = [addressCh EXCEPT ![h] = Append(@, event)]
      /\ targets' = Tail(targets)
      /\ event' = IF Tail(targets) = <<>> THEN NoEvent ELSE event
      /\ UNCHANGED <<helper, stream, handled>>
  BY DEF BroadcastSend
<1>3. s \in Range(Tail(targets)) => event' = event
  BY <1>2 DEF Range
<1>4. CASE s = h
  <2>1. event \in Owed(s) /\ s \notin Range(helper[event])
    BY <1>1, <1>4 DEF Owed, Shares
  <2>2. Owed(s)' = Owed(s) \ {event}
    BY <1>1, <1>2, <1>4, <2>1 DEF Owed
  <2>3. addressCh'[s] = Append(addressCh[s], event)
    BY <1>2, <1>4 DEF TypeOK
  <2> QED BY <1>1, <1>2, <2>1, <2>2, <2>3, SentOnce
<1>5. CASE s # h
  <2>1. addressCh'[s] = addressCh[s]
    BY <1>2, <1>5 DEF TypeOK
  <2>2. Owed(s)' = Owed(s)
    BY <1>1, <1>2, <1>3, <1>5 DEF Owed
  <2> QED BY <1>2, <2>1, <2>2 DEF Once, Got
<1> QED BY <1>4, <1>5

LEMMA HelpOnce ==
  ASSUME TypeOK, Shares, NEW m \in Events, HelperSend(m),
         NEW s \in Subscribers, Once(s)
  PROVE  Once(s)'
<1> DEFINE h == Head(helper[m])
<1>1. /\ helper[m] \in Seq(Subscribers)
      /\ Range(helper[m]) = {h} \cup Range(Tail(helper[m]))
      /\ h \notin Range(Tail(helper[m]))
  BY RangeHeadTail DEF HelperSend, TypeOK, Shares
<1>2. /\ addressCh' = [addressCh EXCEPT ![h] = Append(@, m)]
      /\ helper' = [helper EXCEPT ![m] = Tail(@)]
      /\ UNCHANGED <<event, targets, stream, handled>>
  BY DEF HelperSend, listenVars
<1>3. \A k \in Events : helper'[k] = IF k = m THEN Tail(helper[m]) ELSE helper[k]
  BY <1>2 DEF TypeOK
<1>4. CASE s = h
  <2>1. m \in Owed(s) /\ (s \in Range(targets) => event # m)
    BY <1>1, <1>4 DEF Owed, Shares
  <2>2. Owed(s)' = Owed(s) \ {m}
    BY <1>1, <1>2, <1>3, <1>4, <2>1 DEF Owed
  <2>3. addressCh'[s] = Append(addressCh[s], m)
    BY <1>2, <1>4 DEF TypeOK
  <2> QED BY <1>2, <2>1, <2>2, <2>3, SentOnce
<1>5. CASE s # h
  <2>1. addressCh'[s] = addressCh[s]
    BY <1>2, <1>5 DEF TypeOK
  <2>2. Owed(s)' = Owed(s)
    BY <1>1, <1>2, <1>3, <1>5 DEF Owed
  <2> QED BY <1>2, <2>1, <2>2 DEF Once, Got
<1> QED BY <1>4, <1>5

(* Taking an event off its channel changes nothing of what s has got.       *)
LEMMA ReceiveOnce ==
  ASSUME TypeOK, NEW r \in Subscribers, Receive(r), NEW s \in Subscribers, Once(s)
  PROVE  Once(s)'
<1>1. Owed(s)' = Owed(s) /\ stream' = stream
  BY DEF Receive, Owed, listenVars
<1>2. Got(s)' = Got(s)
  <2>1. CASE s = r
    <3>1. /\ handled'[s] = Append(handled[s], Head(addressCh[s]))
          /\ addressCh'[s] = Tail(addressCh[s])
      BY <2>1 DEF Receive, TypeOK
    <3>2. /\ handled[s] \in Seq(Events)
          /\ addressCh[s] \in Seq(Events)
          /\ addressCh[s] # <<>>
      BY <2>1 DEF Receive, TypeOK
    <3>3. Append(handled[s], Head(addressCh[s])) \o Tail(addressCh[s])
            = handled[s] \o addressCh[s]
      BY <3>2, MoveHead
    <3> QED BY <3>1, <3>3 DEF Got
  <2>2. CASE s # r
    BY <2>2 DEF Receive, TypeOK, Got
  <2> QED BY <2>1, <2>2
<1> QED BY <1>1, <1>2 DEF Once

LEMMA NextExactlyOnce ==
  ASSUME IndInv, Streams, Shares, ExactlyOnce, [Next]_vars
  PROVE  ExactlyOnce'
<1> SUFFICES ASSUME NEW s \in Subscribers PROVE Once(s)'
  BY OnceIsExactlyOnce DEF ExactlyOnce, Once, Got, IsInjective
<1>1. TypeOK /\ Busy /\ Accepted /\ Wired /\ Owing
  BY DEF IndInv
<1>2. \A t \in Subscribers : Once(t)
  BY OnceIsExactlyOnce
<1>3. CASE Take
  BY <1>1, <1>2, <1>3, TakeOnce
<1>4. CASE BroadcastSend
  BY <1>1, <1>2, <1>4, SendOnce
<1>5. ASSUME NEW m \in Events, HelperSend(m) PROVE Once(s)'
  BY <1>1, <1>2, <1>5, HelpOnce
<1>6. ASSUME NEW r \in Subscribers, Receive(r) PROVE Once(s)'
  BY <1>1, <1>2, <1>6, ReceiveOnce
<1>7. CASE UNCHANGED <<event, targets, helper, addressCh, stream, handled>>
  BY <1>2, <1>7 DEF Once, Got, Owed
<1> QED BY <1>3, <1>4, <1>5, <1>6, <1>7, DeliverySteps

-----------------------------------------------------------------------------
(* The theorems.                                                            *)

(* An idle engine may be wired in any way.                                  *)
LEMMA IdleOnceInv ==
  ASSUME Idle, IndInv
  PROVE  OnceInv
<1>1. Range(<<>>) = {} /\ IsInjective(<<>>) /\ <<>> \o <<>> = <<>>
  <2>1. <<>> \in Seq(Events) /\ DOMAIN <<>> = {}
    BY EmptySeq
  <2> QED BY <2>1, ConcatEmptySeq DEF Range, IsInjective
<1>2. Streams /\ Shares
  BY <1>1 DEF Idle, Streams, Shares
<1>3. ASSUME NEW s \in Subscribers PROVE Once(s)
  BY <1>1 DEF Idle, Once, Got, Owed
<1>4. ExactlyOnce
  BY <1>3, OnceIsExactlyOnce
<1> QED BY <1>2, <1>4 DEF OnceInv

LEMMA InitOnceInv == Init => OnceInv
BY IdleOnceInv, InitIndInv DEF Init

LEMMA NextOnceInv == OnceInv /\ [Next]_vars => OnceInv'
<1> SUFFICES ASSUME OnceInv, [Next]_vars PROVE OnceInv'
  OBVIOUS
<1>1. IndInv /\ TypeOK /\ Busy /\ Accepted /\ Wired /\ Owing
  BY DEF OnceInv, IndInv
<1>2. IndInv'
  BY <1>1, NextIndInv
<1>3. Streams' /\ Shares' /\ ExactlyOnce'
  BY <1>1, NextStreams, NextShares, NextExactlyOnce DEF OnceInv
<1> QED BY <1>2, <1>3 DEF OnceInv

(* Publish, listen, its helpers and the handlers maintain OnceInv between   *)
(* them, from any wiring and in any interleaving.                           *)
THEOREM OnceInvAlways == Spec => []OnceInv
<1> QED BY InitOnceInv, NextOnceInv, PTL DEF Spec

(* Every event broadcast to a subscriber is handled by it, in its channel,  *)
(* or owed to it by listen or by one helper, in exactly one of these places *)
(* and once, however many subscribers share the event, however broadcasts   *)
(* are split, and whenever doneCh is closed or a goroutine panics.          *)
THEOREM DeliveredOnce == Spec => []ExactlyOnce
<1>1. OnceInv => ExactlyOnce
  BY DEF OnceInv
<1> QED BY <1>1, OnceInvAlways, PTL
=============================================================================
