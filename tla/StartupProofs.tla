---------------------------- MODULE StartupProofs ----------------------------
(***************************************************************************)
(* Theorems about Startup, for any number of requests.                     *)
(***************************************************************************)
EXTENDS Startup, SequenceTheorems, TLAPS

-----------------------------------------------------------------------------
(* The programs.                                                            *)

(* A feature's registration, its goroutine, and what comes next, put        *)
(* together, are the steps of both in order.                                *)
LEMMA Joined ==
  ASSUME NEW S, NEW s \in Seq(S), NEW t \in Seq(S)
  PROVE  /\ s \o t \in Seq(S)
         /\ Len(s \o t) = Len(s) + Len(t)
         /\ \A i \in 1 .. Len(s) : (s \o t)[i] = s[i]
         /\ \A i \in 1 .. Len(t) : (s \o t)[Len(s) + i] = t[i]
<1>1. Len(s) \in Nat /\ Len(t) \in Nat
  BY LenProperties
<1>2. /\ s \o t \in Seq(S)
      /\ Len(s \o t) = Len(s) + Len(t)
      /\ \A i \in 1 .. Len(s) + Len(t) :
           (s \o t)[i] = IF i <= Len(s) THEN s[i] ELSE t[i - Len(s)]
  BY ConcatProperties
<1> QED BY <1>1, <1>2

(* The steps of main in program order.                                      *)
LEMMA MainProgram ==
  /\ Len(v1Router) = 7
  /\ DOMAIN v1Router = 1 .. 7
  /\ v1Router[1] = <<"find", failed>>
  /\ v1Router[2] = <<"put", failed>>
  /\ v1Router[3] = <<"go", {inventory}>>
  /\ v1Router[4] = <<"find", created>>
  /\ v1Router[5] = <<"put", created>>
  /\ v1Router[6] = <<"go", {product}>>
  /\ v1Router[7] = <<"go", Requests>>
<1> DEFINE a == RegisterEvents(failed)
           b == <<<<"go", {inventory}>>>>
           c == RegisterEvents(created)
           d == <<<<"go", {product}>>>>
           e == <<<<"go", Requests>>>>
           S == {a[1], a[2], b[1], c[1], c[2], d[1], e[1]}
<1>1. /\ Len(a) = 2 /\ a[1] = <<"find", failed>> /\ a[2] = <<"put", failed>>
      /\ Len(c) = 2 /\ c[1] = <<"find", created>> /\ c[2] = <<"put", created>>
  BY DEF RegisterEvents
<1>2. a \in Seq(S) /\ b \in Seq(S) /\ c \in Seq(S) /\ d \in Seq(S) /\ e \in Seq(S)
  BY <1>1 DEF RegisterEvents
<1>3. /\ Len(b) = 1 /\ b[1] = <<"go", {inventory}>>
      /\ Len(d) = 1 /\ d[1] = <<"go", {product}>>
      /\ Len(e) = 1 /\ e[1] = <<"go", Requests>>
  OBVIOUS
<1> HIDE DEF a, b, c, d, e, S
<1> DEFINE f == a \o b
           g == c \o d
           h == f \o g
<1>4. f \in Seq(S) /\ g \in Seq(S)
  BY <1>2, Joined
<1>5. h \in Seq(S)
  BY <1>4, Joined
<1>6. Len(f) = 3 /\ f[1] = a[1] /\ f[2] = a[2] /\ f[3] = b[1]
  <2>1. /\ Len(a \o b) = Len(a) + Len(b)
        /\ \A i \in 1 .. Len(a) : (a \o b)[i] = a[i]
        /\ \A i \in 1 .. Len(b) : (a \o b)[Len(a) + i] = b[i]
    BY <1>2, Joined
  <2> QED BY <1>1, <1>2, <1>3, <2>1
<1>7. Len(g) = 3 /\ g[1] = c[1] /\ g[2] = c[2] /\ g[3] = d[1]
  <2>1. /\ Len(c \o d) = Len(c) + Len(d)
        /\ \A i \in 1 .. Len(c) : (c \o d)[i] = c[i]
        /\ \A i \in 1 .. Len(d) : (c \o d)[Len(c) + i] = d[i]
    BY <1>2, Joined
  <2> QED BY <1>1, <1>2, <1>3, <2>1
<1>8. v1Router = h \o e
  BY DEF v1Router, NewEventHandler, NewHandlerEvents, a, b, c, d, e
<1> HIDE DEF f, g
<1>9. /\ Len(h) = 6
      /\ h[1] = f[1] /\ h[2] = f[2] /\ h[3] = f[3]
      /\ h[4] = g[1] /\ h[5] = g[2] /\ h[6] = g[3]
  <2>1. /\ Len(f \o g) = Len(f) + Len(g)
        /\ \A i \in 1 .. Len(f) : (f \o g)[i] = f[i]
        /\ \A i \in 1 .. Len(g) : (f \o g)[Len(f) + i] = g[i]
    BY <1>4, Joined
  <2> QED BY <1>6, <1>7, <2>1
<1> HIDE DEF h
<1>10. /\ Len(v1Router) = 7
      /\ \A i \in 1 .. 6 : v1Router[i] = h[i]
      /\ v1Router[7] = e[1]
  <2>1. /\ Len(h \o e) = Len(h) + Len(e)
        /\ \A i \in 1 .. Len(h) : (h \o e)[i] = h[i]
        /\ \A i \in 1 .. Len(e) : (h \o e)[Len(h) + i] = e[i]
    BY <1>2, <1>5, Joined
  <2> QED BY <1>3, <1>8, <1>9, <2>1
<1>11. DOMAIN v1Router = 1 .. 7
  <2>1. h \o e \in Seq(S)
    BY <1>2, <1>5, Joined
  <2> QED BY <1>8, <1>10, <2>1, LenProperties
<1> QED BY <1>1, <1>3, <1>6, <1>7, <1>9, <1>10, <1>11

(* The program of each thread.                                              *)
LEMMA Programs ==
  /\ Program["main"] = v1Router
  /\ \A h \in Handlers : Program[h] = Subscribe(Awaits[h]) /\ Len(Program[h]) = 4
  /\ \A r \in Requests : Program[r] = Publish(created) /\ Len(Program[r]) = 2
<1>1. "main" \notin Handlers
  BY DEF Handlers, inventory, product
<1>2. Handlers \cup {"main"} \subseteq Threads /\ Requests \subseteq Threads
  BY DEF Threads
<1>3. Program["main"] = v1Router
  BY <1>2 DEF Program
<1>4. \A h \in Handlers : Program[h] = Subscribe(Awaits[h])
  BY <1>1, <1>2 DEF Program
<1>5. \A r \in Requests : Program[r] = Publish(created)
  BY <1>2, StartupAssumption DEF Program
<1>6. \A n : Len(Subscribe(n)) = 4 /\ Len(Publish(n)) = 2
  BY DEF Subscribe, Publish
<1> QED BY <1>3, <1>4, <1>5, <1>6

(* Where main is tells what it has done.                                    *)
LEMMA PassedBy ==
  ASSUME NEW k \in 1 .. 8
  PROVE  LET Done(step) == \E i \in DOMAIN v1Router : i < k /\ v1Router[i] = step
         IN  /\ Done(<<"put", failed>>) <=> k > 2
             /\ Done(<<"go", {inventory}>>) <=> k > 3
             /\ Done(<<"put", created>>) <=> k > 5
             /\ Done(<<"go", {product}>>) <=> k > 6
             /\ Done(<<"go", Requests>>) <=> k > 7
<1> DEFINE Done(step) == \E i \in 1 .. 7 : i < k /\ v1Router[i] = step
<1>1. /\ "find" # "put" /\ "find" # "go" /\ "put" # "go" /\ failed # created
      /\ {inventory} # {product} /\ {inventory} # Requests /\ {product} # Requests
  BY StartupAssumption DEF failed, created, inventory, product, Handlers
<1>2. Done(<<"put", failed>>) <=> k > 2
  BY <1>1, MainProgram
<1>3. Done(<<"go", {inventory}>>) <=> k > 3
  BY <1>1, MainProgram
<1>4. Done(<<"put", created>>) <=> k > 5
  BY <1>1, MainProgram
<1>5. Done(<<"go", {product}>>) <=> k > 6
  BY <1>1, MainProgram
<1>6. Done(<<"go", Requests>>) <=> k > 7
  BY <1>1, MainProgram
<1> QED BY <1>2, <1>3, <1>4, <1>5, <1>6, MainProgram

(* Which thread is where when it does an operation, and to what.            *)
LEMMA Operations ==
  ASSUME NEW t \in Threads, NEW i \in 1 .. Len(Program[t])
  PROVE  LET op == Program[t][i][1]
             x  == Program[t][i][2]
         IN  /\ op = "go" => /\ t = "main"
                             /\ \/ i = 3 /\ x = {inventory}
                                \/ i = 6 /\ x = {product}
                                \/ i = 7 /\ x = Requests
             /\ op = "find" => /\ t = "main"
                               /\ (i = 1 /\ x = failed) \/ (i = 4 /\ x = created)
             /\ op = "put" => /\ t = "main"
                              /\ (i = 2 /\ x = failed) \/ (i = 5 /\ x = created)
             /\ op = "must" => /\ i = 1
                               /\ \/ t \in Handlers /\ x = Awaits[t]
                                  \/ t \in Requests /\ x = created
             /\ op = "load" => \/ t \in Handlers /\ i \in {2, 3} /\ x = Awaits[t]
                               \/ t \in Requests /\ i = 2 /\ x = created
             /\ op = "store" => t \in Handlers /\ i = 4 /\ x = Awaits[t]
<1>1. CASE t = "main"
  <2>1. i \in 1 .. 7
    BY <1>1, Programs, MainProgram
  <2>2. CASE i = 1 \/ i = 4
    BY <1>1, <2>2, Programs, MainProgram
  <2>3. CASE i = 2 \/ i = 5
    BY <1>1, <2>3, Programs, MainProgram
  <2>4. CASE i \in {3, 6, 7}
    BY <1>1, <2>4, Programs, MainProgram
  <2> QED BY <2>1, <2>2, <2>3, <2>4
<1>2. CASE t \in Handlers
  BY <1>2, Programs DEF Subscribe
<1>3. CASE t \in Requests
  BY <1>3, Programs DEF Publish
<1> QED BY <1>1, <1>2, <1>3 DEF Threads

-----------------------------------------------------------------------------
(* The invariant.                                                           *)

(* The invariant in terms of where main stands.                             *)
Started ==
  /\ inventory \in started <=> next["main"] > 3
  /\ product \in started <=> next["main"] > 6
  /\ \A h \in Handlers : h \notin started => next[h] = 1
  /\ Requests \cap started # {} => next["main"] > 7

Registered ==
  /\ failed \in registered <=> next["main"] > 2
  /\ created \in registered <=> next["main"] > 5
  /\ dead = "unregistered" => created \notin registered

Placed ==
  /\ TypeOK
  /\ \A t \in Threads : next[t] <= Len(Program[t]) + 1
  /\ Started
  /\ ~raced => Registered /\ \A h \in Handlers : Subscribing(h)

LEMMA IInvIsPlaced == IInv <=> Placed
<1> SUFFICES ASSUME TypeOK
             PROVE  IInv <=> Placed
  BY DEF IInv, Placed
<1>1. next["main"] \in 1 .. 8
  BY DEF TypeOK, Threads
<1>2. /\ Passed(<<"put", failed>>) <=> next["main"] > 2
      /\ Passed(<<"go", {inventory}>>) <=> next["main"] > 3
      /\ Passed(<<"put", created>>) <=> next["main"] > 5
      /\ Passed(<<"go", {product}>>) <=> next["main"] > 6
      /\ Passed(<<"go", Requests>>) <=> next["main"] > 7
  BY <1>1, PassedBy DEF Passed
<1>3. (\A h \in Handlers : IF Passed(<<"go", {h}>>) THEN h \in started
                                                ELSE h \notin started /\ next[h] = 1)
        <=> /\ inventory \in started <=> next["main"] > 3
            /\ product \in started <=> next["main"] > 6
            /\ \A h \in Handlers : h \notin started => next[h] = 1
  BY <1>2 DEF Handlers
<1>4. registered = {n \in EventNames : Passed(<<"put", n>>)}
        <=> /\ failed \in registered <=> next["main"] > 2
            /\ created \in registered <=> next["main"] > 5
  BY <1>2 DEF TypeOK, EventNames
<1> QED BY <1>2, <1>3, <1>4 DEF IInv, Placed, Started, Registered

LEMMA IInvIsPlacedNext == IInv' <=> Placed'
  BY IInvIsPlaced, PTL

(* A thread that runs is at one of its steps.                               *)
LEMMA AtStep ==
  ASSUME Placed, NEW t \in Threads, Runs(t)
  PROVE  /\ next[t] \in 1 .. Len(Program[t])
         /\ Len(Program[t]) \in {2, 4, 7}
         /\ Op(t) = "go" => /\ t = "main"
                            /\ \/ next[t] = 3 /\ Arg(t) = {inventory}
                               \/ next[t] = 6 /\ Arg(t) = {product}
                               \/ next[t] = 7 /\ Arg(t) = Requests
         /\ Op(t) = "find" => /\ t = "main"
                              /\ \/ next[t] = 1 /\ Arg(t) = failed
                                 \/ next[t] = 4 /\ Arg(t) = created
         /\ Op(t) = "put" => /\ t = "main"
                             /\ \/ next[t] = 2 /\ Arg(t) = failed
                                \/ next[t] = 5 /\ Arg(t) = created
         /\ Op(t) = "must" => /\ next[t] = 1
                              /\ \/ t \in Handlers /\ Arg(t) = Awaits[t]
                                 \/ t \in Requests /\ Arg(t) = created
         /\ Op(t) = "load" =>
              \/ t \in Handlers /\ next[t] \in {2, 3} /\ Arg(t) = Awaits[t]
              \/ t \in Requests /\ next[t] = 2 /\ Arg(t) = created
         /\ Op(t) = "store" => t \in Handlers /\ next[t] = 4 /\ Arg(t) = Awaits[t]
<1>1. Len(Program[t]) \in {2, 4, 7}
  BY Programs, MainProgram DEF Threads
<1>2. next[t] \in 1 .. Len(Program[t])
  <2>1. next[t] \in 1 .. 8
    BY DEF Placed, TypeOK
  <2> QED BY <1>1, <2>1 DEF Runs
<1> QED BY <1>1, <1>2, Operations DEF Op, Arg

LEMMA InitIInv == Init => IInv
<1> SUFFICES ASSUME Init
             PROVE  Placed
  BY IInvIsPlaced
<1>1. TypeOK
  <2>1. subs \in [EventNames -> Seq(Handlers)] /\ loaded \in [Threads -> Seq(Handlers)]
    BY EmptySeq DEF Init
  <2>2. next \in [Threads -> 1 .. 8] /\ started \subseteq Threads
    BY DEF Init, Threads
  <2> QED BY <2>1, <2>2 DEF Init, TypeOK
<1>2. \A t \in Threads : next[t] <= Len(Program[t]) + 1
  BY Programs, MainProgram DEF Init, Threads
<1>3. Started
  BY StartupAssumption DEF Init, Started, Threads, Handlers, inventory, product
<1>4. Registered
  BY DEF Init, Registered, Threads
<1>5. \A h \in Handlers : Awaits[h] \in EventNames
  BY DEF Awaits, EventNames
<1>6. \A h \in Handlers : Subscribing(h)
  BY <1>5 DEF Init, Subscribing, Threads
<1> QED BY <1>1, <1>2, <1>3, <1>4, <1>6 DEF Placed

(* A thread that goes on with step i; the others stay where they are.        *)
LEMMA Advance ==
  ASSUME Placed, NEW t \in Threads, NEW i \in 1 .. 8, i <= Len(Program[t]) + 1,
         next' = [next EXCEPT ![t] = i]
  PROVE  /\ next' \in [Threads -> 1 .. 8]
         /\ next'[t] = i
         /\ \A u \in Threads : u # t => next'[u] = next[u]
         /\ \A u \in Threads : next'[u] <= Len(Program[u]) + 1
<1>1. next \in [Threads -> 1 .. 8] /\ \A u \in Threads : next[u] <= Len(Program[u]) + 1
  BY DEF Placed, TypeOK
<1> QED BY <1>1

LEMMA Names ==
  /\ "main" \in Threads /\ inventory \in Threads /\ product \in Threads
  /\ Handlers = {inventory, product} /\ Handlers \subseteq Threads /\ Requests \subseteq Threads
  /\ "main" # inventory /\ "main" # product /\ inventory # product
  /\ "main" \notin Handlers /\ "main" \notin Requests /\ Requests \cap Handlers = {}
  /\ created # failed /\ EventNames = {created, failed}
  /\ Awaits[inventory] = created /\ Awaits[product] = failed
BY StartupAssumption DEF Threads, Handlers, inventory, product, created, failed, EventNames, Awaits

(* Every action preserves the invariant.                                    *)
LEMMA GoPlaced ==
  ASSUME Placed, NEW t \in Threads, Go(t)
  PROVE  Placed'
<1>1. /\ t = "main" /\ next[t] \in 1 .. Len(Program[t]) /\ Len(Program[t]) \in {2, 4, 7}
      /\ \/ next["main"] = 3 /\ Arg(t) = {inventory}
         \/ next["main"] = 6 /\ Arg(t) = {product}
         \/ next["main"] = 7 /\ Arg(t) = Requests
  BY AtStep DEF Go
<1>2. /\ next' \in [Threads -> 1 .. 8]
      /\ next'["main"] = next["main"] + 1
      /\ \A u \in Threads : u # "main" => next'[u] = next[u]
      /\ \A u \in Threads : next'[u] <= Len(Program[u]) + 1
  <2>1. next' = [next EXCEPT ![t] = next[t] + 1]
    BY DEF Go
  <2>2. next[t] + 1 \in 1 .. 8 /\ next[t] + 1 <= Len(Program[t]) + 1
    BY <1>1
  <2> QED BY <1>1, <2>1, <2>2, Advance
<1>3. TypeOK'
  <2>1. started' \subseteq Threads /\ inside' \subseteq started'
    BY <1>1, Names DEF Go, Placed, TypeOK
  <2> QED BY <1>2, <2>1 DEF Go, Placed, TypeOK
<1>4. Started'
  BY <1>1, <1>2, Names DEF Go, Placed, Started
<1>5. ~raced' => Registered' /\ \A h \in Handlers : Subscribing(h)'
  BY <1>1, <1>2, Names DEF Go, Placed, Registered, Subscribing
<1> QED BY <1>2, <1>3, <1>4, <1>5 DEF Placed

LEMMA BeginAccessPlaced ==
  ASSUME Placed, NEW t \in Threads, BeginAccess(t)
  PROVE  Placed'
<1>1. TypeOK'
  <2>1. Overlaps(t) \in BOOLEAN
    BY DEF Overlaps
  <2> QED BY <2>1 DEF BeginAccess, Runs, Placed, TypeOK
<1> QED BY <1>1 DEF BeginAccess, Placed, Started, Registered, Subscribing

LEMMA MapFaultPlaced ==
  ASSUME Placed, NEW t \in Threads, MapFault(t)
  PROVE  Placed'
BY DEF MapFault, Placed, TypeOK, Started, Registered, Subscribing

LEMMA EndFindPlaced ==
  ASSUME Placed, NEW t \in Threads, EndFind(t)
  PROVE  Placed'
<1>1. /\ t = "main" /\ Len(Program["main"]) = 7
      /\ \/ next["main"] = 1 /\ Arg(t) = failed
         \/ next["main"] = 4 /\ Arg(t) = created
  BY AtStep, Programs, MainProgram DEF EndFind, In
<1>2. PICK found \in Found(t) : EndAccess(t, next[t] + IF found THEN 2 ELSE 1)
  BY DEF EndFind
<1>3. ~raced => ~found
  <2>1. ~raced => Arg(t) \notin registered
    BY <1>1 DEF Placed, Registered
  <2> QED BY <2>1, <1>2, Zenon DEF Found
<1>4. PICK k \in {1, 2} : EndAccess(t, next["main"] + k) /\ (~raced => k = 1)
  BY <1>1, <1>2, <1>3
<1>5. /\ next' \in [Threads -> 1 .. 8]
      /\ next'["main"] = next["main"] + k
      /\ \A u \in Threads : u # "main" => next'[u] = next[u]
      /\ \A u \in Threads : next'[u] <= Len(Program[u]) + 1
  <2>1. next' = [next EXCEPT ![t] = next["main"] + k]
    BY <1>4 DEF EndAccess
  <2>2. next["main"] + k \in 1 .. 8 /\ next["main"] + k <= Len(Program[t]) + 1
    BY <1>1
  <2> QED BY <1>1, <2>1, <2>2, Advance
<1>6. /\ inside' = inside \ {t} /\ started' = started /\ loaded' = loaded /\ dead' = dead
      /\ raced' = raced /\ registered' = registered /\ subs' = subs
  BY <1>4 DEF EndFind, EndAccess
<1>7. TypeOK'
  BY <1>5, <1>6 DEF Placed, TypeOK
<1>8. Started'
  BY <1>1, <1>5, <1>6, Names DEF Placed, Started
<1>9. ~raced' => Registered' /\ \A h \in Handlers : Subscribing(h)'
  BY <1>1, <1>4, <1>5, <1>6, Names DEF Placed, Registered, Subscribing
<1> QED BY <1>5, <1>7, <1>8, <1>9 DEF Placed

(* While nothing has raced, main puts a name that is not registered and     *)
(* that no handler has looked up yet.                                       *)
LEMMA EndPutPlaced ==
  ASSUME Placed, NEW t \in Threads, EndPut(t)
  PROVE  /\ Placed'
         /\ ~raced => /\ Arg(t) \in EventNames \ registered
                      /\ registered' = registered \cup {Arg(t)}
                      /\ subs' = [subs EXCEPT ![Arg(t)] = <<>>]
<1>1. /\ t = "main" /\ Len(Program["main"]) = 7
      /\ \/ next["main"] = 2 /\ Arg(t) = failed
         \/ next["main"] = 5 /\ Arg(t) = created
  BY AtStep, Programs, MainProgram DEF EndPut, In
<1>2. /\ next' \in [Threads -> 1 .. 8]
      /\ next'["main"] = next["main"] + 1
      /\ \A u \in Threads : u # "main" => next'[u] = next[u]
      /\ \A u \in Threads : next'[u] <= Len(Program[u]) + 1
  <2>1. next' = [next EXCEPT ![t] = next[t] + 1]
    BY DEF EndPut, EndAccess
  <2>2. next[t] + 1 \in 1 .. 8 /\ next[t] + 1 <= Len(Program[t]) + 1
    BY <1>1
  <2> QED BY <1>1, <2>1, <2>2, Advance
<1>3. /\ inside' = inside \ {t} /\ started' = started /\ loaded' = loaded /\ dead' = dead
      /\ raced' = raced /\ dead = "no"
  BY DEF EndPut, EndAccess, In, Runs
<1>4. \/ /\ registered' = registered \cup {Arg(t)}
         /\ subs' = [subs EXCEPT ![Arg(t)] = <<>>]
      \/ raced /\ registered' = registered /\ subs' = subs
  BY DEF EndPut
<1>5. subs \in [EventNames -> Seq(Handlers)] /\ registered \subseteq EventNames
  BY DEF Placed, TypeOK
<1>6. subs' \in [EventNames -> Seq(Handlers)] /\ registered' \subseteq EventNames
  <2>1. Arg(t) \in EventNames /\ <<>> \in Seq(Handlers)
    BY <1>1, Names, EmptySeq
  <2> QED BY <1>4, <1>5, <2>1
<1>7. TypeOK'
  BY <1>2, <1>3, <1>6 DEF Placed, TypeOK
<1>8. Started'
  BY <1>1, <1>2, <1>3, Names DEF Placed, Started
<1>9. ~raced => Arg(t) \in EventNames \ registered
  BY <1>1, Names DEF Placed, Registered
<1>10. ASSUME ~raced
       PROVE  Registered' /\ \A h \in Handlers : Subscribing(h)'
  <2>1. Registered'
    BY <1>1, <1>2, <1>3, <1>4, <1>10, Names DEF Placed, Registered
  <2>2. ASSUME NEW h \in Handlers
        PROVE  Subscribing(h)'
    <3>1. Awaits[h] \in EventNames /\ next'[h] = next[h]
      BY <1>2, Names
    <3>2. Subscribing(h) /\ next[h] \in 1 .. 8
      BY <1>10, Names DEF Placed, TypeOK
    <3>3. CASE Awaits[h] = Arg(t)
      <4>1. subs'[Awaits[h]] = <<>> /\ ~(next[h] > 1)
        BY <1>3, <1>4, <1>5, <1>9, <1>10, <3>1, <3>2, <3>3 DEF Subscribing
      <4> QED BY <3>1, <3>2, <4>1 DEF Subscribing
    <3>4. CASE Awaits[h] # Arg(t)
      <4>1. subs'[Awaits[h]] = subs[Awaits[h]] /\ registered \subseteq registered'
        BY <1>4, <1>5, <1>10, <3>1, <3>4
      <4> QED BY <1>3, <3>1, <3>2, <4>1 DEF Subscribing
    <3> QED BY <3>3, <3>4
  <2> QED BY <2>1, <2>2
<1> QED BY <1>2, <1>3, <1>4, <1>7, <1>8, <1>9, <1>10 DEF Placed

(* While nothing has raced, what a handler has found is registered, and the *)
(* process dies of the inventory handler only.                              *)
LEMMA EndMustPlaced ==
  ASSUME Placed, NEW t \in Threads, EndMust(t)
  PROVE  Placed'
<1>1. /\ next[t] = 1 /\ Len(Program[t]) \in {2, 4, 7} /\ t \in started /\ t # "main"
      /\ t \in Handlers => Arg(t) = Awaits[t] /\ Len(Program[t]) = 4
      /\ t \in Requests => Arg(t) = created
      /\ t \in Handlers \/ t \in Requests
  BY AtStep, Programs, Names DEF EndMust, In, Runs
<1>0. PICK n \in {2, 4, 7} : n = Len(Program[t])
  BY <1>1
<1>2. \/ /\ EndAccess(t, next[t] + 1)
         /\ dead' = dead
         /\ ~raced => Arg(t) \in registered
      \/ /\ EndAccess(t, Len(Program[t]) + 1)
         /\ dead' = IF t \in Requests THEN dead ELSE "unregistered"
         /\ ~raced => Arg(t) \notin registered
  <2>1. PICK found \in Found(t) :
          /\ EndAccess(t, IF found THEN next[t] + 1 ELSE Len(Program[t]) + 1)
          /\ dead' = IF found \/ t \in Requests THEN dead ELSE "unregistered"
    BY DEF EndMust
  <2>2. ~raced => (found <=> Arg(t) \in registered)
    BY <2>1, Zenon DEF Found
  <2>3. CASE found
    BY <2>1, <2>2, <2>3, Zenon
  <2>4. CASE ~found
    BY <2>1, <2>2, <2>4, Zenon
  <2> QED BY <2>3, <2>4
<1>3. \E k \in 1 .. 8 :
        /\ EndAccess(t, k) /\ k <= n + 1
        /\ \/ k = 2 /\ dead' = dead /\ (~raced => Arg(t) \in registered)
           \/ /\ k = n + 1 /\ (~raced => Arg(t) \notin registered)
              /\ dead' = IF t \in Requests THEN dead ELSE "unregistered"
  <2>1. /\ next[t] + 1 = 2 /\ 2 \in 1 .. 8 /\ 2 <= n + 1
        /\ n + 1 \in 1 .. 8 /\ n + 1 <= n + 1
    BY <1>1
  <2> QED BY <1>0, <1>2, <2>1, Zenon
<1>4. PICK k \in 1 .. 8 :
        /\ EndAccess(t, k) /\ k <= n + 1
        /\ \/ k = 2 /\ dead' = dead /\ (~raced => Arg(t) \in registered)
           \/ /\ k = n + 1 /\ (~raced => Arg(t) \notin registered)
              /\ dead' = IF t \in Requests THEN dead ELSE "unregistered"
  BY <1>3
<1>5. /\ next' \in [Threads -> 1 .. 8]
      /\ next'[t] = k
      /\ \A u \in Threads : u # t => next'[u] = next[u]
      /\ \A u \in Threads : next'[u] <= Len(Program[u]) + 1
  <2>1. next' = [next EXCEPT ![t] = k]
    BY <1>4 DEF EndAccess
  <2> QED BY <1>0, <1>4, <2>1, Advance
<1>6. /\ inside' = inside \ {t} /\ started' = started /\ loaded' = loaded
      /\ raced' = raced /\ registered' = registered /\ subs' = subs /\ dead = "no"
  BY <1>4 DEF EndMust, EndAccess, In, Runs
<1>7. TypeOK'
  BY <1>2, <1>5, <1>6 DEF Placed, TypeOK
<1>8. Started'
  BY <1>1, <1>5, <1>6, Names DEF Placed, Started
<1>9. ASSUME ~raced
      PROVE  Registered' /\ \A h \in Handlers : Subscribing(h)'
  <2>1. /\ product \in started => next["main"] > 6
        /\ Requests \cap started # {} => next["main"] > 7
        /\ failed \in registered <=> next["main"] > 2
        /\ created \in registered <=> next["main"] > 5
        /\ next["main"] \in 1 .. 8
    BY <1>9, Names DEF Placed, Started, Registered, TypeOK
  <2>2. Registered'
    <3>1. CASE dead' = dead
      BY <1>1, <1>5, <1>6, <2>1, <3>1, Names DEF Registered
    <3>2. CASE dead' # dead
      <4>1. Arg(t) \notin registered /\ t \notin Requests
        BY <1>4, <1>9, <3>2
      <4>2. created \notin registered
        BY <1>1, <2>1, <4>1, Names
      <4> QED BY <1>5, <1>6, <1>1, <2>1, <4>2, Names DEF Registered
    <3> QED BY <3>1, <3>2
  <2>3. ASSUME NEW h \in Handlers
        PROVE  Subscribing(h)'
    <3>1. Subscribing(h) /\ h \in Threads
      BY <1>9, Names DEF Placed
    <3>2. CASE h # t
      <4>1. next'[h] = next[h]
        BY <1>5, <3>1, <3>2
      <4> QED BY <1>6, <3>1, <4>1 DEF Subscribing
    <3>3. CASE h = t
      <4>1. CASE k = 2 /\ Arg(t) \in registered
        BY <1>1, <1>5, <1>6, <3>1, <3>3, <4>1 DEF Subscribing
      <4>2. CASE k = n + 1 /\ dead' = "unregistered"
        <5>1. n = 4
          BY <1>0, <1>1, <3>3
        <5>2. next'[h] = 5
          BY <1>5, <3>3, <4>2, <5>1
        <5> QED BY <4>2, <5>2 DEF Subscribing
      <4> QED BY <1>4, <1>9, <3>3, <4>1, <4>2, Names
    <3> QED BY <3>2, <3>3
  <2> QED BY <2>2, <2>3
<1> QED BY <1>5, <1>6, <1>7, <1>8, <1>9 DEF Placed

LEMMA EndLoadPlaced ==
  ASSUME Placed, NEW t \in Threads, EndLoad(t)
  PROVE  Placed'
<1>1. /\ next[t] \in 1 .. Len(Program[t]) /\ Len(Program[t]) \in {2, 4, 7} /\ t # "main"
      /\ t \in Handlers => Arg(t) = Awaits[t] /\ next[t] \in {2, 3}
      /\ Arg(t) \in EventNames
  BY AtStep, Names DEF EndLoad, In, Runs
<1>0. next[t] + 1 \in 1 .. 8 /\ next[t] + 1 <= Len(Program[t]) + 1
  BY AtStep DEF EndLoad, In
<1>2. /\ next' \in [Threads -> 1 .. 8]
      /\ next'[t] = next[t] + 1
      /\ \A u \in Threads : u # t => next'[u] = next[u]
      /\ \A u \in Threads : next'[u] <= Len(Program[u]) + 1
  <2>1. next' = [next EXCEPT ![t] = next[t] + 1]
    BY DEF EndLoad, EndAccess
  <2> QED BY <1>0, <2>1, Advance
<1>3. /\ inside' = inside \ {t} /\ started' = started /\ registered' = registered
      /\ raced' = raced /\ dead' = dead /\ subs' = subs
      /\ loaded' = [loaded EXCEPT ![t] = subs[Arg(t)]]
  BY DEF EndLoad, EndAccess
<1>4. TypeOK'
  <2>1. subs[Arg(t)] \in Seq(Handlers)
    BY <1>1 DEF Placed, TypeOK
  <2>2. loaded' \in [Threads -> Seq(Handlers)]
    BY <1>3, <2>1 DEF Placed, TypeOK
  <2> QED BY <1>2, <1>3, <2>2 DEF Placed, TypeOK
<1>5. Started'
  BY <1>1, <1>2, <1>3, Names DEF Placed, Started
<1>6. ASSUME ~raced
      PROVE  Registered' /\ \A h \in Handlers : Subscribing(h)'
  <2>1. Registered'
    BY <1>1, <1>2, <1>3, <1>6, Names DEF Placed, Registered
  <2>2. ASSUME NEW h \in Handlers
        PROVE  Subscribing(h)'
    <3>1. Subscribing(h) /\ h \in Threads /\ loaded \in [Threads -> Seq(Handlers)]
      BY <1>6, Names DEF Placed, TypeOK
    <3>2. CASE h # t
      <4>1. next'[h] = next[h] /\ loaded'[h] = loaded[h]
        BY <1>2, <1>3, <3>1, <3>2
      <4> QED BY <1>3, <3>1, <4>1 DEF Subscribing
    <3>3. CASE h = t
      <4>1. next'[h] \in {3, 4} /\ loaded'[h] = subs[Awaits[h]]
        BY <1>1, <1>2, <1>3, <3>1, <3>3
      <4> QED BY <1>1, <1>3, <3>1, <3>3, <4>1 DEF Subscribing
    <3> QED BY <3>2, <3>3
  <2> QED BY <2>1, <2>2
<1> QED BY <1>2, <1>3, <1>4, <1>5, <1>6 DEF Placed

(* While nothing has raced, a handler stores what it has loaded, with       *)
(* itself at the end, over what it has loaded.                              *)
LEMMA EndStorePlaced ==
  ASSUME Placed, NEW t \in Threads, EndStore(t)
  PROVE  /\ Placed'
         /\ ~raced => /\ t \in Handlers
                      /\ Awaits[t] \in registered
                      /\ subs[Awaits[t]] = <<>>
                      /\ subs' = [subs EXCEPT ![Awaits[t]] = Append(subs[Awaits[t]], t)]
<1>1. /\ t \in Handlers /\ Arg(t) = Awaits[t] /\ next[t] = 4 /\ Len(Program[t]) = 4
      /\ Awaits[t] \in EventNames /\ t # "main" /\ dead = "no"
  BY AtStep, Programs, Names DEF EndStore, In, Runs
<1>2. /\ next' \in [Threads -> 1 .. 8]
      /\ next'[t] = 5
      /\ \A u \in Threads : u # t => next'[u] = next[u]
      /\ \A u \in Threads : next'[u] <= Len(Program[u]) + 1
  <2>1. next' = [next EXCEPT ![t] = 5]
    BY <1>1 DEF EndStore, EndAccess
  <2>2. 5 \in 1 .. 8 /\ 5 <= Len(Program[t]) + 1
    BY <1>1
  <2> QED BY <2>1, <2>2, Advance
<1>3. /\ inside' = inside \ {t} /\ started' = started /\ registered' = registered
      /\ raced' = raced /\ dead' = dead /\ loaded' = loaded
      /\ \/ subs' = [subs EXCEPT ![Awaits[t]] = Append(loaded[t], t)]
         \/ raced /\ subs' = subs
  BY <1>1 DEF EndStore, EndAccess
<1>4. subs \in [EventNames -> Seq(Handlers)] /\ loaded \in [Threads -> Seq(Handlers)]
  BY DEF Placed, TypeOK
<1>5. subs' \in [EventNames -> Seq(Handlers)]
  <2>1. Append(loaded[t], t) \in Seq(Handlers)
    BY <1>1, <1>4
  <2> QED BY <1>3, <1>4, <2>1
<1>6. TypeOK'
  BY <1>2, <1>3, <1>5 DEF Placed, TypeOK
<1>7. Started'
  BY <1>1, <1>2, <1>3, Names DEF Placed, Started
<1>8. ASSUME ~raced
      PROVE  /\ Awaits[t] \in registered
             /\ loaded[t] = <<>> /\ subs[Awaits[t]] = <<>>
             /\ subs' = [subs EXCEPT ![Awaits[t]] = <<t>>]
             /\ Append(<<>>, t) = <<t>>
  <2>1. Subscribing(t)
    BY <1>1, <1>8 DEF Placed
  <2> QED BY <1>1, <1>3, <1>8, <2>1 DEF Subscribing
<1>9. ASSUME ~raced
      PROVE  Registered' /\ \A h \in Handlers : Subscribing(h)'
  <2>1. Registered'
    BY <1>1, <1>2, <1>3, <1>9, Names DEF Placed, Registered
  <2>2. ASSUME NEW h \in Handlers
        PROVE  Subscribing(h)'
    <3>1. Subscribing(h) /\ h \in Threads /\ Awaits[h] \in EventNames
      BY <1>9, Names DEF Placed
    <3>2. CASE h # t
      <4>1. next'[h] = next[h] /\ Awaits[h] # Awaits[t]
        BY <1>1, <1>2, <3>1, <3>2, Names
      <4>2. subs'[Awaits[h]] = subs[Awaits[h]]
        BY <1>4, <1>8, <1>9, <3>1, <4>1
      <4> QED BY <1>3, <3>1, <4>1, <4>2 DEF Subscribing
    <3>3. CASE h = t
      <4>1. next'[h] = 5 /\ subs'[Awaits[h]] = <<h>>
        BY <1>2, <1>4, <1>8, <1>9, <3>1, <3>3
      <4> QED BY <1>3, <1>8, <1>9, <3>3, <4>1 DEF Subscribing
    <3> QED BY <3>2, <3>3
  <2> QED BY <2>1, <2>2
<1> QED BY <1>1, <1>2, <1>3, <1>6, <1>7, <1>8, <1>9 DEF Placed

LEMMA NextIInv == IInv /\ [Next]_vars => IInv'
<1> SUFFICES ASSUME Placed, [Next]_vars
             PROVE  Placed'
  BY IInvIsPlaced, IInvIsPlacedNext
<1>1. ASSUME NEW t \in Threads, Step(t) \/ MapFault(t)
      PROVE  Placed'
  BY <1>1, GoPlaced, BeginAccessPlaced, MapFaultPlaced, EndFindPlaced, EndPutPlaced,
     EndMustPlaced, EndLoadPlaced, EndStorePlaced DEF Step
<1>2. CASE UNCHANGED vars
  BY <1>2 DEF vars, Placed, TypeOK, Started, Registered, Subscribing
<1> QED BY <1>1, <1>2 DEF Next, Terminating

(* At all times the place of each thread tells what it has registered,      *)
(* loaded and stored, unless accesses to the map have raced.                *)
THEOREM IInvAlways == Spec => []IInv
<1> QED BY InitIInv, NextIInv, PTL DEF Spec

(* Variables keep their types, corrupted map or not.                        *)
THEOREM TypeCorrect == Spec => []TypeOK
<1>1. IInv => TypeOK
  BY DEF IInv
<1> QED BY <1>1, IInvAlways, PTL

-----------------------------------------------------------------------------
(* What follows from it.                                                    *)

(* Only the inventory handler can subscribe before its event is registered; *)
(* the product handler and the requests come after theirs.                  *)
THEOREM OthersInTime == Spec => []OnlyInventoryTooEarly
<1>1. IInv => OnlyInventoryTooEarly
  <2> SUFFICES ASSUME Placed
               PROVE  OnlyInventoryTooEarly
    BY IInvIsPlaced
  <2>1. next["main"] \in 1 .. 8
    BY Names DEF Placed, TypeOK
  <2> QED BY <2>1, Names DEF Placed, Started, Registered, OnlyInventoryTooEarly
<1> QED BY <1>1, IInvAlways, PTL

(* A handler whose Subscribe has returned is subscribed, once and alone, as *)
(* long as the map is not corrupted.                                        *)
THEOREM SubscriptionsLast == Spec => []SubscriptionKept
<1>1. IInv => SubscriptionKept
  <2> SUFFICES ASSUME Placed, ~raced, NEW h \in Handlers,
                      next[h] > Len(Program[h]), dead = "no"
               PROVE  subs[Awaits[h]] = <<h>>
    BY IInvIsPlaced DEF SubscriptionKept
  <2>1. Subscribing(h) /\ Len(Program[h]) = 4
    BY Programs DEF Placed
  <2> QED BY <2>1 DEF Subscribing
<1> QED BY <1>1, IInvAlways, PTL

(* Once the inventory handler has subscribed, the event of every product    *)
(* that is created reaches it.                                              *)
THEOREM LaterEventsReach == Spec => NobodyOnlyEarly
<1> DEFINE Reaches ==
      \A r \in Requests :
        /\ ~raced'
        /\ next[r] = Len(Program[r]) /\ next'[r] > next[r]
        /\ loaded'[r] # <<inventory>>
        => next[inventory] <= Len(Program[inventory])
<1>1. IInv /\ [Next]_vars => [Reaches]_vars
  <2> SUFFICES ASSUME Placed, Next
               PROVE  Reaches
    BY IInvIsPlaced
  <2> SUFFICES ASSUME NEW r \in Requests, ~raced',
                      next[r] = Len(Program[r]), next'[r] > next[r],
                      ~(next[inventory] <= Len(Program[inventory]))
               PROVE  loaded'[r] = <<inventory>>
    BY Zenon
  <2>1. /\ r \in Threads /\ next[r] = 2 /\ next[inventory] > 4
        /\ Program[r] = Publish(created) /\ next \in [Threads -> 1 .. 8]
    <3>1. /\ r \in Threads /\ inventory \in Threads /\ inventory \in Handlers
      BY DEF Threads, Handlers
    <3>2. Program[r] = Publish(created) /\ Len(Program[r]) = 2
      BY Programs
    <3>3. Len(Program[inventory]) = 4
      BY <3>1, Programs
    <3>4. next \in [Threads -> 1 .. 8]
      BY DEF Placed, TypeOK
    <3>5. next[inventory] \in 1 .. 8
      BY <3>1, <3>4
    <3>6. next[inventory] > 4
      BY <3>3, <3>5
    <3> QED BY <3>1, <3>2, <3>4, <3>6
  <2>2. Op(r) = "load" /\ Arg(r) = created
    BY <2>1 DEF Op, Arg, Publish
  <2>3. PICK t \in Threads : Step(t) \/ MapFault(t)
    BY <2>1 DEF Next, Terminating, vars
  <2>4. t = r
    BY <2>1, <2>3 DEF Step, Go, BeginAccess, MapFault, EndFind, EndPut, EndMust, EndLoad,
                      EndStore, EndAccess
  <2>5. EndLoad(r)
    BY <2>1, <2>2, <2>3, <2>4 DEF Step, Go, BeginAccess, MapFault, EndFind, EndPut,
                                 EndMust, EndStore, In
  <2>6. /\ loaded'[r] = subs[created] /\ ~raced /\ dead = "no"
    BY <2>1, <2>2, <2>5 DEF EndLoad, In, Runs, Placed, TypeOK
  <2>7. Subscribing(inventory) /\ Awaits[inventory] = created
    BY <2>6, Names DEF Placed
  <2> QED BY <2>1, <2>6, <2>7 DEF Subscribing
<1> QED BY <1>1, IInvAlways, PTL DEF Spec, NobodyOnlyEarly

-----------------------------------------------------------------------------
(* The indivisible RegisterEvents and Subscribe of EventEngine.             *)

(* The put of a RegisterEvents is the whole of it.                          *)
LEMMA PutIsRegister ==
  ASSUME Placed, ~raced, NEW t \in Threads, EndPut(t)
  PROVE  Wiring!RegisterEvents(Arg(t)) /\ Arg(t) \in EventNames
<1>1. /\ Arg(t) \in EventNames \ registered
      /\ registered' = registered \cup {Arg(t)}
      /\ subs' = [subs EXCEPT ![Arg(t)] = <<>>]
  BY EndPutPlaced
<1> QED BY <1>1 DEF Wiring!RegisterEvents, Wiring!publishVars, Wiring!listenVars

(* The store of a Subscribe is the whole of it.                             *)
LEMMA StoreIsSubscribe ==
  ASSUME Placed, ~raced, NEW t \in Threads, EndStore(t)
  PROVE  t \in Handlers /\ Wiring!Subscribe(t, Awaits[t])
<1>1. /\ t \in Handlers
      /\ Awaits[t] \in registered
      /\ subs[Awaits[t]] = <<>>
      /\ subs' = [subs EXCEPT ![Awaits[t]] = Append(subs[Awaits[t]], t)]
  BY EndStorePlaced
<1>2. registered' = registered
  BY DEF EndStore
<1>3. t \notin Wiring!Range(subs[Awaits[t]])
  BY <1>1 DEF Wiring!Range
<1>4. Awaits[t] \in [h \in Handlers |-> {Awaits[h]}][t]
  BY <1>1
<1> QED BY <1>1, <1>2, <1>3, <1>4
        DEF Wiring!Subscribe, Wiring!publishVars, Wiring!listenVars

(* Until accesses to the map race, the steps of main and of the handlers    *)
(* change it only as RegisterEvents and Subscribe of EventEngine do.        *)
THEOREM StartupWires == Spec => WiringIsAtomic
<1>1. Init => Wiring!Init
  BY DEF Init, Wiring!Init, Wiring!Idle
<1>2. IInv /\ [Next]_vars => [~raced' => Wiring!Next]_<<registered, subs>>
  <2> SUFFICES ASSUME Placed, Next, ~raced', <<registered, subs>>' # <<registered, subs>>
               PROVE  Wiring!Next
    BY IInvIsPlaced DEF vars
  <2>1. PICK t \in Threads : Step(t) \/ MapFault(t)
    BY DEF Next, Terminating, vars
  <2>2. EndPut(t) \/ EndStore(t)
    BY <2>1 DEF Step, Go, BeginAccess, MapFault, EndFind, EndMust, EndLoad
  <2>3. ~raced
    BY <2>2 DEF EndPut, EndStore
  <2>4. CASE EndPut(t)
    BY <2>3, <2>4, PutIsRegister DEF Wiring!Next
  <2>5. CASE EndStore(t)
    <3>1. t \in Handlers /\ Wiring!Subscribe(t, Awaits[t]) /\ Awaits[t] \in EventNames
      BY <2>3, <2>5, StoreIsSubscribe, Names
    <3> QED BY <3>1 DEF Wiring!Next
  <2> QED BY <2>2, <2>4, <2>5
<1> QED BY <1>1, <1>2, IInvAlways, PTL DEF Spec, WiringIsAtomic
=============================================================================
