---------------------------- MODULE SequenceFacts ----------------------------
(***************************************************************************)
(* Facts about the heads, ranges and concatenations of sequences that the  *)
(* proofs about channels rest on.                                          *)
(***************************************************************************)
EXTENDS Sequences, Functions, SequenceTheorems, TLAPS

(* What is left of a sequence after its head, and how the two make it up.   *)
LEMMA HeadTail ==
  ASSUME NEW S, NEW q \in Seq(S), q # <<>>
  PROVE  /\ Head(q) \in S
         /\ Tail(q) \in Seq(S)
         /\ Len(Tail(q)) = Len(q) - 1
         /\ Head(q) = q[1]
         /\ \A i \in 1 .. Len(Tail(q)) : Tail(q)[i] = q[i + 1]
  BY HeadTailProperties

(* The range of a sequence of one element.                                  *)
LEMMA RangeOne == ASSUME NEW e PROVE Range(<<e>>) = {e}
<1> DEFINE q == <<e>>
<1>1. q \in Seq({e}) /\ Len(q) = 1 /\ q[1] = e
  OBVIOUS
<1> HIDE DEF q
<1>2. Range(q) = {q[i] : i \in 1 .. 1}
  BY <1>1, RangeEquality
<1>3. 1 .. 1 = {1}
  OBVIOUS
<1>4. Range(q) = {e}
  BY <1>1, <1>2, <1>3
<1> QED BY <1>4 DEF q

(* The range of an extended sequence.                                       *)
LEMMA RangeAppend ==
  ASSUME NEW S, NEW q \in Seq(S), NEW e \in S
  PROVE  Range(Append(q, e)) = Range(q) \cup {e}
<1>1. /\ Append(q, e) \in Seq(S)
      /\ Len(Append(q, e)) = Len(q) + 1
      /\ \A i \in 1 .. Len(q) : Append(q, e)[i] = q[i]
      /\ Append(q, e)[Len(q) + 1] = e
  BY AppendProperties
<1>2. Range(q) = {q[i] : i \in 1 .. Len(q)}
  BY RangeEquality
<1>3. Range(Append(q, e)) = {Append(q, e)[i] : i \in 1 .. Len(q) + 1}
  BY <1>1, RangeEquality
<1>4. Len(q) \in Nat
  BY LenProperties
<1>5. 1 .. Len(q) + 1 = (1 .. Len(q)) \cup {Len(q) + 1}
  BY <1>4
<1> QED BY <1>1, <1>2, <1>3, <1>5

(* The range of a sequence without repetitions, cut at its head.            *)
LEMMA RangeHeadTail ==
  ASSUME NEW S, NEW q \in Seq(S), q # <<>>
  PROVE  /\ Range(q) = {Head(q)} \cup Range(Tail(q))
         /\ IsInjective(q) => /\ Head(q) \notin Range(Tail(q))
                              /\ IsInjective(Tail(q))
<1>1. /\ Tail(q) \in Seq(S)
      /\ Len(Tail(q)) = Len(q) - 1
      /\ Head(q) = q[1]
      /\ \A i \in 1 .. Len(Tail(q)) : Tail(q)[i] = q[i + 1]
  BY HeadTail
<1>2. /\ Range(q) = {q[i] : i \in 1 .. Len(q)}
      /\ Range(Tail(q)) = {Tail(q)[i] : i \in 1 .. Len(q) - 1}
      /\ Len(q) \in Nat \ {0}
      /\ DOMAIN q = 1 .. Len(q)
      /\ DOMAIN Tail(q) = 1 .. Len(q) - 1
  <2>1. Range(q) = {q[i] : i \in 1 .. Len(q)}
    BY RangeEquality
  <2>2. Range(Tail(q)) = {Tail(q)[i] : i \in 1 .. Len(Tail(q))}
    BY <1>1, RangeEquality
  <2>3. Len(q) \in Nat \ {0} /\ DOMAIN q = 1 .. Len(q)
    BY EmptySeq, LenProperties
  <2>4. DOMAIN Tail(q) = 1 .. Len(Tail(q))
    BY <1>1, LenProperties
  <2> QED BY <1>1, <2>1, <2>2, <2>3, <2>4
<1>3. Range(Tail(q)) = {q[i + 1] : i \in 1 .. Len(q) - 1}
  BY <1>1, <1>2
<1>4. Range(q) \subseteq {Head(q)} \cup Range(Tail(q))
  <2> SUFFICES ASSUME NEW i \in 1 .. Len(q)
               PROVE  q[i] \in {Head(q)} \cup Range(Tail(q))
    BY <1>2
  <2>1. CASE i = 1
    BY <2>1, <1>1
  <2>2. CASE i # 1
    <3>1. i - 1 \in 1 .. Len(q) - 1 /\ (i - 1) + 1 = i
      BY <2>2, <1>2
    <3> QED BY <3>1, <1>3
  <2> QED BY <2>1, <2>2
<1>5. {Head(q)} \cup Range(Tail(q)) \subseteq Range(q)
  <2>1. 1 \in 1 .. Len(q)
    BY <1>2
  <2>2. \A i \in 1 .. Len(q) - 1 : i + 1 \in 1 .. Len(q)
    BY <1>2
  <2> QED BY <2>1, <2>2, <1>1, <1>2, <1>3
<1>6. ASSUME IsInjective(q)
      PROVE  Head(q) \notin Range(Tail(q)) /\ IsInjective(Tail(q))
  <2>1. \A i, j \in 1 .. Len(q) : q[i] = q[j] => i = j
    BY <1>6, <1>2 DEF IsInjective
  <2>2. Head(q) \notin Range(Tail(q))
    <3> SUFFICES ASSUME NEW i \in 1 .. Len(q) - 1, q[1] = q[i + 1]
                 PROVE  FALSE
      BY <1>1, <1>3
    <3>1. 1 \in 1 .. Len(q) /\ i + 1 \in 1 .. Len(q) /\ i + 1 # 1
      BY <1>2
    <3> QED BY <3>1, <2>1
  <2>3. ASSUME NEW i \in 1 .. Len(q) - 1, NEW j \in 1 .. Len(q) - 1,
               Tail(q)[i] = Tail(q)[j]
        PROVE  i = j
    <3>1. i + 1 \in 1 .. Len(q) /\ j + 1 \in 1 .. Len(q)
      BY <1>2
    <3>2. q[i + 1] = q[j + 1]
      BY <2>3, <1>1
    <3>3. i + 1 = j + 1
      BY <3>1, <3>2, <2>1
    <3> QED BY <3>3, <1>2
  <2> QED BY <2>2, <2>3, <1>2 DEF IsInjective
<1> QED BY <1>4, <1>5, <1>6

(* Appending what is not there keeps a sequence free of repetitions.        *)
LEMMA InjectiveAppend ==
  ASSUME NEW S, NEW q \in Seq(S), NEW e \in S,
         IsInjective(q), e \notin Range(q)
  PROVE  IsInjective(Append(q, e))
<1>1. /\ Append(q, e) \in Seq(S)
      /\ Len(Append(q, e)) = Len(q) + 1
      /\ \A i \in 1 .. Len(q) : Append(q, e)[i] = q[i]
      /\ Append(q, e)[Len(q) + 1] = e
  BY AppendProperties
<1>2. /\ Len(q) \in Nat
      /\ DOMAIN q = 1 .. Len(q)
      /\ DOMAIN Append(q, e) = 1 .. Len(q) + 1
      /\ Range(q) = {q[i] : i \in 1 .. Len(q)}
  BY <1>1, LenProperties, RangeEquality
<1>3. \A i \in 1 .. Len(q) + 1 : i \in 1 .. Len(q) \/ i = Len(q) + 1
  BY <1>2
<1>4. \A i, j \in 1 .. Len(q) : q[i] = q[j] => i = j
  BY <1>2 DEF IsInjective
<1>5. \A i \in 1 .. Len(q) : q[i] # e
  BY <1>2
<1> QED BY <1>1, <1>2, <1>3, <1>4, <1>5 DEF IsInjective

(* An event that moves from the head of one sequence to the end of the one  *)
(* before it leaves their concatenation as it was.                          *)
LEMMA MoveHead ==
  ASSUME NEW S, NEW p \in Seq(S), NEW q \in Seq(S), q # <<>>
  PROVE  Append(p, Head(q)) \o Tail(q) = p \o q
<1>1. Head(q) \in S /\ Tail(q) \in Seq(S)
  BY HeadTail
<1>2. q = <<Head(q)>> \o Tail(q)
  <2>1. Len(q) \in Nat \ {0}
    BY EmptySeq
  <2>2. <<Head(q)>> \in Seq(S) /\ Len(<<Head(q)>>) = 1 /\ <<Head(q)>>[1] = Head(q)
    BY <1>1
  <2>3. /\ Len(Tail(q)) = Len(q) - 1
        /\ Head(q) = q[1]
        /\ \A i \in 1 .. Len(Tail(q)) : Tail(q)[i] = q[i + 1]
    BY HeadTail
  <2>4. /\ <<Head(q)>> \o Tail(q) \in Seq(S)
        /\ Len(<<Head(q)>> \o Tail(q)) = Len(q)
        /\ \A i \in 1 .. Len(q) : (<<Head(q)>> \o Tail(q))[i]
                                    = IF i <= 1 THEN Head(q) ELSE Tail(q)[i - 1]
    BY <1>1, <2>1, <2>2, <2>3, ConcatProperties
  <2>5. \A i \in 1 .. Len(q) : q[i] = (<<Head(q)>> \o Tail(q))[i]
    BY <2>1, <2>3, <2>4
  <2> QED BY <2>4, <2>5, SeqEqual
<1>3. Append(p, Head(q)) = p \o <<Head(q)>>
  BY <1>1, AppendIsConcat
<1>4. <<Head(q)>> \in Seq(S)
  BY <1>1
<1>5. (p \o <<Head(q)>>) \o Tail(q) = p \o (<<Head(q)>> \o Tail(q))
  BY <1>1, <1>4, ConcatAssociative
<1> QED BY <1>2, <1>3, <1>5

(* An element appended to the second of two sequences ends both.            *)
LEMMA ConcatAppend ==
  ASSUME NEW S, NEW p \in Seq(S), NEW q \in Seq(S), NEW e \in S
  PROVE  p \o Append(q, e) = (p \o q) \o <<e>>
<1> DEFINE u == <<e>>
<1>1. u \in Seq(S) /\ Append(q, e) = q \o u
  BY AppendIsConcat
<1> HIDE DEF u
<1>2. (p \o q) \o u = p \o (q \o u)
  BY <1>1, ConcatAssociative
<1> QED BY <1>1, <1>2 DEF u

(* The range of a concatenation.                                            *)
LEMMA RangeConcat ==
  ASSUME NEW S, NEW p \in Seq(S), NEW q \in Seq(S)
  PROVE  Range(p \o q) = Range(p) \cup Range(q)
<1>1. /\ p \o q \in Seq(S)
      /\ Len(p \o q) = Len(p) + Len(q)
      /\ \A i \in 1 .. Len(p) + Len(q) :
           (p \o q)[i] = IF i <= Len(p) THEN p[i] ELSE q[i - Len(p)]
  BY ConcatProperties
<1>2. Len(p) \in Nat /\ Len(q) \in Nat
  BY LenProperties
<1>3. /\ Range(p) = {p[i] : i \in 1 .. Len(p)}
      /\ Range(q) = {q[i] : i \in 1 .. Len(q)}
      /\ Range(p \o q) = {(p \o q)[i] : i \in 1 .. Len(p) + Len(q)}
  <2>1. Range(p \o q) = {(p \o q)[i] : i \in 1 .. Len(p \o q)}
    BY <1>1, RangeEquality
  <2> QED BY <1>1, <2>1, RangeEquality
<1>4. ASSUME NEW i \in 1 .. Len(p) + Len(q)
      PROVE  (p \o q)[i] \in Range(p) \cup Range(q)
  <2>1. CASE i <= Len(p)
    BY <1>1, <1>2, <1>3, <2>1
  <2>2. CASE ~(i <= Len(p))
    <3>1. i - Len(p) \in 1 .. Len(q)
      BY <1>2, <2>2
    <3> QED BY <1>1, <1>3, <2>2, <3>1
  <2> QED BY <2>1, <2>2
<1>5. ASSUME NEW i \in 1 .. Len(p) PROVE p[i] \in Range(p \o q)
  <2>1. i \in 1 .. Len(p) + Len(q) /\ i <= Len(p)
    BY <1>2
  <2> QED BY <1>1, <1>3, <2>1
<1>6. ASSUME NEW i \in 1 .. Len(q) PROVE q[i] \in Range(p \o q)
  <2>1. /\ Len(p) + i \in 1 .. Len(p) + Len(q)
        /\ ~(Len(p) + i <= Len(p))
        /\ (Len(p) + i) - Len(p) = i
    BY <1>2
  <2> QED BY <1>1, <1>3, <2>1
<1> QED BY <1>3, <1>4, <1>5, <1>6

(* The two parts of a sequence without repetitions have none, and nothing   *)
(* in common.                                                               *)
LEMMA ConcatInjective ==
  ASSUME NEW S, NEW p \in Seq(S), NEW q \in Seq(S), IsInjective(p \o q)
  PROVE  IsInjective(q) /\ Range(p) \cap Range(q) = {}
<1>1. /\ p \o q \in Seq(S)
      /\ Len(p \o q) = Len(p) + Len(q)
      /\ \A i \in 1 .. Len(p) + Len(q) :
           (p \o q)[i] = IF i <= Len(p) THEN p[i] ELSE q[i - Len(p)]
  BY ConcatProperties
<1>2. Len(p) \in Nat /\ Len(q) \in Nat
  BY LenProperties
<1>3. DOMAIN (p \o q) = 1 .. Len(p) + Len(q) /\ DOMAIN q = 1 .. Len(q)
  BY <1>1, LenProperties
<1>4. \A i \in 1 .. Len(p) : i \in DOMAIN (p \o q) /\ (p \o q)[i] = p[i]
  BY <1>1, <1>2, <1>3
<1>5. ASSUME NEW j \in 1 .. Len(q)
      PROVE  Len(p) + j \in DOMAIN (p \o q) /\ (p \o q)[Len(p) + j] = q[j]
  <2>1. /\ Len(p) + j \in 1 .. Len(p) + Len(q)
        /\ ~(Len(p) + j <= Len(p))
        /\ (Len(p) + j) - Len(p) = j
    BY <1>2
  <2> QED BY <1>1, <1>3, <2>1
<1>6. ASSUME NEW i \in 1 .. Len(q), NEW j \in 1 .. Len(q), q[i] = q[j]
      PROVE  i = j
  <2>1. Len(p) + i = Len(p) + j
    BY <1>5, <1>6 DEF IsInjective
  <2> QED BY <1>2, <2>1
<1>7. ASSUME NEW i \in 1 .. Len(p), NEW j \in 1 .. Len(q), p[i] = q[j]
      PROVE  FALSE
  <2>1. i = Len(p) + j
    BY <1>4, <1>5, <1>7 DEF IsInjective
  <2> QED BY <1>2, <2>1
<1>8. Range(p) = {p[i] : i \in 1 .. Len(p)}
  BY RangeEquality
<1>9. Range(q) = {q[i] : i \in 1 .. Len(q)}
  BY RangeEquality
<1>10. IsInjective(q)
  BY <1>3, <1>6 DEF IsInjective
<1> QED BY <1>7, <1>8, <1>9, <1>10

==============================================================================
