---------------------------- MODULE ListingProofs ----------------------------
(***************************************************************************)
(* Theorems about ListingQuery and Listing, for every query, every width   *)
(* of integers and every catalogue.                                        *)
(***************************************************************************)
EXTENDS Listing, FiniteSetTheorems, TLAPS

(***************************************************************************)
(* The statements of a query.                                              *)
(***************************************************************************)

Clauses == [test : Tests, at : Seq(Nat)]
Values  == [type : {"text", "float", "unsigned"}, value : Int]

LEMMA Concatenated ==
  ASSUME NEW S, NEW a \in Seq(S), NEW b \in Seq(S)
  PROVE  /\ a \o b \in Seq(S) /\ Len(a \o b) = Len(a) + Len(b)
         /\ \A n \in 1..Len(a) : (a \o b)[n] = a[n]
         /\ \A n \in 1..Len(b) : (a \o b)[Len(a) + n] = b[n]
<1>1. a \o b \in Seq(S) /\ Len(a \o b) = Len(a) + Len(b)
  OBVIOUS
<1>2. \A n \in 1..Len(a) : (a \o b)[n] = a[n]
  OBVIOUS
<1>3. \A n \in 1..Len(b) : (a \o b)[Len(a) + n] = b[n]
  OBVIOUS
<1> QED
  BY <1>1, <1>2, <1>3

(* What can be said of a filter after each Add.                             *)
Bound(q, w, tests) ==
  /\ w.where \in Seq(Clauses) /\ w.params \in Seq(Values)
  /\ BoundTo(q, w.where, w.params)
  /\ AllNamed(w.where, w.params)
  /\ \A test \in tests : Given(q, test) => \E i \in DOMAIN w.where : w.where[i].test = test

LEMMA OperandsType ==
  ASSUME NEW q \in Queries, NEW test \in Tests
  PROVE  /\ Operands(q, test) \in Seq(Values)
         /\ Len(Operands(q, test)) = IF test = "search" THEN 2 ELSE 1
<1>1. CASE test = "search"
  <2>1. Text(q.search) \in Values
    BY DEF Queries, Values, Text
  <2> QED
    BY <1>1, <2>1 DEF Operands
<1>2. CASE test = "category"
  <2>1. Text(q.category) \in Values
    BY DEF Queries, Values, Text
  <2> QED
    BY <1>2, <2>1 DEF Operands
<1>3. CASE test = "priceMin"
  <2>1. Float(q.priceMin) \in Values
    BY DEF Queries, Values, Float
  <2> QED
    BY <1>3, <2>1 DEF Operands
<1>4. CASE test = "priceMax"
  <2>1. Float(q.priceMax) \in Values
    BY DEF Queries, Values, Float
  <2> QED
    BY <1>4, <2>1 DEF Operands
<1> QED
  BY <1>1, <1>2, <1>3, <1>4 DEF Tests

LEMMA AddBound ==
  ASSUME NEW q \in Queries, NEW w, NEW tests, NEW test \in Tests, Bound(q, w, tests)
  PROVE  Bound(q, Add(q, w, test), tests \cup {test})
<1>1. CASE ~Given(q, test)
  BY <1>1 DEF Add, Bound
<1>2. CASE Given(q, test)
  <2> DEFINE ops    == Operands(q, test)
             n      == Len(w.params)
             clause == [test |-> test, at |-> [i \in 1..Len(ops) |-> n + i]]
             where  == Append(w.where, clause)
             params == w.params \o ops
  <2>1. Add(q, w, test) = [where |-> where, params |-> params]
    BY <1>2 DEF Add
  <2>2. ops \in Seq(Values) /\ Len(ops) \in Nat /\ n \in Nat
    BY OperandsType DEF Bound
  <2> HIDE DEF ops
  <2>3. clause \in Clauses
    BY <2>2 DEF Clauses
  <2>4. /\ where \in Seq(Clauses) /\ params \in Seq(Values)
        /\ Len(where) = Len(w.where) + 1 /\ Len(params) = n + Len(ops)
        /\ where[Len(w.where) + 1] = clause
        /\ \A i \in 1..Len(w.where) : where[i] = w.where[i]
        /\ \A i \in 1..n : params[i] = w.params[i]
        /\ \A i \in 1..Len(ops) : params[n + i] = ops[i]
    BY <2>2, <2>3 DEF Bound
  <2> HIDE DEF where, params
  <2>5. /\ DOMAIN w.where = 1..Len(w.where) /\ DOMAIN where = 1..(Len(w.where) + 1)
        /\ DOMAIN clause.at = 1..Len(ops) /\ clause.test = test
        /\ \A j \in 1..Len(ops) : clause.at[j] = n + j
        /\ Len(w.where) \in Nat
    BY <2>4 DEF Bound
  <2> HIDE DEF clause, n
  <2>6. BoundTo(q, where, params)
    <3> SUFFICES ASSUME NEW i \in DOMAIN where
                 PROVE  /\ where[i].test \in Tests /\ Given(q, where[i].test)
                        /\ DOMAIN where[i].at = 1..Len(Operands(q, where[i].test))
                        /\ \A j \in DOMAIN where[i].at :
                             /\ where[i].at[j] \in 1..Len(params)
                             /\ params[where[i].at[j]] = Operands(q, where[i].test)[j]
      BY DEF BoundTo
    <3>1. CASE i \in DOMAIN w.where
      <4>1. where[i] = w.where[i] /\ Len(params) >= n
        BY <2>2, <2>4, <2>5, <3>1
      <4>2. /\ w.where[i].test \in Tests /\ Given(q, w.where[i].test)
            /\ DOMAIN w.where[i].at = 1..Len(Operands(q, w.where[i].test))
            /\ \A j \in DOMAIN w.where[i].at :
                 /\ w.where[i].at[j] \in 1..n
                 /\ w.params[w.where[i].at[j]] = Operands(q, w.where[i].test)[j]
        BY <3>1 DEF Bound, BoundTo, n
      <4>3. \A m \in 1..n : m \in 1..Len(params) /\ params[m] = w.params[m]
        BY <2>2, <2>4, <4>1
      <4> QED
        BY <4>1, <4>2, <4>3
    <3>2. CASE i = Len(w.where) + 1
      <4>1. where[i].test = test /\ where[i].at = clause.at
        BY <2>4, <2>5, <3>2
      <4>2. \A j \in 1..Len(ops) : n + j \in 1..Len(params) /\ params[n + j] = ops[j]
        BY <2>2, <2>4
      <4>3. \A j \in DOMAIN where[i].at :
              where[i].at[j] \in 1..Len(params) /\ params[where[i].at[j]] = ops[j]
        BY SMTT(60), <2>5, <4>1, <4>2
      <4> QED
        BY <1>2, <2>5, <4>1, <4>3 DEF ops
    <3> QED
      BY <2>5, <3>1, <3>2
  <2>7. AllNamed(where, params)
    <3> SUFFICES ASSUME NEW m \in 1..Len(params)
                 PROVE  \E i \in DOMAIN where : \E j \in DOMAIN where[i].at : where[i].at[j] = m
      BY DEF AllNamed
    <3>1. CASE m \in 1..n
      <4>1. PICK i \in DOMAIN w.where : \E j \in DOMAIN w.where[i].at : w.where[i].at[j] = m
        BY <3>1 DEF Bound, AllNamed, n
      <4> QED
        BY <2>4, <2>5, <4>1
    <3>2. CASE m - n \in 1..Len(ops)
      <4>1. m - n \in DOMAIN clause.at /\ clause.at[m - n] = n + (m - n)
        BY <2>5, <3>2
      <4>2. n + (m - n) = m
        BY <2>2
      <4>3. where[Len(w.where) + 1].at = clause.at /\ Len(w.where) + 1 \in DOMAIN where
        BY <2>4, <2>5
      <4> QED
        BY <4>1, <4>2, <4>3
    <3> QED
      BY <2>2, <2>4, <3>1, <3>2
  <2>8. ASSUME NEW t \in tests \cup {test}, Given(q, t)
        PROVE  \E i \in DOMAIN where : where[i].test = t
    <3>1. CASE t = test
      BY <2>4, <2>5, <3>1
    <3>2. CASE t \in tests
      <4>1. PICK i \in DOMAIN w.where : w.where[i].test = t
        BY <2>8, <3>2 DEF Bound
      <4> QED
        BY <2>4, <2>5, <4>1
    <3> QED
      BY <3>1, <3>2
  <2> QED
    BY <2>1, <2>4, <2>6, <2>7, <2>8 DEF Bound
<1> QED
  BY <1>1, <1>2

LEMMA FilterBound ==
  ASSUME NEW q \in Queries
  PROVE  Bound(q, Filter(q), Tests)
<1>1. Bound(q, NoFilter, {})
  BY DEF Bound, NoFilter, BoundTo, AllNamed
<1> DEFINE searched    == Add(q, NoFilter, "search")
           categorized == Add(q, searched, "category")
           bounded     == Add(q, categorized, "priceMin")
<1>2. Bound(q, searched, {"search"})
  <2>1. Bound(q, searched, {} \cup {"search"})
    BY <1>1, AddBound DEF Tests
  <2> QED
    BY <2>1 DEF Bound
<1>3. Bound(q, categorized, {"search"} \cup {"category"})
  BY <1>2, AddBound DEF Tests
<1>4. Bound(q, bounded, {"search"} \cup {"category"} \cup {"priceMin"})
  BY <1>3, AddBound DEF Tests
<1>5. Bound(q, Filter(q), {"search"} \cup {"category"} \cup {"priceMin"} \cup {"priceMax"})
  BY <1>4, AddBound DEF Tests, Filter
<1> QED
  BY <1>5 DEF Bound, Tests

(* Both statements, in terms of the filter they share.                      *)
LEMMA Statements ==
  ASSUME NEW q \in Queries, NEW s, s = GenerateQueryAndParams(q)
  PROVE  /\ s.where = Filter(q).where
         /\ s.sortBy = q.sortBy /\ s.sortOpt = q.sortOpt
         /\ CountParams(s) = Filter(q).params
         /\ s.params \in Seq(Values)
         /\ Len(s.params) = Len(Filter(q).params) + 2
         /\ \A n \in 1..Len(Filter(q).params) : s.params[n] = Filter(q).params[n]
         /\ s.limitAt = Len(Filter(q).params) + 1
         /\ s.offsetAt = Len(Filter(q).params) + 2
         /\ s.params[s.limitAt] = Unsigned(q.limit)
         /\ s.params[s.offsetAt] = Unsigned(Offset(q))
         /\ Offset(q) \in Nat
<1> DEFINE fp   == Filter(q).params
           last == <<Unsigned(q.limit), Unsigned(Offset(q))>>
<1>1. fp \in Seq(Values)
  BY FilterBound DEF Bound
<1>2. Offset(q) \in Nat /\ q.limit \in Nat
  BY QueryAssumption DEF Offset, UInt64, Queries
<1>3. last \in Seq(Values) /\ Len(last) = 2
  <2>1. Unsigned(q.limit) \in Values /\ Unsigned(Offset(q)) \in Values
    BY <1>2 DEF Values, Unsigned
  <2> QED
    BY <2>1
<1>4. /\ s.where = Filter(q).where /\ s.sortBy = q.sortBy /\ s.sortOpt = q.sortOpt
      /\ s.limitAt = Len(fp) + 1 /\ s.offsetAt = Len(fp) + 2
      /\ s.params = fp \o last
  BY DEF GenerateQueryAndParams
<1>5. last[1] = Unsigned(q.limit) /\ last[2] = Unsigned(Offset(q))
  OBVIOUS
<1> HIDE DEF fp, last
<1>6. /\ s.params \in Seq(Values) /\ Len(s.params) = Len(fp) + 2 /\ Len(fp) \in Nat
      /\ \A n \in 1..Len(fp) : s.params[n] = fp[n]
      /\ \A i \in 1..Len(last) : s.params[Len(fp) + i] = last[i]
  <2>1. Len(fp) \in Nat /\ Len(last) \in Nat
    BY <1>1, <1>3
  <2>2. /\ fp \o last \in Seq(Values) /\ Len(fp \o last) = Len(fp) + Len(last)
        /\ \A n \in 1..Len(fp) : (fp \o last)[n] = fp[n]
        /\ \A i \in 1..Len(last) : (fp \o last)[Len(fp) + i] = last[i]
    BY <1>1, <1>3, Concatenated
  <2> QED
    BY <1>3, <1>4, <2>1, <2>2
<1>7. CountParams(s) = fp
  BY <1>1, <1>6 DEF CountParams
<1> QED
  BY <1>2, <1>3, <1>4, <1>5, <1>6, <1>7 DEF fp

(* generateQueryAndParams makes sound statements of every query.            *)
LEMMA EveryQuerySound ==
  ASSUME NEW q \in Queries
  PROVE  Sound(q)
<1> DEFINE s == GenerateQueryAndParams(q)
           f == Filter(q)
<1>1. /\ s.where = f.where /\ CountParams(s) = f.params
      /\ Len(s.params) = Len(f.params) + 2
      /\ \A n \in 1..Len(f.params) : s.params[n] = f.params[n]
      /\ s.params[s.limitAt] = Unsigned(q.limit)
      /\ s.params[s.offsetAt] = Unsigned(Offset(q))
  BY Statements
<1>2. BoundTo(q, f.where, f.params) /\ AllNamed(f.where, f.params) /\ f.params \in Seq(Values)
  BY FilterBound DEF Bound
<1> HIDE DEF f
<1>3. BoundTo(q, f.where, s.params)
  <2>1. \A n \in 1..Len(f.params) : n \in 1..Len(s.params) /\ s.params[n] = f.params[n]
    BY <1>1, <1>2
  <2> HIDE DEF s
  <2> QED
    BY <1>2, <2>1 DEF BoundTo
<1> QED
  BY <1>1, <1>2, <1>3 DEF Sound

LEMMA OperandsTyped ==
  ASSUME NEW q \in Queries, NEW test \in Tests
  PROVE  \A j \in 1..Len(Operands(q, test)) : Operands(q, test)[j].type = TypeOf(test)
<1>1. CASE test = "search"
  BY <1>1 DEF Operands, Text, TypeOf
<1>2. CASE test = "category"
  BY <1>2 DEF Operands, Text, TypeOf
<1>3. CASE test = "priceMin"
  BY <1>3 DEF Operands, Float, TypeOf
<1>4. CASE test = "priceMax"
  BY <1>4 DEF Operands, Float, TypeOf
<1> QED
  BY <1>1, <1>2, <1>3, <1>4 DEF Tests

(* The operands of LIMIT and OFFSET of a proper page are in range.          *)
LEMMA ProperRange ==
  ASSUME NEW q \in Queries, Proper(q)
  PROVE  q.limit < Half /\ Offset(q) < Half
<1> DEFINE p == q.page
           l == q.limit
<1>1. p \in Nat /\ l \in Nat /\ p >= 1 /\ p * l < Half /\ Half \in Nat \ {0}
  BY QueryAssumption DEF Queries, Proper
<1> HIDE DEF p, l
<1>2. PICK d \in Nat : p = d + 1
  BY <1>1
<1>3. d * l \in Nat
  BY <1>1
<1>4. p * l = d * l + l
  BY <1>1, <1>2
<1>5. (p - 1) * l = d * l
  BY <1>1, <1>2
<1>6. l < Half /\ d * l < Half
  BY <1>1, <1>3, <1>4
<1>7. (d * l) % (2 * Half) = d * l
  BY <1>1, <1>3, <1>6
<1> QED
  BY <1>5, <1>6, <1>7 DEF Offset, UInt64, p, l

(* The database takes both statements of a proper page.                     *)
LEMMA ProperAccepted ==
  ASSUME NEW q \in Queries, Proper(q), NEW s, s = GenerateQueryAndParams(q)
  PROVE  /\ Accepts(s.where, {}, CountParams(s))
         /\ Accepts(s.where, {s.limitAt, s.offsetAt}, s.params)
<1> DEFINE w == Filter(q).where
           fp == Filter(q).params
<1>1. /\ s.where = w /\ CountParams(s) = fp /\ Len(s.params) = Len(fp) + 2
      /\ \A n \in 1..Len(fp) : s.params[n] = fp[n]
      /\ s.limitAt = Len(fp) + 1 /\ s.offsetAt = Len(fp) + 2
      /\ s.params[s.limitAt] = Unsigned(q.limit)
      /\ s.params[s.offsetAt] = Unsigned(Offset(q))
  BY Statements
<1>2. BoundTo(q, w, fp) /\ AllNamed(w, fp) /\ Len(fp) \in Nat
  BY FilterBound DEF Bound
<1> HIDE DEF w, fp
<1>3. Placeholders(w) = 1..Len(fp)
  BY <1>2 DEF Placeholders, BoundTo, AllNamed
<1>4. \A i \in DOMAIN w : \A j \in DOMAIN w[i].at :
        w[i].at[j] \in 1..Len(fp) /\ fp[w[i].at[j]].type = TypeOf(w[i].test)
  BY <1>2, OperandsTyped DEF BoundTo
<1>5. Accepts(w, {}, fp)
  BY <1>3, <1>4 DEF Accepts
<1>6. Placeholders(w) \cup {s.limitAt, s.offsetAt} = 1..Len(s.params)
  BY <1>1, <1>2, <1>3
<1>7. \A n \in {s.limitAt, s.offsetAt} :
        s.params[n].type = "unsigned" /\ s.params[n].value < Half
  BY <1>1, ProperRange DEF Unsigned
<1>8. \A i \in DOMAIN w : \A j \in DOMAIN w[i].at :
        s.params[w[i].at[j]].type = TypeOf(w[i].test)
  BY <1>1, <1>4
<1> QED
  BY <1>1, <1>5, <1>6, <1>7, <1>8 DEF Accepts

-----------------------------------------------------------------------------
(***************************************************************************)
(* Types.                                                                  *)
(***************************************************************************)

LEMMA Codes ==
  /\ MakeHandler(OtherError) = 500 /\ InternalServerError = 500
  /\ MakeHandler(ServerError(Unprocessable)) = 422 /\ Unprocessable = 422
  /\ NoAnswer = 0 /\ Aborted = 1
  /\ {0, 1, 200, 422, 500} \subseteq Statuses
BY DEF MakeHandler, OtherError, ServerError, BadRequest, Conflict, Unprocessable,
   Unauthorized, Forbidden, InternalServerError, NoAnswer, Aborted, Statuses

LEMMA NumberType ==
  ASSUME NEW default \in Nat, NEW number \in Int
  PROVE  StringToUint64(default, number) \in Nat
BY QueryAssumption DEF StringToUint64

LEMMA QueryType ==
  ASSUME NEW url \in RawQueries
  PROVE  GetQueryItems(url) \in Queries
<1> DEFINE q == GetQueryItems(url)
<1>1. q.page \in Nat /\ q.limit \in Nat
  BY NumberType DEF RawQueries, GetQueryItems
<1>2. /\ q.search \in Nat /\ q.category \in Nat
      /\ q.priceMin \in Int /\ q.priceMax \in Int
  BY DEF RawQueries, GetQueryItems
<1>3. q.sortBy \in Words /\ q.sortOpt \in Words
  <2>1. url.sort \in Seq(Words)
    BY DEF RawQueries
  <2>2. Len(url.sort) \in {1, 2} => url.sort[1] \in Words
    BY <2>1
  <2>3. Len(url.sort) = 2 => url.sort[2] \in Words
    BY <2>1
  <2> QED
    BY <2>2, <2>3, QueryAssumption DEF GetQueryItems, Columns, Directions
<1>4. q = [search |-> q.search, category |-> q.category, priceMin |-> q.priceMin,
           priceMax |-> q.priceMax, sortBy |-> q.sortBy, sortOpt |-> q.sortOpt,
           page |-> q.page, limit |-> q.limit]
  BY DEF GetQueryItems
<1> HIDE DEF q
<1>5. q \in Queries
  BY <1>1, <1>2, <1>3, <1>4 DEF Queries
<1> QED
  BY <1>5 DEF q

LEMMA NextQueryType ==
  ASSUME NEW q \in Queries, NEW page \in Nat
  PROVE  AtPage(q, page) \in Queries /\ (Valid(AtPage(q, page)) <=> Valid(q))
BY DEF AtPage, Queries, Valid

(* A page is a stretch of the rows, in their order, and so is what has been *)
(* fetched of it.                                                           *)
LEMMA PageType ==
  ASSUME NEW q \in Queries, NEW s, s = GenerateQueryAndParams(q),
         NEW rows \in SUBSET Products, NEW r \in Ordered(rows, s),
         NEW fetched \in Fetched(Page(r, s))
  PROVE  fetched \in Seq(rows)
<1> DEFINE offset == Offset(q)
           hi     == IF offset + q.limit < Len(r) THEN offset + q.limit ELSE Len(r)
<1>1. r \in Seq(rows)
  <2>1. IsFiniteSet(rows)
    BY ListingAssumption, FS_Subset
  <2>2. Cardinality(rows) \in Nat
    BY <2>1, FS_CardinalityType
  <2> QED
    BY <2>2 DEF Ordered
<1>2. offset \in Nat /\ q.limit \in Nat
  BY Statements DEF Queries
<1>3. Page(r, s) = SubSeq(r, offset + 1, hi)
  <2>1. s.params[s.limitAt] = Unsigned(q.limit) /\ s.params[s.offsetAt] = Unsigned(offset)
    BY Statements
  <2>2. s.params[s.limitAt].value = q.limit /\ s.params[s.offsetAt].value = offset
    BY <2>1 DEF Unsigned
  <2> HIDE DEF offset
  <2> QED
    BY <2>2 DEF Page
<1> HIDE DEF offset
<1>4. offset + 1 \in 1..(Len(r) + 1) \/ hi < offset + 1
  BY <1>1, <1>2
<1>5. hi \in Nat /\ hi <= Len(r)
  BY <1>1, <1>2
<1> HIDE DEF hi
<1>6. SubSeq(r, offset + 1, hi) \in Seq(rows)
  BY <1>1, <1>2, <1>5
<1>7. PICK n \in 0..Len(Page(r, s)) : fetched = SubSeq(Page(r, s), 1, n)
  <2>1. Len(Page(r, s)) \in Nat
    BY <1>3, <1>6
  <2> QED
    BY <2>1 DEF Fetched
<1>8. \A page \in Seq(rows) : \A m \in 0..Len(page) : SubSeq(page, 1, m) \in Seq(rows)
  OBVIOUS
<1> QED
  BY <1>3, <1>6, <1>7, <1>8

LEMMA MatchingType ==
  ASSUME NEW where, NEW params
  PROVE  /\ Matching(where, params) \subseteq Products
         /\ Cardinality(Matching(where, params)) \in Nat
<1>1. Matching(where, params) \subseteq Products
  BY DEF Matching, Shop!Shown
<1>2. IsFiniteSet(Matching(where, params))
  BY <1>1, ListingAssumption, FS_Subset
<1> QED
  BY <1>1, <1>2, FS_CardinalityType

(* What a step does to the catalogue.                                       *)
LEMMA ShopType ==
  ASSUME Shop!TypeOK, NEW p \in Products,
         Shop!Add(p) \/ Shop!Stock(p) \/ Shop!Refuse(p) \/ Shop!Doubt(p) \/ Shop!Withdraw(p)
  PROVE  Shop!TypeOK'
BY DEF Shop!TypeOK, Shop!Lives, Shop!Pass, Shop!Add, Shop!Stock, Shop!Refuse, Shop!Doubt,
   Shop!Withdraw

LEMMA NoPageType ==
  ASSUME NEW status \in Statuses
  PROVE  NoPage(status).status = status /\ NoPage(status).products = <<>>
BY DEF NoPage

LEMMA InitType == Init => TypeOK
<1> SUFFICES ASSUME Init PROVE TypeOK
  OBVIOUS
<1>1. (CHOOSE p \in Products : TRUE) \in Products
  BY ListingAssumption
<1>2. query \in Queries
  BY QueryAssumption DEF Init, Queries, Columns, Directions
<1>3. Shop!TypeOK
  BY DEF Init, Shop!Init, Shop!TypeOK, Shop!Lives
<1>4. reply.status \in Statuses /\ reply.products \in Seq(Products)
  BY Codes DEF Init, NoPage
<1>5. opened.status \in Statuses /\ opened.product \in Products
  BY <1>1, Codes DEF Init
<1> QED
  BY <1>2, <1>3, <1>4, <1>5 DEF Init, TypeOK

LEMMA RefuseType ==
  ASSUME NEW status \in {422, 500}, Refuse(status)
  PROVE  /\ at' = "page" /\ reply'.status = status /\ reply'.products = <<>>
         /\ reply'.status \in Statuses /\ reply'.products \in Seq(Products)
<1>1. at' = "page" /\ reply' = NoPage(status)
  BY DEF Refuse
<1>2. status \in Statuses
  BY Codes
<1>3. NoPage(status).status = status /\ NoPage(status).products = <<>>
  BY <1>2, NoPageType
<1> QED
  BY <1>1, <1>2, <1>3

LEMMA FailureType ==
  ASSUME TypeOK, StatementFails
  PROVE  /\ at' = "page" /\ reply'.status = 500 /\ reply'.products = <<>>
         /\ reply'.status \in Statuses /\ reply'.products \in Seq(Products)
         /\ upset' = upset \cup {"failed"} /\ upset' \subseteq Upsets
BY RefuseType, Codes DEF TypeOK, StatementFails, Upsets

(* What is answered when a page has been selected.                          *)
LEMMA RespondType ==
  ASSUME NEW q \in Queries, NEW total, NEW rows, NEW r, r = Respond(q, total, rows)
  PROVE  \/ q.limit = 0 /\ r.status = 1 /\ r.products = <<>>
         \/ q.limit # 0 /\ r.status = 200 /\ r.products = rows
<1>1. CASE q.limit = 0
  BY <1>1, NoPageType, Codes DEF Respond
<1>2. CASE q.limit # 0
  BY <1>2 DEF Respond
<1> QED
  BY <1>1, <1>2

(* The selection of a page: rows that match, or a refusal.                  *)
LEMMA SelectReply ==
  ASSUME TypeOK, Select
  PROVE  /\ at' = "page"
         /\ \/ /\ Proper(query) => FALSE
               /\ reply'.status = 500 /\ reply'.products = <<>>
               /\ UNCHANGED <<seen, upset>>
            \/ /\ \/ query.limit = 0 /\ reply'.status = 1 /\ reply'.products = <<>>
                  \/ /\ query.limit # 0 /\ reply'.status = 200
                     /\ reply'.products \in
                          Seq(Matching(Filter(query).where, GenerateQueryAndParams(query).params))
               /\ seen' = seen \o reply'.products
               /\ upset' \in {upset, upset \cup {"cut"}}
<1> DEFINE s == GenerateQueryAndParams(query)
<1>1. query \in Queries
  BY DEF TypeOK
<1>2. s.where = Filter(query).where
  BY <1>1, Statements
<1>3. CASE ~Accepts(s.where, {s.limitAt, s.offsetAt}, s.params)
  <2>1. Refuse(MakeHandler(OtherError)) /\ UNCHANGED <<seen, upset>>
    BY <1>3 DEF Select
  <2>2. ~Proper(query)
    BY <1>1, <1>3, ProperAccepted
  <2> QED
    BY <2>1, <2>2, RefuseType, Codes
<1>4. CASE Accepts(s.where, {s.limitAt, s.offsetAt}, s.params)
  <2> DEFINE rows == Matching(s.where, s.params)
  <2>1. PICK r \in Ordered(rows, s) : \E f \in Fetched(Page(r, s)) :
          /\ reply' = Respond(query, count, f)
          /\ seen' = seen \o reply'.products
          /\ upset' = IF f = Page(r, s) THEN upset ELSE upset \cup {"cut"}
    BY <1>4 DEF Select
  <2>2. PICK f \in Fetched(Page(r, s)) :
          /\ reply' = Respond(query, count, f)
          /\ seen' = seen \o reply'.products
          /\ upset' = IF f = Page(r, s) THEN upset ELSE upset \cup {"cut"}
    BY <2>1
  <2>3. rows \in SUBSET Products
    BY MatchingType
  <2>4. f \in Seq(rows)
    BY <1>1, <2>3, PageType
  <2>5. \/ query.limit = 0 /\ reply'.status = 1 /\ reply'.products = <<>>
        \/ query.limit # 0 /\ reply'.status = 200 /\ reply'.products = f
    BY <1>1, <2>2, RespondType
  <2>6. at' = "page"
    BY <1>4 DEF Select
  <2> HIDE DEF s
  <2>7. f \in Seq(Matching(Filter(query).where, s.params))
    BY <1>2, <2>4
  <2> QED
    BY <2>2, <2>5, <2>6, <2>7 DEF s
<1> QED
  BY <1>3, <1>4

LEMMA SubSeqType ==
  ASSUME NEW S, NEW T, S \subseteq T, NEW r \in Seq(S)
  PROVE  r \in Seq(T)
OBVIOUS

LEMMA SelectType ==
  ASSUME TypeOK, Select
  PROVE  /\ reply'.status \in Statuses /\ reply'.products \in Seq(Products)
         /\ seen' \in Seq(Products) /\ upset' \subseteq Upsets
<1>1. reply'.status \in Statuses
  BY SelectReply, Codes
<1>2. reply'.products \in Seq(Products)
  <2>1. <<>> \in Seq(Products)
    OBVIOUS
  <2>2. \A r \in Seq(Matching(Filter(query).where, GenerateQueryAndParams(query).params)) :
          r \in Seq(Products)
    BY MatchingType, SubSeqType
  <2> QED
    BY <2>1, <2>2, SelectReply
<1>3. seen' \in Seq(Products)
  <2>1. seen \in Seq(Products)
    BY DEF TypeOK
  <2>2. seen \o reply'.products \in Seq(Products)
    BY <1>2, <2>1, Concatenated
  <2> QED
    BY ZenonT(60), <2>1, <2>2, SelectReply
<1>4. upset' \subseteq Upsets
  <2>1. upset \subseteq Upsets /\ "cut" \in Upsets
    BY DEF TypeOK, Upsets
  <2>2. upset' \in {upset, upset \cup {"cut"}}
    BY SelectReply
  <2> QED
    BY <2>1, <2>2
<1> QED
  BY <1>1, <1>2, <1>3, <1>4

LEMMA StepType == TypeOK /\ [Next]_vars => TypeOK'
<1> SUFFICES ASSUME TypeOK, [Next]_vars PROVE TypeOK'
  OBVIOUS
<1> DEFINE ShopSame == UNCHANGED <<life, created>>
<1>1. ASSUME ShopSame PROVE Shop!TypeOK' /\ created' \in Seq(Products)
  BY <1>1 DEF TypeOK, Shop!TypeOK
<1>2. ASSUME NEW url \in URLs, Ask(url) PROVE TypeOK'
  <2>1. url \in RawQueries
    BY ListingAssumption
  <2>2. query' \in Queries
    BY <1>2, <2>1, QueryType DEF Ask
  <2>3. first'.page \in Nat /\ first'.shown \subseteq Products
    BY <1>2, <2>2, MatchingType DEF Ask, Found, Queries
  <2>4. /\ at' \in {"count", "page"}
        /\ reply'.status \in Statuses /\ reply'.products \in Seq(Products)
    BY <1>2, RefuseType, Codes DEF Ask, TypeOK
  <2> QED
    BY <1>1, <1>2, <2>2, <2>3, <2>4 DEF Ask, TypeOK, shopVars
<1>3. CASE NextPage
  <2>1. query' \in Queries
    <3>0. query.page + 1 \in Int
      BY DEF TypeOK, Queries
    <3>1. StringToUint64(1, query.page + 1) \in Nat
      BY <3>0, NumberType
    <3> QED
      BY <1>3, <3>1, NextQueryType DEF NextPage, TypeOK
  <2> QED
    BY <1>1, <1>3, <2>1 DEF NextPage, TypeOK, shopVars
<1>4. CASE Count
  <2>1. /\ at' \in {"select", "page"} /\ count' \in Nat
        /\ reply'.status \in Statuses /\ reply'.products \in Seq(Products)
    BY <1>4, RefuseType, MatchingType, Codes DEF Count, TypeOK
  <2> QED
    BY <1>1, <1>4, <2>1 DEF Count, TypeOK, shopVars
<1>5. CASE CountFails
  BY <1>1, <1>5, FailureType DEF CountFails, TypeOK, shopVars
<1>6. CASE Select
  <2>1. at' = "page"
    BY <1>6, SelectReply
  <2> QED
    BY <1>1, <1>6, <2>1, SelectType DEF Select, TypeOK, shopVars
<1>7. CASE SelectFails
  BY <1>1, <1>7, FailureType DEF SelectFails, TypeOK, shopVars
<1>8. ASSUME NEW p \in Products, Open(p) PROVE TypeOK'
  <2>1. opened'.status \in Statuses /\ opened'.product \in Products
    BY <1>8, Codes DEF Open
  <2>2. upset' \subseteq Upsets
    BY <1>8 DEF Open, TypeOK, Upsets
  <2> QED
    BY <1>1, <1>8, <2>1, <2>2 DEF Open, TypeOK, shopVars
<1>9. ASSUME NEW p \in Products, Create(p) PROVE TypeOK'
  <2>1. Shop!TypeOK'
    BY <1>9, ShopType DEF Create, TypeOK
  <2>2. created' \in Seq(Products)
    BY <1>9 DEF Create, TypeOK
  <2> QED
    BY <1>9, <2>1, <2>2 DEF Create, TypeOK, walkVars
<1>10. ASSUME NEW p \in Products, Appear(p) PROVE TypeOK'
  <2>1. Shop!TypeOK'
    BY <1>10, ShopType DEF Appear, TypeOK
  <2>2. upset' \subseteq Upsets
    BY <1>10 DEF Appear, TypeOK, Upsets
  <2> QED
    BY <1>10, <2>1, <2>2 DEF Appear, TypeOK
<1>11. ASSUME NEW p \in Products, Vanish(p) PROVE TypeOK'
  <2>1. Shop!TypeOK'
    BY <1>11, ShopType DEF Vanish, TypeOK
  <2>2. upset' \subseteq Upsets
    BY <1>11 DEF Vanish, TypeOK, Upsets
  <2> QED
    BY <1>11, <2>1, <2>2 DEF Vanish, TypeOK
<1>12. CASE UNCHANGED vars
  BY <1>1, <1>12 DEF TypeOK, vars, shopVars, walkVars
<1> QED
  BY <1>2, <1>3, <1>4, <1>5, <1>6, <1>7, <1>8, <1>9, <1>10, <1>11, <1>12
  DEF Next, Walk, Terminating

(* Every variable has its type in every reachable state.                    *)
THEOREM TypeCorrect == Spec => []TypeOK
BY InitType, StepType, PTL DEF Spec

(* generateQueryAndParams numbers the placeholders of every query rightly,  *)
(* and the count finds its parameters when the last two are left out.       *)
THEOREM AllStatementsSound == Spec => []StatementsSound
<1>1. TypeOK => StatementsSound
  BY EveryQuerySound DEF TypeOK, StatementsSound
<1> QED
  BY <1>1, TypeCorrect, PTL

-----------------------------------------------------------------------------
(***************************************************************************)
(* Answers: what is listed matches, a proper query is served, and what is  *)
(* listed opens.                                                           *)
(***************************************************************************)

(* The rows a statement finds are what the query asked for.                 *)
LEMMA MatchingWanted ==
  ASSUME NEW q \in Queries,
         NEW p \in Matching(Filter(q).where, GenerateQueryAndParams(q).params)
  PROVE  p \in Shop!Shown /\ Wanted(p, q)
<1> DEFINE w      == Filter(q).where
           params == GenerateQueryAndParams(q).params
<1>1. BoundTo(q, w, params)
  <2>1. GenerateQueryAndParams(q).where = w
    BY Statements
  <2> QED
    BY <2>1, EveryQuerySound DEF Sound
<1>2. \A test \in Tests : Given(q, test) => \E i \in DOMAIN w : w[i].test = test
  BY FilterBound DEF Bound
<1>3. p \in Shop!Shown /\ \A i \in DOMAIN w : Satisfies(p, w[i], params)
  BY DEF Matching
<1> HIDE DEF w, params
<1>4. ASSUME NEW test \in Tests, Given(q, test)
      PROVE  \E i \in DOMAIN w :
               /\ w[i].test = test /\ Satisfies(p, w[i], params)
               /\ \A j \in 1..Len(Operands(q, test)) :
                    params[w[i].at[j]] = Operands(q, test)[j]
  BY <1>1, <1>2, <1>3, <1>4 DEF BoundTo
<1>5. q.search # 0 => q.search \in NameBegins[p] \cup DescriptionBegins[p]
  <2> SUFFICES ASSUME q.search # 0 PROVE q.search \in NameBegins[p] \cup DescriptionBegins[p]
    OBVIOUS
  <2>1. Operands(q, "search") = <<Text(q.search), Text(q.search)>>
    BY DEF Operands
  <2>2. PICK i \in DOMAIN w :
          /\ w[i].test = "search" /\ Satisfies(p, w[i], params)
          /\ params[w[i].at[1]] = Text(q.search) /\ params[w[i].at[2]] = Text(q.search)
    BY <1>4, <2>1 DEF Given, Tests
  <2> QED
    BY <2>2 DEF Satisfies, Text
<1>6. q.category # 0 => Category[p] = q.category
  <2> SUFFICES ASSUME q.category # 0 PROVE Category[p] = q.category
    OBVIOUS
  <2>1. Operands(q, "category") = <<Text(q.category)>>
    BY DEF Operands
  <2>2. PICK i \in DOMAIN w :
          /\ w[i].test = "category" /\ Satisfies(p, w[i], params)
          /\ params[w[i].at[1]] = Text(q.category)
    BY SMTT(60), <1>4, <2>1 DEF Given, Tests
  <2> QED
    BY <2>2 DEF Satisfies, Text
<1>7. q.priceMin > 0 => Price[p] >= q.priceMin
  <2> SUFFICES ASSUME q.priceMin > 0 PROVE Price[p] >= q.priceMin
    OBVIOUS
  <2>1. Operands(q, "priceMin") = <<Float(q.priceMin)>>
    BY DEF Operands
  <2>2. PICK i \in DOMAIN w :
          /\ w[i].test = "priceMin" /\ Satisfies(p, w[i], params)
          /\ params[w[i].at[1]] = Float(q.priceMin)
    <3>1. Given(q, "priceMin") /\ "priceMin" \in Tests
      BY DEF Given, Tests
    <3>2. 1 \in 1..Len(Operands(q, "priceMin")) /\ Operands(q, "priceMin")[1] = Float(q.priceMin)
      BY <2>1
    <3> QED
      BY <1>4, <3>1, <3>2
  <2>3. params[w[i].at[1]].value = q.priceMin
    BY <2>2 DEF Float
  <2> QED
    BY <2>2, <2>3 DEF Satisfies
<1>8. q.priceMax > 0 => Price[p] <= q.priceMax
  <2> SUFFICES ASSUME q.priceMax > 0 PROVE Price[p] <= q.priceMax
    OBVIOUS
  <2>1. Operands(q, "priceMax") = <<Float(q.priceMax)>>
    BY DEF Operands
  <2>2. PICK i \in DOMAIN w :
          /\ w[i].test = "priceMax" /\ Satisfies(p, w[i], params)
          /\ params[w[i].at[1]] = Float(q.priceMax)
    BY <1>4, <2>1 DEF Given, Tests
  <2> QED
    BY <2>2 DEF Satisfies, Float
<1> QED
  BY <1>3, <1>5, <1>6, <1>7, <1>8 DEF Wanted

(* A product that has been shown was visible and never becomes pending.     *)
Out == {p \in Products : life[p] \in {"visible", "doubtful", "gone"}}

LEMMA OutStays == ASSUME TypeOK, [Next]_vars PROVE Out \subseteq Out'
<1>1. ASSUME UNCHANGED life PROVE Out \subseteq Out'
  BY <1>1 DEF Out
<1>2. ASSUME NEW p \in Products, Create(p) \/ Appear(p) \/ Vanish(p) PROVE Out \subseteq Out'
  BY <1>2 DEF Out, TypeOK, Shop!TypeOK, Create, Appear, Vanish, Shop!Pass, Shop!Add,
     Shop!Stock, Shop!Refuse, Shop!Doubt, Shop!Withdraw
<1>3. \/ \E p \in Products : Create(p) \/ Appear(p) \/ Vanish(p)
      \/ UNCHANGED life
  BY DEF Next, Ask, Walk, NextPage, Count, CountFails, Select, SelectFails, Open,
     Terminating, vars, shopVars
<1> QED
  BY <1>1, <1>2, <1>3

LEMMA RangeConcatenated ==
  ASSUME NEW S, NEW a \in Seq(S), NEW b \in Seq(S), NEW T,
         Range(a) \subseteq T, Range(b) \subseteq T
  PROVE  Range(a \o b) \subseteq T
<1> SUFFICES ASSUME NEW n \in 1..Len(a \o b) PROVE (a \o b)[n] \in T
  BY Concatenated DEF Range
<1>1. CASE n \in 1..Len(a)
  BY <1>1, Concatenated DEF Range
<1>2. CASE n - Len(a) \in 1..Len(b)
  <2>1. (a \o b)[Len(a) + (n - Len(a))] = b[n - Len(a)] /\ Len(a) + (n - Len(a)) = n
    BY <1>2, Concatenated
  <2> QED
    BY <1>2, <2>1 DEF Range
<1> QED
  BY <1>1, <1>2, Concatenated

(* Only a valid query gets as far as the database.                          *)
Checked ==
  /\ at \in {"count", "select"} => Valid(query)
  /\ at = "page" => Valid(query) \/ (reply.status = 422 /\ ~Valid(query))

SeenOut == Range(seen) \subseteq Out

IInv == TypeOK /\ Checked /\ SeenOut /\ ListedMatch /\ Served /\ OpensWhatIsListed

LEMMA InitIInv == Init => IInv
<1> SUFFICES ASSUME Init PROVE IInv
  OBVIOUS
<1>1. SeenOut
  BY DEF Init, SeenOut, Range
<1> QED
  BY <1>1, InitType DEF IInv, Init, Checked, ListedMatch, Served, OpensWhatIsListed

(* Steps that leave the walk as it is, or fail it.                          *)
LEMMA Standing ==
  ASSUME IInv, [Next]_vars, UNCHANGED <<at, query, reply, opened, seen>>,
         upset \subseteq upset'
  PROVE  Checked' /\ SeenOut' /\ ListedMatch' /\ Served' /\ OpensWhatIsListed'
<1>1. Out \subseteq Out' /\ TypeOK'
  BY OutStays, StepType DEF IInv
<1>2. Checked'
  BY DEF IInv, Checked, Valid
<1>3. SeenOut'
  BY <1>1 DEF IInv, SeenOut, Range
<1>4. ListedMatch'
  <2> SUFFICES ASSUME at' = "page", NEW p \in Range(reply'.products)
               PROVE  (Wanted(p, query) /\ life[p] \in {"visible", "doubtful", "gone"})'
    BY DEF ListedMatch
  <2>1. p \in Range(reply.products) /\ at = "page"
    BY DEF Range
  <2>2. Wanted(p, query) /\ life[p] \in {"visible", "doubtful", "gone"} /\ p \in Products
    BY <2>1 DEF IInv, ListedMatch, TypeOK, Range
  <2> QED
    BY <1>1, <2>2 DEF Out, Wanted
<1>5. Served'
  BY DEF IInv, Served, Proper, Valid
<1>6. OpensWhatIsListed'
  <2> SUFFICES ASSUME at' = "opened", opened'.product \in Range(seen'), "failed" \notin upset'
               PROVE  (opened.status = 200 \/ life[opened.product] = "gone")'
    BY DEF OpensWhatIsListed
  <2>1. opened.status = 200 \/ life[opened.product] = "gone"
    BY DEF IInv, OpensWhatIsListed, Range
  <2>2. ASSUME NEW p \in Products, life[p] = "gone" PROVE life'[p] = "gone"
    <3>1. ASSUME NEW r \in Products, Create(r) \/ Appear(r) \/ Vanish(r)
          PROVE  life'[p] = "gone"
      BY <2>2, <3>1 DEF IInv, TypeOK, Shop!TypeOK, Create, Appear, Vanish, Shop!Pass,
         Shop!Add, Shop!Stock, Shop!Refuse, Shop!Doubt, Shop!Withdraw
    <3>2. \/ \E r \in Products : Create(r) \/ Appear(r) \/ Vanish(r)
          \/ UNCHANGED life
      BY DEF Next, Ask, Walk, NextPage, Count, CountFails, Select, SelectFails, Open,
         Terminating, vars, shopVars
    <3> QED
      BY <2>2, <3>1, <3>2
  <2> QED
    BY <2>1, <2>2 DEF IInv, TypeOK
<1> QED
  BY <1>2, <1>3, <1>4, <1>5, <1>6

LEMMA StepIInv == IInv /\ [Next]_vars => IInv'
<1> SUFFICES ASSUME IInv, [Next]_vars PROVE IInv'
  OBVIOUS
<1>1. TypeOK /\ TypeOK'
  BY StepType DEF IInv
<1>2. Out \subseteq Out'
  BY <1>1, OutStays
<1> DEFINE Rest == Checked /\ SeenOut /\ ListedMatch /\ Served /\ OpensWhatIsListed
<1>3. ASSUME UNCHANGED seen PROVE SeenOut'
  BY <1>2, <1>3 DEF IInv, SeenOut, Range
<1>4. ASSUME at' = "page", reply'.products = <<>> PROVE ListedMatch'
  BY <1>4 DEF ListedMatch, Range
<1>5. ASSUME at' # "page" PROVE ListedMatch' /\ Served'
  BY <1>5 DEF ListedMatch, Served
<1>6. ASSUME at' # "opened" PROVE OpensWhatIsListed'
  BY <1>6 DEF OpensWhatIsListed
<1>7. ASSUME NEW url \in URLs, Ask(url) PROVE Rest'
  <2>1. CASE Valid(query')
    BY <1>3, <1>5, <1>6, <1>7, <2>1 DEF Ask, Checked, Valid
  <2>2. CASE ~Valid(query')
    <3>1. Refuse(422) /\ UNCHANGED seen
      BY <1>7, <2>2, Codes DEF Ask
    <3>2. at' = "page" /\ reply'.status = 422 /\ reply'.products = <<>>
      BY <3>1, RefuseType
    <3> QED
      BY <1>3, <1>4, <1>6, <2>2, <3>1, <3>2, Codes DEF Checked, Served, Valid
  <2> QED
    BY <2>1, <2>2
<1>8. ASSUME NextPage PROVE Rest'
  <2>1. at = "page" /\ reply.status = 200 /\ at' = "count" /\ UNCHANGED seen
    BY <1>8 DEF NextPage, More
  <2>2. Valid(query)
    BY <2>1 DEF IInv, Checked
  <2>3. query.page + 1 \in Int
    BY SMTT(60), <1>1 DEF TypeOK, Queries
  <2>4. Valid(query')
    <3>1. StringToUint64(1, query.page + 1) \in Nat
      BY <2>3, NumberType
    <3>2. query' = AtPage(query, StringToUint64(1, query.page + 1)) /\ query \in Queries
      BY <1>1, <1>8 DEF NextPage, TypeOK
    <3>3. Valid(AtPage(query, StringToUint64(1, query.page + 1)))
      BY <2>2, <3>1, <3>2, NextQueryType
    <3> QED
      BY <3>2, <3>3
  <2> QED
    BY <1>3, <1>5, <1>6, <2>1, <2>4 DEF Checked, Valid
<1>9. ASSUME at \in {"count", "select"}, UNCHANGED <<query, seen>>, at' = "page",
             reply'.products = <<>>, reply'.status = 500,
             Proper(query) => "failed" \in upset'
      PROVE  Rest'
  BY <1>3, <1>4, <1>6, <1>9 DEF IInv, Checked, Served, Valid, Proper
<1>10. ASSUME Count PROVE Rest'
  <2> DEFINE s == GenerateQueryAndParams(query)
  <2>1. CASE Accepts(s.where, {}, CountParams(s))
    <3>1. at = "count" /\ at' = "select" /\ UNCHANGED <<query, seen>>
      BY <1>10, <2>1 DEF Count
    <3> QED
      BY <1>3, <1>5, <1>6, <3>1 DEF IInv, Checked, Valid
  <2>2. CASE ~Accepts(s.where, {}, CountParams(s))
    <3>1. at = "count" /\ Refuse(500) /\ UNCHANGED <<query, seen>>
      BY <1>10, <2>2, Codes DEF Count
    <3>2. ~Proper(query)
      BY <1>1, <2>2, ProperAccepted DEF TypeOK
    <3> QED
      BY <1>9, <3>1, <3>2, RefuseType
  <2> QED
    BY <2>1, <2>2
<1>11. ASSUME CountFails \/ SelectFails PROVE Rest'
  <2>1. at \in {"count", "select"} /\ StatementFails /\ UNCHANGED <<query, seen>>
    BY <1>11 DEF CountFails, SelectFails
  <2> QED
    BY <1>1, <1>9, <2>1, FailureType
<1>12. ASSUME Select PROVE Rest'
  <2>1. at = "select" /\ at' = "page" /\ UNCHANGED <<query, life>>
    BY <1>12, <1>1, SelectReply DEF Select, shopVars
  <2>2. Valid(query)
    BY <2>1 DEF IInv, Checked
  <2>3. Checked'
    BY <2>1, <2>2 DEF Checked, Valid
  <2>4. \A p \in Range(reply'.products) :
          /\ p \in Products /\ Wanted(p, query)
          /\ life[p] \in {"visible", "doubtful", "gone"}
    <3>1. CASE reply'.products = <<>>
      BY <3>1 DEF Range
    <3>2. CASE reply'.products \in
                 Seq(Matching(Filter(query).where, GenerateQueryAndParams(query).params))
      <4>1. \A p \in Matching(Filter(query).where, GenerateQueryAndParams(query).params) :
              p \in Shop!Shown /\ Wanted(p, query)
        BY <1>1, MatchingWanted DEF TypeOK
      <4>2. \A p \in Range(reply'.products) :
              p \in Matching(Filter(query).where, GenerateQueryAndParams(query).params)
        BY <3>2 DEF Range
      <4> QED
        BY <4>1, <4>2 DEF Shop!Shown
    <3> QED
      BY <1>1, <1>12, <3>1, <3>2, SelectReply
  <2>5. ListedMatch'
    BY <2>1, <2>4 DEF ListedMatch, Wanted, Range
  <2>6. SeenOut'
    <3>1. CASE UNCHANGED seen
      BY <1>3, <3>1
    <3>2. CASE seen' = seen \o reply'.products
      <4>1. Range(seen) \subseteq Out /\ Range(reply'.products) \subseteq Out
        BY <2>4 DEF IInv, SeenOut, Out
      <4>2. seen \in Seq(Products) /\ reply'.products \in Seq(Products)
        BY <1>1 DEF TypeOK
      <4>3. Range(seen \o reply'.products) \subseteq Out
        BY <4>1, <4>2, RangeConcatenated
      <4> QED
        BY <1>2, <3>2, <4>3 DEF SeenOut, Range
    <3> QED
      BY <1>1, <1>12, <3>1, <3>2, SelectReply
  <2>7. Served'
    <3>1. Proper(query) => query.limit # 0
      BY <1>1 DEF Proper, TypeOK, Queries
    <3>2. Proper(query) => reply'.status = 200
      BY <1>1, <1>12, <3>1, SelectReply
    <3> QED
      BY <2>1, <2>2, <3>2 DEF Served, Proper, Valid
  <2> QED
    BY <1>6, <2>1, <2>3, <2>5, <2>6, <2>7
<1>13. ASSUME NEW p \in Products, Open(p) PROVE Rest'
  <2>1. at' = "opened" /\ UNCHANGED <<seen, life>>
    BY <1>13 DEF Open, shopVars
  <2>2. OpensWhatIsListed'
    <3> SUFFICES ASSUME opened'.product \in Range(seen'), "failed" \notin upset'
                 PROVE  opened'.status = 200 \/ life'[opened'.product] = "gone"
      BY DEF OpensWhatIsListed
    <3>1. opened' = [product |-> p,
                     status |-> IF p \in Shop!Shown THEN 200 ELSE MakeHandler(OtherError)]
      BY <1>13 DEF Open
    <3>2. p \in Out
      BY <2>1, <3>1 DEF IInv, SeenOut, Range
    <3> QED
      BY <2>1, <3>1, <3>2 DEF Out, Shop!Shown
  <2> QED
    BY <1>3, <1>5, <2>1, <2>2 DEF Checked
<1>14. ASSUME NEW p \in Products, Create(p) \/ Appear(p) \/ Vanish(p) PROVE Rest'
  <2>1. UNCHANGED <<at, query, reply, opened, seen>> /\ upset \subseteq upset'
    BY <1>14 DEF Create, Appear, Vanish, walkVars
  <2> QED
    BY <2>1, Standing
<1>15. ASSUME UNCHANGED vars PROVE Rest'
  <2>1. UNCHANGED <<at, query, reply, opened, seen>> /\ upset \subseteq upset'
    BY <1>15 DEF vars, walkVars
  <2> QED
    BY <2>1, Standing
<1> QED
  BY <1>1, <1>7, <1>8, <1>10, <1>11, <1>12, <1>13, <1>14, <1>15
  DEF IInv, Next, Walk, Terminating

LEMMA Invariance == Spec => []IInv
BY InitIInv, StepIInv, PTL DEF Spec

-----------------------------------------------------------------------------
(* GET /products lists nothing but products in stock that match the query,  *)
(* whichever filters it combines.                                           *)
THEOREM OnlyMatchesListed == Spec => []ListedMatch
<1>1. IInv => ListedMatch
  BY DEF IInv
<1> QED
  BY <1>1, Invariance, PTL

(* The database takes the statements of every valid query for a proper page.*)
THEOREM ProperQueriesServed == Spec => []Served
<1>1. IInv => Served
  BY DEF IInv
<1> QED
  BY <1>1, Invariance, PTL

(* GET /products/{productID} finds what GET /products has listed, unless it *)
(* has been withdrawn.                                                      *)
THEOREM ListedOpens == Spec => []OpensWhatIsListed
<1>1. IInv => OpensWhatIsListed
  BY DEF IInv
<1> QED
  BY <1>1, Invariance, PTL

=============================================================================
