-------------------------- MODULE ListingPagesProofs --------------------------
(***************************************************************************)
(* Theorems about the pages of Listing: a customer who follows them in a   *)
(* catalogue that changes misses nothing that was there, sees it in the    *)
(* order asked for, and is told counters that fit the pages.               *)
(*                                                                         *)
(* The argument: without ties a product's place in the listing is the      *)
(* number of products before it; a page lists the places from its offset   *)
(* on; and the next page's offset is where this one ends, unless 64 bits   *)
(* cannot hold it.                                                         *)
(***************************************************************************)
EXTENDS ListingProofs

(* Integer division and remainder.                                          *)
LEMMA Remainder ==
  ASSUME NEW a \in Int, NEW b \in Nat \ {0}
  PROVE  /\ a % b \in 0..(b - 1)
         /\ \E k \in Int : a = b * k + (a % b)
<1>1. a % b \in 0..(b - 1)
  OBVIOUS
<1>2. a \div b \in Int
  OBVIOUS
<1>3. a = b * (a \div b) + (a % b)
  OBVIOUS
<1> QED BY <1>1, <1>2, <1>3

LEMMA RemainderUnique ==
  ASSUME NEW b \in Nat \ {0}, NEW k \in Int, NEW r \in 0..(b - 1)
  PROVE  (b * k + r) % b = r
BY SMTT(60)

LEMMA RemainderStep ==
  ASSUME NEW a \in Int, NEW b \in Nat \ {0}, NEW c \in Int, (a % b) + c \in 0..(b - 1)
  PROVE  (a + c) % b = (a % b) + c
<1> DEFINE m == a % b
<1>0. \E k \in Int : a = b * k + m
  BY Zenon, Remainder
<1>1. m \in 0..(b - 1) /\ m + c \in 0..(b - 1)
  BY Remainder
<1> HIDE DEF m
<1>2. PICK k \in Int : a = b * k + m
  BY <1>0
<1>3. a + c = b * k + (m + c)
  BY <1>1, <1>2
<1>4. (b * k + (m + c)) % b = m + c
  BY <1>1, RemainderUnique
<1>5. (a + c) % b = m + c
  BY Zenon, <1>3, <1>4
<1> QED BY <1>5 DEF m

LEMMA QuotientBounds ==
  ASSUME NEW a \in Nat, NEW b \in Nat \ {0}
  PROVE  /\ a \div b \in Nat
         /\ (a \div b) * b <= a /\ a < (a \div b) * b + b
BY SMTT(60)

(* Numbers within their ranges are not changed by the conversions.          *)
LEMMA Conversions ==
  /\ \A x \in 0..(2 * Half - 1) : UInt64(x) = x
  /\ \A x \in (-Half)..(Half - 1) : Int64(x) = x
  /\ \A x \in Half..(3 * Half - 1) : Int64(x) = x - 2 * Half
  /\ \A x \in Int : Int64(x) \in (-Half)..(Half - 1) /\ UInt64(x) \in 0..(2 * Half - 1)
<1> DEFINE b == 2 * Half
<1>1. Half \in Nat \ {0} /\ b \in Nat \ {0} /\ b = 2 * Half
  BY QueryAssumption
<1> HIDE DEF b
<1>2. \A x \in 0..(b - 1) : x % b = x
  <2> SUFFICES ASSUME NEW x \in 0..(b - 1) PROVE x % b = x
    OBVIOUS
  <2>1. b * 0 + x = x /\ 0 \in Int
    BY <1>1
  <2> QED BY SMTT(60), <1>1, <2>1, RemainderUnique
<1>3. \A x \in b..(2 * b - 1) : x % b = x - b
  <2> SUFFICES ASSUME NEW x \in b..(2 * b - 1) PROVE x % b = x - b
    OBVIOUS
  <2>1. b * 1 + (x - b) = x /\ x - b \in 0..(b - 1) /\ 1 \in Int
    BY <1>1
  <2> QED BY SMTT(60), <1>1, <2>1, RemainderUnique
<1>4. \A x \in 0..(2 * Half - 1) : UInt64(x) = x
  BY <1>1, <1>2 DEF UInt64, b
<1>5. \A x \in (-Half)..(Half - 1) : Int64(x) = x
  <2> SUFFICES ASSUME NEW x \in (-Half)..(Half - 1) PROVE Int64(x) = x
    OBVIOUS
  <2>1. x + Half \in 0..(b - 1)
    BY <1>1
  <2>2. (x + Half) % b = x + Half
    BY <1>2, <2>1
  <2> QED BY <1>1, <2>2 DEF Int64, b
<1>6. \A x \in Half..(3 * Half - 1) : Int64(x) = x - 2 * Half
  <2> SUFFICES ASSUME NEW x \in Half..(3 * Half - 1) PROVE Int64(x) = x - 2 * Half
    OBVIOUS
  <2>1. PICK y \in b..(2 * b - 1) : y = x + Half
    BY <1>1
  <2>2. y % b = y - b
    BY <1>3
  <2>3. Int64(x) = (y % b) - Half
    BY <2>1 DEF Int64, b
  <2> QED BY <1>1, <2>1, <2>2, <2>3 DEF b
<1>7. ASSUME NEW x \in Int
      PROVE  x % b \in 0..(b - 1) /\ (x + Half) % b \in 0..(b - 1)
  <2>1. x + Half \in Int
    BY <1>1
  <2> QED BY Zenon, <1>1, <2>1, Remainder
<1>8. \A x \in Int : Int64(x) \in (-Half)..(Half - 1) /\ UInt64(x) \in 0..(2 * Half - 1)
  <2> SUFFICES ASSUME NEW x \in Int
               PROVE  Int64(x) \in (-Half)..(Half - 1) /\ UInt64(x) \in 0..(2 * Half - 1)
    OBVIOUS
  <2>1. Int64(x) = ((x + Half) % b) - Half /\ UInt64(x) = x % b
    BY DEF Int64, UInt64, b
  <2>2. x % b \in 0..(b - 1) /\ (x + Half) % b \in 0..(b - 1)
    BY <1>7
  <2> QED BY SMTT(60), <1>1, <2>1, <2>2
<1> QED BY <1>4, <1>5, <1>6, <1>8

(* A page that the database has taken a limit and an offset of.             *)
Taken(q) == q.limit \in 1..(Half - 1) /\ Offset(q) < Half

LEMMA OffsetEnds ==
  ASSUME NEW q \in Queries, Taken(q)
  PROVE  /\ Offset(q) \in 0..(Half - 1)
         /\ UInt64(q.page * q.limit) = Offset(q) + q.limit
<1> DEFINE p == q.page
           l == q.limit
           b == 2 * Half
<1>1. p \in Nat /\ l \in 1..(Half - 1) /\ Half \in Nat \ {0} /\ b \in Nat \ {0} /\ b = 2 * Half
  BY QueryAssumption DEF Queries, Taken
<1>2. Offset(q) = ((p - 1) * l) % b /\ UInt64(p * l) = (p * l) % b
  BY DEF Offset, UInt64
<1>3. ((p - 1) * l) % b < Half
  BY <1>2 DEF Taken
<1> HIDE DEF p, l, b
<1>4. PICK a \in Int : a = (p - 1) * l
  BY <1>1
<1>5. p * l = a + l
  BY <1>1, <1>4
<1>6. a % b \in 0..(b - 1)
  BY <1>1, Remainder
<1>7. (a % b) + l \in 0..(b - 1) /\ l \in Int
  BY <1>1, <1>3, <1>4, <1>6
<1>8. (a + l) % b = (a % b) + l
  BY Zenon, <1>1, <1>7, RemainderStep
<1>9. Offset(q) = a % b /\ UInt64(p * l) = (a % b) + l
  BY Zenon, <1>2, <1>4, <1>5, <1>8
<1>10. a % b \in 0..(Half - 1)
  BY <1>1, <1>3, <1>4, <1>6
<1> QED BY Zenon, <1>9, <1>10 DEF p, l

(* The next page begins where this one ends; the first one, which stands in *)
(* for a page whose number does not fit, follows only one that ends beyond  *)
(* what an offset can be.                                                   *)
LEMMA NextOffset ==
  ASSUME NEW q \in Queries, Taken(q), q.page < 2 * Half,
         NEW n, n = StringToUint64(1, q.page + 1)
  PROVE  /\ Offset(AtPage(q, n)) \in Nat
         /\ Offset(AtPage(q, n)) <= Offset(q) + q.limit
         /\ Offset(q) + q.limit < Half => Offset(AtPage(q, n)) = Offset(q) + q.limit
<1> DEFINE p == q.page
           l == q.limit
           b == 2 * Half
<1>1. p \in Nat /\ l \in 1..(Half - 1) /\ Half \in Nat \ {0} /\ b \in Nat \ {0} /\ b = 2 * Half
  BY QueryAssumption DEF Queries, Taken
<1>2. Offset(q) \in 0..(Half - 1) /\ (p * l) % b = Offset(q) + l
  BY OffsetEnds DEF UInt64
<1>3. Offset(AtPage(q, n)) = ((n - 1) * l) % b
  BY DEF Offset, UInt64, AtPage, Queries
<1>4. CASE p + 1 < b
  <2>1. n = p + 1
    BY <1>1, <1>4 DEF StringToUint64
  <2> HIDE DEF p, l, b
  <2>2. n - 1 = p
    BY <1>1, <2>1
  <2>3. Offset(AtPage(q, n)) = Offset(q) + l
    BY Zenon, <1>2, <1>3, <2>2
  <2> QED BY <1>1, <1>2, <2>3 DEF l
<1>5. CASE p + 1 >= b
  <2>1. p = b - 1
    BY <1>1, <1>5
  <2>2. n = 1
    BY <1>1, <2>1 DEF StringToUint64
  <2> HIDE DEF p, l, b
  <2>3. Offset(AtPage(q, n)) = 0
    <3>1. (n - 1) * l = b * 0 + 0 /\ 0 \in Int /\ 0 \in 0..(b - 1)
      BY <1>1, <2>2
    <3>2. (b * 0 + 0) % b = 0
      BY <1>1, <3>1, RemainderUnique
    <3> QED BY Zenon, <1>3, <3>1, <3>2
  <2>4. Offset(q) + l = b - l
    <3>1. p * l = b * (l - 1) + (b - l)
      BY <1>1, <2>1
    <3>2. b - l \in 0..(b - 1) /\ l - 1 \in Int
      BY <1>1
    <3> QED BY ZenonT(60), <1>1, <1>2, <3>1, <3>2, RemainderUnique
  <2>5. ~(Offset(q) + l < Half)
    BY <1>1, <2>4
  <2> QED BY <1>1, <1>2, <2>3, <2>5 DEF l
<1> QED BY <1>1, <1>4, <1>5

(* What is left after a page.                                               *)
LEMMA LeftAfter ==
  ASSUME NEW q \in Queries, Taken(q), NEW n \in 0..(Half - 1)
  PROVE  /\ ItemsLeft(q, n) \in Int
         /\ Offset(q) + q.limit < Half =>
              ItemsLeft(q, n) = n - (Offset(q) + q.limit)
         /\ Offset(q) + q.limit >= Half /\ ItemsLeft(q, n) >= 0 => n < Offset(q)
<1> DEFINE x == Offset(q) + q.limit
<1>1. /\ Offset(q) \in 0..(Half - 1) /\ q.limit \in 1..(Half - 1)
      /\ Half \in Nat \ {0} /\ ItemsLeft(q, n) = Int64(n - Int64(x))
  BY OffsetEnds, QueryAssumption DEF Taken, ItemsLeft
<1>2. CASE x < Half
  <2>1. Int64(x) = x
    BY <1>1, <1>2, Conversions
  <2>2. n - x \in (-Half)..(Half - 1)
    BY <1>1, <1>2
  <2>3. Int64(n - x) = n - x
    BY <2>2, Conversions
  <2> QED BY <1>1, <1>2, <2>1, <2>3
<1>3. CASE x >= Half
  <2>1. x \in Half..(3 * Half - 1)
    BY <1>1, <1>3
  <2>2. Int64(x) = x - 2 * Half
    BY <2>1, Conversions
  <2>3. PICK y \in Int : y = n - (x - 2 * Half)
    BY <1>1
  <2>4. CASE y < Half
    <3>1. y \in (-Half)..(Half - 1)
      BY <1>1, <2>1, <2>3, <2>4
    <3>2. Int64(y) = y
      BY <3>1, Conversions
    <3> QED BY <1>1, <1>3, <2>2, <2>3, <2>4, <3>2
  <2>5. CASE y >= Half
    <3>1. y \in Half..(3 * Half - 1)
      BY <1>1, <1>3, <2>3, <2>5
    <3>2. Int64(y) = y - 2 * Half
      BY <3>1, Conversions
    <3>3. ItemsLeft(q, n) = y - 2 * Half
      BY Zenon, <1>1, <2>2, <2>3, <3>2
    <3>4. ItemsLeft(q, n) \in Int /\ ItemsLeft(q, n) < 0
      BY <1>1, <1>3, <2>3, <3>3
    <3> QED BY <1>1, <1>3, <3>4
  <2> QED BY <1>1, <2>3, <2>4, <2>5
<1> QED BY <1>1, <1>2, <1>3

LEMMA PagesAfter ==
  ASSUME NEW q \in Queries, Taken(q), NEW left \in Nat, left + q.limit - 1 < Half
  PROVE  /\ PagesLeft(q, left) \in Nat
         /\ PagesLeft(q, left) * q.limit - left \in 0..(q.limit - 1)
         /\ PagesLeft(q, left) > 0 <=> left > 0
<1> DEFINE l == q.limit
           a == left + l - 1
           k == a \div l
<1>1. l \in 1..(Half - 1) /\ Half \in Nat \ {0} /\ a \in 0..(Half - 1)
  BY QueryAssumption DEF Taken
<1>2. Int64(l) = l /\ Int64(a) = a
  BY <1>1, Conversions
<1>3. PagesLeft(q, left) = k
  <2>1. PagesLeft(q, left) = Quotient(a, l)
    BY Zenon, <1>2 DEF PagesLeft
  <2>2. a >= 0
    BY <1>1
  <2> QED BY Zenon, <2>1, <2>2 DEF Quotient
<1>4. k \in Nat /\ k * l <= a /\ a < k * l + l
  <2>1. a \in Nat /\ l \in Nat \ {0}
    BY <1>1
  <2> QED BY Zenon, <2>1, QuotientBounds
<1> HIDE DEF k
<1>5. k * l - left \in 0..(l - 1)
  BY <1>1, <1>4
<1>6. left = 0 => k = 0
  <2> SUFFICES ASSUME left = 0, k >= 1 PROVE FALSE
    BY <1>4
  <2>1. k * l >= l
    BY <1>1, <1>4
  <2> QED BY <1>1, <1>4, <2>1
<1>7. k = 0 => left = 0
  BY <1>1, <1>4
<1> QED BY <1>3, <1>4, <1>5, <1>6, <1>7

(* What an answer says of the pages to come.                                *)
LEMMA AnswerCounts ==
  ASSUME NEW q \in Queries, Taken(q), NEW n \in 0..(Half - 1), NEW rows,
         NEW r, r = Respond(q, n, rows)
  PROVE  /\ r.status = 200 /\ r.products = rows /\ r.allProductsCount = n
         /\ r.pagesLeftCount > 0 => Offset(q) + q.limit < n \/ n < Offset(q)
         /\ ~(r.pagesLeftCount > 0) => n <= Offset(q) + q.limit
         /\ Offset(q) + q.limit < Half =>
              /\ r.itemsLeftCount = IF n < Offset(q) + q.limit THEN 0
                                    ELSE n - (Offset(q) + q.limit)
              /\ r.pagesLeftCount * q.limit - r.itemsLeftCount \in 0..(q.limit - 1)
         /\ n - r.totalPagesCount * q.limit \in 0..(q.limit - 1)
<1> DEFINE left == ItemsLeft(q, n)
           off  == Offset(q)
           l    == q.limit
<1>1. off \in 0..(Half - 1) /\ l \in 1..(Half - 1) /\ Half \in Nat \ {0} /\ left \in Int
  BY OffsetEnds, LeftAfter, QueryAssumption DEF Taken
<1>2. /\ r.status = 200 /\ r.products = rows /\ r.allProductsCount = n
      /\ r.itemsLeftCount = IF left < 0 THEN 0 ELSE left
      /\ r.pagesLeftCount = IF left < 0 THEN 0 ELSE PagesLeft(q, left)
  BY <1>1 DEF Respond
<1>3. /\ off + l < Half => left = n - (off + l)
      /\ off + l >= Half /\ left >= 0 => n < off
  BY LeftAfter
<1>7. n - r.totalPagesCount * l \in 0..(l - 1)
  <2>1. Int64(l) = l
    BY <1>1, Conversions
  <2>2. r.totalPagesCount = Quotient(n, l)
    BY <1>1, <2>1 DEF Respond
  <2> HIDE DEF l
  <2>3. n >= 0 /\ n \in Nat /\ l \in Nat \ {0}
    BY <1>1
  <2>4. Quotient(n, l) = n \div l
    BY Zenon, <2>3 DEF Quotient
  <2> DEFINE k == n \div l
  <2>5. k \in Nat /\ k * l <= n /\ n < k * l + l
    BY Zenon, <2>3, QuotientBounds
  <2>6. r.totalPagesCount = k
    BY Zenon, <2>2, <2>4
  <2> HIDE DEF k
  <2>7. n - k * l \in 0..(l - 1)
    BY <2>3, <2>5
  <2> QED BY Zenon, <2>6, <2>7
<1> HIDE DEF left, off, l
<1>4. CASE left < 0
  <2>1. r.itemsLeftCount = 0 /\ r.pagesLeftCount = 0
    BY <1>2, <1>4
  <2>2. r.pagesLeftCount * l - r.itemsLeftCount \in 0..(l - 1)
    BY <1>1, <2>1
  <2> QED BY <1>1, <1>2, <1>3, <1>4, <1>7, <2>1, <2>2 DEF off, l
<1>5. CASE left >= 0 /\ off + l < Half
  <2>1. left = n - (off + l) /\ left \in Nat /\ left + l - 1 < Half
    BY <1>1, <1>3, <1>5
  <2>2. /\ PagesLeft(q, left) \in Nat
        /\ PagesLeft(q, left) * l - left \in 0..(l - 1)
        /\ PagesLeft(q, left) > 0 <=> left > 0
    BY <2>1, PagesAfter DEF l
  <2>3. r.itemsLeftCount = left /\ r.pagesLeftCount = PagesLeft(q, left)
    BY <1>1, <1>2, <1>5
  <2> QED BY <1>1, <1>2, <1>5, <1>7, <2>1, <2>2, <2>3 DEF off, l
<1>6. CASE left >= 0 /\ off + l >= Half
  <2>1. n < off /\ n <= off + l /\ ~(off + l < Half)
    BY <1>1, <1>3, <1>6
  <2> QED BY <1>2, <1>7, <2>1 DEF off, l
<1> QED BY <1>1, <1>4, <1>5, <1>6

-----------------------------------------------------------------------------
(* What the statements find, and in which order.                            *)

(* Both statements of a query find the same products.                       *)
LEMMA StatementsFind ==
  ASSUME NEW q \in Queries, NEW s, s = GenerateQueryAndParams(q)
  PROVE  /\ Matching(s.where, s.params) = Found(q)
         /\ Matching(s.where, CountParams(s)) = Found(q)
<1> DEFINE w  == Filter(q).where
           fp == Filter(q).params
<1>1. /\ s.where = w /\ CountParams(s) = fp
      /\ \A n \in 1..Len(fp) : s.params[n] = fp[n]
  BY Statements
<1>2. BoundTo(q, w, fp)
  BY FilterBound DEF Bound
<1> HIDE DEF w, fp
<1>3. ASSUME NEW p, NEW i \in DOMAIN w
      PROVE  Satisfies(p, w[i], s.params) <=> Satisfies(p, w[i], fp)
  <2>1. \A j \in DOMAIN w[i].at : s.params[w[i].at[j]] = fp[w[i].at[j]]
    BY <1>1, <1>2 DEF BoundTo
  <2>2. /\ w[i].test \in Tests
        /\ DOMAIN w[i].at = 1..Len(Operands(q, w[i].test))
    BY <1>2 DEF BoundTo
  <2>3. /\ 1 \in DOMAIN w[i].at
        /\ w[i].test = "search" => 2 \in DOMAIN w[i].at
    <3>1. Len(Operands(q, w[i].test)) = IF w[i].test = "search" THEN 2 ELSE 1
      BY Zenon, <2>2, OperandsType
    <3> QED BY <2>2, <3>1
  <2>4. /\ s.params[w[i].at[1]] = fp[w[i].at[1]]
        /\ w[i].test = "search" => s.params[w[i].at[2]] = fp[w[i].at[2]]
    BY <2>1, <2>3
  <2> QED BY <2>4 DEF Satisfies
<1>4. Matching(w, s.params) = Matching(w, fp)
  BY <1>3 DEF Matching
<1> QED BY Zenon, <1>1, <1>4 DEF Found, w, fp

(* The page does not matter to it.                                          *)
LEMMA SameListing ==
  ASSUME NEW q \in Queries, NEW n \in Nat
  PROVE  /\ Found(AtPage(q, n)) = Found(q)
         /\ \A a, b : Precedes(a, b, AtPage(q, n)) <=> Precedes(a, b, q)
         /\ \A a : Position(a, AtPage(q, n)) = Position(a, q)
         /\ AtPage(q, n).limit = q.limit /\ AtPage(q, n).sortBy = q.sortBy
<1> DEFINE t == AtPage(q, n)
<1>1. /\ t.search = q.search /\ t.category = q.category
      /\ t.priceMin = q.priceMin /\ t.priceMax = q.priceMax
      /\ t.sortBy = q.sortBy /\ t.sortOpt = q.sortOpt /\ t.limit = q.limit
  BY DEF AtPage, Queries
<1> HIDE DEF t
<1>2. ASSUME NEW w, NEW test PROVE Add(t, w, test) = Add(q, w, test)
  <2>1. Operands(t, test) = Operands(q, test)
    BY Zenon, <1>1 DEF Operands
  <2>2. Given(t, test) <=> Given(q, test)
    BY Zenon, <1>1 DEF Given
  <2> QED BY <2>1, <2>2 DEF Add
<1>3. Filter(t) = Filter(q)
  <2>1. Add(t, NoFilter, "search") = Add(q, NoFilter, "search")
    BY <1>2
  <2> DEFINE w == Add(q, NoFilter, "search")
  <2>2. Add(t, w, "category") = Add(q, w, "category")
    BY <1>2
  <2> DEFINE x == Add(q, w, "category")
  <2>3. Add(t, x, "priceMin") = Add(q, x, "priceMin")
    BY <1>2
  <2> DEFINE y == Add(q, x, "priceMin")
  <2>4. Add(t, y, "priceMax") = Add(q, y, "priceMax")
    BY <1>2
  <2>5. Filter(t) = Add(t, y, "priceMax") /\ Filter(q) = Add(q, y, "priceMax")
    BY Zenon, <2>1, <2>2, <2>3 DEF Filter
  <2> QED BY Zenon, <2>4, <2>5
<1>4. Found(t) = Found(q)
  BY Zenon, <1>3 DEF Found
<1>5. \A a, b : Precedes(a, b, t) <=> Precedes(a, b, q)
  BY Zenon, <1>1 DEF Precedes
<1>6. ASSUME NEW a PROVE Position(a, t) = Position(a, q)
  <2>1. {r \in Found(t) : Precedes(r, a, t)} = {r \in Found(q) : Precedes(r, a, q)}
    BY <1>4, <1>5
  <2> QED BY Zenon, <2>1 DEF Position
<1> QED BY Zenon, <1>1, <1>4, <1>5, <1>6 DEF t

(* Products that have been created have keys to sort them by.               *)
LEMMA Keys ==
  ASSUME TypeOK, Catalogued
  PROVE  /\ \A q \in Queries : Found(q) \subseteq Range(created)
         /\ \A p \in Range(created) : \A sortBy : Key(p, sortBy) \in Nat
         /\ \A p \in Range(created) : Rank(p) \in DOMAIN created /\ created[Rank(p)] = p
<1>1. \A q \in Queries : Found(q) \subseteq Range(created)
  <2>1. Shop!Shown \subseteq Range(created)
    BY DEF Catalogued, Shop!Shown
  <2> QED BY <2>1 DEF Found, Matching
<1>2. \A p \in Range(created) : Rank(p) \in DOMAIN created /\ created[Rank(p)] = p
  BY DEF Rank, Range
<1>3. DOMAIN created \subseteq Nat /\ Range(created) \subseteq Products
  BY DEF TypeOK, Range
<1>4. ASSUME NEW p \in Range(created), NEW sortBy PROVE Key(p, sortBy) \in Nat
  BY <1>2, <1>3, ListingAssumption DEF Key
<1> QED BY <1>1, <1>2, <1>4

LEMMA FoundFinite ==
  ASSUME NEW q
  PROVE  /\ IsFiniteSet(Found(q)) /\ Found(q) \subseteq Products
         /\ Cardinality(Found(q)) \in 0..(Half - 1)
         /\ \A a : Position(a, q) \in Nat
<1>1. IsFiniteSet(Products) /\ Cardinality(Products) < Half
  BY ListingAssumption
<1>2. Found(q) \subseteq Products
  BY DEF Found, Matching, Shop!Shown
<1>3. IsFiniteSet(Found(q)) /\ Cardinality(Found(q)) <= Cardinality(Products)
  BY <1>1, <1>2, FS_Subset
<1>4. Cardinality(Found(q)) \in Nat /\ Cardinality(Products) \in Nat
  BY <1>1, <1>3, FS_CardinalityType
<1>5. ASSUME NEW a PROVE Position(a, q) \in Nat
  <2>1. IsFiniteSet({r \in Found(q) : Precedes(r, a, q)})
    BY <1>3, FS_Subset
  <2> QED BY <2>1, FS_CardinalityType DEF Position
<1> QED BY <1>1, <1>2, <1>3, <1>4, <1>5, QueryAssumption

(* Without ties the rows come in the one order of their positions.          *)
LEMMA Sorted ==
  ASSUME TypeOK, Catalogued, NoTies, NEW s,
         s.sortBy = query.sortBy, s.sortOpt = query.sortOpt,
         NEW r \in Ordered(Found(query), s)
  PROVE  LET n == Cardinality(Found(query))
         IN  /\ r \in Seq(Found(query)) /\ Len(r) = n /\ Range(r) = Found(query)
             /\ \A i, j \in 1..n : i < j => Precedes(r[i], r[j], query)
             /\ \A i \in 1..n : Position(r[i], query) = i - 1
<1> DEFINE M == Found(query)
           n == Cardinality(M)
<1>1. n \in Nat /\ IsFiniteSet(M) /\ M \subseteq Range(created) /\ query \in Queries
  BY FoundFinite, Keys DEF TypeOK
<1>2. /\ r \in [1..n -> M] /\ Range(r) = M
      /\ \A i, j \in 1..n : i < j => ~Precedes(r[j], r[i], query)
  BY DEF Ordered, Precedes
<1> HIDE DEF M, n
<1>3. r \in Seq(M) /\ Len(r) = n
  BY <1>1, <1>2
<1>4. \A i, j \in 1..n : r[i] = r[j] => i = j
  <2>1. IsFiniteSet(1..n) /\ Cardinality(1..n) = n
    BY <1>1, FS_Interval
  <2>2. r \in Surjection(1..n, M)
    BY <1>2 DEF Surjection, Range
  <2>3. r \in Injection(1..n, M)
    BY <2>1, <2>2, FS_SurjSameCardinalityImpliesInj DEF n
  <2> QED BY <1>2, <2>3 DEF Injection, IsInjective
<1>5. ASSUME NEW a \in M, NEW b \in M, a # b
      PROVE  /\ Precedes(a, b, query) \/ Precedes(b, a, query)
             /\ ~(Precedes(a, b, query) /\ Precedes(b, a, query))
  <2>1. Key(a, query.sortBy) \in Nat /\ Key(b, query.sortBy) \in Nat
    BY <1>1, Keys
  <2>2. Key(a, query.sortBy) # Key(b, query.sortBy)
    BY <1>1, <1>5 DEF NoTies
  <2> QED BY <2>1, <2>2 DEF Precedes
<1>6. \A a \in M : ~Precedes(a, a, query)
  <2>1. \A a \in M : Key(a, query.sortBy) \in Nat
    BY <1>1, Keys
  <2> QED BY <2>1 DEF Precedes
<1>7. \A i, j \in 1..n : i < j => Precedes(r[i], r[j], query)
  <2> SUFFICES ASSUME NEW i \in 1..n, NEW j \in 1..n, i < j
               PROVE  Precedes(r[i], r[j], query)
    OBVIOUS
  <2>1. r[i] \in M /\ r[j] \in M /\ r[i] # r[j]
    BY <1>1, <1>2, <1>4
  <2> QED BY <1>2, <1>5, <2>1
<1>8. ASSUME NEW i \in 1..n PROVE Position(r[i], query) = i - 1
  <2> DEFINE before == {a \in M : Precedes(a, r[i], query)}
             f == [k \in 1..(i - 1) |-> r[k]]
  <2>1. before = {r[k] : k \in 1..(i - 1)}
    <3>1. \A k \in 1..n : Precedes(r[k], r[i], query) <=> k < i
      <4> SUFFICES ASSUME NEW k \in 1..n PROVE Precedes(r[k], r[i], query) <=> k < i
        OBVIOUS
      <4>1. CASE k < i
        BY <1>7, <4>1
      <4>2. CASE k = i
        BY <1>2, <1>6, <4>2
      <4>3. CASE i < k
        BY <1>1, <1>2, <4>3
      <4> QED BY <1>1, <4>1, <4>2, <4>3
    <3>2. \A a \in M : \E k \in 1..n : a = r[k]
      BY <1>2 DEF Range
    <3>3. \A k \in 1..(i - 1) : k \in 1..n /\ k < i /\ r[k] \in M
      BY <1>1, <1>2
    <3>4. \A k \in 1..n : k < i => k \in 1..(i - 1)
      BY <1>1
    <3> QED BY <3>1, <3>2, <3>3, <3>4
  <2>2. f \in Bijection(1..(i - 1), before)
    <3>1. \A k \in 1..(i - 1) : k \in 1..n
      BY <1>1
    <3>2. f \in [1..(i - 1) -> before]
      BY <2>1
    <3>3. f \in Surjection(1..(i - 1), before)
      BY <2>1, <3>2 DEF Surjection, Range
    <3>4. f \in Injection(1..(i - 1), before)
      BY <1>4, <3>1, <3>2 DEF Injection, IsInjective
    <3> QED BY <3>3, <3>4 DEF Bijection
  <2> HIDE DEF before, f
  <2>3. ExistsBijection(1..(i - 1), before)
    BY Zenon, <2>2 DEF ExistsBijection
  <2>4. i - 1 \in Nat
    BY <1>1
  <2>5. Cardinality(before) = i - 1
    BY Zenon, <2>3, <2>4, FS_CountingElements
  <2> QED BY Zenon, <2>5 DEF Position, before, M
<1> QED BY <1>2, <1>3, <1>7, <1>8 DEF M, n

(* What has been fetched of a page stands in the listing from the offset on.*)
LEMMA PageRows ==
  ASSUME NEW q \in Queries, NEW s, s = GenerateQueryAndParams(q),
         NEW S, NEW r \in Seq(S), NEW rows \in Fetched(Page(r, s))
  PROVE  /\ rows \in Seq(S)
         /\ \A k \in 1..Len(rows) :
              /\ k <= q.limit /\ Offset(q) + k \in 1..Len(r)
              /\ rows[k] = r[Offset(q) + k]
         /\ rows = Page(r, s) =>
              Len(rows) = IF Offset(q) + q.limit < Len(r) THEN q.limit
                          ELSE IF Offset(q) < Len(r) THEN Len(r) - Offset(q) ELSE 0
<1> DEFINE off  == Offset(q)
           hi   == IF off + q.limit < Len(r) THEN off + q.limit ELSE Len(r)
           page == SubSeq(r, off + 1, hi)
<1>1. off \in Nat /\ q.limit \in Nat /\ Len(r) \in Nat
  BY Statements DEF Queries
<1>2. Page(r, s) = page
  <2>1. s.params[s.limitAt] = Unsigned(q.limit) /\ s.params[s.offsetAt] = Unsigned(off)
    BY Statements
  <2>2. s.params[s.limitAt].value = q.limit /\ s.params[s.offsetAt].value = off
    BY <2>1 DEF Unsigned
  <2> HIDE DEF off
  <2> QED BY <2>2 DEF Page
<1> HIDE DEF off
<1>3. hi \in Nat /\ hi <= Len(r) /\ hi <= off + q.limit
  BY <1>1
<1>4. /\ page \in Seq(S)
      /\ Len(page) = IF off < hi THEN hi - off ELSE 0
      /\ \A k \in 1..Len(page) : page[k] = r[off + k]
  <2> HIDE DEF hi
  <2>1. page \in Seq(S)
    BY <1>1, <1>3
  <2>2. Len(page) = IF off < hi THEN hi - off ELSE 0
    BY <1>1, <1>3
  <2>3. ASSUME NEW k \in 1..Len(page) PROVE page[k] = r[off + k]
    <3>1. page = [i \in 1..(hi - off) |-> r[off + i]] /\ k \in 1..(hi - off)
      BY <1>1, <1>3, <2>2
    <3> QED BY <3>1
  <2> QED BY <2>1, <2>2, <2>3
<1>5. PICK n \in 0..Len(page) : rows = SubSeq(page, 1, n)
  <2>1. Len(page) \in Nat
    BY <1>4
  <2> HIDE DEF page
  <2> QED BY <1>2, <2>1 DEF Fetched
<1> HIDE DEF page
<1>6. /\ rows \in Seq(S) /\ Len(rows) = n
      /\ \A k \in 1..n : rows[k] = page[k]
  BY <1>4, <1>5
<1>7. ASSUME NEW k \in 1..Len(rows)
      PROVE  k <= q.limit /\ off + k \in 1..Len(r) /\ rows[k] = r[off + k]
  <2>1. k \in 1..Len(page) /\ rows[k] = page[k]
    BY <1>4, <1>6, <1>1, <1>3
  <2>2. off + k <= hi
    BY <1>1, <1>3, <1>4, <2>1
  <2> HIDE DEF hi
  <2>3. page[k] = r[off + k]
    BY <1>4, <2>1
  <2>4. off + k \in 1..Len(r) /\ k <= q.limit
    <3>1. k \in Nat /\ k >= 1
      BY <2>1
    <3> QED BY SMTT(30), <1>1, <1>3, <2>2, <3>1
  <2> QED BY Zenon, <2>1, <2>3, <2>4
<1>8. rows = page =>
        Len(rows) = IF off + q.limit < Len(r) THEN q.limit
                    ELSE IF off < Len(r) THEN Len(r) - off ELSE 0
  <2> SUFFICES ASSUME rows = page
               PROVE  Len(page) = IF off + q.limit < Len(r) THEN q.limit
                                  ELSE IF off < Len(r) THEN Len(r) - off ELSE 0
    OBVIOUS
  <2>1. Len(page) = IF off < hi THEN hi - off ELSE 0
    BY <1>4
  <2>2. CASE off + q.limit < Len(r)
    BY <1>1, <2>1, <2>2
  <2>3. CASE ~(off + q.limit < Len(r))
    BY <1>1, <2>1, <2>3
  <2> QED BY <2>2, <2>3
<1> QED BY <1>2, <1>6, <1>7, <1>8 DEF off

(* A selection is refused, or answers rows that stand in the listing from   *)
(* the offset on.                                                           *)
Listed(rows, r) ==
  /\ r \in Seq(Found(query)) /\ rows \in Seq(Found(query))
  /\ \A k \in 1..Len(rows) :
       /\ k <= query.limit /\ Offset(query) + k \in 1..Len(r)
       /\ rows[k] = r[Offset(query) + k]

Whole(rows, r) ==
  Len(rows) = IF Offset(query) + query.limit < Len(r) THEN query.limit
              ELSE IF Offset(query) < Len(r) THEN Len(r) - Offset(query) ELSE 0

Answers(rows, r) ==
  /\ Listed(rows, r)
  /\ "cut" \in upset' \/ Whole(rows, r)
  /\ reply' = Respond(query, count, rows)
  /\ seen' = seen \o rows

LEMMA Selection ==
  ASSUME TypeOK, Select
  PROVE  /\ at = "select" /\ at' = "page"
         /\ UNCHANGED <<life, created, query, count, first>>
         /\ upset \subseteq upset' /\ upset' \subseteq upset \cup {"cut"}
         /\ \/ /\ reply'.status # 200 /\ UNCHANGED seen
            \/ /\ Taken(query)
               /\ \E s : /\ s.sortBy = query.sortBy /\ s.sortOpt = query.sortOpt
                         /\ \E r \in Ordered(Found(query), s) : \E rows : Answers(rows, r)
<1> DEFINE s == GenerateQueryAndParams(query)
           M == Found(query)
<1>1. /\ query \in Queries /\ seen \in Seq(Products)
      /\ at = "select" /\ at' = "page" /\ UNCHANGED <<life, created, query, count, first>>
  BY SelectReply DEF TypeOK, Select, shopVars
<1>2. /\ Matching(s.where, s.params) = M
      /\ s.sortBy = query.sortBy /\ s.sortOpt = query.sortOpt
  BY <1>1, StatementsFind, Statements
<1>3. CASE ~Accepts(s.where, {s.limitAt, s.offsetAt}, s.params)
  <2>1. Refuse(MakeHandler(OtherError)) /\ UNCHANGED <<seen, upset>>
    BY <1>3 DEF Select
  <2> QED BY <1>1, <2>1, RefuseType, Codes
<1>4. CASE Accepts(s.where, {s.limitAt, s.offsetAt}, s.params)
  <2>1. PICK r \in Ordered(M, s) : \E f \in Fetched(Page(r, s)) :
          /\ reply' = Respond(query, count, f)
          /\ seen' = seen \o reply'.products
          /\ upset' = IF f = Page(r, s) THEN upset ELSE upset \cup {"cut"}
    <3>1. \E r \in Ordered(Matching(s.where, s.params), s) : \E f \in Fetched(Page(r, s)) :
            /\ reply' = Respond(query, count, f)
            /\ seen' = seen \o reply'.products
            /\ upset' = IF f = Page(r, s) THEN upset ELSE upset \cup {"cut"}
      BY <1>4 DEF Select
    <3> QED BY Zenon, <1>2, <3>1
  <2>2. PICK f \in Fetched(Page(r, s)) :
          /\ reply' = Respond(query, count, f)
          /\ seen' = seen \o reply'.products
          /\ upset' = IF f = Page(r, s) THEN upset ELSE upset \cup {"cut"}
    BY <2>1
  <2>3. upset \subseteq upset' /\ upset' \subseteq upset \cup {"cut"}
    BY <2>2
  <2>4. Offset(query) < Half /\ query.limit < Half
    <3>1. /\ s.params[s.limitAt] = Unsigned(query.limit)
          /\ s.params[s.offsetAt] = Unsigned(Offset(query))
      BY <1>1, Statements
    <3>2. s.params[s.limitAt].value < Half /\ s.params[s.offsetAt].value < Half
      BY <1>4 DEF Accepts
    <3> QED BY <3>1, <3>2 DEF Unsigned
  <2>5. CASE query.limit = 0
    <3>1. reply'.status = 1 /\ reply'.products = <<>>
      BY <1>1, <2>2, <2>5, RespondType
    <3>2. seen' = seen
      BY <1>1, <2>2, <3>1
    <3> QED BY <1>1, <2>3, <3>1, <3>2
  <2>6. CASE query.limit # 0
    <3>1. Taken(query)
      BY <1>1, <2>4, <2>6, QueryAssumption DEF Taken, Queries
    <3>2. reply'.products = f
      BY <1>1, <2>2, <2>6, RespondType
    <3>3. r \in Seq(M)
      <4>1. Cardinality(M) \in Nat
        BY FoundFinite
      <4> QED BY <4>1 DEF Ordered
    <3>4. /\ Listed(f, r)
          /\ f = Page(r, s) => Whole(f, r)
      <4> HIDE DEF M
      <4>1. /\ f \in Seq(M)
            /\ \A k \in 1..Len(f) :
                 /\ k <= query.limit /\ Offset(query) + k \in 1..Len(r)
                 /\ f[k] = r[Offset(query) + k]
            /\ f = Page(r, s) =>
                 Len(f) = IF Offset(query) + query.limit < Len(r) THEN query.limit
                          ELSE IF Offset(query) < Len(r) THEN Len(r) - Offset(query) ELSE 0
        BY <1>1, <3>3, PageRows
      <4> QED BY Zenon, <3>3, <4>1 DEF Listed, Whole, M
    <3>5. "cut" \in upset' \/ Whole(f, r)
      BY <2>2, <3>4
    <3>6. Answers(f, r)
      BY Zenon, <2>2, <3>2, <3>4, <3>5 DEF Answers
    <3> HIDE DEF s, M
    <3>7. r \in Ordered(Found(query), s)
      BY DEF M
    <3> QED BY <1>1, <1>2, <2>3, <3>1, <3>6, <3>7
  <2> QED BY <2>5, <2>6
<1> QED BY <1>3, <1>4

-----------------------------------------------------------------------------
(* What steps of the catalogue do to the listing.                           *)

LEMMA Sizes ==
  ASSUME NEW T \in SUBSET Products, NEW S \in SUBSET T
  PROVE  /\ Cardinality(S) \in 0..(Half - 1) /\ Cardinality(T) \in 0..(Half - 1)
         /\ Cardinality(S) <= Cardinality(T)
<1>1. IsFiniteSet(Products) /\ Cardinality(Products) < Half
  BY ListingAssumption
<1>2. IsFiniteSet(T) /\ Cardinality(T) <= Cardinality(Products)
  BY <1>1, FS_Subset
<1>3. IsFiniteSet(S) /\ Cardinality(S) <= Cardinality(T)
  BY <1>2, FS_Subset
<1>4. Cardinality(S) \in Nat /\ Cardinality(T) \in Nat /\ Cardinality(Products) \in Nat
  BY <1>1, <1>2, <1>3, FS_CardinalityType
<1> QED BY <1>1, <1>2, <1>3, <1>4, QueryAssumption

(* A walk's own steps leave the listing of a query as it is.                *)
LEMMA ShopStill ==
  ASSUME UNCHANGED <<life, created>>
  PROVE  /\ Found(query)' = Found(query')
         /\ \A a, b : Precedes(a, b, query)' <=> Precedes(a, b, query')
         /\ \A a : Position(a, query)' = Position(a, query')
         /\ NoTies' <=> \A p, r \in Range(created) :
                          p # r => Key(p, query'.sortBy) # Key(r, query'.sortBy)
<1>1. Found(query)' = Found(query')
  BY DEF Found, Matching, Shop!Shown
<1>2. ASSUME NEW a PROVE Key(a, query.sortBy)' = Key(a, query'.sortBy)
  <2>1. Rank(a)' = Rank(a)
    BY DEF Rank
  <2> QED BY Zenon, <2>1 DEF Key
<1>3. ASSUME NEW a, NEW b PROVE Precedes(a, b, query)' <=> Precedes(a, b, query')
  BY <1>2 DEF Precedes
<1>4. ASSUME NEW a PROVE Position(a, query)' = Position(a, query')
  <2>1. {r \in Found(query)' : Precedes(r, a, query)'}
          = {r \in Found(query') : Precedes(r, a, query')}
    BY <1>1, <1>3
  <2> QED BY Zenon, <2>1 DEF Position
<1>5. NoTies' <=> \A p, r \in Range(created) :
                    p # r => Key(p, query'.sortBy) # Key(r, query'.sortBy)
  BY <1>2 DEF NoTies, Range
<1> QED BY <1>1, <1>3, <1>4, <1>5

LEMMA Ranked ==
  ASSUME NEW c, IsInjective(c), NEW n \in DOMAIN c
  PROVE  (CHOOSE m \in DOMAIN c : c[m] = c[n]) = n
BY DEF IsInjective

Changes(p) == Create(p) \/ Appear(p) \/ Vanish(p)

LEMMA CatalogueGrows ==
  ASSUME TypeOK, Catalogued, NEW p \in Products, Changes(p)
  PROVE  /\ Catalogued'
         /\ Range(created) \subseteq Range(created)'
         /\ \A n \in DOMAIN created : n \in DOMAIN created' /\ created'[n] = created[n]
<1>0. created \in Seq(Products) /\ life \in [Products -> Shop!Lives]
  BY DEF TypeOK, Shop!TypeOK
<1>1. CASE Create(p)
  <2>1. /\ created' = Append(created, p)
        /\ life[p] = "absent" /\ life' = [life EXCEPT ![p] = "pending"]
    BY <1>1 DEF Create, Shop!Add, Shop!Pass
  <2>2. p \notin Range(created)
    BY <2>1 DEF Catalogued
  <2>3. /\ DOMAIN created = 1..Len(created) /\ DOMAIN created' = 1..(Len(created) + 1)
        /\ Len(created) \in Nat
        /\ \A n \in 1..Len(created) : created'[n] = created[n]
        /\ created'[Len(created) + 1] = p
    BY <1>0, <2>1
  <2>4. \A n \in DOMAIN created : n \in DOMAIN created' /\ created'[n] = created[n]
    BY <2>3
  <2>5. Range(created)' = Range(created) \cup {p}
    <3>1. ASSUME NEW x \in Range(created)' PROVE x \in Range(created) \cup {p}
      <4>1. PICK n \in 1..(Len(created) + 1) : x = created'[n]
        BY <2>3 DEF Range
      <4>2. n \in 1..Len(created) \/ n = Len(created) + 1
        BY <2>3
      <4> QED BY <2>3, <4>1, <4>2 DEF Range
    <3>2. \A x \in Range(created) : x \in Range(created)'
      BY <2>4 DEF Range
    <3>3. p \in Range(created)'
      BY <2>3 DEF Range
    <3> QED BY <3>1, <3>2, <3>3
  <2>6. IsInjective(created)'
    <3> SUFFICES ASSUME NEW a \in DOMAIN created', NEW b \in DOMAIN created',
                        created'[a] = created'[b]
                 PROVE  a = b
      BY DEF IsInjective
    <3>1. /\ a \in 1..Len(created) \/ a = Len(created) + 1
          /\ b \in 1..Len(created) \/ b = Len(created) + 1
      BY <2>3
    <3>2. \A n \in 1..Len(created) : created[n] # p
      BY <2>2, <2>3 DEF Range
    <3> QED BY <2>3, <3>1, <3>2 DEF Catalogued, IsInjective
  <2>7. {x \in Products : life'[x] # "absent"} = {x \in Products : life[x] # "absent"} \cup {p}
    BY <1>0, <2>1
  <2>8. Catalogued'
    BY <2>5, <2>6, <2>7 DEF Catalogued
  <2> QED BY <2>4, <2>5, <2>8
<1>2. CASE Appear(p) \/ Vanish(p)
  <2>1. created' = created /\ \E to \in Shop!Lives \ {"absent"} :
          life[p] # "absent" /\ life' = [life EXCEPT ![p] = to]
    BY <1>2 DEF Appear, Vanish, Shop!Stock, Shop!Doubt, Shop!Refuse, Shop!Withdraw,
       Shop!Pass, Shop!Lives
  <2>2. {x \in Products : life'[x] # "absent"} = {x \in Products : life[x] # "absent"}
    BY <1>0, <2>1
  <2> QED BY <2>1, <2>2 DEF Catalogued, IsInjective, Range
<1> QED BY <1>1, <1>2 DEF Changes

LEMMA ShownStep ==
  ASSUME TypeOK, NEW p \in Products, Changes(p)
  PROVE  /\ at # "opened" /\ upset \subseteq upset'
         /\ UNCHANGED <<at, query, count, reply, opened, seen, first>>
         /\ Walking /\ "withdrawn" \notin upset' => Shop!Shown \subseteq Shop!Shown'
         /\ Walking /\ upset' \cap {"appeared", "withdrawn"} = {} => Shop!Shown' = Shop!Shown
         /\ at = "select" /\ upset' \cap {"slipped", "withdrawn"} = {} =>
              Shop!Shown' = Shop!Shown
<1>0. life \in [Products -> Shop!Lives] /\ (at = "select" => Walking)
  BY DEF TypeOK, Shop!TypeOK, Walking
<1>1. CASE Create(p)
  <2>1. life[p] = "absent" /\ life' = [life EXCEPT ![p] = "pending"]
    BY <1>1 DEF Create, Shop!Add, Shop!Pass
  <2>2. Shop!Shown' = Shop!Shown
    BY <1>0, <2>1 DEF Shop!Shown
  <2> QED BY <1>1, <2>2 DEF Create, walkVars
<1>2. CASE Appear(p)
  <2>1. /\ life[p] = "pending"
        /\ life' = [life EXCEPT ![p] = "visible"] \/ life' = [life EXCEPT ![p] = "doubtful"]
    BY <1>2 DEF Appear, Shop!Stock, Shop!Doubt, Shop!Pass
  <2>2. Shop!Shown \subseteq Shop!Shown'
    BY <1>0, <2>1 DEF Shop!Shown
  <2>3. /\ Walking => "appeared" \in upset'
        /\ at = "select" => "slipped" \in upset'
    BY <1>2 DEF Appear
  <2> QED BY <1>2, <2>2, <2>3 DEF Appear
<1>3. CASE Vanish(p)
  <2>1. /\ life[p] \in {"pending", "refused", "doubtful"}
        /\ life' = [life EXCEPT ![p] = "refused"] \/ life' = [life EXCEPT ![p] = "gone"]
    BY <1>3 DEF Vanish, Shop!Refuse, Shop!Withdraw, Shop!Pass
  <2>2. p \notin Shop!Shown => Shop!Shown' = Shop!Shown
    BY <1>0, <2>1 DEF Shop!Shown
  <2>3. Walking /\ p \in Shop!Shown => "withdrawn" \in upset'
    BY <1>3 DEF Vanish
  <2> QED BY <1>0, <1>3, <2>2, <2>3 DEF Vanish
<1> QED BY <1>1, <1>2, <1>3 DEF Changes

(* Products keep their keys, so a listing that grows keeps its order, and   *)
(* no product in it moves forward.                                          *)
LEMMA ListingStep ==
  ASSUME TypeOK, Catalogued, NEW p \in Products, Changes(p)
  PROVE  /\ \A a, b \in Range(created) : Precedes(a, b, query)' <=> Precedes(a, b, query)
         /\ NoTies' => NoTies
         /\ Shop!Shown \subseteq Shop!Shown' =>
              /\ Found(query) \subseteq Found(query)'
              /\ \A a \in Range(created) : Position(a, query)' >= Position(a, query)
         /\ Shop!Shown' = Shop!Shown =>
              /\ Found(query)' = Found(query)
              /\ \A a \in Range(created) : Position(a, query)' = Position(a, query)
         /\ \A a : Position(a, query)' \in Nat
<1>1. query' = query /\ query \in Queries
  BY ShownStep DEF TypeOK
<1>2. /\ IsInjective(created) /\ IsInjective(created') /\ Range(created) \subseteq Range(created)'
      /\ \A n \in DOMAIN created : n \in DOMAIN created' /\ created'[n] = created[n]
  BY CatalogueGrows DEF Catalogued, IsInjective
<1>3. ASSUME NEW a \in Range(created) PROVE Key(a, query.sortBy)' = Key(a, query.sortBy)
  <2>1. PICK n \in DOMAIN created : a = created[n]
    BY DEF Range
  <2>2. Rank(a) = n
    BY <1>2, <2>1, Ranked DEF Rank
  <2>3. n \in DOMAIN created' /\ a = created'[n]
    BY <1>2, <2>1
  <2>4. Rank(a)' = n
    BY <1>2, <2>3, Ranked DEF Rank
  <2> QED BY Zenon, <1>1, <2>2, <2>4 DEF Key
<1>4. \A a, b \in Range(created) : Precedes(a, b, query)' <=> Precedes(a, b, query)
  BY <1>1, <1>3 DEF Precedes
<1>5. NoTies' => NoTies
  BY <1>1, <1>2, <1>3 DEF NoTies
<1>6. Found(query) \subseteq Range(created)
  BY <1>1, Keys
<1>7. Found(query) \in SUBSET Products /\ Found(query)' \in SUBSET Products
  BY DEF Found, Matching, Shop!Shown
<1>8. ASSUME NEW a \in Range(created), Found(query) \subseteq Found(query)'
      PROVE  Position(a, query)' >= Position(a, query)
  <2> DEFINE S == {r \in Found(query) : Precedes(r, a, query)}
             T == {r \in Found(query)' : Precedes(r, a, query)'}
  <2>1. S \in SUBSET T
    BY <1>4, <1>6, <1>8
  <2>2. T \in SUBSET Products
    BY <1>7
  <2>3. Cardinality(S) \in 0..(Half - 1) /\ Cardinality(T) \in 0..(Half - 1)
        /\ Cardinality(S) <= Cardinality(T)
    BY Zenon, <2>1, <2>2, Sizes
  <2>4. Position(a, query) = Cardinality(S) /\ Position(a, query)' = Cardinality(T)
    BY DEF Position
  <2> HIDE DEF S, T
  <2> QED BY <2>3, <2>4
<1>9. ASSUME NEW a \in Range(created), Found(query)' = Found(query)
      PROVE  Position(a, query)' = Position(a, query)
  <2>1. {r \in Found(query) : Precedes(r, a, query)}
          = {r \in Found(query)' : Precedes(r, a, query)'}
    BY <1>4, <1>6, <1>9
  <2> QED BY Zenon, <2>1 DEF Position
<1>10. Shop!Shown \subseteq Shop!Shown' => Found(query) \subseteq Found(query)'
  BY <1>1 DEF Found, Matching
<1>11. Shop!Shown' = Shop!Shown => Found(query)' = Found(query)
  BY <1>1 DEF Found, Matching
<1>12. ASSUME NEW a PROVE Position(a, query)' \in Nat
  <2>1. {r \in Found(query)' : Precedes(r, a, query)'} \in SUBSET Products
    BY <1>7
  <2>2. Cardinality({r \in Found(query)' : Precedes(r, a, query)'}) \in 0..(Half - 1)
    BY <2>1, Sizes
  <2> QED BY <2>2 DEF Position
<1> QED BY <1>4, <1>5, <1>8, <1>9, <1>10, <1>11, <1>12

-----------------------------------------------------------------------------
(* What each step of a walk does, as far as the pages tell steps apart.     *)

Asked ==
  /\ at = "new"
  /\ at' = "count" \/ (at' = "page" /\ reply'.status # 200)
  /\ query' \in Queries /\ query'.page < 2 * Half
  /\ first' = [page |-> query'.page, shown |-> Found(query')]
  /\ UNCHANGED <<seen, upset>>

Turned ==
  /\ More /\ at' = "count"
  /\ query' = AtPage(query, StringToUint64(1, query.page + 1))
  /\ UNCHANGED <<seen, first, upset>>

Counting ==
  /\ at = "count" /\ at' = "select"
  /\ count' = Cardinality(Found(query))
  /\ UNCHANGED <<query, seen, first, upset>>

Failing ==
  /\ at \in {"count", "select"} /\ at' = "page" /\ reply'.status # 200
  /\ UNCHANGED <<query, seen, first>>

Opening ==
  /\ at = "page" /\ at' = "opened"
  /\ UNCHANGED <<query, seen, first>>

LEMMA NextNumber ==
  ASSUME NEW number \in Int
  PROVE  StringToUint64(1, number) \in Nat /\ StringToUint64(1, number) < 2 * Half
BY QueryAssumption DEF StringToUint64

LEMMA PageTurned ==
  ASSUME NEW q \in Queries, NEW n, n = StringToUint64(1, q.page + 1)
  PROVE  /\ n \in Nat /\ n < 2 * Half
         /\ AtPage(q, n) \in Queries /\ AtPage(q, n).page = n
<1>1. q.page \in Nat
  BY DEF Queries
<1>2. q.page + 1 \in Int
  BY <1>1
<1>3. n \in Nat /\ n < 2 * Half
  BY <1>2, NextNumber
<1> QED BY <1>3 DEF AtPage, Queries

LEMMA Steps ==
  ASSUME TypeOK, [Next]_vars
  PROVE  \/ \E p \in Products : Changes(p)
         \/ /\ UNCHANGED <<life, created>> /\ upset \subseteq upset'
            /\ \/ Asked \/ Turned \/ Counting \/ Failing \/ Select \/ Opening
               \/ UNCHANGED vars
<1>1. query \in Queries
  BY DEF TypeOK
<1>2. ASSUME NEW url \in URLs, Ask(url) PROVE Asked
  <2>1. url \in RawQueries
    BY ListingAssumption
  <2>2. query' \in Queries
    BY <1>2, <2>1, QueryType DEF Ask
  <2>3. query'.page < 2 * Half
    <3>1. query'.page = StringToUint64(1, url.page)
      BY <1>2 DEF Ask, GetQueryItems
    <3> QED BY <2>1, <3>1, NextNumber DEF RawQueries
  <2>4. at' = "count" \/ (at' = "page" /\ reply'.status # 200)
    <3>1. Valid(query') => at' = "count"
      BY <1>2 DEF Ask
    <3>2. ~Valid(query') => Refuse(422)
      BY <1>2, Codes DEF Ask
    <3>3. Refuse(422) => at' = "page" /\ reply'.status # 200
      BY RefuseType
    <3> QED BY <3>1, <3>2, <3>3
  <2>5. at = "new" /\ UNCHANGED <<seen, upset>>
        /\ first' = [page |-> query'.page, shown |-> Found(query')]
    BY <1>2 DEF Ask
  <2> QED BY <2>2, <2>3, <2>4, <2>5 DEF Asked
<1>3. NextPage => Turned
  BY DEF NextPage, Turned
<1>4. ASSUME Count PROVE Counting \/ (Failing /\ UNCHANGED upset)
  <2> DEFINE s == GenerateQueryAndParams(query)
  <2>1. CASE Accepts(s.where, {}, CountParams(s))
    <3>1. count' = Cardinality(Matching(s.where, CountParams(s))) /\ at' = "select"
      BY <1>4, <2>1 DEF Count
    <3>2. Matching(s.where, CountParams(s)) = Found(query)
      BY <1>1, StatementsFind
    <3> QED BY <1>4, <3>1, <3>2 DEF Count, Counting
  <2>2. CASE ~Accepts(s.where, {}, CountParams(s))
    <3>1. Refuse(500)
      BY <1>4, <2>2, Codes DEF Count
    <3> QED BY <1>4, <3>1, RefuseType DEF Count, Failing
  <2> QED BY <2>1, <2>2
<1>5. CountFails \/ SelectFails => Failing /\ upset \subseteq upset'
  BY FailureType DEF CountFails, SelectFails, Failing
<1>6. ASSUME NEW p \in Products, Open(p) PROVE Opening /\ upset \subseteq upset'
  BY <1>6 DEF Open, Opening
<1>7. Select => upset \subseteq upset'
  BY Selection
<1>8. UNCHANGED vars => upset \subseteq upset'
  BY DEF vars, walkVars
<1>9. \/ \E p \in Products : Changes(p)
      \/ /\ UNCHANGED <<life, created>>
         /\ \/ \E url \in URLs : Ask(url)
            \/ NextPage \/ Count \/ CountFails \/ Select \/ SelectFails
            \/ \E p \in Products : Open(p)
            \/ UNCHANGED vars
  BY DEF Next, Walk, Terminating, Changes, Ask, NextPage, Count, CountFails, Select,
     SelectFails, Open, vars, shopVars
<1>10. UNCHANGED vars \/ Asked \/ Turned \/ Counting => upset \subseteq upset'
  BY <1>8 DEF Asked, Turned, Counting
<1> QED BY <1>2, <1>3, <1>4, <1>5, <1>6, <1>7, <1>9, <1>10

-----------------------------------------------------------------------------
(* Each part of the invariant is kept by every step.                        *)

LEMMA NextCatalogued == ASSUME WalkInv, [Next]_vars PROVE Catalogued'
<1>1. CASE \E p \in Products : Changes(p)
  BY <1>1, CatalogueGrows DEF WalkInv
<1>2. CASE UNCHANGED <<life, created>>
  BY <1>2 DEF WalkInv, Catalogued, IsInjective, Range
<1> QED BY <1>1, <1>2, Steps DEF WalkInv

LEMMA NextCounted == ASSUME WalkInv, [Next]_vars PROVE Counted'
<1> DEFINE Held == /\ count' < Half
                   /\ "withdrawn" \notin upset' => count' <= Cardinality(Found(query)')
                   /\ upset' \cap {"slipped", "withdrawn"} = {} =>
                        count' = Cardinality(Found(query)')
<1> SUFFICES ASSUME at' = "select" PROVE Held
  BY DEF Counted
<1>1. TypeOK /\ Catalogued /\ Counted /\ count \in Nat
  BY DEF WalkInv, TypeOK
<1>2. ASSUME NEW p \in Products, Changes(p) PROVE Held
  <2>1. /\ at = "select" /\ UNCHANGED <<count, query>> /\ upset \subseteq upset'
        /\ Walking
        /\ "withdrawn" \notin upset' => Shop!Shown \subseteq Shop!Shown'
        /\ upset' \cap {"slipped", "withdrawn"} = {} => Shop!Shown' = Shop!Shown
    BY <1>1, <1>2, ShownStep DEF Walking
  <2>2. /\ "withdrawn" \notin upset' => Found(query) \subseteq Found(query)'
        /\ upset' \cap {"slipped", "withdrawn"} = {} => Found(query)' = Found(query)
    BY <1>1, <1>2, <2>1, ListingStep
  <2>3. "withdrawn" \notin upset' => count <= Cardinality(Found(query)')
    <3>1. SUFFICES ASSUME "withdrawn" \notin upset'
                   PROVE  count <= Cardinality(Found(query)')
      OBVIOUS
    <3>2. count <= Cardinality(Found(query))
      BY <1>1, <2>1, <3>1 DEF Counted
    <3>3. IsFiniteSet(Found(query)')
      <4>1. Found(query)' \subseteq Products
        BY DEF Found, Matching, Shop!Shown
      <4> QED BY <4>1, FS_Subset, ListingAssumption
    <3>4. /\ Cardinality(Found(query)) <= Cardinality(Found(query)')
          /\ Cardinality(Found(query)) \in Nat /\ Cardinality(Found(query)') \in Nat
      BY <2>2, <3>1, <3>3, FS_Subset, FS_CardinalityType
    <3> QED BY <1>1, <3>2, <3>4
  <2> QED BY <1>1, <2>1, <2>2, <2>3 DEF Counted
<1>3. CASE UNCHANGED <<life, created>> /\ Counting
  <2>1. count' = Cardinality(Found(query)')
    BY <1>3, ShopStill DEF Counting
  <2>2. count' < Half /\ count' \in Nat
    BY <1>3, FoundFinite, QueryAssumption DEF Counting
  <2> QED BY <2>1, <2>2
<1>4. CASE UNCHANGED vars
  BY <1>1, <1>4, ShopStill DEF Counted, vars, walkVars, shopVars
<1>5. CASE Asked \/ Turned \/ Failing \/ Select \/ Opening
  BY <1>1, <1>5, Selection DEF Asked, Turned, Failing, Opening
<1> QED BY <1>1, <1>2, <1>3, <1>4, <1>5, Steps

LEMMA NextKept == ASSUME WalkInv, [Next]_vars PROVE Kept'
<1>1. TypeOK /\ Catalogued /\ Kept /\ query \in Queries
  BY DEF WalkInv, TypeOK
<1>2. at' = "new" => seen' = <<>>
  <2>1. ASSUME NEW p \in Products, Changes(p) PROVE at' = "new" => seen' = <<>>
    BY <1>1, <2>1, ShownStep DEF Kept
  <2>2. CASE UNCHANGED vars
    BY <1>1, <2>2 DEF Kept, vars, walkVars
  <2>3. CASE Asked \/ Turned \/ Counting \/ Failing \/ Select \/ Opening
    BY <1>1, <2>3, Selection DEF Asked, Turned, Counting, Failing, Opening
  <2> QED BY <1>1, <2>1, <2>2, <2>3, Steps
<1>3. ASSUME Walking', "withdrawn" \notin upset'
      PROVE  first'.shown \subseteq Found(query)'
  <2>1. ASSUME NEW p \in Products, Changes(p) PROVE first'.shown \subseteq Found(query)'
    <3>1. Walking /\ UNCHANGED first /\ upset \subseteq upset' /\ Shop!Shown \subseteq Shop!Shown'
      BY <1>1, <1>3, <2>1, ShownStep DEF Walking
    <3>2. Found(query) \subseteq Found(query)'
      BY <1>1, <2>1, <3>1, ListingStep
    <3> QED BY <1>1, <1>3, <3>1, <3>2 DEF Kept
  <2>2. CASE UNCHANGED <<life, created>> /\ Asked
    BY <2>2, ShopStill DEF Asked
  <2>3. CASE UNCHANGED <<life, created>> /\ Turned
    <3>1. StringToUint64(1, query.page + 1) \in Nat
      BY <1>1, PageTurned
    <3>2. Found(query') = Found(query)
      BY <1>1, <2>3, <3>1, SameListing DEF Turned
    <3>3. Walking /\ UNCHANGED <<first, upset>>
      BY <2>3 DEF Turned, More, Walking
    <3> QED BY <1>1, <1>3, <2>3, <3>2, <3>3, ShopStill DEF Kept
  <2>4. CASE /\ UNCHANGED <<life, created>> /\ upset \subseteq upset'
             /\ Counting \/ Failing \/ Select \/ UNCHANGED vars
    <3>1. Walking /\ UNCHANGED <<first, query>>
      BY <1>1, <1>3, <2>4, Selection DEF Counting, Failing, Walking, vars, walkVars
    <3> QED BY <1>1, <1>3, <2>4, <3>1, ShopStill DEF Kept
  <2>5. CASE Opening
    BY <1>3, <2>5 DEF Opening, Walking
  <2> QED BY <1>1, <2>1, <2>2, <2>3, <2>4, <2>5, Steps
<1> QED BY <1>2, <1>3 DEF Kept

LEMMA NextSelected == ASSUME WalkInv, [Next]_vars PROVE Selected'
<1>1. TypeOK /\ Selected /\ query \in Queries
  BY DEF WalkInv, TypeOK
<1>2. ASSUME UNCHANGED query PROVE query'.page < 2 * Half
  BY <1>1, <1>2 DEF Selected
<1>3. ASSUME NEW p \in Products, Changes(p) PROVE Selected'
  <2>1. UNCHANGED <<at, query, reply>>
    BY <1>1, <1>3, ShownStep
  <2> QED BY <1>1, <2>1 DEF Selected, Offset
<1>4. CASE Asked
  BY <1>4 DEF Asked, Selected
<1>5. CASE Turned
  <2>1. query'.page < 2 * Half
    BY <1>1, <1>5, PageTurned DEF Turned
  <2> QED BY <1>5, <2>1 DEF Turned, Selected
<1>6. CASE Counting \/ Failing \/ Opening
  BY <1>2, <1>6 DEF Counting, Failing, Opening, Selected
<1>7. CASE Select
  <2>1. UNCHANGED query /\ (reply'.status # 200 \/ Taken(query))
    BY <1>1, <1>7, Selection
  <2> QED BY <1>2, <2>1 DEF Selected, Taken, Offset
<1>8. CASE UNCHANGED vars
  BY <1>1, <1>8 DEF Selected, Offset, vars, walkVars
<1> QED BY <1>1, <1>3, <1>4, <1>5, <1>6, <1>7, <1>8, Steps

(* Steps that keep the catalogue and at most turn the page.                 *)
LEMMA ListingStill ==
  ASSUME TypeOK, UNCHANGED <<life, created>>, UNCHANGED query \/ Turned
  PROVE  /\ Found(query)' = Found(query)
         /\ \A a, b : Precedes(a, b, query)' <=> Precedes(a, b, query)
         /\ \A a : Position(a, query)' = Position(a, query)
         /\ NoTies' <=> NoTies
<1>1. /\ Found(query') = Found(query) /\ query'.sortBy = query.sortBy
      /\ \A a, b : Precedes(a, b, query') <=> Precedes(a, b, query)
      /\ \A a : Position(a, query') = Position(a, query)
  <2>1. CASE UNCHANGED query
    BY Zenon, <2>1
  <2>2. CASE Turned
    <3>1. PICK n \in Nat : query' = AtPage(query, n)
      BY <2>2, PageTurned DEF Turned, TypeOK
    <3>2. query \in Queries
      BY DEF TypeOK
    <3> QED BY Zenon, <3>1, <3>2, SameListing
  <2> QED BY <2>1, <2>2
<1>2. NoTies' <=> NoTies
  BY <1>1, ShopStill DEF NoTies
<1> QED BY <1>1, <1>2, ShopStill

(* Where the rows that a selection answers stand in the listing.            *)
LEMMA Placed ==
  ASSUME TypeOK, Catalogued, NoTies, Taken(query), NEW s,
         s.sortBy = query.sortBy, s.sortOpt = query.sortOpt,
         NEW r \in Ordered(Found(query), s), NEW rows, Listed(rows, r)
  PROVE  /\ rows \in Seq(Found(query)) /\ Len(r) = Cardinality(Found(query))
         /\ \A k \in 1..Len(rows) :
              Position(rows[k], query) = Offset(query) + k - 1 /\ k <= query.limit
         /\ \A p \in Found(query) :
              /\ Position(p, query) < Len(r)
              /\ Whole(rows, r) /\ Position(p, query) >= Offset(query)
                   /\ Position(p, query) < Offset(query) + query.limit
                   => p \in Range(rows)
         /\ \A a, b \in Found(query) :
              Position(a, query) < Position(b, query) => Precedes(a, b, query)
<1> DEFINE n   == Cardinality(Found(query))
           off == Offset(query)
           l   == query.limit
<1>1. /\ r \in Seq(Found(query)) /\ Len(r) = n /\ Range(r) = Found(query)
      /\ \A i, j \in 1..n : i < j => Precedes(r[i], r[j], query)
      /\ \A i \in 1..n : Position(r[i], query) = i - 1
  BY Sorted
<1>2. /\ rows \in Seq(Found(query))
      /\ \A k \in 1..Len(rows) : k <= l /\ off + k \in 1..n /\ rows[k] = r[off + k]
  BY <1>1 DEF Listed
<1>3. off \in Nat /\ l \in Nat /\ n \in Nat
  <2>1. query \in Queries
    BY DEF TypeOK
  <2> QED BY <2>1, OffsetEnds, FoundFinite DEF Taken
<1> HIDE DEF n, off, l
<1>4. ASSUME NEW k \in 1..Len(rows) PROVE Position(rows[k], query) = off + k - 1 /\ k <= l
  <2>1. PICK i \in 1..n : i = off + k
    BY <1>2
  <2>2. rows[k] = r[i] /\ k <= l
    BY <1>2, <2>1
  <2>3. Position(r[i], query) = i - 1
    BY <1>1
  <2>4. Position(rows[k], query) = i - 1
    BY Zenon, <2>2, <2>3
  <2> QED BY <1>3, <2>1, <2>2, <2>4
<1>5. \A p \in Found(query) : \E i \in 1..n : p = r[i] /\ Position(p, query) = i - 1
  BY <1>1 DEF Range
<1>6. ASSUME NEW p \in Found(query)
      PROVE  /\ Position(p, query) < n
             /\ Whole(rows, r) /\ Position(p, query) >= off
                  /\ Position(p, query) < off + l
                  => p \in Range(rows)
  <2>1. PICK i \in 1..n : p = r[i] /\ Position(p, query) = i - 1
    BY <1>5
  <2>2. ASSUME Whole(rows, r), i - 1 >= off, i - 1 < off + l PROVE p \in Range(rows)
    <3>1. PICK k \in Int : k = i - off
      BY <1>3
    <3>2. Len(rows) = IF off + l < n THEN l ELSE IF off < n THEN n - off ELSE 0
      BY <1>1, <2>2 DEF Whole, off, l
    <3>3. k \in 1..Len(rows)
      BY <1>3, <2>2, <3>1, <3>2
    <3>4. rows[k] = p
      BY <1>2, <1>3, <2>1, <3>1, <3>3
    <3> QED BY <1>2, <3>3, <3>4 DEF Range
  <2> QED BY <1>3, <2>1, <2>2
<1>7. ASSUME NEW a \in Found(query), NEW b \in Found(query),
             Position(a, query) < Position(b, query)
      PROVE  Precedes(a, b, query)
  <2>1. PICK i \in 1..n : a = r[i] /\ Position(a, query) = i - 1
    BY <1>5
  <2>2. PICK j \in 1..n : b = r[j] /\ Position(b, query) = j - 1
    BY <1>5
  <2>3. i < j
    BY <1>7, <2>1, <2>2
  <2> QED BY <1>1, <2>1, <2>2, <2>3
<1> QED BY <1>1, <1>2, <1>4, <1>6, <1>7 DEF n, off, l

LEMMA RangeJoined ==
  ASSUME NEW S, NEW a \in Seq(S), NEW b \in Seq(S)
  PROVE  Range(a) \subseteq Range(a \o b) /\ Range(b) \subseteq Range(a \o b)
<1>1. \A n \in 1..Len(a) : n \in 1..Len(a \o b)
  BY Concatenated
<1>2. \A n \in 1..Len(b) : Len(a) + n \in 1..Len(a \o b)
  BY Concatenated
<1>3. DOMAIN a = 1..Len(a) /\ DOMAIN b = 1..Len(b) /\ DOMAIN (a \o b) = 1..Len(a \o b)
  BY Concatenated
<1>4. Range(a) \subseteq Range(a \o b)
  <2>1. \A n \in 1..Len(a) : (a \o b)[n] = a[n]
    BY Concatenated
  <2> QED BY <1>1, <1>3, <2>1 DEF Range
<1>5. Range(b) \subseteq Range(a \o b)
  <2>1. \A n \in 1..Len(b) : (a \o b)[Len(a) + n] = b[n]
    BY Concatenated
  <2> QED BY <1>2, <1>3, <2>1 DEF Range
<1> QED BY <1>4, <1>5

(* Where a product that was there at the start is.                          *)
Ahead(p) ==
  \/ p \in Range(seen)
  \/ at \in {"count", "select"} /\ Position(p, query) >= Offset(query)
  \/ /\ at = "page"
     /\ reply.status = 200 => Position(p, query) >= Offset(query) + query.limit
  \/ at = "opened"

LEMMA NextCovered == ASSUME WalkInv, [Next]_vars PROVE Covered'
<1> SUFFICES ASSUME first'.page = 1, NoTies', upset' \subseteq {"appeared"},
                    NEW p \in first'.shown
             PROVE  Ahead(p)'
  BY DEF Covered, Ahead
<1>1. /\ TypeOK /\ Catalogued /\ Counted /\ Kept /\ Selected /\ query \in Queries
      /\ seen \in Seq(Products)
  BY DEF WalkInv, TypeOK
<1>2. ASSUME UNCHANGED first, upset \subseteq upset', NoTies PROVE Ahead(p)
  BY <1>2 DEF WalkInv, Covered, Ahead
<1>3. ASSUME NEW q \in Products, Changes(q) PROVE Ahead(p)'
  <2>1. /\ UNCHANGED <<at, query, reply, seen, first>> /\ upset \subseteq upset'
        /\ at # "opened" /\ (Walking => Shop!Shown \subseteq Shop!Shown')
    BY <1>1, <1>3, ShownStep
  <2>2. NoTies /\ Position(p, query)' \in Nat /\ Position(p, query) \in Nat
    BY <1>1, <1>3, ListingStep, FoundFinite
  <2>3. Walking => Position(p, query)' >= Position(p, query)
    <3>1. Walking => p \in Range(created)
      BY <1>1, <2>1, Keys DEF Kept
    <3> QED BY <1>1, <1>3, <2>1, <3>1, ListingStep
  <2>4. Ahead(p)
    BY <1>2, <2>1, <2>2
  <2>5. /\ Offset(query) \in Nat
        /\ at = "page" /\ reply.status = 200 => Offset(query) + query.limit \in Nat
    <3>1. Offset(query) \in Nat /\ query.limit \in Nat
      BY <1>1, QueryAssumption DEF Offset, UInt64, Queries
    <3> QED BY <3>1
  <2>6. /\ Range(seen)' = Range(seen) /\ Offset(query') = Offset(query)
        /\ query'.limit = query.limit /\ at' = at /\ reply' = reply
    BY <2>1 DEF Range
  <2> QED BY <2>2, <2>3, <2>4, <2>5, <2>6 DEF Ahead, Walking
<1>4. CASE UNCHANGED <<life, created>> /\ Asked
  <2>1. query'.page = 1 /\ query' \in Queries
    BY <1>4 DEF Asked
  <2>2. Offset(query') = 0
    <3>1. (query'.page - 1) * query'.limit = 0
      BY <2>1 DEF Queries
    <3>2. UInt64(0) = 0
      BY QueryAssumption, Conversions
    <3> QED BY Zenon, <3>1, <3>2 DEF Offset
  <2>3. Position(p, query)' = Position(p, query') /\ Position(p, query') \in Nat
    BY <1>4, ShopStill, FoundFinite
  <2> QED BY <1>4, <2>2, <2>3 DEF Asked, Ahead
<1>5. CASE UNCHANGED <<life, created>> /\ Turned
  <2>1. NoTies /\ Position(p, query)' = Position(p, query)
    BY <1>1, <1>5, ListingStill
  <2>2. Ahead(p)
    BY <1>2, <1>5, <2>1 DEF Turned
  <2>3. /\ Taken(query) /\ query.page < 2 * Half
        /\ at = "page" /\ reply.status = 200 /\ at' = "count"
    BY <1>1, <1>5 DEF Turned, More, Selected, Taken
  <2>4. Offset(query') \in Nat /\ Offset(query') <= Offset(query) + query.limit
    BY <1>1, <1>5, <2>3, NextOffset DEF Turned
  <2>5. Position(p, query) \in Nat /\ Offset(query) \in Nat /\ query.limit \in Nat
    <3>1. Position(p, query) \in Nat
      BY FoundFinite
    <3>2. Offset(query) \in Nat
      BY <1>1, <2>3, OffsetEnds
    <3> QED BY <1>1, <3>1, <3>2 DEF Queries
  <2>6. Range(seen)' = Range(seen)
    BY <1>5 DEF Turned, Range
  <2>7. p \notin Range(seen) => Position(p, query) >= Offset(query) + query.limit
    BY <2>2, <2>3 DEF Ahead
  <2> QED BY <2>1, <2>3, <2>4, <2>5, <2>6, <2>7 DEF Ahead
<1>6. CASE UNCHANGED <<life, created>> /\ Counting
  <2>1. NoTies /\ Position(p, query)' = Position(p, query)
    BY <1>1, <1>6, ListingStill DEF Counting
  <2>2. Ahead(p)
    BY <1>2, <1>6, <2>1 DEF Counting
  <2>3. Range(seen)' = Range(seen) /\ Offset(query') = Offset(query)
    BY <1>6 DEF Counting, Range
  <2> QED BY <1>6, <2>1, <2>2, <2>3 DEF Counting, Ahead
<1>7. CASE Failing \/ Opening
  BY <1>7 DEF Failing, Opening, Ahead
<1>8. CASE Select
  <2>1. /\ at = "select" /\ at' = "page" /\ UNCHANGED <<life, created, query, first>>
        /\ upset \subseteq upset'
    BY <1>1, <1>8, Selection
  <2>2. CASE reply'.status # 200
    BY <2>1, <2>2 DEF Ahead
  <2>3. ASSUME Taken(query), NEW s, s.sortBy = query.sortBy, s.sortOpt = query.sortOpt,
               NEW r \in Ordered(Found(query), s), NEW rows, Answers(rows, r)
        PROVE  Ahead(p)'
    <3>1. NoTies /\ Position(p, query)' = Position(p, query)
      BY <1>1, <2>1, ListingStill
    <3>2. Ahead(p)
      BY <1>2, <2>1, <3>1
    <3>3. p \in Found(query)
      BY <1>1, <2>1 DEF Kept, Walking
    <3>4. Whole(rows, r) /\ Listed(rows, r) /\ seen' = seen \o rows
      BY <2>3 DEF Answers
    <3>5. /\ rows \in Seq(Found(query))
          /\ Position(p, query) >= Offset(query)
               /\ Position(p, query) < Offset(query) + query.limit
               => p \in Range(rows)
      BY <1>1, <2>3, <3>1, <3>3, <3>4, Placed
    <3>6. Range(seen) \subseteq Range(seen') /\ Range(rows) \subseteq Range(seen')
      <4>1. rows \in Seq(Products)
        BY <3>5, FoundFinite, SubSeqType
      <4> QED BY <1>1, <3>4, <4>1, RangeJoined
    <3>7. Position(p, query) \in Nat /\ Offset(query) \in Nat /\ query.limit \in Nat
      BY <1>1, <2>3, FoundFinite, OffsetEnds DEF Taken
    <3>8. p \in Range(seen') \/ Position(p, query) >= Offset(query) + query.limit
      BY <2>1, <3>2, <3>5, <3>6, <3>7 DEF Ahead
    <3>9. /\ Range(seen)' = Range(seen') /\ Offset(query') = Offset(query)
          /\ query'.limit = query.limit
      BY <2>1 DEF Range
    <3> QED BY <2>1, <3>1, <3>8, <3>9 DEF Ahead
  <2> QED BY <1>1, <1>8, <2>2, <2>3, Selection
<1>9. CASE UNCHANGED vars
  <2>1. UNCHANGED <<life, created, query, at, reply, seen, first, upset>>
    BY <1>9 DEF vars, shopVars, walkVars
  <2>2. NoTies /\ Position(p, query)' = Position(p, query)
    BY <1>1, <2>1, ListingStill
  <2>3. Range(seen)' = Range(seen) /\ Offset(query') = Offset(query) /\ query'.limit = query.limit
    BY <2>1 DEF Range
  <2>4. Ahead(p)
    BY <1>2, <2>1, <2>2
  <2> QED BY <2>1, <2>2, <2>3, <2>4 DEF Ahead
<1> QED BY <1>1, <1>3, <1>4, <1>5, <1>6, <1>7, <1>8, <1>9, Steps

(* What has been seen stands before the end of a page, itself within the    *)
(* listing.                                                                 *)
Passed(end) ==
  /\ end < Cardinality(Found(query))
  /\ \A p \in Range(seen) : Position(p, query) < end

InOrder == \A i, j \in DOMAIN seen : i < j => Precedes(seen[i], seen[j], query)

Stands ==
  /\ InOrder
  /\ Walking => Range(seen) \subseteq Found(query)
  /\ at \in {"count", "select"} /\ seen # <<>> => Passed(Offset(query))
  /\ More /\ seen # <<>> => Passed(Offset(query) + query.limit)

LEMMA StandsInStep == InStep <=> (NoTies /\ upset \subseteq {"cut", "failed"} => Stands)
BY Zenon DEF InStep, Stands, InOrder, Passed

(* Rows that follow what has been seen are in order with it.                *)
LEMMA OrderContinued ==
  ASSUME TypeOK, NEW off \in Nat, NEW rows \in Seq(Found(query)),
         InOrder, Range(seen) \subseteq Found(query),
         \A p \in Range(seen) : Position(p, query) < off,
         \A k \in 1..Len(rows) : Position(rows[k], query) = off + k - 1,
         \A a, b \in Found(query) :
           Position(a, query) < Position(b, query) => Precedes(a, b, query),
         NEW i \in DOMAIN (seen \o rows), NEW j \in DOMAIN (seen \o rows), i < j
  PROVE  Precedes((seen \o rows)[i], (seen \o rows)[j], query)
<1> DEFINE m == Len(seen)
           all == seen \o rows
<1>1. seen \in Seq(Products) /\ m \in Nat /\ DOMAIN seen = 1..m
      /\ Len(rows) \in Nat /\ rows \in Seq(Products)
  BY FoundFinite, SubSeqType DEF TypeOK
<1>2. /\ DOMAIN all = 1..(m + Len(rows))
      /\ \A n \in 1..m : all[n] = seen[n]
      /\ \A n \in 1..Len(rows) : all[m + n] = rows[n]
  BY <1>1, Concatenated
<1> HIDE DEF m, all
<1>3. \A n \in 1..m : seen[n] \in Range(seen)
  BY <1>1 DEF Range
<1>4. \A n \in 1..Len(rows) : rows[n] \in Found(query)
  OBVIOUS
<1>5. CASE j \in 1..m
  <2>1. i \in 1..m
    BY <1>1, <1>2, <1>5 DEF all
  <2> QED BY <1>1, <1>2, <1>5, <2>1 DEF InOrder, all
<1>6. ASSUME j \notin 1..m PROVE Precedes(all[i], all[j], query)
  <2>1. PICK k \in 1..Len(rows) : j = m + k
    <3>1. j - m \in 1..Len(rows) /\ j = m + (j - m)
      BY <1>1, <1>2, <1>6 DEF all
    <3> QED BY <3>1
  <2>2. all[j] \in Found(query) /\ Position(all[j], query) = off + k - 1
    <3>1. all[j] = rows[k]
      BY Zenon, <1>2, <2>1
    <3> QED BY Zenon, <1>4, <3>1
  <2>3. CASE i \in 1..m
    <3>1. all[i] \in Found(query) /\ Position(all[i], query) < off
      <4>1. all[i] = seen[i] /\ seen[i] \in Range(seen)
        BY <1>2, <1>3, <2>3
      <4> QED BY <4>1
    <3>2. Position(all[i], query) \in Nat
      BY FoundFinite
    <3>3. Position(all[i], query) < Position(all[j], query)
      BY <2>2, <3>1, <3>2
    <3> QED BY <2>2, <3>1, <3>3
  <2>4. CASE i \notin 1..m
    <3>1. PICK h \in 1..Len(rows) : i = m + h
      <4>1. i - m \in 1..Len(rows) /\ i = m + (i - m)
        BY <1>1, <1>2, <2>4 DEF all
      <4> QED BY <4>1
    <3>2. all[i] \in Found(query) /\ Position(all[i], query) = off + h - 1
      <4>1. all[i] = rows[h]
        BY Zenon, <1>2, <3>1
      <4> QED BY Zenon, <1>4, <4>1
    <3>3. h < k
      BY <1>1, <2>1, <3>1
    <3>4. Position(all[i], query) < Position(all[j], query)
      BY <2>2, <3>2, <3>3
    <3> QED BY <2>2, <3>2, <3>4
  <2> QED BY <2>3, <2>4
<1> QED BY <1>5, <1>6 DEF all

LEMMA NextInStep == ASSUME WalkInv, [Next]_vars PROVE InStep'
<1> SUFFICES ASSUME NoTies', upset' \subseteq {"cut", "failed"}
             PROVE  Stands'
  BY DEF InStep, Stands, InOrder, Passed
<1>1. /\ TypeOK /\ Catalogued /\ Counted /\ Kept /\ Selected /\ query \in Queries
      /\ seen \in Seq(Products)
  BY DEF WalkInv, TypeOK
<1>2. ASSUME NoTies, upset \subseteq upset' PROVE Stands
  BY <1>2, StandsInStep DEF WalkInv
<1>3. ASSUME seen' = <<>> PROVE Stands'
  BY <1>3 DEF Stands, InOrder, Range
<1>4. ASSUME UNCHANGED <<seen, life, created>>, UNCHANGED query \/ Turned, upset \subseteq upset'
      PROVE  /\ Stands /\ InOrder' /\ Range(seen)' = Range(seen)
             /\ Found(query)' = Found(query) /\ \A p : Position(p, query)' = Position(p, query)
  <2>1. /\ NoTies /\ Found(query)' = Found(query)
        /\ \A a, b : Precedes(a, b, query)' <=> Precedes(a, b, query)
        /\ \A p : Position(p, query)' = Position(p, query)
    BY <1>1, <1>4, ListingStill
  <2>2. Stands
    BY <1>2, <1>4, <2>1
  <2>3. InOrder'
    BY <1>4, <2>1, <2>2 DEF Stands, InOrder
  <2> QED BY <1>4, <2>1, <2>2, <2>3 DEF Range
<1>5. ASSUME NEW q \in Products, Changes(q) PROVE Stands'
  <2>1. UNCHANGED <<at, query, reply, seen>> /\ at # "opened" /\ upset \subseteq upset'
    BY <1>1, <1>5, ShownStep
  <2>2. CASE at = "new"
    BY <1>1, <1>3, <2>1, <2>2 DEF Kept
  <2>3. CASE Walking
    <3>1. Shop!Shown' = Shop!Shown
      BY <1>1, <1>5, <2>3, ShownStep
    <3>2. /\ NoTies /\ Found(query)' = Found(query)
          /\ \A a, b \in Range(created) : Precedes(a, b, query)' <=> Precedes(a, b, query)
          /\ \A a \in Range(created) : Position(a, query)' = Position(a, query)
      BY <1>1, <1>5, <3>1, ListingStep
    <3>3. Stands /\ Range(seen) \subseteq Found(query)
      BY <1>2, <2>1, <2>3, <3>2 DEF Stands
    <3>4. \A p \in Range(seen) : p \in Range(created)
      BY <1>1, <3>3, Keys
    <3>5. Range(seen)' = Range(seen) /\ \A i \in DOMAIN seen : seen[i] \in Range(created)
      BY <2>1, <3>4 DEF Range
    <3>6. InOrder'
      BY <2>1, <3>2, <3>3, <3>5 DEF Stands, InOrder
    <3>7. /\ Offset(query') = Offset(query) /\ query'.limit = query.limit
          /\ More' <=> More
      BY <2>1 DEF More
    <3>8. ASSUME NEW end, Passed(end) PROVE Passed(end)'
      BY <3>2, <3>4, <3>5, <3>8 DEF Passed
    <3> QED BY <2>1, <2>3, <3>2, <3>3, <3>5, <3>6, <3>7, <3>8 DEF Stands, Walking
  <2> QED BY <1>1, <2>1, <2>2, <2>3 DEF TypeOK, Walking
<1>6. CASE Asked
  BY <1>1, <1>3, <1>6 DEF Asked, Kept
<1>7. CASE UNCHANGED <<life, created>> /\ Turned
  <2>1. /\ Stands /\ InOrder' /\ Range(seen)' = Range(seen) /\ Found(query)' = Found(query)
        /\ \A p : Position(p, query)' = Position(p, query)
    BY <1>4, <1>7 DEF Turned
  <2>2. /\ Taken(query) /\ query.page < 2 * Half
        /\ More /\ at = "page" /\ at' = "count" /\ UNCHANGED seen
    BY <1>1, <1>7 DEF Turned, More, Selected, Taken
  <2>3. ASSUME seen # <<>> PROVE Passed(Offset(query))'
    <3>1. Passed(Offset(query) + query.limit)
      BY <2>1, <2>2, <2>3 DEF Stands
    <3>2. Cardinality(Found(query)) \in 0..(Half - 1) /\ Half \in Nat
      BY FoundFinite, QueryAssumption
    <3>3. Offset(query) \in Nat /\ query.limit \in Nat
      BY <1>1, <2>2, OffsetEnds DEF Queries
    <3>4. Offset(query) + query.limit < Half
      BY <3>1, <3>2, <3>3 DEF Passed
    <3>5. Offset(query') = Offset(query) + query.limit
      BY <1>1, <1>7, <2>2, <3>4, NextOffset DEF Turned
    <3> QED BY Zenon, <2>1, <3>1, <3>5 DEF Passed
  <2>4. Range(seen') \subseteq Found(query)'
    BY <2>1, <2>2 DEF Stands, Walking, Range
  <2> QED BY <2>1, <2>2, <2>3, <2>4 DEF Stands, More, Range
<1>8. CASE UNCHANGED <<life, created>> /\ Counting
  <2>1. /\ Stands /\ InOrder' /\ Range(seen)' = Range(seen) /\ Found(query)' = Found(query)
        /\ \A p : Position(p, query)' = Position(p, query)
    BY <1>4, <1>8 DEF Counting
  <2>2. at = "count" /\ at' = "select" /\ UNCHANGED <<query, seen>>
    BY <1>8 DEF Counting
  <2>3. seen # <<>> => Passed(Offset(query))'
    BY <2>1, <2>2 DEF Stands, Passed
  <2> QED BY <2>1, <2>2, <2>3 DEF Stands, More, Walking
<1>9. CASE UNCHANGED <<life, created>> /\ upset \subseteq upset' /\ Failing
  <2>1. /\ Stands /\ InOrder' /\ Range(seen)' = Range(seen) /\ Found(query)' = Found(query)
    BY <1>4, <1>9 DEF Failing
  <2>2. Walking /\ at' = "page" /\ reply'.status # 200
    BY <1>9 DEF Failing, Walking
  <2> QED BY <2>1, <2>2 DEF Stands, More
<1>10. CASE UNCHANGED <<life, created>> /\ upset \subseteq upset' /\ Opening
  <2>1. InOrder' /\ at' = "opened"
    BY <1>4, <1>10 DEF Opening
  <2> QED BY <2>1 DEF Stands, More, Walking
<1>11. CASE UNCHANGED vars
  <2>1. UNCHANGED <<life, created, query, at, reply, seen, upset>>
    BY <1>11 DEF vars, shopVars, walkVars
  <2>2. /\ Stands /\ InOrder' /\ Range(seen)' = Range(seen) /\ Found(query)' = Found(query)
        /\ \A p : Position(p, query)' = Position(p, query)
    BY <1>4, <2>1
  <2>3. /\ Offset(query') = Offset(query) /\ query'.limit = query.limit
        /\ (More' <=> More) /\ (Walking' <=> Walking)
    BY <2>1 DEF More, Walking
  <2>4. ASSUME NEW end, Passed(end) PROVE Passed(end)'
    BY <2>2, <2>4 DEF Passed
  <2> QED BY <2>1, <2>2, <2>3, <2>4 DEF Stands
<1>12. CASE Select
  <2>1. /\ at = "select" /\ at' = "page" /\ UNCHANGED <<life, created, query>>
        /\ upset \subseteq upset'
    BY <1>1, <1>12, Selection
  <2>2. CASE reply'.status # 200 /\ UNCHANGED seen
    <3>1. /\ Stands /\ InOrder' /\ Range(seen)' = Range(seen) /\ Found(query)' = Found(query)
      BY <1>4, <2>1, <2>2
    <3> QED BY <2>1, <2>2, <3>1 DEF Stands, More, Walking
  <2>3. ASSUME Taken(query), NEW s, s.sortBy = query.sortBy, s.sortOpt = query.sortOpt,
               NEW r \in Ordered(Found(query), s), NEW rows, Answers(rows, r)
        PROVE  Stands'
    <3> DEFINE n   == Cardinality(Found(query))
               off == Offset(query)
               l   == query.limit
    <3>1. /\ NoTies /\ Found(query)' = Found(query)
          /\ \A a, b : Precedes(a, b, query)' <=> Precedes(a, b, query)
          /\ \A p : Position(p, query)' = Position(p, query)
      BY <1>1, <2>1, ListingStill
    <3>2. Stands
      BY <1>2, <2>1, <3>1
    <3>3. /\ Range(seen) \subseteq Found(query)
          /\ InOrder /\ (seen # <<>> => Passed(off))
      BY <2>1, <3>2 DEF Stands, Walking
    <3>4. Listed(rows, r) /\ seen' = seen \o rows /\ reply' = Respond(query, count, rows)
      BY <2>3 DEF Answers
    <3>5. /\ rows \in Seq(Found(query)) /\ Len(r) = n
          /\ \A k \in 1..Len(rows) : Position(rows[k], query) = off + k - 1 /\ k <= l
          /\ \A p \in Found(query) : Position(p, query) < Len(r)
          /\ \A a, b \in Found(query) :
               Position(a, query) < Position(b, query) => Precedes(a, b, query)
      BY <1>1, <2>3, <3>1, <3>4, Placed
    <3>6. off \in Nat /\ l \in Nat \ {0} /\ n \in 0..(Half - 1)
      <4>1. off \in Nat
        BY <1>1, <2>3, OffsetEnds
      <4>2. l \in Nat \ {0}
        BY <2>3 DEF Taken
      <4> QED BY <4>1, <4>2, FoundFinite
    <3>7. \A p \in Range(seen) : Position(p, query) < off
      <4>1. seen = <<>> => Range(seen) = {}
        BY DEF Range
      <4> QED BY <3>3, <4>1 DEF Passed
    <3>8. InOrder'
      <4>1. \A i, j \in DOMAIN (seen \o rows) : i < j =>
              Precedes((seen \o rows)[i], (seen \o rows)[j], query)
        BY <1>1, <3>3, <3>5, <3>6, <3>7, OrderContinued
      <4> QED BY Zenon, <3>1, <3>4, <4>1 DEF InOrder
    <3>9. Range(seen)' \subseteq Found(query)
      <4>1. rows \in Seq(Products) /\ Range(rows) \subseteq Found(query)
        BY <3>5, FoundFinite, SubSeqType DEF Range
      <4>2. Range(seen \o rows) \subseteq Found(query)
        BY <1>1, <3>3, <4>1, RangeConcatenated
      <4> QED BY <3>4, <4>2 DEF Range
    <3>10. ASSUME More', seen' # <<>> PROVE Passed(Offset(query) + query.limit)'
      <4>1. count = n
        BY <1>1, <2>1 DEF Counted
      <4>2. off + l < n \/ n < off
        <5>1. reply'.pagesLeftCount > 0
          BY <3>10 DEF More
        <5>2. reply' = Respond(query, n, rows)
          BY Zenon, <3>4, <4>1
        <5> HIDE DEF n, off, l
        <5> QED BY <1>1, <2>3, <3>6, <5>1, <5>2, AnswerCounts DEF off, l
      <4>3. off < n
        <5>1. CASE seen # <<>>
          BY <3>3, <5>1 DEF Passed
        <5>2. CASE seen = <<>>
          <6>1. rows # <<>>
            BY <3>4, <3>5, <3>10, <5>2
          <6>2. 1 \in 1..Len(rows) /\ rows[1] \in Found(query)
            BY <3>5, <6>1
          <6>3. Position(rows[1], query) = off + 1 - 1 /\ Position(rows[1], query) < n
            BY <3>5, <6>2
          <6> QED BY <3>6, <6>3
        <5> QED BY <5>1, <5>2
      <4>4. off + l < n
        BY <3>6, <4>2, <4>3
      <4>5. \A p \in Range(rows) : Position(p, query) < off + l
        <5>1. \A k \in 1..Len(rows) : Position(rows[k], query) < off + l
          BY <3>5, <3>6
        <5> QED BY <3>5, <5>1 DEF Range
      <4>6. \A p \in Range(seen) : Position(p, query) < off + l
        <5>1. \A p : Position(p, query) \in Nat
          BY FoundFinite
        <5> QED BY <3>6, <3>7, <5>1
      <4>7. Range(seen)' \subseteq Range(seen) \cup Range(rows)
        <5>1. PICK T : T = Range(seen) \cup Range(rows)
          OBVIOUS
        <5>2. rows \in Seq(Products) /\ Range(seen) \subseteq T /\ Range(rows) \subseteq T
          BY <3>5, <5>1, FoundFinite, SubSeqType
        <5>3. Range(seen \o rows) \subseteq T
          BY <1>1, <5>2, RangeConcatenated
        <5> QED BY <3>4, <5>1, <5>3 DEF Range
      <4>8. Offset(query') = off /\ query'.limit = l
        BY <2>1
      <4> QED BY <3>1, <4>4, <4>5, <4>6, <4>7, <4>8 DEF Passed
    <3> QED BY <2>1, <3>1, <3>8, <3>9, <3>10 DEF Stands
  <2> QED BY <1>1, <1>12, <2>2, <2>3, Selection
<1> QED BY <1>1, <1>5, <1>6, <1>7, <1>8, <1>9, <1>10, <1>11, <1>12, Steps

LEMMA InitWalkInv == Init => WalkInv
<1> SUFFICES ASSUME Init PROVE WalkInv
  OBVIOUS
<1>1. created = <<>> /\ seen = <<>> /\ at = "new" /\ first.shown = {} /\ query.page = 1
  BY DEF Init
<1>2. Catalogued
  <2>1. {p \in Products : life[p] # "absent"} = {}
    BY DEF Init, Shop!Init
  <2> QED BY <1>1, <2>1 DEF Catalogued, IsInjective, Range
<1>3. Counted /\ Kept /\ Covered /\ InStep
  BY <1>1 DEF Counted, Kept, Covered, InStep, Walking, More
<1>4. Selected
  BY <1>1, QueryAssumption DEF Selected
<1> QED BY <1>2, <1>3, <1>4, InitType DEF WalkInv

LEMMA StepWalkInv == WalkInv /\ [Next]_vars => WalkInv'
<1>1. WalkInv /\ [Next]_vars => TypeOK'
  BY StepType DEF WalkInv
<1> QED BY <1>1, NextCatalogued, NextCounted, NextKept, NextSelected, NextCovered, NextInStep
        DEF WalkInv

(* The products, the pages and the count keep to each other, through every  *)
(* change of the catalogue.                                                 *)
THEOREM WalkInvAlways == Spec => []WalkInv
BY InitWalkInv, StepWalkInv, PTL DEF Spec

(* A customer whom nothing upsets reads on in the order asked for.          *)
THEOREM ReadInOrder == Spec => []PagesInOrder
<1>1. WalkInv => PagesInOrder
  BY DEF WalkInv, InStep, PagesInOrder
<1> QED BY <1>1, WalkInvAlways, PTL

LEMMA StepPagesCover == WalkInv /\ PagesCover /\ [Next]_vars => PagesCover'
<1> SUFFICES ASSUME WalkInv, PagesCover, [Next]_vars,
                    at' = "page", reply'.status = 200, ~More',
                    first'.page = 1, NoTies', upset' \subseteq {"appeared"}
             PROVE  first'.shown \subseteq Range(seen)'
  BY DEF PagesCover
<1>1. TypeOK /\ Catalogued /\ Counted /\ Kept /\ query \in Queries /\ Covered'
  BY NextCovered DEF WalkInv, TypeOK
<1>2. ASSUME NEW p \in Products, Changes(p) PROVE first'.shown \subseteq Range(seen)'
  <2>1. UNCHANGED <<at, reply, first, seen>> /\ upset \subseteq upset'
    BY <1>1, <1>2, ShownStep
  <2>2. NoTies /\ ~More
    BY <1>1, <1>2, <2>1, ListingStep DEF More
  <2> QED BY <2>1, <2>2 DEF PagesCover, Range
<1>3. CASE UNCHANGED vars
  <2>1. UNCHANGED <<at, reply, first, seen, upset, life, created, query>>
    BY <1>3 DEF vars, shopVars, walkVars
  <2>2. NoTies /\ ~More
    BY <1>1, <2>1, ListingStill DEF More
  <2> QED BY <2>1, <2>2 DEF PagesCover, Range
<1>4. CASE Asked \/ Turned \/ Counting \/ Failing \/ Opening
  BY <1>4 DEF Asked, Turned, Counting, Failing, Opening
<1>5. CASE Select
  <2>1. /\ at = "select" /\ UNCHANGED <<life, created, query, first, count>>
        /\ upset \subseteq upset'
    BY <1>1, <1>5, Selection
  <2>2. ASSUME Taken(query), NEW s, s.sortBy = query.sortBy, s.sortOpt = query.sortOpt,
               NEW r \in Ordered(Found(query), s), NEW rows, Answers(rows, r),
               NEW p \in first'.shown
        PROVE  p \in Range(seen)'
    <3> DEFINE n == Cardinality(Found(query))
    <3>1. NoTies /\ Position(p, query)' = Position(p, query)
      BY <1>1, <2>1, ListingStill
    <3>2. p \in Found(query)
      BY <1>1, <2>1 DEF Kept, Walking
    <3>3. Listed(rows, r) /\ reply' = Respond(query, count, rows)
      BY <2>2 DEF Answers
    <3>4. Position(p, query) < n
      BY <1>1, <2>2, <3>1, <3>2, <3>3, Placed
    <3>5. reply' = Respond(query, n, rows) /\ ~(reply'.pagesLeftCount > 0)
      <4>1. count = n
        BY <1>1, <2>1 DEF Counted
      <4> QED BY <3>3, <4>1 DEF More
    <3>6. n \in 0..(Half - 1) /\ Position(p, query) \in Nat
      BY FoundFinite
    <3> HIDE DEF n
    <3>7. n <= Offset(query) + query.limit
      BY <1>1, <2>2, <3>5, <3>6, AnswerCounts
    <3>8. Offset(query) \in Nat /\ query.limit \in Nat
      BY <1>1, <2>2, OffsetEnds DEF Queries
    <3>9. ~(Position(p, query) >= Offset(query) + query.limit)
      BY <3>4, <3>6, <3>7, <3>8
    <3>10. Ahead(p)'
      BY <1>1 DEF Covered, Ahead
    <3>11. Offset(query') = Offset(query) /\ query'.limit = query.limit
      BY <2>1
    <3> QED BY <3>1, <3>9, <3>10, <3>11 DEF Ahead
  <2> QED BY <1>1, <1>5, <2>2, Selection
<1> QED BY <1>1, <1>2, <1>3, <1>4, <1>5, Steps

(* GET /products, read page by page, leaves nothing out: what was there     *)
(* when the first page was asked for is on the pages, though others come.   *)
THEOREM PagesComplete == Spec => []PagesCover
<1>1. Init => WalkInv /\ PagesCover
  BY InitWalkInv DEF Init, PagesCover
<1>2. (WalkInv /\ PagesCover) /\ [Next]_vars => (WalkInv /\ PagesCover)'
  BY StepWalkInv, StepPagesCover
<1> QED BY <1>1, <1>2, PTL DEF Spec

-----------------------------------------------------------------------------
LEMMA ProperOffset ==
  ASSUME NEW q \in Queries, Proper(q)
  PROVE  /\ Taken(q) /\ Offset(q) = (q.page - 1) * q.limit
         /\ Offset(q) + q.limit < Half
<1> DEFINE p == q.page
           l == q.limit
<1>1. p \in Nat /\ l \in Nat /\ p >= 1 /\ l >= 1 /\ p * l < Half /\ Half \in Nat \ {0}
  BY QueryAssumption DEF Queries, Proper
<1>2. l < Half /\ Offset(q) < Half
  BY ProperRange
<1>3. Offset(q) = UInt64((p - 1) * l)
  BY DEF Offset
<1> HIDE DEF p, l
<1>4. PICK d \in Nat : p = d + 1
  BY <1>1
<1>5. PICK m \in Nat : m = d * l
  BY <1>1
<1>6. (p - 1) * l = m /\ p * l = m + l
  BY <1>1, <1>4, <1>5
<1>7. m \in 0..(2 * Half - 1) /\ m + l < Half
  BY <1>1, <1>5, <1>6
<1>8. UInt64(m) = m
  BY <1>7, Conversions
<1>9. Offset(q) = m
  BY Zenon, <1>3, <1>6, <1>8
<1> QED BY <1>1, <1>2, <1>6, <1>7, <1>9 DEF Taken, p, l

LEMMA Smaller ==
  ASSUME NEW a \in Int, NEW b \in Int
  PROVE  Min({a, b}) = IF a <= b THEN a ELSE b
<1> DEFINE m == IF a <= b THEN a ELSE b
<1>1. m \in {a, b} /\ \A y \in {a, b} : m <= y
  OBVIOUS
<1>2. \A x \in {a, b} : (\A y \in {a, b} : x <= y) => x = m
  OBVIOUS
<1> HIDE DEF m
<1>3. Min({a, b}) = m
  BY <1>1, <1>2 DEF Min
<1> QED BY <1>3 DEF m

(* The counters of the answer r to q against the page they come with, when  *)
(* u is what went on.                                                       *)
Agrees(q, r, u) ==
  LET all == r.allProductsCount
      sum == Min({(q.page - 1) * q.limit, all}) + Len(r.products) + r.itemsLeftCount
  IN  /\ r.pagesLeftCount * q.limit - r.itemsLeftCount \in 0..(q.limit - 1)
      /\ all - r.totalPagesCount * q.limit \in 0..(q.limit - 1)
      /\ u \subseteq {"appeared", "slipped"} => sum >= all
      /\ u \subseteq {"appeared"} => sum = all

LEMMA StepCountersAgree == WalkInv /\ CountersAgree /\ [Next]_vars => CountersAgree'
<1> SUFFICES ASSUME WalkInv, CountersAgree, [Next]_vars,
                    at' = "page", reply'.status = 200, Proper(query')
             PROVE  Agrees(query', reply', upset')
  BY DEF CountersAgree, Proper, Agrees
<1>1. TypeOK /\ Catalogued /\ Counted /\ query \in Queries
  BY DEF WalkInv, TypeOK
<1>2. CASE UNCHANGED <<at, reply, query>> /\ upset \subseteq upset'
  <2>1. Agrees(query, reply, upset)
    BY <1>2 DEF CountersAgree, Agrees
  <2>2. query' = query /\ reply' = reply
    BY <1>2
  <2> QED BY <1>2, <2>1, <2>2 DEF Agrees
<1>3. ASSUME NEW p \in Products, Changes(p)
      PROVE  UNCHANGED <<at, reply, query>> /\ upset \subseteq upset'
  BY <1>1, <1>3, ShownStep
<1>4. ~(Asked \/ Turned \/ Counting \/ Failing \/ Opening)
  BY DEF Asked, Turned, Counting, Failing, Opening
<1>5. UNCHANGED vars => UNCHANGED <<at, reply, query>> /\ upset \subseteq upset'
  BY DEF vars, walkVars
<1>6. CASE Select
  <2>1. at = "select" /\ UNCHANGED <<query, count>> /\ upset \subseteq upset'
    BY <1>1, <1>6, Selection
  <2>2. PICK s, r, rows : Answers(rows, r) /\ r \in Ordered(Found(query), s)
    BY <1>1, <1>6, Selection
  <2> DEFINE n   == Cardinality(Found(query))
             off == Offset(query)
             l   == query.limit
  <2>3. /\ Taken(query) /\ off = (query.page - 1) * l /\ off + l < Half
    BY <1>1, <2>1, ProperOffset DEF Proper
  <2>4. n \in 0..(Half - 1)
    BY FoundFinite
  <2>5. Len(r) = n
    BY <2>2, <2>4 DEF Ordered
  <2> DEFINE whole == IF off + l < n THEN l ELSE IF off < n THEN n - off ELSE 0
  <2>6. "cut" \notin upset' => Len(rows) = whole
    BY <2>2, <2>5 DEF Answers, Whole
  <2>7. /\ reply' = Respond(query, count, rows) /\ count \in 0..(Half - 1)
        /\ upset' \subseteq {"appeared", "slipped"} => count <= n
        /\ upset' \subseteq {"appeared"} => count = n
    BY <1>1, <2>1, <2>2, QueryAssumption DEF Counted, Answers, TypeOK
  <2> HIDE DEF n, off, l
  <2>8. /\ reply'.products = rows /\ reply'.allProductsCount = count
        /\ reply'.itemsLeftCount = IF count < off + l THEN 0 ELSE count - (off + l)
        /\ reply'.pagesLeftCount * l - reply'.itemsLeftCount \in 0..(l - 1)
        /\ count - reply'.totalPagesCount * l \in 0..(l - 1)
    BY <1>1, <2>3, <2>7, AnswerCounts DEF off, l
  <2>9. off \in Nat /\ l \in Nat
    BY <1>1, <2>3, OffsetEnds DEF off, l, Queries
  <2>10. Min({off, count}) = IF off <= count THEN off ELSE count
    BY <2>7, <2>9, Smaller
  <2> DEFINE sum == Min({off, count}) + Len(rows) + reply'.itemsLeftCount
  <2>11. Len(rows) = whole /\ count <= n => sum >= count
    BY <2>4, <2>7, <2>8, <2>9, <2>10
  <2>12. Len(rows) = whole /\ count = n => sum = count
    BY <2>4, <2>7, <2>8, <2>9, <2>10
  <2>13. /\ query' = query /\ (query.page - 1) * query.limit = off /\ query.limit = l
    BY Zenon, <2>1, <2>3 DEF l
  <2>14. /\ upset' \subseteq {"appeared", "slipped"} => sum >= count
         /\ upset' \subseteq {"appeared"} => sum = count
    BY <2>6, <2>7, <2>11, <2>12
  <2> HIDE DEF sum
  <2>15. Min({(query'.page - 1) * query'.limit, reply'.allProductsCount})
           + Len(reply'.products) + reply'.itemsLeftCount = sum
    BY Zenon, <2>8, <2>13 DEF sum
  <2> QED BY Zenon, <2>8, <2>13, <2>14, <2>15 DEF Agrees
<1> QED BY <1>1, <1>2, <1>3, <1>4, <1>5, <1>6, Steps

(* The counters of a page fit each other, and the rows that another         *)
(* statement has selected, as far as nothing goes in between.               *)
THEOREM CountersFit == Spec => []CountersAgree
<1>1. Init => WalkInv /\ CountersAgree
  BY InitWalkInv DEF Init, CountersAgree
<1>2. (WalkInv /\ CountersAgree) /\ [Next]_vars => (WalkInv /\ CountersAgree)'
  BY StepWalkInv, StepCountersAgree
<1> QED BY <1>1, <1>2, PTL DEF Spec

==============================================================================
