----------------------------- MODULE ListingQuery -----------------------------
(***************************************************************************)
(* GET /products from its URL to the two statements it runs, one counting  *)
(* the products that match and one selecting a page of them.               *)
(*                                                                         *)
(* Both statements have the same WHERE, whose clauses name their operands  *)
(* by number ($1, $2, ...) while the operands are collected in one list;   *)
(* the list ends with the operands of LIMIT and OFFSET, which only the     *)
(* second statement has.                                                   *)
(*                                                                         *)
(* Texts are numbers here, the empty one is 0.                             *)
(***************************************************************************)
EXTENDS Integers, Sequences

CONSTANTS
  Half,   \* int runs from -Half to Half - 1, uint64 from 0 to 2 * Half - 1
  Words   \* what a customer may write between the colons of a sort parameter

Columns    == {"name", "price", "category", "created_at"}
Directions == {"asc", "desc"}

ASSUME QueryAssumption ==
  /\ Half \in Nat \ {0}
  /\ Columns \cup Directions \subseteq Words

UInt64(x) == x % (2 * Half)
Int64(x)  == ((x + Half) % (2 * Half)) - Half

(* Division of Go's integers, which rounds towards zero.                    *)
Quotient(a, b) == IF a >= 0 THEN a \div b ELSE -((-a) \div b)

(* A URL's query, its numbers parsed.                                       *)
RawQueries ==
  [search : Nat, category : Nat, priceMin : Int, priceMax : Int,
   sort : Seq(Words), page : Int, limit : Int]

Queries ==
  [search : Nat, category : Nat, priceMin : Int, priceMax : Int,
   sortBy : Words, sortOpt : Words, page : Nat, limit : Nat]

(* stringToUint64: what does not parse or is out of range, -1 here, becomes *)
(* the default.                                                             *)
StringToUint64(default, number) ==
  IF number \in 0..(2 * Half - 1) THEN number ELSE default

(* getQueryItems: url.sort is what stands between the colons.               *)
GetQueryItems(url) ==
  [search   |-> url.search,
   category |-> url.category,
   priceMin |-> url.priceMin,
   priceMax |-> url.priceMax,
   sortBy   |-> IF Len(url.sort) \in {1, 2} /\ url.sort # <<"">>
                THEN url.sort[1] ELSE "created_at",
   sortOpt  |-> IF Len(url.sort) = 2 THEN url.sort[2] ELSE "desc",
   page     |-> StringToUint64(1, url.page),
   limit    |-> StringToUint64(20, url.limit)]

(* The validate tags of the query; page and limit have min=0, which every   *)
(* uint64 satisfies.                                                        *)
Valid(q) ==
  /\ q.sortBy \in Columns /\ q.sortOpt \in Directions
  /\ q.priceMin >= 0 /\ q.priceMax >= 0

-----------------------------------------------------------------------------
(* generateQueryAndParams                                                   *)

Text(v)     == [type |-> "text", value |-> v]
Float(v)    == [type |-> "float", value |-> v]
Unsigned(v) == [type |-> "unsigned", value |-> v]

Tests == {"search", "category", "priceMin", "priceMax"}

Given(q, test) ==
  \/ test = "search" /\ q.search # 0
  \/ test = "category" /\ q.category # 0
  \/ test = "priceMin" /\ q.priceMin > 0
  \/ test = "priceMax" /\ q.priceMax > 0

Operands(q, test) ==
  IF test = "search" THEN <<Text(q.search), Text(q.search)>>
  ELSE IF test = "category" THEN <<Text(q.category)>>
  ELSE IF test = "priceMin" THEN <<Float(q.priceMin)>>
  ELSE <<Float(q.priceMax)>>

(* Mutant: placeholders are numbered by clauses.                            *)
AddNumberedByClauses(q, w, test) ==
  IF Given(q, test)
  THEN [where  |-> Append(w.where, [test |-> test,
                     at |-> [i \in 1..Len(Operands(q, test)) |-> Len(w.where) + i]]),
        params |-> w.params \o Operands(q, test)]
  ELSE w

(* A clause and the numbers of its operands, appended as they are.          *)
Add(q, w, test) ==
  IF Given(q, test)
  THEN [where  |-> Append(w.where, [test |-> test,
                     at |-> [i \in 1..Len(Operands(q, test)) |-> Len(w.params) + i]]),
        params |-> w.params \o Operands(q, test)]
  ELSE w

NoFilter == [where |-> <<>>, params |-> <<>>]

Filter(q) ==
  LET searched    == Add(q, NoFilter, "search")
      categorized == Add(q, searched, "category")
      bounded     == Add(q, categorized, "priceMin")
  IN  Add(q, bounded, "priceMax")

(* Mutant: the page is taken for the offset.                                *)
OffsetUnscaled(q) == UInt64(q.page - 1)

Offset(q) == UInt64((q.page - 1) * q.limit)

GenerateQueryAndParams(q) ==
  LET filter == Filter(q)
  IN  [where    |-> filter.where,
       sortBy   |-> q.sortBy,
       sortOpt  |-> q.sortOpt,
       limitAt  |-> Len(filter.params) + 1,
       offsetAt |-> Len(filter.params) + 2,
       params   |-> filter.params \o <<Unsigned(q.limit), Unsigned(Offset(q))>>]

(* Mutant: only the last parameter is left out.                             *)
CountParamsAllButOne(s) == SubSeq(s.params, 1, Len(s.params) - 1)

(* findAll: "exclude limit and offset".                                     *)
CountParams(s) == SubSeq(s.params, 1, Len(s.params) - 2)

-----------------------------------------------------------------------------
(* What the database makes of a statement.                                  *)

TypeOf(test) == IF test \in {"search", "category"} THEN "text" ELSE "float"

Placeholders(where) == UNION {{where[i].at[j] : j \in DOMAIN where[i].at} : i \in DOMAIN where}

(* It takes as many parameters as the statement names, of the types that    *)
(* the statement compares them to, and no uint64 with its highest bit set.  *)
Accepts(where, others, params) ==
  /\ Placeholders(where) \cup others = 1..Len(params)
  /\ \A i \in DOMAIN where : \A j \in DOMAIN where[i].at :
       params[where[i].at[j]].type = TypeOf(where[i].test)
  /\ \A n \in others : params[n].type = "unsigned" /\ params[n].value < Half

-----------------------------------------------------------------------------
(* The clauses in where find the operands that the query gave for them.     *)
BoundTo(q, where, params) ==
  \A i \in DOMAIN where :
    /\ where[i].test \in Tests
    /\ Given(q, where[i].test)
    /\ DOMAIN where[i].at = 1..Len(Operands(q, where[i].test))
    /\ \A j \in DOMAIN where[i].at :
         /\ where[i].at[j] \in 1..Len(params)
         /\ params[where[i].at[j]] = Operands(q, where[i].test)[j]

(* Every parameter is an operand of a clause.                               *)
AllNamed(where, params) ==
  \A n \in 1..Len(params) :
    \E i \in DOMAIN where : \E j \in DOMAIN where[i].at : where[i].at[j] = n

(* Both statements of a query are sound: each clause finds its operands,    *)
(* LIMIT and OFFSET theirs, and no parameter is too many for the count.     *)
Sound(q) ==
  LET s == GenerateQueryAndParams(q)
  IN  /\ BoundTo(q, s.where, CountParams(s))
      /\ AllNamed(s.where, CountParams(s))
      /\ BoundTo(q, s.where, s.params)
      /\ Len(s.params) = Len(CountParams(s)) + 2
      /\ s.params[s.limitAt] = Unsigned(q.limit)
      /\ s.params[s.offsetAt] = Unsigned(Offset(q))
=============================================================================
