------------------------------- MODULE Listing -------------------------------
(***************************************************************************)
(* A customer walks through the pages of GET /products while the catalogue *)
(* changes, and then opens a product with GET /products/{productID}.       *)
(*                                                                         *)
(* A page is made by two statements that are not in one transaction: the   *)
(* count of all matching products, and the page itself.  What is left is   *)
(* computed from the count.  The customer asks for the next page as long   *)
(* as the answer says that pages are left.                                 *)
(*                                                                         *)
(* The catalogue changes as Catalogue says; ProductCatalog implements it.  *)
(***************************************************************************)
EXTENDS ListingQuery, Responses, FiniteSets, Functions, FiniteSetsExt

CONSTANTS
  Products,
  NameBegins, DescriptionBegins,  \* the searches that match them
  Name, Category, Price,          \* numbers, in the order the database sorts by
  URLs,                           \* the first URL of a walk
  Unlucky,                        \* bound: the products whose stocking may fail
  Failures                        \* of a statement: "fail", "unread"

ASSUME ListingAssumption ==
  /\ IsFiniteSet(Products) /\ Products # {} /\ Cardinality(Products) < Half
  /\ NameBegins \in [Products -> SUBSET (Nat \ {0})]
  /\ DescriptionBegins \in [Products -> SUBSET (Nat \ {0})]
  /\ Name \in [Products -> Nat]
  /\ Category \in [Products -> Nat]
  /\ Price \in [Products -> Nat]
  /\ URLs \subseteq RawQueries
  /\ Unlucky \subseteq Products
  /\ Failures \subseteq {"fail", "unread"}

VARIABLES
  life,       \* the catalogue
  created,    \* the products in the order of their created_at
  at,         \* the next step of the walk
  query,      \* what the URL of the page says
  count,      \* the result of the counting statement
  reply,      \* the answer to the page
  opened,     \* what the customer opened at last
  seen,       \* history: the products on the pages so far
  first,      \* history: the first page, and the products shown when it was asked for
  upset       \* history: what went on during the walk

shopVars == <<life, created>>
walkVars == <<at, query, count, reply, opened, seen, first, upset>>
vars == <<shopVars, walkVars>>

Shop == INSTANCE Catalogue

NoPage(status) ==
  [status |-> status, allProductsCount |-> 0, itemsLeftCount |-> 0,
   totalPagesCount |-> 0, pagesLeftCount |-> 0, products |-> <<>>]

Upsets == {"failed", "cut", "appeared", "slipped", "withdrawn"}

TypeOK ==
  /\ Shop!TypeOK
  /\ created \in Seq(Products)
  /\ at \in {"new", "count", "select", "page", "opened"}
  /\ query \in Queries
  /\ count \in Nat
  /\ reply.status \in Statuses
  /\ reply.products \in Seq(Products)
  /\ opened.status \in Statuses /\ opened.product \in Products
  /\ seen \in Seq(Products)
  /\ first.page \in Nat /\ first.shown \subseteq Products
  /\ upset \subseteq Upsets

Init ==
  /\ Shop!Init
  /\ created = <<>>
  /\ at = "new"
  /\ query = [search |-> 0, category |-> 0, priceMin |-> 0, priceMax |-> 0,
              sortBy |-> "created_at", sortOpt |-> "desc", page |-> 1, limit |-> 20]
  /\ count = 0
  /\ reply = NoPage(NoAnswer)
  /\ opened = [status |-> NoAnswer, product |-> CHOOSE p \in Products : TRUE]
  /\ seen = <<>>
  /\ first = [page |-> 1, shown |-> {}]
  /\ upset = {}

Walking == at \in {"count", "select", "page"}

-----------------------------------------------------------------------------
(* The statements.                                                          *)

(* A row of the join of products and inventory; p.name ILIKE 's%'.          *)
Satisfies(p, c, params) ==
  LET operand(j) == params[c.at[j]].value
  IN  \/ /\ c.test = "search"
         /\ operand(1) \in NameBegins[p] \/ operand(2) \in DescriptionBegins[p]
      \/ c.test = "category" /\ Category[p] = operand(1)
      \/ c.test = "priceMin" /\ Price[p] >= operand(1)
      \/ c.test = "priceMax" /\ Price[p] <= operand(1)

(* Mutant: the products are joined with their stock by LEFT JOIN.           *)
MatchingUnstocked(where, params) ==
  {p \in {q \in Products : life[q] \notin {"absent", "gone"}} :
     \A i \in DOMAIN where : Satisfies(p, where[i], params)}

Matching(where, params) ==
  {p \in Shop!Shown : \A i \in DOMAIN where : Satisfies(p, where[i], params)}

(* All that a query matches.                                                *)
Found(q) == Matching(Filter(q).where, Filter(q).params)

Rank(p) == CHOOSE n \in DOMAIN created : created[n] = p

Key(p, sortBy) ==
  IF sortBy = "created_at" THEN Rank(p)
  ELSE IF sortBy = "name" THEN Name[p]
  ELSE IF sortBy = "category" THEN Category[p]
  ELSE Price[p]

Precedes(p, q, s) ==
  IF s.sortOpt = "asc" THEN Key(p, s.sortBy) < Key(q, s.sortBy)
                       ELSE Key(p, s.sortBy) > Key(q, s.sortBy)

(* ORDER BY: rows with equal keys come in any order.                        *)
Ordered(rows, s) ==
  {r \in [1..Cardinality(rows) -> rows] :
     /\ Range(r) = rows
     /\ \A i, j \in DOMAIN r : i < j => ~Precedes(r[j], r[i], s)}

(* LIMIT and OFFSET.                                                        *)
Page(r, s) ==
  LET limit  == s.params[s.limitAt].value
      offset == s.params[s.offsetAt].value
  IN  SubSeq(r, offset + 1, IF offset + limit < Len(r) THEN offset + limit ELSE Len(r))

-----------------------------------------------------------------------------
(* getAllProductsHandler                                                    *)

Refuse(status) ==
  /\ at' = "page"
  /\ reply' = NoPage(status)

StatementFails ==
  /\ "fail" \in Failures
  /\ Refuse(MakeHandler(OtherError))
  /\ upset' = upset \cup {"failed"}

Ask(url) ==
  /\ at = "new"
  /\ query' = GetQueryItems(url)
  /\ first' = [page |-> query'.page, shown |-> Found(query')]
  /\ IF Valid(query') THEN at' = "count" /\ UNCHANGED reply
                      ELSE Refuse(MakeHandler(ServerError(Unprocessable)))
  /\ UNCHANGED <<shopVars, count, opened, seen, upset>>

(* Mutant: the page parameter of the URL is not read.                       *)
AtPageIgnored(q, page) == q

AtPage(q, page) == [q EXCEPT !.page = page]

More == at = "page" /\ reply.status = 200 /\ reply.pagesLeftCount > 0

NextPage ==
  /\ More
  /\ query' = AtPage(query, StringToUint64(1, query.page + 1))
  /\ at' = "count"
  /\ UNCHANGED <<shopVars, count, reply, opened, seen, first, upset>>

Count ==
  /\ at = "count"
  /\ \E s \in {GenerateQueryAndParams(query)} :
       IF Accepts(s.where, {}, CountParams(s))
       THEN /\ count' = Cardinality(Matching(s.where, CountParams(s)))
            /\ at' = "select"
            /\ UNCHANGED reply
       ELSE Refuse(MakeHandler(OtherError)) /\ UNCHANGED count
  /\ UNCHANGED <<shopVars, query, opened, seen, first, upset>>

CountFails ==
  /\ at = "count"
  /\ StatementFails
  /\ UNCHANGED <<shopVars, query, count, opened, seen, first>>

(* Mutant: the page's items are counted as left.                            *)
ItemsLeftBefore(q, total) == Int64(total - Int64(UInt64((q.page - 1) * q.limit)))

ItemsLeft(q, total) == Int64(total - Int64(UInt64(q.page * q.limit)))

(* Mutant: the pages left are rounded down, as the total is.                *)
PagesLeftDown(q, left) == Quotient(left, Int64(q.limit))

PagesLeft(q, left) == Quotient(Int64(left + Int64(q.limit) - 1), Int64(q.limit))

(* With limit=0 the handler divides by zero, and panics.                    *)
Respond(q, total, rows) ==
  LET left == ItemsLeft(q, total)
  IN  IF q.limit = 0
      THEN NoPage(Aborted)
      ELSE [status           |-> 200,
            allProductsCount |-> total,
            itemsLeftCount   |-> IF left < 0 THEN 0 ELSE left,
            totalPagesCount  |-> Quotient(total, Int64(q.limit)),
            pagesLeftCount   |-> IF left < 0 THEN 0 ELSE PagesLeft(q, left),
            products         |-> rows]

(* When fetching breaks off rows.Err is not asked: the rows so far are the  *)
(* page.                                                                    *)
Fetched(page) ==
  {SubSeq(page, 1, n) : n \in IF "unread" \in Failures THEN 0..Len(page) ELSE {Len(page)}}

Select ==
  /\ at = "select"
  /\ \E s \in {GenerateQueryAndParams(query)} :
       IF Accepts(s.where, {s.limitAt, s.offsetAt}, s.params)
       THEN /\ \E r \in Ordered(Matching(s.where, s.params), s) :
                 \E rows \in Fetched(Page(r, s)) :
                   /\ reply' = Respond(query, count, rows)
                   /\ seen' = seen \o reply'.products
                   /\ upset' = IF rows = Page(r, s) THEN upset ELSE upset \cup {"cut"}
            /\ at' = "page"
       ELSE Refuse(MakeHandler(OtherError)) /\ UNCHANGED <<seen, upset>>
  /\ UNCHANGED <<shopVars, query, count, opened, first>>

SelectFails ==
  /\ at = "select"
  /\ StatementFails
  /\ UNCHANGED <<shopVars, query, count, opened, seen, first>>

(* getProductHandler: any error, an unknown id among them, is passed on.    *)
Open(p) ==
  /\ at = "page" /\ ~More
  /\ at' = "opened"
  /\ \/ /\ opened' = [product |-> p,
                      status  |-> IF p \in Shop!Shown THEN 200 ELSE MakeHandler(OtherError)]
        /\ UNCHANGED upset
     \/ /\ "fail" \in Failures
        /\ opened' = [product |-> p, status |-> MakeHandler(OtherError)]
        /\ upset' = upset \cup {"failed"}
  /\ UNCHANGED <<shopVars, query, count, reply, seen, first>>

-----------------------------------------------------------------------------
(* The catalogue changes, of interest until the customer opens a product.   *)

Create(p) ==
  /\ at # "opened"
  /\ Shop!Add(p)
  /\ created' = Append(created, p)
  /\ UNCHANGED walkVars

Appear(p) ==
  /\ at # "opened"
  /\ Shop!Stock(p) \/ (p \in Unlucky /\ Shop!Doubt(p))
  /\ upset' = upset \cup (IF at = "select" THEN {"appeared", "slipped"}
                          ELSE IF Walking THEN {"appeared"} ELSE {})
  /\ UNCHANGED <<created, at, query, count, reply, opened, seen, first>>

Vanish(p) ==
  /\ at # "opened" /\ p \in Unlucky
  /\ Shop!Refuse(p) \/ Shop!Withdraw(p)
  /\ upset' = IF Walking /\ p \in Shop!Shown THEN upset \cup {"withdrawn"} ELSE upset
  /\ UNCHANGED <<created, at, query, count, reply, opened, seen, first>>

-----------------------------------------------------------------------------
Walk ==
  \/ NextPage
  \/ Count
  \/ CountFails
  \/ Select
  \/ SelectFails

Terminating == at = "opened" /\ UNCHANGED vars

Next ==
  \/ \E url \in URLs : Ask(url)
  \/ Walk
  \/ \E p \in Products : Open(p) \/ Create(p) \/ Appear(p) \/ Vanish(p)
  \/ Terminating

Spec == Init /\ [][Next]_vars

(* A statement sent to the database returns, and the customer goes on.      *)
FairSpec == Spec /\ WF_vars(Walk)

-----------------------------------------------------------------------------
(* Properties.                                                              *)

(* The two statements of a page are sound: the operands that a filter gave  *)
(* are the ones its clause names, whichever filters are there, and leaving  *)
(* out LIMIT and OFFSET leaves what the count names.                        *)
StatementsSound == Sound(query)

(* A page that exists, as far as 64 bits go.                                *)
Proper(q) == q.page >= 1 /\ q.limit >= 1 /\ q.page * q.limit < Half

NoTies ==
  \A p, r \in Range(created) :
    p # r => Key(p, query.sortBy) # Key(r, query.sortBy)

(* A customer who follows the pages to the end from page 1 has seen every   *)
(* matching product that was there at the start, though new ones appear     *)
(* while the customer reads; unless products have equal keys, one is        *)
(* withdrawn, rows broke off, or one appeared between a count and its page. *)
PagesCover ==
  /\ at = "page" /\ reply.status = 200 /\ ~More
  /\ first.page = 1 /\ NoTies
  /\ upset \subseteq {"appeared"}
  => first.shown \subseteq Range(seen)

(* While no product appears or goes, pages never repeat one nor leave the   *)
(* order asked for.                                                         *)
PagesInOrder ==
  /\ at = "page" /\ Len(seen) > 1 /\ NoTies /\ upset \subseteq {"cut", "failed"}
  => \A i, j \in DOMAIN seen :
       i < j => Precedes(seen[i], seen[j], query)

(* The counters of an answer fit each other, whatever changes between the   *)
(* two statements: the pages left just hold the items left, and the total   *)
(* of pages is that of the full ones.  They fit the page, too, unless rows  *)
(* broke off or a product was withdrawn: what was skipped, what is listed   *)
(* and what is left are all there is, or more by what has appeared between  *)
(* the count and the page.                                                  *)
CountersAgree ==
  LET q   == query
      all == reply.allProductsCount
      sum == Min({(q.page - 1) * q.limit, all})
               + Len(reply.products) + reply.itemsLeftCount
  IN  at = "page" /\ reply.status = 200 /\ Proper(q) =>
        /\ reply.pagesLeftCount * q.limit - reply.itemsLeftCount \in 0..(q.limit - 1)
        /\ all - reply.totalPagesCount * q.limit \in 0..(q.limit - 1)
        /\ upset \subseteq {"appeared", "slipped"} => sum >= all
        /\ upset \subseteq {"appeared"} => sum = all

Wanted(p, q) ==
  /\ q.search # 0 => q.search \in NameBegins[p] \cup DescriptionBegins[p]
  /\ q.category # 0 => Category[p] = q.category
  /\ q.priceMin > 0 => Price[p] >= q.priceMin
  /\ q.priceMax > 0 => Price[p] <= q.priceMax

(* A page lists products that match the query and have stock.               *)
ListedMatch ==
  at = "page" =>
    \A p \in Range(reply.products) :
      Wanted(p, query) /\ life[p] \in {"visible", "doubtful", "gone"}

(* A valid query for a proper page is answered with it unless a statement   *)
(* fails: no mix of filters makes the database refuse a statement.          *)
Served ==
  at = "page" /\ Proper(query) =>
    \/ reply.status = 200 /\ Valid(query)
    \/ reply.status = Unprocessable /\ ~Valid(query)
    \/ "failed" \in upset

(* A product on a page can be opened, unless it has been withdrawn.         *)
OpensWhatIsListed ==
  at = "opened" /\ opened.product \in Range(seen) /\ "failed" \notin upset =>
    opened.status = 200 \/ life[opened.product] = "gone"

(* What CountersAgree, PagesCover and PagesInOrder rest on.  The products   *)
(* that are or were there are ranked by their creation;                     *)
Catalogued ==
  /\ IsInjective(created)
  /\ Range(created) = {p \in Products : life[p] # "absent"}

(* how many precede a product is where it stands in the listing;            *)
Position(p, q) == Cardinality({r \in Found(q) : Precedes(r, p, q)})

(* the count holds until the page is selected, if nothing comes or goes,    *)
(* and is no more than there is, if nothing goes;                           *)
Counted ==
  at = "select" =>
    /\ count < Half
    /\ "withdrawn" \notin upset => count <= Cardinality(Found(query))
    /\ upset \cap {"slipped", "withdrawn"} = {} => count = Cardinality(Found(query))

(* what was there at the start still is, if nothing has been withdrawn;     *)
Kept ==
  /\ at = "new" => seen = <<>>
  /\ Walking /\ "withdrawn" \notin upset => first.shown \subseteq Found(query)

(* the database has taken the limit and the offset of a page;               *)
Selected ==
  /\ query.page < 2 * Half
  /\ at = "page" /\ reply.status = 200 =>
       query.limit \in 1..(Half - 1) /\ Offset(query) < Half

(* what was there at the start and stands before the offset has been seen;  *)
Covered ==
  first.page = 1 /\ NoTies /\ upset \subseteq {"appeared"} =>
    \A p \in first.shown :
      \/ p \in Range(seen)
      \/ at \in {"count", "select"} /\ Position(p, query) >= Offset(query)
      \/ /\ at = "page"
         /\ reply.status = 200 => Position(p, query) >= Offset(query) + query.limit
      \/ at = "opened"

(* and all that has been seen stands before the offset, which is within the *)
(* listing and does not wrap around once something has been seen.           *)
InStep ==
  NoTies /\ upset \subseteq {"cut", "failed"} =>
    /\ \A i, j \in DOMAIN seen : i < j => Precedes(seen[i], seen[j], query)
    /\ Walking => Range(seen) \subseteq Found(query)
    /\ at \in {"count", "select"} /\ seen # <<>> =>
         /\ Offset(query) < Cardinality(Found(query))
         /\ \A p \in Range(seen) : Position(p, query) < Offset(query)
    /\ More /\ seen # <<>> =>
         /\ Offset(query) + query.limit < Cardinality(Found(query))
         /\ \A p \in Range(seen) : Position(p, query) < Offset(query) + query.limit

WalkInv ==
  TypeOK /\ Catalogued /\ Counted /\ Kept /\ Selected /\ Covered /\ InStep

(* Following the pages from a proper one comes to an end that is a page,    *)
(* not an error, whatever happens to the catalogue meanwhile.               *)
WalkEnds ==
  (at \in {"count", "select"} /\ Proper(query)) ~>
    (at \in {"page", "opened"} /\ ~More /\ (reply.status = 200 \/ "failed" \in upset))
=============================================================================
