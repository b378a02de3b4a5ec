------------------------------ MODULE MCListing ------------------------------
(***************************************************************************)
(* Listing with three products, the first two of one category and price,   *)
(* in 6-bit arithmetic.  The URLs reach every filter, ties, both           *)
(* directions, two and three pages, and the edges of page and limit.       *)
(***************************************************************************)
EXTENDS Listing, TLC

CONSTANTS chair, desk, lamp

MCProducts == {chair, desk, lamp}
MCNameBegins == chair :> {1} @@ desk :> {2} @@ lamp :> {}
MCDescriptionBegins == chair :> {} @@ desk :> {} @@ lamp :> {1}
MCName     == chair :> 1 @@ desk :> 2 @@ lamp :> 3
MCCategory == chair :> 1 @@ desk :> 1 @@ lamp :> 2
MCPrice    == chair :> 4 @@ desk :> 4 @@ lamp :> 2

URL(sort, page, limit) ==
  [search |-> 0, category |-> 0, priceMin |-> 0, priceMax |-> 0,
   sort |-> sort, page |-> page, limit |-> limit]

Newest == URL(<<"">>, 1, 1)

MCURLs ==
  {URL(<<"">>, -1, -1), Newest, URL(<<"">>, 1, 2), URL(<<"name", "asc">>, 1, 2),
   URL(<<"">>, 2, 1), URL(<<"category", "up">>, 1, 1), URL(<<"category">>, 1, 2),
   URL(<<"price">>, 1, 1), URL(<<"desc">>, 1, 1),
   URL(<<"">>, 0, 1), URL(<<"">>, 1, 0), URL(<<"">>, 11, 3), URL(<<"">>, 2, 40),
   [Newest EXCEPT !.priceMin = -1],
   [Newest EXCEPT !.search = 2, !.category = 1, !.priceMin = 3],
   [Newest EXCEPT !.category = 1, !.priceMin = 3, !.priceMax = 4],
   [Newest EXCEPT !.search = 1, !.priceMax = 3]}

MCWords == Columns \cup Directions \cup {"", "up"}
MCUnlucky == {desk}
MCAll == {"fail", "unread"}
=============================================================================
