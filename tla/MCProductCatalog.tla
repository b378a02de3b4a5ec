-------------------------- MODULE MCProductCatalog --------------------------
(***************************************************************************)
(* ProductCatalog with three or four creations, two of them of one name,   *)
(* and channels of capacity 1, on which four creations are enough to fill  *)
(* every place of the cycle listen -> inventory -> listen.                 *)
(***************************************************************************)
EXTENDS ProductCatalog, TLC

CONSTANTS r1, r2, r3, r4, chair, desk, lamp

MCTwo    == {r1, r2}
MCThree  == {r1, r2, r3}
MCFour   == {r1, r2, r3, r4}
MCNames2 == r1 :> chair @@ r2 :> chair
MCNames3 == r1 :> chair @@ r2 :> chair @@ r3 :> desk
MCNames4 == [r \in MCFour |-> chair]
MCFail       == {"fail"}
MCAnyFailure == {"fail", "lost", "unread"}
=============================================================================
