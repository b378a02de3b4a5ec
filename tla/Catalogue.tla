------------------------------ MODULE Catalogue ------------------------------
(***************************************************************************)
(* What the shop promises about a product from its creation on, however    *)
(* many features, events and statements that takes: it is pending until it *)
(* has stock, visible to customers from then on, and never withdrawn while *)
(* it is visible.  A product that could not be stocked is refused, and may *)
(* go.  When the insert of its stock succeeded and reported an error all   *)
(* the same, customers see a product that may still go: it is doubtful.    *)
(***************************************************************************)
CONSTANT Products

VARIABLE life   \* life[p]: where product p is in its life

Lives == {"absent", "pending", "visible", "refused", "doubtful", "gone"}

TypeOK == life \in [Products -> Lives]

Init == life = [p \in Products |-> "absent"]

Pass(p, from, to) ==
  /\ life[p] \in from
  /\ life' = [life EXCEPT ![p] = to]

Add(p)      == Pass(p, {"absent"}, "pending")
Stock(p)    == Pass(p, {"pending"}, "visible")
Refuse(p)   == Pass(p, {"pending"}, "refused")
Doubt(p)    == Pass(p, {"pending"}, "doubtful")
Withdraw(p) == Pass(p, {"refused", "doubtful"}, "gone")

Next ==
  \E p \in Products :
    \/ Add(p)
    \/ Stock(p)
    \/ Refuse(p)
    \/ Doubt(p)
    \/ Withdraw(p)

Spec == Init /\ [][Next]_life

(* What customers are shown: the rows of the join of products and inventory.*)
Shown == {p \in Products : life[p] \in {"visible", "doubtful"}}
=============================================================================
