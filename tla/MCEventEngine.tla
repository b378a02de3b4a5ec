---------------------------- MODULE MCEventEngine ----------------------------
(***************************************************************************)
(* EventEngine wired as server.go wires it, with one more subscriber of    *)
(* product.created, so that a broadcast has two receivers: the inventory   *)
(* handler takes product.created, the product handler takes                *)
(* inventory.creation.failed, and the third, if it likes, takes both.  The *)
(* failure is published by the inventory handler, which doneCh does not    *)
(* wait for.                                                               *)
(***************************************************************************)
EXTENDS EventEngine

CONSTANTS created, failed,        \* event names
          inventory, audit, product,   \* subscribers
          c1, c2, f1                \* events

MCEventNames  == {created, failed}
MCSubscribers == {inventory, audit, product}
MCEvents      == {c1, c2, f1}
MCNameOf      == [m \in MCEvents |-> IF m = f1 THEN failed ELSE created]
MCSubscribeTo == [s \in MCSubscribers |->
                    CASE s = inventory -> {created}
                      [] s = product   -> {failed}
                      [] s = audit     -> {created, failed}]
MCLate        == {f1}
=============================================================================
