--------------------------- MODULE SalesRefinement ---------------------------
(***************************************************************************)
(* The handlers of SalesDesk, with what they read before their conditional *)
(* updates and what happens in between, implement the one-step bills of    *)
(* ItemCustody.                                                            *)
(***************************************************************************)
EXTENDS SalesInvariant

\* What the status of an item says about where it is.
CustodyOf(status) ==
  CASE status = "NONE" -> "outside"
    [] status \in {"IN_STOCK", "RESERVED"} -> "shelf"
    [] status = "SOLD" -> "customer"
    [] OTHER -> "aside"

Custody == INSTANCE ItemCustody
             WITH custody <- [i \in Items |-> CustodyOf(item[i])],
                  ledger  <- [b \in Bills |-> [in  |-> bill[b].in,
                                               out |-> bill[b].out]]

\* Every step of the handlers is a bill or a move of ItemCustody, or leaves it
\* alone: an item leaves the shop, and comes back, in the same step as the one
\* bill that says so, and no bill is written twice, although every handler
\* checks the item on a row that others may have changed since.
ImplementsCustody == Custody!Spec
=============================================================================
