--------------------------- MODULE SalesProperties ---------------------------
(***************************************************************************)
(* What must hold of bills, payments and the items on them.                *)
(***************************************************************************)
EXTENDS SalesDesk

\* Type invariant of the tables and of what requests keep in memory.
TypeOK ==
  /\ item \in [Items -> Settable \union {"NONE", "SOLD"}]
  /\ weight \in [Items -> Nat]
  /\ bill \in [Bills -> BillRow]
  /\ trade \in [Trades -> {"NONE", "PENDING", "COMPLETED", "CANCELLED"}]
  /\ melting \subseteq Items
  /\ req \in [Requests -> Request]

-----------------------------------------------------------------------------
(* Kept by every interleaving.                                             *)

\* The bills an item left with, and the bills it came back with.
SoldOn(i) == {b \in Bills : i \in bill[b].out}
BackOn(i) ==
  {b \in Bills : bill[b].kind \in {"RETURN", "EXCHANGE"} /\ i \in bill[b].in}

\* The bills account for every item: one that is SOLD has left once more than
\* it came back, every other one as often.  So no two bills sell an item that
\* came back only once, and nothing is refunded that is not out (the
\* conditional updates of createSell, createReturn and createExchange, with
\* createProductionIssue competing for the same items).
LinesMatchStatus ==
  \A i \in Items :
    Cardinality(SoldOn(i)) =
      Cardinality(BackOn(i)) + (IF IsSold(i) THEN 1 ELSE 0)

\* A bill that is not overpaid is never overpaid by instalments: addPayment
\* checks the balance it read, not the balance it changes.
NoInstalmentOverpays ==
  [][\A b \in Bills :
       ~IsNew(b) /\ bill[b].balance >= 0 => bill'[b].balance >= 0]_vars

-----------------------------------------------------------------------------
(* What the code, its comments or its tests promise and concurrency breaks.*)
(* These hold when requests are served one at a time.                      *)

\* "Re-read inside transaction so concurrent payments see each other's writes
\* before checking balance" (sales.service.ts:1007-1008): the paid amount of a
\* bill is the sum of its payment records.
PaidIsReceived == \A b \in Bills : bill[b].paid = bill[b].received

\* A sold item still weighs what it was billed at: the bill's line copies the
\* weight read before the item is marked SOLD, and a SOLD item is not edited.
SoldAsWeighed ==
  \A i \in Items : IsSold(i) => \E b \in SoldOn(i) : bill[b].weight[i] = weight[i]

\* "Status of a SOLD item can only be changed via a return transaction"
\* (stock.service.ts:604): when an item stops being SOLD, a new bill has
\* brought it in.
SoldOnlyLeavesByReturn ==
  [][\A i \in Items : IsSold(i) /\ item'[i] # "SOLD" =>
       \E b \in Bills : IsNew(b) /\ i \in bill'[b].in]_vars

=============================================================================
