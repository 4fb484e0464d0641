------------------------------- MODULE MCSales -------------------------------
(***************************************************************************)
(* Small instances of SalesDesk: two items i1 and i2 (i2 may come into the *)
(* shop later), up to three bills and a trade t1.                          *)
(***************************************************************************)
EXTENDS SalesRefinement, TLC

CONSTANTS i1, i2, b1, b2, b3, t1

OneItem    == {i1}
TwoItems   == {i1, i2}
None       == {}

OneBill    == {b1}
TwoBills   == {b1, b2}
ThreeBills == {b1, b2, b3}

OneTrade     == {t1}
MCTradeItems == [t \in Trades |-> {i2}]

ByHand == {"IN_STOCK", "RESERVED", "SCRAPPED"}

\* A bill of 2 may be paid with 1, then 1; paid in full with 2; overpaid with
\* 4, which a sale takes at most and the nightly check reports.  An exchange may
\* cost the customer 2 or bring him 1.
Total2      == {2}
Differences2 == {-1, 2}
Difference2  == {2}
Amounts2    == {2}
Amounts12   == {1, 2}
Amounts14   == {1, 4}
OneWeight   == {5}
TwoWeights  == {5, 6}

RowSymmetry == Permutations(Requests) \union Permutations(Bills)
=============================================================================
