---------------------------- MODULE MCPurchasing ----------------------------
(***************************************************************************)
(* Small instances of Purchasing: one supplier, one or two orders.         *)
(***************************************************************************)
EXTENDS PurchaseProperties, TLC

CONSTANTS s1, himal, p1, p2, gold, silver, r1, r2

OneName == [s \in Suppliers |-> himal]
MCRateOf == [m \in Metals |-> IF m = gold THEN 7 ELSE 8]

Line(price, rate) == [metal |-> gold, price |-> price, rate |-> rate]

\* Prices are in half paisa.  One line or two; a rate entered or not.
MCDrafts  == {<<Line(2, Null)>>, <<Line(2, 5), Line(4, Null)>>}
TwoLines  == {<<Line(1, 5), [Line(4, Null) EXCEPT !.metal = silver]>>}
MCSheet   == <<Line(4, Null)>>

\* As ordered, or at another price and rate; always at another price.
AsOrdered  == [price |-> Null, rate |-> Null]
MCReceipts == {AsOrdered, [price |-> 7, rate |-> 6]}
OneReceipt == {[price |-> 7, rate |-> Null]}

Both == Permutations({r1, r2}) \union Permutations({p1, p2})
=============================================================================
