---------------------------- MODULE MCStockEntry ----------------------------
(***************************************************************************)
(* Small instances of StockEntry: the protected category of the seed and   *)
(* one more, two short codes, one metal.                                   *)
(***************************************************************************)
EXTENDS StockEntryProperties, TLC

CONSTANTS ring, chain, g22, r1, r2

OneMetal == {g22}
MCSuffix == [m \in Metals |-> 22]

Row(n) == [name |-> n, metal |-> g22]

MCEdits == {[code |-> 2], [name |-> ring, code |-> 1, active |-> TRUE]}

\* One piece, two under one category, or two categories in either order.
MCSheets == {<<Row(chain)>>, <<Row(ring), Row(ring)>>,
              <<Row(ring), Row(chain)>>, <<Row(chain), Row(ring)>>}

Both == Permutations({r1, r2})
=============================================================================
