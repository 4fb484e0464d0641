-------------------------------- MODULE MCBill --------------------------------
(***************************************************************************)
(* Small instances of BillFigures: weights around a tola and around a lal, *)
(* rates and charges that leave fractions of a paisa or none.              *)
(***************************************************************************)
EXTENDS BillProperties

Line(value, unit, gold, rate, jyala) ==
  [value |-> value, unit |-> unit, jerty |-> 0, gold |-> gold, rate |-> rate,
   jyala |-> jyala, addon |-> 0, luxury |-> gold, vat |-> TRUE]

\* Weights of four decimals in each unit; of a lal, of two.
MCWeights ==
  {<<v, "gram">> : v \in 9995..10005} \union {<<v, "tola">> : v \in 9990..10010}
    \union {<<100 * v, "lal">> : v \in 95..105}

\* One gram worth a multiple of the unit, 50 rupees of silver or 100 of gold,
\* with a jyala of j paisa: at 4500 and no jerty the line is exactly that, and
\* with a jerty of 1 it is above by less than a paisa.
Even(gold, j, jerty) ==
  [Line(10000, "gram", gold, IF gold THEN 5500 ELSE 500, j) EXCEPT
     !.jerty = jerty, !.luxury = FALSE, !.vat = FALSE]

\* Every weight as gold and as silver; charges and VAT that leave fractions; and
\* amounts at a multiple of the unit.
MCEntries ==
  {Line(w[1], w[2], g, 735, j) : w \in MCWeights, g \in BOOLEAN, j \in {0}}
    \union {[Line(10000, "gram", FALSE, r, j) EXCEPT !.jerty = t, !.addon = 1] :
              r \in {499, 500}, j \in {4499, 4500}, t \in {0, 1, 99}}
    \union {Even(g, j, t) : g \in BOOLEAN, j \in {4499, 4500, 4501}, t \in {0, 1}}

MCDiscounts == {0, 1, 500, 10000}
=============================================================================
