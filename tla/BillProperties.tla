---------------------------- MODULE BillProperties ----------------------------
(***************************************************************************)
(* What the figures of a bill promise.                                     *)
(***************************************************************************)
EXTENDS BillFigures

Stored == row # NoRow

\* What the customer is asked for is a multiple of 100 rupees if anything on
\* the bill is gold, wherever it stands, and of 5 otherwise; it is not less
\* than the bill's own columns say, nor more than one unit above them (one
\* whole unit when fractions of a paisa, which no column shows, are left:
\* calculatePrice, resolveRoundingUnit, applyBillRounding).
TotalIsRoundedUp ==
  Stored =>
    LET gold == \E k \in 1..Len(lines) : lines[k].entry.gold
        unit == IF gold THEN 10000 ELSE 500
        owed == row.sub - row.discount
    IN  row.grand % unit = 0 /\ owed <= row.grand /\ row.grand <= owed + unit

\* The columns of a stored bill, each cut to paisa by itself, add up to a paisa
\* or two per line: the totals of the lines to the sub-total; what the customer
\* reads, amounts and taxes, to the total of each line and to the sub-total; and
\* the sub-total without the discount and with the rounding to the total
\* (createSell, formatTxResponse).
ColumnsAddUp ==
  Stored =>
    LET n == Len(row.lines)
        sum[k \in 0..n] == IF k = 0 THEN 0 ELSE sum[k - 1] + row.lines[k].total
        Near(x, y, d) == x - y <= d /\ y - x <= d
    IN  /\ Near(sum[n], row.sub, n)
        /\ \A k \in 1..n :
             LET shown == CustomerLine(row.lines[k])
             IN  Near(shown.amount + shown.tax, row.lines[k].total, 2)
        /\ Near(BillTotals(n).amount + BillTotals(n).tax, row.sub, 2 * n)
        /\ Near(row.sub - row.discount + row.rounding, row.grand, 1)

\* The bill shows a weight as it was entered, though it is worked out from the grams:
\* a tola to its four decimals, a lal to two (WeightUtil.from, forBill).
ShownAsEntered ==
  \A k \in 1..Len(lines) :
    LET e == lines[k].entry IN
    /\ e.unit = "gram" => lines[k].gross = e.value
    /\ e.unit = "tola" => BillTola(lines[k].gross) = e.value
    /\ e.unit = "lal" /\ e.value % 100 = 0 =>
         BillLal(lines[k].gross) * 100 = e.value
=============================================================================
