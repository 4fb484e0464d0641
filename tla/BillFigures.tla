----------------------------- MODULE BillFigures -----------------------------
(***************************************************************************)
(* The figures of a sales bill: weights in three units, the price of each  *)
(* line, the discount, and the total rounded up.                           *)
(*                                                                         *)
(* Code: src/common/utils/weight.util.ts, metal.util.ts and                *)
(* bill-rounding.util.ts, calculatePrice of stock.service.ts, and the loop *)
(* over the lines of createSell and formatTxResponse in sales.service.ts.  *)
(*                                                                         *)
(* Weights are counted in 1/10000 of their unit and rates in paisa, so     *)
(* that a metal value is a number of 1/1000000 rupees ("micro"), the unit  *)
(* of the amounts in memory.  Columns of amounts are in paisa.  What the   *)
(* code computes with Decimal is exact here but for the taxes, cut at a    *)
(* micro.  Where a weight falls half-way between two numbers the code's    *)
(* floating point may round either way, the model rounds up.               *)
(***************************************************************************)
EXTENDS Integers, Sequences

CONSTANTS
  Entries,      \* lines that may be billed: records as in Entry below
  Discounts,    \* discounts, in paisa
  LuxuryPct,    \* the active luxury tax on gold, per cent
  VatPct,       \* the active VAT on jyala, per cent
  MaxLines      \* bound: lines of a bill

Units == {"gram", "tola", "lal"}

\* A line as it is typed in: a weight in some unit, jerty in 1/10000 gram,
\* charges in paisa, the rate of a gram in paisa.
Entry == [value: Nat, unit: Units, jerty: Nat, gold: BOOLEAN, rate: Nat,
          jyala: Nat, addon: Nat, luxury: BOOLEAN, vat: BOOLEAN]

ASSUME FiguresAssumption ==
  /\ Entries \subseteq Entry /\ Discounts \subseteq Nat
  /\ LuxuryPct \in 0..100 /\ VatPct \in 0..100
  /\ MaxLines \in Nat

VARIABLES
  lines,   \* the lines priced so far, each with its entry
  sub,     \* subTotal of createSell, in micro
  row      \* the row of transactions, when it is stored

vars == <<lines, sub, row>>

-----------------------------------------------------------------------------
(* Numbers.                                                                *)

\* x / y to the nearest integer: toFixed, and Postgres into a column.
RoundDiv(x, y) == (2 * x + y) \div (2 * y)

Paisa == 10000                     \* micro in a paisa
Column(micro) == RoundDiv(micro, Paisa)

-----------------------------------------------------------------------------
(* Weights.  A tola is 11.664 gram, a lal 0.11664 gram.                    *)

\* Bug: two decimals of a gram are kept.
GramsShort(value, unit) ==
  CASE unit = "gram" -> value
    [] unit = "tola" -> 100 * RoundDiv(value * 729, 6250)
    [] unit = "lal"  -> 100 * RoundDiv(value * 729, 625000)

\* toGram and the gram of fromGram: four decimals are kept.
Grams(value, unit) ==
  CASE unit = "gram" -> value
    [] unit = "tola" -> RoundDiv(value * 1458, 125)
    [] unit = "lal"  -> RoundDiv(value * 729, 6250)

\* fromGram of a stored weight, as forBill shows it: four decimals of a tola,
\* two of a lal.
BillTola(gram) == RoundDiv(gram * 125, 1458)
BillLal(gram)  == RoundDiv(RoundDiv(gram * 6250, 729), 100)

-----------------------------------------------------------------------------
(* Prices.                                                                 *)

PerCent(amount, pct) == (amount * pct) \div 100

\* calculatePrice.
Priced(e) ==
  LET gross  == Grams(e.value, e.unit)
      metal  == (gross + e.jerty) * e.rate
      jyala  == e.jyala * Paisa
      luxury == IF e.luxury /\ e.gold THEN PerCent(metal, LuxuryPct) ELSE 0
      vat    == IF e.vat THEN PerCent(jyala, VatPct) ELSE 0
  IN  [entry |-> e, gross |-> gross, metal |-> metal, luxury |-> luxury, vat |-> vat,
       total |-> metal + jyala + luxury + vat + e.addon * Paisa]

\* A row of transaction_lines: each figure is cut to its column.
LineColumns(line) ==
  [metal |-> Column(line.metal), jyala |-> line.entry.jyala,
   addon |-> line.entry.addon, luxury |-> Column(line.luxury),
   vat |-> Column(line.vat), total |-> Column(line.total)]

\* Bug: the first line's metal decides.
UnitOfFirst(bill) == IF bill[1].entry.gold THEN 10000 ELSE 500

\* resolveRoundingUnit, in paisa: 100 rupees with gold on the bill, else 5.
UnitOf(bill) == IF \E k \in 1..Len(bill) : bill[k].entry.gold THEN 10000 ELSE 500

\* applyBillRounding, in paisa: up to the next multiple of the unit.
RoundedUp(payable, unit) ==
  IF payable <= 0 THEN 0
  ELSE ((payable + unit * Paisa - 1) \div (unit * Paisa)) * unit

-----------------------------------------------------------------------------
NoRow == [grand |-> -1]

Init == lines = <<>> /\ sub = 0 /\ row = NoRow

AddLine(e) ==
  /\ row = NoRow /\ Len(lines) < MaxLines
  /\ lines' = Append(lines, Priced(e))
  /\ sub' = sub + Priced(e).total
  /\ UNCHANGED row

\* Bug: the rounding is taken against the sum without the discount.
StoreRoundingOfSub(discount) ==
  LET payable == sub - discount * Paisa
      grand   == RoundedUp(payable, UnitOf(lines))
  IN  /\ row = NoRow /\ lines # <<>>
      /\ discount * Paisa <= sub
      /\ row' = [grand |-> grand, sub |-> Column(sub), discount |-> discount,
                 rounding |-> Column(RoundedUp(sub, UnitOf(lines)) * Paisa - sub),
                 lines |-> [k \in 1..Len(lines) |-> LineColumns(lines[k])]]
      /\ UNCHANGED <<lines, sub>>

\* The rest of createSell: what is computed is cut to the columns.
Store(discount) ==
  LET payable == sub - discount * Paisa
      grand   == RoundedUp(payable, UnitOf(lines))
  IN  /\ row = NoRow /\ lines # <<>>
      /\ discount * Paisa <= sub
      /\ row' = [grand |-> grand, sub |-> Column(sub), discount |-> discount,
                 rounding |-> IF payable <= 0 THEN 0
                              ELSE Column(grand * Paisa - payable),
                 lines |-> [k \in 1..Len(lines) |-> LineColumns(lines[k])]]
      /\ UNCHANGED <<lines, sub>>

-----------------------------------------------------------------------------
(* The customer's bill, made of the stored columns.                        *)

\* A line of formatTxResponse: the amount before tax, and the tax.
CustomerLine(line) ==
  [amount |-> line.metal + line.jyala + line.addon,
   tax |-> line.luxury + line.vat]

\* The bill's tax total and the sum of its amounts, over the first k lines.
BillTotals(k) ==
  LET sum[i \in 0..k] ==
        IF i = 0 THEN [amount |-> 0, tax |-> 0]
        ELSE LET line == CustomerLine(row.lines[i])
             IN  [amount |-> sum[i - 1].amount + line.amount,
                  tax |-> sum[i - 1].tax + line.tax]
  IN  sum[k]

-----------------------------------------------------------------------------
Next == (\E e \in Entries : AddLine(e)) \/ \E d \in Discounts : Store(d)

Spec == Init /\ [][Next]_vars
=============================================================================
