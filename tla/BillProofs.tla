------------------------------ MODULE BillProofs ------------------------------
(***************************************************************************)
(* The total of a bill, the weights on it and the sums of its columns are  *)
(* right for any lines, any taxes and any discounts.                       *)
(***************************************************************************)
EXTENDS BillProperties, Sums, TLAPS

-----------------------------------------------------------------------------
(* Numbers.                                                                *)

\* c paisa stand for x micro; g, a multiple of the unit u, is the least cover.
IsNear(x, c)    == c \in Nat /\ 10000 * c <= x + 5000 /\ x < 10000 * c + 5000
Covers(x, u, g) == /\ g \in Nat /\ g % u = 0
                   /\ x <= 10000 * g /\ 10000 * g < x + 10000 * u

\* Division by a constant, rounded to the nearest, is half a unit off at most.
LEMMA ColumnIsNear ==
  ASSUME NEW x \in Nat
  PROVE  IsNear(x, Column(x))
<1>1. Column(x) = (2 * x + 10000) \div 20000
  BY SMT DEF Column, RoundDiv, Paisa
<1> QED BY <1>1, SMT DEF IsNear

\* applyBillRounding takes the least multiple of the unit that covers the sum.
LEMMA RoundedUpCovers ==
  ASSUME NEW x \in Nat, NEW u \in {500, 10000}
  PROVE  Covers(x, u, RoundedUp(x, u))
<1>1. CASE x = 0
  BY <1>1, SMT DEF RoundedUp, Covers
<1>2. CASE x > 0 /\ u = 500
  <2> DEFINE q == (x + 4999999) \div 5000000
  <2>1. RoundedUp(x, u) = q * 500
    BY <1>2, SMT DEF RoundedUp, Paisa
  <2>2. /\ q \in Nat /\ x <= 5000000 * q /\ 5000000 * q < x + 5000000
    BY <1>2, SMT
  <2> HIDE DEF q
  <2> QED BY <1>2, <2>1, <2>2, SMT DEF Covers
<1>3. CASE x > 0 /\ u = 10000
  <2> DEFINE q == (x + 99999999) \div 100000000
  <2>1. RoundedUp(x, u) = q * 10000
    BY <1>3, SMT DEF RoundedUp, Paisa
  <2>2. /\ q \in Nat /\ x <= 100000000 * q /\ 100000000 * q < x + 100000000
    BY <1>3, SMT
  <2> HIDE DEF q
  <2> QED BY <1>3, <2>1, <2>2, SMT DEF Covers
<1> QED BY <1>1, <1>2, <1>3

\* Grams with four decimals keep a tola of four decimals.
LEMMA TolaKept ==
  ASSUME NEW v \in Nat
  PROVE  BillTola(Grams(v, "tola")) = v
<1> DEFINE g == (2916 * v + 125) \div 250
<1>1. Grams(v, "tola") = g
  BY SMT DEF Grams, RoundDiv
<1>2. g \in Nat /\ 250 * g <= 2916 * v + 125 /\ 2916 * v + 125 < 250 * g + 250
  BY SMT
<1> HIDE DEF g
<1>3. BillTola(g) = (250 * g + 1458) \div 2916
  BY <1>2, SMT DEF BillTola, RoundDiv
<1> QED BY <1>1, <1>2, <1>3, SMT

\* They keep a lal of two decimals.
LEMMA LalKept ==
  ASSUME NEW w \in Nat
  PROVE  BillLal(Grams(100 * w, "lal")) = w
<1> DEFINE g == (145800 * w + 6250) \div 12500
<1>1. Grams(100 * w, "lal") = g
  BY SMT DEF Grams, RoundDiv
<1>2. /\ g \in Nat
      /\ 12500 * g <= 145800 * w + 6250 /\ 145800 * w + 6250 < 12500 * g + 12500
  BY SMT
<1> HIDE DEF g
<1> DEFINE h == (12500 * g + 729) \div 1458
<1>3. BillLal(g) = (2 * h + 100) \div 200
  BY <1>2, SMT DEF BillLal, RoundDiv
<1>4. h \in Nat /\ 1458 * h <= 12500 * g + 729 /\ 12500 * g + 729 < 1458 * h + 1458
  BY <1>2, SMT
<1> HIDE DEF h
<1>5. 100 * w - 50 <= h /\ h < 100 * w + 50
  BY <1>2, <1>4, SMT
<1> QED BY <1>1, <1>3, <1>4, <1>5, SMT

-----------------------------------------------------------------------------
(* The invariant.                                                          *)

\* A priced line.
LineRow == [entry: Entries, gross: Nat, metal: Nat, luxury: Nat, vat: Nat, total: Nat]

\* Lines are priced from entries; the total of a stored bill is right.
BillInv ==
  /\ sub \in Nat
  /\ lines \in Seq(LineRow)
  /\ \A k \in 1..Len(lines) :
       lines[k].gross = Grams(lines[k].entry.value, lines[k].entry.unit)
  /\ TotalIsRoundedUp

\* An element of a sequence.
LEMMA ElementOf ==
  ASSUME NEW S, NEW s \in Seq(S), NEW k \in 1..Len(s)
  PROVE  s[k] \in S
OBVIOUS

LEMMA GramsType ==
  ASSUME NEW v \in Nat, NEW u \in Units
  PROVE  Grams(v, u) \in Nat
<1>1. CASE u = "gram"
  BY <1>1 DEF Grams
<1>2. CASE u = "tola"
  BY <1>2, SMT DEF Grams, RoundDiv
<1>3. CASE u = "lal"
  BY <1>3, SMT DEF Grams, RoundDiv
<1> QED BY <1>1, <1>2, <1>3 DEF Units

LEMMA PerCentType ==
  ASSUME NEW x \in Nat, NEW p \in 0..100
  PROVE  PerCent(x, p) \in Nat
<1>1. x * p \in Nat
  BY SMT
<1> QED BY <1>1, SMT DEF PerCent

LEMMA PricedType ==
  ASSUME NEW e \in Entries
  PROVE  /\ Priced(e) \in LineRow
         /\ Priced(e).entry = e /\ Priced(e).gross = Grams(e.value, e.unit)
<1> DEFINE gross  == Grams(e.value, e.unit)
           metal  == (gross + e.jerty) * e.rate
           jyala  == e.jyala * Paisa
           luxury == IF e.luxury /\ e.gold THEN PerCent(metal, LuxuryPct) ELSE 0
           vat    == IF e.vat THEN PerCent(jyala, VatPct) ELSE 0
           total  == metal + jyala + luxury + vat + e.addon * Paisa
<1>1. /\ e.value \in Nat /\ e.unit \in Units /\ e.jerty \in Nat /\ e.rate \in Nat
      /\ e.jyala \in Nat /\ e.addon \in Nat
      /\ LuxuryPct \in 0..100 /\ VatPct \in 0..100
  BY FiguresAssumption DEF Entry
<1>2. gross \in Nat
  BY <1>1, GramsType
<1> HIDE DEF gross
<1>3. gross + e.jerty \in Nat
  BY <1>1, <1>2, SMT
<1>4. metal \in Nat
  BY <1>1, <1>3, SMT
<1> HIDE DEF metal
<1>5. jyala \in Nat /\ e.addon * Paisa \in Nat
  BY <1>1, SMT DEF Paisa
<1> HIDE DEF jyala
<1>6. luxury \in Nat /\ vat \in Nat
  BY <1>1, <1>4, <1>5, PerCentType
<1> HIDE DEF luxury, vat
<1>7. total \in Nat
  BY <1>4, <1>5, <1>6, SMT
<1> HIDE DEF total
<1>8. Priced(e) = [entry |-> e, gross |-> gross, metal |-> metal,
                     luxury |-> luxury, vat |-> vat, total |-> total]
  BY DEF Priced, gross, metal, jyala, luxury, vat, total
<1> QED BY <1>2, <1>4, <1>6, <1>7, <1>8 DEF gross, LineRow

-----------------------------------------------------------------------------
LEMMA AddLineKeeps ==
  ASSUME BillInv, NEW e \in Entries, AddLine(e)
  PROVE  BillInv'
<1> DEFINE p == Priced(e)
<1>1. p \in LineRow /\ p.entry = e /\ p.gross = Grams(e.value, e.unit)
  BY PricedType
<1> HIDE DEF p
<1>2. lines' = Append(lines, p) /\ sub' = sub + p.total /\ row' = NoRow
  BY DEF AddLine, p
<1>3. sub' \in Nat
  BY <1>1, <1>2 DEF BillInv, LineRow
<1>4. lines' \in Seq(LineRow)
  BY <1>1, <1>2 DEF BillInv
<1>5. ASSUME NEW k \in 1..Len(lines')
      PROVE  lines'[k].gross = Grams(lines'[k].entry.value, lines'[k].entry.unit)
  <2>1. CASE k \in 1..Len(lines)
    <3>1. lines'[k] = lines[k]
      BY <1>2, <2>1 DEF BillInv
    <3> QED BY <2>1, <3>1 DEF BillInv
  <2>2. CASE k = Len(lines) + 1
    <3>1. lines'[k] = p
      BY <1>2, <2>2 DEF BillInv
    <3> QED BY <1>1, <3>1
  <2> QED BY <1>2, <1>5, <2>1, <2>2 DEF BillInv
<1>6. TotalIsRoundedUp'
  BY <1>2 DEF TotalIsRoundedUp, Stored
<1> QED BY <1>3, <1>4, <1>5, <1>6 DEF BillInv

LEMMA StoreKeeps ==
  ASSUME BillInv, NEW d \in Discounts, Store(d)
  PROVE  BillInv'
<1> DEFINE payable == sub - d * Paisa
           u       == UnitOf(lines)
           grand   == RoundedUp(payable, u)
           c       == Column(sub)
<1>1. sub \in Nat /\ d \in Nat
  BY FiguresAssumption DEF BillInv
<1>2. payable \in Nat /\ payable = sub - 10000 * d
  BY <1>1, SMT DEF Store, Paisa
<1>3. u \in {500, 10000}
  BY DEF UnitOf
<1>4. /\ row'.grand = grand /\ row'.sub = c /\ row'.discount = d
      /\ lines' = lines /\ sub' = sub
  BY DEF Store
<1>5. u = IF \E k \in 1..Len(lines) : lines[k].entry.gold THEN 10000 ELSE 500
  BY DEF UnitOf
<1> HIDE DEF payable, u
<1>6. IsNear(sub, c)
  BY <1>1, ColumnIsNear
<1>7. Covers(payable, u, grand)
  BY <1>2, <1>3, RoundedUpCovers
<1> HIDE DEF grand, c
<1>8. u \in Nat
  BY <1>3
<1>9. /\ c \in Nat /\ 10000 * c <= sub + 5000 /\ sub < 10000 * c + 5000
      /\ grand \in Nat /\ grand % u = 0
      /\ payable <= 10000 * grand /\ 10000 * grand < payable + 10000 * u
  BY <1>6, <1>7 DEF IsNear, Covers
<1>10. c - d <= grand /\ grand <= c - d + u
  BY <1>1, <1>2, <1>8, <1>9, SMT
<1>11. TotalIsRoundedUp'
  BY <1>4, <1>5, <1>10, <1>9 DEF TotalIsRoundedUp
<1> QED BY <1>4, <1>11 DEF BillInv

-----------------------------------------------------------------------------
\* The invariant behind both theorems.
LEMMA BillInvHolds == Spec => []BillInv
<1>1. Init => BillInv
  BY DEF Init, BillInv, TotalIsRoundedUp, Stored
<1>2. BillInv /\ [Next]_vars => BillInv'
  <2> SUFFICES ASSUME BillInv, [Next]_vars PROVE BillInv'
    OBVIOUS
  <2>1. CASE Next
    BY <2>1, AddLineKeeps, StoreKeeps DEF Next
  <2>2. CASE UNCHANGED vars
    BY <2>2 DEF vars, BillInv, TotalIsRoundedUp, Stored
  <2> QED BY <2>1, <2>2
<1> QED BY <1>1, <1>2, PTL DEF Spec

\* The total a customer is asked for is a multiple of the unit, covers what the
\* columns say and is at most one unit above it, whatever is on the bill.
THEOREM TotalIsRoundedUpHolds == Spec => []TotalIsRoundedUp
<1>1. Spec => []BillInv
  BY BillInvHolds
<1>2. BillInv => TotalIsRoundedUp
  BY DEF BillInv
<1> QED BY <1>1, <1>2, PTL

\* Weights of any size typed in tola or lal are shown again as they were typed.
THEOREM ShownAsEnteredHolds == Spec => []ShownAsEntered
<1>1. Spec => []BillInv
  BY BillInvHolds
<1>2. BillInv => ShownAsEntered
  <2> SUFFICES ASSUME BillInv, NEW k \in 1..Len(lines)
               PROVE  LET e == lines[k].entry IN
                 /\ e.unit = "gram" => lines[k].gross = e.value
                 /\ e.unit = "tola" => BillTola(lines[k].gross) = e.value
                 /\ e.unit = "lal" /\ e.value % 100 = 0 =>
                      BillLal(lines[k].gross) * 100 = e.value
    BY DEF ShownAsEntered
  <2> DEFINE e == lines[k].entry
  <2>1. e \in Entry /\ lines[k].gross = Grams(e.value, e.unit)
    <3>1. lines \in Seq(LineRow)
      BY DEF BillInv
    <3>2. lines[k] \in LineRow
      BY <3>1, ElementOf
    <3>3. lines[k].entry \in Entries
      BY <3>2 DEF LineRow
    <3> QED BY <3>3, FiguresAssumption DEF BillInv
  <2> HIDE DEF e
  <2>2. e.value \in Nat
    BY <2>1 DEF Entry
  <2>3. e.unit = "gram" => lines[k].gross = e.value
    BY <2>1 DEF Grams
  <2>4. e.unit = "tola" => BillTola(lines[k].gross) = e.value
    BY <2>1, <2>2, TolaKept
  <2>5. ASSUME e.unit = "lal", e.value % 100 = 0
        PROVE  BillLal(lines[k].gross) * 100 = e.value
    <3>1. PICK w \in Nat : e.value = 100 * w
      <4>1. e.value \div 100 \in Nat /\ e.value = 100 * (e.value \div 100)
        BY <2>2, <2>5, SMT
      <4> QED BY <4>1
    <3>2. BillLal(lines[k].gross) = w
      BY <2>1, <2>5, <3>1, LalKept
    <3> QED BY <3>1, <3>2, SMT
  <2> QED BY <2>3, <2>4, <2>5 DEF e
<1> QED BY <1>1, <1>2, PTL

-----------------------------------------------------------------------------
(* The columns of a stored bill.                                           *)

\* The sub-total of createSell is the sum of the totals of its lines.
SubIsSum ==
  LET sum[k \in 0..Len(lines)] ==
        IF k = 0 THEN 0 ELSE sum[k - 1] + lines[k].total
  IN  sub = sum[Len(lines)]

\* A line's total is what it is made of.
LinesPriced ==
  \A k \in 1..Len(lines) :
    lines[k].total = lines[k].metal + lines[k].entry.jyala * Paisa
                       + lines[k].luxury + lines[k].vat + lines[k].entry.addon * Paisa

\* What is stored is the bill as it stands, each figure cut to its column.
RowIsBill ==
  Stored =>
    LET payable == sub - row.discount * Paisa IN
    /\ lines # <<>> /\ row.discount \in Nat /\ row.discount * Paisa <= sub
    /\ row.sub = Column(sub) /\ row.grand = RoundedUp(payable, UnitOf(lines))
    /\ row.rounding = IF payable <= 0 THEN 0 ELSE Column(row.grand * Paisa - payable)
    /\ row.lines = [k \in 1..Len(lines) |-> LineColumns(lines[k])]

ColumnsInv == BillInv /\ SubIsSum /\ LinesPriced /\ RowIsBill

LEMMA SubIsRunning ==
  ASSUME Len(lines) \in Nat
  PROVE  SubIsSum <=> \E g : /\ Running(g, [k \in 1..Len(lines) |-> lines[k].total], Len(lines))
                             /\ sub = g[Len(lines)]
<1>. DEFINE n == Len(lines)
            t == [k \in 1..n |-> lines[k].total]
            Sum(g) == g = [k \in 0..n |-> IF k = 0 THEN 0 ELSE g[k - 1] + lines[k].total]
<1>1. ASSUME NEW g PROVE Sum(g) <=> Running(g, t, n)
  <2>1. \A k \in 0..n : k # 0 => t[k] = lines[k].total
    OBVIOUS
  <2>2. [k \in 0..n |-> IF k = 0 THEN 0 ELSE g[k - 1] + lines[k].total]
          = [k \in 0..n |-> IF k = 0 THEN 0 ELSE g[k - 1] + t[k]]
    BY <2>1
  <2>. QED
    BY <2>2 DEF Running
<1>2. \E g : Sum(g)
  BY <1>1, RunningExists
<1>3. Running(CHOOSE g : Sum(g), t, n)
  BY <1>1, <1>2
<1>4. \A g : Running(g, t, n) => g = CHOOSE f : Sum(f)
  <2>. HIDE DEF t, n, Sum
  <2>. QED
    BY <1>3, RunningUnique DEF n
<1>5. SubIsSum <=> sub = (CHOOSE g : Sum(g))[n]
  BY DEF SubIsSum
<1>. QED
  BY <1>3, <1>4, <1>5

LEMMA PricedTotal ==
  ASSUME NEW e
  PROVE  Priced(e).total = Priced(e).metal + e.jyala * Paisa + Priced(e).luxury
                             + Priced(e).vat + e.addon * Paisa
BY DEF Priced

LEMMA AddLineKeepsColumns ==
  ASSUME ColumnsInv, NEW e \in Entries, AddLine(e)
  PROVE  ColumnsInv'
<1>. DEFINE p == Priced(e)
            n == Len(lines)
<1>1. BillInv'
  BY AddLineKeeps DEF ColumnsInv
<1>2. p.entry = e
  BY PricedType
<1>3. /\ p.total = p.metal + p.entry.jyala * Paisa + p.luxury + p.vat
                     + p.entry.addon * Paisa
  BY <1>2, PricedTotal
<1>. HIDE DEF p
<1>4. lines' = Append(lines, p) /\ sub' = sub + p.total /\ row' = NoRow
  BY DEF AddLine, p
<1>5. lines \in Seq(LineRow) /\ n \in Nat
  BY DEF ColumnsInv, BillInv
<1>6. /\ Len(lines') = n + 1 /\ lines'[n + 1] = p
      /\ \A k \in 1..n : lines'[k] = lines[k]
  BY <1>4, <1>5
<1>7. LinesPriced'
  <2>. SUFFICES ASSUME NEW k \in 1..n + 1
                PROVE  lines'[k].total = lines'[k].metal + lines'[k].entry.jyala * Paisa
                         + lines'[k].luxury + lines'[k].vat + lines'[k].entry.addon * Paisa
    BY <1>6 DEF LinesPriced
  <2>1. CASE k \in 1..n
    BY <1>6, <2>1 DEF ColumnsInv, LinesPriced
  <2>2. CASE k = n + 1
    BY <1>3, <1>6, <2>2
  <2>. QED
    BY <1>5, <2>1, <2>2
<1>8. SubIsSum'
  <2>. DEFINE t == [k \in 1..n |-> lines[k].total]
              u == [k \in 1..n + 1 |-> lines'[k].total]
  <2>1. PICK h : Running(h, t, n) /\ sub = h[n]
    BY <1>5, SubIsRunning DEF ColumnsInv
  <2>2. (\A k \in 1..n : u[k] = t[k]) /\ u[n + 1] = p.total
    BY <1>5, <1>6
  <2>3. \E g : Running(g, u, n + 1) /\ g[n + 1] = h[n] + u[n + 1]
    <3>. HIDE DEF t, u
    <3>. QED
      BY <1>5, <2>1, <2>2, RunningExtend
  <2>4. \E g : Running(g, u, n + 1) /\ sub' = g[n + 1]
    <3>. HIDE DEF u
    <3>. QED
      BY <1>4, <2>1, <2>2, <2>3
  <2>5. Len(lines)' \in Nat /\ Len(lines)' = n + 1
    BY <1>5, <1>6
  <2>6. (Len(lines) \in Nat =>
          (SubIsSum <=> \E g : /\ Running(g, [k \in 1..Len(lines) |-> lines[k].total], Len(lines))
                               /\ sub = g[Len(lines)]))'
    BY SubIsRunning, PTL
  <2>. QED
    BY <2>4, <2>5, <2>6
<1>9. RowIsBill'
  BY <1>4 DEF RowIsBill, Stored
<1>. QED
  BY <1>1, <1>7, <1>8, <1>9 DEF ColumnsInv

LEMMA StoreKeepsColumns ==
  ASSUME ColumnsInv, NEW d \in Discounts, Store(d)
  PROVE  ColumnsInv'
<1>1. BillInv'
  BY StoreKeeps DEF ColumnsInv
<1>2. UNCHANGED <<lines, sub>>
  BY DEF Store
<1>3. SubIsSum' /\ LinesPriced'
  BY <1>2 DEF ColumnsInv, SubIsSum, LinesPriced
<1>4. d \in Nat
  BY FiguresAssumption
<1>5. /\ lines # <<>> /\ row'.discount = d /\ d * Paisa <= sub
      /\ row'.sub = Column(sub)
      /\ row'.grand = RoundedUp(sub - d * Paisa, UnitOf(lines))
      /\ row'.rounding = IF sub - d * Paisa <= 0 THEN 0
                         ELSE Column(row'.grand * Paisa - (sub - d * Paisa))
      /\ row'.lines = [k \in 1..Len(lines) |-> LineColumns(lines[k])]
  BY DEF Store
<1>6. RowIsBill'
  BY <1>2, <1>4, <1>5 DEF RowIsBill
<1>. QED
  BY <1>1, <1>3, <1>6 DEF ColumnsInv

\* What the customer reads of a line.
Shown(c) == CustomerLine(c).amount + CustomerLine(c).tax

\* A line with its figures, and a total that is their sum.
IsPriced(line) ==
  /\ line.metal \in Nat /\ line.luxury \in Nat /\ line.vat \in Nat
  /\ line.entry.jyala \in Nat /\ line.entry.addon \in Nat
  /\ line.total = line.metal + line.entry.jyala * Paisa + line.luxury + line.vat
                    + line.entry.addon * Paisa

\* The columns of a line, and what the customer reads of it, are near its total.
LEMMA LineIsNear ==
  ASSUME NEW line, IsPriced(line), NEW c, c = LineColumns(line)
  PROVE  /\ Within(10000, 5000, c.total, line.total)
         /\ Within(10000, 15000, Shown(c), line.total)
         /\ Within(1, 2, Shown(c), c.total)
         /\ CustomerLine(c).amount \in Nat /\ CustomerLine(c).tax \in Nat
<1>1. line.total \in Nat
  BY DEF IsPriced, Paisa
<1>2. /\ c.metal = Column(line.metal) /\ c.luxury = Column(line.luxury)
      /\ c.vat = Column(line.vat) /\ c.total = Column(line.total)
      /\ c.jyala = line.entry.jyala /\ c.addon = line.entry.addon
  BY DEF LineColumns
<1>3. /\ CustomerLine(c).amount = c.metal + c.jyala + c.addon
      /\ CustomerLine(c).tax = c.luxury + c.vat
  BY DEF CustomerLine
<1>4. /\ IsNear(line.metal, c.metal) /\ IsNear(line.luxury, c.luxury)
      /\ IsNear(line.vat, c.vat) /\ IsNear(line.total, c.total)
  BY <1>1, <1>2, ColumnIsNear DEF IsPriced
<1>5. line.total = line.metal + 10000 * c.jyala + line.luxury + line.vat + 10000 * c.addon
  BY <1>2 DEF IsPriced, Paisa
<1>6. c.jyala \in Nat /\ c.addon \in Nat
  BY <1>2 DEF IsPriced
<1>. QED
  BY <1>1, <1>3, <1>4, <1>5, <1>6 DEF IsNear, IsPriced, Shown, Within

\* The two totals of the customer's bill are the sum of what its lines show.
LEMMA BillTotalsRunning ==
  ASSUME NEW n \in Nat,
         \A k \in 1..n : /\ CustomerLine(row.lines[k]).amount \in Int
                         /\ CustomerLine(row.lines[k]).tax \in Int
  PROVE  \E g : /\ Running(g, [k \in 1..n |-> Shown(row.lines[k])], n)
                /\ BillTotals(n).amount + BillTotals(n).tax = g[n]
<1>. DEFINE am == [k \in 1..n |-> CustomerLine(row.lines[k]).amount]
            tx == [k \in 1..n |-> CustomerLine(row.lines[k]).tax]
            u  == [k \in 1..n |-> Shown(row.lines[k])]
            Sum(f) == f = [i \in 0..n |->
                        IF i = 0 THEN [amount |-> 0, tax |-> 0]
                        ELSE LET line == CustomerLine(row.lines[i])
                             IN  [amount |-> f[i - 1].amount + line.amount,
                                  tax |-> f[i - 1].tax + line.tax]]
<1>1. \E f : Sum(f)
  <2>1. PICK a : Running(a, am, n)
    <3>. HIDE DEF am
    <3>. QED
      BY RunningExists
  <2>2. PICK b : Running(b, tx, n)
    <3>. HIDE DEF tx
    <3>. QED
      BY RunningExists
  <2>. DEFINE f == [i \in 0..n |-> [amount |-> a[i], tax |-> b[i]]]
  <2>3. \A i \in 0..n :
          /\ a[i] = IF i = 0 THEN 0 ELSE a[i - 1] + am[i]
          /\ b[i] = IF i = 0 THEN 0 ELSE b[i - 1] + tx[i]
    <3>. HIDE DEF am, tx
    <3>. QED
      BY <2>1, <2>2 DEF Running
  <2>4. ASSUME NEW i \in 0..n
        PROVE  f[i] = IF i = 0 THEN [amount |-> 0, tax |-> 0]
                      ELSE LET line == CustomerLine(row.lines[i])
                           IN  [amount |-> f[i - 1].amount + line.amount,
                                tax |-> f[i - 1].tax + line.tax]
    <3>1. CASE i = 0
      BY <2>3, <3>1
    <3>2. CASE i # 0
      <4>1. i - 1 \in 0..n /\ i \in 1..n
        BY <3>2
      <4>2. f[i - 1] = [amount |-> a[i - 1], tax |-> b[i - 1]]
        BY <4>1
      <4>3. /\ a[i] = f[i - 1].amount + CustomerLine(row.lines[i]).amount
            /\ b[i] = f[i - 1].tax + CustomerLine(row.lines[i]).tax
        BY <2>3, <3>2, <4>1, <4>2
      <4>4. f[i] = [amount |-> a[i], tax |-> b[i]]
        OBVIOUS
      <4>. HIDE DEF f
      <4>. QED
        BY <3>2, <4>3, <4>4
    <3>. QED
      BY <3>1, <3>2
  <2>5. Sum(f)
    <3>. HIDE DEF f
    <3>1. f = [i \in 0..n |-> f[i]]
      BY DEF f
    <3>. QED
      BY <2>4, <3>1
  <2>. QED
    BY <2>5
<1>2. PICK f : f = (CHOOSE g : Sum(g)) /\ Sum(f)
  BY <1>1
<1>3. BillTotals(n) = f[n]
  BY <1>2 DEF BillTotals
<1>4. /\ f[0].amount = 0 /\ f[0].tax = 0
      /\ \A i \in 1..n :
           /\ f[i].amount = f[i - 1].amount + CustomerLine(row.lines[i]).amount
           /\ f[i].tax = f[i - 1].tax + CustomerLine(row.lines[i]).tax
  <2>1. \A i \in 0..n :
          f[i] = IF i = 0 THEN [amount |-> 0, tax |-> 0]
                 ELSE [amount |-> f[i - 1].amount + CustomerLine(row.lines[i]).amount,
                       tax |-> f[i - 1].tax + CustomerLine(row.lines[i]).tax]
    BY <1>2
  <2>2. f[0] = [amount |-> 0, tax |-> 0]
    <3>1. 0 \in 0..n
      OBVIOUS
    <3>. QED
      BY <2>1, <3>1, Zenon
  <2>3. ASSUME NEW i \in 1..n
        PROVE  f[i] = [amount |-> f[i - 1].amount + CustomerLine(row.lines[i]).amount,
                       tax |-> f[i - 1].tax + CustomerLine(row.lines[i]).tax]
    BY <2>1
  <2>. HIDE DEF Sum
  <2>4. f[0].amount = 0 /\ f[0].tax = 0
    BY <2>2
  <2>5. ASSUME NEW i \in 1..n
        PROVE  /\ f[i].amount = f[i - 1].amount + CustomerLine(row.lines[i]).amount
               /\ f[i].tax = f[i - 1].tax + CustomerLine(row.lines[i]).tax
    <3>1. PICK x, y : /\ x = f[i - 1].amount + CustomerLine(row.lines[i]).amount
                      /\ y = f[i - 1].tax + CustomerLine(row.lines[i]).tax
      OBVIOUS
    <3>2. f[i] = [amount |-> x, tax |-> y]
      BY <2>3, <3>1
    <3>. QED
      BY <3>1, <3>2
  <2>. QED
    BY <2>4, <2>5
<1>. HIDE DEF Sum
<1>. DEFINE a == [i \in 0..n |-> f[i].amount]
            b == [i \in 0..n |-> f[i].tax]
            g == [i \in 0..n |-> f[i].amount + f[i].tax]
<1>5. Running(a, am, n)
  <2>1. ASSUME NEW i \in 0..n PROVE a[i] = IF i = 0 THEN 0 ELSE a[i - 1] + am[i]
    BY <1>4
  <2>. QED
    BY <2>1, Zenon DEF Running
<1>6. Running(b, tx, n)
  <2>1. ASSUME NEW i \in 0..n PROVE b[i] = IF i = 0 THEN 0 ELSE b[i - 1] + tx[i]
    BY <1>4
  <2>. QED
    BY <2>1, Zenon DEF Running
<1>7. \A i \in 0..n : a[i] \in Int /\ b[i] \in Int
  <2>1. \A k \in 1..n : am[k] \in Int /\ tx[k] \in Int
    OBVIOUS
  <2>. HIDE DEF a, b, am, tx
  <2>. QED
    BY <1>5, <1>6, <2>1, RunningType
<1>8. \A i \in 0..n : f[i].amount \in Int /\ f[i].tax \in Int
  BY <1>7
<1>9. Running(g, u, n)
  <2>1. ASSUME NEW i \in 0..n PROVE g[i] = IF i = 0 THEN 0 ELSE g[i - 1] + u[i]
    <3>1. CASE i = 0
      BY <1>4, <3>1
    <3>2. CASE i # 0
      <4>1. i \in 1..n /\ i - 1 \in 0..n
        BY <3>2
      <4>2. /\ f[i].amount = f[i - 1].amount + CustomerLine(row.lines[i]).amount
            /\ f[i].tax = f[i - 1].tax + CustomerLine(row.lines[i]).tax
            /\ f[i - 1].amount \in Int /\ f[i - 1].tax \in Int
            /\ CustomerLine(row.lines[i]).amount \in Int
            /\ CustomerLine(row.lines[i]).tax \in Int
        BY <1>4, <1>8, <4>1
      <4>3. u[i] = CustomerLine(row.lines[i]).amount + CustomerLine(row.lines[i]).tax
        BY <4>1 DEF Shown
      <4>4. g[i] = f[i].amount + f[i].tax /\ g[i - 1] = f[i - 1].amount + f[i - 1].tax
        BY <4>1
      <4>. HIDE DEF g, u
      <4>. QED
        BY <3>2, <4>2, <4>3, <4>4
    <3>. QED
      BY <3>1, <3>2
  <2>. QED
    BY <2>1, Zenon DEF Running
<1>10. BillTotals(n).amount + BillTotals(n).tax = g[n]
  BY <1>3
<1>. HIDE DEF g, u
<1>. QED
  BY <1>9, <1>10 DEF u

LEMMA NonEmpty == ASSUME NEW S, NEW s \in Seq(S), s # <<>> PROVE Len(s) \in Nat /\ Len(s) >= 1
OBVIOUS

LEMMA ListLen == ASSUME NEW n \in Nat, NEW s, s = [k \in 1..n |-> s[k]] PROVE Len(s) = n
<1>1. s \in Seq({s[k] : k \in 1..n})
  OBVIOUS
<1>. QED
  BY <1>1

\* The sum of the totals' columns.
ColumnTotal(n) ==
  LET sum[k \in 0..n] == IF k = 0 THEN 0 ELSE sum[k - 1] + row.lines[k].total
  IN  sum[n]

LEMMA ColumnTotalRunning ==
  ASSUME NEW n \in Nat
  PROVE  \E g : /\ Running(g, [k \in 1..n |-> row.lines[k].total], n)
                /\ ColumnTotal(n) = g[n]
<1>. DEFINE cut == [k \in 1..n |-> row.lines[k].total]
            Sum(g) == g = [k \in 0..n |-> IF k = 0 THEN 0 ELSE g[k - 1] + row.lines[k].total]
<1>1. ASSUME NEW g PROVE Sum(g) <=> Running(g, cut, n)
  <2>1. \A k \in 0..n : k # 0 => cut[k] = row.lines[k].total
    OBVIOUS
  <2>2. [k \in 0..n |-> IF k = 0 THEN 0 ELSE g[k - 1] + row.lines[k].total]
          = [k \in 0..n |-> IF k = 0 THEN 0 ELSE g[k - 1] + cut[k]]
    BY <2>1
  <2>. QED
    BY <2>2 DEF Running
<1>2. \E g : Sum(g)
  BY <1>1, RunningExists
<1>3. Running(CHOOSE g : Sum(g), cut, n)
  BY <1>1, <1>2
<1>. QED
  BY <1>3 DEF ColumnTotal

\* The columns of the totals, summed, are near the sum of the totals.
LEMMA ColumnSumNear ==
  ASSUME NEW n \in Nat, NEW h, NEW t, Running(h, t, n),
         \A k \in 1..n : Within(10000, 5000, row.lines[k].total, t[k])
  PROVE  Within(10000, n * 5000, ColumnTotal(n), h[n])
<1>. DEFINE cut == [k \in 1..n |-> row.lines[k].total]
<1>1. PICK g : Running(g, cut, n) /\ ColumnTotal(n) = g[n]
  BY ColumnTotalRunning
<1>2. \A k \in 1..n : Within(10000, 5000, cut[k], t[k])
  OBVIOUS
<1>3. 10000 \in Int /\ 5000 \in Int
  OBVIOUS
<1>. HIDE DEF cut
<1>4. Within(10000, n * 5000, g[n], h[n])
  BY <1>1, <1>2, <1>3, RunningWithin
<1>. QED
  BY <1>1, <1>4

\* So are the totals of the customer's bill.
LEMMA ShownSumNear ==
  ASSUME NEW n \in Nat, NEW h, NEW t, Running(h, t, n),
         \A k \in 1..n : /\ CustomerLine(row.lines[k]).amount \in Int
                         /\ CustomerLine(row.lines[k]).tax \in Int
                         /\ Within(10000, 15000, Shown(row.lines[k]), t[k])
  PROVE  Within(10000, n * 15000, BillTotals(n).amount + BillTotals(n).tax, h[n])
<1>. DEFINE u == [k \in 1..n |-> Shown(row.lines[k])]
<1>0. \A k \in 1..n : /\ CustomerLine(row.lines[k]).amount \in Int
                      /\ CustomerLine(row.lines[k]).tax \in Int
  OBVIOUS
<1>1. PICK g : Running(g, u, n) /\ BillTotals(n).amount + BillTotals(n).tax = g[n]
  BY <1>0, BillTotalsRunning
<1>2. \A k \in 1..n : Within(10000, 15000, u[k], t[k])
  OBVIOUS
<1>3. 10000 \in Int /\ 15000 \in Int
  OBVIOUS
<1>. HIDE DEF u
<1>4. Within(10000, n * 15000, g[n], h[n])
  BY <1>1, <1>2, <1>3, RunningWithin
<1>. QED
  BY <1>1, <1>4

\* A stored line and the line it was computed from.
LEMMA StoredLine ==
  ASSUME ColumnsInv, Stored, NEW k \in 1..Len(lines), NEW c, c = row.lines[k]
  PROVE  /\ Within(10000, 5000, c.total, lines[k].total)
         /\ Within(10000, 15000, Shown(c), lines[k].total)
         /\ Within(1, 2, Shown(c), c.total)
         /\ CustomerLine(c).amount \in Nat /\ CustomerLine(c).tax \in Nat
<1>1. c = LineColumns(lines[k])
  BY DEF ColumnsInv, RowIsBill
<1>2. PICK line : line = lines[k] /\ line \in LineRow
  <2>1. lines \in Seq(LineRow)
    BY DEF ColumnsInv, BillInv
  <2>. QED
    BY <2>1, ElementOf
<1>3. /\ line.metal \in Nat /\ line.luxury \in Nat /\ line.vat \in Nat
      /\ line.entry \in Entry
  BY <1>2, FiguresAssumption DEF LineRow
<1>4. line.entry.jyala \in Nat /\ line.entry.addon \in Nat
  BY <1>3 DEF Entry
<1>5. line.total = line.metal + line.entry.jyala * Paisa + line.luxury + line.vat
                     + line.entry.addon * Paisa
  BY <1>2 DEF ColumnsInv, LinesPriced
<1>6. IsPriced(line)
  BY <1>3, <1>4, <1>5 DEF IsPriced
<1>. QED
  BY <1>1, <1>2, <1>6, LineIsNear

\* Sub-total, discount and rounding make the total.
LEMMA RoundingNear ==
  ASSUME ColumnsInv, Stored
  PROVE  LET owed == row.sub - row.discount + row.rounding
         IN  owed - row.grand <= 1 /\ row.grand - owed <= 1
<1>1. PICK d, u, pay, s, c : /\ d = row.discount /\ u = UnitOf(lines) /\ s = sub
                             /\ pay = s - d * Paisa /\ c = row.sub
  OBVIOUS
<1>2. PICK grand, rounding : grand = row.grand /\ rounding = row.rounding
  OBVIOUS
<1>3. /\ d \in Nat /\ d * Paisa <= s /\ grand = RoundedUp(pay, u) /\ c = Column(s)
      /\ rounding = IF pay <= 0 THEN 0 ELSE Column(grand * Paisa - pay)
  BY <1>1, <1>2 DEF ColumnsInv, RowIsBill
<1>4. s \in Nat
  BY <1>1 DEF ColumnsInv, BillInv
<1>5. pay \in Nat /\ pay = s - 10000 * d
  BY <1>1, <1>3, <1>4 DEF Paisa
<1>6. u \in {500, 10000}
  BY <1>1 DEF UnitOf
<1>7. Covers(pay, u, grand) /\ IsNear(s, c)
  BY <1>3, <1>4, <1>5, <1>6, RoundedUpCovers, ColumnIsNear
<1>8. CASE pay = 0
  <2>1. grand = 0 /\ rounding = 0
    BY <1>3, <1>8 DEF RoundedUp
  <2>2. c - d <= 1 /\ d - c <= 1
    BY <1>3, <1>4, <1>5, <1>7, <1>8 DEF IsNear
  <2>. QED
    BY <1>1, <1>2, <1>3, <1>7, <2>1, <2>2 DEF IsNear
<1>9. CASE pay # 0
  <2>1. PICK x : x = grand * Paisa - pay
    OBVIOUS
  <2>2. x \in Nat /\ x = 10000 * grand - pay /\ grand \in Nat
    BY <1>5, <1>6, <1>7, <2>1 DEF Covers, Paisa
  <2>3. IsNear(x, rounding)
    BY <1>3, <1>5, <1>9, <2>1, <2>2, ColumnIsNear
  <2>4. (c - d + rounding) - grand <= 1 /\ grand - (c - d + rounding) <= 1
    BY <1>3, <1>4, <1>5, <1>7, <2>2, <2>3 DEF IsNear
  <2>. QED
    BY <1>1, <1>2, <2>4
<1>. QED
  BY <1>8, <1>9

\* The columns of a bill that was computed from its lines add up.
LEMMA ColumnsFollow ==
  ASSUME ColumnsInv, Stored
  PROVE  ColumnsAddUp
<1>. DEFINE n == Len(row.lines)
            total == [k \in 1..Len(lines) |-> lines[k].total]
            sum   == ColumnTotal(n)
            both == BillTotals(n).amount + BillTotals(n).tax
            Near(x, y, d) == x - y <= d /\ y - x <= d
<1>1. /\ Len(lines) \in Nat /\ Len(lines) >= 1
      /\ row.lines = [k \in 1..Len(lines) |-> LineColumns(lines[k])]
      /\ sub \in Nat /\ row.sub = Column(sub)
  BY NonEmpty DEF ColumnsInv, BillInv, RowIsBill
<1>2. n = Len(lines)
  BY <1>1, ListLen
<1>3. PICK h : Running(h, total, n) /\ sub = h[n]
  BY <1>1, <1>2, SubIsRunning DEF ColumnsInv
<1>4. ASSUME NEW k \in 1..n
      PROVE  /\ Within(10000, 5000, row.lines[k].total, total[k])
             /\ Within(10000, 15000, Shown(row.lines[k]), total[k])
             /\ Within(1, 2, Shown(row.lines[k]), row.lines[k].total)
             /\ CustomerLine(row.lines[k]).amount \in Int
             /\ CustomerLine(row.lines[k]).tax \in Int
  <2>1. k \in 1..Len(lines) /\ total[k] = lines[k].total
    BY <1>2, <1>4
  <2>. HIDE DEF total
  <2>. QED
    BY <2>1, StoredLine
<1>5. n \in Nat /\ n >= 1
  BY <1>1, <1>2
<1>. HIDE DEF total, n
<1>6. Within(10000, n * 5000, sum, h[n])
  BY <1>3, <1>4, <1>5, ColumnSumNear
<1>7. Within(10000, n * 15000, both, h[n])
  BY <1>3, <1>4, <1>5, ShownSumNear
<1>. HIDE DEF sum, both
<1>8. PICK a, b, m, s, c : a = sum /\ b = both /\ m = n /\ s = sub /\ c = row.sub
  OBVIOUS
<1>9. IsNear(s, c) /\ s \in Nat
  BY <1>1, <1>8, ColumnIsNear
<1>10. Within(10000, m * 5000, a, s) /\ Within(10000, m * 15000, b, s)
       /\ m \in Nat /\ m >= 1
  BY <1>3, <1>5, <1>6, <1>7, <1>8
<1>11. a - c <= m /\ c - a <= m /\ b - c <= 2 * m /\ c - b <= 2 * m
  BY <1>9, <1>10 DEF IsNear, Within
<1>12. Near(sum, row.sub, n) /\ Near(both, row.sub, 2 * n)
  BY <1>8, <1>11
<1>13. Near(row.sub - row.discount + row.rounding, row.grand, 1)
  BY RoundingNear
<1>14. ASSUME NEW k \in 1..n
       PROVE  Near(CustomerLine(row.lines[k]).amount + CustomerLine(row.lines[k]).tax,
                   row.lines[k].total, 2)
  <2>1. PICK x, y : x = Shown(row.lines[k]) /\ y = row.lines[k].total
    OBVIOUS
  <2>2. Within(1, 2, x, y)
    BY <1>4, <2>1
  <2>3. Near(x, y, 2)
    BY <2>2 DEF Within
  <2>. QED
    BY <2>1, <2>3 DEF Shown
<1>. HIDE DEF Near
<1>. QED
  BY <1>12, <1>13, <1>14 DEF ColumnsAddUp, ColumnTotal, sum, n, both, Near

\* ColumnsInv holds of every reachable state, for any entries and discounts.
THEOREM ColumnsInvHolds == Spec => []ColumnsInv
<1>1. Init => ColumnsInv
  <2>. SUFFICES ASSUME Init PROVE ColumnsInv
    OBVIOUS
  <2>1. lines = <<>> /\ sub = 0 /\ row = NoRow /\ Len(lines) = 0
    BY DEF Init
  <2>2. BillInv
    BY <2>1 DEF BillInv, TotalIsRoundedUp, Stored
  <2>3. SubIsSum
    <3>1. PICK g : Running(g, [k \in 1..Len(lines) |-> lines[k].total], Len(lines))
      BY <2>1, RunningExists
    <3>2. g[Len(lines)] = 0
      BY <2>1, <3>1 DEF Running
    <3>. QED
      BY <2>1, <3>1, <3>2, SubIsRunning
  <2>4. LinesPriced /\ RowIsBill
    BY <2>1 DEF LinesPriced, RowIsBill, Stored
  <2>. QED
    BY <2>2, <2>3, <2>4 DEF ColumnsInv
<1>2. ColumnsInv /\ [Next]_vars => ColumnsInv'
  <2>1. ASSUME ColumnsInv, Next PROVE ColumnsInv'
    BY <2>1, AddLineKeepsColumns, StoreKeepsColumns DEF Next
  <2>2. ASSUME ColumnsInv, UNCHANGED vars PROVE ColumnsInv'
    BY <2>2 DEF vars, ColumnsInv, BillInv, TotalIsRoundedUp, Stored, SubIsSum,
       LinesPriced, RowIsBill
  <2>. QED
    BY <2>1, <2>2
<1>. QED
  BY <1>1, <1>2, PTL DEF Spec

\* However many lines a bill has, cutting each of its figures to a paisa leaves
\* its columns, the customer's amounts and taxes, its rounding and its total
\* within the few paisa ColumnsAddUp allows.
THEOREM ColumnsAddUpHolds == Spec => []ColumnsAddUp
<1>1. ColumnsInv => ColumnsAddUp
  <2>1. ASSUME ColumnsInv, ~Stored PROVE ColumnsAddUp
    BY <2>1 DEF ColumnsAddUp
  <2>. QED
    BY <2>1, ColumnsFollow
<1>. QED
  BY <1>1, ColumnsInvHolds, PTL
=============================================================================
