--------------------------- MODULE PurchaseProofs ---------------------------
(***************************************************************************)
(* PurchaseInv is inductive, for every value of the constants: any number  *)
(* of orders, receipts and pieces.  Under it OnceInv is inductive: pieces  *)
(* are made once unless requests overlap.                                  *)
(***************************************************************************)
EXTENDS PurchaseProperties, Sums, TLAPS

\* What a request's op says about the rest of it.
LEMMA RequestTypes ==
  ASSUME NEW q \in Request
  PROVE  /\ q.op = "deactivate" => q \in DeactivateRequest
         /\ q.op = "order"      => q \in OrderRequest
         /\ q.op = "import"     => q \in ImportRequest
         /\ q.op = "receive"    => q \in ReceiveRequest
         /\ q.op = "cancel"     => q \in CancelRequest
BY DEF Request, Idle, DeactivateRequest, OrderRequest, ImportRequest,
       ReceiveRequest, CancelRequest

\* A total is the running sum of the prices.
LEMMA TotalIsRunning ==
  ASSUME NEW lines, Len(lines) \in Nat
  PROVE  \E g : /\ Running(g, [k \in 1..Len(lines) |-> lines[k].price], Len(lines))
                /\ TotalOf(lines) = g[Len(lines)]
<1>. DEFINE n == Len(lines)
            t == [k \in 1..n |-> lines[k].price]
            Sum(g) == g = [k \in 0..n |-> IF k = 0 THEN 0 ELSE g[k - 1] + lines[k].price]
<1>1. ASSUME NEW g PROVE Sum(g) <=> Running(g, t, n)
  <2>1. \A k \in 0..n : k # 0 => t[k] = lines[k].price
    OBVIOUS
  <2>2. [k \in 0..n |-> IF k = 0 THEN 0 ELSE g[k - 1] + lines[k].price]
          = [k \in 0..n |-> IF k = 0 THEN 0 ELSE g[k - 1] + t[k]]
    BY <2>1
  <2>. QED
    BY <2>2 DEF Running
<1>2. \E g : Sum(g)
  BY <1>1, RunningExists
<1>3. Running(CHOOSE g : Sum(g), t, n)
  BY <1>1, <1>2
<1>. QED
  BY <1>3 DEF TotalOf

\* A total is a natural number when the prices are.
LEMMA TotalOfType ==
  ASSUME NEW lines, Len(lines) \in Nat, \A k \in 1..Len(lines) : lines[k].price \in Nat
  PROVE  TotalOf(lines) \in Nat
<1>. DEFINE n == Len(lines)
            t == [k \in 1..n |-> lines[k].price]
<1>1. PICK g : Running(g, t, n) /\ TotalOf(lines) = g[n]
  BY TotalIsRunning
<1>2. \A k \in 1..n : t[k] \in Nat
  OBVIOUS
<1>. HIDE DEF t
<1>3. \A k \in 0..n : g[k] \in Nat
  BY <1>1, <1>2, RunningType
<1>. QED
  BY <1>1, <1>3

LEMMA TotalOfLines == ASSUME NEW lines \in Seq(LineRow) PROVE TotalOf(lines) \in Nat
<1>1. \A k \in 1..Len(lines) : lines[k] \in LineRow
  OBVIOUS
<1>2. \A k \in 1..Len(lines) : lines[k].price \in Nat
  BY <1>1 DEF LineRow
<1>. QED
  BY <1>2, TotalOfType

\* A stored price is the typed one but for half a paisa, which is rounded up.
LEMMA PaisaNear ==
  ASSUME Parts \in Nat \ {0}, NEW x \in Nat
  PROVE  /\ Paisa(x) \in Nat
         /\ 2 * Parts * Paisa(x) - 2 * x <= Parts
         /\ 2 * x - 2 * Parts * Paisa(x) <= Parts - 1
<1>. DEFINE d == 2 * Parts
            y == 2 * x + Parts
<1>1. d \in Nat \ {0} /\ y \in Nat
  OBVIOUS
<1>. HIDE DEF d, y
<1>2. y \div d \in Nat /\ d * (y \div d) <= y /\ y < d * (y \div d) + d
  BY <1>1
<1>3. Paisa(x) = y \div d
  BY DEF Paisa, y, d
<1>4. d * (y \div d) \in Int /\ d = 2 * Parts /\ y = 2 * x + Parts
  BY <1>1, <1>2 DEF d, y
<1>5. 2 * Parts * Paisa(x) = d * (y \div d)
  BY <1>3, <1>4
<1>. QED
  BY <1>2, <1>3, <1>4, <1>5

\* A sum of floating point numbers may be rounded to either side of a half.
LEMMA AddedUpNear ==
  ASSUME Parts \in Nat \ {0}, NEW x \in Nat, NEW t \in AddedUp(x)
  PROVE  /\ t \in Nat
         /\ 2 * Parts * t - 2 * x <= Parts
         /\ 2 * x - 2 * Parts * t <= Parts
<1>1. CASE t = Paisa(x)
  <2>1. /\ Paisa(x) \in Nat /\ 2 * Parts * Paisa(x) - 2 * x <= Parts
        /\ 2 * x - 2 * Parts * Paisa(x) <= Parts - 1
    BY PaisaNear
  <2>2. 2 * Parts * Paisa(x) \in Int
    BY <2>1
  <2>. QED
    BY <1>1, <2>1, <2>2
<1>2. CASE t = (2 * x + Parts - 1) \div (2 * Parts)
  <2>. DEFINE d == 2 * Parts
              y == 2 * x + Parts - 1
  <2>1. d \in Nat \ {0} /\ y \in Nat
    OBVIOUS
  <2>. HIDE DEF d, y
  <2>2. y \div d \in Nat /\ d * (y \div d) <= y /\ y < d * (y \div d) + d
    BY <2>1
  <2>3. t = y \div d
    BY <1>2 DEF y, d
  <2>4. d * (y \div d) \in Int /\ d = 2 * Parts /\ y = 2 * x + Parts - 1
    BY <2>1, <2>2 DEF d, y
  <2>5. 2 * Parts * t = d * (y \div d)
    BY <2>3, <2>4
  <2>. QED
    BY <2>2, <2>3, <2>4, <2>5
<1>. QED
  BY <1>1, <1>2 DEF AddedUp

\* f times x is twice y, or up to a more, or up to b less.
Between(f, a, b, x, y) ==
  x \in Int /\ y \in Int /\ f * x - 2 * y <= a /\ 2 * y - f * x <= b

\* The sums of two sequences whose terms are near each other.
LEMMA SumsBetween ==
  ASSUME NEW g, NEW t, NEW h, NEW u, NEW n \in Nat, Running(g, t, n), Running(h, u, n),
         NEW f \in Int, NEW a \in Int, NEW b \in Int,
         \A k \in 1..n : Between(f, a, b, t[k], u[k])
  PROVE  Between(f, n * a, n * b, g[n], h[n])
<1>. DEFINE Near(k) == f * g[k] - 2 * h[k] <= k * a /\ 2 * h[k] - f * g[k] <= k * b
            Bad     == {k \in 0..n : ~Near(k)}
<1>1. \A k \in 0..n : g[k] \in Int /\ h[k] \in Int
  <2>1. \A k \in 1..n : t[k] \in Int /\ u[k] \in Int
    BY DEF Between
  <2>. QED
    BY <2>1, RunningType
<1>2. ASSUME Bad # {} PROVE FALSE
  <2>1. PICK m \in Bad : \A k \in Bad : m <= k
    <3>1. Bad \subseteq Nat
      OBVIOUS
    <3>. HIDE DEF Bad
    <3>. QED
      BY <1>2, <3>1, LeastNumber
  <2>2. m \in 0..n /\ ~Near(m)
    OBVIOUS
  <2>3. /\ g[m] = IF m = 0 THEN 0 ELSE g[m - 1] + t[m]
        /\ h[m] = IF m = 0 THEN 0 ELSE h[m - 1] + u[m]
    BY DEF Running
  <2>4. m # 0
    <3>1. ASSUME m = 0 PROVE Near(m)
      BY <2>3, <3>1
    <3>. QED
      BY <2>2, <3>1
  <2>5. m - 1 \in 0..n /\ Near(m - 1)
    BY <2>1, <2>4
  <2>6. \A x, y \in Int : f * (x + y) = f * x + f * y
    OBVIOUS
  <2>7. (m - 1) * a + a = m * a /\ (m - 1) * b + b = m * b
    OBVIOUS
  <2>8. /\ f * t[m] - 2 * u[m] <= a /\ 2 * u[m] - f * t[m] <= b
        /\ g[m - 1] \in Int /\ h[m - 1] \in Int /\ t[m] \in Int /\ u[m] \in Int
    <3>1. Between(f, a, b, t[m], u[m])
      BY <2>4
    <3>. QED
      BY <1>1, <2>5, <3>1 DEF Between
  <2>9. /\ f * t[m] \in Int /\ f * g[m - 1] \in Int
        /\ (m - 1) * a \in Int /\ m * a \in Int /\ (m - 1) * b \in Int /\ m * b \in Int
    BY <2>8
  <2>10. f * g[m] = f * g[m - 1] + f * t[m]
    BY <2>3, <2>4, <2>6, <2>8
  <2>11. Near(m)
    BY <2>3, <2>4, <2>5, <2>7, <2>8, <2>9, <2>10
  <2>. QED
    BY <2>2, <2>11
<1>3. Near(n)
  BY <1>2
<1>. QED
  BY <1>1, <1>3 DEF Between

\* A multiple of a positive number is monotone.
LEMMA MoreThan ==
  ASSUME NEW P \in Nat \ {0}, NEW c \in Int, NEW D \in Int, D > c
  PROVE  P * D >= P * c + P
<1>1. PICK e \in Nat : D = c + 1 + e
  <2>1. D - c - 1 \in Nat /\ D = c + 1 + (D - c - 1)
    OBVIOUS
  <2>. QED
    BY <2>1
<1>2. P * (c + 1 + e) = P * c + P + P * e /\ P * e \in Nat /\ P * c \in Int
  OBVIOUS
<1>. QED
  BY <1>1, <1>2

\* What is left of errors of up to half a paisa, of integers.
LEMMA WholePaisa ==
  ASSUME NEW P \in Nat \ {0}, NEW n \in Nat, NEW A \in Int, NEW B \in Int, NEW H \in Int,
         NEW PA \in Int, NEW PB \in Int, PA = (2 * P) * A, PB = (2 * P) * B
  PROVE  /\ PA - 2 * H <= P /\ 2 * H - PB <= n * (P - 1) => 2 * (A - B) <= n
         /\ PA - 2 * H <= n * P /\ 2 * H - PB <= P => 2 * (A - B) <= n + 1
<1>. DEFINE D == A - B
            nP == n * P
<1>1. /\ D \in Int /\ nP \in Nat /\ PA - PB = P * (2 * D) /\ n * (P - 1) = nP - n
      /\ P * n = nP /\ P * (2 * D) \in Int
  OBVIOUS
<1>2. 2 * D > n => P * (2 * D) >= nP + P
  BY <1>1, MoreThan
<1>a. 2 * D > n + 1 => P * (2 * D) >= nP + P + P
  <2>1. n + 1 \in Int /\ P * (n + 1) = nP + P /\ 2 * D \in Int
    BY <1>1
  <2>. QED
    BY <2>1, MoreThan
<1>3. D > 0 => P * (2 * D) >= P + P
  <2>1. D > 0 => 2 * D > 1
    BY <1>1
  <2>2. 2 * D \in Int /\ P * 1 = P
    BY <1>1
  <2>. QED
    BY <2>1, <2>2, MoreThan
<1>4. D = A - B
  OBVIOUS
<1>. HIDE DEF D, nP
<1>5. ASSUME PA - 2 * H <= P, 2 * H - PB <= nP - n PROVE 2 * D <= n
  <2>. DEFINE M == P * (2 * D)
  <2>1. M \in Int /\ M <= nP - n + P
    BY <1>1, <1>5
  <2>2. CASE n = 0
    <3>1. nP = 0
      BY <1>1, <2>2
    <3>2. (D > 0 => M >= P + P) /\ M <= P
      BY <1>3, <2>1, <2>2, <3>1
    <3>. HIDE DEF M
    <3>. QED
      BY <1>1, <2>1, <2>2, <3>2
  <2>3. CASE n # 0
    <3>1. 2 * D > n => M >= nP + P
      BY <1>2
    <3>. HIDE DEF M
    <3>. QED
      BY <1>1, <2>1, <2>3, <3>1
  <2>. QED
    BY <2>2, <2>3
<1>6. ASSUME PA - 2 * H <= nP, 2 * H - PB <= P PROVE 2 * D <= n + 1
  <2>. DEFINE M == P * (2 * D)
  <2>1. M \in Int /\ M <= nP + P /\ (2 * D > n + 1 => M >= nP + P + P)
    BY <1>1, <1>a, <1>6
  <2>. HIDE DEF M
  <2>. QED
    BY <1>1, <2>1
<1>7. n * P = nP
  BY DEF nP
<1>. QED
  BY <1>1, <1>4, <1>5, <1>6, <1>7

\* Rounding the sum, or the terms: half a paisa a line at most, or little more.
LEMMA RoundedTotal ==
  ASSUME Parts \in Nat \ {0}, NEW typed, NEW lines,
         Len(typed) \in Nat, Len(lines) = Len(typed),
         \A k \in 1..Len(typed) : /\ typed[k].price \in Nat
                                  /\ lines[k].price = Paisa(typed[k].price),
         NEW T \in AddedUp(TotalOf(typed))
  PROVE  T \in Nat /\ NearSum(T, lines)
<1>. DEFINE n == Len(typed)
            t == [k \in 1..n |-> lines[k].price]
            u == [k \in 1..n |-> typed[k].price]
            f == 2 * Parts
<1>1. PICK g : Running(g, t, n) /\ TotalOf(lines) = g[n]
  BY TotalIsRunning
<1>2. PICK h : Running(h, u, n) /\ TotalOf(typed) = h[n]
  BY TotalIsRunning
<1>3. ASSUME NEW k \in 1..n
      PROVE  Between(f, Parts, Parts - 1, t[k], u[k])
  <2>1. PICK x \in Nat : x = typed[k].price /\ t[k] = Paisa(x) /\ u[k] = x
    OBVIOUS
  <2>2. /\ Paisa(x) \in Nat
        /\ f * Paisa(x) - 2 * x <= Parts /\ 2 * x - f * Paisa(x) <= Parts - 1
    BY PaisaNear
  <2>. HIDE DEF t, u, f
  <2>3. t[k] \in Int /\ u[k] \in Int
    BY <2>1, <2>2
  <2>. QED
    BY <2>1, <2>2, <2>3, Zenon DEF Between
<1>4. TotalOf(typed) \in Nat
  BY TotalOfType
<1>5. /\ T \in Nat /\ f * T - 2 * h[n] <= Parts /\ 2 * h[n] - f * T <= Parts
  BY <1>2, <1>4, AddedUpNear
<1>. HIDE DEF t, u, f
<1>6. f = 2 * Parts /\ f \in Int /\ Parts \in Int /\ Parts - 1 \in Int /\ n \in Nat
  BY DEF f
<1>. HIDE DEF n
<1>7. /\ g[n] \in Int /\ h[n] \in Int
      /\ f * g[n] - 2 * h[n] <= n * Parts /\ 2 * h[n] - f * g[n] <= n * (Parts - 1)
  <2>. DEFINE b == Parts - 1
  <2>1. f \in Int /\ Parts \in Int /\ b \in Int /\ n \in Nat
    BY <1>6
  <2>2. \A k \in 1..n : Between(f, Parts, b, t[k], u[k])
    BY <1>3
  <2>. HIDE DEF b
  <2>3. Between(f, n * Parts, n * b, g[n], h[n])
    BY <1>1, <1>2, <2>1, <2>2, SumsBetween, Zenon
  <2>. QED
    BY <2>3, Zenon DEF b, Between
<1>8. 2 * (T - g[n]) <= n /\ 2 * (g[n] - T) <= n + 1
  <2>a. \A x, y \in Int : x * y \in Int
    OBVIOUS
  <2>b. T \in Int
    BY <1>5
  <2>1. /\ f * T = (2 * Parts) * T /\ f * g[n] = (2 * Parts) * g[n]
        /\ f * T \in Int /\ f * g[n] \in Int /\ T \in Int
    BY <1>6, <1>7, <2>a, <2>b, Zenon
  <2>. DEFINE FT == f * T
              FS == f * g[n]
              S == g[n]
              H == h[n]
  <2>2. FT - 2 * H <= Parts /\ 2 * H - FS <= n * (Parts - 1)
    BY <1>5, <1>7
  <2>3. FS - 2 * H <= n * Parts /\ 2 * H - FT <= Parts
    BY <1>5, <1>7
  <2>4. /\ FT = (2 * Parts) * T /\ FS = (2 * Parts) * S
        /\ FT \in Int /\ FS \in Int /\ T \in Int /\ S \in Int /\ H \in Int
    BY <1>7, <2>1
  <2>. HIDE DEF FT, FS, S, H
  <2>5. 2 * (T - S) <= n /\ 2 * (S - T) <= n + 1
    BY <1>6, <2>2, <2>3, <2>4, WholePaisa
  <2>. QED
    BY <2>5 DEF S
<1>. QED
  BY <1>1, <1>5, <1>8 DEF NearSum, n

\* A function on 1..n is a sequence of length n.
LEMMA ListIsSeq ==
  ASSUME NEW S, NEW n \in Nat, NEW f \in [1..n -> S]
  PROVE  f \in Seq(S) /\ Len(f) = n
OBVIOUS

\* The elements of two sequences in one.
LEMMA Concatenated ==
  ASSUME NEW S, NEW a \in Seq(S), NEW b \in Seq(S)
  PROVE  /\ a \o b \in Seq(S) /\ Len(a \o b) = Len(a) + Len(b)
         /\ Len(a) \in Nat /\ Len(b) \in Nat
         /\ \A i \in 1..Len(a) : (a \o b)[i] = a[i]
         /\ \A k \in 1..Len(b) : (a \o b)[Len(a) + k] = b[k]
OBVIOUS

-----------------------------------------------------------------------------
(* Every step keeps the types.                                             *)

\* A new order is one, its total near the sum of its lines.
LEMMA NewOrderType ==
  ASSUME Parts \in Nat \ {0}, NEW s \in Suppliers, NEW draft \in Seq(DraftRow),
         NEW total \in AddedUp(TotalOf(draft))
  PROVE  LET o == NewOrder(s, draft, total) IN
         /\ o \in OrderRow /\ o.status = "PENDING"
         /\ NearSum(o.total, o.lines)
         /\ \A k \in 1..Len(o.lines) : o.lines[k].item = 0
<1>. DEFINE o == NewOrder(s, draft, total)
            n == Len(draft)
<1>1. n \in Nat /\ \A k \in 1..n : draft[k] \in DraftRow
  OBVIOUS
<1>2. o.lines = [k \in 1..n |-> [metal |-> draft[k].metal, price |-> Paisa(draft[k].price),
                                 rate |-> draft[k].rate, item |-> 0]]
  BY DEF NewOrder
<1>3. \A k \in 1..n : draft[k].price \in Nat /\ Paisa(draft[k].price) \in Nat
  BY <1>1, PaisaNear DEF DraftRow
<1>4. o.lines \in [1..n -> LineRow]
  BY <1>1, <1>2, <1>3 DEF LineRow, DraftRow, Null
<1>5. o.lines \in Seq(LineRow) /\ Len(o.lines) = n
  <2>. HIDE DEF o, n
  <2>. QED
    BY <1>1, <1>4, ListIsSeq
<1>6. \A k \in 1..n : o.lines[k].price = Paisa(draft[k].price) /\ o.lines[k].item = 0
  BY <1>2
<1>7. o.total = total /\ o.status = "PENDING" /\ o.supplier = s /\ o.seen = 0
  BY DEF NewOrder
<1>8. total \in Nat /\ NearSum(total, o.lines)
  <2>. HIDE DEF o
  <2>. QED
    BY <1>1, <1>3, <1>5, <1>6, RoundedTotal
<1>9. o = [status |-> "PENDING", supplier |-> s, total |-> o.total, lines |-> o.lines,
           seen |-> 0]
  BY DEF NewOrder
<1>10. o \in OrderRow
  <2>1. o.lines \in Seq(LineRow) /\ o.total \in Nat
    BY <1>5, <1>7, <1>8
  <2>. HIDE DEF o
  <2>. QED
    BY <1>9, <2>1 DEF OrderRow
<1>11. NearSum(o.total, o.lines) /\ \A k \in 1..Len(o.lines) : o.lines[k].item = 0
  <2>. HIDE DEF o
  <2>. QED
    BY <1>5, <1>6, <1>7, <1>8
<1>. QED
  BY <1>7, <1>10, <1>11

\* What a step leaves as it was: the other requests, and what one request did.
LEMMA RequestStep ==
  ASSUME TypeOK, NEW r \in Requests, NEW q \in Request, req' = [req EXCEPT ![r] = q]
  PROVE  /\ req' \in [Requests -> Request]
         /\ req'[r] = q /\ \A s \in Requests : s # r => req'[s] = req[s]
BY DEF TypeOK

\* A request that has made nothing yet.
Begun(q) == q.op = "receive" => Len(q.receipt) = Len(q.lines) /\ q.made = <<>>

\* The rows a request goes on with exist.
Found(q) == /\ q.op \in {"receive", "cancel"} => orders[q.order] # NoRow
            /\ q.op = "deactivate" => suppliers[q.supplier] # NoRow

LEMMA IdleBegun == Idle \in Request /\ Begun(Idle) /\ Idle.op = "idle"
BY DEF Idle, Request, Begun

\* Rows stay when tables do not lose them.
LEMMA RowsStay ==
  ASSUME PurchaseInv, NEW r \in Requests, NEW q \in Request,
         req' = [req EXCEPT ![r] = q],
         \A o \in Orders : orders[o] # NoRow => orders'[o] # NoRow,
         \A s \in Suppliers : suppliers[s] # NoRow => suppliers'[s] # NoRow,
         Found(q)
  PROVE  RowsExist'
<1>1. /\ req' \in [Requests -> Request]
      /\ req'[r] = q /\ \A s \in Requests : s # r => req'[s] = req[s]
  BY RequestStep DEF PurchaseInv
<1>. SUFFICES ASSUME NEW s \in Requests
     PROVE  /\ req'[s].op \in {"receive", "cancel"} => orders'[req'[s].order] # NoRow
            /\ req'[s].op = "deactivate" => suppliers'[req'[s].supplier] # NoRow
  BY DEF RowsExist
<1>2. /\ req'[s].op \in {"receive", "cancel"} => orders[req'[s].order] # NoRow
      /\ req'[s].op = "deactivate" => suppliers[req'[s].supplier] # NoRow
  BY <1>1 DEF PurchaseInv, RowsExist, Found
<1>3. req'[s] \in Request
  BY <1>1
<1>4. /\ req'[s].op \in {"receive", "cancel"} => req'[s].order \in Orders
      /\ req'[s].op = "deactivate" => req'[s].supplier \in Suppliers
  BY <1>3, RequestTypes DEF ReceiveRequest, CancelRequest, DeactivateRequest
<1>. QED
  BY <1>2, <1>4

\* A request that begins, or ends, disturbs no receipt.
LEMMA ReceiptsStay ==
  ASSUME PurchaseInv, NEW r \in Requests, NEW q \in Request, Begun(q),
         req' = [req EXCEPT ![r] = q], items' = items
  PROVE  ReceiptsInOrder' /\ OneReceiptAtWork'
<1>1. /\ req' \in [Requests -> Request]
      /\ req'[r] = q /\ \A s \in Requests : s # r => req'[s] = req[s]
  BY RequestStep DEF PurchaseInv
<1>2. ASSUME NEW s \in Requests, req'[s].op = "receive"
      PROVE  \/ Len(req'[s].receipt) = Len(req'[s].lines) /\ req'[s].made = <<>>
                /\ Len(req'[s].lines) \in Nat
             \/ s # r /\ s \in Receiving /\ req'[s] = req[s]
  <2>1. req'[s] \in ReceiveRequest
    BY <1>1, <1>2, RequestTypes
  <2>2. Len(req'[s].lines) \in Nat
    BY <2>1 DEF ReceiveRequest
  <2>. QED
    BY <1>1, <1>2, <2>2 DEF Begun, Receiving
<1>3. ReceiptsInOrder'
  <2>. SUFFICES ASSUME NEW s \in Requests, req'[s].op = "receive"
       PROVE  /\ Len(req'[s].receipt) = Len(req'[s].lines)
              /\ Len(req'[s].made) <= Len(req'[s].lines)
              /\ \A k \in 1..Len(req'[s].made) :
                   /\ req'[s].made[k].n = Len(items) + k
                   /\ req'[s].made[k].metal = req'[s].lines[k].metal
    BY DEF ReceiptsInOrder, Receiving
  <2>1. CASE Len(req'[s].receipt) = Len(req'[s].lines) /\ req'[s].made = <<>>
             /\ Len(req'[s].lines) \in Nat
    BY <2>1
  <2>2. CASE s \in Receiving /\ req'[s] = req[s]
    BY <2>2 DEF PurchaseInv, ReceiptsInOrder
  <2>. QED
    BY <1>2, <2>1, <2>2
<1>4. OneReceiptAtWork'
  <2>. SUFFICES ASSUME NEW s \in Requests, NEW t \in Requests,
                       req'[s].op = "receive", req'[t].op = "receive",
                       req'[s].made # <<>>, req'[t].made # <<>>
                PROVE  s = t
    BY DEF OneReceiptAtWork, Receiving
  <2>. QED
    BY <1>2 DEF PurchaseInv, OneReceiptAtWork
<1>. QED
  BY <1>3, <1>4

\* So does every step that keeps orders and pieces, and begins or ends one request.
LEMMA SameStock ==
  ASSUME PurchaseInv, NEW r \in Requests, NEW q \in Request, Begun(q), Found(q),
         req' = [req EXCEPT ![r] = q], UNCHANGED <<orders, items>>,
         suppliers' \in [Suppliers -> SupplierRow \union {NoRow}],
         \A s \in Suppliers : suppliers[s] # NoRow => suppliers'[s] # NoRow
  PROVE  PurchaseInv'
<1>1. TypeOK'
  BY RequestStep DEF PurchaseInv, TypeOK
<1>2. TotalNearSum' /\ ReceivedIsStocked' /\ NumbersContiguous'
  BY DEF PurchaseInv, TotalNearSum, ReceivedIsStocked, NumbersContiguous, LineNumbers
<1>3. ReceiptsInOrder' /\ OneReceiptAtWork'
  BY ReceiptsStay
<1>4. RowsExist'
  BY RowsStay
<1>. QED
  BY <1>1, <1>2, <1>3, <1>4 DEF PurchaseInv

\* A step that writes one order, keeps the pieces and ends its request.  The
\* order's lines are new, or the ones it had.
LEMMA OrderStep ==
  ASSUME PurchaseInv, NEW r \in Requests, Answer(r), items' = items,
         NEW o \in Orders, NEW row \in OrderRow, orders' = [orders EXCEPT ![o] = row],
         row.status # "RECEIVED", NearSum(row.total, row.lines),
         \/ \A k \in 1..Len(row.lines) : row.lines[k].item = 0
         \/ orders[o] # NoRow /\ row.lines = orders[o].lines,
         suppliers' \in [Suppliers -> SupplierRow \union {NoRow}],
         \A s \in Suppliers : suppliers[s] # NoRow => suppliers'[s] # NoRow
  PROVE  PurchaseInv'
<1>0. row # NoRow
  BY DEF OrderRow, NoRow
<1>1. /\ orders' \in [Orders -> OrderRow \union {NoRow}]
      /\ orders'[o] = row /\ \A p \in Orders : p # o => orders'[p] = orders[p]
  BY DEF PurchaseInv, TypeOK
<1>2. Idle \in Request /\ Begun(Idle) /\ Found(Idle) /\ req' = [req EXCEPT ![r] = Idle]
  BY IdleBegun DEF Answer, Found
<1>3. TypeOK'
  BY <1>1, <1>2, RequestStep DEF PurchaseInv, TypeOK
<1>4. TotalNearSum'
  BY <1>1 DEF PurchaseInv, TotalNearSum
<1>5. NumbersContiguous'
  BY DEF PurchaseInv, NumbersContiguous
<1>6. ReceivedIsStocked'
  <2>1. ASSUME NEW p \in Orders, NEW k \in LineNumbers(p)'
        PROVE  orders'[p].lines[k].item = 0
                 \/ (k \in LineNumbers(p) /\ orders'[p].lines = orders[p].lines)
    BY <1>1, <1>0 DEF LineNumbers
  <2>. SUFFICES ASSUME NEW p \in Orders, NEW k \in LineNumbers(p)'
       PROVE  LET line == orders'[p].lines[k] IN
              /\ orders'[p].status = "RECEIVED" => line.item # 0
              /\ line.item # 0 =>
                   /\ line.item \in 1..Len(items)
                   /\ items[line.item].metal = line.metal
                   /\ \A s \in Orders : \A j \in LineNumbers(s)' :
                        orders'[s].lines[j].item = line.item => s = p /\ j = k
    BY DEF ReceivedIsStocked
  <2>2. orders'[p].status = "RECEIVED" => p # o /\ orders'[p] = orders[p]
    BY <1>1
  <2>3. p # o => k \in LineNumbers(p)
    BY <1>1 DEF LineNumbers
  <2>4. orders'[p].status = "RECEIVED" => orders'[p].lines[k].item # 0
    BY <2>2, <2>3 DEF PurchaseInv, ReceivedIsStocked
  <2>5. ASSUME orders'[p].lines[k].item # 0
        PROVE  LET line == orders'[p].lines[k] IN
                 /\ line.item \in 1..Len(items)
                 /\ items[line.item].metal = line.metal
                 /\ \A s \in Orders : \A j \in LineNumbers(s)' :
                      orders'[s].lines[j].item = line.item => s = p /\ j = k
    <3>1. k \in LineNumbers(p) /\ orders'[p].lines = orders[p].lines
      BY <2>1, <2>5
    <3>2. ASSUME NEW s \in Orders, NEW j \in LineNumbers(s)',
                 orders'[s].lines[j].item = orders'[p].lines[k].item
          PROVE  s = p /\ j = k
      <4>1. j \in LineNumbers(s) /\ orders'[s].lines = orders[s].lines
        BY <2>1, <2>5, <3>2
      <4>. QED
        BY <3>1, <3>2, <4>1, <2>5 DEF PurchaseInv, ReceivedIsStocked
    <3>. QED
      BY <3>1, <3>2, <2>5 DEF PurchaseInv, ReceivedIsStocked
  <2>. QED
    BY <2>4, <2>5
<1>7. ReceiptsInOrder' /\ OneReceiptAtWork'
  BY <1>2, ReceiptsStay
<1>8. RowsExist'
  <2>. \A p \in Orders : orders[p] # NoRow => orders'[p] # NoRow
    BY <1>1, <1>0
  <2>. QED
    BY <1>2, RowsStay
<1>. QED
  BY <1>3, <1>4, <1>5, <1>6, <1>7, <1>8 DEF PurchaseInv

-----------------------------------------------------------------------------
(* One lemma per operation.                                                *)

\* A supplier is created or edited.
LEMMA SuppliersPreserve ==
  ASSUME PurchaseInv, NEW s \in Suppliers, NEW row \in SupplierRow,
         suppliers' = [suppliers EXCEPT ![s] = row], UNCHANGED <<orders, items, req>>
  PROVE  PurchaseInv'
<1>1. row # NoRow
  BY DEF SupplierRow, NoRow
<1>2. TypeOK'
  BY DEF PurchaseInv, TypeOK
<1>3. TotalNearSum' /\ ReceivedIsStocked' /\ NumbersContiguous'
  BY DEF PurchaseInv, TotalNearSum, ReceivedIsStocked, NumbersContiguous, LineNumbers
<1>4. ReceiptsInOrder' /\ OneReceiptAtWork'
  BY DEF PurchaseInv, ReceiptsInOrder, OneReceiptAtWork, Receiving
<1>5. RowsExist'
  <2>. \A t \in Suppliers : suppliers[t] # NoRow => suppliers'[t] # NoRow
    BY <1>1 DEF PurchaseInv, TypeOK
  <2>. \A r \in Requests : req[r].op = "deactivate" => req[r].supplier \in Suppliers
    BY RequestTypes DEF PurchaseInv, TypeOK, DeactivateRequest
  <2>. QED
    BY DEF PurchaseInv, RowsExist
<1>. QED
  BY <1>2, <1>3, <1>4, <1>5 DEF PurchaseInv

\* A request that only reads begins with what it found.
LEMMA PlansPreserve ==
  ASSUME PurchaseAssumption, PurchaseInv, NEW r \in Requests,
         \/ \E s \in Suppliers : PlanDeactivate(r, s) \/ PlanDeactivateParty(r, s)
                                 \/ \E d \in Drafts : PlanOrder(r, s, d)
         \/ \E name \in Sheets : PlanImport(r, name)
         \/ \E o \in Orders : PlanCancel(r, o)
         \/ \E o \in Orders : \E receipt \in [LineNumbers(o) -> Receipts],
                                  entry \in Newest \union {Null} :
              PlanReceive(r, o, receipt, entry)
  PROVE  PurchaseInv'
<1>. SUFFICES \E q \in Request : Begun(q) /\ Found(q) /\ req' = [req EXCEPT ![r] = q]
                                 /\ UNCHANGED Tables
  <2>1. PICK q \in Request : Begun(q) /\ Found(q) /\ req' = [req EXCEPT ![r] = q]
                             /\ UNCHANGED Tables
    OBVIOUS
  <2>. QED
    BY <2>1, SameStock DEF Tables, PurchaseInv, TypeOK
<1>0. Len(items) \in Nat
  BY DEF PurchaseInv, TypeOK
<1>1. ASSUME NEW s \in Suppliers, PlanDeactivate(r, s) \/ PlanDeactivateParty(r, s)
      PROVE  \E q \in Request : Begun(q) /\ Found(q) /\ req' = [req EXCEPT ![r] = q]
                                /\ UNCHANGED Tables
  <2>. DEFINE q == [op |-> "deactivate", supplier |-> s]
  <2>1. q \in Request /\ Begun(q) /\ Found(q)
    BY <1>1 DEF Request, DeactivateRequest, Begun, Found, PlanDeactivate, PlanDeactivateParty
  <2>. QED
    BY <1>1, <2>1 DEF PlanDeactivate, PlanDeactivateParty, Submit
<1>2. ASSUME NEW s \in Suppliers, NEW d \in Drafts, PlanOrder(r, s, d)
      PROVE  \E q \in Request : Begun(q) /\ Found(q) /\ req' = [req EXCEPT ![r] = q]
                                /\ UNCHANGED Tables
  <2>. DEFINE q == [op |-> "order", supplier |-> s, draft |-> d]
  <2>1. q \in Request /\ Begun(q) /\ Found(q)
    BY DEF Request, OrderRequest, Begun, Found
  <2>. QED
    BY <1>2, <2>1 DEF PlanOrder, Submit
<1>3. ASSUME NEW name \in Sheets, PlanImport(r, name)
      PROVE  \E q \in Request : Begun(q) /\ Found(q) /\ req' = [req EXCEPT ![r] = q]
                                /\ UNCHANGED Tables
  <2>1. PICK s \in Suppliers : Submit(r, [op |-> "import", supplier |-> s,
                                         found |-> suppliers[s] # NoRow])
    BY <1>3 DEF PlanImport
  <2>. DEFINE q == [op |-> "import", supplier |-> s, found |-> suppliers[s] # NoRow]
  <2>2. q \in Request /\ Begun(q) /\ Found(q)
    BY DEF Request, ImportRequest, Begun, Found
  <2>. QED
    BY <1>3, <2>1, <2>2 DEF PlanImport, Submit
<1>4. ASSUME NEW o \in Orders, PlanCancel(r, o)
      PROVE  \E q \in Request : Begun(q) /\ Found(q) /\ req' = [req EXCEPT ![r] = q]
                                /\ UNCHANGED Tables
  <2>. DEFINE q == [op |-> "cancel", order |-> o, seen |-> Len(items)]
  <2>1. q \in Request /\ Begun(q) /\ Found(q)
    BY <1>0, <1>4 DEF Request, CancelRequest, Begun, Found, PlanCancel, NoRow
  <2>. QED
    BY <1>4, <2>1 DEF PlanCancel, Submit
<1>5. ASSUME NEW o \in Orders, NEW receipt \in [LineNumbers(o) -> Receipts],
             NEW entry \in Newest \union {Null}, PlanReceive(r, o, receipt, entry)
      PROVE  \E q \in Request : Begun(q) /\ Found(q) /\ req' = [req EXCEPT ![r] = q]
                                /\ UNCHANGED Tables
  <2>. DEFINE q == [op |-> "receive", order |-> o, lines |-> orders[o].lines,
                    receipt |-> receipt, entry |-> entry, made |-> <<>>,
                    seen |-> Len(items)]
  <2>1. orders[o] # NoRow /\ orders[o] \in OrderRow
    BY <1>5 DEF PlanReceive, NoRow, PurchaseInv, TypeOK
  <2>2. orders[o].lines \in Seq(LineRow) /\ LineNumbers(o) = 1..Len(orders[o].lines)
    BY <2>1 DEF OrderRow, LineNumbers
  <2>3. receipt \in Seq(Receipts) /\ Len(receipt) = Len(orders[o].lines)
    <3>. DEFINE n == Len(orders[o].lines)
    <3>1. n \in Nat /\ receipt \in [1..n -> Receipts]
      BY <2>2
    <3>. HIDE DEF n
    <3>2. receipt \in Seq(Receipts) /\ Len(receipt) = n
      BY <3>1, ListIsSeq
    <3>. QED
      BY <3>2 DEF n
  <2>4. q \in ReceiveRequest
    BY <1>0, <2>2, <2>3 DEF ReceiveRequest
  <2>5. q \in Request /\ Begun(q) /\ Found(q)
    BY <2>1, <2>3, <2>4 DEF Request, Begun, Found
  <2>. QED
    BY <1>5, <2>5 DEF PlanReceive, Submit
<1>. QED
  BY <1>1, <1>2, <1>3, <1>4, <1>5

\* The writes of one order: a new one, typed in or imported, or a cancellation.
LEMMA OrdersPreserve ==
  ASSUME PurchaseAssumption, PurchaseInv, NEW r \in Requests,
         \/ \E o \in Orders : CommitOrder(r, o) \/ CommitImport(r, o)
         \/ CommitCancel(r)
  PROVE  PurchaseInv'
<1>0. req[r] \in Request /\ \A o \in Orders : orders[o] \in OrderRow \union {NoRow}
  BY DEF PurchaseInv, TypeOK
<1>s. suppliers \in [Suppliers -> SupplierRow \union {NoRow}]
  BY DEF PurchaseInv, TypeOK
<1>1. ASSUME NEW o \in Orders, CommitOrder(r, o) PROVE PurchaseInv'
  <2>1. req[r].supplier \in Suppliers /\ req[r].draft \in Seq(DraftRow)
    BY <1>0, <1>1, RequestTypes DEF CommitOrder, OrderRequest, PurchaseAssumption
  <2>0. PICK total \in AddedUp(TotalOf(req[r].draft)) :
          orders' = [orders EXCEPT ![o] = NewOrder(req[r].supplier, req[r].draft, total)]
    BY <1>1 DEF CommitOrder
  <2>. DEFINE row == NewOrder(req[r].supplier, req[r].draft, total)
  <2>2. /\ row \in OrderRow /\ row.status = "PENDING" /\ NearSum(row.total, row.lines)
        /\ \A k \in 1..Len(row.lines) : row.lines[k].item = 0
    BY <2>1, NewOrderType, PurchaseAssumption DEF PurchaseAssumption
  <2>3. orders' = [orders EXCEPT ![o] = row] /\ items' = items /\ suppliers' = suppliers
        /\ Answer(r)
    BY <1>1, <2>0 DEF CommitOrder
  <2>. HIDE DEF row
  <2>. QED
    BY <2>2, <2>3, <1>s, OrderStep
<1>2. ASSUME NEW o \in Orders, CommitImport(r, o) PROVE PurchaseInv'
  <2>1. req[r].supplier \in Suppliers /\ Sheet \in Seq(DraftRow)
    BY <1>0, <1>2, RequestTypes DEF CommitImport, ImportRequest, PurchaseAssumption
  <2>0. PICK total \in AddedUp(TotalOf(Sheet)) :
          orders' = [orders EXCEPT ![o] = NewOrder(req[r].supplier, Sheet, total)]
    BY <1>2 DEF CommitImport
  <2>. DEFINE row == NewOrder(req[r].supplier, Sheet, total)
  <2>2. /\ row \in OrderRow /\ row.status = "PENDING" /\ NearSum(row.total, row.lines)
        /\ \A k \in 1..Len(row.lines) : row.lines[k].item = 0
    BY <2>1, NewOrderType, PurchaseAssumption DEF PurchaseAssumption
  <2>3. orders' = [orders EXCEPT ![o] = row] /\ items' = items /\ Answer(r)
    BY <1>2, <2>0 DEF CommitImport
  <2>4. /\ suppliers' \in [Suppliers -> SupplierRow \union {NoRow}]
        /\ \A s \in Suppliers : suppliers[s] # NoRow => suppliers'[s] # NoRow
    BY <1>2, <1>s DEF CommitImport, SupplierRow, NoRow
  <2>. HIDE DEF row
  <2>. QED
    BY <2>2, <2>3, <2>4, OrderStep
<1>3. ASSUME CommitCancel(r) PROVE PurchaseInv'
  <2>. DEFINE o == req[r].order
              row == [orders[o] EXCEPT !.status = "CANCELLED", !.seen = req[r].seen]
  <2>1. o \in Orders /\ orders[o] # NoRow
    BY <1>0, <1>3, RequestTypes DEF CommitCancel, CancelRequest, PurchaseInv, RowsExist
  <2>0. req[r].seen \in Nat
    BY <1>0, <1>3, RequestTypes DEF CommitCancel, CancelRequest
  <2>2. orders[o] \in OrderRow
    BY <1>0, <2>1
  <2>3. row \in OrderRow /\ row.status # "RECEIVED" /\ row.lines = orders[o].lines
        /\ row.total = orders[o].total
    BY <2>0, <2>2 DEF OrderRow
  <2>4. NearSum(row.total, row.lines)
    BY <2>1, <2>3 DEF PurchaseInv, TotalNearSum
  <2>5. orders' = [orders EXCEPT ![o] = row] /\ items' = items /\ suppliers' = suppliers
        /\ Answer(r)
    BY <1>3, <2>1, <2>2 DEF CommitCancel, PurchaseInv, TypeOK
  <2>. HIDE DEF row, o
  <2>. QED
    BY <2>1, <2>3, <2>4, <2>5, <1>s, OrderStep
<1>. QED
  BY <1>1, <1>2, <1>3

\* The supplier is switched off, or the request fails.
LEMMA EndsPreserve ==
  ASSUME PurchaseInv, NEW r \in Requests, CommitDeactivate(r) \/ Abort(r)
  PROVE  PurchaseInv'
<1>0. suppliers \in [Suppliers -> SupplierRow \union {NoRow}] /\ req[r] \in Request
  BY DEF PurchaseInv, TypeOK
<1>1. Idle \in Request /\ Begun(Idle) /\ Found(Idle)
  BY IdleBegun DEF Found
<1>2. req' = [req EXCEPT ![r] = Idle] /\ UNCHANGED <<orders, items>>
  BY DEF CommitDeactivate, Abort, Answer, Tables
<1>3. /\ suppliers' \in [Suppliers -> SupplierRow \union {NoRow}]
      /\ \A s \in Suppliers : suppliers[s] # NoRow => suppliers'[s] # NoRow
  <2>1. CASE Abort(r)
    BY <2>1, <1>0 DEF Abort, Tables
  <2>2. CASE CommitDeactivate(r)
    <3>. DEFINE s == req[r].supplier
                row == [suppliers[s] EXCEPT !.status = "inactive"]
    <3>1. s \in Suppliers /\ suppliers[s] # NoRow
      BY <1>0, <2>2, RequestTypes
      DEF CommitDeactivate, DeactivateRequest, PurchaseInv, RowsExist
    <3>2. row \in SupplierRow
      BY <1>0, <3>1 DEF SupplierRow
    <3>3. row # NoRow
      BY <3>2 DEF SupplierRow, NoRow
    <3>4. suppliers' = [suppliers EXCEPT ![s] = row]
      BY <2>2 DEF CommitDeactivate
    <3>. HIDE DEF row, s
    <3>. QED
      BY <1>0, <3>1, <3>2, <3>3, <3>4
  <2>. QED
    BY <2>1, <2>2
<1>. QED
  BY <1>1, <1>2, <1>3, SameStock

\* A line is made into a piece: the number is free, so no other receipt holds any.
LEMMA StockLinePreserves ==
  ASSUME PurchaseInv, NEW r \in Requests, StockLine(r)
  PROVE  PurchaseInv'
<1>. DEFINE k == Len(req[r].made) + 1
            piece == [n |-> Len(items) + k, metal |-> req[r].lines[k].metal,
                      entry |-> req[r].entry, order |-> req[r].order]
            q == [req[r] EXCEPT !.made = Append(req[r].made, piece)]
<1>1. req[r] \in ReceiveRequest /\ r \in Receiving
  BY RequestTypes DEF StockLine, PurchaseInv, TypeOK, Receiving
<1>2. /\ Len(req[r].made) \in Nat /\ Len(req[r].lines) \in Nat /\ Len(items) \in Nat
      /\ k \in 1..Len(req[r].lines)
  BY <1>1 DEF ReceiveRequest, StockLine, LineLeft, PurchaseInv, TypeOK
<1>3. req[r].lines[k] \in LineRow
  BY <1>1, <1>2 DEF ReceiveRequest
<1>4. piece \in ItemRow
  <2>1. req[r].lines[k].metal \in Metals
    BY <1>3 DEF LineRow
  <2>2. req[r].entry \in Metals \union {Null}
    BY <1>1, PurchaseAssumption DEF ReceiveRequest, PurchaseAssumption
  <2>. QED
    BY <1>1, <1>2, <2>1, <2>2 DEF ItemRow, ReceiveRequest
<1>5. /\ q \in ReceiveRequest /\ q.op = "receive" /\ q.order = req[r].order
      /\ q.lines = req[r].lines /\ q.receipt = req[r].receipt
      /\ q.made = Append(req[r].made, piece)
  <2>1. Append(req[r].made, piece) \in Seq(ItemRow)
    BY <1>1, <1>4 DEF ReceiveRequest
  <2>. HIDE DEF piece
  <2>. QED
    BY <1>1, <2>1 DEF ReceiveRequest
<1>6. req' = [req EXCEPT ![r] = q] /\ UNCHANGED Tables
  BY DEF StockLine, Proceed
<1>7. q \in Request
  BY <1>5 DEF Request
<1>8. /\ req' \in [Requests -> Request]
      /\ req'[r] = q /\ \A s \in Requests : s # r => req'[s] = req[s]
  BY <1>6, <1>7, RequestStep DEF PurchaseInv
<1>9. Receiving' = Receiving
  BY <1>1, <1>5, <1>8 DEF Receiving
<1>10. ASSUME NEW s \in Receiving, s # r PROVE req[s].made = <<>>
  <2>1. req[s].made \in Seq(ItemRow)
    BY RequestTypes DEF Receiving, PurchaseInv, TypeOK, ReceiveRequest
  <2>2. CASE req[r].made # <<>>
    BY <2>2, <1>1, <1>10 DEF PurchaseInv, OneReceiptAtWork
  <2>3. CASE req[r].made = <<>>
    <3>1. k = 1 /\ Unique(r, Len(items) + 1)
      BY <2>3 DEF StockLine
    <3>2. \A j \in 1..Len(req[s].made) : req[s].made[j].n # Len(items) + 1
      BY <3>1, <1>10 DEF Unique
    <3>3. \A j \in 1..Len(req[s].made) : req[s].made[j].n = Len(items) + j
      BY <1>10 DEF PurchaseInv, ReceiptsInOrder
    <3>. QED
      BY <2>1, <3>2, <3>3
  <2>. QED
    BY <2>2, <2>3
<1>11. TypeOK' /\ TotalNearSum' /\ ReceivedIsStocked' /\ NumbersContiguous'
  BY <1>6, <1>8 DEF PurchaseInv, TypeOK, TotalNearSum, ReceivedIsStocked,
                    NumbersContiguous, LineNumbers, Tables
<1>12. ReceiptsInOrder'
  <2>1. /\ Len(q.receipt) = Len(q.lines) /\ Len(q.made) <= Len(q.lines)
        /\ \A j \in 1..Len(q.made) : /\ q.made[j].n = Len(items) + j
                                     /\ q.made[j].metal = q.lines[j].metal
    <3>1. req[r].made \in Seq(ItemRow)
      BY <1>1 DEF ReceiveRequest
    <3>2. /\ Len(req[r].receipt) = Len(req[r].lines)
          /\ \A j \in 1..Len(req[r].made) :
               /\ req[r].made[j].n = Len(items) + j
               /\ req[r].made[j].metal = req[r].lines[j].metal
      BY <1>1 DEF PurchaseInv, ReceiptsInOrder
    <3>3. /\ Len(q.made) = k /\ q.made[k] = piece
          /\ \A j \in 1..Len(req[r].made) : q.made[j] = req[r].made[j]
      BY <1>5, <3>1
    <3>4. piece.n = Len(items) + k /\ piece.metal = req[r].lines[k].metal
      OBVIOUS
    <3>5. \A j \in 1..Len(q.made) : j = k \/ j \in 1..Len(req[r].made)
      BY <1>2, <3>3
    <3>6. Len(q.receipt) = Len(q.lines) /\ Len(q.made) <= Len(q.lines)
      BY <1>2, <1>5, <3>2, <3>3
    <3>. HIDE DEF q, piece, k
    <3>. QED
      BY <1>5, <3>2, <3>3, <3>4, <3>5, <3>6
  <2>. HIDE DEF q
  <2>2. items' = items
    BY <1>6 DEF Tables
  <2>3. \A s \in Receiving' : s # r => s \in Receiving /\ req'[s] = req[s]
    BY <1>8, <1>9 DEF Receiving
  <2>. SUFFICES ASSUME NEW s \in Receiving'
       PROVE  /\ Len(req'[s].receipt) = Len(req'[s].lines)
              /\ Len(req'[s].made) <= Len(req'[s].lines)
              /\ \A j \in 1..Len(req'[s].made) :
                   /\ req'[s].made[j].n = Len(items) + j
                   /\ req'[s].made[j].metal = req'[s].lines[j].metal
    BY <2>2 DEF ReceiptsInOrder
  <2>4. CASE s = r
    BY <1>8, <2>1, <2>4
  <2>5. CASE s # r
    <3>1. s \in Receiving /\ req'[s] = req[s]
      BY <2>3, <2>5
    <3>2. ReceiptsInOrder
      BY DEF PurchaseInv
    <3>. QED
      BY <3>1, <3>2, Zenon DEF ReceiptsInOrder
  <2>. QED
    BY <2>4, <2>5
<1>13. OneReceiptAtWork'
  <2>1. \A s \in Receiving' : req'[s].made # <<>> => s = r
    BY <1>8, <1>9, <1>10 DEF Receiving
  <2>. QED
    BY <2>1 DEF OneReceiptAtWork
<1>14. RowsExist'
  <2>1. Found(q)
    BY <1>1, <1>5 DEF Found, PurchaseInv, RowsExist, Receiving
  <2>. HIDE DEF q
  <2>. QED
    BY <1>6, <1>7, <2>1, RowsStay DEF Tables
<1>. QED
  BY <1>11, <1>12, <1>13, <1>14 DEF PurchaseInv

\* The pieces are taken over and the lines name them.
LEMMA ReceivePreserves ==
  ASSUME PurchaseAssumption, PurchaseInv, NEW r \in Requests, CommitReceive(r)
  PROVE  PurchaseInv'
<1>. DEFINE q == req[r]
<1>0. PICK o : o = q.order
  OBVIOUS
<1>. DEFINE lines == Received(q)
            n == Len(items)
            total == NewTotal(q)
            row == [orders[o] EXCEPT !.status = "RECEIVED", !.seen = q.seen,
                                     !.lines = lines, !.total = total]
<1>1. q \in ReceiveRequest /\ r \in Receiving /\ o \in Orders
      /\ orders[o] # NoRow /\ orders[o] \in OrderRow
  <2>1. q \in ReceiveRequest /\ r \in Receiving
    BY RequestTypes DEF CommitReceive, PurchaseInv, TypeOK, Receiving
  <2>. QED
    BY <1>0, <2>1 DEF ReceiveRequest, PurchaseInv, RowsExist, TypeOK, Receiving
<1>2. /\ q.lines \in Seq(LineRow) /\ q.receipt \in Seq(Receipts) /\ q.made \in Seq(ItemRow)
      /\ items \in Seq(ItemRow)
      /\ Len(q.receipt) = Len(q.lines) /\ Len(q.made) = Len(q.lines)
      /\ \A k \in 1..Len(q.made) : /\ q.made[k].n = n + k
                                   /\ q.made[k].metal = q.lines[k].metal
  <2>1. /\ q.lines \in Seq(LineRow) /\ q.receipt \in Seq(Receipts)
        /\ q.made \in Seq(ItemRow) /\ items \in Seq(ItemRow)
    BY <1>1 DEF ReceiveRequest, PurchaseInv, TypeOK
  <2>2. /\ Len(q.receipt) = Len(q.lines) /\ Len(q.made) <= Len(q.lines)
        /\ \A k \in 1..Len(q.made) : /\ q.made[k].n = n + k
                                     /\ q.made[k].metal = q.lines[k].metal
    <3>1. ReceiptsInOrder
      BY DEF PurchaseInv
    <3>. QED
      BY <1>1, <3>1, Zenon DEF ReceiptsInOrder
  <2>3. ~(Len(q.made) < Len(q.lines))
    BY DEF CommitReceive, LineLeft
  <2>4. Len(q.made) \in Nat /\ Len(q.lines) \in Nat
    BY <2>1
  <2>5. Len(q.made) = Len(q.lines)
    BY <2>2, <2>3, <2>4
  <2>. QED
    BY <2>1, <2>2, <2>5, Zenon
<1>p. ASSUME NEW k \in 1..Len(q.lines)
      PROVE  /\ Final(q)[k].price \in Nat /\ Paisa(Final(q)[k].price) \in Nat
             /\ RateReceived(q.lines[k], q.receipt[k]) \in Nat \union {Null}
             /\ q.lines[k].metal \in Metals
  <2>1. q.lines[k] \in LineRow /\ q.receipt[k] \in ReceiptRow
    BY <1>2 DEF PurchaseAssumption
  <2>2. /\ q.lines[k].price \in Nat /\ q.receipt[k].price \in Nat \union {Null}
        /\ Parts \in Nat \ {0}
    BY <2>1 DEF LineRow, ReceiptRow, PurchaseAssumption
  <2>3. Final(q)[k].price = IF q.receipt[k].price = Null THEN Parts * q.lines[k].price
                            ELSE q.receipt[k].price
    BY DEF Final
  <2>4. Final(q)[k].price \in Nat
    BY <2>2, <2>3
  <2>. QED
    BY <2>1, <2>2, <2>4, PaisaNear DEF LineRow, ReceiptRow, RateReceived, Null
<1>3. /\ lines \in Seq(LineRow) /\ Len(lines) = Len(q.lines)
      /\ \A k \in 1..Len(q.lines) : /\ lines[k].item = n + k
                                    /\ lines[k].metal = q.lines[k].metal
                                    /\ lines[k].price = Paisa(Final(q)[k].price)
  <2>1. n \in Nat /\ Len(q.lines) \in Nat
    BY <1>2
  <2>2. ASSUME NEW k \in 1..Len(q.lines)
        PROVE  [metal |-> q.lines[k].metal, item |-> Len(items) + k,
                price |-> Paisa(Final(q)[k].price),
                rate  |-> RateReceived(q.lines[k], q.receipt[k])] \in LineRow
    <3>1. Len(items) + k \in Nat
      BY <2>1
    <3>. QED
      BY <1>p, <3>1 DEF LineRow
  <2>3. lines \in [1..Len(q.lines) -> LineRow]
    BY <2>2 DEF Received
  <2>4. \A k \in 1..Len(q.lines) : /\ lines[k].item = n + k
                                   /\ lines[k].metal = q.lines[k].metal
                                   /\ lines[k].price = Paisa(Final(q)[k].price)
    BY DEF Received
  <2>. DEFINE m == Len(q.lines)
  <2>5. m \in Nat /\ lines \in [1..m -> LineRow]
    BY <2>1, <2>3
  <2>. HIDE DEF lines, m
  <2>6. lines \in Seq(LineRow) /\ Len(lines) = m
    BY <2>5, ListIsSeq
  <2>. QED
    BY <2>4, <2>6 DEF m
<1>4. total \in Nat /\ NearSum(total, lines)
  <2>. DEFINE fin == Final(q)
              m == Len(q.lines)
  <2>1. m \in Nat /\ fin = [k \in 1..m |-> fin[k]]
    BY <1>2 DEF Final
  <2>2. \A k \in 1..m : fin[k].price \in Nat /\ lines[k].price = Paisa(fin[k].price)
    BY <1>p, <1>3
  <2>3. Len(lines) = m /\ Parts \in Nat \ {0} /\ total \in AddedUp(TotalOf(fin))
    BY <1>3 DEF PurchaseAssumption, NewTotal, AddedUp
  <2>. HIDE DEF fin, m, lines, total
  <2>4. Len(fin) = m
    <3>1. fin \in [1..m -> {fin[k] : k \in 1..m}]
      BY <2>1
    <3>. QED
      BY <2>1, <3>1, ListIsSeq
  <2>. QED
    BY <2>1, <2>2, <2>3, <2>4, RoundedTotal
<1>5. row \in OrderRow /\ row # NoRow /\ row.lines = lines /\ row.total = total
  <2>. HIDE DEF lines, total
  <2>1. q.seen \in Nat
    BY <1>1 DEF ReceiveRequest
  <2>2. row \in OrderRow /\ row.lines = lines /\ row.total = total
    BY <1>1, <1>3, <1>4, <2>1 DEF OrderRow
  <2>. QED
    BY <2>2 DEF OrderRow, NoRow
<1>6. orders' = [orders EXCEPT ![o] = row] /\ items' = items \o q.made
      /\ suppliers' = suppliers /\ req' = [req EXCEPT ![r] = Idle]
  <2>1. orders' = [orders EXCEPT ![o].status = "RECEIVED", ![o].seen = q.seen,
                                 ![o].lines = lines, ![o].total = total]
    BY <1>0 DEF CommitReceive
  <2>2. DOMAIN orders = Orders
    BY DEF PurchaseInv, TypeOK
  <2>3. orders' = [orders EXCEPT ![o] = row]
    <3>. HIDE DEF lines, total
    <3>. QED
      BY <1>1, <2>1, <2>2
  <2>. QED
    BY <2>3 DEF CommitReceive, Answer
<1>. HIDE DEF lines, total, row
<1>7. /\ orders' \in [Orders -> OrderRow \union {NoRow}]
      /\ orders'[o] = row /\ \A p \in Orders : p # o => orders'[p] = orders[p]
  BY <1>1, <1>5, <1>6 DEF PurchaseInv, TypeOK
<1>8. /\ req' \in [Requests -> Request]
      /\ req'[r] = Idle /\ \A s \in Requests : s # r => req'[s] = req[s]
  BY <1>6, IdleBegun, RequestStep DEF PurchaseInv
<1>9. /\ items' \in Seq(ItemRow) /\ Len(items') = n + Len(q.lines)
      /\ n \in Nat /\ Len(q.lines) \in Nat
      /\ \A i \in 1..n : items'[i] = items[i]
      /\ \A k \in 1..Len(q.lines) : items'[n + k] = q.made[k]
  <2>1. items \in Seq(ItemRow) /\ q.made \in Seq(ItemRow) /\ items' = items \o q.made
        /\ Len(q.made) = Len(q.lines)
    BY <1>2, <1>6
  <2>. HIDE DEF q
  <2>. DEFINE S == ItemRow
              a == items
              b == q.made
  <2>2. a \in Seq(S) /\ b \in Seq(S)
    BY <2>1
  <2>. HIDE DEF S, a, b
  <2>3. /\ a \o b \in Seq(S) /\ Len(a \o b) = Len(a) + Len(b)
        /\ Len(a) \in Nat /\ Len(b) \in Nat
        /\ \A i \in 1..Len(a) : (a \o b)[i] = a[i]
        /\ \A k \in 1..Len(b) : (a \o b)[Len(a) + k] = b[k]
    BY <2>2, Concatenated
  <2>. USE DEF S, a, b
  <2>. QED
    BY <2>1, <2>3
<1>10. TypeOK'
  BY <1>6, <1>7, <1>8, <1>9 DEF PurchaseInv, TypeOK
<1>11. TotalNearSum'
  BY <1>4, <1>5, <1>7 DEF PurchaseInv, TotalNearSum
<1>12. NumbersContiguous'
  <2>. SUFFICES ASSUME NEW i \in 1..(n + Len(q.lines)) PROVE items'[i].n = i
    BY <1>9 DEF NumbersContiguous
  <2>1. CASE i \in 1..n
    BY <2>1, <1>9 DEF PurchaseInv, NumbersContiguous
  <2>2. CASE i \notin 1..n
    <3>1. i - n \in 1..Len(q.lines) /\ n + (i - n) = i
      BY <1>9, <2>2
    <3>2. items'[n + (i - n)] = q.made[i - n] /\ q.made[i - n].n = n + (i - n)
      BY <1>2, <1>9, <3>1
    <3>. QED
      BY <3>1, <3>2
  <2>. QED
    BY <2>1, <2>2
<1>13. ReceivedIsStocked'
  <2>1. ASSUME NEW p \in Orders, NEW k \in LineNumbers(p)', p # o
        PROVE  /\ k \in LineNumbers(p) /\ orders'[p] = orders[p]
               /\ orders[p].lines[k].item # 0 => orders[p].lines[k].item \in 1..n
    <3>1. k \in LineNumbers(p) /\ orders'[p] = orders[p]
      BY <1>7, <2>1 DEF LineNumbers
    <3>. QED
      BY <3>1 DEF PurchaseInv, ReceivedIsStocked
  <2>2. ASSUME NEW k \in LineNumbers(o)'
        PROVE  /\ k \in 1..Len(q.lines) /\ orders'[o].lines[k] = lines[k]
               /\ lines[k].item = n + k /\ n + k # 0 /\ n + k \notin 1..n
               /\ n + k \in 1..Len(items')
               /\ items'[n + k].metal = lines[k].metal
    <3>1. k \in 1..Len(q.lines) /\ orders'[o].lines[k] = lines[k]
      BY <1>3, <1>5, <1>7 DEF LineNumbers
    <3>2. lines[k].item = n + k /\ lines[k].metal = q.made[k].metal
      BY <1>2, <1>3, <3>1
    <3>. QED
      BY <1>9, <3>1, <3>2
  <2>. SUFFICES ASSUME NEW p \in Orders, NEW k \in LineNumbers(p)'
       PROVE  LET line == orders'[p].lines[k] IN
              /\ orders'[p].status = "RECEIVED" => line.item # 0
              /\ line.item # 0 =>
                   /\ line.item \in 1..Len(items')
                   /\ items'[line.item].metal = line.metal
                   /\ \A s \in Orders : \A j \in LineNumbers(s)' :
                        orders'[s].lines[j].item = line.item => s = p /\ j = k
    BY DEF ReceivedIsStocked
  <2>3. CASE p = o
    <3>1. /\ orders'[p].lines[k].item = n + k /\ n + k # 0 /\ n + k \notin 1..n
          /\ n + k \in 1..Len(items')
          /\ items'[n + k].metal = orders'[p].lines[k].metal /\ k \in 1..Len(q.lines)
      BY <2>2, <2>3
    <3>2. ASSUME NEW s \in Orders, NEW j \in LineNumbers(s)',
                 orders'[s].lines[j].item = n + k
          PROVE  s = p /\ j = k
      <4>1. CASE s # o
        BY <2>1, <3>1, <3>2, <4>1
      <4>2. CASE s = o
        <5>1. orders'[s].lines[j].item = n + j /\ j \in 1..Len(q.lines)
          BY <2>2, <4>2
        <5>2. j = k
          BY <1>9, <3>1, <3>2, <5>1
        <5>. QED
          BY <2>3, <4>2, <5>2
      <4>. QED
        BY <4>1, <4>2
    <3>. QED
      BY <3>1, <3>2
  <2>4. CASE p # o
    <3>1. k \in LineNumbers(p) /\ orders'[p] = orders[p]
      BY <2>1, <2>4
    <3>2. ASSUME orders[p].lines[k].item # 0
          PROVE  /\ orders[p].lines[k].item \in 1..Len(items')
                 /\ items'[orders[p].lines[k].item].metal = orders[p].lines[k].metal
                 /\ orders[p].lines[k].item \in 1..n
      <4>1. /\ orders[p].lines[k].item \in 1..n
            /\ items[orders[p].lines[k].item].metal = orders[p].lines[k].metal
        BY <3>1, <3>2 DEF PurchaseInv, ReceivedIsStocked
      <4>. QED
        BY <1>9, <4>1
    <3>3. ASSUME orders[p].lines[k].item # 0, NEW s \in Orders, NEW j \in LineNumbers(s)',
                 orders'[s].lines[j].item = orders[p].lines[k].item
          PROVE  s = p /\ j = k
      <4>1. s # o
        BY <2>2, <3>2, <3>3
      <4>2. j \in LineNumbers(s) /\ orders'[s] = orders[s]
        BY <2>1, <4>1
      <4>. QED
        BY <3>1, <3>3, <4>2 DEF PurchaseInv, ReceivedIsStocked
    <3>4. orders[p].status = "RECEIVED" => orders[p].lines[k].item # 0
      BY <3>1 DEF PurchaseInv, ReceivedIsStocked
    <3>. QED
      BY <3>1, <3>2, <3>3, <3>4
  <2>. QED
    BY <2>3, <2>4
<1>14. ASSUME NEW s \in Receiving'
       PROVE  s # r /\ s \in Receiving /\ req'[s] = req[s]
  BY <1>8, IdleBegun DEF Receiving
<1>15. OneReceiptAtWork'
  BY <1>14 DEF PurchaseInv, OneReceiptAtWork
<1>16. ReceiptsInOrder'
  <2>. SUFFICES ASSUME NEW s \in Receiving'
       PROVE  /\ Len(req'[s].receipt) = Len(req'[s].lines)
              /\ Len(req'[s].made) <= Len(req'[s].lines)
              /\ \A j \in 1..Len(req'[s].made) :
                   /\ req'[s].made[j].n = Len(items') + j
                   /\ req'[s].made[j].metal = req'[s].lines[j].metal
    BY DEF ReceiptsInOrder
  <2>1. s # r /\ s \in Receiving /\ req'[s] = req[s]
    BY <1>14
  <2>2. /\ Len(req[s].receipt) = Len(req[s].lines)
        /\ Len(req[s].made) <= Len(req[s].lines)
        /\ \A j \in 1..Len(req[s].made) :
             /\ req[s].made[j].n = Len(items) + j
             /\ req[s].made[j].metal = req[s].lines[j].metal
    BY <2>1 DEF PurchaseInv, ReceiptsInOrder
  <2>3. CASE q.made = <<>>
    <3>1. Len(items') = Len(items)
      BY <2>3, <1>2, <1>9
    <3>. QED
      BY <2>1, <2>2, <3>1
  <2>4. CASE q.made # <<>>
    <3>1. req[s].made = <<>>
      BY <1>1, <2>1, <2>4 DEF PurchaseInv, OneReceiptAtWork
    <3>. QED
      BY <2>1, <2>2, <3>1
  <2>. QED
    BY <2>3, <2>4
<1>17. RowsExist'
  <2>1. \A p \in Orders : orders[p] # NoRow => orders'[p] # NoRow
    BY <1>5, <1>7
  <2>2. Found(Idle) /\ Idle \in Request
    BY IdleBegun DEF Found
  <2>. QED
    BY <1>6, <2>1, <2>2, RowsStay
<1>. QED
  BY <1>10, <1>11, <1>12, <1>13, <1>15, <1>16, <1>17 DEF PurchaseInv

\* A piece is bought back while no receipt holds a number.
LEMMA BuyBackPreserves ==
  ASSUME PurchaseAssumption, PurchaseInv, NEW m \in Brought, BuyBack(m)
  PROVE  PurchaseInv'
<1>. DEFINE n == Len(items)
            piece == [n |-> n + 1, metal |-> m, entry |-> m, order |-> Null]
<1>1. items \in Seq(ItemRow) /\ n \in Nat /\ piece \in ItemRow
  BY DEF PurchaseInv, TypeOK, PurchaseAssumption, ItemRow
<1>2. items' = Append(items, piece) /\ UNCHANGED <<suppliers, orders, req>>
  BY DEF BuyBack
<1>3. /\ items' \in Seq(ItemRow) /\ Len(items') = n + 1
      /\ items'[n + 1] = piece /\ \A i \in 1..n : items'[i] = items[i]
  BY <1>1, <1>2
<1>4. TypeOK' /\ TotalNearSum' /\ OneReceiptAtWork' /\ RowsExist'
  BY <1>2, <1>3 DEF PurchaseInv, TypeOK, TotalNearSum, OneReceiptAtWork, Receiving, RowsExist
<1>5. NumbersContiguous'
  BY <1>1, <1>3 DEF PurchaseInv, NumbersContiguous
<1>6. ReceivedIsStocked'
  <2>1. \A p \in Orders : LineNumbers(p)' = LineNumbers(p)
    BY <1>2 DEF LineNumbers
  <2>2. 1..n \subseteq 1..Len(items')
    BY <1>1, <1>3
  <2>3. orders' = orders
    BY <1>2
  <2>. HIDE DEF n, piece
  <2>. QED
    BY <1>3, <2>1, <2>2, <2>3 DEF PurchaseInv, ReceivedIsStocked, n
<1>7. ReceiptsInOrder'
  <2>1. \A s \in Receiving : req[s].made = <<>>
    BY DEF BuyBack
  <2>. QED
    BY <1>2, <2>1 DEF PurchaseInv, ReceiptsInOrder, Receiving
<1>. QED
  BY <1>4, <1>5, <1>6, <1>7 DEF PurchaseInv

-----------------------------------------------------------------------------
(* Pieces are made once unless requests overlap.                           *)

OnceInv == ReadBeforeStocked /\ StockedOnceUnlessOverlapped

\* A piece is of an order that was received or cancelled, by someone who had read
\* the order before the piece came.
InTime(piece, i) == piece.order # Null =>
  /\ orders[piece.order] # NoRow /\ orders[piece.order].status # "PENDING"
  /\ i > orders[piece.order].seen

LEMMA OnceInvIs ==
  OnceInv <=> /\ \A r \in Requests : ReadInTime(req[r])
              /\ \A i \in 1..Len(items) : InTime(items[i], i)
BY DEF OnceInv, ReadBeforeStocked, StockedOnceUnlessOverlapped, InTime

\* Nothing changes but what one request has read or made.
LEMMA OnceSameStock ==
  ASSUME PurchaseInv, OnceInv, UNCHANGED <<orders, items>>, NEW r \in Requests,
         NEW q, ReadInTime(q), req' = [req EXCEPT ![r] = q]
  PROVE  OnceInv'
<1>1. \A s \in Requests : req'[s] = q \/ req'[s] = req[s]
  BY DEF PurchaseInv, TypeOK
<1>2. ASSUME NEW s \in Requests PROVE ReadInTime(req[s])'
  <2>1. ReadInTime(req'[s])
    BY <1>1, OnceInvIs
  <2>. QED
    BY <2>1 DEF ReadInTime
<1>3. \A i \in 1..Len(items') : InTime(items[i], i)'
  BY OnceInvIs DEF InTime
<1>4. OnceInv' <=> /\ \A s \in Requests : ReadInTime(req[s])'
                   /\ \A i \in 1..Len(items') : InTime(items[i], i)'
  BY DEF OnceInv, ReadBeforeStocked, StockedOnceUnlessOverlapped, InTime
<1>. QED
  BY <1>2, <1>3, <1>4

\* One order is written by a request that ends: a new order, or one whose new row
\* says what the request had read.
LEMMA OnceOrder ==
  ASSUME PurchaseInv, OnceInv, items' = items, NEW r \in Requests, Answer(r),
         NEW o \in Orders, NEW row, orders' = [orders EXCEPT ![o] = row],
         \/ orders[o] = NoRow
         \/ /\ row # NoRow /\ row.status # "PENDING"
            /\ \A i \in 1..Len(items) : items[i].order = o => i > row.seen
  PROVE  OnceInv'
<1>1. ASSUME NEW s \in Requests PROVE ReadInTime(req[s])'
  <2>1. req'[s] = Idle \/ req'[s] = req[s]
    BY DEF PurchaseInv, TypeOK, Answer
  <2>2. ReadInTime(req'[s])
    BY <2>1, OnceInvIs, IdleBegun DEF ReadInTime
  <2>. QED
    BY <2>2 DEF ReadInTime
<1>2. ASSUME NEW i \in 1..Len(items') PROVE InTime(items[i], i)'
  <2>1. InTime(items[i], i) /\ items'[i] = items[i] /\ i \in 1..Len(items)
    BY OnceInvIs
  <2>2. items[i] \in ItemRow
    BY <2>1 DEF PurchaseInv, TypeOK
  <2>3. /\ orders'[o] = row
        /\ \A p \in Orders : p # o => orders'[p] = orders[p]
    BY DEF PurchaseInv, TypeOK
  <2>4. items[i].order # Null => items[i].order \in Orders
    BY <2>2 DEF ItemRow
  <2>. QED
    BY <2>1, <2>3, <2>4 DEF InTime
<1>3. OnceInv' <=> /\ \A s \in Requests : ReadInTime(req[s])'
                   /\ \A i \in 1..Len(items') : InTime(items[i], i)'
  BY DEF OnceInv, ReadBeforeStocked, StockedOnceUnlessOverlapped, InTime
<1>. QED
  BY <1>1, <1>2, <1>3

\* A PENDING order has no piece: whoever reads it now reads it in time.
LEMMA OncePlans ==
  ASSUME PurchaseInv, OnceInv, NEW r \in Requests,
         \/ \E s \in Suppliers : PlanDeactivate(r, s) \/ PlanDeactivateParty(r, s)
                                 \/ \E d \in Drafts : PlanOrder(r, s, d)
         \/ \E name \in Sheets : PlanImport(r, name)
         \/ \E o \in Orders : PlanCancel(r, o)
         \/ \E o \in Orders : \E receipt \in [LineNumbers(o) -> Receipts],
                                  entry \in Newest \union {Null} :
              PlanReceive(r, o, receipt, entry)
         \/ CommitDeactivate(r) \/ Abort(r)
  PROVE  OnceInv'
<1>. SUFFICES \E q : ReadInTime(q) /\ req' = [req EXCEPT ![r] = q]
                     /\ UNCHANGED <<orders, items>>
  BY OnceSameStock
<1>1. \A q : q.op \notin {"receive", "cancel"} => ReadInTime(q)
  BY DEF ReadInTime
<1>2. ASSUME NEW o \in Orders, orders[o].status = "PENDING"
      PROVE  Len(items) \in Nat /\ \A i \in 1..Len(items) : items[i].order # o
  <2>1. items \in Seq(ItemRow)
    BY DEF PurchaseInv, TypeOK
  <2>2. o # Null
    BY PurchaseAssumption DEF PurchaseAssumption
  <2>. QED
    BY <1>2, <2>1, <2>2, OnceInvIs DEF InTime
<1>3. ASSUME NEW s \in Suppliers, PlanDeactivate(r, s) \/ PlanDeactivateParty(r, s)
      PROVE  \E q : ReadInTime(q) /\ req' = [req EXCEPT ![r] = q]
                    /\ UNCHANGED <<orders, items>>
  BY <1>1, <1>3 DEF PlanDeactivate, PlanDeactivateParty, Submit, Tables
<1>4. ASSUME NEW s \in Suppliers, NEW d \in Drafts, PlanOrder(r, s, d)
      PROVE  \E q : ReadInTime(q) /\ req' = [req EXCEPT ![r] = q]
                    /\ UNCHANGED <<orders, items>>
  BY <1>1, <1>4 DEF PlanOrder, Submit, Tables
<1>5. ASSUME NEW name \in Sheets, PlanImport(r, name)
      PROVE  \E q : ReadInTime(q) /\ req' = [req EXCEPT ![r] = q]
                    /\ UNCHANGED <<orders, items>>
  BY <1>1, <1>5 DEF PlanImport, Submit, Tables
<1>6. ASSUME NEW o \in Orders, PlanCancel(r, o)
      PROVE  \E q : ReadInTime(q) /\ req' = [req EXCEPT ![r] = q]
                    /\ UNCHANGED <<orders, items>>
  <2>. DEFINE q == [op |-> "cancel", order |-> o, seen |-> Len(items)]
  <2>1. orders[o].status = "PENDING" /\ req' = [req EXCEPT ![r] = q]
        /\ UNCHANGED <<orders, items>>
    BY <1>6 DEF PlanCancel, Submit, Tables
  <2>2. ReadInTime(q)
    BY <1>2, <2>1 DEF ReadInTime
  <2>. QED
    BY <2>1, <2>2
<1>7. ASSUME NEW o \in Orders, NEW receipt \in [LineNumbers(o) -> Receipts],
             NEW entry \in Newest \union {Null}, PlanReceive(r, o, receipt, entry)
      PROVE  \E q : ReadInTime(q) /\ req' = [req EXCEPT ![r] = q]
                    /\ UNCHANGED <<orders, items>>
  <2>. DEFINE q == [op |-> "receive", order |-> o, lines |-> orders[o].lines,
                    receipt |-> receipt, entry |-> entry, made |-> <<>>,
                    seen |-> Len(items)]
  <2>1. orders[o].status = "PENDING" /\ req' = [req EXCEPT ![r] = q]
        /\ UNCHANGED <<orders, items>>
    BY <1>7 DEF PlanReceive, Submit, Tables
  <2>2. ReadInTime(q)
    BY <1>2, <2>1 DEF ReadInTime
  <2>. QED
    BY <2>1, <2>2
<1>8. ASSUME CommitDeactivate(r) \/ Abort(r)
      PROVE  \E q : ReadInTime(q) /\ req' = [req EXCEPT ![r] = q]
                    /\ UNCHANGED <<orders, items>>
  BY <1>1, <1>8, IdleBegun DEF CommitDeactivate, Abort, Answer, Tables
<1>. QED
  BY <1>3, <1>4, <1>5, <1>6, <1>7, <1>8

LEMMA OnceOrders ==
  ASSUME PurchaseInv, OnceInv, NEW r \in Requests,
         \/ \E o \in Orders : CommitOrder(r, o) \/ CommitImport(r, o)
         \/ CommitCancel(r)
  PROVE  OnceInv'
<1>1. ASSUME NEW o \in Orders, CommitOrder(r, o) \/ CommitImport(r, o) PROVE OnceInv'
  <2>1. \E row : orders' = [orders EXCEPT ![o] = row]
    BY <1>1 DEF CommitOrder, CommitImport
  <2>2. orders[o] = NoRow /\ items' = items /\ Answer(r)
    BY <1>1 DEF CommitOrder, CommitImport
  <2>. QED
    BY <2>1, <2>2, OnceOrder
<1>2. ASSUME CommitCancel(r) PROVE OnceInv'
  <2>. DEFINE o == req[r].order
              row == [orders[o] EXCEPT !.status = "CANCELLED", !.seen = req[r].seen]
  <2>0. req[r] \in CancelRequest /\ req[r].op = "cancel"
    BY <1>2, RequestTypes DEF CommitCancel, PurchaseInv, TypeOK
  <2>1. o \in Orders /\ orders[o] # NoRow /\ orders[o] \in OrderRow /\ req[r].seen \in Nat
    BY <2>0 DEF CancelRequest, PurchaseInv, RowsExist, TypeOK
  <2>2. row \in OrderRow /\ row.status = "CANCELLED" /\ row.seen = req[r].seen
    BY <2>1 DEF OrderRow
  <2>3. row # NoRow
    BY <2>2 DEF OrderRow, NoRow
  <2>4. \A i \in 1..Len(items) : items[i].order = o => i > req[r].seen
    BY <2>0, OnceInvIs DEF ReadInTime
  <2>5. orders' = [orders EXCEPT ![o] = row] /\ items' = items /\ Answer(r)
    BY <1>2, <2>1 DEF CommitCancel, PurchaseInv, TypeOK
  <2>. HIDE DEF row, o
  <2>. QED
    BY <2>1, <2>2, <2>3, <2>4, <2>5, OnceOrder
<1>. QED
  BY <1>1, <1>2

LEMMA OnceStockLine ==
  ASSUME PurchaseInv, OnceInv, NEW r \in Requests, StockLine(r)
  PROVE  OnceInv'
<1>. DEFINE k == Len(req[r].made) + 1
            piece == [n |-> Len(items) + k, metal |-> req[r].lines[k].metal,
                      entry |-> req[r].entry, order |-> req[r].order]
            q == [req[r] EXCEPT !.made = Append(req[r].made, piece)]
<1>1. req[r] \in ReceiveRequest /\ ReadInTime(req[r]) /\ req[r].op = "receive"
  BY RequestTypes, OnceInvIs DEF StockLine, PurchaseInv, TypeOK
<1>2. req' = [req EXCEPT ![r] = q] /\ UNCHANGED <<orders, items>>
  BY DEF StockLine, Proceed, Tables
<1>3. piece.order = req[r].order
  OBVIOUS
<1>. HIDE DEF piece
<1>4. /\ q.op = "receive" /\ q.order = req[r].order /\ q.seen = req[r].seen
      /\ q.made = Append(req[r].made, piece) /\ req[r].made \in Seq(ItemRow)
  BY <1>1 DEF ReceiveRequest
<1>. HIDE DEF q
<1>5. ASSUME NEW j \in 1..Len(q.made) PROVE q.made[j].order = q.order
  <2>1. /\ Len(q.made) = Len(req[r].made) + 1 /\ q.made[Len(req[r].made) + 1] = piece
        /\ Len(req[r].made) \in Nat
        /\ \A l \in 1..Len(req[r].made) : q.made[l] = req[r].made[l]
    BY <1>4
  <2>2. CASE j \in 1..Len(req[r].made)
    BY <1>1, <1>4, <2>1, <2>2 DEF ReadInTime
  <2>3. CASE j = Len(req[r].made) + 1
    BY <1>3, <1>4, <2>1, <2>3
  <2>. QED
    BY <2>1, <2>2, <2>3
<1>6. ReadInTime(q)
  BY <1>1, <1>4, <1>5 DEF ReadInTime
<1>. QED
  BY <1>2, <1>6, OnceSameStock

\* New pieces come after everything anyone has read.
LEMMA OnceGrows ==
  ASSUME PurchaseInv, OnceInv, items' \in Seq(ItemRow), Len(items) <= Len(items'),
         \A i \in 1..Len(items) : items'[i] = items[i],
         \A s \in Requests : req'[s] = Idle \/ req'[s] = req[s],
         \A i \in 1..Len(items') : InTime(items[i], i)'
  PROVE  OnceInv'
<1>1. Len(items) \in Nat /\ Len(items') \in Nat
  BY DEF PurchaseInv, TypeOK
<1>2. ASSUME NEW s \in Requests PROVE ReadInTime(req[s])'
  <2>1. CASE req'[s] = Idle
    BY <2>1, IdleBegun DEF ReadInTime
  <2>2. CASE req'[s] = req[s]
    <3>. SUFFICES ASSUME req[s].op \in {"receive", "cancel"}
         PROVE  /\ req[s].seen <= Len(items')
                /\ \A i \in 1..Len(items') : items'[i].order = req[s].order => i > req[s].seen
                /\ req[s].op = "receive" =>
                     \A k \in 1..Len(req[s].made) : req[s].made[k].order = req[s].order
      BY <2>2 DEF ReadInTime
    <3>1. ReadInTime(req[s])
      BY OnceInvIs
    <3>2. req[s].seen \in Nat
      BY RequestTypes DEF PurchaseInv, TypeOK, ReceiveRequest, CancelRequest
    <3>3. req[s].seen <= Len(items) /\ req[s].seen <= Len(items')
      BY <1>1, <3>1, <3>2 DEF ReadInTime
    <3>4. ASSUME NEW i \in 1..Len(items'), items'[i].order = req[s].order
          PROVE  i > req[s].seen
      <4>1. CASE i \in 1..Len(items)
        BY <3>1, <3>4, <4>1 DEF ReadInTime
      <4>2. CASE i \notin 1..Len(items)
        BY <1>1, <3>2, <3>3, <4>2
      <4>. QED
        BY <4>1, <4>2
    <3>. QED
      BY <3>1, <3>3, <3>4 DEF ReadInTime
  <2>. QED
    BY <2>1, <2>2
<1>3. OnceInv' <=> /\ \A s \in Requests : ReadInTime(req[s])'
                   /\ \A i \in 1..Len(items') : InTime(items[i], i)'
  BY DEF OnceInv, ReadBeforeStocked, StockedOnceUnlessOverlapped, InTime
<1>. QED
  BY <1>2, <1>3

LEMMA OnceReceive ==
  ASSUME PurchaseInv, PurchaseInv', OnceInv, NEW r \in Requests, CommitReceive(r)
  PROVE  OnceInv'
<1>. DEFINE q == req[r]
<1>0. PICK o : o = q.order
  OBVIOUS
<1>1. /\ q \in ReceiveRequest /\ ReadInTime(q) /\ q.op = "receive" /\ o \in Orders
      /\ orders[o] # NoRow /\ orders[o] \in OrderRow
  <2>1. q \in ReceiveRequest /\ ReadInTime(q) /\ q.op = "receive" /\ q \in Request
    BY RequestTypes, OnceInvIs DEF CommitReceive, PurchaseInv, TypeOK
  <2>. QED
    BY <1>0, <2>1 DEF ReceiveRequest, PurchaseInv, RowsExist, TypeOK
<1>2. /\ items \in Seq(ItemRow) /\ q.made \in Seq(ItemRow) /\ q.seen \in Nat
      /\ q.seen <= Len(items) /\ \A k \in 1..Len(q.made) : q.made[k].order = o
      /\ \A i \in 1..Len(items) : items[i].order = o => i > q.seen
  BY <1>0, <1>1 DEF ReceiveRequest, ReadInTime, PurchaseInv, TypeOK
<1>3. items' = items \o q.made
  BY DEF CommitReceive
<1>4. /\ items' \in Seq(ItemRow) /\ Len(items') = Len(items) + Len(q.made)
      /\ Len(items) \in Nat /\ Len(q.made) \in Nat
      /\ \A i \in 1..Len(items) : items'[i] = items[i]
      /\ \A k \in 1..Len(q.made) : items'[Len(items) + k] = q.made[k]
  <2>. DEFINE S == ItemRow
              b == q.made
  <2>1. items \in Seq(S) /\ b \in Seq(S) /\ items' = items \o b
    BY <1>2, <1>3
  <2>. HIDE DEF S, b
  <2>2. /\ items' \in Seq(S) /\ Len(items') = Len(items) + Len(b)
        /\ Len(items) \in Nat /\ Len(b) \in Nat
        /\ \A i \in 1..Len(items) : items'[i] = items[i]
        /\ \A k \in 1..Len(b) : items'[Len(items) + k] = b[k]
    BY <2>1, Concatenated
  <2>. QED
    BY <2>2 DEF S, b
<1>5. /\ orders'[o] # NoRow /\ orders'[o].status = "RECEIVED" /\ orders'[o].seen = q.seen
      /\ \A p \in Orders : p # o => orders'[p] = orders[p]
  <2>. DEFINE lines == Received(q)
              total == NewTotal(q)
  <2>1. orders' = [orders EXCEPT ![o].status = "RECEIVED", ![o].seen = q.seen,
                                 ![o].lines = lines, ![o].total = total]
    BY <1>0 DEF CommitReceive
  <2>2. DOMAIN orders = Orders
    BY DEF PurchaseInv, TypeOK
  <2>. HIDE DEF lines, total
  <2>3. /\ orders'[o] = [orders[o] EXCEPT !.status = "RECEIVED", !.seen = q.seen,
                                          !.lines = lines, !.total = total]
        /\ \A p \in Orders : p # o => orders'[p] = orders[p]
    BY <1>1, <2>1, <2>2
  <2>4. orders'[o].status = "RECEIVED" /\ orders'[o].seen = q.seen
    BY <1>1, <2>3 DEF OrderRow
  <2>5. orders'[o] # NoRow
    BY <2>4 DEF NoRow
  <2>. QED
    BY <2>3, <2>4, <2>5
<1>6. \A s \in Requests : req'[s] = Idle \/ req'[s] = req[s]
  BY DEF CommitReceive, Answer, PurchaseInv, TypeOK
<1>7. ASSUME NEW i \in 1..Len(items') PROVE InTime(items[i], i)'
  <2>0. i \in Nat
    BY <1>4
  <2>1. CASE i \in 1..Len(items)
    <3>1. InTime(items[i], i) /\ items'[i] = items[i] /\ items[i] \in ItemRow
      BY <1>2, <1>4, <2>1, OnceInvIs
    <3>2. items[i].order # Null => items[i].order \in Orders
      BY <3>1 DEF ItemRow
    <3>3. items[i].order = o => i > q.seen
      BY <1>2, <2>1
    <3>. QED
      BY <1>5, <3>1, <3>2, <3>3 DEF InTime
  <2>2. CASE i \notin 1..Len(items)
    <3>1. i - Len(items) \in 1..Len(q.made) /\ Len(items) + (i - Len(items)) = i
      BY <1>4, <2>0, <2>2
    <3>2. items'[i] = q.made[i - Len(items)] /\ items'[i].order = o
      BY <1>2, <1>4, <3>1
    <3>3. i > q.seen
      BY <1>2, <1>4, <2>0, <2>2
    <3>. QED
      BY <1>5, <3>2, <3>3 DEF InTime
  <2>. QED
    BY <2>1, <2>2
<1>8. Len(items) <= Len(items')
  BY <1>4
<1>. QED
  BY <1>4, <1>6, <1>7, <1>8, OnceGrows

LEMMA OnceBuyBack ==
  ASSUME PurchaseInv, PurchaseInv', OnceInv, NEW m \in Brought, BuyBack(m)
  PROVE  OnceInv'
<1>. DEFINE piece == [n |-> Len(items) + 1, metal |-> m, entry |-> m, order |-> Null]
<1>1. items \in Seq(ItemRow) /\ items' \in Seq(ItemRow)
  BY DEF PurchaseInv, TypeOK
<1>2. items' = Append(items, piece) /\ orders' = orders /\ req' = req /\ piece.order = Null
  BY DEF BuyBack
<1>. HIDE DEF piece
<1>3. /\ Len(items) \in Nat /\ Len(items') = Len(items) + 1
      /\ items'[Len(items) + 1] = piece /\ \A i \in 1..Len(items) : items'[i] = items[i]
  BY <1>1, <1>2
<1>4. ASSUME NEW i \in 1..Len(items') PROVE InTime(items[i], i)'
  <2>1. CASE i \in 1..Len(items)
    BY <1>2, <1>3, <2>1, OnceInvIs DEF InTime
  <2>2. CASE i = Len(items) + 1
    BY <1>2, <1>3, <2>2 DEF InTime
  <2>. QED
    BY <1>3, <2>1, <2>2
<1>5. Len(items) <= Len(items') /\ \A s \in Requests : req'[s] = Idle \/ req'[s] = req[s]
  BY <1>2, <1>3
<1>. QED
  BY <1>1, <1>3, <1>4, <1>5, OnceGrows

LEMMA OnceStep ==
  ASSUME PurchaseInv, PurchaseInv', OnceInv, [Next]_vars PROVE OnceInv'
<1>0. ASSUME UNCHANGED <<orders, items, req>> PROVE OnceInv'
  BY <1>0 DEF OnceInv, ReadBeforeStocked, StockedOnceUnlessOverlapped, ReadInTime
<1>1. CASE UNCHANGED vars
  BY <1>0, <1>1 DEF vars
<1>2. CASE AtOnce
  BY <1>0, <1>2, OnceBuyBack DEF AtOnce, CreateSupplier, UpdateSupplier
<1>3. ASSUME NEW r \in Requests, OfSuppliers(r) PROVE OnceInv'
  BY <1>3, OncePlans DEF OfSuppliers
<1>4. ASSUME NEW r \in Requests, OfOrders(r) PROVE OnceInv'
  BY <1>4, OncePlans, OnceOrders, OnceStockLine, OnceReceive DEF OfOrders
<1>. QED
  BY <1>1, <1>2, <1>3, <1>4 DEF Next

-----------------------------------------------------------------------------
(* The theorems.                                                           *)

LEMMA InitInv == ASSUME PurchaseAssumption, Init PROVE PurchaseInv
<1>1. /\ \A r \in Requests : req[r] = Idle
      /\ \A o \in Orders : orders[o] = NoRow
      /\ items = <<>>
  BY DEF Init
<1>2. TypeOK
  <2>1. items \in Seq(ItemRow)
    BY <1>1
  <2>. QED
    BY <2>1, IdleBegun DEF Init, TypeOK
<1>3. Receiving = {}
  BY <1>1, IdleBegun DEF Receiving
<1>4. TotalNearSum /\ ReceivedIsStocked /\ NumbersContiguous
  BY <1>1 DEF TotalNearSum, ReceivedIsStocked, NumbersContiguous, LineNumbers
<1>5. ReceiptsInOrder /\ OneReceiptAtWork /\ RowsExist
  BY <1>1, <1>3, IdleBegun DEF ReceiptsInOrder, OneReceiptAtWork, RowsExist
<1>. QED
  BY <1>2, <1>4, <1>5 DEF PurchaseInv

LEMMA StepInv == ASSUME PurchaseAssumption, PurchaseInv, [Next]_vars PROVE PurchaseInv'
<1>1. CASE UNCHANGED vars
  BY <1>1 DEF vars, PurchaseInv, TypeOK, TotalNearSum, ReceivedIsStocked, LineNumbers,
              NumbersContiguous, ReceiptsInOrder, OneReceiptAtWork, Receiving, RowsExist
<1>2. CASE AtOnce
  <2>1. ASSUME NEW s \in Suppliers, NEW kind \in {"DIRECT", "TRADE"}, CreateSupplier(s, kind)
        PROVE  PurchaseInv'
    <3>1. [status |-> "active", kind |-> kind] \in SupplierRow
      BY DEF SupplierRow
    <3>. QED
      BY <2>1, <3>1, SuppliersPreserve DEF CreateSupplier
  <2>2. ASSUME NEW s \in Suppliers, NEW row \in SupplierRow, UpdateSupplier(s, row)
        PROVE  PurchaseInv'
    BY <2>2, SuppliersPreserve DEF UpdateSupplier
  <2>. QED
    BY <1>2, <2>1, <2>2, BuyBackPreserves DEF AtOnce
<1>3. ASSUME NEW r \in Requests, OfSuppliers(r) PROVE PurchaseInv'
  BY <1>3, PlansPreserve, EndsPreserve DEF OfSuppliers
<1>4. ASSUME NEW r \in Requests, OfOrders(r) PROVE PurchaseInv'
  BY <1>4, PlansPreserve, OrdersPreserve, StockLinePreserves, ReceivePreserves, EndsPreserve
  DEF OfOrders
<1>. QED
  BY <1>1, <1>2, <1>3, <1>4 DEF Next

\* The inductive invariant holds: whatever receipts, cancellations, imports and
\* purchases from customers are under way at once.
THEOREM PurchaseInvHolds == Spec => []PurchaseInv
<1>1. Init => PurchaseInv
  BY InitInv, PurchaseAssumption
<1>2. PurchaseInv /\ [Next]_vars => PurchaseInv'
  BY StepInv, PurchaseAssumption
<1>. QED
  BY <1>1, <1>2, PTL DEF Spec

\* The total of every order is the sum of its lines, but for half a paisa a line.
THEOREM TotalNearSumHolds == Spec => []TotalNearSum
<1>1. PurchaseInv => TotalNearSum
  BY DEF PurchaseInv
<1>. QED
  BY <1>1, PurchaseInvHolds, PTL

\* The lines of received orders name different pieces in stock, of their metal.
THEOREM ReceivedIsStockedHolds == Spec => []ReceivedIsStocked
<1>1. PurchaseInv => ReceivedIsStocked
  BY DEF PurchaseInv
<1>. QED
  BY <1>1, PurchaseInvHolds, PTL

\* An order is received or cancelled, last, by someone who had read it before any
\* of its pieces came: without overlap its pieces are made once.
THEOREM StockedOnceHolds == Spec => []StockedOnceUnlessOverlapped
<1>1. Init => OnceInv
  <2>1. ASSUME Init PROVE Len(items) = 0 /\ \A r \in Requests : req[r].op = "idle"
    BY <2>1, IdleBegun DEF Init
  <2>. QED
    BY <2>1 DEF OnceInv, ReadBeforeStocked, StockedOnceUnlessOverlapped, ReadInTime
<1>2. PurchaseInv /\ PurchaseInv' /\ OnceInv /\ [Next]_vars => OnceInv'
  BY OnceStep
<1>3. OnceInv => StockedOnceUnlessOverlapped
  BY DEF OnceInv
<1>. QED
  BY <1>1, <1>2, <1>3, PurchaseInvHolds, PTL DEF Spec

\* Purchased pieces are numbered without a gap.
THEOREM NumbersContiguousHolds == Spec => []NumbersContiguous
<1>1. PurchaseInv => NumbersContiguous
  BY DEF PurchaseInv
<1>. QED
  BY <1>1, PurchaseInvHolds, PTL
=============================================================================
