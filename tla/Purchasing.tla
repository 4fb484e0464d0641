----------------------------- MODULE Purchasing -----------------------------
(***************************************************************************)
(* Suppliers, orders of finished pieces from them, and their receipt into  *)
(* stock; the cost the profit report takes for a purchased piece.          *)
(*                                                                         *)
(* Code: src/purchase/purchase.service.ts, the parties of                  *)
(* trade.service.ts, import.service.ts (importPurchase),                   *)
(* stock-sku.service.ts (generateSku), and the cost rate of                *)
(* ledger.service.ts (getProfitReport) and of stock.service.ts             *)
(* (resolveCostRateInfo).                                                  *)
(*                                                                         *)
(* The operations on one row read it (Plan...) and write it by its id      *)
(* (Commit...) without a transaction.  A receipt reads the order first and *)
(* then runs one transaction: StockLine numbers and inserts the piece of   *)
(* each line, CommitReceive publishes all of it.  A number is the count of *)
(* PUR- pieces of the day plus one; the day is one day here.               *)
(*                                                                         *)
(* Prices are typed with any number of decimals and stored in paisa: a     *)
(* typed price is a number of parts of a paisa, Paisa what a column keeps  *)
(* of it.  Rates are taken to be typed in whole paisa.                     *)
(***************************************************************************)
EXTENDS Integers, Sequences

CONSTANTS
  Suppliers,     \* ids of suppliers
  NameOf,        \* the name of each: names need not be unique
  Orders,        \* ids of purchase orders
  Metals,        \* metal types
  RateOf,        \* what each metal's daily rate says of a gram
  Newest,        \* metals whose daily rate may be the newest of a day
  Brought,       \* metals customers bring
  Drafts,        \* sequences of [metal, price, rate] that may be ordered
  Sheet,         \* the lines of an imported sheet, all of one supplier
  Sheets,        \* names of suppliers a sheet may name
  Receipts,      \* [price, rate] a receipt may say of a line, Null: as ordered
  Parts,         \* the parts of a paisa a typed price may tell apart
  Requests,      \* requests that may be in flight at the same time
  MaxItems       \* bound: purchased pieces

Null == -1

\* A line as it is typed in, and what a receipt says of a line: prices in parts
\* of a paisa.
DraftRow   == [metal: Metals, price: Nat, rate: (Nat \ {0}) \union {Null}]
ReceiptRow == [price: Nat \union {Null}, rate: (Nat \ {0}) \union {Null}]

ASSUME PurchaseAssumption ==
  /\ Newest \subseteq Metals /\ Brought \subseteq Metals
  /\ RateOf \in [Metals -> Nat \ {0}]
  /\ Drafts \union {Sheet} \subseteq Seq(DraftRow)
  /\ Receipts \subseteq ReceiptRow
  /\ Parts \in Nat \ {0} /\ MaxItems \in Nat /\ Null \notin Orders

VARIABLES
  suppliers,   \* suppliers
  orders,      \* purchase_orders with their lines
  items,       \* stock_items of origin PURCHASED, in the order of insertion
  req          \* what each request in flight keeps in memory

vars == <<suppliers, orders, items, req>>

Tables == <<suppliers, orders, items>>

-----------------------------------------------------------------------------
(* Rows and requests.                                                      *)

NoRow == [status |-> "none"]

\* A supplier, active or not, who sells pieces (DIRECT) or trades metal.
SupplierRow == [status: {"active", "inactive"}, kind: {"DIRECT", "TRADE"}]

\* A line, its price in paisa; item is the place of its piece in items, 0 before
\* the receipt.
LineRow == [metal: Metals, price: Nat, rate: Nat \union {Null}, item: Nat]

\* History: seen is the number of pieces in stock when the request that wrote
\* the status had read it.
OrderRow == [status: {"PENDING", "RECEIVED", "CANCELLED"}, supplier: Suppliers,
             total: Nat, lines: Seq(LineRow), seen: Nat]

\* A piece in stock: its number and the metal whose daily rate is its entry
\* rate, Null when it has none.  History: the order it came with, or Null.
ItemRow == [n: Nat, metal: Metals, entry: Metals \union {Null},
            order: Orders \union {Null}]

Idle == [op |-> "idle"]

Submit(r, q)  == req[r] = Idle /\ req' = [req EXCEPT ![r] = q]
Proceed(r, q) == req' = [req EXCEPT ![r] = q]
Answer(r)     == req' = [req EXCEPT ![r] = Idle]

Receiving == {r \in Requests : req[r].op = "receive"}

TotalOf(lines) ==
  LET sum[k \in 0..Len(lines)] == IF k = 0 THEN 0 ELSE sum[k - 1] + lines[k].price
  IN  sum[Len(lines)]

\* Decimal(12, 2): a price in parts, rounded half up to paisa.
Paisa(x) == (2 * x + Parts) \div (2 * Parts)

\* What it keeps of a sum of floating point numbers, which at half a paisa may
\* fall to either side.
AddedUp(x) == {Paisa(x), (2 * x + Parts - 1) \div (2 * Parts)}

LineNumbers(o) == IF orders[o] = NoRow THEN {} ELSE 1..Len(orders[o].lines)

Pending(s) ==
  {o \in Orders : orders[o].status = "PENDING" /\ orders[o].supplier = s}

Init ==
  /\ suppliers = [s \in Suppliers |-> NoRow]
  /\ orders = [o \in Orders |-> NoRow]
  /\ items = <<>>
  /\ req = [r \in Requests |-> Idle]

-----------------------------------------------------------------------------
(* Suppliers.                                                              *)

CreateSupplier(s, kind) ==
  /\ suppliers[s] = NoRow
  /\ suppliers' = [suppliers EXCEPT ![s] = [status |-> "active", kind |-> kind]]
  /\ UNCHANGED <<orders, items, req>>

\* updateSupplier sets anything, the kind and isActive too.
UpdateSupplier(s, row) ==
  /\ suppliers[s] # NoRow
  /\ suppliers' = [suppliers EXCEPT ![s] = row]
  /\ UNCHANGED <<orders, items, req>>

\* deactivateSupplier counts the pending orders ...
PlanDeactivate(r, s) ==
  /\ suppliers[s] # NoRow /\ Pending(s) = {}
  /\ Submit(r, [op |-> "deactivate", supplier |-> s])
  /\ UNCHANGED Tables

\* deactivateTradeParty works on the same table: of any supplier, it asks for
\* pending trades only, which are left out here.
PlanDeactivateParty(r, s) ==
  /\ suppliers[s] # NoRow
  /\ Submit(r, [op |-> "deactivate", supplier |-> s])
  /\ UNCHANGED Tables

CommitDeactivate(r) ==
  /\ req[r].op = "deactivate"
  /\ suppliers' = [suppliers EXCEPT ![req[r].supplier].status = "inactive"]
  /\ Answer(r)
  /\ UNCHANGED <<orders, items>>

-----------------------------------------------------------------------------
(* Orders, typed in or imported.                                           *)

\* createPurchaseOrder: from an active supplier of the right kind.
PlanOrder(r, s, draft) ==
  /\ suppliers[s] = [status |-> "active", kind |-> "DIRECT"]
  /\ Submit(r, [op |-> "order", supplier |-> s, draft |-> draft])
  /\ UNCHANGED Tables

\* One order with its lines, PENDING; the prices are added up as typed, the
\* total and each line's price are rounded when they are stored.
NewOrder(s, draft, total) ==
  [status |-> "PENDING", supplier |-> s, total |-> total,
   lines |-> [k \in 1..Len(draft) |->
                [metal |-> draft[k].metal, price |-> Paisa(draft[k].price),
                 rate |-> draft[k].rate, item |-> 0]],
   seen |-> 0]

CommitOrder(r, o) ==
  /\ req[r].op = "order"
  /\ orders[o] = NoRow
  /\ \E total \in AddedUp(TotalOf(req[r].draft)) :
       orders' = [orders EXCEPT ![o] = NewOrder(req[r].supplier, req[r].draft, total)]
  /\ Answer(r)
  /\ UNCHANGED <<suppliers, items>>

\* importPurchase: any supplier of that name, active or not, of either kind;
\* or none yet ...
PlanImport(r, name) ==
  /\ \E s \in Suppliers :
       /\ NameOf[s] = name
       /\ (suppliers[s] = NoRow) =>
            \A t \in Suppliers : NameOf[t] = name => suppliers[t] = NoRow
       /\ Submit(r, [op |-> "import", supplier |-> s,
                     found |-> suppliers[s] # NoRow])
  /\ UNCHANGED Tables

\* ... who is created with the order in the transaction.
CommitImport(r, o) ==
  /\ req[r].op = "import"
  /\ orders[o] = NoRow
  /\ req[r].found \/ suppliers[req[r].supplier] = NoRow
  /\ suppliers' = IF req[r].found THEN suppliers
                  ELSE [suppliers EXCEPT ![req[r].supplier] =
                          [status |-> "active", kind |-> "DIRECT"]]
  /\ \E total \in AddedUp(TotalOf(Sheet)) :
       orders' = [orders EXCEPT ![o] = NewOrder(req[r].supplier, Sheet, total)]
  /\ Answer(r)
  /\ UNCHANGED items

-----------------------------------------------------------------------------
(* Receipt and cancellation.                                               *)

\* Bug: an order that was received or cancelled is received again.
PlanReceiveAny(r, o, receipt, entry) ==
  /\ orders[o] # NoRow
  /\ Submit(r, [op |-> "receive", order |-> o, lines |-> orders[o].lines,
                receipt |-> receipt, entry |-> entry, made |-> <<>>,
                seen |-> Len(items)])
  /\ UNCHANGED Tables

\* receivePurchaseOrder reads the order before its transaction, and as entry
\* rate of all lines the newest daily rate up to the day of purchase, of
\* whatever metal, or none; the receipt may say more of any line.
PlanReceive(r, o, receipt, entry) ==
  /\ orders[o].status = "PENDING"
  /\ Submit(r, [op |-> "receive", order |-> o, lines |-> orders[o].lines,
                receipt |-> receipt, entry |-> entry, made |-> <<>>,
                seen |-> Len(items)])
  /\ UNCHANGED Tables

\* Bug: no unique index on the SKU.
NoIndex(r, n) == n > Len(items)

\* generateSku counts the rows it sees; while another transaction holds the
\* same number, the unique index makes the insert wait.
Unique(r, n) == \A q \in Receiving \ {r} : \A k \in 1..Len(req[q].made) :
                  req[q].made[k].n # n

\* The lines are taken one by one.
LineLeft(q) == Len(q.made) < Len(q.lines)

StockLine(r) ==
  LET k == Len(req[r].made) + 1
      n == Len(items) + k
  IN  /\ req[r].op = "receive" /\ LineLeft(req[r])
      /\ n <= MaxItems
      /\ Unique(r, n)
      /\ Proceed(r, [req[r] EXCEPT !.made = Append(@,
           [n |-> n, metal |-> req[r].lines[k].metal, entry |-> req[r].entry,
            order |-> req[r].order])])
      /\ UNCHANGED Tables

\* Number(null) is 0, so that a rate nobody entered is stored as 0.
RateReceived(line, said) ==
  IF said.rate # Null THEN said.rate
  ELSE IF line.rate = Null THEN 0 ELSE line.rate

\* The prices of the receipt: as typed in, or as stored with the order.
Final(q) ==
  [k \in 1..Len(q.lines) |->
     [price |-> IF q.receipt[k].price = Null THEN Parts * q.lines[k].price
                ELSE q.receipt[k].price]]

\* The lines as received, each with its piece, and the total of the receipt.
Received(q) ==
  [k \in 1..Len(q.lines) |->
     [metal |-> q.lines[k].metal, item |-> Len(items) + k,
      price |-> Paisa(Final(q)[k].price),
      rate  |-> RateReceived(q.lines[k], q.receipt[k])]]

NewTotal(q) == Paisa(TotalOf(Final(q)))

\* Bug: the total stays what was ordered.
CommitReceiveAsOrdered(r) ==
  LET q == req[r] IN
  /\ q.op = "receive" /\ ~LineLeft(q)
  /\ items' = items \o q.made
  /\ orders' = [orders EXCEPT ![q.order].status = "RECEIVED",
                              ![q.order].seen = q.seen,
                              ![q.order].lines = Received(q)]
  /\ Answer(r)
  /\ UNCHANGED suppliers

\* The order is RECEIVED, whatever it has become in the meantime.
CommitReceive(r) ==
  LET q == req[r] IN
  /\ q.op = "receive" /\ ~LineLeft(q)
  /\ items' = items \o q.made
  /\ orders' = [orders EXCEPT ![q.order].status = "RECEIVED",
                              ![q.order].seen = q.seen,
                              ![q.order].lines = Received(q),
                              ![q.order].total = NewTotal(q)]
  /\ Answer(r)
  /\ UNCHANGED suppliers

\* cancelPurchaseOrder.
PlanCancel(r, o) ==
  /\ orders[o].status = "PENDING"
  /\ Submit(r, [op |-> "cancel", order |-> o, seen |-> Len(items)])
  /\ UNCHANGED Tables

CommitCancel(r) ==
  /\ req[r].op = "cancel"
  /\ orders' = [orders EXCEPT ![req[r].order].status = "CANCELLED",
                              ![req[r].order].seen = req[r].seen]
  /\ Answer(r)
  /\ UNCHANGED <<suppliers, items>>

\* The sales desk buys a customer's old metal: a PURCHASED piece of no order.
BuyBack(m) ==
  /\ Len(items) < MaxItems
  /\ \A q \in Receiving : req[q].made = <<>>
  /\ items' = Append(items, [n |-> Len(items) + 1, metal |-> m, entry |-> m,
                             order |-> Null])
  /\ UNCHANGED <<suppliers, orders, req>>

\* The request fails where the code throws, or the server stops.
Abort(r) ==
  /\ req[r] # Idle
  /\ Answer(r)
  /\ UNCHANGED Tables

-----------------------------------------------------------------------------
\* The lines that name piece i.
LinesNaming(i) ==
  UNION {{line \in {orders[o].lines[k] : k \in LineNumbers(o)} : line.item = i} :
           o \in Orders}

\* resolveCostRateInfo, for the piece's page and the cost audit: the line's rate
\* if it has one, or else the entry rate.
CostSource(i) ==
  IF \E line \in LinesNaming(i) : line.rate # Null THEN "PURCHASE_RATE"
  ELSE IF items[i].entry # Null THEN "ENTRY_RATE" ELSE "UNKNOWN"

\* getProfitReport takes the rate from the same source.
CostRate(i) ==
  CASE CostSource(i) = "PURCHASE_RATE" ->
         (CHOOSE line \in LinesNaming(i) : line.rate # Null).rate
    [] CostSource(i) = "ENTRY_RATE" -> RateOf[items[i].entry]
    [] OTHER -> Null

-----------------------------------------------------------------------------
OfSuppliers(r) ==
  \/ \E s \in Suppliers : PlanDeactivate(r, s) \/ PlanDeactivateParty(r, s)
                          \/ \E d \in Drafts : PlanOrder(r, s, d)
  \/ \E name \in Sheets : PlanImport(r, name)
  \/ CommitDeactivate(r)

OfOrders(r) ==
  \/ \E o \in Orders :
       \/ CommitOrder(r, o) \/ CommitImport(r, o) \/ PlanCancel(r, o)
       \/ \E receipt \in [LineNumbers(o) -> Receipts], entry \in Newest \union {Null} :
            PlanReceive(r, o, receipt, entry)
  \/ StockLine(r) \/ CommitReceive(r) \/ CommitCancel(r) \/ Abort(r)

AtOnce ==
  \/ \E s \in Suppliers : \/ \E kind \in {"DIRECT", "TRADE"} : CreateSupplier(s, kind)
                          \/ \E row \in SupplierRow : UpdateSupplier(s, row)
  \/ \E m \in Brought : BuyBack(m)

Next == AtOnce \/ \E r \in Requests : OfSuppliers(r) \/ OfOrders(r)

Spec == Init /\ [][Next]_vars
=============================================================================
