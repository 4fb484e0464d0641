------------------------- MODULE PurchaseProperties -------------------------
(***************************************************************************)
(* What purchasing promises.                                               *)
(***************************************************************************)
EXTENDS Purchasing

\* What the reads of a request found is kept in memory.
DeactivateRequest == [op: {"deactivate"}, supplier: Suppliers]
OrderRequest      == [op: {"order"}, supplier: Suppliers, draft: Drafts]
ImportRequest     == [op: {"import"}, supplier: Suppliers, found: BOOLEAN]
ReceiveRequest    == [op: {"receive"}, order: Orders, lines: Seq(LineRow),
                      receipt: Seq(Receipts), entry: Newest \union {Null},
                      made: Seq(ItemRow), seen: Nat]
CancelRequest     == [op: {"cancel"}, order: Orders, seen: Nat]

Request == {Idle} \union DeactivateRequest \union OrderRequest
             \union ImportRequest \union ReceiveRequest \union CancelRequest

\* Type invariant of the tables and of what requests keep in memory.
TypeOK ==
  /\ suppliers \in [Suppliers -> SupplierRow \union {NoRow}]
  /\ orders \in [Orders -> OrderRow \union {NoRow}]
  /\ items \in Seq(ItemRow)
  /\ req \in [Requests -> Request]

-----------------------------------------------------------------------------
\* A total is the sum of its lines but for half a paisa a line, and another half
\* when it is too low.
NearSum(total, lines) ==
  /\ 2 * (total - TotalOf(lines)) <= Len(lines)
  /\ 2 * (TotalOf(lines) - total) <= Len(lines) + 1

\* "Total recalculated from actual received prices": the total of an order is
\* the sum of its lines but for half a paisa a line and half a paisa, though
\* total and lines are rounded each by itself, the first from floating point,
\* prices change with the receipt, and two receipts, a receipt and a
\* cancellation, or an import are under way at once (createPurchaseOrder,
\* importPurchase, receivePurchaseOrder).
TotalNearSum ==
  \A o \in Orders : orders[o] # NoRow => NearSum(orders[o].total, orders[o].lines)

\* Whatever raced, each line of a RECEIVED order names a piece in stock of its
\* metal, and no two lines of any orders name the same piece
\* (receivePurchaseOrder; the ledger counts the lines, the shelf the pieces).
ReceivedIsStocked ==
  \A o \in Orders : \A k \in LineNumbers(o) :
    LET line == orders[o].lines[k] IN
    /\ orders[o].status = "RECEIVED" => line.item # 0
    /\ line.item # 0 =>
         /\ line.item \in 1..Len(items)
         /\ items[line.item].metal = line.metal
         /\ \A p \in Orders : \A j \in LineNumbers(p) :
              orders[p].lines[j].item = line.item => p = o /\ j = k

\* "Each line creates one StockItem": the pieces of an order are made once,
\* unless requests overlap.  Whoever received or cancelled an order last had
\* read it before any piece of it came into stock, so that pieces no line names,
\* and pieces of a cancelled order, are always the work of a receipt that was
\* under way at the same time (receivePurchaseOrder, cancelPurchaseOrder: the
\* status is read before the transaction and not asked for by the update).
StockedOnceUnlessOverlapped ==
  \A i \in 1..Len(items) : items[i].order # Null =>
    i > orders[items[i].order].seen

\* The k-th purchased piece has number k: the count is a safe source of numbers
\* because receipts wait for each other and no piece is ever deleted
\* (generateSku).
NumbersContiguous == \A k \in 1..Len(items) : items[k].n = k

-----------------------------------------------------------------------------
\* A receipt says something of each line it read, makes their pieces in order,
\* and numbers them on from the pieces that are in stock.
ReceiptsInOrder ==
  \A r \in Receiving : LET q == req[r] IN
    /\ Len(q.receipt) = Len(q.lines) /\ Len(q.made) <= Len(q.lines)
    /\ \A k \in 1..Len(q.made) : /\ q.made[k].n = Len(items) + k
                                 /\ q.made[k].metal = q.lines[k].metal

\* At most one receipt has made pieces it has not committed: the second would
\* have to use the number of the first.
OneReceiptAtWork ==
  \A r, s \in Receiving : req[r].made # <<>> /\ req[s].made # <<>> => r = s

\* A request that goes on with a row it has read finds one: rows are not deleted.
RowsExist ==
  \A r \in Requests :
    /\ req[r].op \in {"receive", "cancel"} => orders[req[r].order] # NoRow
    /\ req[r].op = "deactivate" => suppliers[req[r].supplier] # NoRow

\* A receipt or cancellation has read the order before any piece of it was in
\* stock, and makes pieces of no other order ...
ReadInTime(q) == q.op \in {"receive", "cancel"} =>
  /\ q.seen <= Len(items)
  /\ \A i \in 1..Len(items) : items[i].order = q.order => i > q.seen
  /\ q.op = "receive" => \A k \in 1..Len(q.made) : q.made[k].order = q.order

\* ... and a PENDING order has none.
ReadBeforeStocked ==
  /\ \A r \in Requests : ReadInTime(req[r])
  /\ \A i \in 1..Len(items) : items[i].order # Null =>
       orders[items[i].order] # NoRow /\ orders[items[i].order].status # "PENDING"

\* The inductive invariant of receipts, cancellations and imports, whatever is
\* under way at once.
PurchaseInv ==
  /\ TypeOK /\ TotalNearSum /\ ReceivedIsStocked /\ NumbersContiguous
  /\ ReceiptsInOrder /\ OneReceiptAtWork /\ RowsExist

-----------------------------------------------------------------------------
\* The report's list of cost rates: the rate entered for the piece, or the
\* daily rate of its metal when it came in, or unknown (getProfitReport,
\* resolveCostRateInfo).
CostIsKnown ==
  \A i \in 1..Len(items) :
    \/ CostSource(i) = "UNKNOWN"
    \/ CostSource(i) = "ENTRY_RATE" /\ CostRate(i) = RateOf[items[i].metal]
    \/ CostSource(i) = "PURCHASE_RATE" /\ CostRate(i) > 0
=============================================================================
