------------------------------ MODULE SalesDesk ------------------------------
(***************************************************************************)
(* Bills and the stock items on them: sales, returns, exchanges, purchases *)
(* from customers, payments, and everything else that moves an item or     *)
(* edits it: manual status changes, edits, trades and melting.             *)
(*                                                                         *)
(* Code: src/sales/sales.service.ts, src/stock/stock.service.ts,           *)
(* src/trade/trade.service.ts; melting in src/karigar/karigar.service.ts.  *)
(*                                                                         *)
(* A handler is split where another request can be seen (see               *)
(* ProductionOrders): Request... is what it reads and checks before its    *)
(* conditional update or first write, Commit... its writes, with the       *)
(* conditions of the conditional updates, which hold at the commit.        *)
(* A handler whose outcome depends on nothing it read earlier is one step. *)
(* Abort(r) is every other end of a request; a refusal that depends on     *)
(* data left out here (a rate is missing, the return window has closed)    *)
(* ends there, too.                                                        *)
(*                                                                         *)
(* Amounts are integers, in paisa.  The total of a bill is any member of   *)
(* Totals: rates, charges, taxes, discount and rounding can make it any    *)
(* amount.                                                                 *)
(***************************************************************************)
EXTENDS Integers, FiniteSets

CONSTANTS
  Items,           \* stock items
  Bills,           \* transactions (rows, with their bill numbers)
  Trades,          \* trades with other shops
  Requests,        \* requests that may be in flight at the same time
  InShop,          \* the items in stock at the start
  TradeItems,      \* the items a trade brings in
  Meltable,        \* the items production may melt
  ManualStatuses,  \* the statuses updateStockStatus is asked for
  Weights,         \* weights an item may have
  Totals,          \* totals a bill may have
  Differences,     \* differences an exchange may have
  Amounts          \* amounts a customer or the shop may pay

Settable ==
  {"IN_STOCK", "RESERVED", "SCRAPPED", "UNDER_DISPUTE", "IN_REMAKE", "REMADE"}

ASSUME SalesAssumption ==
  /\ InShop \subseteq Items
  /\ TradeItems \in [Trades -> SUBSET Items]
  /\ Meltable \subseteq Items
  /\ ManualStatuses \subseteq Settable
  /\ Weights \subseteq Nat
  /\ Totals \subseteq Nat
  /\ Differences \subseteq Int
  /\ Amounts \subseteq Nat \ {0}

VARIABLES
  item,     \* stock_items.status, "NONE" before the item is entered
  weight,   \* stock_items.grossWeightGram
  bill,     \* transactions, with their lines and payment records
  trade,    \* trades.status, "NONE" before the trade is entered
  melting,  \* source items of production issues that have not come back
  req       \* what each request in flight keeps in memory

vars == <<item, weight, bill, trade, melting, req>>

-----------------------------------------------------------------------------
(* Rows and requests.                                                      *)

\* The items that left with a bill, the items that came in, the weights of its
\* lines (of an exchange, of what left), its amounts, and the sum of its
\* payment records.
BillRow ==
  [kind: {"NONE", "SELL", "RETURN", "EXCHANGE", "BUY_BACK"},
   of: SUBSET Bills, out: SUBSET Items, in: SUBSET Items,
   weight: [Items -> Nat], total: Int, paid: Int, balance: Int,
   received: Nat]

NoBill == [kind |-> "NONE", of |-> {}, out |-> {}, in |-> {},
           weight |-> [i \in Items |-> 0], total |-> 0, paid |-> 0,
           balance |-> 0, received |-> 0]

Idle            == [op |-> "idle"]
SellRequest     == [op: {"sell"}, out: SUBSET Items, weight: [Items -> Nat]]
ReturnRequest   == [op: {"return"}, of: Bills, in: SUBSET Items,
                    weight: [Items -> Nat]]
ExchangeRequest == [op: {"exchange"}, in: SUBSET Items, out: SUBSET Items,
                    weight: [Items -> Nat]]
PayRequest      == [op: {"pay"}, bill: Bills, amount: Nat, paid: Int]
StatusRequest   == [op: {"status"}, item: Items, to: ManualStatuses]
EditRequest     == [op: {"edit"}, item: Items, weight: Nat]
TradeRequest    == [op: {"trade"}, trade: Trades, inStock: SUBSET Items,
                    to: {"COMPLETED", "CANCELLED"}]

Request == {Idle} \union SellRequest \union ReturnRequest
             \union ExchangeRequest \union PayRequest \union StatusRequest
             \union EditRequest \union TradeRequest

Submit(r, q) == req[r] = Idle /\ req' = [req EXCEPT ![r] = q]
Answer(r)    == req' = [req EXCEPT ![r] = Idle]

\* The lines of a bill for these items, at the weights read.
LineWeights(out, read) == [i \in Items |-> IF i \in out THEN read[i] ELSE 0]

Entered(i) == item[i] # "NONE"
IsSold(i)  == item[i] = "SOLD"

\* Bug: everything that is not under dispute can be sold.
NotDisputed(i) == item[i] # "UNDER_DISPUTE"

\* The condition of the update that sells.
ForSale(i) == item[i] \in {"IN_STOCK", "RESERVED"}

SetStatus(S, to) == [i \in Items |-> IF i \in S THEN to ELSE item[i]]

IsNew(b) == bill[b].kind = "NONE"

Tables == <<item, weight, bill, trade, melting>>

-----------------------------------------------------------------------------
Init ==
  /\ item = [i \in Items |-> IF i \in InShop THEN "IN_STOCK" ELSE "NONE"]
  /\ weight \in [Items -> Weights]
  /\ bill = [b \in Bills |-> NoBill]
  /\ trade = [t \in Trades |-> "NONE"]
  /\ melting = {}
  /\ req = [r \in Requests |-> Idle]

-----------------------------------------------------------------------------
(* createSell: items are read, then marked SOLD by a conditional update;   *)
(* the first payment may be at most twice the total.                       *)

RequestSell(r, out) ==
  /\ out # {}
  /\ \A i \in out : Entered(i) /\ item[i] # "UNDER_DISPUTE"
  /\ Submit(r, [op |-> "sell", out |-> out,
                weight |-> LineWeights(out, weight)])
  /\ UNCHANGED Tables

CommitSell(r, b, total, amount) ==
  /\ req[r].op = "sell"
  /\ IsNew(b)
  /\ \A i \in req[r].out : ForSale(i)
  /\ amount <= 2 * total
  /\ item' = SetStatus(req[r].out, "SOLD")
  /\ bill' = [bill EXCEPT ![b] =
                [kind |-> "SELL", of |-> {}, out |-> req[r].out, in |-> {},
                 weight |-> req[r].weight, total |-> total, paid |-> amount,
                 balance |-> total - amount, received |-> amount]]
  /\ Answer(r)
  /\ UNCHANGED <<weight, trade, melting>>

-----------------------------------------------------------------------------
(* createReturn: items of one sale come back and are refunded.  That they  *)
(* are still out under that sale is not checked, only that they are SOLD.  *)

RequestReturn(r, b, in) ==
  /\ bill[b].kind = "SELL"
  /\ in # {} /\ in \subseteq bill[b].out
  /\ Submit(r, [op |-> "return", of |-> b, in |-> in,
                weight |-> LineWeights(in, weight)])
  /\ UNCHANGED Tables

\* The condition of the update that takes items back.
BackFrom(S) == \A i \in S : IsSold(i)

\* Bug: the items get a status that no other handler knows.
CommitReturnAside(r, b, refund) ==
  /\ req[r].op = "return"
  /\ IsNew(b)
  /\ BackFrom(req[r].in)
  /\ item' = SetStatus(req[r].in, "RETURNED")
  /\ bill' = [bill EXCEPT ![b] =
                [kind |-> "RETURN", of |-> {req[r].of}, out |-> {},
                 in |-> req[r].in, weight |-> req[r].weight,
                 total |-> refund, paid |-> refund, balance |-> 0,
                 received |-> refund]]
  /\ Answer(r)
  /\ UNCHANGED <<weight, trade, melting>>

CommitReturn(r, b, refund) ==
  /\ req[r].op = "return"
  /\ IsNew(b)
  /\ BackFrom(req[r].in)
  /\ item' = SetStatus(req[r].in, "IN_STOCK")
  /\ bill' = [bill EXCEPT ![b] =
                [kind |-> "RETURN", of |-> {req[r].of}, out |-> {},
                 in |-> req[r].in, weight |-> req[r].weight,
                 total |-> refund, paid |-> refund, balance |-> 0,
                 received |-> refund]]
  /\ Answer(r)
  /\ UNCHANGED <<weight, trade, melting>>

-----------------------------------------------------------------------------
(* createExchange: some items come back, some leave, one bill settles the  *)
(* difference.  An item may do both.                                       *)

RequestExchange(r, in, out) ==
  /\ \A i \in in \union out : Entered(i)
  /\ Submit(r, [op |-> "exchange", in |-> in, out |-> out,
                weight |-> LineWeights(out, weight)])
  /\ UNCHANGED Tables

CommitExchange(r, b, difference, amount) ==
  LET in   == req[r].in
      out  == req[r].out
      read == [i \in Items |-> IF i \in in THEN weight[i] ELSE req[r].weight[i]]
  IN  /\ req[r].op = "exchange"
      /\ IsNew(b)
      /\ BackFrom(in)
      /\ \A i \in out \ in : ForSale(i)
      /\ item' = [i \in Items |-> IF i \in out THEN "SOLD"
                                  ELSE IF i \in in THEN "IN_STOCK"
                                  ELSE item[i]]
      /\ bill' = [bill EXCEPT ![b] =
                    [kind |-> "EXCHANGE", of |-> {}, out |-> out, in |-> in,
                     weight |-> LineWeights(out, read),
                     total |-> difference, paid |-> amount,
                     balance |-> difference - amount, received |-> amount]]
      /\ Answer(r)
      /\ UNCHANGED <<weight, trade, melting>>

-----------------------------------------------------------------------------
(* createBuyback, createOldGold: a customer's metal becomes a new item.    *)

BuyIn(b, i, total, amount) ==
  /\ IsNew(b)
  /\ ~Entered(i)
  /\ item' = SetStatus({i}, "IN_STOCK")
  /\ bill' = [bill EXCEPT ![b] =
                [kind |-> "BUY_BACK", of |-> {}, out |-> {}, in |-> {i},
                 weight |-> LineWeights({i}, weight), total |-> total,
                 paid |-> amount, balance |-> total - amount,
                 received |-> amount]]
  /\ UNCHANGED <<weight, trade, melting, req>>

-----------------------------------------------------------------------------
(* addPayment: the new amounts are computed from the bill as read.         *)

\* Bug: the remaining balance is not compared with the payment.
RequestPayAny(r, b, amount) ==
  /\ ~IsNew(b)
  /\ bill[b].balance # 0
  /\ Submit(r, [op |-> "pay", bill |-> b, amount |-> amount,
                paid |-> bill[b].paid])
  /\ UNCHANGED Tables

RequestPay(r, b, amount) ==
  /\ ~IsNew(b)
  /\ bill[b].balance # 0
  /\ bill[b].paid + amount <= bill[b].total
  /\ Submit(r, [op |-> "pay", bill |-> b, amount |-> amount,
                paid |-> bill[b].paid])
  /\ UNCHANGED Tables

\* Bug: the bill is set to the payment instead of the sum.
CommitPayLast(r) ==
  /\ req[r].op = "pay"
  /\ LET b == req[r].bill
     IN  bill' = [bill EXCEPT ![b].paid = req[r].amount,
                    ![b].balance = bill[b].total - req[r].amount,
                    ![b].received = bill[b].received + req[r].amount]
  /\ Answer(r)
  /\ UNCHANGED <<item, weight, trade, melting>>

CommitPay(r) ==
  /\ req[r].op = "pay"
  /\ LET b    == req[r].bill
         paid == req[r].paid + req[r].amount
     IN  bill' = [bill EXCEPT ![b].paid = paid,
                    ![b].balance = bill[b].total - paid,
                    ![b].received = bill[b].received + req[r].amount]
  /\ Answer(r)
  /\ UNCHANGED <<item, weight, trade, melting>>

-----------------------------------------------------------------------------
(* createStockItem and bulkCreateStock enter new items.  updateStockStatus *)
(* and updateStockItem check the status on a row read before and update it *)
(* without a condition.                                                    *)

EnterStock(S) ==
  /\ S # {}
  /\ \A i \in S : ~Entered(i)
  /\ item' = SetStatus(S, "IN_STOCK")
  /\ UNCHANGED <<weight, bill, trade, melting, req>>

\* Bug: the status of a SOLD item can be set, too.
RequestStatusAny(r, i, to) ==
  /\ Entered(i)
  /\ Submit(r, [op |-> "status", item |-> i, to |-> to])
  /\ UNCHANGED Tables

RequestStatus(r, i, to) ==
  /\ Entered(i) /\ ~IsSold(i)
  /\ Submit(r, [op |-> "status", item |-> i, to |-> to])
  /\ UNCHANGED Tables

CommitStatus(r) ==
  /\ req[r].op = "status"
  /\ item' = [item EXCEPT ![req[r].item] = req[r].to]
  /\ Answer(r)
  /\ UNCHANGED <<weight, bill, trade, melting>>

\* Bug: only scrapped items are refused.
RequestEditSold(r, i, w) ==
  /\ Entered(i) /\ item[i] # "SCRAPPED"
  /\ Submit(r, [op |-> "edit", item |-> i, weight |-> w])
  /\ UNCHANGED Tables

RequestEdit(r, i, w) ==
  /\ Entered(i) /\ item[i] \notin {"SOLD", "SCRAPPED"}
  /\ Submit(r, [op |-> "edit", item |-> i, weight |-> w])
  /\ UNCHANGED Tables

CommitEdit(r) ==
  /\ req[r].op = "edit"
  /\ weight' = [weight EXCEPT ![req[r].item] = req[r].weight]
  /\ Answer(r)
  /\ UNCHANGED <<item, bill, trade, melting>>

-----------------------------------------------------------------------------
(* createTrade, updateTradeStatus: cancelling scraps the items that were   *)
(* in stock when the trade was read.                                       *)

CreateTrade(t) ==
  /\ trade[t] = "NONE"
  /\ \A i \in TradeItems[t] : ~Entered(i)
  /\ trade' = [trade EXCEPT ![t] = "PENDING"]
  /\ item' = SetStatus(TradeItems[t], "IN_STOCK")
  /\ UNCHANGED <<weight, bill, melting, req>>

RequestTrade(r, t, to) ==
  /\ trade[t] = "PENDING"
  /\ Submit(r, [op |-> "trade", trade |-> t, to |-> to,
                inStock |-> {i \in TradeItems[t] : item[i] = "IN_STOCK"}])
  /\ UNCHANGED Tables

CommitTrade(r) ==
  /\ req[r].op = "trade"
  /\ trade' = [trade EXCEPT ![req[r].trade] = req[r].to]
  /\ item' = IF req[r].to = "CANCELLED"
             THEN SetStatus(req[r].inStock, "SCRAPPED") ELSE item
  /\ Answer(r)
  /\ UNCHANGED <<weight, bill, melting>>

-----------------------------------------------------------------------------
(* Production seen from here: createProductionIssue takes an item by a     *)
(* conditional update, the return of the issue writes REMADE by id.        *)

Melt(i) ==
  /\ i \in Meltable
  /\ item[i] = "IN_STOCK"
  /\ item' = SetStatus({i}, "IN_REMAKE")
  /\ melting' = melting \union {i}
  /\ UNCHANGED <<weight, bill, trade, req>>

Remake(i) ==
  /\ i \in melting
  /\ item' = SetStatus({i}, "REMADE")
  /\ melting' = melting \ {i}
  /\ UNCHANGED <<weight, bill, trade, req>>

-----------------------------------------------------------------------------
Abort(r) ==
  /\ req[r] # Idle
  /\ Answer(r)
  /\ UNCHANGED Tables

Requesting(r) ==
  \/ \E out \in SUBSET Items : RequestSell(r, out)
  \/ \E b \in Bills, in \in SUBSET Items : RequestReturn(r, b, in)
  \/ \E in, out \in SUBSET Items : RequestExchange(r, in, out)
  \/ \E b \in Bills, amount \in Amounts : RequestPay(r, b, amount)
  \/ \E i \in Items, to \in ManualStatuses : RequestStatus(r, i, to)
  \/ \E i \in Items, w \in Weights : RequestEdit(r, i, w)
  \/ \E t \in Trades, to \in {"COMPLETED", "CANCELLED"} :
       RequestTrade(r, t, to)

Committing(r) ==
  \/ \E b \in Bills, total \in Totals, amount \in Amounts :
       CommitSell(r, b, total, amount)
  \/ \E b \in Bills, refund \in Totals : CommitReturn(r, b, refund)
  \/ \E b \in Bills, difference \in Differences, amount \in Amounts :
       CommitExchange(r, b, difference, amount)
  \/ CommitPay(r)
  \/ CommitStatus(r)
  \/ CommitEdit(r)
  \/ CommitTrade(r)

AtOnce ==
  \/ \E b \in Bills, i \in Items, total \in Totals, amount \in Amounts :
       BuyIn(b, i, total, amount)
  \/ \E S \in SUBSET Items : EnterStock(S)
  \/ \E i \in Items : Melt(i) \/ Remake(i)
  \/ \E t \in Trades : CreateTrade(t)

Next ==
  \/ \E r \in Requests : Requesting(r) \/ Committing(r) \/ Abort(r)
  \/ AtOnce

Spec == Init /\ [][Next]_vars
=============================================================================
