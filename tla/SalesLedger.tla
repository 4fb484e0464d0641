----------------------------- MODULE SalesLedger -----------------------------
(***************************************************************************)
(* What the reports read from the bills: the gold ledger, the customer     *)
(* ledger and the nightly integrity checks.  They change nothing; here     *)
(* they are operators on the tables of SalesDesk.                          *)
(*                                                                         *)
(* Code: src/ledger/ledger.service.ts,                                     *)
(* src/stock/stock.service.ts (getStockWeightSummary),                     *)
(* src/common/integrity/integrity-check.runner.ts.                         *)
(*                                                                         *)
(* One customer and one metal: the ledgers select rows by customer, metal  *)
(* and date, and every sum below is over the rows selected.                *)
(***************************************************************************)
EXTENDS SalesProperties, Functions

\* A report adds up finitely many rows.
ASSUME LedgerAssumption == IsFiniteSet(Bills) /\ IsFiniteSet(Items)

BillsOf(kind) == {b \in Bills : bill[b].kind = kind}

-----------------------------------------------------------------------------
(* getGoldLedger: its movements of the items in S.  The lines of exchanges *)
(* and of metal bought from customers are in neither list.                 *)

SellLines(S)   == {l \in BillsOf("SELL") \X S : l[2] \in bill[l[1]].out}
ReturnLines(S) == {l \in BillsOf("RETURN") \X S : l[2] \in bill[l[1]].in}

Gram(l) == bill[l[1]].weight[l[2]]

SumOfGrams(lines) == SumFunctionOnSet([l \in Bills \X Items |-> Gram(l)], lines)

SaleOut(S)  == SumOfGrams(SellLines(S))
ReturnIn(S) == SumOfGrams(ReturnLines(S))

NetOut(S) == SaleOut(S) - ReturnIn(S)

\* getStockWeightSummary, for the items in S.
StockWeight(S) == SumFunctionOnSet(weight, {i \in S : item[i] = "IN_STOCK"})

-----------------------------------------------------------------------------
(* getCustomerLedger: the summary.  The amount paid and the balance are    *)
(* summed over every bill, whichever way its money went.                   *)

SumOfTotals(S) == SumFunctionOnSet([b \in Bills |-> bill[b].total], S)

TotalPurchases == SumOfTotals(BillsOf("SELL"))
TotalReturned  == SumOfTotals(BillsOf("RETURN"))
TotalPaid      == SumFunctionOnSet([b \in Bills |-> bill[b].paid], Bills)
TotalBalance   == SumFunctionOnSet([b \in Bills |-> bill[b].balance], Bills)

-----------------------------------------------------------------------------
(* runIntegrityChecks: the rows that three of its checks report.           *)

OnLines(i) == {b \in Bills : i \in bill[b].out \union bill[b].in}

InStockOnSell ==
  {i \in Items : item[i] = "IN_STOCK" /\ OnLines(i) \intersect BillsOf("SELL") # {}}
OrphanedSold  == {i \in Items : IsSold(i) /\ OnLines(i) = {}}

\* Paid beyond the total by more than a paisa, the unit of all amounts.
OverpaidBills == {b \in Bills : bill[b].total < bill[b].paid - 1}

-----------------------------------------------------------------------------
(* What must hold of the reports when requests are served one at a time.   *)

\* Items no exchange has moved.
NeverExchanged == {i \in Items : OnLines(i) \intersect BillsOf("EXCHANGE") = {}}

\* The gold ledger and the stock summary balance: of items that no exchange has
\* moved, the grams in stock and the net grams sold are the weights of those in
\* stock or SOLD, whatever was sold, returned and edited in between
\* (createSell and createReturn store the weight an item has as it leaves and
\* as it comes back).
LedgerNets ==
  \A S \in SUBSET NeverExchanged :
    NetOut(S) + StockWeight(S) =
      SumFunctionOnSet(weight, {i \in S : IsSold(i) \/ item[i] = "IN_STOCK"})

\* What the three nightly checks report can be explained: an item in stock that
\* is on a sale has come back since, a SOLD item has a line, and the overpaid
\* bills are those the shop owes money on; no return is among them, and a sale
\* only up to what createSell lets a customer leave at the counter, though
\* addPayment writes the same columns later.  What the summary of the customer's
\* ledger says is paid and owed is the total of all bills.
ReportsAreExplained ==
  /\ \A i \in InStockOnSell : BackOn(i) # {}
  /\ OrphanedSold = {}
  /\ OverpaidBills = {b \in Bills : bill[b].balance < -1}
  /\ \A b \in OverpaidBills :
       /\ bill[b].kind # "RETURN"
       /\ bill[b].kind = "SELL" => bill[b].paid <= 2 * bill[b].total
  /\ TotalPaid + TotalBalance =
       TotalPurchases + TotalReturned
         + SumOfTotals(BillsOf("EXCHANGE") \union BillsOf("BUY_BACK"))
=============================================================================
