--------------------------- MODULE SalesInvariant ----------------------------
(***************************************************************************)
(* The inductive invariants of SalesDesk.                                  *)
(***************************************************************************)
EXTENDS SalesLedger

\* A row that is not inserted has no lines and no amounts.
NewBills == \A b \in Bills : IsNew(b) => bill[b] = NoBill

\* A bill's balance is what is left of its total.
Balances == \A b \in Bills : bill[b].balance = bill[b].total - bill[b].paid

\* The payment a request is about to write fits the bill it read, whose total
\* never changes.
Payment(q) ==
  q.op = "pay" => /\ ~IsNew(q.bill)
                  /\ q.paid + q.amount <= bill[q.bill].total

Payments == \A r \in Requests : Payment(req[r])

\* Holds for every handler: the rows keep their types, the amounts of a bill
\* fit, and a payment in flight was checked against a total that still stands
\* (createSell, createReturn, createExchange, addPayment).
SalesInv == TypeOK /\ NewBills /\ Balances /\ Payments

\* What createSell and createReturn let a bill be paid, and addPayment keeps.
AtCounter(row) ==
  /\ row.kind = "SELL" => row.total >= 0 /\ row.paid <= 2 * row.total
  /\ row.kind = "RETURN" => row.paid <= row.total

CounterLimits == \A b \in Bills : AtCounter(bill[b])

\* What a request is about to set by hand, or to scrap with its trade, has been
\* entered.  Nothing takes that back.
EnteredRequests ==
  \A r \in Requests :
    /\ req[r].op = "status" => Entered(req[r].item)
    /\ req[r].op = "trade" => \A i \in req[r].inStock : Entered(i)

\* Only finitely many bills have an item on them.
FinitelyOften ==
  \A i \in Items : IsFiniteSet(SoldOn(i)) /\ IsFiniteSet(BackOn(i))

\* Holds where nobody sets a status by hand and no trade is cancelled: the
\* bills account for the items, and an item that is melted stays IN_REMAKE
\* until it is remade.
AccountInv ==
  /\ LinesMatchStatus
  /\ FinitelyOften
  /\ \A i \in melting : item[i] = "IN_REMAKE"

-----------------------------------------------------------------------------
(* One request at a time.                                                  *)

OneAtATime == \A r, s \in Requests : r = s

\* Production takes items, or statuses are set by hand, but not both: an item
\* set IN_STOCK by hand while it is melted can be sold and then be REMADE.
NoMeltingByHand == Meltable = {} \/ ManualStatuses = {}

\* Nothing the request has read is stale.
Fresh(q) ==
  /\ q.op = "pay" => q.paid = bill[q.bill].paid
  /\ q.op \in {"sell", "exchange"} =>
       \A i \in q.out : q.weight[i] = weight[i]
  /\ q.op = "return" => \A i \in q.in : q.weight[i] = weight[i]
  /\ q.op \in {"status", "edit"} => ~IsSold(q.item)
  /\ q.op = "trade" => \A i \in q.inStock : ~IsSold(i)

FreshRequests == \A r \in Requests : Fresh(req[r])

\* What an item adds to the gold ledger with a line, and in all.
LineGram(l) ==
  IF l \in SellLines(Items) THEN Gram(l)
  ELSE IF l \in ReturnLines(Items) THEN -Gram(l)
  ELSE 0

NetGram(i) ==
  SumFunctionOnSet([l \in Bills \X Items |-> LineGram(l)], Bills \X {i})

\* Holds with one request at a time: what is read stands, a bill says what was
\* paid, and the bill a SOLD item left with says what it weighs.
FreshInv == SalesInv /\ FreshRequests /\ PaidIsReceived /\ SoldAsWeighed

\* An item that has left and is not out has come back, and the gold ledger has
\* the grams of what is out.
ItemsBilled ==
  \A i \in Items :
    /\ ~IsSold(i) /\ SoldOn(i) # {} => BackOn(i) # {}
    /\ i \in NeverExchanged => NetGram(i) = IF IsSold(i) THEN weight[i] ELSE 0

\* What production has taken is not back at the counter.
MeltingAway ==
  /\ melting \subseteq Meltable
  /\ \A i \in melting : item[i] \in {"IN_REMAKE", "SCRAPPED"}

\* Holds with one request at a time where NoMeltingByHand.
SerialInv ==
  /\ FreshInv
  /\ \A b \in BillsOf("SELL") : bill[b].in = {}
  /\ MeltingAway
  /\ ItemsBilled
=============================================================================
