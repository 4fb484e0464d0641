----------------------------- MODULE SalesProofs -----------------------------
(***************************************************************************)
(* SalesDesk for every value of its constants: type correctness and the    *)
(* amounts of a bill, whatever the handlers in flight; the account of the  *)
(* items where nobody sets a status by hand and there are no trades; with  *)
(* one request at a time, what the bills say of the items and what the     *)
(* reports add up from them.                                               *)
(***************************************************************************)
EXTENDS SalesRefinement, Sums

\* What a request's op says about the rest of it.
LEMMA RequestTypes ==
  ASSUME NEW q \in Request
  PROVE  /\ q.op = "sell"     => q \in SellRequest
         /\ q.op = "return"   => q \in ReturnRequest
         /\ q.op = "exchange" => q \in ExchangeRequest
         /\ q.op = "pay"      => q \in PayRequest
         /\ q.op = "status"   => q \in StatusRequest
         /\ q.op = "edit"     => q \in EditRequest
         /\ q.op = "trade"    => q \in TradeRequest
BY DEF Request, Idle, SellRequest, ReturnRequest, ExchangeRequest, PayRequest,
       StatusRequest, EditRequest, TradeRequest

\* Rows keep their type when the lines copy weights that were read.
LEMMA LineWeightsType ==
  ASSUME NEW out \in SUBSET Items, NEW read \in [Items -> Nat]
  PROVE  LineWeights(out, read) \in [Items -> Nat]
BY DEF LineWeights

\* A conditional or unconditional update of items sets a status.
LEMMA SetStatusType ==
  ASSUME TypeOK, NEW S \in SUBSET Items, NEW to \in Settable \union {"SOLD"}
  PROVE  SetStatus(S, to) \in [Items -> Settable \union {"NONE", "SOLD"}]
BY DEF TypeOK, SetStatus

-----------------------------------------------------------------------------
(* The invariant of the rows.  A step either leaves the bills alone,       *)
(* inserts a row, or adds a payment to one.                                *)

\* A submitted request that is a checked payment or none leaves all of it.
LEMMA SubmitKeeps ==
  ASSUME SalesInv, UNCHANGED Tables, NEW r \in Requests, NEW q \in Request,
         Submit(r, q), Payment(q)
  PROVE  SalesInv'
BY DEF SalesInv, TypeOK, NewBills, Balances, Payments, Payment, IsNew, Tables,
       Submit

\* What a request checks and reads before its first write.
LEMMA RequestingKeeps ==
  ASSUME SalesInv, NEW r \in Requests, Requesting(r)
  PROVE  SalesInv'
<1>1. ASSUME NEW out \in SUBSET Items, RequestSell(r, out)
      PROVE  SalesInv'
  <2> DEFINE q == [op |-> "sell", out |-> out,
                   weight |-> LineWeights(out, weight)]
  <2>1. q \in Request /\ Payment(q)
    BY LineWeightsType DEF SalesInv, TypeOK, Request, SellRequest, Payment
  <2> QED
    BY <1>1, <2>1, SubmitKeeps DEF RequestSell
<1>2. ASSUME NEW b \in Bills, NEW in \in SUBSET Items, RequestReturn(r, b, in)
      PROVE  SalesInv'
  <2> DEFINE q == [op |-> "return", of |-> b, in |-> in,
                   weight |-> LineWeights(in, weight)]
  <2>1. q \in Request /\ Payment(q)
    BY LineWeightsType DEF SalesInv, TypeOK, Request, ReturnRequest, Payment
  <2> QED
    BY <1>2, <2>1, SubmitKeeps DEF RequestReturn
<1>3. ASSUME NEW in \in SUBSET Items, NEW out \in SUBSET Items,
             RequestExchange(r, in, out)
      PROVE  SalesInv'
  <2> DEFINE q == [op |-> "exchange", in |-> in, out |-> out,
                   weight |-> LineWeights(out, weight)]
  <2>1. q \in Request /\ Payment(q)
    BY LineWeightsType DEF SalesInv, TypeOK, Request, ExchangeRequest, Payment
  <2> QED
    BY <1>3, <2>1, SubmitKeeps DEF RequestExchange
<1>4. ASSUME NEW b \in Bills, NEW amount \in Amounts, RequestPay(r, b, amount)
      PROVE  SalesInv'
  <2> DEFINE q == [op |-> "pay", bill |-> b, amount |-> amount,
                   paid |-> bill[b].paid]
  <2>1. amount \in Nat /\ bill[b].paid \in Int
    BY SalesAssumption DEF SalesInv, TypeOK, BillRow
  <2>2. q \in Request
    BY <2>1 DEF Request, PayRequest
  <2>3. Payment(q)
    BY <1>4 DEF RequestPay, Payment
  <2> QED
    BY <1>4, <2>2, <2>3, SubmitKeeps DEF RequestPay
<1>5. ASSUME NEW i \in Items, NEW to \in ManualStatuses,
             RequestStatus(r, i, to)
      PROVE  SalesInv'
  <2> DEFINE q == [op |-> "status", item |-> i, to |-> to]
  <2>1. q \in Request /\ Payment(q)
    BY DEF Request, StatusRequest, Payment
  <2> QED
    BY <1>5, <2>1, SubmitKeeps DEF RequestStatus
<1>6. ASSUME NEW i \in Items, NEW w \in Weights, RequestEdit(r, i, w)
      PROVE  SalesInv'
  <2> DEFINE q == [op |-> "edit", item |-> i, weight |-> w]
  <2>1. q \in Request /\ Payment(q)
    BY SalesAssumption DEF Request, EditRequest, Payment
  <2> QED
    BY <1>6, <2>1, SubmitKeeps DEF RequestEdit
<1>7. ASSUME NEW t \in Trades, NEW to \in {"COMPLETED", "CANCELLED"},
             RequestTrade(r, t, to)
      PROVE  SalesInv'
  <2> DEFINE q == [op |-> "trade", trade |-> t, to |-> to,
                   inStock |-> {i \in TradeItems[t] : item[i] = "IN_STOCK"}]
  <2>1. q \in Request /\ Payment(q)
    BY SalesAssumption DEF Request, TradeRequest, Payment
  <2> QED
    BY <1>7, <2>1, SubmitKeeps DEF RequestTrade
<1> QED
  BY <1>1, <1>2, <1>3, <1>4, <1>5, <1>6, <1>7 DEF Requesting

\* A request that is answered keeps its row's type and owes no payment.
LEMMA AnswerKeeps ==
  ASSUME SalesInv, UNCHANGED req \/ \E r \in Requests : Answer(r)
  PROVE  /\ req' \in [Requests -> Request]
         /\ \A r \in Requests : req'[r].op = "pay" => req'[r] = req[r]
BY DEF SalesInv, TypeOK, Answer, Request, Idle

\* A handler that leaves the bills alone keeps the invariant if it keeps the
\* types of what it changes.
LEMMA OtherTablesKeep ==
  ASSUME SalesInv, UNCHANGED bill,
         item' \in [Items -> Settable \union {"NONE", "SOLD"}],
         weight' \in [Items -> Nat],
         trade' \in [Trades -> {"NONE", "PENDING", "COMPLETED", "CANCELLED"}],
         melting' \subseteq Items,
         UNCHANGED req \/ \E r \in Requests : Answer(r)
  PROVE  SalesInv'
BY AnswerKeeps
   DEF SalesInv, TypeOK, NewBills, Balances, Payments, Payment, IsNew

\* Inserting a bill whose balance is what is left of its total keeps it.
LEMMA InsertKeeps ==
  ASSUME SalesInv, NEW b \in Bills, IsNew(b),
         NEW row \in BillRow, row.kind # "NONE",
         row.balance = row.total - row.paid,
         bill' = [bill EXCEPT ![b] = row],
         item' \in [Items -> Settable \union {"NONE", "SOLD"}],
         UNCHANGED <<weight, trade, melting>>,
         UNCHANGED req \/ \E r \in Requests : Answer(r)
  PROVE  SalesInv'
<1>1. TypeOK'
  BY AnswerKeeps DEF SalesInv, TypeOK
<1>2. NewBills' /\ Balances'
  BY DEF SalesInv, TypeOK, NewBills, Balances, IsNew
<1>3. ASSUME NEW r \in Requests, req'[r].op = "pay"
      PROVE  Payment(req[r])'
  <2>1. req'[r] = req[r] /\ req[r] \in PayRequest
    BY <1>3, AnswerKeeps, RequestTypes DEF SalesInv, TypeOK
  <2>2. req[r].bill \in Bills /\ ~IsNew(req[r].bill)
    BY <2>1, <1>3 DEF SalesInv, Payments, Payment, PayRequest
  <2>3. bill'[req[r].bill] = bill[req[r].bill]
    BY <2>2 DEF SalesInv, TypeOK
  <2> QED
    BY <2>1, <2>3, <1>3 DEF SalesInv, Payments, Payment, IsNew
<1> QED
  BY <1>1, <1>2, <1>3 DEF SalesInv, Payments, Payment

\* The condition of a payment at its commit: the bill is one, and what it
\* becomes still fits its total.
LEMMA PaymentFits ==
  ASSUME SalesInv, NEW r \in Requests, req[r].op = "pay"
  PROVE  /\ req[r] \in PayRequest
         /\ req[r].bill \in Bills
         /\ ~IsNew(req[r].bill)
         /\ bill[req[r].bill] \in BillRow
         /\ req[r].paid \in Int /\ req[r].amount \in Nat
         /\ req[r].paid + req[r].amount <= bill[req[r].bill].total
<1>1. req[r] \in PayRequest
  BY RequestTypes DEF SalesInv, TypeOK
<1>2. req[r].bill \in Bills
  BY <1>1 DEF PayRequest
<1> QED
  BY <1>1, <1>2 DEF SalesInv, TypeOK, PayRequest, Payments, Payment

\* A payment changes the amounts of one bill; its total and kind stand.
LEMMA PayKeeps ==
  ASSUME SalesInv, NEW r \in Requests, CommitPay(r)
  PROVE  SalesInv'
<1> DEFINE b    == req[r].bill
           paid == req[r].paid + req[r].amount
           row  == [bill[b] EXCEPT !.paid = paid,
                                   !.balance = bill[b].total - paid,
                                   !.received = bill[b].received + req[r].amount]
<1>1. /\ b \in Bills /\ ~IsNew(b) /\ bill[b] \in BillRow
      /\ req[r].paid \in Int /\ req[r].amount \in Nat
  BY PaymentFits DEF CommitPay
<1>2. bill \in [Bills -> BillRow]
  BY DEF SalesInv, TypeOK
<1>3. bill' = [bill EXCEPT ![b] = row]
  BY <1>1, <1>2 DEF CommitPay
<1>4. /\ row \in BillRow /\ row.kind = bill[b].kind
      /\ row.total = bill[b].total /\ row.balance = row.total - row.paid
  <2>1. bill[b].total \in Int /\ bill[b].received \in Nat
    BY <1>1 DEF BillRow
  <2>2. /\ paid \in Int /\ bill[b].total - paid \in Int
        /\ bill[b].received + req[r].amount \in Nat
    BY <1>1, <2>1
  <2> HIDE DEF paid
  <2>3. row \in BillRow
    BY <1>1, <2>2 DEF BillRow
  <2> QED
    BY <1>1, <2>3 DEF BillRow
<1> HIDE DEF row, paid
<1>5. TypeOK'
  BY <1>1, <1>3, <1>4, AnswerKeeps DEF SalesInv, TypeOK, CommitPay
<1>6. NewBills' /\ Balances'
  BY <1>1, <1>2, <1>3, <1>4 DEF SalesInv, NewBills, Balances, IsNew
<1>7. ASSUME NEW s \in Requests, req'[s].op = "pay"
      PROVE  Payment(req[s])'
  <2>1. req'[s] = req[s]
    BY <1>7, AnswerKeeps DEF CommitPay
  <2>2. req[s].bill \in Bills /\ Payment(req[s])
    BY <2>1, <1>7, PaymentFits DEF SalesInv, Payments
  <2>3. /\ bill'[req[s].bill].kind = bill[req[s].bill].kind
        /\ bill'[req[s].bill].total = bill[req[s].bill].total
    BY <2>2, <1>1, <1>2, <1>3, <1>4
  <2> QED
    BY <2>1, <2>2, <2>3 DEF Payment, IsNew
<1> QED
  BY <1>5, <1>6, <1>7 DEF SalesInv, Payments, Payment

\* The writes of a request: a new bill, a payment, or other tables.
LEMMA CommittingKeeps ==
  ASSUME SalesInv, NEW r \in Requests, Committing(r)
  PROVE  SalesInv'
<1> USE SalesAssumption
<1>0. /\ TypeOK /\ req[r] \in Request
      /\ [i \in Items |-> 0] \in [Items -> Nat]
  BY DEF SalesInv, TypeOK
<1>1. ASSUME NEW b \in Bills, NEW total \in Totals, NEW amount \in Amounts,
             CommitSell(r, b, total, amount)
      PROVE  SalesInv'
  <2> DEFINE row ==
        [kind |-> "SELL", of |-> {}, out |-> req[r].out, in |-> {},
         weight |-> req[r].weight, total |-> total, paid |-> amount,
         balance |-> total - amount, received |-> amount]
  <2>1. req[r] \in SellRequest
    BY <1>0, <1>1, RequestTypes DEF CommitSell
  <2>2. row \in BillRow
    BY <2>1 DEF SellRequest, BillRow
  <2>3. item' \in [Items -> Settable \union {"NONE", "SOLD"}]
    BY <1>0, <1>1, <2>1, SetStatusType DEF CommitSell, SellRequest
  <2>4. row.kind # "NONE" /\ row.balance = row.total - row.paid
    OBVIOUS
  <2> QED
    BY <1>1, <2>2, <2>3, <2>4, InsertKeeps DEF CommitSell
<1>2. ASSUME NEW b \in Bills, NEW refund \in Totals, CommitReturn(r, b, refund)
      PROVE  SalesInv'
  <2> DEFINE row ==
        [kind |-> "RETURN", of |-> {req[r].of}, out |-> {}, in |-> req[r].in,
         weight |-> req[r].weight, total |-> refund, paid |-> refund,
         balance |-> 0, received |-> refund]
  <2>1. req[r] \in ReturnRequest
    BY <1>0, <1>2, RequestTypes DEF CommitReturn
  <2>2. row \in BillRow
    BY <1>0, <2>1 DEF ReturnRequest, BillRow
  <2>3. item' \in [Items -> Settable \union {"NONE", "SOLD"}]
    BY <1>0, <1>2, <2>1, SetStatusType DEF CommitReturn, ReturnRequest, Settable
  <2>4. row.kind # "NONE" /\ row.balance = row.total - row.paid
    OBVIOUS
  <2> QED
    BY <1>2, <2>2, <2>3, <2>4, InsertKeeps DEF CommitReturn
<1>3. ASSUME NEW b \in Bills, NEW difference \in Differences,
             NEW amount \in Amounts, CommitExchange(r, b, difference, amount)
      PROVE  SalesInv'
  <2> DEFINE in   == req[r].in
             out  == req[r].out
             read == [i \in Items |->
                        IF i \in in THEN weight[i] ELSE req[r].weight[i]]
             row  ==
        [kind |-> "EXCHANGE", of |-> {}, out |-> out, in |-> in,
         weight |-> LineWeights(out, read), total |-> difference,
         paid |-> amount, balance |-> difference - amount,
         received |-> amount]
  <2>1. req[r] \in ExchangeRequest
    BY <1>0, <1>3, RequestTypes DEF CommitExchange
  <2>2. in \in SUBSET Items /\ out \in SUBSET Items /\ read \in [Items -> Nat]
    BY <1>0, <2>1 DEF ExchangeRequest, TypeOK
  <2>3. LineWeights(out, read) \in [Items -> Nat]
    BY <2>2, LineWeightsType
  <2>4. bill' = [bill EXCEPT ![b] = row]
    BY <1>3 DEF CommitExchange
  <2>5. row \in BillRow
    <3> HIDE DEF in, out, read
    <3> QED
      BY <2>2, <2>3 DEF BillRow
  <2>6. item' \in [Items -> Settable \union {"NONE", "SOLD"}]
    BY <1>0, <1>3 DEF CommitExchange, TypeOK, Settable
  <2>7. row.kind # "NONE" /\ row.balance = row.total - row.paid
    OBVIOUS
  <2> HIDE DEF row
  <2> QED
    BY <1>3, <2>4, <2>5, <2>6, <2>7, InsertKeeps DEF CommitExchange
<1>4. CASE CommitPay(r)
  BY <1>4, PayKeeps
<1>5. CASE CommitStatus(r)
  <2>1. req[r].to \in Settable
    BY <1>0, <1>5, RequestTypes DEF CommitStatus, StatusRequest
  <2> QED
    BY <1>0, <1>5, <2>1, OtherTablesKeep DEF CommitStatus, TypeOK
<1>6. CASE CommitEdit(r)
  <2>1. req[r].weight \in Nat
    BY <1>0, <1>6, RequestTypes DEF CommitEdit, EditRequest
  <2> QED
    BY <1>0, <1>6, <2>1, OtherTablesKeep DEF CommitEdit, TypeOK
<1>7. CASE CommitTrade(r)
  <2>1. /\ req[r].to \in {"COMPLETED", "CANCELLED"}
        /\ req[r].inStock \in SUBSET Items
    BY <1>0, <1>7, RequestTypes DEF CommitTrade, TradeRequest
  <2>2. item' \in [Items -> Settable \union {"NONE", "SOLD"}]
    BY <1>0, <1>7, <2>1, SetStatusType DEF CommitTrade, TypeOK, Settable
  <2> QED
    BY <1>0, <1>7, <2>1, <2>2, OtherTablesKeep DEF CommitTrade, TypeOK
<1> QED
  BY <1>1, <1>2, <1>3, <1>4, <1>5, <1>6, <1>7 DEF Committing

\* The handlers of one step.
LEMMA AtOnceKeeps ==
  ASSUME SalesInv, AtOnce
  PROVE  SalesInv'
<1> USE SalesAssumption
<1>0. TypeOK /\ [i \in Items |-> 0] \in [Items -> Nat]
  BY DEF SalesInv
<1>1. ASSUME NEW b \in Bills, NEW i \in Items, NEW total \in Totals,
             NEW amount \in Amounts, BuyIn(b, i, total, amount)
      PROVE  SalesInv'
  <2> DEFINE row ==
        [kind |-> "BUY_BACK", of |-> {}, out |-> {}, in |-> {i},
         weight |-> LineWeights({i}, weight), total |-> total,
         paid |-> amount, balance |-> total - amount, received |-> amount]
  <2>0. LineWeights({i}, weight) \in [Items -> Nat]
    BY <1>0, LineWeightsType DEF TypeOK
  <2>1. row \in BillRow
    BY <2>0 DEF BillRow
  <2>2. item' \in [Items -> Settable \union {"NONE", "SOLD"}]
    BY <1>0, <1>1, SetStatusType DEF BuyIn, Settable
  <2>3. row.kind # "NONE" /\ row.balance = row.total - row.paid
    OBVIOUS
  <2> QED
    BY <1>1, <2>1, <2>2, <2>3, InsertKeeps DEF BuyIn
<1>2. ASSUME NEW S \in SUBSET Items, EnterStock(S)
      PROVE  SalesInv'
  <2>1. item' \in [Items -> Settable \union {"NONE", "SOLD"}]
    BY <1>0, <1>2, SetStatusType DEF EnterStock, Settable
  <2> QED
    BY <1>0, <1>2, <2>1, OtherTablesKeep DEF EnterStock, TypeOK
<1>3. ASSUME NEW i \in Items, Melt(i) \/ Remake(i)
      PROVE  SalesInv'
  <2>1. item' \in [Items -> Settable \union {"NONE", "SOLD"}]
    BY <1>0, <1>3, SetStatusType DEF Melt, Remake, Settable
  <2>2. melting' \subseteq Items /\ UNCHANGED <<weight, bill, trade, req>>
    BY <1>0, <1>3 DEF Melt, Remake, TypeOK
  <2> QED
    BY <1>0, <2>1, <2>2, OtherTablesKeep DEF TypeOK
<1>4. ASSUME NEW t \in Trades, CreateTrade(t)
      PROVE  SalesInv'
  <2>1. item' \in [Items -> Settable \union {"NONE", "SOLD"}]
    BY <1>0, <1>4, SetStatusType DEF CreateTrade, Settable
  <2> QED
    BY <1>0, <1>4, <2>1, OtherTablesKeep DEF CreateTrade, TypeOK
<1> QED
  BY <1>1, <1>2, <1>3, <1>4 DEF AtOnce

\* At the start nothing is entered but the items in the shop.
LEMMA SalesInit == Init => SalesInv
<1> SUFFICES ASSUME Init PROVE SalesInv
  OBVIOUS
<1>1. NoBill \in BillRow /\ NoBill.kind = "NONE" /\ NoBill.balance = 0
      /\ NoBill.total = 0 /\ NoBill.paid = 0
  BY DEF NoBill, BillRow
<1>2. TypeOK
  BY <1>1, SalesAssumption DEF Init, TypeOK, Settable, Request
<1> HIDE DEF NoBill
<1> QED
  BY <1>1, <1>2
     DEF Init, SalesInv, NewBills, Balances, Payments, Payment, IsNew, Idle

\* Every step keeps it.
LEMMA SalesStep == SalesInv /\ [Next]_vars => SalesInv'
<1> SUFFICES ASSUME SalesInv, [Next]_vars PROVE SalesInv'
  OBVIOUS
<1>1. ASSUME NEW r \in Requests, Abort(r)
      PROVE  SalesInv'
  BY <1>1, OtherTablesKeep DEF Abort, Tables, SalesInv, TypeOK
<1>2. CASE UNCHANGED vars
  BY <1>2, OtherTablesKeep DEF vars, SalesInv, TypeOK
<1> QED
  BY <1>1, <1>2, RequestingKeeps, CommittingKeeps, AtOnceKeeps DEF Next

\* Whatever handlers are in flight, every row and request keeps its type, a
\* bill's balance is what is left of its total, and a payment about to be
\* written fits the total of its bill.
THEOREM SalesInvHolds == Spec => []SalesInv
  BY SalesInit, SalesStep, PTL DEF Spec

-----------------------------------------------------------------------------
(* Payments by instalments.                                                *)

\* A step leaves the bills alone, inserts one row, or is a payment.
LEMMA BillSteps ==
  ASSUME TypeOK, [Next]_vars
  PROVE  \/ UNCHANGED bill
         \/ \E b \in Bills : IsNew(b) /\ bill' = [bill EXCEPT ![b] = bill'[b]]
         \/ \E r \in Requests : CommitPay(r)
<1>1. ASSUME NEW r \in Requests, Requesting(r) \/ Abort(r)
      PROVE  UNCHANGED bill
  BY <1>1 DEF Requesting, RequestSell, RequestReturn, RequestExchange,
     RequestPay, RequestStatus, RequestEdit, RequestTrade, Abort, Tables
<1>2. ASSUME NEW b \in Bills, NEW row, bill' = [bill EXCEPT ![b] = row]
      PROVE  bill' = [bill EXCEPT ![b] = bill'[b]]
  BY <1>2 DEF TypeOK
<1>3. ASSUME NEW r \in Requests, NEW b \in Bills, NEW total, NEW amount,
             CommitSell(r, b, total, amount) \/ CommitReturn(r, b, total)
               \/ CommitExchange(r, b, total, amount)
      PROVE  IsNew(b) /\ bill' = [bill EXCEPT ![b] = bill'[b]]
  <2>1. CASE CommitSell(r, b, total, amount)
    BY <1>2, <2>1 DEF CommitSell
  <2>2. CASE CommitReturn(r, b, total)
    BY <1>2, <2>2 DEF CommitReturn
  <2>3. CASE CommitExchange(r, b, total, amount)
    BY <1>2, <2>3 DEF CommitExchange
  <2> QED
    BY <1>3, <2>1, <2>2, <2>3
<1>4. ASSUME NEW r \in Requests, CommitStatus(r) \/ CommitEdit(r) \/ CommitTrade(r)
      PROVE  UNCHANGED bill
  BY <1>4 DEF CommitStatus, CommitEdit, CommitTrade
<1>5. ASSUME NEW b \in Bills, NEW i, NEW total, NEW amount,
             BuyIn(b, i, total, amount)
      PROVE  IsNew(b) /\ bill' = [bill EXCEPT ![b] = bill'[b]]
  BY <1>2, <1>5 DEF BuyIn
<1>6. ASSUME NEW i, EnterStock(i) \/ Melt(i) \/ Remake(i) \/ CreateTrade(i)
      PROVE  UNCHANGED bill
  BY <1>6 DEF EnterStock, Melt, Remake, CreateTrade
<1>7. CASE UNCHANGED vars
  BY <1>7 DEF vars
<1> QED
  BY <1>1, <1>3, <1>4, <1>5, <1>6, <1>7 DEF Next, Committing, AtOnce

\* A bill that is not overpaid is never overpaid by addPayment, however many
\* payments on it are in flight: each was checked against the total alone.
THEOREM NoInstalmentOverpaysHolds == Spec => NoInstalmentOverpays
<1> DEFINE Step == \A b \in Bills :
                     ~IsNew(b) /\ bill[b].balance >= 0 => bill'[b].balance >= 0
<1>1. SalesInv /\ [Next]_vars => [Step]_vars
  <2> SUFFICES ASSUME SalesInv, [Next]_vars,
                      NEW b \in Bills, ~IsNew(b), bill[b].balance >= 0
               PROVE  bill'[b].balance >= 0
    OBVIOUS
  <2>0. TypeOK /\ bill \in [Bills -> BillRow]
    BY DEF SalesInv, TypeOK
  <2>1. ASSUME NEW c \in Bills, IsNew(c), bill' = [bill EXCEPT ![c] = bill'[c]]
        PROVE  bill'[b] = bill[b]
    BY <2>0, <2>1
  <2>2. ASSUME NEW r \in Requests, CommitPay(r)
        PROVE  bill'[b].balance >= 0
    <3> DEFINE c    == req[r].bill
               paid == req[r].paid + req[r].amount
    <3>1. /\ c \in Bills /\ bill[c].total \in Int /\ paid \in Int
          /\ paid <= bill[c].total
      BY <2>2, PaymentFits DEF CommitPay, BillRow
    <3>2. /\ bill'[c].balance = bill[c].total - paid
          /\ b # c => bill'[b] = bill[b]
      BY <2>0, <2>2, <3>1 DEF CommitPay, BillRow
    <3> QED
      BY <3>1, <3>2
  <2> QED
    BY <2>0, <2>1, <2>2, BillSteps
<1> QED
  BY <1>1, SalesInvHolds, PTL DEF Spec, NoInstalmentOverpays

-----------------------------------------------------------------------------
(* The account of the items.  What a step does to the bills an item is on  *)
(* and to its being SOLD go together.                                      *)

Leaves(row, i)  == i \in row.out
Returns(row, i) == row.kind \in {"RETURN", "EXCHANGE"} /\ i \in row.in

\* Adding at most one element to a finite set counts it.
LEMMA CountOneMore ==
  ASSUME NEW S, IsFiniteSet(S), NEW x, x \notin S, NEW more \in BOOLEAN,
         NEW T, T = IF more THEN S \union {x} ELSE S
  PROVE  /\ IsFiniteSet(T)
         /\ Cardinality(T) = Cardinality(S) + (IF more THEN 1 ELSE 0)
<1>1. Cardinality(S) \in Nat
  BY FS_CardinalityType
<1> QED
  BY <1>1, FS_AddElement

\* The bills of an item after a row is inserted.
LEMMA LinesInserted ==
  ASSUME TypeOK, NewBills, NEW b \in Bills, IsNew(b), NEW row,
         bill' = [bill EXCEPT ![b] = row], NEW i \in Items
  PROVE  /\ b \notin SoldOn(i) /\ b \notin BackOn(i)
         /\ SoldOn(i)' = IF Leaves(row, i) THEN SoldOn(i) \union {b}
                         ELSE SoldOn(i)
         /\ BackOn(i)' = IF Returns(row, i) THEN BackOn(i) \union {b}
                         ELSE BackOn(i)
<1>1. bill[b].out = {} /\ bill[b].in = {}
  BY DEF NewBills, NoBill
<1>2. bill'[b] = row /\ \A c \in Bills \ {b} : bill'[c] = bill[c]
  BY DEF TypeOK
<1> QED
  BY <1>1, <1>2 DEF SoldOn, BackOn, Leaves, Returns

\* A row that is inserted keeps the account if an item that leaves on it
\* becomes SOLD, one that returns on it stops being SOLD, and every other one
\* (also one that does both) is SOLD as before.
LEMMA InsertAccounts ==
  ASSUME TypeOK, NewBills, LinesMatchStatus, FinitelyOften,
         NEW b \in Bills, IsNew(b), NEW row,
         bill' = [bill EXCEPT ![b] = row],
         \A i \in Items :
           \/ Leaves(row, i) /\ ~Returns(row, i) /\ ~IsSold(i) /\ IsSold(i)'
           \/ ~Leaves(row, i) /\ Returns(row, i) /\ IsSold(i) /\ ~IsSold(i)'
           \/ (Leaves(row, i) <=> Returns(row, i)) /\ (IsSold(i)' <=> IsSold(i))
  PROVE  LinesMatchStatus' /\ FinitelyOften'
<1> SUFFICES ASSUME NEW i \in Items
             PROVE  /\ IsFiniteSet(SoldOn(i)') /\ IsFiniteSet(BackOn(i)')
                    /\ Cardinality(SoldOn(i)') =
                         Cardinality(BackOn(i)') + (IF IsSold(i)' THEN 1 ELSE 0)
  BY DEF LinesMatchStatus, FinitelyOften
<1> DEFINE out == IF Leaves(row, i) THEN 1 ELSE 0
           back == IF Returns(row, i) THEN 1 ELSE 0
<1>1. /\ IsFiniteSet(SoldOn(i)) /\ IsFiniteSet(BackOn(i))
      /\ Cardinality(SoldOn(i)) \in Nat /\ Cardinality(BackOn(i)) \in Nat
      /\ Cardinality(SoldOn(i)) =
           Cardinality(BackOn(i)) + (IF IsSold(i) THEN 1 ELSE 0)
  BY FS_CardinalityType DEF LinesMatchStatus, FinitelyOften
<1>2. /\ IsFiniteSet(SoldOn(i)')
      /\ Cardinality(SoldOn(i)') = Cardinality(SoldOn(i)) + out
  <2>1. /\ b \notin SoldOn(i)
        /\ SoldOn(i)' = IF Leaves(row, i) THEN SoldOn(i) \union {b} ELSE SoldOn(i)
    BY LinesInserted
  <2>2. Leaves(row, i) \in BOOLEAN
    BY DEF Leaves
  <2> QED
    BY <1>1, <2>1, <2>2, CountOneMore
<1>3. /\ IsFiniteSet(BackOn(i)')
      /\ Cardinality(BackOn(i)') = Cardinality(BackOn(i)) + back
  <2>1. /\ b \notin BackOn(i)
        /\ BackOn(i)' = IF Returns(row, i) THEN BackOn(i) \union {b} ELSE BackOn(i)
    BY LinesInserted
  <2>2. Returns(row, i) \in BOOLEAN
    BY DEF Returns
  <2> QED
    BY <1>1, <2>1, <2>2, CountOneMore
<1> QED
  BY <1>1, <1>2, <1>3

\* A step keeps the account if it leaves the lines of every bill alone and
\* makes nothing SOLD or stop being SOLD.
LEMMA SameLinesAccount ==
  ASSUME LinesMatchStatus, FinitelyOften,
         \A b \in Bills : /\ bill'[b].out = bill[b].out
                          /\ bill'[b].in = bill[b].in
                          /\ bill'[b].kind = bill[b].kind,
         \A i \in Items : IsSold(i)' <=> IsSold(i)
  PROVE  LinesMatchStatus' /\ FinitelyOften'
<1>1. \A i \in Items : SoldOn(i)' = SoldOn(i) /\ BackOn(i)' = BackOn(i)
  BY DEF SoldOn, BackOn
<1> QED
  BY <1>1 DEF LinesMatchStatus, FinitelyOften

\* A step that leaves alone what is being melted keeps it IN_REMAKE.
LEMMA MeltingStays ==
  ASSUME AccountInv, UNCHANGED melting,
         \A i \in melting : item[i] = "IN_REMAKE" => item'[i] = "IN_REMAKE"
  PROVE  \A i \in melting' : item'[i] = "IN_REMAKE"
BY DEF AccountInv

\* createSell, createReturn and createExchange: the conditional update and the
\* lines of the bill are about the same items.
LEMMA SellAccounts ==
  ASSUME SalesInv, AccountInv, NEW r \in Requests, NEW b \in Bills,
         NEW total, NEW amount, CommitSell(r, b, total, amount)
  PROVE  AccountInv'
<1> DEFINE row ==
      [kind |-> "SELL", of |-> {}, out |-> req[r].out, in |-> {},
       weight |-> req[r].weight, total |-> total, paid |-> amount,
       balance |-> total - amount, received |-> amount]
<1>1. /\ IsNew(b) /\ bill' = [bill EXCEPT ![b] = row]
      /\ item' = SetStatus(req[r].out, "SOLD") /\ UNCHANGED melting
      /\ \A i \in req[r].out : ForSale(i)
  BY DEF CommitSell
<1>2. \A i \in Items : /\ Leaves(row, i) <=> i \in req[r].out
                       /\ ~Returns(row, i)
                       /\ IsSold(i)' <=> i \in req[r].out \/ IsSold(i)
  BY <1>1 DEF Leaves, Returns, SetStatus, IsSold
<1>3. \A i \in Items : i \in req[r].out => ~IsSold(i) /\ item[i] # "IN_REMAKE"
  BY <1>1 DEF ForSale, IsSold
<1>4. LinesMatchStatus' /\ FinitelyOften'
  <2> HIDE DEF row
  <2> QED
    BY <1>1, <1>2, <1>3, InsertAccounts DEF SalesInv, AccountInv
<1>5. \A i \in melting : item[i] = "IN_REMAKE" => item'[i] = "IN_REMAKE"
  BY <1>1, <1>3 DEF SetStatus, SalesInv, TypeOK
<1> QED
  BY <1>1, <1>4, <1>5, MeltingStays DEF AccountInv

LEMMA ReturnAccounts ==
  ASSUME SalesInv, AccountInv, NEW r \in Requests, NEW b \in Bills,
         NEW refund, CommitReturn(r, b, refund)
  PROVE  AccountInv'
<1> DEFINE row ==
      [kind |-> "RETURN", of |-> {req[r].of}, out |-> {}, in |-> req[r].in,
       weight |-> req[r].weight, total |-> refund, paid |-> refund,
       balance |-> 0, received |-> refund]
<1>1. /\ IsNew(b) /\ bill' = [bill EXCEPT ![b] = row]
      /\ item' = SetStatus(req[r].in, "IN_STOCK") /\ UNCHANGED melting
      /\ \A i \in req[r].in : IsSold(i)
  BY DEF CommitReturn, BackFrom
<1>2. \A i \in Items : /\ ~Leaves(row, i)
                       /\ Returns(row, i) <=> i \in req[r].in
                       /\ IsSold(i)' <=> i \notin req[r].in /\ IsSold(i)
  BY <1>1 DEF Leaves, Returns, SetStatus, IsSold
<1>3. LinesMatchStatus' /\ FinitelyOften'
  <2> HIDE DEF row
  <2> QED
    BY <1>1, <1>2, InsertAccounts DEF SalesInv, AccountInv
<1>4. \A i \in melting : item[i] = "IN_REMAKE" => item'[i] = "IN_REMAKE"
  BY <1>1 DEF SetStatus, IsSold, SalesInv, TypeOK
<1> QED
  BY <1>1, <1>3, <1>4, MeltingStays DEF AccountInv

LEMMA ExchangeAccounts ==
  ASSUME SalesInv, AccountInv, NEW r \in Requests, NEW b \in Bills,
         NEW difference, NEW amount, CommitExchange(r, b, difference, amount)
  PROVE  AccountInv'
<1> DEFINE in  == req[r].in
           out == req[r].out
           read == [i \in Items |->
                      IF i \in in THEN weight[i] ELSE req[r].weight[i]]
           row ==
      [kind |-> "EXCHANGE", of |-> {}, out |-> out, in |-> in,
       weight |-> LineWeights(out, read), total |-> difference,
       paid |-> amount, balance |-> difference - amount, received |-> amount]
<1>1. /\ IsNew(b) /\ UNCHANGED melting
      /\ item' = [i \in Items |-> IF i \in out THEN "SOLD"
                                  ELSE IF i \in in THEN "IN_STOCK"
                                  ELSE item[i]]
      /\ \A i \in in : IsSold(i)
      /\ \A i \in out \ in : ForSale(i)
  BY DEF CommitExchange, BackFrom
<1>2. /\ bill' = [bill EXCEPT ![b] = row]
      /\ row.kind = "EXCHANGE" /\ row.out = out /\ row.in = in
  BY DEF CommitExchange
<1>3. \A i \in Items : /\ Leaves(row, i) <=> i \in out
                       /\ Returns(row, i) <=> i \in in
                       /\ IsSold(i)' <=> i \in out \/ (i \notin in /\ IsSold(i))
  BY <1>1, <1>2 DEF Leaves, Returns, IsSold
<1>4. \A i \in out \ in : ~IsSold(i) /\ item[i] # "IN_REMAKE"
  BY <1>1 DEF ForSale, IsSold
<1> HIDE DEF in, out, row
<1>5. LinesMatchStatus' /\ FinitelyOften'
  BY <1>1, <1>2, <1>3, <1>4, InsertAccounts DEF SalesInv, AccountInv
<1>6. \A i \in melting : item[i] = "IN_REMAKE" => item'[i] = "IN_REMAKE"
  BY <1>1, <1>4 DEF IsSold, SalesInv, TypeOK
<1> QED
  BY <1>1, <1>5, <1>6, MeltingStays DEF AccountInv

\* A handler that adds no line and sells nothing keeps the account.
LEMMA OthersAccount ==
  ASSUME AccountInv, UNCHANGED bill,
         \A i \in Items : IsSold(i)' <=> IsSold(i),
         \A i \in melting' : item'[i] = "IN_REMAKE"
  PROVE  AccountInv'
BY SameLinesAccount DEF AccountInv

\* createBuyback, createOldGold: the row has items that come in for the first
\* time, which is not a return.
LEMMA BuyInAccounts ==
  ASSUME SalesInv, AccountInv, NEW b \in Bills, NEW i \in Items, NEW total,
         NEW amount, BuyIn(b, i, total, amount)
  PROVE  AccountInv'
<1> DEFINE row ==
      [kind |-> "BUY_BACK", of |-> {}, out |-> {}, in |-> {i},
       weight |-> LineWeights({i}, weight), total |-> total, paid |-> amount,
       balance |-> total - amount, received |-> amount]
<1>1. /\ bill' = [bill EXCEPT ![b] = row]
      /\ row.kind = "BUY_BACK" /\ row.out = {}
  BY DEF BuyIn
<1> HIDE DEF row
<1>2. /\ IsNew(b) /\ item[i] = "NONE" /\ UNCHANGED melting
      /\ item' = [j \in Items |-> IF j \in {i} THEN "IN_STOCK" ELSE item[j]]
  BY DEF BuyIn, Entered, SetStatus
<1>3. \A j \in Items : /\ ~Leaves(row, j) /\ ~Returns(row, j)
                       /\ IsSold(j)' <=> IsSold(j)
  BY <1>1, <1>2 DEF Leaves, Returns, IsSold
<1>4. LinesMatchStatus' /\ FinitelyOften'
  BY <1>1, <1>2, <1>3, InsertAccounts DEF SalesInv, AccountInv
<1>5. \A j \in melting : item[j] = "IN_REMAKE" => item'[j] = "IN_REMAKE"
  BY <1>2 DEF SalesInv, TypeOK
<1> QED
  BY <1>2, <1>4, <1>5, MeltingStays DEF AccountInv

\* addPayment changes amounts only.
LEMMA PayAccounts ==
  ASSUME SalesInv, AccountInv, NEW r \in Requests, CommitPay(r)
  PROVE  AccountInv'
<1>1. \A b \in Bills : /\ bill'[b].out = bill[b].out
                       /\ bill'[b].in = bill[b].in
                       /\ bill'[b].kind = bill[b].kind
  BY PaymentFits DEF CommitPay, SalesInv, TypeOK, BillRow
<1>2. UNCHANGED <<item, melting>>
  BY DEF CommitPay
<1>3. \A i \in Items : IsSold(i)' <=> IsSold(i)
  BY <1>2 DEF IsSold
<1> QED
  BY <1>1, <1>2, <1>3, SameLinesAccount DEF AccountInv

\* Every step, where no status is set by hand and there are no trades.
LEMMA AccountStep ==
  ASSUME ManualStatuses = {}, Trades = {}, SalesInv, AccountInv, [Next]_vars
  PROVE  AccountInv'
<1>1. ASSUME UNCHANGED <<item, bill, melting>>
      PROVE  AccountInv'
  BY <1>1, OthersAccount DEF AccountInv, IsSold
<1>2. ASSUME NEW r \in Requests, Requesting(r) \/ Abort(r)
      PROVE  AccountInv'
  BY <1>1, <1>2 DEF Requesting, RequestSell, RequestReturn, RequestExchange,
     RequestPay, RequestStatus, RequestEdit, RequestTrade, Abort, Tables
<1>3. ASSUME NEW r \in Requests, Committing(r)
      PROVE  AccountInv'
  <2>1. req[r] \in Request
    BY DEF SalesInv, TypeOK
  <2>2. CASE CommitEdit(r)
    BY <1>1, <2>2 DEF CommitEdit
  <2>3. ~CommitStatus(r)
    BY <2>1, RequestTypes DEF CommitStatus, StatusRequest
  <2>4. ~CommitTrade(r)
    BY <2>1, RequestTypes DEF CommitTrade, TradeRequest
  <2> QED
    BY <1>3, <2>2, <2>3, <2>4, SellAccounts, ReturnAccounts, ExchangeAccounts,
       PayAccounts DEF Committing
<1>4. ASSUME NEW S \in SUBSET Items, EnterStock(S)
      PROVE  AccountInv'
  <2>1. /\ \A j \in S : item[j] = "NONE"
        /\ UNCHANGED <<bill, melting>>
        /\ item' = [j \in Items |-> IF j \in S THEN "IN_STOCK" ELSE item[j]]
    BY <1>4 DEF EnterStock, Entered, SetStatus
  <2>2. \A j \in Items : IsSold(j)' <=> IsSold(j)
    BY <2>1 DEF IsSold
  <2>3. \A j \in melting : item[j] = "IN_REMAKE" => item'[j] = "IN_REMAKE"
    BY <2>1 DEF SalesInv, TypeOK
  <2> QED
    BY <2>1, <2>2, <2>3, MeltingStays, OthersAccount
<1>5. ASSUME NEW i \in Items, Melt(i)
      PROVE  AccountInv'
  <2>1. /\ item[i] = "IN_STOCK" /\ melting' = melting \union {i}
        /\ UNCHANGED bill
        /\ item' = [j \in Items |-> IF j \in {i} THEN "IN_REMAKE" ELSE item[j]]
    BY <1>5 DEF Melt, SetStatus
  <2>2. \A j \in Items : IsSold(j)' <=> IsSold(j)
    BY <2>1 DEF IsSold
  <2>3. \A j \in melting' : item'[j] = "IN_REMAKE"
    BY <2>1 DEF AccountInv, SalesInv, TypeOK
  <2> QED
    BY <2>1, <2>2, <2>3, OthersAccount
<1>6. ASSUME NEW i \in Items, Remake(i)
      PROVE  AccountInv'
  <2>1. /\ item[i] = "IN_REMAKE" /\ melting' = melting \ {i}
        /\ UNCHANGED bill
        /\ item' = [j \in Items |-> IF j \in {i} THEN "REMADE" ELSE item[j]]
    BY <1>6 DEF Remake, SetStatus, AccountInv
  <2>2. \A j \in Items : IsSold(j)' <=> IsSold(j)
    BY <2>1 DEF IsSold
  <2>3. \A j \in melting' : item'[j] = "IN_REMAKE"
    BY <2>1 DEF AccountInv, SalesInv, TypeOK
  <2> QED
    BY <2>1, <2>2, <2>3, OthersAccount
<1>7. CASE UNCHANGED vars
  BY <1>1, <1>7 DEF vars
<1> QED
  BY <1>2, <1>3, <1>4, <1>5, <1>6, <1>7, BuyInAccounts DEF Next, AtOnce

\* At the start no bill has a line and no item is SOLD.
LEMMA AccountInit == Init => AccountInv
<1> SUFFICES ASSUME Init PROVE AccountInv
  OBVIOUS
<1>1. \A i \in Items : SoldOn(i) = {} /\ BackOn(i) = {}
  BY DEF Init, NoBill, SoldOn, BackOn
<1>2. \A i \in Items : ~IsSold(i)
  BY DEF Init, IsSold
<1>3. IsFiniteSet({}) /\ Cardinality({}) = 0
  BY FS_EmptySet
<1>4. FinitelyOften
  BY <1>1, <1>3 DEF FinitelyOften
<1>5. ASSUME NEW i \in Items
      PROVE  Cardinality(SoldOn(i)) =
               Cardinality(BackOn(i)) + (IF IsSold(i) THEN 1 ELSE 0)
  BY <1>1, <1>2, <1>3
<1> QED
  BY <1>4, <1>5 DEF Init, AccountInv, LinesMatchStatus

\* Where statuses are left to sales, purchases and production, the bills
\* account for every item whatever requests race for it: no two bills sell an
\* item that came back only once, nothing is refunded that is not out.
THEOREM LinesMatchStatusHolds ==
  ASSUME ManualStatuses = {}, Trades = {}
  PROVE  Spec => []LinesMatchStatus
<1>1. Init => SalesInv /\ AccountInv
  BY SalesInit, AccountInit
<1>2. SalesInv /\ AccountInv /\ [Next]_vars => (SalesInv /\ AccountInv)'
  BY SalesStep, AccountStep
<1>3. AccountInv => LinesMatchStatus
  BY DEF AccountInv
<1> QED
  BY <1>1, <1>2, <1>3, PTL DEF Spec

\* Where statuses are left to sales, purchases and production, an item stops
\* being SOLD only by a bill that brings it in, however many requests race.
THEOREM SoldLeavesByReturnInARace ==
  ASSUME ManualStatuses = {}, Trades = {}
  PROVE  Spec => SoldOnlyLeavesByReturn
<1>1. SalesInv /\ AccountInv /\ [Next]_vars =>
        [\A i \in Items : IsSold(i) /\ item'[i] # "SOLD" =>
           \E b \in Bills : IsNew(b) /\ i \in bill'[b].in]_vars
  <2> SUFFICES ASSUME SalesInv, AccountInv, [Next]_vars, NEW i \in Items,
                      item[i] = "SOLD", item'[i] # "SOLD"
               PROVE  \E b \in Bills : IsNew(b) /\ i \in bill'[b].in
    BY DEF IsSold
  <2>0. \A r \in Requests : req[r] \in Request
    BY DEF SalesInv, TypeOK
  <2>1. ASSUME NEW r \in Requests, NEW b \in Bills, NEW refund,
               CommitReturn(r, b, refund)
        PROVE  IsNew(b) /\ i \in bill'[b].in
    BY <2>1 DEF CommitReturn, SetStatus, SalesInv, TypeOK
  <2>2. ASSUME NEW r \in Requests, NEW b \in Bills, NEW difference,
               NEW amount, CommitExchange(r, b, difference, amount)
        PROVE  IsNew(b) /\ i \in bill'[b].in
    BY <2>2 DEF CommitExchange, SalesInv, TypeOK
  <2>3. ASSUME NEW r \in Requests, Committing(r)
        PROVE  \E b \in Bills : IsNew(b) /\ i \in bill'[b].in
    <3>1. ~CommitStatus(r) /\ ~CommitTrade(r)
      BY <2>0, RequestTypes
         DEF CommitStatus, StatusRequest, CommitTrade, TradeRequest
    <3>2. ~CommitPay(r) /\ ~CommitEdit(r)
      BY DEF CommitPay, CommitEdit
    <3>3. ASSUME NEW b, NEW total, NEW amount, CommitSell(r, b, total, amount)
          PROVE  FALSE
      BY <3>3 DEF CommitSell, SetStatus
    <3> QED
      BY <2>1, <2>2, <2>3, <3>1, <3>2, <3>3 DEF Committing
  <2>4. ~UNCHANGED item
    OBVIOUS
  <2>5. ~\E r \in Requests : Requesting(r) \/ Abort(r)
    BY <2>4 DEF Requesting, RequestSell, RequestReturn, RequestExchange,
       RequestPay, RequestStatus, RequestEdit, RequestTrade, Abort, Tables
  <2>6. ASSUME NEW S, NEW to, item' = SetStatus(S, to)
        PROVE  i \in S
    BY <2>6 DEF SetStatus
  <2>7. ASSUME NEW b, NEW j, NEW total, NEW amount, BuyIn(b, j, total, amount)
        PROVE  FALSE
    BY <2>6, <2>7 DEF BuyIn, Entered
  <2>8. ASSUME NEW S, EnterStock(S) PROVE FALSE
    BY <2>6, <2>8 DEF EnterStock, Entered
  <2>9. ASSUME NEW j \in Items, Melt(j) \/ Remake(j) PROVE FALSE
    BY <2>6, <2>9 DEF Melt, Remake, AccountInv
  <2> QED
    BY <2>3, <2>4, <2>5, <2>7, <2>8, <2>9 DEF Next, AtOnce, vars
<1>2. Init => SalesInv /\ AccountInv
  BY SalesInit, AccountInit
<1>3. SalesInv /\ AccountInv /\ [Next]_vars => (SalesInv /\ AccountInv)'
  BY SalesStep, AccountStep
<1> QED
  BY <1>1, <1>2, <1>3, PTL DEF Spec, SoldOnlyLeavesByReturn

-----------------------------------------------------------------------------
(* One request at a time.  A step inserts one bill or leaves the lines of  *)
(* all bills alone, and what is SOLD and what it weighs follows the lines. *)

\* What an item's line on a bill row adds to the ledger.
RowGram(row, i) ==
  IF row.kind = "SELL" /\ i \in row.out THEN row.weight[i]
  ELSE IF row.kind = "RETURN" /\ i \in row.in THEN -row.weight[i]
  ELSE 0

LEMMA GramsOfRows ==
  \A b \in Bills, i \in Items : LineGram(<<b, i>>) = RowGram(bill[b], i)
BY DEF LineGram, RowGram, SellLines, ReturnLines, BillsOf, Gram

LEMMA NextGramsOfRows ==
  \A b \in Bills, i \in Items : LineGram(<<b, i>>)' = RowGram(bill'[b], i)
BY DEF LineGram, RowGram, SellLines, ReturnLines, BillsOf, Gram

LEMMA GramTypes ==
  ASSUME TypeOK
  PROVE  \A b \in Bills, i \in Items : RowGram(bill[b], i) \in Int
<1>. SUFFICES ASSUME NEW b \in Bills, NEW i \in Items
              PROVE  RowGram(bill[b], i) \in Int
  OBVIOUS
<1>1. bill[b].weight \in [Items -> Nat]
  BY DEF TypeOK, BillRow
<1>2. bill[b].weight[i] \in Nat
  BY <1>1
<1>. QED
  BY <1>2 DEF RowGram

LEMMA NextGramTypes ==
  ASSUME TypeOK'
  PROVE  \A b \in Bills, i \in Items : RowGram(bill'[b], i) \in Int
<1>. SUFFICES ASSUME NEW b \in Bills, NEW i \in Items
              PROVE  RowGram(bill'[b], i) \in Int
  OBVIOUS
<1>1. bill'[b].weight \in [Items -> Nat]
  BY DEF TypeOK, BillRow
<1>2. bill'[b].weight[i] \in Nat
  BY <1>1
<1>. QED
  BY <1>2 DEF RowGram

LEMMA PairsOf ==
  ASSUME NEW i \in Items
  PROVE  /\ IsFiniteSet(Bills \X {i}) /\ Bills \X {i} \subseteq Bills \X Items
         /\ \A l \in Bills \X {i} : l[1] \in Bills /\ l = <<l[1], i>>
<1>1. IsFiniteSet({i})
  BY FS_Singleton
<1>. QED
  BY <1>1, FS_Product, LedgerAssumption

\* A step that changes no bill but b changes what an item adds to the ledger
\* by what its line on b adds.
LEMMA NetGramMoves ==
  ASSUME TypeOK, TypeOK', NEW b,
         \A c \in Bills \ {b}, j \in Items :
           RowGram(bill'[c], j) = RowGram(bill[c], j),
         NEW i \in Items
  PROVE  /\ NetGram(i) \in Int
         /\ NetGram(i)' = NetGram(i) +
              (IF b \in Bills THEN RowGram(bill'[b], i) - RowGram(bill[b], i) ELSE 0)
<1>1. PICK S, f, g : /\ S = Bills \X {i}
                     /\ f = [l \in Bills \X Items |-> LineGram(l)]
                     /\ g = [l \in Bills \X Items |-> LineGram(l)']
  OBVIOUS
<1>2. /\ IsFiniteSet(S)
      /\ \A l \in S : l[1] \in Bills /\ l = <<l[1], i>>
      /\ \A c \in Bills : <<c, i>> \in S
  BY <1>1, PairsOf
<1>3. \A c \in Bills : f[<<c, i>>] = RowGram(bill[c], i)
                       /\ g[<<c, i>>] = RowGram(bill'[c], i)
  BY <1>1, GramsOfRows, NextGramsOfRows
<1>4. \A l \in S : f[l] \in Int /\ g[l] \in Int
  <2>. SUFFICES ASSUME NEW l \in S PROVE f[l] \in Int /\ g[l] \in Int
    OBVIOUS
  <2>1. PICK c \in Bills : l = <<c, i>>
    BY <1>2
  <2>. QED
    BY <2>1, <1>3, GramTypes, NextGramTypes
<1>5. \A l \in S \ {<<b, i>>} : g[l] = f[l]
  <2>. SUFFICES ASSUME NEW l \in S \ {<<b, i>>} PROVE g[l] = f[l]
    OBVIOUS
  <2>1. PICK c \in Bills : l = <<c, i>>
    BY <1>2
  <2>2. c # b
    BY <2>1
  <2>. QED
    BY <2>1, <2>2, <1>3
<1>6. PICK x : x = <<b, i>>
  OBVIOUS
<1>7. /\ SumFunctionOnSet(f, S) \in Int
      /\ SumFunctionOnSet(g, S)
           = SumFunctionOnSet(f, S) + (IF x \in S THEN g[x] - f[x] ELSE 0)
  BY <1>2, <1>4, <1>5, <1>6, SumMoved
<1>8. NetGram(i) = SumFunctionOnSet(f, S) /\ NetGram(i)' = SumFunctionOnSet(g, S)
  BY <1>1 DEF NetGram
<1>9. x \in S <=> b \in Bills
  BY <1>1, <1>6
<1>10. b \in Bills => f[x] = RowGram(bill[b], i) /\ g[x] = RowGram(bill'[b], i)
  BY <1>3, <1>6
<1>. QED
  BY <1>7, <1>8, <1>9, <1>10

\* The lines of all bills stay, and the SOLD items and their weights.
LinesStay ==
  \A b \in Bills :
    /\ bill'[b].kind = bill[b].kind /\ bill'[b].out = bill[b].out
    /\ bill'[b].in = bill[b].in /\ bill'[b].weight = bill[b].weight

SoldStay ==
  \A i \in Items : /\ IsSold(i)' <=> IsSold(i)
                   /\ IsSold(i) => weight'[i] = weight[i]

\* A bill is inserted, and an item that leaves on it, comes back on it, or
\* does neither is SOLD accordingly.
LeavesOn(row, i) ==
  /\ i \in row.out /\ row.kind \in {"SELL", "EXCHANGE"}
  /\ IsSold(i)' /\ row.weight[i] = weight[i]
  /\ i \in row.in <=> IsSold(i)

ComesBackOn(row, i) ==
  /\ i \notin row.out /\ i \in row.in /\ row.kind \in {"RETURN", "EXCHANGE"}
  /\ IsSold(i) /\ ~IsSold(i)'
  /\ row.kind = "RETURN" => row.weight[i] = weight[i]

NotMovedBy(row, i) ==
  /\ i \notin row.out /\ (i \in row.in => row.kind = "BUY_BACK")
  /\ IsSold(i)' <=> IsSold(i)

Inserted(b, row) ==
  /\ IsNew(b) /\ row.kind # "NONE"
  /\ row.kind = "SELL" => row.in = {}
  /\ row.paid = row.received
  /\ bill' = [bill EXCEPT ![b] = row]
  /\ weight' = weight
  /\ \A i \in Items : LeavesOn(row, i) \/ ComesBackOn(row, i) \/ NotMovedBy(row, i)

LEMMA ItemsStay ==
  ASSUME SalesInv, TypeOK', ItemsBilled, LinesStay, SoldStay
  PROVE  ItemsBilled'
<1>. SUFFICES ASSUME NEW i \in Items
     PROVE  (/\ ~IsSold(i) /\ SoldOn(i) # {} => BackOn(i) # {}
             /\ i \in NeverExchanged =>
                  NetGram(i) = IF IsSold(i) THEN weight[i] ELSE 0)'
  BY DEF ItemsBilled
<1>1. SoldOn(i)' = SoldOn(i) /\ BackOn(i)' = BackOn(i)
  BY DEF SoldOn, BackOn, LinesStay
<1>2. i \in NeverExchanged' <=> i \in NeverExchanged
  BY DEF NeverExchanged, OnLines, BillsOf, LinesStay
<1>3. \A c \in Bills, j \in Items : RowGram(bill'[c], j) = RowGram(bill[c], j)
  BY DEF RowGram, LinesStay
<1>4. NetGram(i) \in Int /\ NetGram(i)' = NetGram(i)
  <2>1. PICK b : b \notin Bills
    BY NoSetContainsEverything
  <2>2. NetGram(i) \in Int /\ NetGram(i)' = NetGram(i) + 0
    BY <1>3, <2>1, NetGramMoves DEF SalesInv
  <2>. QED
    BY <2>2
<1>5. /\ ~IsSold(i) /\ SoldOn(i) # {} => BackOn(i) # {}
      /\ i \in NeverExchanged => NetGram(i) = IF IsSold(i) THEN weight[i] ELSE 0
  BY DEF ItemsBilled
<1>6. (IsSold(i)' <=> IsSold(i)) /\ (IsSold(i) => weight'[i] = weight[i])
  BY DEF SoldStay
<1>. QED
  BY <1>1, <1>2, <1>4, <1>5, <1>6

LEMMA ItemsMove ==
  ASSUME SalesInv, TypeOK', ItemsBilled, NEW b \in Bills, NEW row,
         Inserted(b, row)
  PROVE  ItemsBilled'
<1>. SUFFICES ASSUME NEW i \in Items
     PROVE  (/\ ~IsSold(i) /\ SoldOn(i) # {} => BackOn(i) # {}
             /\ i \in NeverExchanged =>
                  NetGram(i) = IF IsSold(i) THEN weight[i] ELSE 0)'
  BY DEF ItemsBilled
<1>0. /\ TypeOK /\ NewBills /\ IsNew(b) /\ bill' = [bill EXCEPT ![b] = row]
      /\ weight' = weight /\ row.kind # "NONE"
      /\ LeavesOn(row, i) \/ ComesBackOn(row, i) \/ NotMovedBy(row, i)
  BY DEF SalesInv, Inserted
<1>1. /\ b \notin SoldOn(i) /\ b \notin BackOn(i)
      /\ SoldOn(i)' = IF Leaves(row, i) THEN SoldOn(i) \union {b} ELSE SoldOn(i)
      /\ BackOn(i)' = IF Returns(row, i) THEN BackOn(i) \union {b} ELSE BackOn(i)
  BY <1>0, LinesInserted
<1>2. /\ bill'[b] = row /\ bill[b] = NoBill
      /\ \A c \in Bills \ {b} : bill'[c] = bill[c]
  BY <1>0 DEF TypeOK, NewBills
<1>3. i \in NeverExchanged' =>
        /\ i \in NeverExchanged
        /\ ~(row.kind = "EXCHANGE" /\ i \in row.out \union row.in)
  <2>. SUFFICES ASSUME i \in NeverExchanged'
                PROVE  /\ i \in NeverExchanged
                       /\ ~(row.kind = "EXCHANGE" /\ i \in row.out \union row.in)
    OBVIOUS
  <2>1. \A c \in Bills : bill'[c].kind = "EXCHANGE" =>
                           i \notin bill'[c].out \union bill'[c].in
    BY DEF NeverExchanged, OnLines, BillsOf
  <2>2. \A c \in Bills : bill[c].kind = "EXCHANGE" =>
                           i \notin bill[c].out \union bill[c].in
    BY <1>2, <2>1 DEF NoBill
  <2>. QED
    BY <1>2, <2>1, <2>2 DEF NeverExchanged, OnLines, BillsOf
<1>4. NetGram(i) \in Int /\ NetGram(i)' = NetGram(i) + RowGram(row, i)
  <2>1. \A c \in Bills \ {b}, j \in Items : RowGram(bill'[c], j) = RowGram(bill[c], j)
    BY <1>2
  <2>2. RowGram(bill[b], i) = 0 /\ RowGram(row, i) \in Int
    BY <1>2, NextGramTypes DEF RowGram, NoBill
  <2>3. /\ NetGram(i) \in Int
        /\ NetGram(i)' = NetGram(i) + (RowGram(bill'[b], i) - RowGram(bill[b], i))
    BY <1>0, <2>1, NetGramMoves
  <2>. QED
    BY <1>2, <2>2, <2>3
<1>5. /\ ~IsSold(i) /\ SoldOn(i) # {} => BackOn(i) # {}
      /\ i \in NeverExchanged => NetGram(i) = IF IsSold(i) THEN weight[i] ELSE 0
      /\ weight[i] \in Int
  BY <1>0 DEF ItemsBilled, TypeOK
<1>6. \A c \in SoldOn(i) : bill'[c] = bill[c]
  BY <1>1, <1>2 DEF SoldOn
<1>7. CASE LeavesOn(row, i)
  <2>1. IsSold(i)'
    BY <1>7 DEF LeavesOn
  <2>2. i \in NeverExchanged' => NetGram(i)' = weight'[i]
    <3>. SUFFICES ASSUME i \in NeverExchanged' PROVE NetGram(i)' = weight'[i]
      OBVIOUS
    <3>1. row.kind = "SELL" /\ ~IsSold(i) /\ RowGram(row, i) = weight[i]
      BY <1>3, <1>7 DEF LeavesOn, RowGram, Inserted
    <3>. QED
      BY <1>0, <1>3, <1>4, <1>5, <3>1
  <2>. QED
    BY <2>1, <2>2
<1>8. CASE ComesBackOn(row, i)
  <2>1. ~IsSold(i)' /\ BackOn(i)' # {}
    BY <1>1, <1>8 DEF ComesBackOn, Returns
  <2>2. i \in NeverExchanged' => NetGram(i)' = 0
    <3>. SUFFICES ASSUME i \in NeverExchanged' PROVE NetGram(i)' = 0
      OBVIOUS
    <3>1. row.kind = "RETURN" /\ IsSold(i) /\ RowGram(row, i) = -weight[i]
      BY <1>3, <1>8 DEF ComesBackOn, RowGram
    <3>. QED
      BY <1>3, <1>4, <1>5, <3>1
  <2>. QED
    BY <2>1, <2>2
<1>9. CASE NotMovedBy(row, i)
  <2>1. /\ IsSold(i)' <=> IsSold(i)
        /\ SoldOn(i)' = SoldOn(i) /\ BackOn(i)' = BackOn(i)
        /\ RowGram(row, i) = 0
    BY <1>1, <1>9 DEF NotMovedBy, Leaves, Returns, RowGram
  <2>. QED
    BY <1>0, <1>3, <1>4, <1>5, <1>6, <2>1
<1>. QED
  BY <1>0, <1>7, <1>8, <1>9

\* What FreshInv says of the request that commits.
LEMMA FreshRequest ==
  ASSUME FreshInv, NEW r \in Requests
  PROVE  /\ TypeOK /\ SalesInv /\ req[r] \in Request /\ Fresh(req[r])
         /\ \A b \in Bills : bill[b] \in BillRow
BY DEF FreshInv, SalesInv, TypeOK, FreshRequests

\* createSell: what is sold was not SOLD, and the line has its weight.
LEMMA SellInserts ==
  ASSUME FreshInv, NEW r \in Requests, NEW b \in Bills,
         NEW total, NEW amount, CommitSell(r, b, total, amount)
  PROVE  \E row : Inserted(b, row)
<1>0. /\ req[r] \in SellRequest /\ req[r].op = "sell" /\ Fresh(req[r])
      /\ item \in [Items -> Settable \union {"NONE", "SOLD"}]
  BY FreshRequest, RequestTypes DEF CommitSell, TypeOK
<1>1. PICK row : row =
        [kind |-> "SELL", of |-> {}, out |-> req[r].out, in |-> {},
         weight |-> req[r].weight, total |-> total, paid |-> amount,
         balance |-> total - amount, received |-> amount]
  OBVIOUS
<1>2. /\ IsNew(b) /\ bill' = [bill EXCEPT ![b] = row] /\ weight' = weight
      /\ item' = SetStatus(req[r].out, "SOLD")
      /\ \A i \in req[r].out : ForSale(i)
  BY <1>1 DEF CommitSell
<1>3. /\ row.kind = "SELL" /\ row.in = {} /\ row.out = req[r].out
      /\ row.weight = req[r].weight /\ row.paid = row.received
  BY <1>1
<1>4. ASSUME NEW i \in Items
      PROVE  LeavesOn(row, i) \/ NotMovedBy(row, i)
  <2>1. CASE i \in req[r].out
    <3>1. IsSold(i)' /\ ~IsSold(i) /\ req[r].weight[i] = weight[i]
      BY <1>0, <1>2, <2>1 DEF SetStatus, IsSold, ForSale, Fresh
    <3>. QED
      BY <1>3, <2>1, <3>1 DEF LeavesOn
  <2>2. CASE i \notin req[r].out
    <3>1. IsSold(i)' <=> IsSold(i)
      BY <1>2, <2>2 DEF SetStatus, IsSold
    <3>. QED
      BY <1>3, <2>2, <3>1 DEF NotMovedBy
  <2>. QED
    BY <2>1, <2>2
<1>. QED
  BY <1>2, <1>3, <1>4 DEF Inserted

\* createReturn: what comes back was SOLD.
LEMMA ReturnInserts ==
  ASSUME FreshInv, NEW r \in Requests, NEW b \in Bills,
         NEW refund, CommitReturn(r, b, refund)
  PROVE  \E row : Inserted(b, row)
<1>0. /\ req[r] \in ReturnRequest /\ req[r].op = "return" /\ Fresh(req[r])
  BY FreshRequest, RequestTypes DEF CommitReturn, TypeOK
<1>1. PICK row : row =
        [kind |-> "RETURN", of |-> {req[r].of}, out |-> {}, in |-> req[r].in,
         weight |-> req[r].weight, total |-> refund, paid |-> refund,
         balance |-> 0, received |-> refund]
  OBVIOUS
<1>2. /\ IsNew(b) /\ bill' = [bill EXCEPT ![b] = row] /\ weight' = weight
      /\ item' = SetStatus(req[r].in, "IN_STOCK")
      /\ \A i \in req[r].in : IsSold(i)
  BY <1>1 DEF CommitReturn, BackFrom
<1>3. /\ row.kind = "RETURN" /\ row.out = {} /\ row.in = req[r].in
      /\ row.weight = req[r].weight /\ row.paid = row.received
  BY <1>1
<1>4. ASSUME NEW i \in Items
      PROVE  ComesBackOn(row, i) \/ NotMovedBy(row, i)
  <2>1. CASE i \in req[r].in
    <3>1. ~IsSold(i)' /\ IsSold(i) /\ req[r].weight[i] = weight[i]
      BY <1>0, <1>2, <2>1 DEF SetStatus, IsSold, Fresh
    <3>. QED
      BY <1>3, <2>1, <3>1 DEF ComesBackOn
  <2>2. CASE i \notin req[r].in
    <3>1. IsSold(i)' <=> IsSold(i)
      BY <1>2, <2>2 DEF SetStatus, IsSold
    <3>. QED
      BY <1>3, <2>2, <3>1 DEF NotMovedBy
  <2>. QED
    BY <2>1, <2>2
<1>. QED
  BY <1>2, <1>3, <1>4 DEF Inserted

\* createExchange: an item that is on both sides stays SOLD, and the line has
\* the weight it has now.
LEMMA ExchangeInserts ==
  ASSUME FreshInv, NEW r \in Requests, NEW b \in Bills,
         NEW difference, NEW amount, CommitExchange(r, b, difference, amount)
  PROVE  \E row : Inserted(b, row)
<1>0. /\ req[r] \in ExchangeRequest /\ req[r].op = "exchange" /\ Fresh(req[r])
  BY FreshRequest, RequestTypes DEF CommitExchange, TypeOK
<1>1. PICK in, out : in = req[r].in /\ out = req[r].out
  OBVIOUS
<1>2. PICK lines : lines =
        LineWeights(out, [i \in Items |->
                            IF i \in in THEN weight[i] ELSE req[r].weight[i]])
  OBVIOUS
<1>3. PICK row : row =
        [kind |-> "EXCHANGE", of |-> {}, out |-> out, in |-> in,
         weight |-> lines, total |-> difference, paid |-> amount,
         balance |-> difference - amount, received |-> amount]
  OBVIOUS
<1>4. /\ IsNew(b) /\ bill' = [bill EXCEPT ![b] = row] /\ weight' = weight
      /\ item' = [i \in Items |-> IF i \in out THEN "SOLD"
                                  ELSE IF i \in in THEN "IN_STOCK"
                                  ELSE item[i]]
      /\ \A i \in in : IsSold(i)
      /\ \A i \in out \ in : ~IsSold(i)
  BY <1>1, <1>2, <1>3 DEF CommitExchange, BackFrom, ForSale, IsSold
<1>5. /\ row.kind = "EXCHANGE" /\ row.out = out /\ row.in = in
      /\ row.weight = lines /\ row.paid = row.received
  BY <1>3
<1>6. \A i \in Items : i \in out => lines[i] = weight[i]
  BY <1>0, <1>1, <1>2 DEF LineWeights, Fresh
<1>7. ASSUME NEW i \in Items
      PROVE  LeavesOn(row, i) \/ ComesBackOn(row, i) \/ NotMovedBy(row, i)
  <2>1. CASE i \in out
    <3>1. IsSold(i)' /\ (i \in in <=> IsSold(i))
      BY <1>4, <2>1 DEF IsSold
    <3>. QED
      BY <1>5, <1>6, <2>1, <3>1 DEF LeavesOn
  <2>2. CASE i \notin out /\ i \in in
    <3>1. ~IsSold(i)' /\ IsSold(i)
      BY <1>4, <2>2 DEF IsSold
    <3>. QED
      BY <1>5, <2>2, <3>1 DEF ComesBackOn
  <2>3. CASE i \notin out /\ i \notin in
    <3>1. IsSold(i)' <=> IsSold(i)
      BY <1>4, <2>3 DEF IsSold
    <3>. QED
      BY <1>5, <2>3, <3>1 DEF NotMovedBy
  <2>. QED
    BY <2>1, <2>2, <2>3
<1>. QED
  BY <1>4, <1>5, <1>7 DEF Inserted

\* createBuyback, createOldGold: the item is new.
LEMMA BuyInInserts ==
  ASSUME FreshInv, NEW b \in Bills, NEW j \in Items,
         NEW total, NEW amount, BuyIn(b, j, total, amount)
  PROVE  \E row : Inserted(b, row)
<1>1. PICK row : row =
        [kind |-> "BUY_BACK", of |-> {}, out |-> {}, in |-> {j},
         weight |-> LineWeights({j}, weight), total |-> total,
         paid |-> amount, balance |-> total - amount, received |-> amount]
  OBVIOUS
<1>2. /\ IsNew(b) /\ bill' = [bill EXCEPT ![b] = row] /\ weight' = weight
      /\ item[j] = "NONE" /\ item' = SetStatus({j}, "IN_STOCK")
  BY <1>1 DEF BuyIn, Entered
<1>3. /\ row.kind = "BUY_BACK" /\ row.out = {} /\ row.paid = row.received
  BY <1>1
<1>4. \A i \in Items : IsSold(i)' <=> IsSold(i)
  BY <1>2 DEF SetStatus, IsSold
<1>. QED
  BY <1>2, <1>3, <1>4 DEF Inserted, NotMovedBy

-----------------------------------------------------------------------------
(* The steps that insert no bill.                                          *)

\* Such a step, when the request it answers and the items it sets are fresh.
LEMMA StatusStays ==
  ASSUME NEW S, NEW to, to # "SOLD", \A i \in S : ~IsSold(i),
         item' = SetStatus(S, to), weight' = weight
  PROVE  SoldStay
BY DEF SoldStay, SetStatus, IsSold

LEMMA BillsStay == ASSUME bill' = bill PROVE LinesStay
BY DEF LinesStay

LEMMA PayLines ==
  ASSUME FreshInv, NEW r \in Requests, CommitPay(r)
  PROVE  LinesStay /\ SoldStay /\ PaidIsReceived'
<1>0. /\ req[r] \in PayRequest /\ req[r].op = "pay" /\ Fresh(req[r])
      /\ bill \in [Bills -> BillRow] /\ PaidIsReceived
  BY FreshRequest, RequestTypes DEF CommitPay, TypeOK, FreshInv
<1>1. PICK b \in Bills : b = req[r].bill
  BY <1>0 DEF PayRequest
<1>2. /\ \A c \in Bills \ {b} : bill'[c] = bill[c]
      /\ bill'[b] = [bill[b] EXCEPT !.paid = req[r].paid + req[r].amount,
                       !.balance = bill[b].total - (req[r].paid + req[r].amount),
                       !.received = bill[b].received + req[r].amount]
      /\ UNCHANGED <<item, weight>>
  BY <1>0, <1>1 DEF CommitPay
<1>3. bill[b] \in BillRow
  BY <1>0
<1>4. /\ bill'[b].kind = bill[b].kind /\ bill'[b].out = bill[b].out
      /\ bill'[b].in = bill[b].in /\ bill'[b].weight = bill[b].weight
      /\ bill'[b].paid = req[r].paid + req[r].amount
      /\ bill'[b].received = bill[b].received + req[r].amount
  BY <1>2, <1>3 DEF BillRow
<1>5. req[r].paid = bill[b].received
  BY <1>0, <1>1 DEF Fresh, PaidIsReceived
<1>6. PaidIsReceived'
  BY <1>0, <1>2, <1>4, <1>5 DEF PaidIsReceived
<1>7. SoldStay
  BY <1>2 DEF SoldStay, IsSold
<1>8. LinesStay
  BY <1>2, <1>4 DEF LinesStay
<1>. QED
  BY <1>6, <1>7, <1>8

\* updateStockStatus, updateStockItem and updateTradeStatus leave what is SOLD.
LEMMA UpdatesStay ==
  ASSUME FreshInv, NEW r \in Requests,
         CommitStatus(r) \/ CommitEdit(r) \/ CommitTrade(r)
  PROVE  LinesStay /\ SoldStay
<1>0. req[r] \in Request /\ Fresh(req[r]) /\ TypeOK
  BY FreshRequest
<1>1. LinesStay
  BY BillsStay DEF CommitStatus, CommitEdit, CommitTrade
<1>2. CASE CommitStatus(r)
  <2>1. req[r].op = "status" /\ req[r].item \in Items /\ req[r].to # "SOLD"
    BY <1>0, <1>2, RequestTypes, SalesAssumption
       DEF CommitStatus, StatusRequest, Settable
  <2>2. ~IsSold(req[r].item)
    BY <1>0, <2>1 DEF Fresh
  <2>3. item' = SetStatus({req[r].item}, req[r].to) /\ weight' = weight
    BY <1>0, <1>2, <2>1 DEF CommitStatus, SetStatus, TypeOK
  <2>. QED
    BY <1>1, <2>1, <2>2, <2>3, StatusStays
<1>3. CASE CommitEdit(r)
  <2>1. req[r].op = "edit" /\ req[r].item \in Items
    BY <1>0, <1>3, RequestTypes DEF CommitEdit, EditRequest
  <2>2. ~IsSold(req[r].item)
    BY <1>0, <2>1 DEF Fresh
  <2>. QED
    BY <1>0, <1>1, <1>3, <2>1, <2>2 DEF CommitEdit, SoldStay, IsSold, TypeOK
<1>4. CASE CommitTrade(r)
  <2>1. req[r].op = "trade" /\ req[r].inStock \subseteq Items
    BY <1>0, <1>4, RequestTypes DEF CommitTrade, TradeRequest
  <2>2. \A i \in req[r].inStock : ~IsSold(i)
    BY <1>0, <2>1 DEF Fresh
  <2>3. /\ weight' = weight
        /\ item' = item \/ item' = SetStatus(req[r].inStock, "SCRAPPED")
    BY <1>4 DEF CommitTrade
  <2>. QED
    BY <1>1, <2>2, <2>3, StatusStays DEF SoldStay, IsSold
<1>. QED
  BY <1>2, <1>3, <1>4

\* New items, new trades and issues for melting.
LEMMA EntriesStay ==
  ASSUME \/ \E S \in SUBSET Items : EnterStock(S)
         \/ \E i \in Items : Melt(i)
         \/ \E t \in Trades : CreateTrade(t)
  PROVE  LinesStay /\ SoldStay
<1>1. bill' = bill /\ weight' = weight
  BY DEF EnterStock, Melt, CreateTrade
<1>2. \E S, to : /\ to # "SOLD" /\ \A i \in S : ~IsSold(i)
                 /\ item' = SetStatus(S, to)
  <2>1. CASE \E S \in SUBSET Items : EnterStock(S)
    BY <2>1 DEF EnterStock, Entered, IsSold
  <2>2. ASSUME NEW i \in Items, Melt(i)
        PROVE  \E S, to : /\ to # "SOLD" /\ \A j \in S : ~IsSold(j)
                          /\ item' = SetStatus(S, to)
    BY <2>2 DEF Melt, IsSold
  <2>3. CASE \E t \in Trades : CreateTrade(t)
    BY <2>3 DEF CreateTrade, Entered, IsSold
  <2>. QED
    BY <2>1, <2>2, <2>3
<1>. QED
  BY <1>1, <1>2, StatusStays, BillsStay

\* What comes back from production was IN_REMAKE, if nobody interfered; in any
\* case it becomes REMADE, not SOLD.
LEMMA RemakeStays ==
  ASSUME NEW i \in Items, Remake(i)
  PROVE  /\ LinesStay /\ UNCHANGED <<weight, bill>>
         /\ \A j \in Items : IsSold(j)' => IsSold(j)
         /\ ~IsSold(i) => SoldStay
<1>1. /\ item' = SetStatus({i}, "REMADE") /\ UNCHANGED <<weight, bill>>
  BY DEF Remake
<1>2. LinesStay
  BY <1>1, BillsStay
<1>3. \A j \in Items : IsSold(j)' => IsSold(j)
  BY <1>1 DEF SetStatus, IsSold
<1>. QED
  BY <1>1, <1>2, <1>3, StatusStays

\* Every step inserts one bill, or leaves the lines and, but for what production
\* makes REMADE, the SOLD items.
Inserting == \E b \in Bills : \E row : Inserted(b, row)

LEMMA FreshMoves ==
  ASSUME FreshInv, [Next]_vars
  PROVE  \/ Inserting
         \/ /\ LinesStay /\ (SoldStay \/ \E i \in Items : Remake(i))
            /\ PaidIsReceived' \/ UNCHANGED bill
<1>1. ASSUME UNCHANGED Tables
      PROVE  LinesStay /\ SoldStay /\ UNCHANGED bill
  BY <1>1 DEF Tables, LinesStay, SoldStay, IsSold
<1>2. ASSUME NEW r \in Requests, Requesting(r) \/ Abort(r)
      PROVE  UNCHANGED Tables
  BY <1>2 DEF Requesting, RequestSell, RequestReturn, RequestExchange,
     RequestPay, RequestStatus, RequestEdit, RequestTrade, Abort
<1>3. ASSUME NEW r \in Requests, Committing(r)
      PROVE  \/ Inserting
             \/ LinesStay /\ SoldStay /\ (PaidIsReceived' \/ UNCHANGED bill)
  <2>1. CASE CommitStatus(r) \/ CommitEdit(r) \/ CommitTrade(r)
    <3>1. UNCHANGED bill
      BY <2>1 DEF CommitStatus, CommitEdit, CommitTrade
    <3>. QED
      BY <2>1, <3>1, UpdatesStay
  <2>. QED
    BY <1>3, <2>1, SellInserts, ReturnInserts, ExchangeInserts, PayLines
       DEF Committing, Inserting
<1>4. CASE \/ \E S \in SUBSET Items : EnterStock(S)
           \/ \E i \in Items : Melt(i)
           \/ \E t \in Trades : CreateTrade(t)
  <2>1. UNCHANGED bill
    BY <1>4 DEF EnterStock, Melt, CreateTrade
  <2>. QED
    BY <1>4, <2>1, EntriesStay
<1>5. CASE \E i \in Items : Remake(i)
  BY <1>5, RemakeStays
<1>6. UNCHANGED vars => UNCHANGED Tables
  BY DEF vars, Tables
<1>. QED
  BY <1>1, <1>2, <1>3, <1>4, <1>5, <1>6, BuyInInserts DEF Next, AtOnce, Inserting

\* What production has taken is not SOLD under SerialInv.
LEMMA SerialMoves ==
  ASSUME SerialInv, [Next]_vars
  PROVE  Inserting \/ (LinesStay /\ SoldStay)
<1>1. ASSUME NEW i \in Items, Remake(i) PROVE SoldStay
  <2>1. ~IsSold(i)
    BY <1>1 DEF SerialInv, MeltingAway, Remake, IsSold
  <2>. QED
    BY <1>1, <2>1, RemakeStays
<1>. QED
  BY <1>1, FreshMoves DEF SerialInv

-----------------------------------------------------------------------------
(* With one request at a time, what a request has read stands.             *)

LEMMA OwnRequest ==
  ASSUME OneAtATime, TypeOK, NEW r \in Requests, NEW q,
         req' = [req EXCEPT ![r] = q], Fresh(q)'
  PROVE  FreshRequests'
<1>1. \A s \in Requests : req'[s] = q
  BY DEF OneAtATime, TypeOK
<1>. QED
  BY <1>1 DEF FreshRequests, Fresh

LEMMA FreshAnswer ==
  ASSUME OneAtATime, TypeOK, NEW r \in Requests, Answer(r)
  PROVE  FreshRequests'
<1>1. Fresh(Idle)'
  BY DEF Fresh, Idle
<1>. QED
  BY <1>1, OwnRequest DEF Answer

LEMMA FreshRequesting ==
  ASSUME OneAtATime, TypeOK, NEW r \in Requests, Requesting(r)
  PROVE  FreshRequests'
<1>1. ASSUME NEW out \in SUBSET Items, RequestSell(r, out)
      PROVE  FreshRequests'
  <2>1. PICK q : q = [op |-> "sell", out |-> out,
                      weight |-> LineWeights(out, weight)]
    OBVIOUS
  <2>2. weight' = weight /\ \A i \in out : q.weight[i] = weight[i]
    BY <1>1, <2>1 DEF RequestSell, Tables, LineWeights
  <2>3. Fresh(q)'
    BY <2>1, <2>2 DEF Fresh
  <2>. QED
    BY <1>1, <2>1, <2>3, OwnRequest DEF RequestSell, Submit
<1>2. ASSUME NEW b \in Bills, NEW in \in SUBSET Items, RequestReturn(r, b, in)
      PROVE  FreshRequests'
  <2>1. PICK q : q = [op |-> "return", of |-> b, in |-> in,
                      weight |-> LineWeights(in, weight)]
    OBVIOUS
  <2>2. weight' = weight /\ \A i \in in : q.weight[i] = weight[i]
    BY <1>2, <2>1 DEF RequestReturn, Tables, LineWeights
  <2>3. Fresh(q)'
    BY <2>1, <2>2 DEF Fresh
  <2>. QED
    BY <1>2, <2>1, <2>3, OwnRequest DEF RequestReturn, Submit
<1>3. ASSUME NEW in \in SUBSET Items, NEW out \in SUBSET Items,
             RequestExchange(r, in, out)
      PROVE  FreshRequests'
  <2>1. PICK q : q = [op |-> "exchange", in |-> in, out |-> out,
                      weight |-> LineWeights(out, weight)]
    OBVIOUS
  <2>2. weight' = weight /\ \A i \in out : q.weight[i] = weight[i]
    BY <1>3, <2>1 DEF RequestExchange, Tables, LineWeights
  <2>3. Fresh(q)'
    BY <2>1, <2>2 DEF Fresh
  <2>. QED
    BY <1>3, <2>1, <2>3, OwnRequest DEF RequestExchange, Submit
<1>4. ASSUME NEW b \in Bills, NEW amount \in Amounts, RequestPay(r, b, amount)
      PROVE  FreshRequests'
  <2>1. PICK q : q = [op |-> "pay", bill |-> b, amount |-> amount,
                      paid |-> bill[b].paid]
    OBVIOUS
  <2>2. bill' = bill
    BY <1>4 DEF RequestPay, Tables
  <2>3. Fresh(q)'
    BY <2>1, <2>2 DEF Fresh
  <2>. QED
    BY <1>4, <2>1, <2>3, OwnRequest DEF RequestPay, Submit
<1>5. ASSUME NEW i \in Items, NEW to \in ManualStatuses, RequestStatus(r, i, to)
      PROVE  FreshRequests'
  <2>1. PICK q : q = [op |-> "status", item |-> i, to |-> to]
    OBVIOUS
  <2>2. ~IsSold(i)'
    BY <1>5 DEF RequestStatus, Tables, IsSold
  <2>3. Fresh(q)'
    BY <2>1, <2>2 DEF Fresh
  <2>. QED
    BY <1>5, <2>1, <2>3, OwnRequest DEF RequestStatus, Submit
<1>6. ASSUME NEW i \in Items, NEW w \in Weights, RequestEdit(r, i, w)
      PROVE  FreshRequests'
  <2>1. PICK q : q = [op |-> "edit", item |-> i, weight |-> w]
    OBVIOUS
  <2>2. ~IsSold(i)'
    BY <1>6 DEF RequestEdit, Tables, IsSold
  <2>3. Fresh(q)'
    BY <2>1, <2>2 DEF Fresh
  <2>. QED
    BY <1>6, <2>1, <2>3, OwnRequest DEF RequestEdit, Submit
<1>7. ASSUME NEW t \in Trades, NEW to \in {"COMPLETED", "CANCELLED"},
             RequestTrade(r, t, to)
      PROVE  FreshRequests'
  <2>1. PICK q : q = [op |-> "trade", trade |-> t, to |-> to,
                      inStock |-> {i \in TradeItems[t] : item[i] = "IN_STOCK"}]
    OBVIOUS
  <2>2. item' = item /\ \A i \in q.inStock : ~IsSold(i)
    BY <1>7, <2>1 DEF RequestTrade, Tables, IsSold
  <2>3. Fresh(q)'
    BY <2>1, <2>2 DEF Fresh, IsSold
  <2>. QED
    BY <1>7, <2>1, <2>3, OwnRequest DEF RequestTrade, Submit
<1>. QED
  BY <1>1, <1>2, <1>3, <1>4, <1>5, <1>6, <1>7 DEF Requesting

\* Purchases from customers, new stock, new trades and production sell
\* nothing, weigh nothing anew and touch no bill that is there.
LEMMA FreshAtOnce ==
  ASSUME FreshInv, AtOnce
  PROVE  FreshRequests'
<1>1. /\ UNCHANGED <<weight, req>>
      /\ \A b \in Bills : ~IsNew(b) => bill'[b] = bill[b]
  BY DEF AtOnce, BuyIn, EnterStock, Melt, Remake, CreateTrade, FreshInv,
     SalesInv, TypeOK
<1>2. \A i \in Items : IsSold(i)' => IsSold(i)
  BY DEF AtOnce, BuyIn, EnterStock, Melt, Remake, CreateTrade, SetStatus, IsSold
<1>. SUFFICES ASSUME NEW r \in Requests PROVE Fresh(req[r])'
  BY DEF FreshRequests
<1>3. req[r] \in Request /\ Fresh(req[r]) /\ Payment(req[r])
  BY FreshRequest DEF SalesInv, Payments
<1>4. CASE req[r].op = "pay"
  <2>1. req[r].bill \in Bills /\ ~IsNew(req[r].bill)
    BY <1>3, <1>4, RequestTypes DEF PayRequest, Payment
  <2>. QED
    BY <1>1, <1>3, <1>4, <2>1 DEF Fresh
<1>5. CASE req[r].op \in {"status", "edit"}
  <2>1. req[r].item \in Items
    BY <1>3, <1>5, RequestTypes DEF StatusRequest, EditRequest
  <2>. QED
    BY <1>1, <1>2, <1>3, <1>5, <2>1 DEF Fresh
<1>6. CASE req[r].op = "trade"
  <2>1. req[r].inStock \subseteq Items
    BY <1>3, <1>6, RequestTypes DEF TradeRequest
  <2>. QED
    BY <1>1, <1>2, <1>3, <1>6, <2>1 DEF Fresh
<1>7. CASE req[r].op \notin {"pay", "status", "edit", "trade"}
  BY <1>1, <1>3, <1>7 DEF Fresh
<1>. QED
  BY <1>4, <1>5, <1>6, <1>7

LEMMA FreshStep ==
  ASSUME OneAtATime, FreshInv, [Next]_vars
  PROVE  FreshRequests'
<1>0. TypeOK /\ FreshRequests
  BY DEF FreshInv, SalesInv
<1>1. CASE UNCHANGED vars
  BY <1>0, <1>1 DEF vars, FreshRequests, Fresh, IsSold
<1>2. ASSUME NEW r \in Requests, Committing(r) \/ Abort(r)
      PROVE  FreshRequests'
  <2>1. Answer(r)
    BY <1>2 DEF Committing, Abort, CommitSell, CommitReturn, CommitExchange,
       CommitPay, CommitStatus, CommitEdit, CommitTrade
  <2>. QED
    BY <1>0, <2>1, FreshAnswer
<1>. QED
  BY <1>0, <1>1, <1>2, FreshRequesting, FreshAtOnce DEF Next

\* A SOLD item is on a bill that says what it weighs.
LEMMA WeighedStep ==
  ASSUME FreshInv, [Next]_vars
  PROVE  SoldAsWeighed'
<1>. SUFFICES ASSUME NEW i \in Items, IsSold(i)'
              PROVE  \E b \in SoldOn(i)' : bill'[b].weight[i] = weight'[i]
  BY DEF SoldAsWeighed
<1>0. /\ IsSold(i) => \E b \in SoldOn(i) : bill[b].weight[i] = weight[i]
      /\ TypeOK /\ NewBills
  BY DEF FreshInv, SoldAsWeighed, SalesInv
<1>1. CASE Inserting
  <2>a. PICK b \in Bills : \E row : Inserted(b, row)
    BY <1>1 DEF Inserting
  <2>1. PICK row : Inserted(b, row)
    BY <2>a
  <2>2. /\ bill'[b] = row /\ \A c \in Bills \ {b} : bill'[c] = bill[c]
        /\ weight' = weight /\ bill[b].out = {}
    BY <1>0, <2>1 DEF Inserted, TypeOK, NewBills, NoBill
  <2>3. LeavesOn(row, i) \/ NotMovedBy(row, i)
    BY <2>1 DEF Inserted, ComesBackOn
  <2>4. CASE LeavesOn(row, i)
    BY <2>2, <2>4 DEF LeavesOn, SoldOn
  <2>5. CASE NotMovedBy(row, i)
    <3>1. PICK c \in SoldOn(i) : bill[c].weight[i] = weight[i]
      BY <1>0, <2>5 DEF NotMovedBy
    <3>2. c \in Bills \ {b}
      BY <2>2, <3>1 DEF SoldOn
    <3>. QED
      BY <2>2, <3>1, <3>2 DEF SoldOn
  <2>. QED
    BY <2>3, <2>4, <2>5
<1>2. CASE LinesStay /\ (SoldStay \/ \E j \in Items : Remake(j))
  <2>1. IsSold(i) /\ weight'[i] = weight[i]
    BY <1>2, RemakeStays DEF SoldStay
  <2>2. PICK c \in SoldOn(i) : bill[c].weight[i] = weight[i]
    BY <1>0, <2>1
  <2>. QED
    BY <1>2, <2>1, <2>2 DEF LinesStay, SoldOn
<1>. QED
  BY <1>1, <1>2, FreshMoves

LEMMA FreshInvStep ==
  ASSUME OneAtATime, FreshInv, [Next]_vars
  PROVE  FreshInv'
<1>0. SalesInv /\ PaidIsReceived /\ bill \in [Bills -> BillRow]
  BY DEF FreshInv, SalesInv, TypeOK
<1>1. ASSUME Inserting PROVE PaidIsReceived'
  <2>a. PICK b \in Bills : \E row : Inserted(b, row)
    BY <1>1 DEF Inserting
  <2>1. PICK row : Inserted(b, row)
    BY <2>a
  <2>2. /\ bill'[b] = row /\ \A c \in Bills \ {b} : bill'[c] = bill[c]
        /\ row.paid = row.received
    BY <1>0, <2>1 DEF Inserted
  <2>. QED
    BY <1>0, <2>2 DEF PaidIsReceived
<1>2. PaidIsReceived'
  BY <1>0, <1>1, FreshMoves DEF PaidIsReceived
<1>. QED
  BY <1>0, <1>2, SalesStep, FreshStep, WeighedStep DEF FreshInv

-----------------------------------------------------------------------------
(* What production has taken stays away from the counter.                  *)

LEMMA MeltingStep ==
  ASSUME NoMeltingByHand, SerialInv, [Next]_vars
  PROVE  MeltingAway'
<1>0. /\ TypeOK /\ MeltingAway /\ \A i \in melting : item[i] \in {"IN_REMAKE", "SCRAPPED"}
      /\ melting \subseteq Items /\ item \in [Items -> Settable \union {"NONE", "SOLD"}]
  BY DEF SerialInv, FreshInv, SalesInv, MeltingAway, TypeOK
<1>1. ASSUME melting' = melting,
             \A i \in melting : item'[i] \in {item[i], "SCRAPPED"}
      PROVE  MeltingAway'
  BY <1>0, <1>1 DEF MeltingAway
<1>2. ASSUME NEW r \in Requests, Requesting(r) \/ Abort(r)
      PROVE  MeltingAway'
  <2>1. UNCHANGED <<item, melting>>
    BY <1>2 DEF Requesting, RequestSell, RequestReturn, RequestExchange,
       RequestPay, RequestStatus, RequestEdit, RequestTrade, Abort, Tables
  <2>. QED
    BY <1>1, <2>1
<1>3. ASSUME NEW r \in Requests, Committing(r)
      PROVE  MeltingAway'
  <2>1. melting' = melting /\ req[r] \in Request
    BY <1>3, <1>0 DEF Committing, CommitSell, CommitReturn, CommitExchange,
       CommitPay, CommitStatus, CommitEdit, CommitTrade, TypeOK
  <2>2. ASSUME NEW b, NEW total, NEW amount, CommitSell(r, b, total, amount)
        PROVE  MeltingAway'
    <3>1. \A i \in melting : item'[i] = item[i]
      BY <1>0, <2>2 DEF CommitSell, SetStatus, ForSale
    <3>. QED
      BY <1>1, <2>1, <3>1
  <2>3. ASSUME NEW b, NEW refund, CommitReturn(r, b, refund)
        PROVE  MeltingAway'
    <3>1. \A i \in melting : item'[i] = item[i]
      BY <1>0, <2>3 DEF CommitReturn, SetStatus, BackFrom, IsSold
    <3>. QED
      BY <1>1, <2>1, <3>1
  <2>4. ASSUME NEW b, NEW difference, NEW amount,
               CommitExchange(r, b, difference, amount)
        PROVE  MeltingAway'
    <3>1. \A i \in melting : i \notin req[r].in /\ i \notin req[r].out
      BY <1>0, <2>4 DEF CommitExchange, BackFrom, IsSold, ForSale
    <3>2. \A i \in melting : item'[i] = item[i]
      BY <1>0, <2>4, <3>1 DEF CommitExchange
    <3>. QED
      BY <1>1, <2>1, <3>2
  <2>5. CASE CommitPay(r) \/ CommitEdit(r)
    BY <1>1, <2>1, <2>5 DEF CommitPay, CommitEdit
  <2>6. CASE CommitStatus(r)
    <3>1. ManualStatuses # {}
      BY <2>1, <2>6, RequestTypes DEF CommitStatus, StatusRequest
    <3>2. Meltable = {} /\ melting = {}
      BY <1>0, <3>1 DEF NoMeltingByHand, MeltingAway
    <3>. QED
      BY <2>1, <3>2 DEF MeltingAway
  <2>7. CASE CommitTrade(r)
    <3>1. \A i \in melting : item'[i] \in {item[i], "SCRAPPED"}
      BY <1>0, <2>7 DEF CommitTrade, SetStatus
    <3>. QED
      BY <1>1, <2>1, <3>1
  <2>. QED
    BY <1>3, <2>2, <2>3, <2>4, <2>5, <2>6, <2>7 DEF Committing
<1>4. ASSUME NEW b, NEW i, NEW total, NEW amount, BuyIn(b, i, total, amount)
      PROVE  MeltingAway'
  <2>1. \A j \in melting : item'[j] = item[j]
    BY <1>0, <1>4 DEF BuyIn, SetStatus, Entered
  <2>. QED
    BY <1>1, <1>4, <2>1 DEF BuyIn
<1>5. ASSUME NEW S, EnterStock(S)
      PROVE  MeltingAway'
  <2>1. \A j \in melting : item'[j] = item[j]
    BY <1>0, <1>5 DEF EnterStock, SetStatus, Entered
  <2>. QED
    BY <1>1, <1>5, <2>1 DEF EnterStock
<1>6. ASSUME NEW t, CreateTrade(t)
      PROVE  MeltingAway'
  <2>1. \A j \in melting : item'[j] = item[j]
    BY <1>0, <1>6 DEF CreateTrade, SetStatus, Entered
  <2>. QED
    BY <1>1, <1>6, <2>1 DEF CreateTrade
<1>7. ASSUME NEW i \in Items, Melt(i)
      PROVE  MeltingAway'
  BY <1>0, <1>7 DEF Melt, SetStatus, MeltingAway
<1>8. ASSUME NEW i \in Items, Remake(i)
      PROVE  MeltingAway'
  BY <1>0, <1>8 DEF Remake, SetStatus, MeltingAway
<1>9. CASE UNCHANGED vars
  BY <1>1, <1>9 DEF vars
<1>. QED
  BY <1>2, <1>3, <1>4, <1>5, <1>6, <1>7, <1>8, <1>9 DEF Next, AtOnce

-----------------------------------------------------------------------------
(* One request at a time: the invariant.                                   *)

\* At the start nothing was sold.
LEMMA SerialInit ==
  ASSUME Init PROVE SerialInv
<1>1. SalesInv
  BY SalesInit
<1>2. /\ \A b \in Bills : bill[b] = NoBill
      /\ \A i \in Items : ~IsSold(i)
      /\ \A r \in Requests : req[r] = Idle
      /\ melting = {}
  BY DEF Init, IsSold
<1>3. FreshRequests
  BY <1>2 DEF FreshRequests, Fresh, Idle
<1>4. PaidIsReceived /\ \A b \in BillsOf("SELL") : bill[b].in = {}
  BY <1>2 DEF PaidIsReceived, BillsOf, NoBill
<1>5. \A i \in Items : SoldOn(i) = {}
  BY <1>2 DEF SoldOn, NoBill
<1>6. ASSUME NEW i \in Items PROVE NetGram(i) = 0
  <2>1. PICK S, f : /\ S = Bills \X {i}
                    /\ f = [l \in Bills \X Items |-> LineGram(l)]
    OBVIOUS
  <2>2. /\ IsFiniteSet(S)
        /\ \A l \in S : l[1] \in Bills /\ l = <<l[1], i>>
    BY <2>1, PairsOf
  <2>3. \A b \in Bills : RowGram(bill[b], i) = 0
    BY <1>2 DEF RowGram, NoBill
  <2>4. \A b \in Bills : f[<<b, i>>] = 0
    BY <2>1, <2>3, GramsOfRows
  <2>5. \A l \in S : f[l] = 0
    BY <2>2, <2>4
  <2>. QED
    BY <2>1, <2>2, <2>5, SumZero DEF NetGram
<1>7. ItemsBilled /\ SoldAsWeighed
  BY <1>2, <1>5, <1>6 DEF ItemsBilled, SoldAsWeighed
<1>. QED
  BY <1>1, <1>2, <1>3, <1>4, <1>7 DEF SerialInv, MeltingAway, FreshInv

LEMMA SerialStep ==
  ASSUME OneAtATime, NoMeltingByHand, SerialInv, [Next]_vars
  PROVE  SerialInv'
<1>0. /\ FreshInv /\ SalesInv /\ ItemsBilled
      /\ \A b \in BillsOf("SELL") : bill[b].in = {}
  BY DEF SerialInv, FreshInv
<1>1. FreshInv' /\ TypeOK'
  BY <1>0, FreshInvStep DEF FreshInv, SalesInv
<1>2. MeltingAway'
  BY MeltingStep
<1>3. CASE Inserting
  <2>a. PICK b \in Bills : \E row : Inserted(b, row)
    BY <1>3 DEF Inserting
  <2>1. PICK row : Inserted(b, row)
    BY <2>a
  <2>2. ItemsBilled'
    BY <1>0, <1>1, <2>1, ItemsMove
  <2>3. /\ bill'[b] = row /\ \A c \in Bills \ {b} : bill'[c] = bill[c]
        /\ row.kind = "SELL" => row.in = {}
    BY <1>0, <2>1 DEF Inserted, SalesInv, TypeOK
  <2>4. \A c \in BillsOf("SELL")' : bill'[c].in = {}
    BY <1>0, <2>3 DEF BillsOf
  <2>. QED
    BY <1>1, <1>2, <2>2, <2>4 DEF SerialInv
<1>4. CASE LinesStay /\ SoldStay
  <2>1. ItemsBilled'
    BY <1>0, <1>1, <1>4, ItemsStay
  <2>2. \A c \in BillsOf("SELL")' : bill'[c].in = {}
    BY <1>0, <1>4 DEF BillsOf, LinesStay
  <2>. QED
    BY <1>1, <1>2, <2>1, <2>2 DEF SerialInv
<1>. QED
  BY <1>3, <1>4, SerialMoves

\* One request at a time, and production or manual statuses but not both: the
\* invariant of what a request has read and of what the bills say of the items.
THEOREM SerialInvHolds ==
  ASSUME OneAtATime, NoMeltingByHand PROVE Spec => []SerialInv
<1>1. Init => SerialInv
  BY SerialInit
<1>2. SerialInv /\ [Next]_vars => SerialInv'
  BY SerialStep
<1>. QED
  BY <1>1, <1>2, PTL DEF Spec

\* One request at a time, whatever is done by hand: what a request has read
\* stands.
THEOREM FreshInvHolds ==
  ASSUME OneAtATime PROVE Spec => []FreshInv
<1>1. Init => FreshInv
  BY SerialInit DEF SerialInv
<1>2. FreshInv /\ [Next]_vars => FreshInv'
  BY FreshInvStep
<1>. QED
  BY <1>1, <1>2, PTL DEF Spec

\* The paid amount of a bill is the sum of its payment records.
THEOREM PaidIsReceivedHolds ==
  ASSUME OneAtATime PROVE Spec => []PaidIsReceived
<1>1. FreshInv => PaidIsReceived
  BY DEF FreshInv
<1>. QED
  BY <1>1, FreshInvHolds, PTL

\* A SOLD item weighs what it was billed at.
THEOREM SoldAsWeighedHolds ==
  ASSUME OneAtATime PROVE Spec => []SoldAsWeighed
<1>1. FreshInv => SoldAsWeighed
  BY DEF FreshInv
<1>. QED
  BY <1>1, FreshInvHolds, PTL

\* A bill that is inserted keeps the account of the items, and so does a step
\* that leaves the lines and what is SOLD.
LEMMA SerialAccounts ==
  ASSUME SerialInv, LinesMatchStatus, FinitelyOften, [Next]_vars
  PROVE  LinesMatchStatus' /\ FinitelyOften'
<1>1. ASSUME NEW b \in Bills, NEW row, Inserted(b, row)
      PROVE  LinesMatchStatus' /\ FinitelyOften'
  <2>1. ASSUME NEW i \in Items
        PROVE  \/ Leaves(row, i) /\ ~Returns(row, i) /\ ~IsSold(i) /\ IsSold(i)'
               \/ ~Leaves(row, i) /\ Returns(row, i) /\ IsSold(i) /\ ~IsSold(i)'
               \/ /\ Leaves(row, i) <=> Returns(row, i)
                  /\ IsSold(i)' <=> IsSold(i)
    BY <1>1 DEF Inserted, LeavesOn, ComesBackOn, NotMovedBy, Leaves, Returns
  <2> QED
    BY <1>1, <2>1, InsertAccounts DEF Inserted, SerialInv, FreshInv, SalesInv
<1>2. CASE LinesStay /\ SoldStay
  BY <1>2, SameLinesAccount DEF LinesStay, SoldStay
<1> QED
  BY <1>1, <1>2, SerialMoves DEF Inserting

\* One request at a time, the bills account for every item with trades and
\* statuses set by hand, too.
THEOREM LinesMatchStatusSerially ==
  ASSUME OneAtATime, NoMeltingByHand PROVE Spec => []LinesMatchStatus
<1>1. Init => SerialInv /\ LinesMatchStatus /\ FinitelyOften
  BY SerialInit, AccountInit DEF AccountInv
<1>2. SerialInv /\ LinesMatchStatus /\ FinitelyOften /\ [Next]_vars =>
        (SerialInv /\ LinesMatchStatus /\ FinitelyOften)'
  BY SerialStep, SerialAccounts
<1> QED
  BY <1>1, <1>2, PTL DEF Spec

\* An item stops being SOLD by a bill that brings it in.
THEOREM SoldOnlyLeavesByReturnHolds ==
  ASSUME OneAtATime, NoMeltingByHand PROVE Spec => SoldOnlyLeavesByReturn
<1>1. SerialInv /\ [Next]_vars =>
        [\A i \in Items : IsSold(i) /\ item'[i] # "SOLD" =>
           \E b \in Bills : IsNew(b) /\ i \in bill'[b].in]_vars
  <2>. SUFFICES ASSUME SerialInv, [Next]_vars, NEW i \in Items,
                       IsSold(i), item'[i] # "SOLD"
                PROVE  \E b \in Bills : IsNew(b) /\ i \in bill'[b].in
    OBVIOUS
  <2>0. IsSold(i) /\ ~IsSold(i)'
    BY DEF IsSold
  <2>a. PICK b \in Bills : \E row : Inserted(b, row)
    BY <2>0, SerialMoves DEF SoldStay, Inserting
  <2>1. PICK row : Inserted(b, row)
    BY <2>a
  <2>2. i \in row.in /\ IsNew(b) /\ bill'[b] = row
    BY <2>0, <2>1 DEF Inserted, LeavesOn, ComesBackOn, NotMovedBy, SerialInv,
       FreshInv, SalesInv, TypeOK
  <2>. QED
    BY <2>2
<1>. QED
  BY <1>1, SerialInvHolds, PTL DEF Spec, SoldOnlyLeavesByReturn

-----------------------------------------------------------------------------
(* The reports, from the invariant of one request at a time.               *)

\* The net grams of the gold ledger are those of its items.
LEMMA NetOutByItem ==
  ASSUME TypeOK, NEW S \in SUBSET Items, NEW n,
         \A i \in Items : n[i] = NetGram(i)
  PROVE  NetOut(S) = SumFunctionOnSet(n, S)
<1>1. PICK P, f, F : /\ P = Bills \X S
                     /\ f = [l \in Bills \X Items |-> Gram(l)]
                     /\ F = [l \in Bills \X Items |-> LineGram(l)]
  OBVIOUS
<1>2. PICK sold, back : sold = SellLines(S) /\ back = ReturnLines(S)
  OBVIOUS
<1>3. PICK a, c : /\ a = [l \in P |-> IF l \in sold THEN f[l] ELSE 0]
                  /\ c = [l \in P |-> IF l \in back THEN -f[l] ELSE 0]
  OBVIOUS
<1>4. /\ IsFiniteSet(S) /\ IsFiniteSet(P) /\ P \subseteq Bills \X Items
      /\ sold \in SUBSET P /\ back \in SUBSET P /\ sold \cap back = {}
      /\ IsFiniteSet(sold) /\ IsFiniteSet(back)
  <2>1. IsFiniteSet(S)
    BY FS_Subset, LedgerAssumption
  <2>2. IsFiniteSet(P) /\ P \subseteq Bills \X Items
    BY <1>1, <2>1, FS_Product, LedgerAssumption
  <2>3. /\ sold \in SUBSET P /\ back \in SUBSET P
        /\ \A l \in sold : bill[l[1]].kind = "SELL"
        /\ \A l \in back : bill[l[1]].kind = "RETURN"
    BY <1>1, <1>2 DEF SellLines, ReturnLines, BillsOf
  <2>. QED
    BY <2>1, <2>2, <2>3, FS_Subset
<1>5. \A l \in P : f[l] \in Int
  <2>. SUFFICES ASSUME NEW l \in P PROVE f[l] \in Int
    OBVIOUS
  <2>1. l[1] \in Bills /\ l[2] \in Items /\ l \in Bills \X Items
    BY <1>1, <1>4
  <2>2. bill[l[1]].weight \in [Items -> Nat]
    BY <2>1 DEF TypeOK, BillRow
  <2>. QED
    BY <1>1, <2>1, <2>2 DEF Gram
<1>6. \A l \in P : F[l] = a[l] + c[l] /\ a[l] \in Int /\ c[l] \in Int /\ F[l] \in Int
  <2>. SUFFICES ASSUME NEW l \in P
                PROVE F[l] = a[l] + c[l] /\ a[l] \in Int /\ c[l] \in Int /\ F[l] \in Int
    OBVIOUS
  <2>1. /\ l \in SellLines(Items) <=> l \in sold
        /\ l \in ReturnLines(Items) <=> l \in back
    BY <1>1, <1>2, <1>4 DEF SellLines, ReturnLines
  <2>2. F[l] = IF l \in sold THEN f[l] ELSE IF l \in back THEN -f[l] ELSE 0
    BY <1>1, <1>4, <2>1 DEF LineGram
  <2>. QED
    BY <1>3, <1>4, <1>5, <2>2
<1>7. SumFunctionOnSet(F, P) = SumFunctionOnSet(a, P) + SumFunctionOnSet(c, P)
  BY <1>4, <1>6, SumAdd
<1>8. SumFunctionOnSet(a, P) = SumFunctionOnSet(f, sold)
  <2>1. SumFunctionOnSet(a, P) = SumFunctionOnSet(a, sold)
    BY <1>3, <1>4, <1>6, SumSupport
  <2>2. \A l \in sold : a[l] = f[l]
    BY <1>3, <1>4
  <2>. QED
    BY <1>4, <2>1, <2>2, SumSame
<1>9. /\ SumFunctionOnSet(f, back) \in Int
      /\ SumFunctionOnSet(c, P) = (-1) * SumFunctionOnSet(f, back)
  <2>1. SumFunctionOnSet(c, P) = SumFunctionOnSet(c, back)
    BY <1>3, <1>4, <1>6, SumSupport
  <2>2. \A l \in back : f[l] \in Int /\ c[l] = (-1) * f[l]
    BY <1>3, <1>4, <1>5
  <2>3. SumFunctionOnSet(c, back) = (-1) * SumFunctionOnSet(f, back)
    BY <1>4, <2>2, SumScale
  <2>. QED
    BY <1>4, <2>1, <2>2, <2>3, SumInt
<1>10. SumFunctionOnSet(f, sold) \in Int
  BY <1>4, <1>5, SumInt
<1>11. SumFunctionOnSet(n, S) = SumFunctionOnSet(F, P)
  <2>1. PICK h : h = [l \in Bills \X Items |-> l[2]]
    OBVIOUS
  <2>2. \A l \in P : F[l] \in Int /\ h[l] \in S
    BY <1>1, <1>4, <1>6, <2>1
  <2>3. \A i \in S : GroupOf(h, P, i) = Bills \X {i}
    BY <1>1, <1>4, <2>1 DEF GroupOf
  <2>4. \A i \in S : n[i] = SumFunctionOnSet(F, GroupOf(h, P, i))
    BY <1>1, <2>3 DEF NetGram
  <2>5. IsFiniteSet(P) /\ IsFiniteSet(S)
    BY <1>4
  <2>. QED
    BY <2>2, <2>4, <2>5, SumGroups
<1>12. NetOut(S) = SumFunctionOnSet(f, sold) - SumFunctionOnSet(f, back)
  BY <1>1, <1>2 DEF NetOut, SaleOut, ReturnIn, SumOfGrams
<1>. QED
  BY <1>7, <1>8, <1>9, <1>10, <1>11, <1>12

LEMMA SerialLedgerNets == SerialInv => LedgerNets
<1>. SUFFICES ASSUME SerialInv, NEW S \in SUBSET NeverExchanged
     PROVE  NetOut(S) + StockWeight(S) =
              SumFunctionOnSet(weight, {i \in S : IsSold(i) \/ item[i] = "IN_STOCK"})
  BY DEF LedgerNets
<1>1. PICK n, out, in, all :
        /\ n = [i \in Items |-> NetGram(i)]
        /\ out = {i \in S : IsSold(i)} /\ in = {i \in S : item[i] = "IN_STOCK"}
        /\ all = {i \in S : IsSold(i) \/ item[i] = "IN_STOCK"}
  OBVIOUS
<1>2. /\ S \in SUBSET Items /\ TypeOK /\ ItemsBilled
      /\ \A i \in Items : weight[i] \in Int
  BY DEF NeverExchanged, SerialInv, FreshInv, SalesInv, TypeOK
<1>3. /\ IsFiniteSet(S) /\ out \in SUBSET S /\ in \in SUBSET S
      /\ IsFiniteSet(out) /\ IsFiniteSet(in)
      /\ out \cap in = {} /\ out \union in = all
  <2>1. IsFiniteSet(S)
    BY <1>2, FS_Subset, LedgerAssumption
  <2>2. out \in SUBSET S /\ in \in SUBSET S /\ out \cap in = {} /\ out \union in = all
    BY <1>1 DEF IsSold
  <2>. QED
    BY <2>1, <2>2, FS_Subset
<1>4. \A i \in S : n[i] = IF i \in out THEN weight[i] ELSE 0
  BY <1>1, <1>2 DEF ItemsBilled
<1>5. NetOut(S) = SumFunctionOnSet(weight, out)
  <2>0. \A i \in Items : n[i] = NetGram(i)
    BY <1>1
  <2>1. NetOut(S) = SumFunctionOnSet(n, S)
    BY <1>2, <2>0, NetOutByItem
  <2>2. \A i \in S : n[i] \in Int
    BY <1>2, <1>4
  <2>3. SumFunctionOnSet(n, S) = SumFunctionOnSet(n, out)
    BY <1>3, <1>4, <2>2, SumSupport
  <2>4. SumFunctionOnSet(n, out) = SumFunctionOnSet(weight, out)
    BY <1>3, <1>4, SumSame
  <2>. QED
    BY <2>1, <2>3, <2>4
<1>6. StockWeight(S) = SumFunctionOnSet(weight, in)
  BY <1>1 DEF StockWeight
<1>7. SumFunctionOnSet(weight, out \union in) =
        SumFunctionOnSet(weight, out) + SumFunctionOnSet(weight, in)
  BY <1>2, <1>3, SumUnion
<1>. QED
  BY <1>1, <1>3, <1>5, <1>6, <1>7

\* Paid and owed add up to the totals, bill by bill and so in all.
LEMMA TotalsAddUp ==
  ASSUME SalesInv
  PROVE  TotalPaid + TotalBalance =
           TotalPurchases + TotalReturned
             + SumOfTotals(BillsOf("EXCHANGE") \union BillsOf("BUY_BACK"))
<1>1. PICK paid, balance, total :
        /\ paid = [b \in Bills |-> bill[b].paid]
        /\ balance = [b \in Bills |-> bill[b].balance]
        /\ total = [b \in Bills |-> bill[b].total]
  OBVIOUS
<1>2. PICK sell, return, rest, known :
        /\ sell = BillsOf("SELL") /\ return = BillsOf("RETURN")
        /\ rest = BillsOf("EXCHANGE") \union BillsOf("BUY_BACK")
        /\ known = (sell \union return) \union rest
  OBVIOUS
<1>3. /\ \A b \in Bills : /\ paid[b] \in Int /\ balance[b] \in Int /\ total[b] \in Int
                          /\ total[b] = paid[b] + balance[b]
  <2>. SUFFICES ASSUME NEW b \in Bills
                PROVE  /\ paid[b] \in Int /\ balance[b] \in Int /\ total[b] \in Int
                       /\ total[b] = paid[b] + balance[b]
    OBVIOUS
  <2>1. bill[b] \in BillRow /\ bill[b].balance = bill[b].total - bill[b].paid
    BY DEF SalesInv, TypeOK, Balances
  <2>2. bill[b].paid \in Int /\ bill[b].balance \in Int /\ bill[b].total \in Int
    BY <2>1 DEF BillRow
  <2>. QED
    BY <1>1, <2>1, <2>2
<1>4. SumFunctionOnSet(total, Bills) =
        SumFunctionOnSet(paid, Bills) + SumFunctionOnSet(balance, Bills)
  BY <1>3, SumAdd, LedgerAssumption
<1>5. /\ known \in SUBSET Bills /\ sell \subseteq Bills /\ return \subseteq Bills
      /\ rest \subseteq Bills /\ sell \cap return = {}
      /\ (sell \union return) \cap rest = {}
  BY <1>2 DEF BillsOf
<1>6. \A b \in Bills \ known : total[b] = 0
  <2>. SUFFICES ASSUME NEW b \in Bills \ known PROVE total[b] = 0
    OBVIOUS
  <2>1. bill[b].kind \in {"NONE", "SELL", "RETURN", "EXCHANGE", "BUY_BACK"}
    BY DEF SalesInv, TypeOK, BillRow
  <2>2. IsNew(b)
    BY <1>2, <2>1 DEF BillsOf, IsNew
  <2>. QED
    BY <1>1, <2>2 DEF SalesInv, NewBills, NoBill
<1>7. IsFiniteSet(sell) /\ IsFiniteSet(return) /\ IsFiniteSet(rest)
      /\ IsFiniteSet(sell \union return)
  BY <1>5, FS_Subset, LedgerAssumption
<1>8. SumFunctionOnSet(total, Bills) = SumFunctionOnSet(total, known)
  BY <1>3, <1>5, <1>6, SumSupport, LedgerAssumption
<1>9. SumFunctionOnSet(total, sell \union return) =
        SumFunctionOnSet(total, sell) + SumFunctionOnSet(total, return)
  <2>1. \A b \in sell \union return : total[b] \in Int
    BY <1>3, <1>5
  <2>. QED
    BY <2>1, <1>5, <1>7, SumUnion
<1>10. SumFunctionOnSet(total, (sell \union return) \union rest) =
        SumFunctionOnSet(total, sell \union return) + SumFunctionOnSet(total, rest)
  <2>1. \A b \in (sell \union return) \union rest : total[b] \in Int
    BY <1>3, <1>5
  <2>. QED
    BY <2>1, <1>5, <1>7, SumUnion
<1>. QED
  BY <1>1, <1>2, <1>4, <1>8, <1>9, <1>10
     DEF TotalPaid, TotalBalance, TotalPurchases, TotalReturned, SumOfTotals

\* What a bill may be paid at the counter stands while other bills are made.
LEMMA CounterInserts ==
  ASSUME CounterLimits, TypeOK, NEW b \in Bills, NEW row, AtCounter(row),
         bill' = [bill EXCEPT ![b] = row]
  PROVE  CounterLimits'
<1>1. ASSUME NEW c \in Bills PROVE bill'[c] = bill[c] \/ bill'[c] = row
  BY DEF TypeOK
<1>. QED
  BY <1>1 DEF CounterLimits, AtCounter

\* A payment leaves a bill paid up to its total, no more.
LEMMA CounterPays ==
  ASSUME CounterLimits, SalesInv, NEW r \in Requests, CommitPay(r)
  PROVE  CounterLimits'
<1>1. PICK b, paid : b = req[r].bill /\ paid = req[r].paid + req[r].amount
  OBVIOUS
<1>2. /\ b \in Bills /\ bill[b] \in BillRow
      /\ paid \in Int /\ paid <= bill[b].total /\ bill \in [Bills -> BillRow]
  BY <1>1, PaymentFits DEF CommitPay, SalesInv, TypeOK
<1>3. PICK row : /\ bill' = [bill EXCEPT ![b] = row]
                 /\ row.kind = bill[b].kind /\ row.total = bill[b].total
                 /\ row.paid = paid
  <2>. DEFINE row == [bill[b] EXCEPT !.paid = paid,
                        !.balance = bill[b].total - paid,
                        !.received = bill[b].received + req[r].amount]
  <2>1. bill' = [bill EXCEPT ![b] = row]
    BY <1>1, <1>2 DEF CommitPay
  <2>2. row.kind = bill[b].kind /\ row.total = bill[b].total /\ row.paid = paid
    BY <1>2 DEF BillRow
  <2>. HIDE DEF row
  <2>. QED
    BY <2>1, <2>2
<1>4. AtCounter(row)
  <2>1. bill[b].total \in Int
    BY <1>2 DEF BillRow
  <2>2. AtCounter(bill[b])
    BY <1>2 DEF CounterLimits
  <2>. QED
    BY <1>2, <1>3, <2>1, <2>2 DEF AtCounter
<1>. QED
  BY <1>2, <1>3, <1>4, CounterInserts DEF SalesInv

LEMMA CounterStep ==
  ASSUME CounterLimits, SalesInv, [Next]_vars PROVE CounterLimits'
<1>0. TypeOK
  BY DEF SalesInv
<1>1. ASSUME UNCHANGED bill PROVE CounterLimits'
  BY <1>1 DEF CounterLimits
<1>2. ASSUME NEW r \in Requests, Requesting(r) \/ Abort(r) PROVE UNCHANGED bill
  BY <1>2 DEF Requesting, RequestSell, RequestReturn, RequestExchange,
     RequestPay, RequestStatus, RequestEdit, RequestTrade, Abort, Tables
<1>3. ASSUME NEW r \in Requests, NEW b \in Bills, NEW total \in Totals,
             NEW amount \in Amounts, CommitSell(r, b, total, amount)
      PROVE  CounterLimits'
  <2>. DEFINE row ==
        [kind |-> "SELL", of |-> {}, out |-> req[r].out, in |-> {},
         weight |-> req[r].weight, total |-> total, paid |-> amount,
         balance |-> total - amount, received |-> amount]
  <2>1. bill' = [bill EXCEPT ![b] = row] /\ amount <= 2 * total
    BY <1>3 DEF CommitSell
  <2>2. AtCounter(row)
    BY <2>1, SalesAssumption DEF AtCounter
  <2>. HIDE DEF row
  <2>. QED
    BY <1>0, <2>1, <2>2, CounterInserts
<1>4. ASSUME NEW r \in Requests, NEW b \in Bills, NEW refund \in Totals,
             CommitReturn(r, b, refund)
      PROVE  CounterLimits'
  <2>. DEFINE row ==
        [kind |-> "RETURN", of |-> {req[r].of}, out |-> {}, in |-> req[r].in,
         weight |-> req[r].weight, total |-> refund, paid |-> refund,
         balance |-> 0, received |-> refund]
  <2>1. bill' = [bill EXCEPT ![b] = row]
    BY <1>4 DEF CommitReturn
  <2>2. AtCounter(row)
    BY SalesAssumption DEF AtCounter
  <2>. HIDE DEF row
  <2>. QED
    BY <1>0, <2>1, <2>2, CounterInserts
<1>5. ASSUME NEW r \in Requests, NEW b \in Bills, NEW difference \in Differences,
             NEW amount \in Amounts, CommitExchange(r, b, difference, amount)
      PROVE  CounterLimits'
  <2>. DEFINE read ==
        [i \in Items |-> IF i \in req[r].in THEN weight[i] ELSE req[r].weight[i]]
              row ==
        [kind |-> "EXCHANGE", of |-> {}, out |-> req[r].out, in |-> req[r].in,
         weight |-> LineWeights(req[r].out, read), total |-> difference,
         paid |-> amount, balance |-> difference - amount, received |-> amount]
  <2>1. bill' = [bill EXCEPT ![b] = row]
    BY <1>5 DEF CommitExchange
  <2>2. AtCounter(row)
    BY DEF AtCounter
  <2>. HIDE DEF row
  <2>. QED
    BY <1>0, <2>1, <2>2, CounterInserts
<1>6. ASSUME NEW r \in Requests, CommitStatus(r) \/ CommitEdit(r) \/ CommitTrade(r)
      PROVE  UNCHANGED bill
  BY <1>6 DEF CommitStatus, CommitEdit, CommitTrade
<1>7. ASSUME NEW b \in Bills, NEW i \in Items, NEW total \in Totals,
             NEW amount \in Amounts, BuyIn(b, i, total, amount)
      PROVE  CounterLimits'
  <2>. DEFINE row ==
        [kind |-> "BUY_BACK", of |-> {}, out |-> {}, in |-> {i},
         weight |-> LineWeights({i}, weight), total |-> total,
         paid |-> amount, balance |-> total - amount, received |-> amount]
  <2>1. bill' = [bill EXCEPT ![b] = row]
    BY <1>7 DEF BuyIn
  <2>2. AtCounter(row)
    BY DEF AtCounter
  <2>. HIDE DEF row
  <2>. QED
    BY <1>0, <2>1, <2>2, CounterInserts
<1>8. ASSUME NEW i, EnterStock(i) \/ Melt(i) \/ Remake(i) \/ CreateTrade(i)
      PROVE  UNCHANGED bill
  BY <1>8 DEF EnterStock, Melt, Remake, CreateTrade
<1>9. CASE UNCHANGED vars
  BY <1>1, <1>9 DEF vars
<1>. QED
  BY <1>1, <1>2, <1>3, <1>4, <1>5, <1>6, <1>7, <1>8, <1>9, CounterPays
     DEF Next, Committing, AtOnce

\* In every interleaving, a sale is paid at most twice its total and a return
\* never beyond it.
THEOREM CounterLimitsHold == Spec => []CounterLimits
<1>1. Init => CounterLimits
  BY DEF Init, CounterLimits, AtCounter, NoBill
<1>. QED
  BY <1>1, CounterStep, SalesInvHolds, PTL DEF Spec

LEMMA SerialReports == SerialInv /\ CounterLimits => ReportsAreExplained
<1>. SUFFICES ASSUME SerialInv, CounterLimits PROVE ReportsAreExplained
  OBVIOUS
<1>0. /\ SalesInv /\ SoldAsWeighed /\ ItemsBilled
      /\ \A b \in BillsOf("SELL") : bill[b].in = {}
  BY DEF SerialInv, FreshInv
<1>1. ASSUME NEW i \in InStockOnSell PROVE BackOn(i) # {}
  <2>1. PICK b \in BillsOf("SELL") : i \in bill[b].out \union bill[b].in
    BY <1>1 DEF InStockOnSell, OnLines
  <2>2. b \in SoldOn(i) /\ i \in Items /\ ~IsSold(i)
    BY <1>0, <1>1, <2>1 DEF BillsOf, SoldOn, InStockOnSell, IsSold
  <2>. QED
    BY <1>0, <2>2 DEF ItemsBilled
<1>2. OrphanedSold = {}
  BY <1>0 DEF OrphanedSold, SoldAsWeighed, SoldOn, OnLines
<1>3. ASSUME NEW b \in Bills
      PROVE  /\ bill[b].total \in Int /\ bill[b].paid \in Int
             /\ bill[b].balance = bill[b].total - bill[b].paid
             /\ AtCounter(bill[b])
  BY <1>0 DEF SalesInv, TypeOK, BillRow, Balances, CounterLimits
<1>4. OverpaidBills = {b \in Bills : bill[b].balance < -1}
  <2>1. \A b \in Bills :
          (bill[b].total < bill[b].paid - 1) <=> (bill[b].balance < -1)
    BY <1>3
  <2>. QED
    BY <2>1 DEF OverpaidBills
<1>5. ASSUME NEW b \in OverpaidBills
      PROVE  /\ bill[b].kind # "RETURN"
             /\ bill[b].kind = "SELL" => bill[b].paid <= 2 * bill[b].total
  BY <1>3, <1>5 DEF OverpaidBills, AtCounter
<1>. QED
  BY <1>0, <1>1, <1>2, <1>4, <1>5, TotalsAddUp DEF ReportsAreExplained

\* The gold ledger and the stock summary balance.
THEOREM LedgerNetsHolds ==
  ASSUME OneAtATime, NoMeltingByHand PROVE Spec => []LedgerNets
BY SerialLedgerNets, SerialInvHolds, PTL

\* What three of the nightly checks report can be explained, and the customer's
\* totals are those of all bills.
THEOREM ReportsAreExplainedHolds ==
  ASSUME OneAtATime, NoMeltingByHand PROVE Spec => []ReportsAreExplained
BY SerialReports, CounterLimitsHold, SerialInvHolds, PTL

-----------------------------------------------------------------------------
(* The refinement of ItemCustody.                                          *)

\* What custody and ledger stand for.
ItemMap == [i \in Items |-> CustodyOf(item[i])]
BillMap == [b \in Bills |-> [in |-> bill[b].in, out |-> bill[b].out]]

\* An item the shop has.
Held(i) == item[i] \notin {"NONE", "SOLD"}

LEMMA CustodyValues ==
  ASSUME TypeOK
  PROVE  \A i \in Items :
           /\ CustodyOf(item[i]) = "outside" <=> ~Entered(i)
           /\ CustodyOf(item[i]) = "customer" <=> IsSold(i)
           /\ CustodyOf(item[i]) = "shelf" <=> ForSale(i)
           /\ Held(i) => CustodyOf(item[i]) \in {"shelf", "aside"}
BY DEF CustodyOf, Entered, IsSold, ForSale, Held, TypeOK, Settable

\* An inserted row was blank.
LEMMA BillMapInserts ==
  ASSUME SalesInv, NEW b \in Bills, IsNew(b), NEW row,
         bill' = [bill EXCEPT ![b] = row]
  PROVE  /\ BillMap[b] = Custody!Blank
         /\ BillMap' = [BillMap EXCEPT ![b] = [in |-> row.in, out |-> row.out]]
<1>1. /\ bill[b].out = {} /\ bill[b].in = {}
      /\ bill'[b] = row /\ \A c \in Bills \ {b} : bill'[c] = bill[c]
  BY DEF SalesInv, TypeOK, NewBills, NoBill
<1> QED
  BY <1>1 DEF BillMap, Custody!Blank

LEMMA BillMapStays ==
  ASSUME \A b \in Bills : bill'[b].out = bill[b].out /\ bill'[b].in = bill[b].in
  PROVE  BillMap' = BillMap
BY DEF BillMap

\* Setting a status places the items.
LEMMA ItemMapSet ==
  ASSUME NEW S \in SUBSET Items, NEW to, item' = SetStatus(S, to)
  PROVE  ItemMap' = Custody!Place(S, CustodyOf(to))
BY DEF ItemMap, SetStatus, Custody!Place

\* A step that leaves items and lines alone is no step of ItemCustody.
LEMMA CustodyStays ==
  ASSUME UNCHANGED item,
         \A b \in Bills : bill'[b].out = bill[b].out /\ bill'[b].in = bill[b].in
  PROVE  UNCHANGED Custody!custodyVars
BY BillMapStays DEF Custody!custodyVars, BillMap

\* Setting a status of items the shop has handles them.
LEMMA HandledInShop ==
  ASSUME TypeOK, UNCHANGED bill, NEW S \in SUBSET Items, NEW to \in Settable,
         item' = SetStatus(S, to), \A i \in S : Held(i)
  PROVE  Custody!Next
<1>1. CustodyOf(to) \in {"shelf", "aside"}
  BY DEF CustodyOf, Settable
<1>2. /\ \A i \in S : ItemMap[i] \in {"shelf", "aside"}
      /\ ItemMap' = Custody!Place(S, CustodyOf(to)) /\ BillMap' = BillMap
  BY CustodyValues, ItemMapSet, BillMapStays DEF ItemMap
<1>3. Custody!Handle(S, CustodyOf(to))
  BY <1>2 DEF Custody!Handle, ItemMap, BillMap
<1> QED
  BY <1>1, <1>3 DEF Custody!Next

\* Items that were outside are entered.
LEMMA EnteredFromOutside ==
  ASSUME TypeOK, UNCHANGED bill, NEW S \in SUBSET Items,
         item' = SetStatus(S, "IN_STOCK"), \A i \in S : ~Entered(i)
  PROVE  Custody!Next
<1>1. CustodyOf("IN_STOCK") = "shelf"
  BY DEF CustodyOf
<1>2. /\ \A i \in S : ItemMap[i] = "outside"
      /\ ItemMap' = Custody!Place(S, "shelf") /\ BillMap' = BillMap
  BY <1>1, CustodyValues, ItemMapSet, BillMapStays DEF ItemMap
<1>3. Custody!Enter(S)
  BY <1>2 DEF Custody!Enter, ItemMap, BillMap
<1> QED
  BY <1>3 DEF Custody!Next

\* A bill that takes back what is SOLD and sells what is for sale, with its
\* conditional updates.
LEMMA SettledInOneStep ==
  ASSUME SalesInv, NEW b \in Bills, IsNew(b),
         NEW back \in SUBSET Items, NEW out \in SUBSET Items, NEW row,
         row.in = back, row.out = out, bill' = [bill EXCEPT ![b] = row],
         \A i \in back : IsSold(i), \A i \in out \ back : ForSale(i),
         item' = [i \in Items |-> IF i \in out THEN "SOLD"
                                  ELSE IF i \in back THEN "IN_STOCK"
                                  ELSE item[i]]
  PROVE  Custody!Next
<1>0. TypeOK
  BY DEF SalesInv
<1>1. CustodyOf("IN_STOCK") = "shelf" /\ CustodyOf("SOLD") = "customer"
  BY DEF CustodyOf
<1>2. /\ \A i \in back : ItemMap[i] = "customer"
      /\ \A i \in out \ back : ItemMap[i] = "shelf"
  BY <1>0, CustodyValues DEF ItemMap
<1>3. ItemMap' = [i \in Items |-> IF i \in out THEN "customer"
                                  ELSE IF i \in back THEN "shelf"
                                  ELSE ItemMap[i]]
  BY <1>1 DEF ItemMap
<1>4. /\ BillMap[b] = Custody!Blank
      /\ BillMap' = [BillMap EXCEPT ![b] = [in |-> back, out |-> out]]
  BY BillMapInserts
<1>5. Custody!Settle(b, back, out)
  BY <1>2, <1>3, <1>4 DEF Custody!Settle, ItemMap, BillMap
<1> QED
  BY <1>5 DEF Custody!Next

\* createBuyback and createOldGold.
LEMMA BoughtInOneStep ==
  ASSUME SalesInv, NEW b \in Bills, NEW i \in Items, NEW total, NEW amount,
         BuyIn(b, i, total, amount)
  PROVE  Custody!Next
<1>1. PICK row : row =
        [kind |-> "BUY_BACK", of |-> {}, out |-> {}, in |-> {i},
         weight |-> LineWeights({i}, weight), total |-> total,
         paid |-> amount, balance |-> total - amount, received |-> amount]
  OBVIOUS
<1>2. /\ row.in = {i} /\ row.out = {} /\ IsNew(b)
      /\ bill' = [bill EXCEPT ![b] = row]
      /\ item' = SetStatus({i}, "IN_STOCK") /\ ~Entered(i)
  BY <1>1 DEF BuyIn
<1>3. CustodyOf("IN_STOCK") = "shelf" /\ ItemMap[i] = "outside"
  BY <1>2, CustodyValues DEF CustodyOf, ItemMap, SalesInv
<1>4. /\ BillMap[b] = Custody!Blank
      /\ BillMap' = [BillMap EXCEPT ![b] = [in |-> {i}, out |-> {}]]
  BY <1>2, BillMapInserts
<1>5. ItemMap' = Custody!Place({i}, "shelf")
  BY <1>2, <1>3, ItemMapSet
<1>6. Custody!Purchase(b, i)
  BY <1>3, <1>4, <1>5 DEF Custody!Purchase, ItemMap, BillMap
<1> QED
  BY <1>6 DEF Custody!Next

\* Every step is one of ItemCustody if what is set by hand, scrapped with a
\* trade or remade is in the shop.
LEMMA CustodyStep ==
  ASSUME SalesInv, [Next]_vars,
         \A r \in Requests :
           /\ req[r].op = "status" => Held(req[r].item)
           /\ req[r].op = "trade" => \A i \in req[r].inStock : Held(i),
         \A i \in melting : Held(i)
  PROVE  [Custody!Next]_(Custody!custodyVars)
<1>0. TypeOK
  BY DEF SalesInv
<1>1. ASSUME UNCHANGED <<item, bill>>
      PROVE  UNCHANGED Custody!custodyVars
  BY <1>1, CustodyStays
<1>2. ASSUME NEW r \in Requests, Requesting(r) \/ Abort(r)
      PROVE  UNCHANGED Custody!custodyVars
  BY <1>1, <1>2 DEF Requesting, RequestSell, RequestReturn, RequestExchange,
     RequestPay, RequestStatus, RequestEdit, RequestTrade, Abort, Tables
<1>3. ASSUME NEW r \in Requests, Committing(r)
      PROVE  [Custody!Next]_(Custody!custodyVars)
  <2>0. req[r] \in Request
    BY <1>0 DEF TypeOK
  <2>1. ASSUME NEW b \in Bills, NEW total, NEW amount,
               CommitSell(r, b, total, amount)
        PROVE  Custody!Next
    <3>1. PICK row : row =
            [kind |-> "SELL", of |-> {}, out |-> req[r].out, in |-> {},
             weight |-> req[r].weight, total |-> total, paid |-> amount,
             balance |-> total - amount, received |-> amount]
      OBVIOUS
    <3>2. /\ row.in = {} /\ row.out = req[r].out /\ IsNew(b)
          /\ bill' = [bill EXCEPT ![b] = row]
          /\ \A i \in req[r].out : ForSale(i)
          /\ item' = SetStatus(req[r].out, "SOLD")
          /\ req[r].out \in SUBSET Items
      BY <2>0, <2>1, <3>1, RequestTypes DEF CommitSell, SellRequest
    <3>3. item' = [i \in Items |-> IF i \in req[r].out THEN "SOLD"
                                   ELSE IF i \in {} THEN "IN_STOCK"
                                   ELSE item[i]]
      BY <3>2 DEF SetStatus
    <3> QED
      BY <3>2, <3>3, SettledInOneStep
  <2>2. ASSUME NEW b \in Bills, NEW refund, CommitReturn(r, b, refund)
        PROVE  Custody!Next
    <3>1. PICK row : row =
            [kind |-> "RETURN", of |-> {req[r].of}, out |-> {},
             in |-> req[r].in, weight |-> req[r].weight, total |-> refund,
             paid |-> refund, balance |-> 0, received |-> refund]
      OBVIOUS
    <3>2. /\ row.in = req[r].in /\ row.out = {} /\ IsNew(b)
          /\ bill' = [bill EXCEPT ![b] = row]
          /\ \A i \in req[r].in : IsSold(i)
          /\ item' = SetStatus(req[r].in, "IN_STOCK")
          /\ req[r].in \in SUBSET Items
      BY <2>0, <2>2, <3>1, RequestTypes DEF CommitReturn, BackFrom, ReturnRequest
    <3>3. item' = [i \in Items |-> IF i \in {} THEN "SOLD"
                                   ELSE IF i \in req[r].in THEN "IN_STOCK"
                                   ELSE item[i]]
      BY <3>2 DEF SetStatus
    <3>4. {} \in SUBSET Items /\ \A i \in {} \ req[r].in : ForSale(i)
      OBVIOUS
    <3> QED
      BY <3>2, <3>3, <3>4, SettledInOneStep
  <2>3. ASSUME NEW b \in Bills, NEW difference, NEW amount,
               CommitExchange(r, b, difference, amount)
        PROVE  Custody!Next
    <3>1. PICK lines : lines =
            LineWeights(req[r].out,
              [i \in Items |-> IF i \in req[r].in THEN weight[i]
                               ELSE req[r].weight[i]])
      OBVIOUS
    <3>2. PICK row : row =
            [kind |-> "EXCHANGE", of |-> {}, out |-> req[r].out,
             in |-> req[r].in, weight |-> lines, total |-> difference,
             paid |-> amount, balance |-> difference - amount,
             received |-> amount]
      OBVIOUS
    <3>3. /\ row.in = req[r].in /\ row.out = req[r].out /\ IsNew(b)
          /\ bill' = [bill EXCEPT ![b] = row]
          /\ \A i \in req[r].in : IsSold(i)
          /\ \A i \in req[r].out \ req[r].in : ForSale(i)
          /\ item' = [i \in Items |-> IF i \in req[r].out THEN "SOLD"
                                      ELSE IF i \in req[r].in THEN "IN_STOCK"
                                      ELSE item[i]]
      BY <2>3, <3>1, <3>2 DEF CommitExchange, BackFrom
    <3>4. req[r].in \in SUBSET Items /\ req[r].out \in SUBSET Items
      BY <2>0, <2>3, RequestTypes DEF CommitExchange, ExchangeRequest
    <3> QED
      BY <3>3, <3>4, SettledInOneStep
  <2>4. ASSUME CommitPay(r)
        PROVE  UNCHANGED Custody!custodyVars
    <3>1. \A b \in Bills : bill'[b].out = bill[b].out /\ bill'[b].in = bill[b].in
      BY <2>4, PaymentFits DEF CommitPay, SalesInv, TypeOK, BillRow
    <3> QED
      BY <2>4, <3>1, CustodyStays DEF CommitPay
  <2>5. ASSUME CommitStatus(r)
        PROVE  Custody!Next
    <3>1. /\ req[r].item \in Items /\ req[r].to \in Settable
          /\ Held(req[r].item) /\ UNCHANGED bill
          /\ item' = [item EXCEPT ![req[r].item] = req[r].to]
      BY <2>0, <2>5, RequestTypes, SalesAssumption
         DEF CommitStatus, StatusRequest
    <3>2. item' = SetStatus({req[r].item}, req[r].to)
      BY <1>0, <3>1 DEF SetStatus, TypeOK
    <3>3. /\ {req[r].item} \in SUBSET Items
          /\ \A i \in {req[r].item} : Held(i)
      BY <3>1
    <3> QED
      BY <1>0, <3>1, <3>2, <3>3, HandledInShop
  <2>6. CASE CommitEdit(r)
    BY <1>1, <2>6 DEF CommitEdit
  <2>7. ASSUME CommitTrade(r)
        PROVE  [Custody!Next]_(Custody!custodyVars)
    <3>1. /\ req[r].inStock \in SUBSET Items /\ \A i \in req[r].inStock : Held(i)
          /\ "SCRAPPED" \in Settable /\ UNCHANGED bill
      BY <2>0, <2>7, RequestTypes DEF CommitTrade, TradeRequest, Settable
    <3>2. item' = item \/ item' = SetStatus(req[r].inStock, "SCRAPPED")
      BY <2>7 DEF CommitTrade
    <3> QED
      BY <1>0, <1>1, <3>1, <3>2, HandledInShop
  <2> QED
    BY <1>3, <2>1, <2>2, <2>3, <2>4, <2>5, <2>6, <2>7 DEF Committing
<1>4. ASSUME NEW S \in SUBSET Items, EnterStock(S)
      PROVE  Custody!Next
  BY <1>0, <1>4, EnteredFromOutside DEF EnterStock
<1>5. ASSUME NEW t \in Trades, CreateTrade(t)
      PROVE  Custody!Next
  BY <1>0, <1>5, EnteredFromOutside, SalesAssumption DEF CreateTrade
<1>6. ASSUME NEW i \in Items, Melt(i) \/ Remake(i)
      PROVE  Custody!Next
  <2>1. /\ \A j \in {i} : Held(j)
        /\ UNCHANGED bill /\ {i} \in SUBSET Items
    BY <1>6 DEF Melt, Remake, Held
  <2>2. \/ item' = SetStatus({i}, "IN_REMAKE")
        \/ item' = SetStatus({i}, "REMADE")
    BY <1>6 DEF Melt, Remake
  <2>3. "IN_REMAKE" \in Settable /\ "REMADE" \in Settable
    BY DEF Settable
  <2> QED
    BY <1>0, <2>1, <2>2, <2>3, HandledInShop
<1>7. CASE UNCHANGED vars
  BY <1>1, <1>7 DEF vars
<1> QED
  BY <1>2, <1>3, <1>4, <1>5, <1>6, <1>7, BoughtInOneStep DEF Next, AtOnce

LEMMA CustodyInit == Init => Custody!Init
<1> SUFFICES ASSUME Init PROVE Custody!Init
  OBVIOUS
<1>1. \A i \in Items : CustodyOf(item[i]) \in {"outside", "shelf"}
  BY DEF Init, CustodyOf
<1>2. BillMap = [b \in Bills |-> Custody!Blank]
  BY DEF Init, BillMap, NoBill, Custody!Blank
<1> QED
  BY <1>1, <1>2 DEF Custody!Init, BillMap

\* Where statuses are left to sales, purchases and production, the handlers
\* implement ItemCustody however many of them race.
THEOREM HandlersImplementCustody ==
  ASSUME ManualStatuses = {}, Trades = {}
  PROVE  Spec => ImplementsCustody
<1>1. SalesInv /\ AccountInv /\ [Next]_vars =>
        [Custody!Next]_(Custody!custodyVars)
  <2> SUFFICES ASSUME SalesInv, AccountInv, [Next]_vars
               PROVE  [Custody!Next]_(Custody!custodyVars)
    OBVIOUS
  <2>1. ASSUME NEW r \in Requests
        PROVE  req[r].op # "status" /\ req[r].op # "trade"
    BY RequestTypes DEF SalesInv, TypeOK, StatusRequest, TradeRequest
  <2>2. \A i \in melting : Held(i)
    BY DEF AccountInv, Held
  <2> QED
    BY <2>1, <2>2, CustodyStep
<1>2. Init => SalesInv /\ AccountInv
  BY SalesInit, AccountInit
<1>3. SalesInv /\ AccountInv /\ [Next]_vars => (SalesInv /\ AccountInv)'
  BY SalesStep, AccountStep
<1> QED
  BY <1>1, <1>2, <1>3, CustodyInit, PTL
     DEF Spec, ImplementsCustody, Custody!Spec

\* An item that was entered stays entered.
LEMMA EnteredStays ==
  ASSUME SalesInv, [Next]_vars, NEW i \in Items, Entered(i)
  PROVE  Entered(i)'
<1>1. ASSUME UNCHANGED item
      PROVE  Entered(i)'
  BY <1>1 DEF Entered
<1>2. ASSUME NEW S, NEW to, item' = SetStatus(S, to), to # "NONE"
      PROVE  Entered(i)'
  BY <1>2 DEF SetStatus, Entered
<1>3. ASSUME NEW r \in Requests, Requesting(r) \/ Abort(r)
      PROVE  Entered(i)'
  BY <1>1, <1>3 DEF Requesting, RequestSell, RequestReturn, RequestExchange,
     RequestPay, RequestStatus, RequestEdit, RequestTrade, Abort, Tables
<1>4. ASSUME NEW r \in Requests, Committing(r)
      PROVE  Entered(i)'
  <2>0. req[r] \in Request
    BY DEF SalesInv, TypeOK
  <2>1. ASSUME NEW b, NEW total, NEW amount, CommitSell(r, b, total, amount)
        PROVE  Entered(i)'
    BY <1>2, <2>1 DEF CommitSell
  <2>2. ASSUME NEW b, NEW refund, CommitReturn(r, b, refund)
        PROVE  Entered(i)'
    BY <1>2, <2>2 DEF CommitReturn
  <2>3. ASSUME NEW b, NEW difference, NEW amount,
               CommitExchange(r, b, difference, amount)
        PROVE  Entered(i)'
    BY <2>3 DEF CommitExchange, Entered
  <2>4. CASE CommitPay(r) \/ CommitEdit(r)
    BY <1>1, <2>4 DEF CommitPay, CommitEdit
  <2>5. CASE CommitStatus(r)
    <3>1. /\ req[r].to # "NONE"
          /\ item' = [item EXCEPT ![req[r].item] = req[r].to]
      BY <2>0, <2>5, RequestTypes, SalesAssumption
         DEF CommitStatus, StatusRequest, Settable
    <3> QED
      BY <3>1 DEF Entered, SalesInv, TypeOK
  <2>6. CASE CommitTrade(r)
    BY <1>1, <1>2, <2>6 DEF CommitTrade
  <2> QED
    BY <1>4, <2>1, <2>2, <2>3, <2>4, <2>5, <2>6 DEF Committing
<1>5. ASSUME NEW b, NEW j, NEW total, NEW amount, BuyIn(b, j, total, amount)
      PROVE  Entered(i)'
  BY <1>2, <1>5 DEF BuyIn
<1>6. ASSUME NEW x, EnterStock(x) \/ CreateTrade(x) \/ Melt(x) \/ Remake(x)
      PROVE  Entered(i)'
  BY <1>2, <1>6 DEF EnterStock, CreateTrade, Melt, Remake
<1>7. CASE UNCHANGED vars
  BY <1>1, <1>7 DEF vars
<1> QED
  BY <1>3, <1>4, <1>5, <1>6, <1>7 DEF Next, AtOnce

LEMMA EnteredRequestsStep ==
  ASSUME SalesInv, EnteredRequests, [Next]_vars
  PROVE  EnteredRequests'
<1>0. TypeOK /\ \A r \in Requests : req[r] \in Request
  BY DEF SalesInv, TypeOK
<1> DEFINE Names(q) == /\ q.op = "status" => Entered(q.item)
                       /\ q.op = "trade" => \A i \in q.inStock : Entered(i)
<1>1. ASSUME NEW r \in Requests
      PROVE  \/ \E q : UNCHANGED Tables /\ Submit(r, q) /\ Names(q)
             \/ req'[r] = Idle
             \/ req'[r] = req[r]
  <2>1. ASSUME NEW s \in Requests, Requesting(s)
        PROVE  \/ \E q : UNCHANGED Tables /\ Submit(r, q) /\ Names(q)
               \/ req'[r] = req[r]
    <3>1. CASE s = r
      <4>1. ASSUME NEW out, RequestSell(r, out)
            PROVE  \E q : UNCHANGED Tables /\ Submit(r, q) /\ Names(q)
        BY <4>1 DEF RequestSell
      <4>2. ASSUME NEW b, NEW in, RequestReturn(r, b, in)
            PROVE  \E q : UNCHANGED Tables /\ Submit(r, q) /\ Names(q)
        BY <4>2 DEF RequestReturn
      <4>3. ASSUME NEW in, NEW out, RequestExchange(r, in, out)
            PROVE  \E q : UNCHANGED Tables /\ Submit(r, q) /\ Names(q)
        BY <4>3 DEF RequestExchange
      <4>4. ASSUME NEW b, NEW amount, RequestPay(r, b, amount)
            PROVE  \E q : UNCHANGED Tables /\ Submit(r, q) /\ Names(q)
        BY <4>4 DEF RequestPay
      <4>5. ASSUME NEW i, NEW to, RequestStatus(r, i, to)
            PROVE  \E q : UNCHANGED Tables /\ Submit(r, q) /\ Names(q)
        BY <4>5 DEF RequestStatus
      <4>6. ASSUME NEW i, NEW w, RequestEdit(r, i, w)
            PROVE  \E q : UNCHANGED Tables /\ Submit(r, q) /\ Names(q)
        BY <4>6 DEF RequestEdit
      <4>7. ASSUME NEW t, NEW to, RequestTrade(r, t, to)
            PROVE  \E q : UNCHANGED Tables /\ Submit(r, q) /\ Names(q)
        BY <4>7 DEF RequestTrade, Entered
      <4> QED
        BY <2>1, <3>1, <4>1, <4>2, <4>3, <4>4, <4>5, <4>6, <4>7 DEF Requesting
    <3>2. CASE s # r
      BY <2>1, <3>2, <1>0 DEF Requesting, RequestSell, RequestReturn,
         RequestExchange, RequestPay, RequestStatus, RequestEdit, RequestTrade,
         Submit, TypeOK
    <3> QED
      BY <3>1, <3>2
  <2>2. ASSUME NEW s \in Requests, Answer(s)
        PROVE  req'[r] = Idle \/ req'[r] = req[r]
    BY <1>0, <2>2 DEF Answer, TypeOK
  <2>3. ASSUME NEW s \in Requests, Committing(s) \/ Abort(s)
        PROVE  Answer(s)
    BY <2>3 DEF Committing, CommitSell, CommitReturn, CommitExchange, CommitPay,
       CommitStatus, CommitEdit, CommitTrade, Abort
  <2>4. CASE AtOnce \/ UNCHANGED vars
    BY <2>4 DEF AtOnce, BuyIn, EnterStock, Melt, Remake, CreateTrade, vars
  <2> QED
    BY <2>1, <2>2, <2>3, <2>4 DEF Next
<1> SUFFICES ASSUME NEW r \in Requests PROVE Names(req[r])'
  BY DEF EnteredRequests
<1>2. CASE req'[r] = Idle
  BY <1>2 DEF Idle
<1>3. CASE req'[r] = req[r]
  <2>1. /\ req[r].op = "status" => req[r].item \in Items
        /\ req[r].op = "trade" => req[r].inStock \subseteq Items
    BY <1>0, RequestTypes DEF StatusRequest, TradeRequest
  <2> QED
    BY <1>3, <2>1, EnteredStays DEF EnteredRequests
<1>4. ASSUME NEW q, UNCHANGED Tables, Submit(r, q), Names(q)
      PROVE  Names(req[r])'
  <2>1. req'[r] = q /\ \A i : Entered(i)' <=> Entered(i)
    BY <1>0, <1>4 DEF Submit, TypeOK, Tables, Entered
  <2> QED
    BY <1>4, <2>1
<1> QED
  BY <1>1, <1>2, <1>3, <1>4

\* One request at a time: trades and statuses set by hand are moves of
\* ItemCustody, too.
THEOREM HandlersImplementCustodySerially ==
  ASSUME OneAtATime, NoMeltingByHand
  PROVE  Spec => ImplementsCustody
<1>1. SerialInv /\ EnteredRequests /\ [Next]_vars =>
        [Custody!Next]_(Custody!custodyVars)
  <2> SUFFICES ASSUME SerialInv, EnteredRequests, [Next]_vars
               PROVE  [Custody!Next]_(Custody!custodyVars)
    OBVIOUS
  <2>0. SalesInv
    BY DEF SerialInv, FreshInv
  <2>1. ASSUME NEW r \in Requests
        PROVE  /\ req[r].op = "status" => Held(req[r].item)
               /\ req[r].op = "trade" => \A i \in req[r].inStock : Held(i)
    BY DEF SerialInv, FreshInv, FreshRequests, Fresh, EnteredRequests, Entered,
       IsSold, Held
  <2>2. \A i \in melting : Held(i)
    BY DEF SerialInv, MeltingAway, Held
  <2> QED
    BY <2>0, <2>1, <2>2, CustodyStep
<1>2. Init => SerialInv /\ EnteredRequests
  BY SerialInit DEF Init, Idle, EnteredRequests
<1>3. SerialInv /\ EnteredRequests /\ [Next]_vars =>
        (SerialInv /\ EnteredRequests)'
  BY SerialStep, EnteredRequestsStep DEF SerialInv, FreshInv
<1> QED
  BY <1>1, <1>2, <1>3, CustodyInit, PTL
     DEF Spec, ImplementsCustody, Custody!Spec
=============================================================================
