-------------------------- MODULE ProductionOrders --------------------------
(***************************************************************************)
(* Karigar production: a production order hands metal to a craftsman       *)
(* (karigar) through production issues, takes finished pieces back through *)
(* production returns, settles wastage through a per-order surplus pool,   *)
(* disputes and the karigar's metal balance, and puts the pieces in stock. *)
(*                                                                         *)
(* Code: src/src/karigar/karigar.service.ts, tables in                     *)
(* src/prisma/schema.prisma.                                               *)
(*                                                                         *)
(* Every HTTP request runs as a process.  A handler first reads and checks *)
(* outside any transaction, then runs a PostgreSQL transaction at READ     *)
(* COMMITTED.  It is modelled by one step per moment at which another      *)
(* request can be seen:                                                    *)
(*   Request...  the checks made before the transaction, with a snapshot   *)
(*               of what the handler keeps from them;                      *)
(*   Read...     a plain SELECT inside the transaction whose value is used *)
(*               by a later write;                                         *)
(*   Commit...   the writes.  A conditional updateMany locks its rows and  *)
(*               the lock is held until the commit, so the condition seen  *)
(*               by the statement is the one that holds at the commit; a   *)
(*               unique or foreign key violation rolls everything back.    *)
(* Abort(r) is every other end of a request: a ConflictException after a   *)
(* count of 0, a constraint violation, a deadlock victim, a timeout or a   *)
(* crash of the server.  Nothing of the transaction is kept.               *)
(*                                                                         *)
(* Weights are integers in units of the column precision.  A row that is   *)
(* absent from the pool and balance tables is a row that holds 0.          *)
(***************************************************************************)
EXTENDS Integers, FiniteSets

CONSTANTS
  Orders,         \* production orders
  Issues,         \* production issues an order may get (one row each)
  Lines,          \* the issues that belong to a production order line (1:1)
  Karigars,       \* craftsmen
  Metals,         \* metal types
  Items,          \* finished stock items that may be melted for a remake
  Requests,       \* requests that may be in flight at the same time
  OrderOf,        \* the order of an issue
  MetalOf,        \* the metal of an issue
  KarigarOf,      \* the karigar of an order
  Expected,       \* expectedWeightGram of a line
  MetalOfItem,    \* the metal of an item
  WeightOf,       \* total grossWeightGram of a set of items
  ToleranceGram,  \* toleranceGram of an order, NoTolerance when null
  TolerancePct,   \* tolerancePct of an order
  InitialBalance, \* the metal a karigar already owes at the start
  Resolutions,    \* the ways a dispute is resolved
  RawWeights,     \* raw metal weights an issue may ask for
  AppliedWeights, \* amounts of pending balance an issue may apply
  ActualWeights,  \* weights the scale may show for a finished piece
  Eps,            \* WEIGHT_EPSILON
  MaxReturns      \* bound: returns ever recorded for one issue

NoTolerance == -1

ASSUME ProductionAssumption ==
  /\ Lines \subseteq Issues
  /\ OrderOf \in [Issues -> Orders]
  /\ MetalOf \in [Issues -> Metals]
  /\ KarigarOf \in [Orders -> Karigars]
  /\ Expected \in [Lines -> Nat]
  /\ MetalOfItem \in [Items -> Metals]
  /\ WeightOf \in [SUBSET Items -> Nat]
  /\ ToleranceGram \in [Orders -> Nat \union {NoTolerance}]
  /\ TolerancePct \in [Orders -> Nat]
  /\ InitialBalance \in [Karigars -> [Metals -> Nat]]
  /\ Resolutions \subseteq {"CASH_DEDUCTION", "METAL_CARRYFORWARD"}
  /\ RawWeights \subseteq Nat
  /\ AppliedWeights \subseteq Nat
  /\ ActualWeights \subseteq Nat \ {0}
  /\ Eps \in Nat
  /\ MaxReturns \in Nat

VARIABLES
  orderStatus,  \* production_orders.status
  issue,        \* production_issues, with their source items
  line,         \* production_order_lines
  ret,          \* the production_returns row of an issue
  returnsMade,  \* how many return rows an issue has had (fresh row ids)
  dispute,      \* the karigar_disputes row of an issue
  stock,        \* the stock item made from an issue
  item,         \* status of the items that may be melted
  pool,         \* production_order_metal_pools
  balance,      \* karigar_metal_balances
  req           \* what each request in flight keeps in memory

vars == <<orderStatus, issue, line, ret, returnsMade, dispute, stock, item,
          pool, balance, req>>

LinesOf(o) == {i \in Lines : OrderOf[i] = o}

-----------------------------------------------------------------------------
(* Rows and requests.                                                      *)

IssueRow   == [created: BOOLEAN, weight: Nat, applied: Nat,
               sources: SUBSET Items]
LineRow    == [status: {"PENDING", "ISSUED", "WEIGHED", "APPROVED"},
               allowed: Int, ret: Nat, actual: Nat, surplus: Nat,
               deficit: Nat, disputed: BOOLEAN]
ReturnRow  == [id: Nat, byLine: BOOLEAN]
DisputeRow == [status: {"NONE", "PENDING", "RESOLVED"}, excess: Nat,
               how: {"NONE", "CASH_DEDUCTION", "METAL_CARRYFORWARD"}]
StockRow   == [status: {"NONE", "IN_STOCK", "UNDER_DISPUTE"}, weight: Nat,
               ret: Nat]

NoIssue   == [created |-> FALSE, weight |-> 0, applied |-> 0, sources |-> {}]
NewLine   == [status |-> "PENDING", allowed |-> 0, ret |-> 0, actual |-> 0,
              surplus |-> 0, deficit |-> 0, disputed |-> FALSE]
NoReturn  == [id |-> 0, byLine |-> FALSE]
NoDispute == [status |-> "NONE", excess |-> 0, how |-> "NONE"]
NoStock   == [status |-> "NONE", weight |-> 0, ret |-> 0]

Idle            == [op |-> "idle"]
IssueRequest    == [op: {"issue"}, issue: Issues, weight: Nat, applied: Nat,
                    sources: SUBSET Items]
WeighRequest    == [op: {"weighIn"}, issue: Lines, row: LineRow, actual: Nat,
                    read: BOOLEAN, pooled: Int]
CorrectRequest  == [op: {"correct"}, issue: Lines, row: LineRow]
ApproveRequest  == [op: {"approve"}, issue: Lines, row: LineRow,
                    read: BOOLEAN, hold: BOOLEAN]
ReturnRequest   == [op: {"return"}, issue: Issues, weight: Nat]
CompleteRequest == [op: {"complete"}, order: Orders, read: BOOLEAN,
                    pooled: [Metals -> Int]]
ResolveRequest  == [op: {"resolve"}, issue: Issues, how: Resolutions]

Request == {Idle} \union IssueRequest \union WeighRequest
             \union CorrectRequest \union ApproveRequest
             \union ReturnRequest \union CompleteRequest
             \union ResolveRequest

Submit(r, q) == req[r] = Idle /\ req' = [req EXCEPT ![r] = q]
Answer(r)    == req' = [req EXCEPT ![r] = Idle]

-----------------------------------------------------------------------------
(* Weights.                                                                *)

\* Amounts of at most WEIGHT_EPSILON are recorded as nothing.
Material(gram) == IF gram > Eps THEN gram ELSE 0

\* What was lost between the issue and the scale.
LossOf(i, actual) == issue[i].weight - actual

WithinAllowance(loss, allowed) == loss <= allowed + Eps

\* Bug: the pool is decremented without looking at it again.
CoverAsRead(deficit, pooled, now) ==
  LET coverable == IF deficit < pooled THEN deficit ELSE pooled
  IN  IF coverable > Eps THEN coverable ELSE 0

\* The part of a deficit the pool pays: it is limited by the amount read, and
\* it is nothing when the pool no longer holds that much at the update.
CoverFrom(deficit, pooled, now) ==
  LET coverable == IF deficit < pooled THEN deficit ELSE pooled
  IN  IF coverable > Eps /\ now >= coverable THEN coverable ELSE 0

\* The wastage a return without a line may have.
MaxWaste(i) ==
  LET o == OrderOf[i]
  IN  IF ToleranceGram[o] # NoTolerance
      THEN ToleranceGram[o]
      ELSE (issue[i].weight * TolerancePct[o]) \div 100

AddTo(table, key, metal, gram) ==
  [table EXCEPT ![key][metal] = @ + gram]

-----------------------------------------------------------------------------
(* The conditions the handlers and the database check.                     *)

Open(o) == orderStatus[o] = "OPEN"

\* Bug: productionIssueId is not unique.
ReturnOrNot(i) == i \in Issues

\* A return can be inserted: productionIssueId is unique.
NoReturnYet(i) == ret[i] = NoReturn

\* Bug: any return of the issue will do.
SomeReturn(i, id) == ret[i].id # 0

\* The return of a snapshot can be updated, deleted or referred to.
ReturnStillThere(i, id) == ret[i].id = id

\* The conditional decrements of karigar_metal_balances and of the pool.
Owes(k, m, gram)  == balance[k][m] >= gram
Holds(o, m, gram) == pool[o][m] >= gram

\* Bug: the items are updated whatever their status.
InStockOrNot(sources) == sources \subseteq Items

\* The conditional update of the items to be melted finds all of them.
AllInStock(sources) == \A s \in sources : item[s] = "IN_STOCK"

-----------------------------------------------------------------------------
Init ==
  /\ orderStatus = [o \in Orders |-> "OPEN"]
  /\ issue = [i \in Issues |-> NoIssue]
  /\ line = [i \in Lines |-> NewLine]
  /\ ret = [i \in Issues |-> NoReturn]
  /\ returnsMade = [i \in Issues |-> 0]
  /\ dispute = [i \in Issues |-> NoDispute]
  /\ stock = [i \in Issues |-> NoStock]
  /\ item = [s \in Items |-> "IN_STOCK"]
  /\ pool = [o \in Orders |-> [m \in Metals |-> 0]]
  /\ balance = InitialBalance
  /\ req = [r \in Requests |-> Idle]

Tables == <<orderStatus, issue, line, ret, returnsMade, dispute, stock, item,
            pool, balance>>

-----------------------------------------------------------------------------
(* createProductionIssue: metal and items go out to the karigar.           *)

RequestIssue(r, i, raw, applied, sources) ==
  LET combined == raw + WeightOf[sources]
  IN  /\ Open(OrderOf[i])
      /\ ~issue[i].created
      /\ i \in Lines => line[i].status = "PENDING"
      /\ \A s \in sources : MetalOfItem[s] = MetalOf[i]
      /\ applied < combined
      /\ Submit(r, [op |-> "issue", issue |-> i,
                    weight |-> combined - applied,
                    applied |-> applied, sources |-> sources])
      /\ UNCHANGED Tables

\* The order's status is not read again in the transaction.
CommitIssue(r) ==
  /\ req[r].op = "issue"
  /\ LET i == req[r].issue
         k == KarigarOf[OrderOf[i]]
         m == MetalOf[i]
     IN  /\ ~issue[i].created
         /\ Owes(k, m, req[r].applied)
         /\ AllInStock(req[r].sources)
         /\ i \in Lines => line[i].status = "PENDING"
         /\ balance' = AddTo(balance, k, m, -req[r].applied)
         /\ issue' = [issue EXCEPT ![i] =
                        [created |-> TRUE, weight |-> req[r].weight,
                         applied |-> req[r].applied,
                         sources |-> req[r].sources]]
         /\ item' = [s \in Items |-> IF s \in req[r].sources
                                     THEN "IN_REMAKE" ELSE item[s]]
         /\ line' = IF i \in Lines
                    THEN [line EXCEPT ![i].status = "ISSUED",
                            ![i].allowed = req[r].weight - Expected[i]]
                    ELSE line
  /\ Answer(r)
  /\ UNCHANGED <<orderStatus, ret, returnsMade, dispute, stock, pool>>

-----------------------------------------------------------------------------
(* weighInProductionOrderLine: the finished piece is weighed.              *)

RequestWeighIn(r, i, actual) ==
  /\ line[i].status = "ISSUED"
  /\ Open(OrderOf[i])
  /\ actual <= issue[i].weight + Eps
  /\ Submit(r, [op |-> "weighIn", issue |-> i, row |-> line[i],
                actual |-> actual, read |-> FALSE, pooled |-> 0])
  /\ UNCHANGED Tables

\* Only a deficit looks at the pool.
NeedsPool(q) ==
  ~WithinAllowance(LossOf(q.issue, q.actual), q.row.allowed)

ReadPool(r) ==
  /\ req[r].op = "weighIn"
  /\ NeedsPool(req[r])
  /\ ~req[r].read
  /\ LET i == req[r].issue
     IN  req' = [req EXCEPT ![r].read = TRUE,
                   ![r].pooled = pool[OrderOf[i]][MetalOf[i]]]
  /\ UNCHANGED Tables

CommitWeighIn(r) ==
  /\ req[r].op = "weighIn"
  /\ NeedsPool(req[r]) => req[r].read
  /\ LET i         == req[r].issue
         o         == OrderOf[i]
         m         == MetalOf[i]
         spare     == req[r].row.allowed - LossOf(i, req[r].actual)
         short     == NeedsPool(req[r])
         surplus   == IF short THEN 0 ELSE Material(spare)
         cover     == IF short
                      THEN CoverFrom(-spare, req[r].pooled, pool[o][m])
                      ELSE 0
         uncovered == IF short THEN Material(-spare - cover) ELSE 0
     IN  /\ NoReturnYet(i)
         /\ line[i].status = "ISSUED"
         /\ returnsMade[i] < MaxReturns
         /\ pool' = AddTo(pool, o, m, surplus - cover)
         /\ returnsMade' = [returnsMade EXCEPT ![i] = @ + 1]
         /\ ret' = [ret EXCEPT ![i] = [id |-> returnsMade[i] + 1,
                                       byLine |-> TRUE]]
         /\ dispute' = IF uncovered > 0
                       THEN [dispute EXCEPT ![i] =
                               [status |-> "PENDING", excess |-> uncovered,
                                how |-> "NONE"]]
                       ELSE dispute
         /\ line' = [line EXCEPT ![i] =
                       [status |-> "WEIGHED", allowed |-> @.allowed,
                        ret |-> returnsMade[i] + 1,
                        actual |-> req[r].actual, surplus |-> surplus,
                        deficit |-> uncovered, disputed |-> uncovered > 0]]
  /\ Answer(r)
  /\ UNCHANGED <<orderStatus, issue, stock, item, balance>>

-----------------------------------------------------------------------------
(* correctWeighInProductionOrderLine: a weigh-in is undone.                *)

Correctable(i) ==
  line[i].status = "WEIGHED" /\ ~line[i].disputed /\ line[i].ret # 0

RequestCorrect(r, i) ==
  /\ Correctable(i)
  /\ Submit(r, [op |-> "correct", issue |-> i, row |-> line[i]])
  /\ UNCHANGED Tables

\* Bug: the surplus stays in the pool.
GivenBackWithoutSurplus(i, row) ==
  LET loss == LossOf(i, row.actual)
  IN  IF ~WithinAllowance(loss, row.allowed)
      THEN Material(loss - row.allowed - row.deficit)
      ELSE 0

\* Bug: what the pool paid is not given back.
GivenBackWithoutCover(i, row) ==
  IF row.surplus > Eps THEN -row.surplus ELSE 0

\* What undoing the weigh-in of a row gives back to the pool.  What the pool
\* had paid is recomputed from the stored weights: the row does not keep it.
GivenBack(i, row) ==
  LET loss == LossOf(i, row.actual)
  IN  IF row.surplus > Eps
      THEN -row.surplus
      ELSE IF ~WithinAllowance(loss, row.allowed)
           THEN Material(loss - row.allowed - row.deficit)
           ELSE 0

CommitCorrect(r) ==
  /\ req[r].op = "correct"
  /\ LET i   == req[r].issue
         row == req[r].row
         o   == OrderOf[i]
         m   == MetalOf[i]
     IN  /\ row.surplus > Eps => Holds(o, m, row.surplus)
         /\ line[i].status = "WEIGHED" /\ ~line[i].disputed
         /\ ReturnStillThere(i, row.ret)  \* update and delete by id
         /\ stock[i].ret # row.ret        \* no production item refers to it
         /\ pool' = AddTo(pool, o, m, GivenBack(i, row))
         /\ line' = [line EXCEPT ![i] = [NewLine EXCEPT
                       !.status = "ISSUED", !.allowed = line[i].allowed]]
         /\ ret' = [ret EXCEPT ![i] = NoReturn]
  /\ Answer(r)
  /\ UNCHANGED <<orderStatus, issue, returnsMade, dispute, stock, item,
                 balance>>

-----------------------------------------------------------------------------
(* approveProductionOrderLine: the weighed piece enters stock.             *)

RequestApprove(r, i) ==
  /\ line[i].status = "WEIGHED"
  /\ line[i].ret # 0
  /\ Submit(r, [op |-> "approve", issue |-> i, row |-> line[i],
                read |-> FALSE, hold |-> FALSE])
  /\ UNCHANGED Tables

\* Bug: the piece is held when its dispute is settled.
ReadDisputeSettled(r) ==
  /\ req[r].op = "approve"
  /\ req[r].row.disputed
  /\ ~req[r].read
  /\ req' = [req EXCEPT ![r].read = TRUE,
               ![r].hold = dispute[req[r].issue].status = "RESOLVED"]
  /\ UNCHANGED Tables

ReadDispute(r) ==
  /\ req[r].op = "approve"
  /\ req[r].row.disputed
  /\ ~req[r].read
  /\ req' = [req EXCEPT ![r].read = TRUE,
               ![r].hold = dispute[req[r].issue].status = "PENDING"]
  /\ UNCHANGED Tables

\* The stock item takes the weight and the return read before the
\* transaction; the foreign key of its production item needs that return.
CommitApprove(r) ==
  /\ req[r].op = "approve"
  /\ req[r].row.disputed => req[r].read
  /\ LET i == req[r].issue
     IN  /\ ReturnStillThere(i, req[r].row.ret)
         /\ line[i].status = "WEIGHED"
         /\ stock' = [stock EXCEPT ![i] =
                        [status |-> IF req[r].hold
                                    THEN "UNDER_DISPUTE" ELSE "IN_STOCK",
                         weight |-> req[r].row.actual,
                         ret |-> req[r].row.ret]]
         /\ item' = [s \in Items |-> IF s \in issue[i].sources
                                     THEN "REMADE" ELSE item[s]]
         /\ line' = [line EXCEPT ![i].status = "APPROVED"]
  /\ Answer(r)
  /\ UNCHANGED <<orderStatus, issue, ret, returnsMade, dispute, pool, balance>>

-----------------------------------------------------------------------------
(* createProductionReturn: a return recorded against an issue directly.    *)
(* Nothing keeps it away from the issue of a line.  One piece stands for   *)
(* all the pieces of the return: they get the same status.                 *)

RequestReturn(r, i, weight) ==
  /\ Open(OrderOf[i])
  /\ issue[i].created
  /\ NoReturnYet(i)
  /\ weight <= issue[i].weight
  /\ Submit(r, [op |-> "return", issue |-> i, weight |-> weight])
  /\ UNCHANGED Tables

CommitReturn(r) ==
  /\ req[r].op = "return"
  /\ LET i      == req[r].issue
         waste  == LossOf(i, req[r].weight)
         within == waste <= MaxWaste(i) + Eps
         id     == returnsMade[i] + 1
     IN  /\ NoReturnYet(i)
         /\ returnsMade[i] < MaxReturns
         /\ returnsMade' = [returnsMade EXCEPT ![i] = id]
         /\ ret' = [ret EXCEPT ![i] = [id |-> id, byLine |-> FALSE]]
         /\ stock' = [stock EXCEPT ![i] =
                        [status |-> IF within
                                    THEN "IN_STOCK" ELSE "UNDER_DISPUTE",
                         weight |-> req[r].weight, ret |-> id]]
         /\ dispute' = IF within
                       THEN dispute
                       ELSE [dispute EXCEPT ![i] =
                               [status |-> "PENDING",
                                excess |-> waste - MaxWaste(i),
                                how |-> "NONE"]]
         /\ item' = [s \in Items |-> IF s \in issue[i].sources
                                     THEN "REMADE" ELSE item[s]]
  /\ Answer(r)
  /\ UNCHANGED <<orderStatus, issue, line, pool, balance>>

-----------------------------------------------------------------------------
(* completeProductionOrder: the leftover pool goes to the karigar's        *)
(* balance and the order is closed.                                        *)

\* Bug: a weighed line counts as done.
RequestCompleteWeighed(r, o) ==
  /\ Open(o)
  /\ \A i \in LinesOf(o) : line[i].status \in {"WEIGHED", "APPROVED"}
  /\ Submit(r, [op |-> "complete", order |-> o, read |-> FALSE,
                pooled |-> [m \in Metals |-> 0]])
  /\ UNCHANGED Tables

\* Bug: the lines are not looked at.
RequestCompleteAnyway(r, o) ==
  /\ Open(o)
  /\ Submit(r, [op |-> "complete", order |-> o, read |-> FALSE,
                pooled |-> [m \in Metals |-> 0]])
  /\ UNCHANGED Tables

RequestComplete(r, o) ==
  /\ Open(o)
  /\ \A i \in LinesOf(o) : line[i].status = "APPROVED"
  /\ Submit(r, [op |-> "complete", order |-> o, read |-> FALSE,
                pooled |-> [m \in Metals |-> 0]])
  /\ UNCHANGED Tables

\* An order without lines is completed without looking at any pool.
ReadPools(r) ==
  /\ req[r].op = "complete"
  /\ LinesOf(req[r].order) # {}
  /\ ~req[r].read
  /\ req' = [req EXCEPT ![r].read = TRUE,
               ![r].pooled = pool[req[r].order]]
  /\ UNCHANGED Tables

\* The amounts read are added, the pools are set to 0 and the status is
\* written, whatever they are by now.
CommitComplete(r) ==
  /\ req[r].op = "complete"
  /\ LinesOf(req[r].order) # {} => req[r].read
  /\ LET o     == req[r].order
         k     == KarigarOf[o]
         swept == [m \in Metals |-> Material(req[r].pooled[m])]
     IN  /\ balance' = [balance EXCEPT ![k] =
                          [m \in Metals |-> @[m] + swept[m]]]
         /\ pool' = [pool EXCEPT ![o] =
                       [m \in Metals |-> IF swept[m] > 0 THEN 0 ELSE @[m]]]
         /\ orderStatus' = [orderStatus EXCEPT ![o] = "COMPLETED"]
  /\ Answer(r)
  /\ UNCHANGED <<issue, line, ret, returnsMade, dispute, stock, item>>

-----------------------------------------------------------------------------
(* resolveDispute: the owner settles a dispute in cash or as metal owed.   *)

RequestResolve(r, i, how) ==
  /\ dispute[i].status = "PENDING"
  /\ Submit(r, [op |-> "resolve", issue |-> i, how |-> how])
  /\ UNCHANGED Tables

\* Bug: the amount is cleared with the dispute.
ResolvedAndCleared(i, how) ==
  [dispute EXCEPT ![i] = [status |-> "RESOLVED", excess |-> 0, how |-> how]]

Resolved(i, how) ==
  [dispute EXCEPT ![i].status = "RESOLVED", ![i].how = how]

\* Bug: the stock stays on hold.
LiftedNever(i) == [stock EXCEPT ![i].weight = @]

\* The stock of the dispute's issue is lifted when it is on hold.
Lifted(i) ==
  IF stock[i].status = "UNDER_DISPUTE"
  THEN [stock EXCEPT ![i].status = "IN_STOCK"]
  ELSE stock

\* The dispute is updated by id, without a condition on its status.
CommitResolve(r) ==
  /\ req[r].op = "resolve"
  /\ LET i == req[r].issue
     IN  /\ balance' = IF req[r].how = "METAL_CARRYFORWARD"
                       THEN AddTo(balance, KarigarOf[OrderOf[i]],
                                  MetalOf[i], dispute[i].excess)
                       ELSE balance
         /\ dispute' = Resolved(i, req[r].how)
         /\ stock' = Lifted(i)
  /\ Answer(r)
  /\ UNCHANGED <<orderStatus, issue, line, ret, returnsMade, item, pool>>

-----------------------------------------------------------------------------
Abort(r) ==
  /\ req[r] # Idle
  /\ Answer(r)
  /\ UNCHANGED Tables

\* A sale takes an item that might have been melted (SalesService.createSell).
SellItem(s) ==
  /\ item[s] = "IN_STOCK"
  /\ item' = [item EXCEPT ![s] = "SOLD"]
  /\ UNCHANGED <<orderStatus, issue, line, ret, returnsMade, dispute, stock,
                 pool, balance, req>>

Requesting(r) ==
  \/ \E i \in Issues, raw \in RawWeights, applied \in AppliedWeights,
        sources \in SUBSET Items : RequestIssue(r, i, raw, applied, sources)
  \/ \E i \in Lines, actual \in ActualWeights : RequestWeighIn(r, i, actual)
  \/ \E i \in Lines : RequestCorrect(r, i)
  \/ \E i \in Lines : RequestApprove(r, i)
  \/ \E i \in Issues, weight \in ActualWeights : RequestReturn(r, i, weight)
  \/ \E o \in Orders : RequestComplete(r, o)
  \/ \E i \in Issues, how \in Resolutions : RequestResolve(r, i, how)

Reading(r) == ReadPool(r) \/ ReadDispute(r) \/ ReadPools(r)

Committing(r) ==
  \/ CommitIssue(r)
  \/ CommitWeighIn(r)
  \/ CommitCorrect(r)
  \/ CommitApprove(r)
  \/ CommitReturn(r)
  \/ CommitComplete(r)
  \/ CommitResolve(r)

Next ==
  \/ \E r \in Requests : Requesting(r) \/ Reading(r) \/ Committing(r) \/ Abort(r)
  \/ \E s \in Items : SellItem(s)

Spec == Init /\ [][Next]_vars
=============================================================================
