------------------------ MODULE ProductionInvariant -------------------------
(***************************************************************************)
(* The inductive invariant of ProductionOrders: how the rows of an issue   *)
(* fit together, and what a snapshot taken by a request still says about   *)
(* the tables when the request commits.                                    *)
(***************************************************************************)
EXTENDS ProductionAudit

\* A line is PENDING until its issue exists, keeps no weigh-in while it is
\* ISSUED, and points to the return of its issue from then on.
LineRows ==
  \A i \in Lines :
    /\ line[i].status = "PENDING" <=> ~issue[i].created
    /\ line[i].status \in {"PENDING", "ISSUED"} =>
         /\ line[i].ret = 0
         /\ ~line[i].disputed
         /\ line[i].surplus = 0
         /\ line[i].deficit = 0
    /\ line[i].status \in {"WEIGHED", "APPROVED"} =>
         /\ line[i].ret # 0
         /\ ret[i] = [id |-> line[i].ret, byLine |-> TRUE]

\* Return ids are never used twice, returns belong to created issues, and a
\* return that is no line's weigh-in has put its pieces in stock.
ReturnRows ==
  \A i \in Issues :
    /\ ret[i].id <= returnsMade[i]
    /\ ret[i].id = 0 => ret[i] = NoReturn
    /\ ret[i].id # 0 => issue[i].created
    /\ ret[i].byLine =>
         i \in Lines /\ line[i].status \in {"WEIGHED", "APPROVED"}
    /\ ret[i].id # 0 /\ ~ret[i].byLine => stock[i].status # "NONE"

\* A stock item refers to the one return of its issue; of a line, it is the
\* weighed piece and exists exactly when the line is approved.
StockRows ==
  \A i \in Issues :
    /\ stock[i].status = "NONE" => stock[i].ret = 0
    /\ stock[i].status # "NONE" => ret[i].id = stock[i].ret /\ ret[i].id # 0
    /\ i \in Lines /\ ret[i].byLine =>
         (stock[i].status # "NONE" <=> line[i].status = "APPROVED")
    /\ i \in Lines /\ line[i].status = "APPROVED" =>
         stock[i].weight = line[i].actual

\* There is a dispute only with a return, and of a line's weigh-in it is the
\* one the line refers to.
DisputeRows ==
  /\ DisputeIsTheDeficit
  /\ NotForSaleWhileDisputed
  /\ \A i \in Issues : ret[i].id = 0 => dispute[i].status = "NONE"
  /\ \A i \in Lines :
       line[i].status \in {"WEIGHED", "APPROVED"} /\ ~line[i].disputed =>
         dispute[i].status = "NONE"

ItemRows ==
  /\ MeltedOnce
  /\ \A i \in Issues : ~issue[i].created => issue[i].sources = {}

\* An approval's snapshot is still the line as long as its return is there,
\* and a dispute it saw settled stays settled.
ApproveSnapshot(q) ==
  /\ q.row.ret # 0
  /\ q.row.ret <= returnsMade[q.issue]
  /\ ret[q.issue].id = q.row.ret =>
       /\ ret[q.issue].byLine
       /\ line[q.issue].actual = q.row.actual
       /\ line[q.issue].disputed = q.row.disputed
       /\ line[q.issue].disputed /\ q.read /\ ~q.hold =>
            dispute[q.issue].status = "RESOLVED"

\* What a request in flight still knows of the tables.
Snapshot(q) ==
  /\ q.op = "approve" => ApproveSnapshot(q)
  /\ q.op = "return" => issue[q.issue].created
  /\ q.op = "complete" =>
       \A i \in LinesOf(q.order) : line[i].status = "APPROVED"
  /\ q.op = "resolve" => dispute[q.issue].status # "NONE"

Snapshots == \A r \in Requests : Snapshot(req[r])

\* The inductive invariant of createProductionIssue, weighIn, correctWeighIn,
\* approve, createProductionReturn, completeProductionOrder and
\* resolveDispute together: it holds in every state whatever the requests
\* in flight, and every safety invariant of ProductionProperties follows.
ProductionInv ==
  /\ TypeOK
  /\ NeverOverdrawn
  /\ CompletedMeansApproved
  /\ LineRows
  /\ ReturnRows
  /\ StockRows
  /\ DisputeRows
  /\ ItemRows
  /\ Snapshots

-----------------------------------------------------------------------------
(* What the accounts of ProductionAudit need beyond that.                  *)

\* What was applied to an issue and how a dispute was settled are recorded
\* only once it is issued and settled.
LedgerRows ==
  \A i \in Issues :
    /\ ~issue[i].created => issue[i].applied = 0
    /\ dispute[i].status # "RESOLVED" => dispute[i].how = "NONE"
    /\ dispute[i].status = "NONE" => dispute[i].excess = 0

\* A weighed line keeps the surplus its weights give, and a surplus or a
\* deficit never below WEIGHT_EPSILON.
WeighedLines ==
  \A i \in Lines : Weighed(i) =>
    LET loss == LossOf(i, line[i].actual)
    IN  /\ line[i].surplus = IF WithinAllowance(loss, line[i].allowed)
                             THEN Material(line[i].allowed - loss) ELSE 0
        /\ line[i].deficit > 0 => ~WithinAllowance(loss, line[i].allowed)

\* What a return without a line lacks beyond its allowance is in dispute.
DirectReturns ==
  \A i \in Issues : ret[i].id # 0 /\ ~ret[i].byLine =>
    issue[i].weight - stock[i].weight <= MaxWaste(i) + dispute[i].excess + Eps

\* A weigh-in's snapshot has the allowance of its line, and a correction's
\* snapshot is still the line as long as its return is there.
WeightSnapshot(q) ==
  /\ q.op = "weighIn" =>
       issue[q.issue].created /\ q.row.allowed = line[q.issue].allowed
  /\ q.op = "correct" =>
       /\ q.row.ret # 0
       /\ q.row.ret <= returnsMade[q.issue]
       /\ ret[q.issue].id = q.row.ret =>
            /\ line[q.issue].allowed = q.row.allowed
            /\ line[q.issue].actual = q.row.actual
            /\ line[q.issue].surplus = q.row.surplus
            /\ line[q.issue].deficit = q.row.deficit

WeightSnapshots == \A r \in Requests : WeightSnapshot(req[r])

\* A weigh-in on the record has used its WEIGHT_EPSILON when it was within the
\* allowance, and so has a return without a line.
Used(i) ==
  ret[i].id # 0 /\
    (ret[i].byLine =>
       WithinAllowance(LossOf(i, line[i].actual), line[i].allowed))

\* The most the pool may hold on account of a line.
Credit(i) ==
  PaidIn(i) + Eps * returnsMade[i] - (IF Used(i) THEN Eps ELSE 0)

CreditOf(o, m) ==
  SumFunctionOnSet([i \in Lines |-> Credit(i)], LinesIn(o, m))

\* PoolMatchesLines with the part of the drift that is still to be used.
PoolBounds ==
  \A o \in Orders, m \in Metals : orderStatus[o] = "OPEN" =>
    PaidInBy(o, m) <= pool[o][m] /\ pool[o][m] <= CreditOf(o, m)

\* The inductive invariant behind the accounts of open orders.
AuditInv ==
  /\ ProductionInv
  /\ LedgerRows
  /\ WeighedLines
  /\ DirectReturns
  /\ WeightSnapshots
  /\ PoolBounds

\* At most one request is in flight.
OneAtATime == \A r, s \in Requests : r = s

\* With one request at a time nothing a request has read is stale.
FreshSnapshot(q) ==
  /\ q.op = "approve" => q.hold = (q.read /\ dispute[q.issue].status = "PENDING")
  /\ q.op = "complete" =>
       /\ Open(q.order)
       /\ q.pooled = IF q.read THEN pool[q.order] ELSE [m \in Metals |-> 0]
  /\ q.op = "resolve" => dispute[q.issue].status = "PENDING"

FreshSnapshots == \A r \in Requests : FreshSnapshot(req[r])

\* What an order of the karigar has put into his balance, at least and at most.
SweptAtLeast(o, m) ==
  IF orderStatus[o] = "COMPLETED" THEN PaidInBy(o, m) - Eps ELSE 0
SweptAtMost(o, m) ==
  IF orderStatus[o] = "COMPLETED"
  THEN PaidInBy(o, m) + Eps * ReturnsMade(LinesIn(o, m)) ELSE 0

OrdersOf(k) == {o \in Orders : KarigarOf[o] = k}

BalanceBounds ==
  \A k \in Karigars, m \in Metals :
    LET owed == InitialBalance[k][m] + CarriedBy(k, m) - AppliedBy(k, m)
    IN  /\ owed + SumFunctionOnSet([o \in Orders |-> SweptAtLeast(o, m)],
                                   OrdersOf(k)) <= balance[k][m]
        /\ balance[k][m] <=
             owed + SumFunctionOnSet([o \in Orders |-> SweptAtMost(o, m)],
                                     OrdersOf(k))

\* The inductive invariant behind the balances, for one request at a time.
SerialInv ==
  /\ AuditInv
  /\ FreshSnapshots
  /\ HeldOnlyWhileDisputed
  /\ BalanceBounds
=============================================================================
