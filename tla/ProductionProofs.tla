-------------------------- MODULE ProductionProofs --------------------------
(***************************************************************************)
(* What is proved of karigar production, for every value of the constants  *)
(* of ProductionOrders: its types; that ProductionInv is inductive, and    *)
(* the safety and action properties and the refinement that follow from    *)
(* it; and that the accounts of ProductionAudit balance.  A transaction is *)
(* described by the rows it changes (the first steps of its lemma); every  *)
(* conjunct of the invariant is then a fact about those rows.              *)
(***************************************************************************)
EXTENDS ProductionInvariant, ProductionRefinement, Sums

-----------------------------------------------------------------------------
(* Types.                                                                  *)

\* What a request's op says about the rest of it.
LEMMA RequestTypes ==
  ASSUME NEW q \in Request
  PROVE  /\ q.op = "issue"    => q \in IssueRequest
         /\ q.op = "weighIn"  => q \in WeighRequest
         /\ q.op = "correct"  => q \in CorrectRequest
         /\ q.op = "approve"  => q \in ApproveRequest
         /\ q.op = "return"   => q \in ReturnRequest
         /\ q.op = "complete" => q \in CompleteRequest
         /\ q.op = "resolve"  => q \in ResolveRequest
BY DEF Request, Idle, IssueRequest, WeighRequest, CorrectRequest,
       ApproveRequest, ReturnRequest, CompleteRequest, ResolveRequest

\* A weight-by-metal table stays one under an increment.
LEMMA AddToType ==
  ASSUME NEW K, NEW table \in [K -> [Metals -> Int]],
         NEW key \in K, NEW metal \in Metals, NEW gram \in Int
  PROVE  AddTo(table, key, metal, gram) \in [K -> [Metals -> Int]]
BY DEF AddTo

\* A recorded amount is a weight, and never more than what it records.
LEMMA MaterialType ==
  ASSUME NEW gram \in Int
  PROVE  /\ Material(gram) \in Nat
         /\ gram >= 0 => Material(gram) <= gram
BY ProductionAssumption DEF Material

\* The pool pays no more than it holds and no more than the deficit.
LEMMA CoverType ==
  ASSUME NEW deficit \in Int, NEW pooled \in Int, NEW now \in Int
  PROVE  /\ CoverFrom(deficit, pooled, now) \in Nat
         /\ CoverFrom(deficit, pooled, now) > 0 =>
              /\ CoverFrom(deficit, pooled, now) <= now
              /\ CoverFrom(deficit, pooled, now) <= deficit
BY ProductionAssumption DEF CoverFrom

\* The wastage a return may have is a weight.
LEMMA MaxWasteType ==
  ASSUME TypeOK, NEW i \in Issues
  PROVE  MaxWaste(i) \in Int
<1> DEFINE o == OrderOf[i]
           w == issue[i].weight * TolerancePct[o]
<1>1. /\ o \in Orders
      /\ ToleranceGram[o] \in Int
      /\ TolerancePct[o] \in Nat
      /\ issue[i].weight \in Nat
  BY ProductionAssumption DEF TypeOK, IssueRow, NoTolerance
<1>2. w \in Int
  BY <1>1
<1> HIDE DEF w
<1>3. w \div 100 \in Int
  BY <1>2
<1> QED
  BY <1>1, <1>3 DEF MaxWaste, w
-----------------------------------------------------------------------------
(* The handlers keep the types.  First the steps that only change what a   *)
(* request keeps in memory.                                                *)

\* A submitted request is a request when its fields have their types.
LEMMA SubmitTypes ==
  ASSUME TypeOK, UNCHANGED Tables, NEW r \in Requests, NEW q \in Request,
         Submit(r, q)
  PROVE  TypeOK'
BY DEF TypeOK, Tables, Submit

\* A request that ends leaves its slot idle.
LEMMA AnswerTypes ==
  ASSUME req \in [Requests -> Request], NEW r \in Requests, Answer(r)
  PROVE  req' \in [Requests -> Request]
BY DEF Answer, Request

\* The checks made before the transactions.
LEMMA RequestingTypes ==
  ASSUME TypeOK, NEW r \in Requests, Requesting(r)
  PROVE  TypeOK'
<1>1. ASSUME NEW i \in Issues, NEW raw \in RawWeights,
             NEW applied \in AppliedWeights, NEW sources \in SUBSET Items,
             RequestIssue(r, i, raw, applied, sources)
      PROVE  TypeOK'
  <2> DEFINE combined == raw + WeightOf[sources]
             q == [op |-> "issue", issue |-> i, weight |-> combined - applied,
                   applied |-> applied, sources |-> sources]
  <2>1. raw \in Nat /\ WeightOf[sources] \in Nat /\ applied \in Nat
    BY ProductionAssumption
  <2>2. applied < combined
    BY <1>1 DEF RequestIssue
  <2>3. combined - applied \in Nat
    BY <2>1, <2>2
  <2>4. q \in Request
    BY <2>1, <2>3 DEF Request, IssueRequest
  <2> QED
    BY <1>1, <2>4, SubmitTypes DEF RequestIssue
<1>2. ASSUME NEW i \in Lines, NEW actual \in ActualWeights,
             RequestWeighIn(r, i, actual)
      PROVE  TypeOK'
  <2> DEFINE q == [op |-> "weighIn", issue |-> i, row |-> line[i],
                   actual |-> actual, read |-> FALSE, pooled |-> 0]
  <2>1. q \in Request
    BY ProductionAssumption DEF TypeOK, Request, WeighRequest
  <2> QED
    BY <1>2, <2>1, SubmitTypes DEF RequestWeighIn
<1>3. ASSUME NEW i \in Lines, RequestCorrect(r, i)
      PROVE  TypeOK'
  <2> DEFINE q == [op |-> "correct", issue |-> i, row |-> line[i]]
  <2>1. q \in Request
    BY DEF TypeOK, Request, CorrectRequest
  <2> QED
    BY <1>3, <2>1, SubmitTypes DEF RequestCorrect
<1>4. ASSUME NEW i \in Lines, RequestApprove(r, i)
      PROVE  TypeOK'
  <2> DEFINE q == [op |-> "approve", issue |-> i, row |-> line[i],
                   read |-> FALSE, hold |-> FALSE]
  <2>1. q \in Request
    BY DEF TypeOK, Request, ApproveRequest
  <2> QED
    BY <1>4, <2>1, SubmitTypes DEF RequestApprove
<1>5. ASSUME NEW i \in Issues, NEW weight \in ActualWeights,
             RequestReturn(r, i, weight)
      PROVE  TypeOK'
  <2> DEFINE q == [op |-> "return", issue |-> i, weight |-> weight]
  <2>1. q \in Request
    BY ProductionAssumption DEF Request, ReturnRequest
  <2> QED
    BY <1>5, <2>1, SubmitTypes DEF RequestReturn
<1>6. ASSUME NEW o \in Orders, RequestComplete(r, o)
      PROVE  TypeOK'
  <2> DEFINE q == [op |-> "complete", order |-> o, read |-> FALSE,
                   pooled |-> [m \in Metals |-> 0]]
  <2>1. q \in Request
    BY DEF Request, CompleteRequest
  <2> QED
    BY <1>6, <2>1, SubmitTypes DEF RequestComplete
<1>7. ASSUME NEW i \in Issues, NEW how \in Resolutions,
             RequestResolve(r, i, how)
      PROVE  TypeOK'
  <2> DEFINE q == [op |-> "resolve", issue |-> i, how |-> how]
  <2>1. q \in Request
    BY DEF Request, ResolveRequest
  <2> QED
    BY <1>7, <2>1, SubmitTypes DEF RequestResolve
<1> QED
  BY <1>1, <1>2, <1>3, <1>4, <1>5, <1>6, <1>7 DEF Requesting

\* The reads inside the transactions.
LEMMA ReadingTypes ==
  ASSUME TypeOK, NEW r \in Requests, Reading(r)
  PROVE  TypeOK'
<1>1. CASE ReadPool(r)
  <2> DEFINE i == req[r].issue
             q == [req[r] EXCEPT !.read = TRUE,
                     !.pooled = pool[OrderOf[i]][MetalOf[i]]]
  <2>1. req[r] \in WeighRequest
    BY <1>1, RequestTypes DEF TypeOK, ReadPool
  <2>2. pool[OrderOf[i]][MetalOf[i]] \in Int
    BY <2>1, ProductionAssumption DEF TypeOK, WeighRequest
  <2>3. q \in Request
    BY <2>1, <2>2 DEF Request, WeighRequest
  <2>4. req' = [req EXCEPT ![r] = q]
    BY <1>1 DEF ReadPool, TypeOK
  <2> QED
    BY <1>1, <2>3, <2>4 DEF TypeOK, ReadPool, Tables
<1>2. CASE ReadDispute(r)
  <2> DEFINE q == [req[r] EXCEPT !.read = TRUE,
                     !.hold = dispute[req[r].issue].status = "PENDING"]
  <2>1. req[r] \in ApproveRequest
    BY <1>2, RequestTypes DEF TypeOK, ReadDispute
  <2>2. q \in Request
    BY <2>1 DEF Request, ApproveRequest
  <2>3. req' = [req EXCEPT ![r] = q]
    BY <1>2 DEF ReadDispute, TypeOK
  <2> QED
    BY <1>2, <2>2, <2>3 DEF TypeOK, ReadDispute, Tables
<1>3. CASE ReadPools(r)
  <2> DEFINE q == [req[r] EXCEPT !.read = TRUE,
                     !.pooled = pool[req[r].order]]
  <2>1. req[r] \in CompleteRequest
    BY <1>3, RequestTypes DEF TypeOK, ReadPools
  <2>2. q \in Request
    BY <2>1 DEF TypeOK, Request, CompleteRequest
  <2>3. req' = [req EXCEPT ![r] = q]
    BY <1>3 DEF ReadPools, TypeOK
  <2> QED
    BY <1>3, <2>2, <2>3 DEF TypeOK, ReadPools, Tables
<1> QED
  BY <1>1, <1>2, <1>3 DEF Reading
-----------------------------------------------------------------------------
(* The transactions.                                                       *)

LEMMA CommitIssueTypes ==
  ASSUME TypeOK, NEW r \in Requests, CommitIssue(r)
  PROVE  TypeOK'
<1> DEFINE q == req[r]
           i == q.issue
           k == KarigarOf[OrderOf[i]]
           m == MetalOf[i]
<1>1. q \in IssueRequest
  BY RequestTypes DEF TypeOK, CommitIssue
<1>2. i \in Issues /\ k \in Karigars /\ m \in Metals
  BY <1>1, ProductionAssumption DEF IssueRequest
<1>3. req' \in [Requests -> Request]
  BY AnswerTypes DEF TypeOK, CommitIssue
<1>4. balance' \in [Karigars -> [Metals -> Int]]
  <2>1. -q.applied \in Int
    BY <1>1 DEF IssueRequest
  <2>2. balance' = AddTo(balance, k, m, -q.applied)
    BY DEF CommitIssue
  <2>3. balance \in [Karigars -> [Metals -> Int]]
    BY DEF TypeOK
  <2> QED
    BY <1>2, <2>1, <2>2, <2>3, AddToType
<1>5. issue' \in [Issues -> IssueRow]
  BY <1>1 DEF TypeOK, CommitIssue, IssueRequest, IssueRow
<1>6. item' \in [Items -> {"IN_STOCK", "IN_REMAKE", "REMADE", "SOLD"}]
  BY DEF TypeOK, CommitIssue
<1>7. line' \in [Lines -> LineRow]
  <2>1. CASE i \in Lines
    <3>1. q.weight - Expected[i] \in Int
      BY <1>1, <2>1, ProductionAssumption DEF IssueRequest
    <3>2. line' = [line EXCEPT ![i].status = "ISSUED",
                     ![i].allowed = q.weight - Expected[i]]
      BY <2>1 DEF CommitIssue
    <3> QED
      BY <2>1, <3>1, <3>2 DEF TypeOK, LineRow
  <2>2. CASE i \notin Lines
    BY <2>2 DEF TypeOK, CommitIssue
  <2> QED
    BY <2>1, <2>2
<1> QED
  BY <1>3, <1>4, <1>5, <1>6, <1>7 DEF TypeOK, CommitIssue

\* The amounts a weigh-in computes, named as in CommitWeighIn.
LEMMA CommitWeighInTypes ==
  ASSUME TypeOK, NEW r \in Requests, CommitWeighIn(r)
  PROVE  TypeOK'
<1> DEFINE q == req[r]
           i == q.issue
           o == OrderOf[i]
           m == MetalOf[i]
           spare == q.row.allowed - LossOf(i, q.actual)
           short == NeedsPool(q)
           surplus == IF short THEN 0 ELSE Material(spare)
           cover == IF short
                    THEN CoverFrom(-spare, q.pooled, pool[o][m]) ELSE 0
           uncovered == IF short THEN Material(-spare - cover) ELSE 0
<1>1. q \in WeighRequest
  BY RequestTypes DEF TypeOK, CommitWeighIn
<1>2. i \in Lines /\ i \in Issues /\ o \in Orders /\ m \in Metals
  BY <1>1, ProductionAssumption DEF WeighRequest
<1>3. /\ spare \in Int
      /\ q.actual \in Nat
      /\ q.pooled \in Int
      /\ pool[o][m] \in Int
  BY <1>1, <1>2 DEF TypeOK, WeighRequest, LineRow, IssueRow, LossOf
<1> HIDE DEF spare
<1>4. surplus \in Nat /\ cover \in Nat
  BY <1>3, MaterialType, CoverType
<1>5. uncovered \in Nat
  <2>1. -spare - cover \in Int
    BY <1>3, <1>4
  <2> QED
    BY <2>1, MaterialType
<1>6. /\ pool' = AddTo(pool, o, m, surplus - cover)
      /\ returnsMade' = [returnsMade EXCEPT ![i] = @ + 1]
      /\ ret' = [ret EXCEPT ![i] = [id |-> returnsMade[i] + 1,
                                    byLine |-> TRUE]]
      /\ dispute' = IF uncovered > 0
                    THEN [dispute EXCEPT ![i] =
                            [status |-> "PENDING", excess |-> uncovered,
                             how |-> "NONE"]]
                    ELSE dispute
      /\ line' = [line EXCEPT ![i] =
                    [status |-> "WEIGHED", allowed |-> @.allowed,
                     ret |-> returnsMade[i] + 1, actual |-> q.actual,
                     surplus |-> surplus, deficit |-> uncovered,
                     disputed |-> uncovered > 0]]
      /\ UNCHANGED <<orderStatus, issue, stock, item, balance>>
      /\ Answer(r)
  BY DEF CommitWeighIn, spare
<1> HIDE DEF surplus, cover, uncovered
<1>7. pool' \in [Orders -> [Metals -> Int]]
  <2>1. surplus - cover \in Int
    BY <1>4
  <2>2. pool \in [Orders -> [Metals -> Int]]
    BY DEF TypeOK
  <2>3. AddTo(pool, o, m, surplus - cover) \in [Orders -> [Metals -> Int]]
    BY <1>2, <2>1, <2>2, AddToType
  <2> QED
    BY <1>6, <2>3
<1>8. /\ returnsMade' \in [Issues -> Nat]
      /\ ret' \in [Issues -> ReturnRow]
  BY <1>2, <1>6 DEF TypeOK, ReturnRow
<1>9. dispute' \in [Issues -> DisputeRow]
  BY <1>2, <1>5, <1>6 DEF TypeOK, DisputeRow
<1>10. line' \in [Lines -> LineRow]
  <2>1. line[i].allowed \in Int /\ returnsMade[i] + 1 \in Nat
    BY <1>2 DEF TypeOK, LineRow
  <2> QED
    BY <1>2, <1>3, <1>4, <1>5, <1>6, <2>1 DEF TypeOK, LineRow
<1>11. req' \in [Requests -> Request]
  BY <1>6, AnswerTypes DEF TypeOK
<1> QED
  BY <1>6, <1>7, <1>8, <1>9, <1>10, <1>11 DEF TypeOK

LEMMA CommitCorrectTypes ==
  ASSUME TypeOK, NEW r \in Requests, CommitCorrect(r)
  PROVE  TypeOK'
<1> DEFINE q == req[r]
           i == q.issue
           o == OrderOf[i]
           m == MetalOf[i]
<1>1. q \in CorrectRequest
  BY RequestTypes DEF TypeOK, CommitCorrect
<1>2. i \in Lines /\ i \in Issues /\ o \in Orders /\ m \in Metals
  BY <1>1, ProductionAssumption DEF CorrectRequest
<1>3. GivenBack(i, q.row) \in Int
  <2>1. /\ LossOf(i, q.row.actual) \in Int
        /\ q.row.surplus \in Int
        /\ q.row.allowed \in Int
        /\ q.row.deficit \in Int
    BY <1>1, <1>2 DEF TypeOK, CorrectRequest, LineRow, IssueRow, LossOf
  <2>2. LossOf(i, q.row.actual) - q.row.allowed - q.row.deficit \in Int
    BY <2>1
  <2>3. Material(LossOf(i, q.row.actual) - q.row.allowed - q.row.deficit)
          \in Nat
    BY <2>2, MaterialType
  <2> QED
    BY <2>1, <2>3 DEF GivenBack
<1>4. pool' \in [Orders -> [Metals -> Int]]
  <2>1. pool' = AddTo(pool, o, m, GivenBack(i, q.row))
    BY DEF CommitCorrect
  <2>2. pool \in [Orders -> [Metals -> Int]]
    BY DEF TypeOK
  <2>3. \A gram \in Int :
          AddTo(pool, o, m, gram) \in [Orders -> [Metals -> Int]]
    BY <1>2, <2>2, AddToType
  <2> QED
    BY <1>3, <2>1, <2>3
<1>5. line' \in [Lines -> LineRow]
  <2>1. [NewLine EXCEPT !.status = "ISSUED", !.allowed = line[i].allowed]
          \in LineRow
    BY <1>2 DEF TypeOK, LineRow, NewLine
  <2> QED
    BY <2>1 DEF TypeOK, CommitCorrect
<1>6. ret' \in [Issues -> ReturnRow]
  BY DEF TypeOK, CommitCorrect, ReturnRow, NoReturn
<1>7. req' \in [Requests -> Request]
  BY AnswerTypes DEF TypeOK, CommitCorrect
<1> QED
  BY <1>4, <1>5, <1>6, <1>7 DEF TypeOK, CommitCorrect

LEMMA CommitApproveTypes ==
  ASSUME TypeOK, NEW r \in Requests, CommitApprove(r)
  PROVE  TypeOK'
<1> DEFINE q == req[r]
           i == q.issue
<1>1. q \in ApproveRequest
  BY RequestTypes DEF TypeOK, CommitApprove
<1>2. i \in Lines /\ i \in Issues
  BY <1>1, ProductionAssumption DEF ApproveRequest
<1>3. q.row \in LineRow
  BY <1>1 DEF ApproveRequest
<1>4. stock' \in [Issues -> StockRow]
  BY <1>2, <1>3 DEF TypeOK, CommitApprove, LineRow, StockRow
<1>5. line' \in [Lines -> LineRow]
  <2>1. line' = [line EXCEPT ![i].status = "APPROVED"]
    BY DEF CommitApprove
  <2> QED
    BY <1>2, <2>1 DEF TypeOK, LineRow
<1>6. item' \in [Items -> {"IN_STOCK", "IN_REMAKE", "REMADE", "SOLD"}]
  BY DEF TypeOK, CommitApprove
<1>7. req' \in [Requests -> Request]
  BY AnswerTypes DEF TypeOK, CommitApprove
<1> QED
  BY <1>4, <1>5, <1>6, <1>7 DEF TypeOK, CommitApprove

LEMMA CommitReturnTypes ==
  ASSUME TypeOK, NEW r \in Requests, CommitReturn(r)
  PROVE  TypeOK'
<1> DEFINE q == req[r]
           i == q.issue
           waste == LossOf(i, q.weight)
           within == waste <= MaxWaste(i) + Eps
<1>1. q \in ReturnRequest
  BY RequestTypes DEF TypeOK, CommitReturn
<1>2. i \in Issues /\ q.weight \in Nat
  BY <1>1 DEF ReturnRequest
<1>3. returnsMade[i] + 1 \in Nat
  BY <1>2 DEF TypeOK
<1>4. ~within => waste - MaxWaste(i) \in Nat
  <2>1. waste \in Int /\ MaxWaste(i) \in Int /\ Eps \in Nat
    BY <1>2, MaxWasteType, ProductionAssumption DEF TypeOK, IssueRow, LossOf
  <2> QED
    BY <2>1
<1>5. /\ returnsMade' \in [Issues -> Nat]
      /\ ret' \in [Issues -> ReturnRow]
      /\ stock' \in [Issues -> StockRow]
  BY <1>2, <1>3 DEF TypeOK, CommitReturn, ReturnRow, StockRow
<1>6. dispute' \in [Issues -> DisputeRow]
  <2>1. CASE within
    BY <2>1 DEF TypeOK, CommitReturn
  <2>2. CASE ~within
    BY <1>2, <1>4, <2>2 DEF TypeOK, CommitReturn, DisputeRow
  <2> QED
    BY <2>1, <2>2
<1>7. item' \in [Items -> {"IN_STOCK", "IN_REMAKE", "REMADE", "SOLD"}]
  BY DEF TypeOK, CommitReturn
<1>8. req' \in [Requests -> Request]
  BY AnswerTypes DEF TypeOK, CommitReturn
<1> QED
  BY <1>5, <1>6, <1>7, <1>8 DEF TypeOK, CommitReturn

LEMMA CommitCompleteTypes ==
  ASSUME TypeOK, NEW r \in Requests, CommitComplete(r)
  PROVE  TypeOK'
<1> DEFINE q == req[r]
           o == q.order
           k == KarigarOf[o]
           swept == [m \in Metals |-> Material(q.pooled[m])]
<1>1. q \in CompleteRequest
  BY RequestTypes DEF TypeOK, CommitComplete
<1>2. o \in Orders /\ k \in Karigars
  BY <1>1, ProductionAssumption DEF CompleteRequest
<1>3. swept \in [Metals -> Nat]
  BY <1>1, MaterialType DEF CompleteRequest
<1>4. /\ balance' = [balance EXCEPT ![k] =
                       [m \in Metals |-> @[m] + swept[m]]]
      /\ pool' = [pool EXCEPT ![o] =
                    [m \in Metals |-> IF swept[m] > 0 THEN 0 ELSE @[m]]]
      /\ orderStatus' = [orderStatus EXCEPT ![o] = "COMPLETED"]
      /\ UNCHANGED <<issue, line, ret, returnsMade, dispute, stock, item>>
      /\ Answer(r)
  BY DEF CommitComplete
<1> HIDE DEF swept
<1>5. balance' \in [Karigars -> [Metals -> Int]]
  BY <1>2, <1>3, <1>4 DEF TypeOK
<1>6. pool' \in [Orders -> [Metals -> Int]]
  BY <1>2, <1>3, <1>4 DEF TypeOK
<1>7. req' \in [Requests -> Request]
  BY <1>4, AnswerTypes DEF TypeOK
<1> QED
  BY <1>4, <1>5, <1>6, <1>7 DEF TypeOK

LEMMA CommitResolveTypes ==
  ASSUME TypeOK, NEW r \in Requests, CommitResolve(r)
  PROVE  TypeOK'
<1> DEFINE q == req[r]
           i == q.issue
           k == KarigarOf[OrderOf[i]]
           m == MetalOf[i]
<1>1. q \in ResolveRequest
  BY RequestTypes DEF TypeOK, CommitResolve
<1>2. i \in Issues /\ k \in Karigars /\ m \in Metals
  BY <1>1, ProductionAssumption DEF ResolveRequest
<1>3. q.how \in {"CASH_DEDUCTION", "METAL_CARRYFORWARD"}
  BY <1>1, ProductionAssumption DEF ResolveRequest
<1>4. balance' \in [Karigars -> [Metals -> Int]]
  <2>1. dispute[i].excess \in Int
    BY <1>2 DEF TypeOK, DisputeRow
  <2>2. balance \in [Karigars -> [Metals -> Int]]
    BY DEF TypeOK
  <2>3. AddTo(balance, k, m, dispute[i].excess)
          \in [Karigars -> [Metals -> Int]]
    BY <1>2, <2>1, <2>2, AddToType
  <2> QED
    BY <2>2, <2>3 DEF CommitResolve
<1>5. dispute' \in [Issues -> DisputeRow]
  BY <1>2, <1>3 DEF TypeOK, CommitResolve, Resolved, DisputeRow
<1>6. stock' \in [Issues -> StockRow]
  BY <1>2 DEF TypeOK, CommitResolve, Lifted, StockRow
<1>7. req' \in [Requests -> Request]
  BY AnswerTypes DEF TypeOK, CommitResolve
<1> QED
  BY <1>4, <1>5, <1>6, <1>7 DEF TypeOK, CommitResolve

-----------------------------------------------------------------------------
(* Type correctness.                                                       *)

LEMMA InitTypes == Init => TypeOK
<1> SUFFICES ASSUME Init PROVE TypeOK
  OBVIOUS
<1>1. /\ NoIssue \in IssueRow
      /\ NewLine \in LineRow
      /\ NoReturn \in ReturnRow
      /\ NoDispute \in DisputeRow
      /\ NoStock \in StockRow
      /\ Idle \in Request
  BY DEF NoIssue, IssueRow, NewLine, LineRow, NoReturn, ReturnRow, NoDispute,
         DisputeRow, NoStock, StockRow, Request
<1>2. balance \in [Karigars -> [Metals -> Int]]
  BY ProductionAssumption DEF Init
<1> QED
  BY <1>1, <1>2 DEF Init, TypeOK

LEMMA NextTypes ==
  ASSUME TypeOK, [Next]_vars
  PROVE  TypeOK'
<1>1. ASSUME NEW r \in Requests, Requesting(r)
      PROVE  TypeOK'
  BY <1>1, RequestingTypes
<1>2. ASSUME NEW r \in Requests, Reading(r)
      PROVE  TypeOK'
  BY <1>2, ReadingTypes
<1>3. ASSUME NEW r \in Requests, Committing(r)
      PROVE  TypeOK'
  BY <1>3, CommitIssueTypes, CommitWeighInTypes, CommitCorrectTypes,
     CommitApproveTypes, CommitReturnTypes, CommitCompleteTypes,
     CommitResolveTypes DEF Committing
<1>4. ASSUME NEW r \in Requests, Abort(r)
      PROVE  TypeOK'
  BY <1>4, AnswerTypes DEF TypeOK, Abort, Tables
<1>5. ASSUME NEW s \in Items, SellItem(s)
      PROVE  TypeOK'
  BY <1>5 DEF TypeOK, SellItem
<1>6. CASE UNCHANGED vars
  BY <1>6 DEF TypeOK, vars
<1> QED
  BY <1>1, <1>2, <1>3, <1>4, <1>5, <1>6 DEF Next

\* Type correctness: every column and every request in memory keeps its
\* domain, whatever the orders, issues, weights and number of requests.
THEOREM TypeCorrect == Spec => []TypeOK
<1>1. Init => TypeOK
  BY InitTypes
<1>2. TypeOK /\ [Next]_vars => TypeOK'
  BY NextTypes
<1> QED
  BY <1>1, <1>2, PTL DEF Spec
-----------------------------------------------------------------------------
(* The inductive invariant.                                                *)

\* Where the parts of an identifier live.
LEMMA IssueParts ==
  ASSUME NEW i \in Issues
  PROVE  /\ OrderOf[i] \in Orders
         /\ MetalOf[i] \in Metals
         /\ KarigarOf[OrderOf[i]] \in Karigars
BY ProductionAssumption

LEMMA LinesAreIssues == Lines \subseteq Issues
BY ProductionAssumption

\* A weighed or approved line is the line of its issue's return.
LEMMA LineReturn ==
  ASSUME ProductionInv, NEW i \in Lines,
         line[i].status \in {"WEIGHED", "APPROVED"}
  PROVE  /\ issue[i].created
         /\ line[i].ret # 0 /\ ret[i].id = line[i].ret /\ ret[i].byLine
<1>1. /\ line[i].ret # 0 /\ ret[i] = [id |-> line[i].ret, byLine |-> TRUE]
      /\ line[i].status = "PENDING" <=> ~issue[i].created
  BY DEF ProductionInv, LineRows
<1> QED
  BY <1>1

\* When a request ends, what the other requests know must only be kept.
LEMMA SnapshotsKept ==
  ASSUME TypeOK, Snapshots, NEW r \in Requests, Answer(r),
         \A q \in Request : Snapshot(q) => Snapshot(q)'
  PROVE  Snapshots'
<1> SUFFICES ASSUME NEW s \in Requests
             PROVE  Snapshot(req[s])'
  BY DEF Snapshots
<1>1. CASE s = r
  <2>1. req'[s] = Idle
    BY <1>1 DEF Answer, TypeOK
  <2> QED
    BY <2>1 DEF Snapshot, Idle
<1>2. CASE s # r
  <2>1. req'[s] = req[s] /\ req[s] \in Request
    BY <1>2 DEF Answer, TypeOK
  <2>2. Snapshot(req[s])
    BY DEF Snapshots
  <2> QED
    BY <2>1, <2>2 DEF Snapshot, ApproveSnapshot
<1> QED
  BY <1>1, <1>2

\* A step that only changes what one request knows keeps the invariant when
\* what it knows is true.
LEMMA RequestKeepsInv ==
  ASSUME ProductionInv, TypeOK', UNCHANGED Tables, NEW r \in Requests,
         NEW q, Snapshot(q), req' = [req EXCEPT ![r] = q]
  PROVE  ProductionInv'
<1>1. Snapshots'
  <2> SUFFICES ASSUME NEW s \in Requests
               PROVE  Snapshot(req[s])'
    BY DEF Snapshots
  <2>1. req'[s] = IF s = r THEN q ELSE req[s]
    BY DEF ProductionInv, TypeOK
  <2>2. Snapshot(req[s])
    BY DEF ProductionInv, Snapshots
  <2> QED
    BY <2>1, <2>2 DEF Snapshot, ApproveSnapshot, Tables
<1>2. /\ (NeverOverdrawn /\ CompletedMeansApproved)'
      /\ (LineRows /\ ReturnRows /\ StockRows)'
      /\ (DisputeRows /\ ItemRows)'
  BY DEF ProductionInv, Tables, NeverOverdrawn, CompletedMeansApproved,
         LineRows, ReturnRows, StockRows, DisputeRows, DisputeIsTheDeficit,
         NotForSaleWhileDisputed, ItemRows, MeltedOnce
<1> QED
  BY <1>1, <1>2 DEF ProductionInv
-----------------------------------------------------------------------------
(* Requests and reads.                                                     *)

LEMMA RequestingInv ==
  ASSUME ProductionInv, NEW r \in Requests, Requesting(r)
  PROVE  ProductionInv'
<1>0. TypeOK /\ TypeOK'
  BY RequestingTypes DEF ProductionInv
<1>1. ASSUME NEW i \in Issues, NEW raw \in RawWeights,
             NEW applied \in AppliedWeights, NEW sources \in SUBSET Items,
             RequestIssue(r, i, raw, applied, sources)
      PROVE  ProductionInv'
  <2> DEFINE combined == raw + WeightOf[sources]
             q == [op |-> "issue", issue |-> i, weight |-> combined - applied,
                   applied |-> applied, sources |-> sources]
  <2>1. Snapshot(q)
    BY DEF Snapshot
  <2> QED
    BY <1>0, <1>1, <2>1, RequestKeepsInv DEF RequestIssue, Submit
<1>2. ASSUME NEW i \in Lines, NEW actual \in ActualWeights,
             RequestWeighIn(r, i, actual)
      PROVE  ProductionInv'
  <2> DEFINE q == [op |-> "weighIn", issue |-> i, row |-> line[i],
                   actual |-> actual, read |-> FALSE, pooled |-> 0]
  <2>1. Snapshot(q)
    BY DEF Snapshot
  <2> QED
    BY <1>0, <1>2, <2>1, RequestKeepsInv DEF RequestWeighIn, Submit
<1>3. ASSUME NEW i \in Lines, RequestCorrect(r, i)
      PROVE  ProductionInv'
  <2> DEFINE q == [op |-> "correct", issue |-> i, row |-> line[i]]
  <2>1. Snapshot(q)
    BY DEF Snapshot
  <2> QED
    BY <1>0, <1>3, <2>1, RequestKeepsInv DEF RequestCorrect, Submit
<1>4. ASSUME NEW i \in Lines, RequestApprove(r, i)
      PROVE  ProductionInv'
  <2> DEFINE q == [op |-> "approve", issue |-> i, row |-> line[i],
                   read |-> FALSE, hold |-> FALSE]
  <2>1. /\ line[i].ret # 0
        /\ ret[i].id = line[i].ret /\ ret[i].byLine
        /\ ret[i].id <= returnsMade[i]
    <3>1. i \in Issues /\ line[i].status = "WEIGHED"
      BY <1>4, LinesAreIssues DEF RequestApprove
    <3>2. ret[i].id <= returnsMade[i]
      BY <3>1 DEF ProductionInv, ReturnRows
    <3> QED
      BY <3>1, <3>2, LineReturn
  <2>2. ApproveSnapshot(q)
    BY <2>1 DEF ApproveSnapshot
  <2>3. Snapshot(q)
    BY <2>2 DEF Snapshot
  <2> QED
    BY <1>0, <1>4, <2>3, RequestKeepsInv DEF RequestApprove, Submit
<1>5. ASSUME NEW i \in Issues, NEW weight \in ActualWeights,
             RequestReturn(r, i, weight)
      PROVE  ProductionInv'
  <2> DEFINE q == [op |-> "return", issue |-> i, weight |-> weight]
  <2>1. Snapshot(q)
    BY <1>5 DEF Snapshot, RequestReturn
  <2> QED
    BY <1>0, <1>5, <2>1, RequestKeepsInv DEF RequestReturn, Submit
<1>6. ASSUME NEW o \in Orders, RequestComplete(r, o)
      PROVE  ProductionInv'
  <2> DEFINE q == [op |-> "complete", order |-> o, read |-> FALSE,
                   pooled |-> [m \in Metals |-> 0]]
  <2>1. Snapshot(q)
    BY <1>6 DEF Snapshot, RequestComplete
  <2> QED
    BY <1>0, <1>6, <2>1, RequestKeepsInv DEF RequestComplete, Submit
<1>7. ASSUME NEW i \in Issues, NEW how \in Resolutions,
             RequestResolve(r, i, how)
      PROVE  ProductionInv'
  <2> DEFINE q == [op |-> "resolve", issue |-> i, how |-> how]
  <2>1. Snapshot(q)
    BY <1>7 DEF Snapshot, RequestResolve
  <2> QED
    BY <1>0, <1>7, <2>1, RequestKeepsInv DEF RequestResolve, Submit
<1> QED
  BY <1>1, <1>2, <1>3, <1>4, <1>5, <1>6, <1>7 DEF Requesting

LEMMA ReadingInv ==
  ASSUME ProductionInv, NEW r \in Requests, Reading(r)
  PROVE  ProductionInv'
<1>0. TypeOK /\ TypeOK' /\ Snapshot(req[r]) /\ req[r] \in Request
  BY ReadingTypes DEF ProductionInv, Snapshots, TypeOK
<1>1. CASE ReadPool(r)
  <2> DEFINE q == [req[r] EXCEPT !.read = TRUE,
                     !.pooled = pool[OrderOf[req[r].issue]]
                                    [MetalOf[req[r].issue]]]
  <2>1. req[r] \in WeighRequest /\ req[r].op = "weighIn"
    BY <1>0, <1>1, RequestTypes DEF ReadPool
  <2>2. q.op = "weighIn"
    BY <2>1 DEF WeighRequest
  <2>3. Snapshot(q)
    BY <2>2 DEF Snapshot
  <2>4. req' = [req EXCEPT ![r] = q]
    BY <1>0, <1>1 DEF ReadPool, TypeOK
  <2> HIDE DEF q
  <2> QED
    BY <1>0, <1>1, <2>3, <2>4, RequestKeepsInv DEF ReadPool
<1>2. CASE ReadDispute(r)
  <2> DEFINE q == [req[r] EXCEPT !.read = TRUE,
                     !.hold = dispute[req[r].issue].status = "PENDING"]
  <2>1. req[r] \in ApproveRequest /\ req[r].op = "approve"
    BY <1>0, <1>2, RequestTypes DEF ReadDispute
  <2>2. /\ q.op = "approve"
        /\ q.issue = req[r].issue
        /\ q.row = req[r].row
        /\ q.hold = (dispute[req[r].issue].status = "PENDING")
    BY <2>1 DEF ApproveRequest
  <2>3. ApproveSnapshot(req[r])
    BY <1>0, <2>1 DEF Snapshot
  <2>4. req[r].issue \in Lines /\ req[r].issue \in Issues
    BY <2>1, LinesAreIssues DEF ApproveRequest
  <2>5. ASSUME line[req[r].issue].disputed, ~q.hold
        PROVE  dispute[req[r].issue].status = "RESOLVED"
    <3>1. dispute[req[r].issue].status \in {"NONE", "PENDING", "RESOLVED"}
      BY <1>0, <2>4 DEF TypeOK, DisputeRow
    <3>2. dispute[req[r].issue].status # "NONE"
      BY <2>4, <2>5 DEF ProductionInv, DisputeRows, DisputeIsTheDeficit
    <3> QED
      BY <2>2, <2>5, <3>1, <3>2
  <2> HIDE DEF q
  <2>6. ApproveSnapshot(q)
    BY <2>2, <2>3, <2>5 DEF ApproveSnapshot
  <2>7. Snapshot(q)
    BY <2>2, <2>6 DEF Snapshot
  <2>8. req' = [req EXCEPT ![r] = q]
    BY <1>0, <1>2 DEF ReadDispute, TypeOK, q
  <2> QED
    BY <1>0, <1>2, <2>7, <2>8, RequestKeepsInv DEF ReadDispute
<1>3. CASE ReadPools(r)
  <2> DEFINE q == [req[r] EXCEPT !.read = TRUE,
                     !.pooled = pool[req[r].order]]
  <2>1. req[r] \in CompleteRequest /\ req[r].op = "complete"
    BY <1>0, <1>3, RequestTypes DEF ReadPools
  <2>2. q.op = "complete" /\ q.order = req[r].order
    BY <2>1 DEF CompleteRequest
  <2> HIDE DEF q
  <2>3. Snapshot(q)
    BY <1>0, <2>1, <2>2 DEF Snapshot
  <2>4. req' = [req EXCEPT ![r] = q]
    BY <1>0, <1>3 DEF ReadPools, TypeOK, q
  <2> QED
    BY <1>0, <1>3, <2>3, <2>4, RequestKeepsInv DEF ReadPools
<1> QED
  BY <1>1, <1>2, <1>3 DEF Reading
-----------------------------------------------------------------------------
(* The transactions.                                                       *)

LEMMA CommitIssueInv ==
  ASSUME ProductionInv, NEW r \in Requests, CommitIssue(r)
  PROVE  ProductionInv'
<1> DEFINE q == req[r]
           i == q.issue
           k == KarigarOf[OrderOf[i]]
           m == MetalOf[i]
<1>0. TypeOK /\ TypeOK' /\ q \in IssueRequest
  BY CommitIssueTypes, RequestTypes DEF ProductionInv, TypeOK, CommitIssue
<1>1. /\ i \in Issues
      /\ ~issue[i].created /\ issue[i].sources = {}
      /\ ret[i].id = 0 /\ stock[i].status = "NONE"
      /\ i \in Lines => line[i].status = "PENDING"
  <2>1. i \in Issues /\ ~issue[i].created
    BY <1>0 DEF CommitIssue, IssueRequest
  <2>2. ret[i].id = 0
    BY <2>1 DEF ProductionInv, ReturnRows
  <2>3. stock[i].status = "NONE"
    BY <2>1, <2>2 DEF ProductionInv, StockRows
  <2> QED
    BY <2>1, <2>2, <2>3 DEF ProductionInv, ItemRows, CommitIssue
<1>2. /\ \A j \in Lines : j # i => line'[j] = line[j]
      /\ i \in Lines => /\ line'[i].status = "ISSUED"
                        /\ line'[i].ret = line[i].ret
                        /\ line'[i].actual = line[i].actual
                        /\ line'[i].surplus = line[i].surplus
                        /\ line'[i].deficit = line[i].deficit
                        /\ line'[i].disputed = line[i].disputed
  <2>1. CASE i \in Lines
    <3>1. line' = [line EXCEPT ![i].status = "ISSUED",
                     ![i].allowed = q.weight - Expected[i]]
      BY <2>1 DEF CommitIssue
    <3>2. line \in [Lines -> LineRow]
      BY <1>0 DEF TypeOK
    <3> QED
      BY <2>1, <3>1, <3>2 DEF LineRow
  <2>2. CASE i \notin Lines
    BY <2>2 DEF CommitIssue
  <2> QED
    BY <2>1, <2>2
<1>3. /\ \A j \in Issues : j # i => issue'[j] = issue[j]
      /\ issue'[i].created /\ issue'[i].sources = q.sources
  BY <1>0, <1>1 DEF CommitIssue, TypeOK
<1>4. /\ UNCHANGED <<orderStatus, ret, returnsMade, dispute, stock, pool>>
      /\ Answer(r)
  BY DEF CommitIssue
<1>5. NeverOverdrawn'
  <2>1. -q.applied \in Int /\ k \in Karigars /\ m \in Metals
    BY <1>0, <1>1, IssueParts DEF IssueRequest
  <2>2. balance' = AddTo(balance, k, m, -q.applied)
    BY DEF CommitIssue
  <2>3. balance \in [Karigars -> [Metals -> Int]] /\ q.applied \in Int
    BY <1>0 DEF TypeOK, IssueRequest
  <2>4. \A c \in Karigars, n \in Metals :
          balance'[c][n] = IF c = k /\ n = m THEN balance[c][n] + (-q.applied)
                                            ELSE balance[c][n]
    BY <2>1, <2>2, <2>3 DEF AddTo
  <2>5. balance[k][m] >= q.applied /\ balance[k][m] \in Int
    BY <2>1, <2>3 DEF CommitIssue, Owes
  <2>6. \A c \in Karigars, n \in Metals : balance'[c][n] >= 0
    BY <2>3, <2>4, <2>5 DEF ProductionInv, NeverOverdrawn
  <2> QED
    BY <1>4, <2>6 DEF ProductionInv, NeverOverdrawn
<1>6. CompletedMeansApproved'
  BY <1>1, <1>2, <1>4 DEF ProductionInv, CompletedMeansApproved, LinesOf
<1>7. LineRows'
  BY <1>1, <1>2, <1>3, <1>4, LinesAreIssues DEF ProductionInv, LineRows
<1>8. ReturnRows'
  BY <1>1, <1>2, <1>3, <1>4 DEF ProductionInv, ReturnRows
<1>9. StockRows'
  BY <1>1, <1>2, <1>4 DEF ProductionInv, StockRows, ReturnRows
<1>10. DisputeRows'
  BY <1>1, <1>2, <1>4 DEF ProductionInv, DisputeRows, DisputeIsTheDeficit,
     NotForSaleWhileDisputed, LineRows
<1>11. ItemRows'
  <2>1. \A s \in q.sources : s \in Items /\ item[s] = "IN_STOCK"
    BY <1>0 DEF CommitIssue, AllInStock, IssueRequest
  <2>2. \A s \in Items :
          item'[s] = IF s \in q.sources THEN "IN_REMAKE" ELSE item[s]
    BY DEF CommitIssue
  <2>3. \A j \in Issues : \A s \in issue[j].sources :
          s \in Items /\ item[s] # "IN_STOCK"
    BY <1>0 DEF ProductionInv, ItemRows, MeltedOnce, TypeOK, IssueRow
  <2>4. \A j \in Issues : issue[j].sources \intersect q.sources = {}
    BY <2>1, <2>3
  <2> QED
    BY <1>1, <1>3, <1>4, <2>1, <2>2, <2>3, <2>4
       DEF ProductionInv, ItemRows, MeltedOnce
<1>12. Snapshots'
  <2> SUFFICES ASSUME NEW p \in Request, Snapshot(p)
               PROVE  Snapshot(p)'
    BY <1>0, <1>4, SnapshotsKept DEF ProductionInv
  <2>1. ASSUME p.op = "approve" PROVE ApproveSnapshot(p)'
    <3>1. p.issue \in Lines
      BY <2>1, RequestTypes DEF ApproveRequest
    <3> QED
      BY <1>2, <1>4, <2>1, <3>1 DEF Snapshot, ApproveSnapshot
  <2>2. ASSUME p.op = "return" PROVE issue'[p.issue].created
    <3>1. p.issue \in Issues
      BY <2>2, RequestTypes DEF ReturnRequest
    <3> QED
      BY <1>3, <2>2, <3>1 DEF Snapshot
  <2>3. ASSUME p.op = "complete", NEW j \in LinesOf(p.order)
        PROVE  line'[j].status = "APPROVED"
    BY <1>1, <1>2, <2>3 DEF Snapshot, LinesOf
  <2> QED
    BY <1>4, <2>1, <2>2, <2>3 DEF Snapshot, LinesOf
<1> QED
  BY <1>0, <1>5, <1>6, <1>7, <1>8, <1>9, <1>10, <1>11, <1>12
     DEF ProductionInv
LEMMA CommitWeighInInv ==
  ASSUME ProductionInv, NEW r \in Requests, CommitWeighIn(r)
  PROVE  ProductionInv'
<1> DEFINE q == req[r]
           i == q.issue
           o == OrderOf[i]
           m == MetalOf[i]
           spare == q.row.allowed - LossOf(i, q.actual)
           short == NeedsPool(q)
           surplus == IF short THEN 0 ELSE Material(spare)
           cover == IF short
                    THEN CoverFrom(-spare, q.pooled, pool[o][m]) ELSE 0
           uncovered == IF short THEN Material(-spare - cover) ELSE 0
           id == returnsMade[i] + 1
<1>0. TypeOK /\ TypeOK' /\ q \in WeighRequest
  BY CommitWeighInTypes, RequestTypes DEF ProductionInv, TypeOK, CommitWeighIn
<1>1. /\ i \in Lines /\ i \in Issues /\ o \in Orders /\ m \in Metals
      /\ ret[i].id = 0 /\ line[i].status = "ISSUED" /\ issue[i].created
      /\ stock[i].status = "NONE" /\ dispute[i].status = "NONE"
  <2>1. i \in Lines /\ i \in Issues /\ o \in Orders /\ m \in Metals
    BY <1>0, LinesAreIssues, IssueParts DEF WeighRequest
  <2>2. ret[i].id = 0 /\ line[i].status = "ISSUED"
    <3>1. ret[i] = NoReturn /\ line[i].status = "ISSUED"
      BY DEF CommitWeighIn, NoReturnYet
    <3> QED
      BY <3>1 DEF NoReturn
  <2>3. issue[i].created
    BY <2>1, <2>2 DEF ProductionInv, LineRows
  <2>4. stock[i].status = "NONE" /\ dispute[i].status = "NONE"
    BY <2>1, <2>2 DEF ProductionInv, StockRows, DisputeRows
  <2> QED
    BY <2>1, <2>2, <2>3, <2>4
<1>2. /\ spare \in Int
      /\ q.pooled \in Int
      /\ pool[o][m] \in Int
      /\ id \in Nat /\ id # 0
  BY <1>0, <1>1 DEF TypeOK, WeighRequest, LineRow, IssueRow, LossOf
<1> HIDE DEF spare
<1>3. /\ surplus \in Nat /\ cover \in Nat
      /\ cover > 0 => surplus = 0 /\ cover <= pool[o][m]
  <2>1. CASE short
    <3>1. -spare \in Int
      BY <1>2
    <3> QED
      BY <1>2, <2>1, <3>1, CoverType
  <2>2. CASE ~short
    BY <1>2, <2>2, MaterialType
  <2> QED
    BY <2>1, <2>2
<1>4. uncovered \in Nat /\ (uncovered > 0 => surplus = 0)
  <2>1. -spare - cover \in Int
    BY <1>2, <1>3
  <2> QED
    BY <2>1, MaterialType
<1>5. /\ pool' = AddTo(pool, o, m, surplus - cover)
      /\ returnsMade' = [returnsMade EXCEPT ![i] = @ + 1]
      /\ ret' = [ret EXCEPT ![i] = [id |-> id, byLine |-> TRUE]]
      /\ dispute' = IF uncovered > 0
                    THEN [dispute EXCEPT ![i] =
                            [status |-> "PENDING", excess |-> uncovered,
                             how |-> "NONE"]]
                    ELSE dispute
      /\ line' = [line EXCEPT ![i] =
                    [status |-> "WEIGHED", allowed |-> @.allowed,
                     ret |-> id, actual |-> q.actual,
                     surplus |-> surplus, deficit |-> uncovered,
                     disputed |-> uncovered > 0]]
      /\ UNCHANGED <<orderStatus, issue, stock, item, balance>>
      /\ Answer(r)
  BY DEF CommitWeighIn, spare
<1> HIDE DEF surplus, cover, uncovered
<1>6. /\ \A j \in Lines : j # i => line'[j] = line[j]
      /\ line'[i].status = "WEIGHED" /\ line'[i].ret = id
      /\ line'[i].surplus = surplus /\ line'[i].deficit = uncovered
      /\ line'[i].disputed = (uncovered > 0)
  BY <1>0, <1>1, <1>5 DEF TypeOK
<1>7. /\ \A j \in Issues : j # i => ret'[j] = ret[j]
      /\ ret'[i] = [id |-> id, byLine |-> TRUE]
      /\ \A j \in Issues : j # i => returnsMade'[j] = returnsMade[j]
      /\ returnsMade'[i] = id
  BY <1>0, <1>1, <1>5 DEF TypeOK
<1>8. /\ \A j \in Issues : j # i => dispute'[j] = dispute[j]
      /\ uncovered > 0 => /\ dispute'[i].status = "PENDING"
                          /\ dispute'[i].excess = uncovered
      /\ ~(uncovered > 0) => dispute'[i] = dispute[i]
  BY <1>0, <1>1, <1>5 DEF TypeOK
<1>9. NeverOverdrawn'
  <2>1. pool \in [Orders -> [Metals -> Int]] /\ surplus - cover \in Int
    BY <1>0, <1>3 DEF TypeOK
  <2>2. \A p \in Orders, n \in Metals :
          pool'[p][n] = IF p = o /\ n = m THEN pool[p][n] + (surplus - cover)
                                         ELSE pool[p][n]
    BY <1>1, <1>5, <2>1 DEF AddTo
  <2>3. pool[o][m] >= 0
    BY <1>1 DEF ProductionInv, NeverOverdrawn
  <2>4. pool[o][m] + (surplus - cover) >= 0
    BY <1>2, <1>3, <2>3
  <2>5. \A p \in Orders, n \in Metals : pool'[p][n] >= 0
    BY <2>1, <2>2, <2>4 DEF ProductionInv, NeverOverdrawn
  <2> QED
    BY <1>5, <2>5 DEF ProductionInv, NeverOverdrawn
<1>10. CompletedMeansApproved'
  BY <1>1, <1>5, <1>6 DEF ProductionInv, CompletedMeansApproved, LinesOf
<1>11. LineRows'
  <2> SUFFICES ASSUME NEW j \in Lines
               PROVE  /\ line'[j].status = "PENDING" <=> ~issue'[j].created
                      /\ line'[j].status \in {"PENDING", "ISSUED"} =>
                           /\ line'[j].ret = 0
                           /\ ~line'[j].disputed
                           /\ line'[j].surplus = 0
                           /\ line'[j].deficit = 0
                      /\ line'[j].status \in {"WEIGHED", "APPROVED"} =>
                           /\ line'[j].ret # 0
                           /\ ret'[j] = [id |-> line'[j].ret,
                                        byLine |-> TRUE]
    BY DEF LineRows
  <2>1. CASE j = i
    BY <1>1, <1>2, <1>5, <1>6, <1>7, <2>1
  <2>2. CASE j # i
    <3>1. line'[j] = line[j] /\ ret'[j] = ret[j] /\ issue' = issue
      BY <1>5, <1>6, <1>7, <2>2, LinesAreIssues
    <3> QED
      BY <3>1 DEF ProductionInv, LineRows
  <2> QED
    BY <2>1, <2>2
<1>12. ReturnRows'
  BY <1>0, <1>1, <1>2, <1>5, <1>6, <1>7
     DEF ProductionInv, ReturnRows, TypeOK, ReturnRow
<1>13. StockRows'
  BY <1>1, <1>5, <1>6, <1>7 DEF ProductionInv, StockRows
<1>14. DisputeRows'
  <2>1. DisputeIsTheDeficit'
    <3>1. /\ line'[i].disputed => /\ dispute'[i].status # "NONE"
                                  /\ dispute'[i].excess = line'[i].deficit
          /\ line'[i].disputed <=> line'[i].deficit > 0
          /\ line'[i].deficit > 0 => line'[i].surplus = 0
      BY <1>1, <1>4, <1>6, <1>8
    <3>2. \A j \in Lines : j # i => line'[j] = line[j]
                                  /\ dispute'[j] = dispute[j]
      BY <1>6, <1>8, LinesAreIssues
    <3> QED
      BY <3>1, <3>2 DEF ProductionInv, DisputeRows, DisputeIsTheDeficit
  <2>2. NotForSaleWhileDisputed'
    BY <1>1, <1>5, <1>8
       DEF ProductionInv, DisputeRows, NotForSaleWhileDisputed
  <2>3. \A j \in Issues : ret'[j].id = 0 => dispute'[j].status = "NONE"
    BY <1>2, <1>7, <1>8 DEF ProductionInv, DisputeRows
  <2>4. \A j \in Lines :
          line'[j].status \in {"WEIGHED", "APPROVED"} /\ ~line'[j].disputed
            => dispute'[j].status = "NONE"
    BY <1>1, <1>6, <1>8, LinesAreIssues DEF ProductionInv, DisputeRows
  <2> QED
    BY <2>1, <2>2, <2>3, <2>4 DEF DisputeRows
<1>15. ItemRows'
  BY <1>5 DEF ProductionInv, ItemRows, MeltedOnce
<1>16. Snapshots'
  <2> SUFFICES ASSUME NEW p \in Request, Snapshot(p)
               PROVE  Snapshot(p)'
    BY <1>0, <1>5, SnapshotsKept DEF ProductionInv
  <2>1. ASSUME p.op = "approve" PROVE ApproveSnapshot(p)'
    <3>1. /\ p.issue \in Lines /\ p.issue \in Issues
          /\ p.row.ret \in Nat /\ ApproveSnapshot(p)
          /\ returnsMade[p.issue] \in Nat
      BY <1>0, <2>1, RequestTypes, LinesAreIssues
         DEF ApproveRequest, LineRow, Snapshot, TypeOK
    <3>2. CASE p.issue = i
      BY <1>2, <1>7, <3>1, <3>2 DEF ApproveSnapshot
    <3>3. CASE p.issue # i
      BY <1>6, <1>7, <1>8, <3>1, <3>3 DEF ApproveSnapshot
    <3> QED
      BY <3>2, <3>3
  <2>2. ASSUME p.op = "complete", NEW j \in LinesOf(p.order)
        PROVE  line'[j].status = "APPROVED"
    BY <1>1, <1>6, <2>2 DEF Snapshot, LinesOf
  <2>3. ASSUME p.op = "resolve" PROVE dispute'[p.issue].status # "NONE"
    <3>1. p.issue \in Issues
      BY <2>3, RequestTypes DEF ResolveRequest
    <3> QED
      BY <1>1, <1>8, <2>3, <3>1 DEF Snapshot
  <2> QED
    BY <1>5, <2>1, <2>2, <2>3 DEF Snapshot, LinesOf
<1> QED
  BY <1>0, <1>9, <1>10, <1>11, <1>12, <1>13, <1>14, <1>15, <1>16
     DEF ProductionInv

LEMMA CommitCorrectInv ==
  ASSUME ProductionInv, NEW r \in Requests, CommitCorrect(r)
  PROVE  ProductionInv'
<1> DEFINE q == req[r]
           i == q.issue
           o == OrderOf[i]
           m == MetalOf[i]
           given == GivenBack(i, q.row)
<1>0. TypeOK /\ TypeOK' /\ q \in CorrectRequest
  BY CommitCorrectTypes, RequestTypes DEF ProductionInv, TypeOK, CommitCorrect
<1>1. /\ i \in Lines /\ i \in Issues /\ o \in Orders /\ m \in Metals
      /\ line[i].status = "WEIGHED" /\ ~line[i].disputed
      /\ stock[i].status = "NONE" /\ dispute[i].status = "NONE"
      /\ issue[i].created
  <2>1. i \in Lines /\ i \in Issues /\ o \in Orders /\ m \in Metals
    BY <1>0, LinesAreIssues, IssueParts DEF CorrectRequest
  <2>2. line[i].status = "WEIGHED" /\ ~line[i].disputed
    BY DEF CommitCorrect
  <2>3. ret[i].byLine /\ issue[i].created
    BY <2>1, <2>2, LineReturn
  <2>4. stock[i].status = "NONE"
    BY <2>1, <2>2, <2>3 DEF ProductionInv, StockRows
  <2>5. dispute[i].status = "NONE"
    BY <2>1, <2>2 DEF ProductionInv, DisputeRows
  <2> QED
    BY <2>1, <2>2, <2>3, <2>4, <2>5
<1>2. /\ pool' = AddTo(pool, o, m, given)
      /\ line' = [line EXCEPT ![i] = [NewLine EXCEPT
                    !.status = "ISSUED", !.allowed = line[i].allowed]]
      /\ ret' = [ret EXCEPT ![i] = NoReturn]
      /\ UNCHANGED <<orderStatus, issue, returnsMade, dispute, stock, item,
                     balance>>
      /\ Answer(r)
  BY DEF CommitCorrect
<1>3. given \in Int /\ pool[o][m] + given >= 0
  <2>1. /\ LossOf(i, q.row.actual) \in Int
        /\ q.row.surplus \in Int
        /\ q.row.allowed \in Int
        /\ q.row.deficit \in Int
    BY <1>0, <1>1 DEF TypeOK, CorrectRequest, LineRow, IssueRow, LossOf
  <2>2. LossOf(i, q.row.actual) - q.row.allowed - q.row.deficit \in Int
    BY <2>1
  <2>3. Material(LossOf(i, q.row.actual) - q.row.allowed - q.row.deficit)
          \in Nat
    BY <2>2, MaterialType
  <2>4. pool[o][m] \in Int /\ pool[o][m] >= 0
    BY <1>0, <1>1 DEF TypeOK, ProductionInv, NeverOverdrawn
  <2>5. CASE q.row.surplus > Eps
    <3>1. given = -q.row.surplus
      BY <2>5 DEF GivenBack
    <3>2. pool[o][m] >= q.row.surplus
      BY <2>5 DEF CommitCorrect, Holds
    <3> QED
      BY <2>1, <2>4, <3>1, <3>2
  <2>6. CASE ~(q.row.surplus > Eps)
    <3>1. given \in Nat
      BY <2>3, <2>6 DEF GivenBack
    <3> QED
      BY <2>4, <3>1
  <2> QED
    BY <2>5, <2>6
<1> HIDE DEF given
<1>4. /\ \A j \in Lines : j # i => line'[j] = line[j]
      /\ line'[i].status = "ISSUED" /\ line'[i].ret = 0
      /\ line'[i].surplus = 0 /\ line'[i].deficit = 0
      /\ ~line'[i].disputed
  BY <1>0, <1>1, <1>2 DEF TypeOK, NewLine
<1>5. /\ \A j \in Issues : j # i => ret'[j] = ret[j]
      /\ ret'[i] = NoReturn /\ ret'[i].id = 0 /\ ~ret'[i].byLine
  BY <1>0, <1>1, <1>2 DEF TypeOK, NoReturn
<1>6. NeverOverdrawn'
  <2>1. pool \in [Orders -> [Metals -> Int]]
    BY <1>0 DEF TypeOK
  <2>2. \A p \in Orders, n \in Metals :
          pool'[p][n] = IF p = o /\ n = m THEN pool[p][n] + given
                                         ELSE pool[p][n]
    BY <1>1, <1>2, <1>3, <2>1 DEF AddTo
  <2>3. \A p \in Orders, n \in Metals : pool'[p][n] >= 0
    BY <1>3, <2>1, <2>2 DEF ProductionInv, NeverOverdrawn
  <2> QED
    BY <1>2, <2>3 DEF ProductionInv, NeverOverdrawn
<1>7. CompletedMeansApproved'
  BY <1>1, <1>2, <1>4 DEF ProductionInv, CompletedMeansApproved, LinesOf
<1>8. LineRows'
  BY <1>1, <1>2, <1>4, <1>5, LinesAreIssues DEF ProductionInv, LineRows
<1>9. ReturnRows'
  BY <1>0, <1>1, <1>2, <1>4, <1>5 DEF ProductionInv, ReturnRows, TypeOK
<1>10. StockRows'
  BY <1>1, <1>2, <1>4, <1>5 DEF ProductionInv, StockRows
<1>11. DisputeRows'
  BY <1>1, <1>2, <1>4, <1>5
     DEF ProductionInv, DisputeRows, DisputeIsTheDeficit,
         NotForSaleWhileDisputed
<1>12. ItemRows'
  BY <1>2 DEF ProductionInv, ItemRows, MeltedOnce
<1>13. Snapshots'
  <2> SUFFICES ASSUME NEW p \in Request, Snapshot(p)
               PROVE  Snapshot(p)'
    BY <1>0, <1>2, SnapshotsKept DEF ProductionInv
  <2>1. ASSUME p.op = "approve" PROVE ApproveSnapshot(p)'
    <3>1. /\ p.issue \in Lines /\ p.issue \in Issues
          /\ ApproveSnapshot(p)
      BY <2>1, RequestTypes, LinesAreIssues DEF ApproveRequest, Snapshot
    <3>2. CASE p.issue = i
      BY <1>2, <1>5, <3>1, <3>2 DEF ApproveSnapshot
    <3>3. CASE p.issue # i
      BY <1>2, <1>4, <1>5, <3>1, <3>3 DEF ApproveSnapshot
    <3> QED
      BY <3>2, <3>3
  <2>2. ASSUME p.op = "complete", NEW j \in LinesOf(p.order)
        PROVE  line'[j].status = "APPROVED"
    BY <1>1, <1>4, <2>2 DEF Snapshot, LinesOf
  <2> QED
    BY <1>2, <2>1, <2>2 DEF Snapshot, LinesOf
<1> QED
  BY <1>0, <1>6, <1>7, <1>8, <1>9, <1>10, <1>11, <1>12, <1>13
     DEF ProductionInv
LEMMA CommitApproveInv ==
  ASSUME ProductionInv, NEW r \in Requests, CommitApprove(r)
  PROVE  ProductionInv'
<1> DEFINE q == req[r]
           i == q.issue
<1>0. TypeOK /\ TypeOK' /\ q \in ApproveRequest /\ q.op = "approve"
  BY CommitApproveTypes, RequestTypes DEF ProductionInv, TypeOK, CommitApprove
<1>1. /\ i \in Lines /\ i \in Issues
      /\ line[i].status = "WEIGHED"
      /\ ret[i].id = line[i].ret /\ ret[i].byLine
      /\ ret[i].id # 0 /\ ret[i].id = q.row.ret
      /\ issue[i].created
  <2>1. i \in Lines /\ i \in Issues
    BY <1>0, LinesAreIssues DEF ApproveRequest
  <2>2. line[i].status = "WEIGHED" /\ ret[i].id = q.row.ret
    BY DEF CommitApprove, ReturnStillThere
  <2> QED
    BY <2>1, <2>2, LineReturn
<1>2. /\ line[i].actual = q.row.actual
      /\ ~q.hold => dispute[i].status # "PENDING"
  <2>1. ApproveSnapshot(q)
    BY <1>0 DEF ProductionInv, Snapshots, Snapshot
  <2>2. /\ line[i].actual = q.row.actual
        /\ line[i].disputed = q.row.disputed
        /\ line[i].disputed /\ q.read /\ ~q.hold =>
             dispute[i].status = "RESOLVED"
    BY <1>1, <2>1 DEF ApproveSnapshot
  <2>3. q.row.disputed => q.read
    BY DEF CommitApprove
  <2>4. ~line[i].disputed => dispute[i].status = "NONE"
    BY <1>1 DEF ProductionInv, DisputeRows
  <2> QED
    BY <2>2, <2>3, <2>4
<1>3. /\ \A j \in Issues : j # i => stock'[j] = stock[j]
      /\ stock'[i].status = IF q.hold THEN "UNDER_DISPUTE" ELSE "IN_STOCK"
      /\ stock'[i].weight = q.row.actual
      /\ stock'[i].ret = q.row.ret
  BY <1>0, <1>1 DEF CommitApprove, TypeOK
<1>4. /\ \A j \in Lines : j # i => line'[j] = line[j]
      /\ line'[i].status = "APPROVED"
      /\ line'[i].ret = line[i].ret
      /\ line'[i].actual = line[i].actual
      /\ line'[i].surplus = line[i].surplus
      /\ line'[i].deficit = line[i].deficit
      /\ line'[i].disputed = line[i].disputed
  <2>1. line' = [line EXCEPT ![i].status = "APPROVED"]
    BY DEF CommitApprove
  <2>2. line \in [Lines -> LineRow]
    BY <1>0 DEF TypeOK
  <2> QED
    BY <1>1, <2>1, <2>2 DEF LineRow
<1>5. /\ \A s \in Items :
           item'[s] = IF s \in issue[i].sources THEN "REMADE" ELSE item[s]
      /\ UNCHANGED <<orderStatus, issue, ret, returnsMade, dispute, pool,
                     balance>>
      /\ Answer(r)
  BY DEF CommitApprove
<1>6. NeverOverdrawn'
  BY <1>5 DEF ProductionInv, NeverOverdrawn
<1>7. CompletedMeansApproved'
  BY <1>4, <1>5 DEF ProductionInv, CompletedMeansApproved, LinesOf
<1>8. LineRows'
  <2> SUFFICES ASSUME NEW j \in Lines
               PROVE  /\ line'[j].status = "PENDING" <=> ~issue'[j].created
                      /\ line'[j].status \in {"PENDING", "ISSUED"} =>
                           /\ line'[j].ret = 0
                           /\ ~line'[j].disputed
                           /\ line'[j].surplus = 0
                           /\ line'[j].deficit = 0
                      /\ line'[j].status \in {"WEIGHED", "APPROVED"} =>
                           /\ line'[j].ret # 0
                           /\ ret'[j] = [id |-> line'[j].ret,
                                        byLine |-> TRUE]
    BY DEF LineRows
  <2>1. CASE j = i
    <3>1. ret[i] = [id |-> line[i].ret, byLine |-> TRUE]
      BY <1>1 DEF ProductionInv, LineRows
    <3> QED
      BY <1>1, <1>4, <1>5, <2>1, <3>1
  <2>2. CASE j # i
    BY <1>4, <1>5, <2>2 DEF ProductionInv, LineRows
  <2> QED
    BY <2>1, <2>2
<1>9. ReturnRows'
  BY <1>1, <1>3, <1>4, <1>5 DEF ProductionInv, ReturnRows
<1>10. StockRows'
  BY <1>1, <1>2, <1>3, <1>4, <1>5 DEF ProductionInv, StockRows
<1>11. DisputeRows'
  <2>1. DisputeIsTheDeficit'
    BY <1>1, <1>4, <1>5 DEF ProductionInv, DisputeRows, DisputeIsTheDeficit
  <2>2. NotForSaleWhileDisputed'
    BY <1>2, <1>3, <1>5
       DEF ProductionInv, DisputeRows, NotForSaleWhileDisputed
  <2>3. \A j \in Lines :
          line'[j].status \in {"WEIGHED", "APPROVED"} /\ ~line'[j].disputed
            => dispute'[j].status = "NONE"
    BY <1>1, <1>4, <1>5 DEF ProductionInv, DisputeRows
  <2> QED
    BY <1>5, <2>1, <2>2, <2>3 DEF ProductionInv, DisputeRows
<1>12. ItemRows'
  <2>1. \A j \in Issues : issue[j].sources \subseteq Items
    BY <1>0 DEF TypeOK, IssueRow
  <2>2. \A j \in Issues : j # i =>
          issue[i].sources \intersect issue[j].sources = {}
    BY <1>1 DEF ProductionInv, ItemRows, MeltedOnce
  <2>3. stock'[i].status # "NONE"
    BY <1>3
  <2> QED
    BY <1>1, <1>3, <1>5, <2>1, <2>2, <2>3
       DEF ProductionInv, ItemRows, MeltedOnce
<1>13. Snapshots'
  <2> SUFFICES ASSUME NEW p \in Request, Snapshot(p)
               PROVE  Snapshot(p)'
    BY <1>0, <1>5, SnapshotsKept DEF ProductionInv
  <2>1. ASSUME p.op = "approve" PROVE ApproveSnapshot(p)'
    <3>1. p.issue \in Lines /\ ApproveSnapshot(p)
      BY <2>1, RequestTypes DEF ApproveRequest, Snapshot
    <3> QED
      BY <1>4, <1>5, <3>1 DEF ApproveSnapshot
  <2>2. ASSUME p.op = "complete", NEW j \in LinesOf(p.order)
        PROVE  line'[j].status = "APPROVED"
    BY <1>4, <2>2 DEF Snapshot, LinesOf
  <2> QED
    BY <1>5, <2>1, <2>2 DEF Snapshot, LinesOf
<1> QED
  BY <1>0, <1>6, <1>7, <1>8, <1>9, <1>10, <1>11, <1>12, <1>13
     DEF ProductionInv

LEMMA CommitReturnInv ==
  ASSUME ProductionInv, NEW r \in Requests, CommitReturn(r)
  PROVE  ProductionInv'
<1> DEFINE q == req[r]
           i == q.issue
           within == LossOf(i, q.weight) <= MaxWaste(i) + Eps
           id == returnsMade[i] + 1
<1>0. TypeOK /\ TypeOK' /\ q \in ReturnRequest /\ q.op = "return"
  BY CommitReturnTypes, RequestTypes DEF ProductionInv, TypeOK, CommitReturn
<1>1. /\ i \in Issues /\ issue[i].created
      /\ ret[i].id = 0
      /\ stock[i].status = "NONE" /\ dispute[i].status = "NONE"
      /\ i \in Lines => line[i].status = "ISSUED"
  <2>1. i \in Issues
    BY <1>0 DEF ReturnRequest
  <2>2. issue[i].created
    BY <1>0 DEF ProductionInv, Snapshots, Snapshot
  <2>3. ret[i].id = 0
    <3>1. ret[i] = NoReturn
      BY DEF CommitReturn, NoReturnYet
    <3> QED
      BY <3>1 DEF NoReturn
  <2>4. stock[i].status = "NONE" /\ dispute[i].status = "NONE"
    BY <2>1, <2>3 DEF ProductionInv, StockRows, DisputeRows
  <2>5. i \in Lines => line[i].status = "ISSUED"
    <3> HAVE i \in Lines
    <3>1. line[i].status \notin {"WEIGHED", "APPROVED"}
      BY <2>3, LineReturn
    <3>2. line[i].status # "PENDING"
      BY <2>2 DEF ProductionInv, LineRows
    <3>3. line[i].status \in {"PENDING", "ISSUED", "WEIGHED", "APPROVED"}
      BY <1>0 DEF TypeOK, LineRow
    <3> QED
      BY <3>1, <3>2, <3>3
  <2> QED
    BY <2>1, <2>2, <2>3, <2>4, <2>5
<1>2. id \in Nat /\ id # 0
  BY <1>0, <1>1 DEF TypeOK
<1>3. /\ \A j \in Issues : j # i => ret'[j] = ret[j]
      /\ ret'[i].id = id /\ ~ret'[i].byLine
      /\ \A j \in Issues : j # i => returnsMade'[j] = returnsMade[j]
      /\ returnsMade'[i] = id
  BY <1>0, <1>1 DEF CommitReturn, TypeOK
<1>4. /\ \A j \in Issues : j # i => stock'[j] = stock[j]
      /\ stock'[i].status = IF within THEN "IN_STOCK" ELSE "UNDER_DISPUTE"
      /\ stock'[i].ret = id
  BY <1>0, <1>1 DEF CommitReturn, TypeOK
<1>5. /\ \A j \in Issues : j # i => dispute'[j] = dispute[j]
      /\ within => dispute'[i] = dispute[i]
  BY <1>0, <1>1 DEF CommitReturn, TypeOK
<1>6. /\ \A s \in Items :
           item'[s] = IF s \in issue[i].sources THEN "REMADE" ELSE item[s]
      /\ UNCHANGED <<orderStatus, issue, line, pool, balance>>
      /\ Answer(r)
  BY DEF CommitReturn
<1> HIDE DEF within, id
<1>7. /\ NeverOverdrawn'
      /\ CompletedMeansApproved'
  BY <1>6 DEF ProductionInv, NeverOverdrawn, CompletedMeansApproved
<1>8. LineRows'
  <2>1. \A j \in Lines : line[j].status \in {"WEIGHED", "APPROVED"} =>
          j \in Issues /\ j # i
    BY <1>1, LinesAreIssues
  <2> QED
    BY <1>3, <1>6, <2>1 DEF ProductionInv, LineRows
<1>9. ReturnRows'
  BY <1>0, <1>1, <1>2, <1>3, <1>4, <1>6
     DEF ProductionInv, ReturnRows, TypeOK
<1>10. StockRows'
  BY <1>1, <1>2, <1>3, <1>4, <1>6 DEF ProductionInv, StockRows
<1>11. DisputeRows'
  <2>1. DisputeIsTheDeficit'
    BY <1>1, <1>5, <1>6, LinesAreIssues
       DEF ProductionInv, DisputeRows, DisputeIsTheDeficit, LineRows
  <2>2. NotForSaleWhileDisputed'
    BY <1>1, <1>4, <1>5
       DEF ProductionInv, DisputeRows, NotForSaleWhileDisputed
  <2>3. \A j \in Issues : ret'[j].id = 0 => dispute'[j].status = "NONE"
    BY <1>2, <1>3, <1>5 DEF ProductionInv, DisputeRows
  <2>4. \A j \in Lines :
          line'[j].status \in {"WEIGHED", "APPROVED"} /\ ~line'[j].disputed
            => dispute'[j].status = "NONE"
    BY <1>1, <1>5, <1>6, LinesAreIssues DEF ProductionInv, DisputeRows
  <2> QED
    BY <2>1, <2>2, <2>3, <2>4 DEF DisputeRows
<1>12. ItemRows'
  <2>1. \A j \in Issues : issue[j].sources \subseteq Items
    BY <1>0 DEF TypeOK, IssueRow
  <2>2. \A j \in Issues : j # i =>
          issue[i].sources \intersect issue[j].sources = {}
    BY <1>1 DEF ProductionInv, ItemRows, MeltedOnce
  <2>3. stock'[i].status # "NONE"
    BY <1>4
  <2> QED
    BY <1>1, <1>4, <1>6, <2>1, <2>2, <2>3
       DEF ProductionInv, ItemRows, MeltedOnce
<1>13. Snapshots'
  <2> SUFFICES ASSUME NEW p \in Request, Snapshot(p)
               PROVE  Snapshot(p)'
    BY <1>0, <1>6, SnapshotsKept DEF ProductionInv
  <2>1. ASSUME p.op = "approve" PROVE ApproveSnapshot(p)'
    <3>1. /\ p.issue \in Lines /\ p.issue \in Issues
          /\ p.row.ret \in Nat /\ ApproveSnapshot(p)
          /\ returnsMade[p.issue] \in Nat
      BY <1>0, <2>1, RequestTypes, LinesAreIssues
         DEF ApproveRequest, LineRow, Snapshot, TypeOK
    <3>2. CASE p.issue = i
      BY <1>3, <3>1, <3>2 DEF ApproveSnapshot, id
    <3>3. CASE p.issue # i
      BY <1>3, <1>5, <1>6, <3>1, <3>3 DEF ApproveSnapshot
    <3> QED
      BY <3>2, <3>3
  <2>2. ASSUME p.op = "resolve" PROVE dispute'[p.issue].status # "NONE"
    <3>1. p.issue \in Issues
      BY <2>2, RequestTypes DEF ResolveRequest
    <3> QED
      BY <1>1, <1>5, <2>2, <3>1 DEF Snapshot
  <2> QED
    BY <1>6, <2>1, <2>2 DEF Snapshot, LinesOf
<1> QED
  BY <1>0, <1>7, <1>8, <1>9, <1>10, <1>11, <1>12, <1>13 DEF ProductionInv
LEMMA CommitCompleteInv ==
  ASSUME ProductionInv, NEW r \in Requests, CommitComplete(r)
  PROVE  ProductionInv'
<1> DEFINE q == req[r]
           o == q.order
           k == KarigarOf[o]
           swept == [m \in Metals |-> Material(q.pooled[m])]
<1>0. TypeOK /\ TypeOK' /\ q \in CompleteRequest /\ q.op = "complete"
  BY CommitCompleteTypes, RequestTypes
     DEF ProductionInv, TypeOK, CommitComplete
<1>1. /\ o \in Orders /\ k \in Karigars
      /\ \A i \in LinesOf(o) : line[i].status = "APPROVED"
  BY <1>0, ProductionAssumption
     DEF CompleteRequest, ProductionInv, Snapshots, Snapshot
<1>2. swept \in [Metals -> Nat]
  BY <1>0, MaterialType DEF CompleteRequest
<1>3. /\ balance' = [balance EXCEPT ![k] =
                       [m \in Metals |-> @[m] + swept[m]]]
      /\ pool' = [pool EXCEPT ![o] =
                    [m \in Metals |-> IF swept[m] > 0 THEN 0 ELSE @[m]]]
      /\ orderStatus' = [orderStatus EXCEPT ![o] = "COMPLETED"]
      /\ UNCHANGED <<issue, line, ret, returnsMade, dispute, stock, item>>
      /\ Answer(r)
  BY DEF CommitComplete
<1> HIDE DEF swept
<1>4. NeverOverdrawn'
  <2>1. \A c \in Karigars, m \in Metals :
          balance'[c][m] = IF c = k THEN balance[c][m] + swept[m]
                                    ELSE balance[c][m]
    BY <1>0, <1>1, <1>2, <1>3 DEF TypeOK
  <2>2. \A p \in Orders, m \in Metals :
          pool'[p][m] = IF p = o /\ swept[m] > 0 THEN 0 ELSE pool[p][m]
    BY <1>0, <1>1, <1>2, <1>3 DEF TypeOK
  <2>3. \A c \in Karigars, m \in Metals : balance'[c][m] >= 0
    <3>1. balance \in [Karigars -> [Metals -> Int]]
      BY <1>0 DEF TypeOK
    <3>2. \A c \in Karigars, m \in Metals : balance[c][m] >= 0
      BY DEF ProductionInv, NeverOverdrawn
    <3> QED
      BY <1>2, <2>1, <3>1, <3>2
  <2>4. \A p \in Orders, m \in Metals : pool'[p][m] >= 0
    BY <2>2 DEF ProductionInv, NeverOverdrawn
  <2> QED
    BY <2>3, <2>4 DEF NeverOverdrawn
<1>5. CompletedMeansApproved'
  <2>1. \A p \in Orders : orderStatus'[p] = "COMPLETED" =>
          p = o \/ orderStatus[p] = "COMPLETED"
    BY <1>0, <1>1, <1>3 DEF TypeOK
  <2> QED
    BY <1>1, <1>3, <2>1 DEF ProductionInv, CompletedMeansApproved, LinesOf
<1>6. /\ (LineRows /\ ReturnRows /\ StockRows)'
      /\ (DisputeRows /\ ItemRows)'
  BY <1>3 DEF ProductionInv, LineRows, ReturnRows, StockRows, DisputeRows,
     DisputeIsTheDeficit, NotForSaleWhileDisputed, ItemRows, MeltedOnce
<1>7. Snapshots'
  <2> SUFFICES ASSUME NEW p \in Request, Snapshot(p)
               PROVE  Snapshot(p)'
    BY <1>0, <1>3, SnapshotsKept DEF ProductionInv
  <2> QED
    BY <1>3 DEF Snapshot, ApproveSnapshot, LinesOf
<1> QED
  BY <1>0, <1>4, <1>5, <1>6, <1>7 DEF ProductionInv

LEMMA CommitResolveInv ==
  ASSUME ProductionInv, NEW r \in Requests, CommitResolve(r)
  PROVE  ProductionInv'
<1> DEFINE q == req[r]
           i == q.issue
           k == KarigarOf[OrderOf[i]]
           m == MetalOf[i]
<1>0. TypeOK /\ TypeOK' /\ q \in ResolveRequest /\ q.op = "resolve"
  BY CommitResolveTypes, RequestTypes DEF ProductionInv, TypeOK, CommitResolve
<1>1. /\ i \in Issues /\ k \in Karigars /\ m \in Metals
      /\ dispute[i].status # "NONE"
      /\ dispute[i].excess \in Nat
  <2>1. i \in Issues /\ k \in Karigars /\ m \in Metals
    BY <1>0, IssueParts DEF ResolveRequest
  <2>2. dispute[i].status # "NONE"
    BY <1>0 DEF ProductionInv, Snapshots, Snapshot
  <2> QED
    BY <1>0, <2>1, <2>2 DEF TypeOK, DisputeRow
<1>2. /\ UNCHANGED <<orderStatus, issue, line, ret, returnsMade, item, pool>>
      /\ Answer(r)
  BY DEF CommitResolve
<1>3. /\ \A j \in Issues : j # i => dispute'[j] = dispute[j]
      /\ dispute'[i].status = "RESOLVED"
      /\ dispute'[i].excess = dispute[i].excess
  BY <1>0, <1>1 DEF CommitResolve, Resolved, TypeOK, DisputeRow
<1>4. /\ \A j \in Issues : j # i => stock'[j] = stock[j]
      /\ stock'[i].ret = stock[i].ret
      /\ stock'[i].weight = stock[i].weight
      /\ stock'[i].status = IF stock[i].status = "UNDER_DISPUTE"
                            THEN "IN_STOCK" ELSE stock[i].status
  <2>1. CASE stock[i].status = "UNDER_DISPUTE"
    <3>1. stock' = [stock EXCEPT ![i].status = "IN_STOCK"]
      BY <2>1 DEF CommitResolve, Lifted
    <3> QED
      BY <1>0, <1>1, <2>1, <3>1 DEF TypeOK, StockRow
  <2>2. CASE stock[i].status # "UNDER_DISPUTE"
    BY <2>2 DEF CommitResolve, Lifted
  <2> QED
    BY <2>1, <2>2
<1>5. NeverOverdrawn'
  <2>1. balance \in [Karigars -> [Metals -> Int]]
    BY <1>0 DEF TypeOK
  <2>2. ASSUME NEW c \in Karigars, NEW n \in Metals
        PROVE  balance'[c][n] >= 0
    <3>1. CASE q.how = "METAL_CARRYFORWARD"
      <4>1. balance' = AddTo(balance, k, m, dispute[i].excess)
        BY <3>1 DEF CommitResolve
      <4>2. balance'[c][n] = IF c = k /\ n = m
                             THEN balance[c][n] + dispute[i].excess
                             ELSE balance[c][n]
        BY <1>1, <2>1, <4>1 DEF AddTo
      <4> QED
        BY <1>1, <2>1, <4>2 DEF ProductionInv, NeverOverdrawn
    <3>2. CASE q.how # "METAL_CARRYFORWARD"
      BY <3>2 DEF CommitResolve, ProductionInv, NeverOverdrawn
    <3> QED
      BY <3>1, <3>2
  <2> QED
    BY <1>2, <2>2 DEF ProductionInv, NeverOverdrawn
<1>6. (CompletedMeansApproved /\ LineRows)'
  BY <1>2 DEF ProductionInv, CompletedMeansApproved, LineRows
<1>7. /\ ReturnRows'
      /\ StockRows'
  BY <1>1, <1>2, <1>4 DEF ProductionInv, ReturnRows, StockRows
<1>8. DisputeRows'
  <2>1. DisputeIsTheDeficit'
    BY <1>1, <1>2, <1>3, LinesAreIssues
       DEF ProductionInv, DisputeRows, DisputeIsTheDeficit
  <2>2. NotForSaleWhileDisputed'
    BY <1>3, <1>4 DEF ProductionInv, DisputeRows, NotForSaleWhileDisputed
  <2>3. /\ ret[i].id # 0
        /\ i \in Lines /\ line[i].status \in {"WEIGHED", "APPROVED"} =>
             line[i].disputed
    BY <1>1 DEF ProductionInv, DisputeRows
  <2>4. \A j \in Issues : ret'[j].id = 0 => dispute'[j].status = "NONE"
    BY <1>2, <1>3, <2>3 DEF ProductionInv, DisputeRows
  <2>5. \A j \in Lines :
          line'[j].status \in {"WEIGHED", "APPROVED"} /\ ~line'[j].disputed
            => dispute'[j].status = "NONE"
    BY <1>2, <1>3, <2>3, LinesAreIssues DEF ProductionInv, DisputeRows
  <2> QED
    BY <2>1, <2>2, <2>4, <2>5 DEF DisputeRows
<1>9. ItemRows'
  <2>1. \A j \in Issues : stock'[j].status = "NONE" <=> stock[j].status = "NONE"
    BY <1>4
  <2> QED
    BY <1>2, <2>1 DEF ProductionInv, ItemRows, MeltedOnce
<1>10. Snapshots'
  <2> SUFFICES ASSUME NEW p \in Request, Snapshot(p)
               PROVE  Snapshot(p)'
    BY <1>0, <1>2, SnapshotsKept DEF ProductionInv
  <2>1. ASSUME p.op = "approve" PROVE ApproveSnapshot(p)'
    <3>1. p.issue \in Issues /\ ApproveSnapshot(p)
      BY <2>1, RequestTypes, LinesAreIssues DEF ApproveRequest, Snapshot
    <3> QED
      BY <1>2, <1>3, <3>1 DEF ApproveSnapshot
  <2>2. ASSUME p.op = "resolve" PROVE dispute'[p.issue].status # "NONE"
    <3>1. p.issue \in Issues
      BY <2>2, RequestTypes DEF ResolveRequest
    <3> QED
      BY <1>3, <2>2, <3>1 DEF Snapshot
  <2> QED
    BY <1>2, <2>1, <2>2 DEF Snapshot, LinesOf
<1> QED
  BY <1>0, <1>5, <1>6, <1>7, <1>8, <1>9, <1>10 DEF ProductionInv

-----------------------------------------------------------------------------
(* The other steps, and the invariant.                                     *)

LEMMA AbortInv ==
  ASSUME ProductionInv, NEW r \in Requests, Abort(r)
  PROVE  ProductionInv'
<1>1. TypeOK /\ TypeOK'
  BY AnswerTypes DEF ProductionInv, TypeOK, Abort, Tables
<1>2. Snapshot(Idle)
  BY DEF Snapshot, Idle
<1> QED
  BY <1>1, <1>2, RequestKeepsInv DEF Abort, Answer

LEMMA SellItemInv ==
  ASSUME ProductionInv, NEW s \in Items, SellItem(s)
  PROVE  ProductionInv'
<1>1. TypeOK'
  BY DEF ProductionInv, TypeOK, SellItem
<1>2. ItemRows'
  <2>1. \A i \in Issues : s \notin issue[i].sources
    BY DEF ProductionInv, ItemRows, MeltedOnce, SellItem
  <2>2. \A i \in Issues : issue[i].sources \subseteq Items
    BY DEF ProductionInv, TypeOK, IssueRow
  <2> QED
    BY <2>1, <2>2 DEF ProductionInv, TypeOK, ItemRows, MeltedOnce, SellItem
<1>3. /\ (NeverOverdrawn /\ CompletedMeansApproved)'
      /\ (LineRows /\ ReturnRows /\ StockRows)'
      /\ (DisputeRows /\ Snapshots)'
  BY DEF ProductionInv, SellItem, NeverOverdrawn, CompletedMeansApproved,
         LineRows, ReturnRows, StockRows, DisputeRows, DisputeIsTheDeficit,
         NotForSaleWhileDisputed, Snapshots, Snapshot, ApproveSnapshot
<1> QED
  BY <1>1, <1>2, <1>3 DEF ProductionInv

LEMMA InitInv == Init => ProductionInv
<1> SUFFICES ASSUME Init PROVE ProductionInv
  OBVIOUS
<1>1. TypeOK
  BY InitTypes
<1>2. /\ NeverOverdrawn
      /\ CompletedMeansApproved
  BY ProductionAssumption DEF Init, NeverOverdrawn, CompletedMeansApproved
<1>3. LineRows /\ ReturnRows /\ StockRows
  BY LinesAreIssues DEF Init, LineRows, ReturnRows, StockRows, NoIssue,
     NewLine, NoReturn, NoStock
<1>4. DisputeRows
  BY LinesAreIssues DEF Init, DisputeRows, DisputeIsTheDeficit,
     NotForSaleWhileDisputed, NewLine, NoDispute, NoStock
<1>5. ItemRows
  BY DEF Init, ItemRows, MeltedOnce, NoIssue
<1>6. Snapshots
  BY DEF Init, Snapshots, Snapshot, Idle
<1> QED
  BY <1>1, <1>2, <1>3, <1>4, <1>5, <1>6 DEF ProductionInv

LEMMA NextInv ==
  ASSUME ProductionInv, [Next]_vars
  PROVE  ProductionInv'
<1>1. ASSUME NEW r \in Requests, Requesting(r)
      PROVE  ProductionInv'
  BY <1>1, RequestingInv
<1>2. ASSUME NEW r \in Requests, Reading(r)
      PROVE  ProductionInv'
  BY <1>2, ReadingInv
<1>3. ASSUME NEW r \in Requests, Committing(r)
      PROVE  ProductionInv'
  BY <1>3, CommitIssueInv, CommitWeighInInv, CommitCorrectInv,
     CommitApproveInv, CommitReturnInv, CommitCompleteInv, CommitResolveInv
     DEF Committing
<1>4. ASSUME NEW r \in Requests, Abort(r)
      PROVE  ProductionInv'
  BY <1>4, AbortInv
<1>5. ASSUME NEW s \in Items, SellItem(s)
      PROVE  ProductionInv'
  BY <1>5, SellItemInv
<1>6. CASE UNCHANGED vars
  BY <1>6 DEF vars, ProductionInv, TypeOK, NeverOverdrawn,
     CompletedMeansApproved, LineRows, ReturnRows, StockRows, DisputeRows,
     DisputeIsTheDeficit, NotForSaleWhileDisputed, ItemRows, MeltedOnce,
     Snapshots, Snapshot, ApproveSnapshot
<1> QED
  BY <1>1, <1>2, <1>3, <1>4, <1>5, <1>6 DEF Next

\* The inductive invariant of the seven handlers holds whatever requests are
\* in flight, in whatever order they read, commit or fail.
THEOREM InvariantHolds == Spec => []ProductionInv
<1>1. Init => ProductionInv
  BY InitInv
<1>2. ProductionInv /\ [Next]_vars => ProductionInv'
  BY NextInv
<1> QED
  BY <1>1, <1>2, PTL DEF Spec
-----------------------------------------------------------------------------
(* What the inductive invariant gives.                                     *)

\* Neither a surplus pool nor a karigar's balance is ever overdrawn.
THEOREM Solvent == Spec => []NeverOverdrawn
<1>1. ProductionInv => NeverOverdrawn
  BY DEF ProductionInv
<1> QED
  BY <1>1, InvariantHolds, PTL

\* The stock item of an approved line is the piece weighed in on the line.
THEOREM StockIsWhatWasWeighed == Spec => []StockMatchesWeighIn
<1>1. ProductionInv => StockMatchesWeighIn
  <2> SUFFICES ASSUME ProductionInv, NEW i \in Lines,
                      line[i].status = "APPROVED"
               PROVE  /\ stock[i].status # "NONE"
                      /\ stock[i].ret = line[i].ret
                      /\ stock[i].weight = line[i].actual
                      /\ ret[i] = [id |-> line[i].ret, byLine |-> TRUE]
    BY DEF StockMatchesWeighIn
  <2>1. i \in Issues /\ ret[i].id = line[i].ret /\ ret[i].byLine
    BY LineReturn, LinesAreIssues
  <2>2. stock[i].status # "NONE" /\ stock[i].weight = line[i].actual
    BY <2>1 DEF ProductionInv, StockRows
  <2>3. stock[i].ret = line[i].ret
    BY <2>1, <2>2 DEF ProductionInv, StockRows
  <2>4. ret[i] = [id |-> line[i].ret, byLine |-> TRUE]
    BY DEF ProductionInv, LineRows
  <2> QED
    BY <2>2, <2>3, <2>4
<1> QED
  BY <1>1, InvariantHolds, PTL

\* An issue yields one return and one entry into stock, by one of the two
\* return paths.
THEOREM IssueReturnsOnce == Spec => []OneReturnPerIssue
<1>1. ProductionInv => OneReturnPerIssue
  <2> SUFFICES ASSUME ProductionInv, NEW i \in Issues
               PROVE  /\ stock[i].status # "NONE" => ret[i].id = stock[i].ret
                      /\ ret[i].byLine => i \in Lines /\ line[i].ret = ret[i].id
                      /\ i \in Lines /\ stock[i].status # "NONE" =>
                           (ret[i].byLine <=> line[i].status = "APPROVED")
    BY DEF OneReturnPerIssue
  <2>1. stock[i].status # "NONE" => ret[i].id = stock[i].ret
    BY DEF ProductionInv, StockRows
  <2>2. ret[i].byLine =>
          i \in Lines /\ line[i].status \in {"WEIGHED", "APPROVED"}
    BY DEF ProductionInv, ReturnRows
  <2>3. ret[i].byLine => line[i].ret = ret[i].id
    BY <2>2, LineReturn
  <2>4. i \in Lines /\ ret[i].byLine /\ stock[i].status # "NONE" =>
          line[i].status = "APPROVED"
    BY DEF ProductionInv, StockRows
  <2>5. i \in Lines /\ line[i].status = "APPROVED" => ret[i].byLine
    BY LineReturn
  <2> QED
    BY <2>1, <2>2, <2>3, <2>4, <2>5
<1> QED
  BY <1>1, InvariantHolds, PTL

\* A piece whose wastage is disputed is not for sale.
THEOREM DisputedIsHeld == Spec => []NotForSaleWhileDisputed
<1>1. ProductionInv => NotForSaleWhileDisputed
  BY DEF ProductionInv, DisputeRows
<1> QED
  BY <1>1, InvariantHolds, PTL

\* A line's dispute is about the deficit recorded on the line.
THEOREM DisputeMatchesDeficit == Spec => []DisputeIsTheDeficit
<1>1. ProductionInv => DisputeIsTheDeficit
  BY DEF ProductionInv, DisputeRows
<1> QED
  BY <1>1, InvariantHolds, PTL

\* An item is melted once and follows its issue into stock.
THEOREM ItemsMeltOnce == Spec => []MeltedOnce
<1>1. ProductionInv => MeltedOnce
  BY DEF ProductionInv, ItemRows
<1> QED
  BY <1>1, InvariantHolds, PTL

\* A completed order has only approved lines.
THEOREM CompletionIsSound == Spec => []CompletedMeansApproved
<1>1. ProductionInv => CompletedMeansApproved
  BY DEF ProductionInv
<1> QED
  BY <1>1, InvariantHolds, PTL
-----------------------------------------------------------------------------
(* What a step may change.                                                 *)

\* Every step that is not a transaction leaves the tables of production
\* alone, except that a sale changes the status of an item.
LEMMA QuietSteps ==
  ASSUME [Next]_vars
  PROVE  \/ \E r \in Requests : Committing(r)
         \/ UNCHANGED <<orderStatus, issue, line, ret, returnsMade, dispute,
                        stock, pool, balance>>
<1>1. ASSUME NEW r \in Requests, Requesting(r)
      PROVE  UNCHANGED Tables
  BY <1>1 DEF Requesting, RequestIssue, RequestWeighIn, RequestCorrect,
     RequestApprove, RequestReturn, RequestComplete, RequestResolve
<1>2. ASSUME NEW r \in Requests, Reading(r) \/ Abort(r)
      PROVE  UNCHANGED Tables
  BY <1>2 DEF Reading, ReadPool, ReadDispute, ReadPools, Abort
<1>3. ASSUME NEW s \in Items, SellItem(s)
      PROVE  UNCHANGED <<orderStatus, issue, line, ret, returnsMade, dispute,
                         stock, pool, balance>>
  BY <1>3 DEF SellItem
<1> QED
  BY <1>1, <1>2, <1>3 DEF Next, Tables, vars

\* The lines whose weigh-in, correction or approval commits are not approved,
\* and the issue that gets a return has none or is such a line's.
LEMMA CommitTargets ==
  ASSUME ProductionInv, NEW r \in Requests
  PROVE  /\ CommitIssue(r) => req[r].issue \in Issues
         /\ CommitWeighIn(r) => /\ req[r].issue \in Lines
                                /\ line[req[r].issue].status = "ISSUED"
                                /\ dispute[req[r].issue].status = "NONE"
         /\ CommitCorrect(r) => /\ req[r].issue \in Lines
                                /\ line[req[r].issue].status = "WEIGHED"
         /\ CommitApprove(r) => /\ req[r].issue \in Lines
                                /\ line[req[r].issue].status = "WEIGHED"
         /\ CommitReturn(r) => /\ req[r].issue \in Issues
                               /\ ret[req[r].issue].id = 0
                               /\ dispute[req[r].issue].status = "NONE"
         /\ CommitComplete(r) =>
              /\ req[r].order \in Orders
              /\ \A i \in LinesOf(req[r].order) : line[i].status = "APPROVED"
         /\ CommitResolve(r) => /\ req[r].issue \in Issues
                               /\ dispute[req[r].issue].status # "NONE"
<1>0. req[r] \in Request /\ Snapshot(req[r])
  BY DEF ProductionInv, TypeOK, Snapshots
<1>1. CommitIssue(r) => req[r].issue \in Issues
  BY <1>0, RequestTypes DEF CommitIssue, IssueRequest
<1>2. ASSUME CommitWeighIn(r)
      PROVE  /\ req[r].issue \in Lines
             /\ line[req[r].issue].status = "ISSUED"
             /\ dispute[req[r].issue].status = "NONE"
  <2>1. req[r].issue \in Lines /\ req[r].issue \in Issues
    BY <1>0, <1>2, RequestTypes, LinesAreIssues DEF CommitWeighIn, WeighRequest
  <2>2. ret[req[r].issue] = NoReturn /\ line[req[r].issue].status = "ISSUED"
    BY <1>2 DEF CommitWeighIn, NoReturnYet
  <2>3. ret[req[r].issue].id = 0
    BY <2>2 DEF NoReturn
  <2> QED
    BY <2>1, <2>2, <2>3 DEF ProductionInv, DisputeRows
<1>3. CommitCorrect(r) => /\ req[r].issue \in Lines
                          /\ line[req[r].issue].status = "WEIGHED"
  BY <1>0, RequestTypes DEF CommitCorrect, CorrectRequest
<1>4. CommitApprove(r) => /\ req[r].issue \in Lines
                          /\ line[req[r].issue].status = "WEIGHED"
  BY <1>0, RequestTypes DEF CommitApprove, ApproveRequest
<1>5. ASSUME CommitReturn(r)
      PROVE  /\ req[r].issue \in Issues
             /\ ret[req[r].issue].id = 0
             /\ dispute[req[r].issue].status = "NONE"
  <2>1. req[r].issue \in Issues /\ ret[req[r].issue] = NoReturn
    BY <1>0, <1>5, RequestTypes DEF CommitReturn, NoReturnYet, ReturnRequest
  <2>2. ret[req[r].issue].id = 0
    BY <2>1 DEF NoReturn
  <2> QED
    BY <2>1, <2>2 DEF ProductionInv, DisputeRows
<1>6. CommitComplete(r) =>
        /\ req[r].order \in Orders
        /\ \A i \in LinesOf(req[r].order) : line[i].status = "APPROVED"
  BY <1>0, RequestTypes DEF CommitComplete, CompleteRequest, Snapshot
<1>7. CommitResolve(r) => /\ req[r].issue \in Issues
                          /\ dispute[req[r].issue].status # "NONE"
  BY <1>0, RequestTypes DEF CommitResolve, ResolveRequest, Snapshot
<1> QED
  BY <1>1, <1>2, <1>3, <1>4, <1>5, <1>6, <1>7

\* Disputes are never reopened, replaced or changed in amount.
THEOREM DisputesAreKept == Spec => DisputeIsKept
<1> DEFINE Kept == \A i \in Issues : dispute[i].status # "NONE" =>
                     /\ dispute'[i].excess = dispute[i].excess
                     /\ dispute'[i].status \in {dispute[i].status, "RESOLVED"}
<1>1. ASSUME ProductionInv, [Next]_vars PROVE Kept
  <2>1. ASSUME NEW r \in Requests, Committing(r) PROVE Kept
    <3>0. dispute \in [Issues -> DisputeRow]
      BY <1>1 DEF ProductionInv, TypeOK
    <3>1. CASE CommitWeighIn(r) \/ CommitReturn(r)
      <4> DEFINE i == req[r].issue
      <4>1. i \in Lines \/ i \in Issues
        BY <1>1, <3>1, CommitTargets
      <4>2. dispute[i].status = "NONE"
        BY <1>1, <3>1, CommitTargets
      <4>3. \A j \in Issues : j # i => dispute'[j] = dispute[j]
        BY <3>0, <3>1 DEF CommitWeighIn, CommitReturn
      <4> QED
        BY <4>2, <4>3
    <3>2. CASE CommitResolve(r)
      BY <3>0, <3>2 DEF CommitResolve, Resolved, DisputeRow
    <3>3. CASE \/ CommitIssue(r) \/ CommitCorrect(r) \/ CommitApprove(r)
               \/ CommitComplete(r)
      BY <3>3 DEF CommitIssue, CommitCorrect, CommitApprove, CommitComplete
    <3> QED
      BY <2>1, <3>1, <3>2, <3>3 DEF Committing
  <2>2. CASE UNCHANGED dispute
    BY <2>2
  <2> QED
    BY <1>1, <2>1, <2>2, QuietSteps
<1>2. ProductionInv /\ [Next]_vars => [Kept]_vars
  BY <1>1
<1> QED
  BY <1>2, InvariantHolds, PTL DEF Spec, DisputeIsKept
\* Approval is final: nothing in flight changes an approved line, and a pool
\* whose lines are all approved is left alone or swept.
THEOREM ApprovalsAreFinal == Spec => ApprovalIsFinal
<1> DEFINE Final(i) == line[i].status = "APPROVED" =>
                         /\ line'[i] = line[i]
                         /\ ret'[i] = ret[i]
                         /\ stock'[i].weight = stock[i].weight
           Settled(o) == (\A i \in LinesOf(o) : line[i].status = "APPROVED") =>
                           \A m \in Metals : pool'[o][m] \in {pool[o][m], 0}
<1>1. ASSUME ProductionInv, NEW r \in Requests, Committing(r)
      PROVE  /\ \A i \in Lines : Final(i)
             /\ \A o \in Orders : Settled(o)
  <2> DEFINE e == req[r].issue
  <2>0. /\ line \in [Lines -> LineRow]
        /\ ret \in [Issues -> ReturnRow]
        /\ stock \in [Issues -> StockRow]
        /\ pool \in [Orders -> [Metals -> Int]]
        /\ Lines \subseteq Issues
    BY <1>1, LinesAreIssues DEF ProductionInv, TypeOK
  <2>1. CASE CommitIssue(r)
    <3>1. \A i \in Lines : line[i].status = "APPROVED" => line'[i] = line[i]
      <4>1. CASE e \in Lines
        <5>1. line[e].status = "PENDING"
          BY <2>1, <4>1 DEF CommitIssue
        <5>2. \A i \in Lines : i # e => line'[i] = line[i]
          BY <2>0, <2>1, <4>1 DEF CommitIssue
        <5> QED
          BY <5>1, <5>2
      <4>2. CASE e \notin Lines
        BY <2>1, <4>2 DEF CommitIssue
      <4> QED
        BY <4>1, <4>2
    <3> QED
      BY <2>1, <3>1 DEF CommitIssue
  <2>2. CASE CommitWeighIn(r) \/ CommitCorrect(r)
    <3>1. e \in Lines /\ line[e].status # "APPROVED"
      BY <1>1, <2>2, CommitTargets
    <3>2. /\ \A i \in Lines : i # e => line'[i] = line[i] /\ ret'[i] = ret[i]
          /\ stock' = stock
      BY <2>0, <2>2 DEF CommitWeighIn, CommitCorrect
    <3>3. \A o \in Orders : o # OrderOf[e] => pool'[o] = pool[o]
      BY <2>0, <2>2 DEF CommitWeighIn, CommitCorrect, AddTo
    <3> QED
      BY <3>1, <3>2, <3>3 DEF LinesOf
  <2>3. CASE CommitApprove(r)
    <3>1. e \in Lines /\ line[e].status # "APPROVED"
      BY <1>1, <2>3, CommitTargets
    <3>2. \A i \in Lines : i # e => line'[i] = line[i] /\ stock'[i] = stock[i]
      <4>1. line' = [line EXCEPT ![e].status = "APPROVED"]
        BY <2>3 DEF CommitApprove
      <4>2. \A i \in Issues : i # e => stock'[i] = stock[i]
        BY <2>0, <2>3 DEF CommitApprove
      <4> QED
        BY <2>0, <4>1, <4>2
    <3>3. ret' = ret /\ pool' = pool
      BY <2>3 DEF CommitApprove
    <3> QED
      BY <3>1, <3>2, <3>3
  <2>4. CASE CommitReturn(r)
    <3>1. ret[e].id = 0
      BY <1>1, <2>4, CommitTargets
    <3>2. /\ \A i \in Issues : i # e => ret'[i] = ret[i] /\ stock'[i] = stock[i]
          /\ line' = line /\ pool' = pool
      BY <2>0, <2>4 DEF CommitReturn
    <3>3. \A i \in Lines : line[i].status = "APPROVED" => ret[i].id # 0
      BY <1>1, LineReturn
    <3> QED
      BY <2>0, <3>1, <3>2, <3>3
  <2>5. CASE CommitComplete(r)
    <3>1. /\ pool' = [pool EXCEPT ![req[r].order] =
                        [m \in Metals |->
                           IF [n \in Metals |->
                                 Material(req[r].pooled[n])][m] > 0
                           THEN 0 ELSE @[m]]]
          /\ UNCHANGED <<line, ret, stock>>
      BY <2>5 DEF CommitComplete
    <3>2. \A o \in Orders, m \in Metals : pool'[o][m] \in {pool[o][m], 0}
      BY <2>0, <3>1
    <3> QED
      BY <3>1, <3>2
  <2>6. CASE CommitResolve(r)
    <3>1. \A i \in Issues : stock'[i].weight = stock[i].weight
      <4>1. \/ stock' = [stock EXCEPT ![e].status = "IN_STOCK"]
            \/ stock' = stock
        BY <2>6 DEF CommitResolve, Lifted
      <4> QED
        BY <2>0, <4>1 DEF StockRow
    <3> QED
      BY <2>0, <2>6, <3>1 DEF CommitResolve
  <2> QED
    BY <1>1, <2>1, <2>2, <2>3, <2>4, <2>5, <2>6 DEF Committing
<1> DEFINE Fin == /\ \A i \in Lines : line[i].status = "APPROVED" =>
                        /\ line'[i] = line[i]
                        /\ ret'[i] = ret[i]
                        /\ stock'[i].weight = stock[i].weight
                  /\ \A o \in Orders :
                       (\A i \in LinesOf(o) : line[i].status = "APPROVED") =>
                         \A m \in Metals : pool'[o][m] \in {pool[o][m], 0}
<1>2. ASSUME ProductionInv, [Next]_vars PROVE Fin
  <2>1. ASSUME NEW r \in Requests, Committing(r) PROVE Fin
    BY <1>1, <1>2, <2>1
  <2>2. CASE UNCHANGED <<line, ret, stock, pool>>
    BY <2>2
  <2> QED
    BY <1>2, <2>1, <2>2, QuietSteps
<1>3. ProductionInv /\ [Next]_vars => [Fin]_vars
  BY <1>2
<1> QED
  BY <1>3, InvariantHolds, PTL DEF Spec, ApprovalIsFinal
-----------------------------------------------------------------------------
(* The refinement of ProductionLifecycle.                                  *)

LineStatus == [i \in Lines |-> line[i].status]

\* A line that changes status is on an open order: a completed order's lines
\* are approved.
LEMMA OpenOrder ==
  ASSUME ProductionInv, NEW i \in Lines, line[i].status # "APPROVED"
  PROVE  orderStatus[OrderOf[i]] = "OPEN"
<1>1. OrderOf[i] \in Orders /\ i \in LinesOf(OrderOf[i])
  BY LinesAreIssues, IssueParts DEF LinesOf
<1>2. orderStatus[OrderOf[i]] \in {"OPEN", "COMPLETED"}
  BY <1>1 DEF ProductionInv, TypeOK
<1> QED
  BY <1>1, <1>2 DEF ProductionInv, CompletedMeansApproved

\* One line's status changes as the lifecycle allows.
LEMMA LineMoves ==
  ASSUME ProductionInv, NEW i \in Lines, UNCHANGED orderStatus,
         NEW from, NEW to, line[i].status = from,
         LineStatus' = [LineStatus EXCEPT ![i] = to],
         <<from, to>> \in {<<"PENDING", "ISSUED">>, <<"ISSUED", "WEIGHED">>,
                          <<"WEIGHED", "ISSUED">>, <<"WEIGHED", "APPROVED">>}
  PROVE  Lifecycle!Next
<1>1. orderStatus[OrderOf[i]] = "OPEN"
  BY OpenOrder
<1>2. Lifecycle!Move(i, from, to)
  BY <1>1 DEF Lifecycle!Move, LineStatus
<1> QED
  BY <1>2 DEF Lifecycle!Next, Lifecycle!Issue, Lifecycle!WeighIn,
     Lifecycle!Correct, Lifecycle!Approve

LEMMA StepRefines ==
  ASSUME ProductionInv, [Next]_vars
  PROVE  [Lifecycle!Next]_(Lifecycle!lifecycleVars)
<1>1. ASSUME NEW r \in Requests, Committing(r)
      PROVE  [Lifecycle!Next]_(Lifecycle!lifecycleVars)
  <2> DEFINE e == req[r].issue
  <2>0. /\ line \in [Lines -> LineRow]
        /\ orderStatus \in [Orders -> {"OPEN", "COMPLETED"}]
    BY DEF ProductionInv, TypeOK
  <2>1. ASSUME e \in Lines, UNCHANGED orderStatus, NEW to,
               line'[e].status = to,
               \A i \in Lines : i # e => line'[i].status = line[i].status
        PROVE  LineStatus' = [LineStatus EXCEPT ![e] = to]
    BY <2>0, <2>1 DEF LineStatus
  <2>2. CASE CommitIssue(r) /\ e \in Lines
    <3>1. line[e].status = "PENDING"
      BY <2>2 DEF CommitIssue
    <3>2. /\ line'[e].status = "ISSUED"
          /\ \A i \in Lines : i # e => line'[i].status = line[i].status
      <4>1. line' = [line EXCEPT ![e].status = "ISSUED",
                       ![e].allowed = req[r].weight - Expected[e]]
        BY <2>2 DEF CommitIssue
      <4> QED
        BY <2>0, <2>2, <4>1 DEF LineRow
    <3>3. UNCHANGED orderStatus
      BY <2>2 DEF CommitIssue
    <3> QED
      BY <2>1, <2>2, <3>1, <3>2, <3>3, LineMoves
  <2>3. CASE CommitWeighIn(r)
    <3>1. e \in Lines /\ line[e].status = "ISSUED"
      BY <2>3, CommitTargets
    <3>2. /\ line'[e].status = "WEIGHED"
          /\ \A i \in Lines : i # e => line'[i].status = line[i].status
          /\ UNCHANGED orderStatus
      BY <2>0, <2>3, <3>1 DEF CommitWeighIn
    <3> QED
      BY <2>1, <3>1, <3>2, LineMoves
  <2>4. CASE CommitCorrect(r)
    <3>1. e \in Lines /\ line[e].status = "WEIGHED"
      BY <2>4, CommitTargets
    <3>2. /\ line'[e].status = "ISSUED"
          /\ \A i \in Lines : i # e => line'[i].status = line[i].status
          /\ UNCHANGED orderStatus
      BY <2>0, <2>4, <3>1 DEF CommitCorrect, NewLine
    <3> QED
      BY <2>1, <3>1, <3>2, LineMoves
  <2>5. CASE CommitApprove(r)
    <3>1. e \in Lines /\ line[e].status = "WEIGHED"
      BY <2>5, CommitTargets
    <3>2. /\ line'[e].status = "APPROVED"
          /\ \A i \in Lines : i # e => line'[i].status = line[i].status
          /\ UNCHANGED orderStatus
      <4>1. line' = [line EXCEPT ![e].status = "APPROVED"]
        BY <2>5 DEF CommitApprove
      <4> QED
        BY <2>0, <2>5, <3>1, <4>1 DEF CommitApprove, LineRow
    <3> QED
      BY <2>1, <3>1, <3>2, LineMoves
  <2>6. CASE CommitComplete(r)
    <3> DEFINE o == req[r].order
    <3>1. /\ o \in Orders
          /\ \A i \in LinesOf(o) : line[i].status = "APPROVED"
      BY <2>6, CommitTargets
    <3>2. /\ orderStatus' = [orderStatus EXCEPT ![o] = "COMPLETED"]
          /\ UNCHANGED line
      BY <2>6 DEF CommitComplete
    <3>3. CASE orderStatus[o] = "OPEN"
      <4>1. Lifecycle!Complete(o)
        BY <3>1, <3>2, <3>3 DEF Lifecycle!Complete, LinesOf
      <4> QED
        BY <3>1, <4>1 DEF Lifecycle!Next
    <3>4. CASE orderStatus[o] # "OPEN"
      <4>1. orderStatus[o] = "COMPLETED"
        BY <2>0, <3>1, <3>4
      <4>2. UNCHANGED orderStatus
        BY <2>0, <3>1, <3>2, <4>1
      <4> QED
        BY <3>2, <4>2 DEF Lifecycle!lifecycleVars
    <3> QED
      BY <3>3, <3>4
  <2>7. CASE \/ CommitIssue(r) /\ e \notin Lines
             \/ CommitReturn(r)
             \/ CommitResolve(r)
    <3>1. UNCHANGED <<orderStatus, line>>
      BY <2>7 DEF CommitIssue, CommitReturn, CommitResolve
    <3> QED
      BY <3>1 DEF Lifecycle!lifecycleVars
  <2> QED
    BY <1>1, <2>2, <2>3, <2>4, <2>5, <2>6, <2>7 DEF Committing
<1>2. CASE UNCHANGED <<orderStatus, line>>
  BY <1>2 DEF Lifecycle!lifecycleVars
<1> QED
  BY <1>1, <1>2, QuietSteps

\* The handlers implement the lifecycle of orders and lines: whatever is in
\* flight, lines move one at a time along their lifecycle, on open orders
\* only, and an order is completed only after all its lines are approved.
THEOREM HandlersImplementLifecycle == Spec => ImplementsLifecycle
<1>1. Init => Lifecycle!Init
  BY DEF Init, Lifecycle!Init, NewLine
<1>2. ProductionInv /\ [Next]_vars =>
        [Lifecycle!Next]_(Lifecycle!lifecycleVars)
  BY StepRefines
<1> QED
  BY <1>1, <1>2, InvariantHolds, PTL
     DEF Spec, ImplementsLifecycle, Lifecycle!Spec
-----------------------------------------------------------------------------
(* The accounts.  Every amount is an integer, every sum is over finitely   *)
(* many rows, and a step that changes the amount of one row changes a sum  *)
(* by as much.                                                             *)

LEMMA LinesInFacts ==
  ASSUME NEW o, NEW m
  PROVE  /\ LinesIn(o, m) \subseteq Lines /\ LinesIn(o, m) \subseteq Issues
         /\ IsFiniteSet(LinesIn(o, m))
         /\ \A i \in Lines : i \in LinesIn(o, m) <=> OrderOf[i] = o /\ MetalOf[i] = m
<1>1. LinesIn(o, m) \subseteq Lines /\ LinesIn(o, m) \subseteq Issues
  BY LinesAreIssues DEF LinesIn, LinesOf
<1>. QED
  BY <1>1, FS_Subset, AuditAssumption DEF LinesIn, LinesOf

LEMMA PaidInType ==
  ASSUME TypeOK, NEW i \in Lines PROVE PaidIn(i) \in Int /\ Credit(i) \in Int
<1>1. /\ line[i].surplus \in Int /\ line[i].deficit \in Int
      /\ line[i].allowed \in Int /\ LossOf(i, line[i].actual) \in Int
      /\ returnsMade[i] \in Int /\ Eps \in Int
  BY LinesAreIssues, ProductionAssumption DEF TypeOK, LineRow, IssueRow, LossOf
<1>2. PaidIn(i) \in Int
  BY <1>1 DEF PaidIn
<1>. QED
  BY <1>1, <1>2 DEF Credit

LEMMA AmountTypes ==
  TypeOK => \A i \in Lines : PaidIn(i) \in Int /\ Credit(i) \in Int
BY PaidInType

LEMMA NextAmountTypes ==
  ASSUME TypeOK'
  PROVE  (\A i \in Lines : PaidIn(i) \in Int /\ Credit(i) \in Int)'
BY AmountTypes, PTL

LEMMA SumsPrimed ==
  ASSUME NEW o, NEW m
  PROVE  /\ PaidInBy(o, m)' = SumFunctionOnSet([i \in Lines |-> PaidIn(i)'], LinesIn(o, m))
         /\ CreditOf(o, m)' = SumFunctionOnSet([i \in Lines |-> Credit(i)'], LinesIn(o, m))
  BY DEF PaidInBy, CreditOf, LinesIn, LinesOf

\* A step that changes what one line paid in changes the sums by as much.
LEMMA OneLineMoves ==
  ASSUME TypeOK, TypeOK', NEW j \in Lines,
         \A i \in Lines \ {j} : PaidIn(i)' = PaidIn(i) /\ Credit(i)' = Credit(i)
  PROVE  \A o, m :
           /\ PaidInBy(o, m) \in Int /\ CreditOf(o, m) \in Int
           /\ PaidInBy(o, m)' = PaidInBy(o, m) +
                (IF j \in LinesIn(o, m) THEN PaidIn(j)' - PaidIn(j) ELSE 0)
           /\ CreditOf(o, m)' = CreditOf(o, m) +
                (IF j \in LinesIn(o, m) THEN Credit(j)' - Credit(j) ELSE 0)
<1>. SUFFICES ASSUME NEW o, NEW m
              PROVE  /\ PaidInBy(o, m) \in Int /\ CreditOf(o, m) \in Int
                     /\ PaidInBy(o, m)' = PaidInBy(o, m) +
                          (IF j \in LinesIn(o, m) THEN PaidIn(j)' - PaidIn(j) ELSE 0)
                     /\ CreditOf(o, m)' = CreditOf(o, m) +
                          (IF j \in LinesIn(o, m) THEN Credit(j)' - Credit(j) ELSE 0)
  OBVIOUS
<1>0. PICK S : S = LinesIn(o, m)
  OBVIOUS
<1>1. IsFiniteSet(S) /\ S \subseteq Lines
  BY <1>0, LinesInFacts
<1>2. \A i \in Lines : /\ PaidIn(i) \in Int /\ Credit(i) \in Int
                       /\ PaidIn(i)' \in Int /\ Credit(i)' \in Int
  <2>1. \A i \in Lines : PaidIn(i) \in Int /\ Credit(i) \in Int
    BY PaidInType
  <2>2. (\A i \in Lines : PaidIn(i) \in Int /\ Credit(i) \in Int)'
    BY NextAmountTypes
  <2>. QED
    BY <2>1, <2>2
<1>3. PICK f, g, c, d :
        /\ f = [i \in Lines |-> PaidIn(i)] /\ g = [i \in Lines |-> PaidIn(i)']
        /\ c = [i \in Lines |-> Credit(i)] /\ d = [i \in Lines |-> Credit(i)']
  OBVIOUS
<1>4. /\ \A i \in S : /\ f[i] \in Int /\ g[i] \in Int
                      /\ c[i] \in Int /\ d[i] \in Int
      /\ \A i \in S \ {j} : g[i] = f[i] /\ d[i] = c[i]
  BY <1>1, <1>2, <1>3
<1>5. /\ f[j] = PaidIn(j) /\ g[j] = PaidIn(j)'
      /\ c[j] = Credit(j) /\ d[j] = Credit(j)'
  BY <1>3
<1>6. /\ PaidInBy(o, m) = SumFunctionOnSet(f, S)
      /\ CreditOf(o, m) = SumFunctionOnSet(c, S)
  BY <1>0, <1>3 DEF PaidInBy, CreditOf
<1>7. /\ PaidInBy(o, m)' = SumFunctionOnSet(g, S)
      /\ CreditOf(o, m)' = SumFunctionOnSet(d, S)
  BY <1>0, <1>3, SumsPrimed
<1>8. /\ SumFunctionOnSet(f, S) \in Int
      /\ SumFunctionOnSet(g, S)
           = SumFunctionOnSet(f, S) + (IF j \in S THEN g[j] - f[j] ELSE 0)
  BY <1>1, <1>4, SumMoved
<1>9. /\ SumFunctionOnSet(c, S) \in Int
      /\ SumFunctionOnSet(d, S)
           = SumFunctionOnSet(c, S) + (IF j \in S THEN d[j] - c[j] ELSE 0)
  BY <1>1, <1>4, SumMoved
<1>. QED
  BY <1>0, <1>5, <1>6, <1>7, <1>8, <1>9

\* What a step pays into the pool for a line is what the line records, up to
\* what the line may still use.
LEMMA PoolMoves ==
  ASSUME ProductionInv, PoolBounds, TypeOK', NEW j \in Lines, NEW gram \in Int,
         \A i \in Lines \ {j} : PaidIn(i)' = PaidIn(i) /\ Credit(i)' = Credit(i),
         PaidIn(j)' - PaidIn(j) <= gram, gram <= Credit(j)' - Credit(j),
         pool' = AddTo(pool, OrderOf[j], MetalOf[j], gram),
         orderStatus' = orderStatus
  PROVE  PoolBounds'
<1>. SUFFICES ASSUME NEW o \in Orders, NEW m \in Metals, orderStatus[o] = "OPEN"
              PROVE  /\ PaidInBy(o, m)' <= pool'[o][m]
                     /\ pool'[o][m] <= CreditOf(o, m)'
  BY DEF PoolBounds
<1>0. TypeOK /\ j \in Issues
  BY LinesAreIssues DEF ProductionInv
<1>1. /\ PaidIn(j) \in Int /\ Credit(j) \in Int
      /\ PaidIn(j)' \in Int /\ Credit(j)' \in Int
  <2>1. (PaidIn(j) \in Int /\ Credit(j) \in Int)'
    BY NextAmountTypes
  <2>. QED
    BY <1>0, <2>1, PaidInType
<1>2. /\ PaidInBy(o, m) \in Int /\ CreditOf(o, m) \in Int
      /\ PaidInBy(o, m)' = PaidInBy(o, m) +
           (IF j \in LinesIn(o, m) THEN PaidIn(j)' - PaidIn(j) ELSE 0)
      /\ CreditOf(o, m)' = CreditOf(o, m) +
           (IF j \in LinesIn(o, m) THEN Credit(j)' - Credit(j) ELSE 0)
  BY <1>0, OneLineMoves
<1>3. /\ pool[o][m] \in Int
      /\ pool'[o][m] = pool[o][m] + (IF j \in LinesIn(o, m) THEN gram ELSE 0)
  <2>1. /\ pool \in [Orders -> [Metals -> Int]]
        /\ OrderOf[j] \in Orders /\ MetalOf[j] \in Metals
    BY <1>0, IssueParts DEF TypeOK
  <2>2. pool'[o][m] = IF OrderOf[j] = o /\ MetalOf[j] = m
                      THEN pool[o][m] + gram ELSE pool[o][m]
    BY <2>1 DEF AddTo
  <2>. QED
    BY <2>1, <2>2, LinesInFacts
<1>4. PaidInBy(o, m) <= pool[o][m] /\ pool[o][m] <= CreditOf(o, m)
  BY DEF PoolBounds
<1>. QED
  BY <1>1, <1>2, <1>3, <1>4

\* A step that leaves the pool of an order alone keeps its bounds when no line
\* records another amount or may use less.
LEMMA PoolKept ==
  ASSUME ProductionInv, PoolBounds, TypeOK',
         \A i \in Lines : PaidIn(i)' = PaidIn(i) /\ Credit(i) <= Credit(i)',
         \A o \in Orders : orderStatus'[o] = "OPEN" =>
           orderStatus[o] = "OPEN" /\ pool'[o] = pool[o]
  PROVE  PoolBounds'
<1>. SUFFICES ASSUME NEW o \in Orders, NEW m \in Metals, orderStatus'[o] = "OPEN"
              PROVE  /\ PaidInBy(o, m)' <= pool'[o][m]
                     /\ pool'[o][m] <= CreditOf(o, m)'
  BY DEF PoolBounds
<1>0. PICK S, f, g, c, d :
        /\ S = LinesIn(o, m)
        /\ f = [i \in Lines |-> PaidIn(i)] /\ g = [i \in Lines |-> PaidIn(i)']
        /\ c = [i \in Lines |-> Credit(i)] /\ d = [i \in Lines |-> Credit(i)']
  OBVIOUS
<1>1. IsFiniteSet(S) /\ S \subseteq Lines
  BY <1>0, LinesInFacts
<1>2. \A i \in Lines : Credit(i) \in Int /\ Credit(i)' \in Int
  <2>1. \A i \in Lines : Credit(i) \in Int
    BY PaidInType DEF ProductionInv
  <2>2. (\A i \in Lines : Credit(i) \in Int)'
    BY NextAmountTypes
  <2>. QED
    BY <2>1, <2>2
<1>3. /\ \A i \in S : f[i] = g[i]
      /\ \A i \in S : c[i] \in Int /\ d[i] \in Int /\ c[i] <= d[i]
  BY <1>0, <1>1, <1>2
<1>4. /\ SumFunctionOnSet(f, S) = SumFunctionOnSet(g, S)
      /\ SumFunctionOnSet(c, S) \in Int /\ SumFunctionOnSet(d, S) \in Int
      /\ SumFunctionOnSet(c, S) <= SumFunctionOnSet(d, S)
  BY <1>1, <1>3, SumSame, SumLeq, SumInt
<1>5. /\ PaidInBy(o, m) = SumFunctionOnSet(f, S)
      /\ CreditOf(o, m) = SumFunctionOnSet(c, S)
      /\ PaidInBy(o, m)' = SumFunctionOnSet(g, S)
      /\ CreditOf(o, m)' = SumFunctionOnSet(d, S)
  BY <1>0, SumsPrimed DEF PaidInBy, CreditOf
<1>6. /\ PaidInBy(o, m) <= pool[o][m] /\ pool[o][m] <= CreditOf(o, m)
      /\ pool'[o] = pool[o] /\ pool[o][m] \in Int
  BY DEF PoolBounds, ProductionInv, TypeOK
<1>. QED
  BY <1>4, <1>5, <1>6

\* What a line paid in depends on its own rows only.
LEMMA LineKept ==
  ASSUME NEW i, Weighed(i)' <=> Weighed(i),
         line'[i].allowed = line[i].allowed, line'[i].actual = line[i].actual,
         line'[i].surplus = line[i].surplus, line'[i].deficit = line[i].deficit,
         issue'[i].weight = issue[i].weight,
         ret'[i] = ret[i], returnsMade'[i] = returnsMade[i]
  PROVE  PaidIn(i)' = PaidIn(i) /\ Credit(i)' = Credit(i)
<1>1. LossOf(i, line[i].actual)' = LossOf(i, line[i].actual)
  BY DEF LossOf
<1>2. PaidIn(i)' = PaidIn(i)
  BY <1>1 DEF PaidIn, WithinAllowance
<1>3. Used(i)' <=> Used(i)
  BY <1>1 DEF Used, WithinAllowance
<1>. QED
  BY <1>2, <1>3 DEF Credit

\* An issue without a return has paid nothing into the pool.
LEMMA NothingPaid ==
  ASSUME ProductionInv, NEW i \in Lines, ret[i].id = 0
  PROVE  ~Weighed(i) /\ PaidIn(i) = 0 /\ Credit(i) = Eps * returnsMade[i]
<1>1. ~Weighed(i)
  BY LineReturn DEF Weighed
<1>2. Eps * returnsMade[i] \in Int
  BY LinesAreIssues, ProductionAssumption DEF ProductionInv, TypeOK
<1>. QED
  BY <1>1, <1>2 DEF PaidIn, Credit, Used

\* The rows of the audit that no transaction touched are as good as before.
AuditRows == LedgerRows /\ WeighedLines /\ DirectReturns

LEMMA AuditRowsKept ==
  ASSUME AuditRows, UNCHANGED <<issue, line, ret, dispute, stock>>
  PROVE  AuditRows'
BY DEF AuditRows, LedgerRows, WeighedLines, DirectReturns, Weighed, LossOf,
       MaxWaste, WithinAllowance

LEMMA WeightSnapshotsKept ==
  ASSUME TypeOK, WeightSnapshots, NEW r \in Requests, Answer(r),
         \A q \in Request : WeightSnapshot(q) => WeightSnapshot(q)'
  PROVE  WeightSnapshots'
<1> SUFFICES ASSUME NEW s \in Requests
             PROVE  WeightSnapshot(req[s])'
  BY DEF WeightSnapshots
<1>1. CASE s = r
  <2>1. req'[s] = Idle
    BY <1>1 DEF Answer, TypeOK
  <2> QED
    BY <2>1 DEF WeightSnapshot, Idle
<1>2. CASE s # r
  <2>1. req'[s] = req[s] /\ req[s] \in Request
    BY <1>2 DEF Answer, TypeOK
  <2>2. WeightSnapshot(req[s])
    BY DEF WeightSnapshots
  <2> QED
    BY <2>1, <2>2 DEF WeightSnapshot
<1> QED
  BY <1>1, <1>2

\* A step that changes no weight, line, return, dispute or pool.
LEMMA QuietAudit ==
  ASSUME AuditInv, ProductionInv', WeightSnapshots',
         UNCHANGED <<orderStatus, issue, line, ret, returnsMade, dispute, stock,
                     pool>>
  PROVE  AuditInv'
<1>1. AuditRows'
  BY AuditRowsKept DEF AuditInv, AuditRows
<1>2. \A i \in Lines : /\ PaidIn(i)' = PaidIn(i) /\ Credit(i)' = Credit(i)
                       /\ Credit(i) \in Int
  <2>1. \A i \in Lines : PaidIn(i)' = PaidIn(i) /\ Credit(i)' = Credit(i)
    BY LineKept DEF Weighed
  <2>. QED
    BY <2>1, PaidInType DEF AuditInv, ProductionInv
<1>3. PoolBounds'
  BY <1>2, PoolKept DEF AuditInv, ProductionInv
<1>. QED
  BY <1>1, <1>3 DEF AuditInv, AuditRows

LEMMA AuditRequest ==
  ASSUME AuditInv, ProductionInv', UNCHANGED Tables, NEW r \in Requests,
         NEW q, WeightSnapshot(q), req' = [req EXCEPT ![r] = q]
  PROVE  AuditInv'
<1>1. WeightSnapshots'
  <2> SUFFICES ASSUME NEW s \in Requests
               PROVE  WeightSnapshot(req[s])'
    BY DEF WeightSnapshots
  <2>1. req'[s] = IF s = r THEN q ELSE req[s]
    BY DEF AuditInv, ProductionInv, TypeOK
  <2>2. WeightSnapshot(req[s])
    BY DEF AuditInv, WeightSnapshots
  <2> QED
    BY <2>1, <2>2 DEF WeightSnapshot, Tables
<1>. QED
  BY <1>1, QuietAudit DEF Tables

LEMMA RequestingAudit ==
  ASSUME AuditInv, NEW r \in Requests, Requesting(r)
  PROVE  AuditInv'
<1>0. ProductionInv /\ ProductionInv'
  BY RequestingInv DEF AuditInv
<1>1. ASSUME UNCHANGED Tables, NEW q, Submit(r, q), q.op \notin {"weighIn", "correct"}
      PROVE  AuditInv'
  <2>1. WeightSnapshot(q)
    BY <1>1 DEF WeightSnapshot
  <2> QED
    BY <1>0, <1>1, <2>1, AuditRequest DEF Submit
<1>2. ASSUME NEW i \in Lines, NEW actual \in ActualWeights,
             RequestWeighIn(r, i, actual)
      PROVE  AuditInv'
  <2> DEFINE q == [op |-> "weighIn", issue |-> i, row |-> line[i],
                   actual |-> actual, read |-> FALSE, pooled |-> 0]
  <2>1. issue[i].created
    BY <1>0, <1>2 DEF RequestWeighIn, ProductionInv, LineRows
  <2>2. WeightSnapshot(q)
    BY <2>1 DEF WeightSnapshot
  <2> QED
    BY <1>0, <1>2, <2>2, AuditRequest DEF RequestWeighIn, Submit
<1>3. ASSUME NEW i \in Lines, RequestCorrect(r, i)
      PROVE  AuditInv'
  <2> DEFINE q == [op |-> "correct", issue |-> i, row |-> line[i]]
  <2>1. i \in Issues /\ line[i].status = "WEIGHED"
    BY <1>3, LinesAreIssues DEF RequestCorrect, Correctable
  <2>2. line[i].ret # 0 /\ ret[i].id = line[i].ret
    BY <1>0, <2>1, LineReturn
  <2>3. ret[i].id <= returnsMade[i]
    BY <1>0, <2>1 DEF ProductionInv, ReturnRows
  <2>4. WeightSnapshot(q)
    BY <2>2, <2>3 DEF WeightSnapshot
  <2> QED
    BY <1>0, <1>3, <2>4, AuditRequest DEF RequestCorrect, Submit
<1>4. ASSUME NEW i \in Issues, NEW raw \in RawWeights,
             NEW applied \in AppliedWeights, NEW sources \in SUBSET Items,
             RequestIssue(r, i, raw, applied, sources)
      PROVE  AuditInv'
  BY <1>1, <1>4 DEF RequestIssue
<1>5. ASSUME NEW i \in Lines, RequestApprove(r, i)
      PROVE  AuditInv'
  BY <1>1, <1>5 DEF RequestApprove
<1>6. ASSUME NEW i \in Issues, NEW weight \in ActualWeights,
             RequestReturn(r, i, weight)
      PROVE  AuditInv'
  BY <1>1, <1>6 DEF RequestReturn
<1>7. ASSUME NEW o \in Orders, RequestComplete(r, o)
      PROVE  AuditInv'
  BY <1>1, <1>7 DEF RequestComplete
<1>8. ASSUME NEW i \in Issues, NEW how \in Resolutions,
             RequestResolve(r, i, how)
      PROVE  AuditInv'
  BY <1>1, <1>8 DEF RequestResolve
<1> QED
  BY <1>2, <1>3, <1>4, <1>5, <1>6, <1>7, <1>8 DEF Requesting

\* Reads, aborts and sales of other items.
LEMMA ReadingAudit ==
  ASSUME AuditInv, NEW r \in Requests, Reading(r)
  PROVE  AuditInv'
<1>0. /\ TypeOK /\ ProductionInv' /\ WeightSnapshot(req[r])
      /\ req[r] \in Request /\ UNCHANGED Tables
  BY ReadingInv DEF AuditInv, ProductionInv, TypeOK, WeightSnapshots,
     Reading, ReadPool, ReadDispute, ReadPools
<1>1. PICK q : /\ req' = [req EXCEPT ![r] = q]
               /\ q.op = req[r].op
               /\ q.op \in {"weighIn", "correct"} =>
                    q.issue = req[r].issue /\ q.row = req[r].row
  <2>1. CASE ReadPool(r)
    <3> DEFINE q == [req[r] EXCEPT !.read = TRUE,
                       !.pooled = pool[OrderOf[req[r].issue]]
                                      [MetalOf[req[r].issue]]]
    <3>1. req[r] \in WeighRequest
      BY <1>0, <2>1, RequestTypes DEF ReadPool
    <3>2. q.op = req[r].op /\ q.issue = req[r].issue /\ q.row = req[r].row
      BY <3>1 DEF WeighRequest
    <3>3. req' = [req EXCEPT ![r] = q]
      BY <1>0, <2>1 DEF ReadPool, TypeOK
    <3> HIDE DEF q
    <3> QED
      BY <3>2, <3>3
  <2>2. CASE ReadDispute(r)
    <3> DEFINE q == [req[r] EXCEPT !.read = TRUE,
                       !.hold = dispute[req[r].issue].status = "PENDING"]
    <3>1. req[r] \in ApproveRequest /\ req[r].op = "approve"
      BY <1>0, <2>2, RequestTypes DEF ReadDispute
    <3>2. q.op = req[r].op
      BY <3>1 DEF ApproveRequest
    <3>3. req' = [req EXCEPT ![r] = q]
      BY <1>0, <2>2 DEF ReadDispute, TypeOK
    <3> HIDE DEF q
    <3> QED
      BY <3>1, <3>2, <3>3
  <2>3. CASE ReadPools(r)
    <3> DEFINE q == [req[r] EXCEPT !.read = TRUE, !.pooled = pool[req[r].order]]
    <3>1. req[r] \in CompleteRequest /\ req[r].op = "complete"
      BY <1>0, <2>3, RequestTypes DEF ReadPools
    <3>2. q.op = req[r].op
      BY <3>1 DEF CompleteRequest
    <3>3. req' = [req EXCEPT ![r] = q]
      BY <1>0, <2>3 DEF ReadPools, TypeOK
    <3> HIDE DEF q
    <3> QED
      BY <3>1, <3>2, <3>3
  <2> QED
    BY <2>1, <2>2, <2>3 DEF Reading
<1>2. WeightSnapshot(q)
  BY <1>0, <1>1 DEF WeightSnapshot
<1> QED
  BY <1>0, <1>1, <1>2, AuditRequest

LEMMA AbortAudit ==
  ASSUME AuditInv, NEW r \in Requests, Abort(r)
  PROVE  AuditInv'
<1>1. ProductionInv' /\ UNCHANGED Tables /\ Answer(r)
  BY AbortInv DEF AuditInv, Abort
<1>2. WeightSnapshot(Idle)
  BY DEF WeightSnapshot, Idle
<1> QED
  BY <1>1, <1>2, AuditRequest DEF Answer

LEMMA SellItemAudit ==
  ASSUME AuditInv, NEW s \in Items, SellItem(s)
  PROVE  AuditInv'
<1>1. ProductionInv'
  BY SellItemInv DEF AuditInv
<1>2. WeightSnapshots'
  BY DEF AuditInv, SellItem, WeightSnapshots, WeightSnapshot
<1> QED
  BY <1>1, <1>2, QuietAudit DEF SellItem

\* What a weigh-in writes, in terms of the line's rows.
WeighedIn(i, actual, spare, surplus, cover, uncovered) ==
  /\ line[i].status = "ISSUED" /\ issue[i].created
  /\ ret[i].id = 0 /\ dispute[i].status = "NONE"
  /\ spare = line[i].allowed - LossOf(i, actual)
  /\ WithinAllowance(LossOf(i, actual), line[i].allowed) =>
       surplus = Material(spare) /\ cover = 0 /\ uncovered = 0
  /\ ~WithinAllowance(LossOf(i, actual), line[i].allowed) =>
       surplus = 0 /\ cover <= -spare /\ uncovered = Material(-spare - cover)
  /\ pool' = AddTo(pool, OrderOf[i], MetalOf[i], surplus - cover)
  /\ ret'[i] = [id |-> returnsMade[i] + 1, byLine |-> TRUE]
  /\ returnsMade'[i] = returnsMade[i] + 1
  /\ line'[i] = [status |-> "WEIGHED", allowed |-> line[i].allowed,
                 ret |-> returnsMade[i] + 1, actual |-> actual,
                 surplus |-> surplus, deficit |-> uncovered,
                 disputed |-> uncovered > 0]
  /\ dispute'[i] = IF uncovered > 0
                   THEN [status |-> "PENDING", excess |-> uncovered,
                         how |-> "NONE"]
                   ELSE dispute[i]
  /\ \A j \in Issues \ {i} :
       ret'[j] = ret[j] /\ returnsMade'[j] = returnsMade[j]
         /\ dispute'[j] = dispute[j]
  /\ \A j \in Lines \ {i} : line'[j] = line[j]
  /\ UNCHANGED <<orderStatus, issue, stock, item, balance>>

LEMMA WeighInRows ==
  ASSUME AuditInv, NEW r \in Requests, CommitWeighIn(r)
  PROVE  /\ Answer(r)
         /\ \E i \in Lines, actual, surplus, cover, uncovered \in Nat, spare \in Int :
              i = req[r].issue /\ WeighedIn(i, actual, spare, surplus, cover, uncovered)
<1> DEFINE q == req[r]
           i == q.issue
           o == OrderOf[i]
           m == MetalOf[i]
           loss == LossOf(i, q.actual)
           spare == q.row.allowed - loss
           short == NeedsPool(q)
           surplus == IF short THEN 0 ELSE Material(spare)
           cover == IF short
                    THEN CoverFrom(-spare, q.pooled, pool[o][m]) ELSE 0
           uncovered == IF short THEN Material(-spare - cover) ELSE 0
<1>0. TypeOK /\ q \in WeighRequest /\ q.op = "weighIn" /\ WeightSnapshot(q)
  BY RequestTypes
     DEF AuditInv, ProductionInv, TypeOK, CommitWeighIn, WeightSnapshots
<1>1. /\ i \in Lines /\ i \in Issues /\ o \in Orders /\ m \in Metals
      /\ ret[i].id = 0 /\ line[i].status = "ISSUED" /\ issue[i].created
      /\ dispute[i].status = "NONE" /\ q.row.allowed = line[i].allowed
  <2>1. i \in Lines /\ i \in Issues /\ o \in Orders /\ m \in Metals
    BY <1>0, LinesAreIssues, IssueParts DEF WeighRequest
  <2>2. ret[i].id = 0 /\ line[i].status = "ISSUED"
    <3>1. ret[i] = NoReturn /\ line[i].status = "ISSUED"
      BY DEF CommitWeighIn, NoReturnYet
    <3> QED
      BY <3>1 DEF NoReturn
  <2>3. dispute[i].status = "NONE"
    BY <2>1, <2>2 DEF AuditInv, ProductionInv, DisputeRows
  <2>4. issue[i].created /\ q.row.allowed = line[i].allowed
    BY <1>0 DEF WeightSnapshot
  <2> QED
    BY <2>1, <2>2, <2>3, <2>4
<1>2. /\ loss \in Int /\ spare \in Int /\ q.pooled \in Int /\ pool[o][m] \in Int
      /\ q.actual \in Nat /\ line[i].allowed \in Int
  BY <1>0, <1>1 DEF TypeOK, WeighRequest, LineRow, IssueRow, LossOf
<1>3. short <=> ~WithinAllowance(loss, line[i].allowed)
  BY <1>1 DEF NeedsPool
<1> HIDE DEF loss, short
<1>4. spare = line[i].allowed - loss
  BY <1>1
<1> HIDE DEF spare
<1>5. /\ surplus \in Nat /\ cover \in Nat
      /\ short => surplus = 0 /\ cover <= -spare
      /\ ~short => surplus = Material(spare) /\ cover = 0
  <2>1. CASE short
    <3>1. -spare \in Int
      BY <1>2
    <3>2. short => -spare >= 0
      BY <1>2, <1>3, <1>4, ProductionAssumption DEF WithinAllowance
    <3> QED
      BY <1>2, <2>1, <3>1, <3>2, CoverType
  <2>2. CASE ~short
    BY <1>2, <2>2, MaterialType
  <2> QED
    BY <2>1, <2>2
<1>6. /\ uncovered \in Nat
      /\ short => uncovered = Material(-spare - cover)
      /\ ~short => uncovered = 0
  <2>1. -spare - cover \in Int
    BY <1>2, <1>5
  <2> QED
    BY <2>1, MaterialType
<1>7. /\ pool' = AddTo(pool, o, m, surplus - cover)
      /\ returnsMade' = [returnsMade EXCEPT ![i] = @ + 1]
      /\ ret' = [ret EXCEPT ![i] = [id |-> returnsMade[i] + 1, byLine |-> TRUE]]
      /\ dispute' = IF uncovered > 0
                    THEN [dispute EXCEPT ![i] =
                            [status |-> "PENDING", excess |-> uncovered,
                             how |-> "NONE"]]
                    ELSE dispute
      /\ line' = [line EXCEPT ![i] =
                    [status |-> "WEIGHED", allowed |-> @.allowed,
                     ret |-> returnsMade[i] + 1, actual |-> q.actual,
                     surplus |-> surplus, deficit |-> uncovered,
                     disputed |-> uncovered > 0]]
      /\ UNCHANGED <<orderStatus, issue, stock, item, balance>>
      /\ Answer(r)
  BY DEF CommitWeighIn, spare, short, loss
<1> HIDE DEF surplus, cover, uncovered
<1>8. /\ line'[i] = [status |-> "WEIGHED", allowed |-> line[i].allowed,
                     ret |-> returnsMade[i] + 1, actual |-> q.actual,
                     surplus |-> surplus, deficit |-> uncovered,
                     disputed |-> uncovered > 0]
      /\ \A j \in Lines \ {i} : line'[j] = line[j]
  BY <1>0, <1>1, <1>7 DEF TypeOK
<1>9. /\ ret'[i] = [id |-> returnsMade[i] + 1, byLine |-> TRUE]
      /\ returnsMade'[i] = returnsMade[i] + 1
      /\ dispute'[i] = IF uncovered > 0
                       THEN [status |-> "PENDING", excess |-> uncovered,
                             how |-> "NONE"]
                       ELSE dispute[i]
      /\ \A j \in Issues \ {i} :
           ret'[j] = ret[j] /\ returnsMade'[j] = returnsMade[j]
             /\ dispute'[j] = dispute[j]
  BY <1>0, <1>1, <1>7 DEF TypeOK
<1> HIDE DEF i, o, m
<1>10. PICK j, a, sp, su, co, un :
         j = i /\ a = q.actual /\ sp = spare /\ su = surplus /\ co = cover
           /\ un = uncovered
  OBVIOUS
<1>11. LossOf(j, a) = loss
  BY <1>10 DEF loss
<1> HIDE DEF q
<1>12. j = req[r].issue /\ OrderOf[j] = o /\ MetalOf[j] = m
  BY <1>10 DEF q, i, o, m
<1>13. WeighedIn(j, a, sp, su, co, un)
  BY <1>1, <1>3, <1>4, <1>5, <1>6, <1>7, <1>8, <1>9, <1>10, <1>11, <1>12
     DEF WeighedIn
<1>14. j \in Lines /\ a \in Nat /\ sp \in Int /\ su \in Nat /\ co \in Nat /\ un \in Nat
  BY <1>1, <1>2, <1>5, <1>6, <1>10
<1>15. \E jj \in Lines, aa, ssu, cco, uun \in Nat, ssp \in Int :
         jj = req[r].issue /\ WeighedIn(jj, aa, ssp, ssu, cco, uun)
  BY <1>12, <1>13, <1>14
<1> QED
  BY <1>7, <1>15

\* What recording an amount leaves out is at most WEIGHT_EPSILON.
LEMMA MaterialDrift ==
  ASSUME NEW gram \in Int
  PROVE  /\ Material(gram) \in Nat
         /\ gram - Material(gram) <= Eps
         /\ gram >= 0 => Material(gram) <= gram
         /\ gram > Eps => Material(gram) = gram
BY ProductionAssumption DEF Material

\* One more return allows the drift of one more WEIGHT_EPSILON.
LEMMA DriftStep ==
  \A n \in Nat : /\ Eps * n \in Int /\ Eps * (n + 1) \in Int
                 /\ Eps * (n + 1) = Eps * n + Eps
BY ProductionAssumption

LEMMA WeighInAudit ==
  ASSUME AuditInv, NEW r \in Requests, CommitWeighIn(r)
  PROVE  AuditInv'
<1>0. /\ ProductionInv /\ ProductionInv' /\ TypeOK /\ TypeOK' /\ Answer(r)
      /\ LedgerRows /\ WeighedLines /\ DirectReturns /\ WeightSnapshots /\ PoolBounds
  BY CommitWeighInInv, WeighInRows DEF AuditInv, ProductionInv
<1>1. PICK i \in Lines, actual, surplus, cover, uncovered \in Nat, spare \in Int :
        WeighedIn(i, actual, spare, surplus, cover, uncovered)
  BY WeighInRows
<1>2. PICK loss, allowed \in Int :
        /\ loss = LossOf(i, actual) /\ allowed = line[i].allowed
        /\ spare = allowed - loss /\ i \in Issues
        /\ WithinAllowance(loss, allowed) <=> loss <= allowed + Eps
  <2>1. LossOf(i, actual) \in Int /\ line[i].allowed \in Int /\ i \in Issues
    BY <1>0, <1>1, LinesAreIssues DEF TypeOK, IssueRow, LineRow, LossOf
  <2>. QED
    BY <1>1, <2>1 DEF WeighedIn, WithinAllowance
<1>3. /\ Weighed(i)' /\ LossOf(i, line[i].actual)' = loss
      /\ line'[i].allowed = allowed /\ line'[i].surplus = surplus
      /\ line'[i].deficit = uncovered
      /\ ret'[i].id = returnsMade[i] + 1 /\ ret'[i].byLine
      /\ issue' = issue /\ stock' = stock
  BY <1>1, <1>2 DEF WeighedIn, Weighed, LossOf
<1>4. \A j \in Lines \ {i} : PaidIn(j)' = PaidIn(j) /\ Credit(j)' = Credit(j)
  <2>. SUFFICES ASSUME NEW j \in Lines \ {i}
                PROVE  PaidIn(j)' = PaidIn(j) /\ Credit(j)' = Credit(j)
    OBVIOUS
  <2>1. /\ line'[j] = line[j] /\ ret'[j] = ret[j]
        /\ returnsMade'[j] = returnsMade[j] /\ issue' = issue
    BY <1>1, LinesAreIssues DEF WeighedIn
  <2>. QED
    BY <2>1, LineKept DEF Weighed
<1>5. PoolBounds'
  <2>1. PaidIn(i) = 0 /\ Credit(i) = Eps * returnsMade[i]
    BY <1>0, <1>1, NothingPaid DEF WeighedIn
  <2>2. PaidIn(i)' = IF WithinAllowance(loss, allowed) THEN surplus
                     ELSE uncovered - (loss - allowed)
    BY <1>3 DEF PaidIn, WithinAllowance
  <2>3. /\ returnsMade[i] \in Nat /\ returnsMade'[i] = returnsMade[i] + 1
        /\ Eps \in Nat /\ ret'[i].id # 0
    BY <1>0, <1>1, <1>2, <1>3, ProductionAssumption DEF TypeOK, WeighedIn
  <2>4. Used(i)' <=> WithinAllowance(loss, allowed)
    BY <1>3, <2>3 DEF Used, WithinAllowance
  <2>5. Credit(i)' = PaidIn(i)' + Eps * (returnsMade[i] + 1)
                       - (IF WithinAllowance(loss, allowed) THEN Eps ELSE 0)
    BY <2>3, <2>4 DEF Credit
  <2>6. /\ PaidIn(i)' - PaidIn(i) <= surplus - cover
        /\ surplus - cover <= Credit(i)' - Credit(i)
    <3>1. /\ Eps * returnsMade[i] \in Int
          /\ Eps * (returnsMade[i] + 1) = Eps * returnsMade[i] + Eps
      BY <2>3, DriftStep
    <3>2. CASE WithinAllowance(loss, allowed)
      <4>1. cover = 0
        BY <1>1, <1>2, <3>2 DEF WeighedIn
      <4>. QED
        BY <2>1, <2>2, <2>3, <2>5, <3>1, <3>2, <4>1
    <3>3. CASE ~WithinAllowance(loss, allowed)
      <4>1. surplus = 0 /\ cover <= -spare /\ uncovered = Material(-spare - cover)
        BY <1>1, <1>2, <3>3 DEF WeighedIn
      <4>2. /\ -spare - cover >= 0 /\ uncovered <= -spare - cover
            /\ -spare - cover - uncovered <= Eps
        BY <4>1, MaterialDrift
      <4>. QED
        BY <1>2, <2>1, <2>2, <2>3, <2>5, <3>1, <3>3, <4>1, <4>2
    <3>. QED
      BY <3>2, <3>3
  <2>7. /\ pool' = AddTo(pool, OrderOf[i], MetalOf[i], surplus - cover)
        /\ orderStatus' = orderStatus /\ surplus - cover \in Int
    BY <1>1 DEF WeighedIn
  <2>. QED
    BY <1>0, <1>4, <2>6, <2>7, PoolMoves
<1>6. LedgerRows'
  BY <1>0, <1>1, <1>3 DEF WeighedIn, LedgerRows
<1>7. WeighedLines'
  <2>. SUFFICES ASSUME NEW j \in Lines, Weighed(j)'
                PROVE  (LET l == LossOf(j, line[j].actual)
                        IN  /\ line[j].surplus = IF WithinAllowance(l, line[j].allowed)
                                                 THEN Material(line[j].allowed - l) ELSE 0
                            /\ line[j].deficit > 0 => ~WithinAllowance(l, line[j].allowed))'
    BY DEF WeighedLines
  <2>1. CASE j = i
    <3>1. /\ surplus = IF WithinAllowance(loss, allowed) THEN Material(allowed - loss) ELSE 0
          /\ uncovered > 0 => ~WithinAllowance(loss, allowed)
      BY <1>1, <1>2 DEF WeighedIn
    <3>. QED
      BY <1>3, <2>1, <3>1 DEF WithinAllowance, Material
  <2>2. CASE j # i
    <3>1. line'[j] = line[j] /\ issue' = issue
      BY <1>1, <2>2 DEF WeighedIn
    <3>. QED
      BY <1>0, <3>1 DEF WeighedLines, Weighed, LossOf, WithinAllowance, Material
  <2>. QED
    BY <2>1, <2>2
<1>8. DirectReturns'
  <2>1. \A j \in Issues \ {i} : ret'[j] = ret[j] /\ dispute'[j] = dispute[j]
    BY <1>1 DEF WeighedIn
  <2>. QED
    BY <1>0, <1>3, <2>1 DEF DirectReturns, MaxWaste
<1>9. WeightSnapshots'
  <2>1. ASSUME NEW p \in Request, WeightSnapshot(p)
        PROVE  WeightSnapshot(p)'
    <3>1. p.op = "weighIn" =>
            issue'[p.issue].created /\ p.row.allowed = line'[p.issue].allowed
      <4>1. p.op = "weighIn" => p.issue \in Lines
        BY RequestTypes DEF WeighRequest
      <4>. QED
        BY <1>1, <1>2, <1>3, <2>1, <4>1 DEF WeightSnapshot, WeighedIn
    <3>2. ASSUME p.op = "correct"
          PROVE  /\ p.row.ret # 0 /\ p.row.ret <= returnsMade'[p.issue]
                 /\ ret'[p.issue].id = p.row.ret =>
                      /\ line'[p.issue].allowed = p.row.allowed
                      /\ line'[p.issue].actual = p.row.actual
                      /\ line'[p.issue].surplus = p.row.surplus
                      /\ line'[p.issue].deficit = p.row.deficit
      <4>1. p.issue \in Lines /\ p.issue \in Issues /\ p.row.ret \in Nat
        BY <3>2, RequestTypes, LinesAreIssues DEF CorrectRequest, LineRow
      <4>2. p.row.ret # 0 /\ p.row.ret <= returnsMade[p.issue]
        BY <2>1, <3>2 DEF WeightSnapshot
      <4>3. CASE p.issue = i
        <5>1. /\ returnsMade[i] \in Nat /\ returnsMade'[i] = returnsMade[i] + 1
              /\ ret'[i].id = returnsMade[i] + 1
          BY <1>0, <1>1, <1>2, <1>3 DEF TypeOK, WeighedIn
        <5>. QED
          BY <4>1, <4>2, <4>3, <5>1
      <4>4. CASE p.issue # i
        <5>1. /\ returnsMade'[p.issue] = returnsMade[p.issue]
              /\ ret'[p.issue] = ret[p.issue] /\ line'[p.issue] = line[p.issue]
          BY <1>1, <4>1, <4>4 DEF WeighedIn
        <5>. QED
          BY <2>1, <3>2, <4>2, <5>1 DEF WeightSnapshot
      <4>. QED
        BY <4>3, <4>4
    <3>. QED
      BY <3>1, <3>2 DEF WeightSnapshot
  <2>. QED
    BY <1>0, <2>1, WeightSnapshotsKept
<1>. QED
  BY <1>0, <1>5, <1>6, <1>7, <1>8, <1>9 DEF AuditInv

\* What handing metal out writes.
HandedOut(i, applied) ==
  /\ ~issue[i].created /\ issue'[i].created /\ issue'[i].applied = applied
  /\ \A j \in Issues \ {i} : issue'[j] = issue[j]
  /\ \A j \in Lines \ {i} : line'[j] = line[j]
  /\ i \in Lines => line[i].status = "PENDING" /\ line'[i].status = "ISSUED"
  /\ balance' = AddTo(balance, KarigarOf[OrderOf[i]], MetalOf[i], -applied)
  /\ UNCHANGED <<orderStatus, ret, returnsMade, dispute, stock, pool>>

LEMMA IssueRows ==
  ASSUME AuditInv, NEW r \in Requests, CommitIssue(r)
  PROVE  /\ Answer(r)
         /\ \E i \in Issues, applied \in Nat : HandedOut(i, applied)
<1> DEFINE q == req[r]
           i == q.issue
<1>0. TypeOK /\ q \in IssueRequest
  BY RequestTypes DEF AuditInv, ProductionInv, TypeOK, CommitIssue
<1>1. i \in Issues /\ q.applied \in Nat
  BY <1>0 DEF IssueRequest
<1>2. /\ ~issue[i].created
      /\ balance' = AddTo(balance, KarigarOf[OrderOf[i]], MetalOf[i], -q.applied)
      /\ issue' = [issue EXCEPT ![i] =
                     [created |-> TRUE, weight |-> q.weight,
                      applied |-> q.applied, sources |-> q.sources]]
      /\ i \in Lines => line[i].status = "PENDING"
      /\ line' = IF i \in Lines
                 THEN [line EXCEPT ![i].status = "ISSUED",
                         ![i].allowed = q.weight - Expected[i]]
                 ELSE line
      /\ UNCHANGED <<orderStatus, ret, returnsMade, dispute, stock, pool>>
      /\ Answer(r)
  BY DEF CommitIssue
<1>3. /\ \A j \in Lines \ {i} : line'[j] = line[j]
      /\ i \in Lines => line'[i].status = "ISSUED"
  BY <1>0, <1>2 DEF TypeOK, LineRow
<1>4. /\ issue'[i].created /\ issue'[i].applied = q.applied
      /\ \A j \in Issues \ {i} : issue'[j] = issue[j]
  BY <1>0, <1>1, <1>2 DEF TypeOK
<1>5. HandedOut(i, q.applied)
  BY <1>2, <1>3, <1>4 DEF HandedOut
<1>. QED
  BY <1>1, <1>2, <1>5

LEMMA IssueAudit ==
  ASSUME AuditInv, NEW r \in Requests, CommitIssue(r)
  PROVE  AuditInv'
<1>0. /\ ProductionInv /\ ProductionInv' /\ TypeOK /\ TypeOK' /\ Answer(r)
      /\ LedgerRows /\ WeighedLines /\ DirectReturns /\ WeightSnapshots /\ PoolBounds
  BY CommitIssueInv, IssueRows DEF AuditInv, ProductionInv
<1>1. PICK i \in Issues, applied \in Nat : HandedOut(i, applied)
  BY IssueRows
<1>2. ret[i].id = 0
  BY <1>0, <1>1 DEF ProductionInv, ReturnRows, HandedOut
<1>3. /\ ret' = ret /\ returnsMade' = returnsMade /\ dispute' = dispute
      /\ stock' = stock /\ pool' = pool /\ orderStatus' = orderStatus
  BY <1>1 DEF HandedOut
<1>4. \A j \in Lines : Weighed(j) \/ Weighed(j)' =>
        j # i /\ line'[j] = line[j] /\ issue'[j] = issue[j]
  BY <1>1, LinesAreIssues DEF HandedOut, Weighed
<1>5. PoolBounds'
  <2>. SUFFICES ASSUME NEW j \in Lines
                PROVE  PaidIn(j)' = PaidIn(j) /\ Credit(j) <= Credit(j)'
    BY <1>0, <1>3, PoolKept
  <2>1. PaidIn(j)' = PaidIn(j) /\ Credit(j)' = Credit(j)
    <3>1. CASE j = i
      <4>1. PaidIn(j) = 0 /\ Credit(j) = Eps * returnsMade[j]
        BY <1>0, <1>2, <3>1, NothingPaid
      <4>2. PaidIn(j)' = 0
        BY <1>4, <3>1 DEF PaidIn
      <4>3. ~Used(j)'
        BY <1>2, <1>3, <3>1 DEF Used
      <4>4. Eps * returnsMade[j] \in Int
        BY <1>0, DriftStep, LinesAreIssues DEF TypeOK
      <4>. QED
        BY <1>3, <4>1, <4>2, <4>3, <4>4 DEF Credit
    <3>2. CASE j # i
      <4>1. line'[j] = line[j] /\ issue'[j] = issue[j]
        BY <1>1, <3>2, LinesAreIssues DEF HandedOut
      <4>. QED
        BY <1>3, <4>1, LineKept DEF Weighed
    <3>. QED
      BY <3>1, <3>2
  <2>. QED
    BY <1>0, <2>1, PaidInType
<1>6. LedgerRows'
  BY <1>0, <1>1, <1>3 DEF HandedOut, LedgerRows
<1>7. WeighedLines'
  <2>. SUFFICES ASSUME NEW j \in Lines, Weighed(j)'
                PROVE  (LET l == LossOf(j, line[j].actual)
                        IN  /\ line[j].surplus = IF WithinAllowance(l, line[j].allowed)
                                                 THEN Material(line[j].allowed - l) ELSE 0
                            /\ line[j].deficit > 0 => ~WithinAllowance(l, line[j].allowed))'
    BY DEF WeighedLines
  <2>1. line'[j] = line[j] /\ issue'[j] = issue[j] /\ Weighed(j)
    BY <1>4 DEF Weighed
  <2>. QED
    BY <1>0, <2>1 DEF WeighedLines, LossOf, WithinAllowance, Material
<1>8. DirectReturns'
  <2>1. \A j \in Issues \ {i} : issue'[j] = issue[j]
    BY <1>1 DEF HandedOut
  <2>. QED
    BY <1>0, <1>2, <1>3, <2>1 DEF DirectReturns, MaxWaste
<1>9. WeightSnapshots'
  <2>. SUFFICES ASSUME NEW p \in Request, WeightSnapshot(p)
                PROVE  WeightSnapshot(p)'
    BY <1>0, WeightSnapshotsKept
  <2>1. p.op \in {"weighIn", "correct"} => p.issue \in Lines /\ p.issue \in Issues
    BY RequestTypes, LinesAreIssues DEF WeighRequest, CorrectRequest
  <2>2. p.op \in {"weighIn", "correct"} /\ p.issue # i =>
          line'[p.issue] = line[p.issue] /\ issue'[p.issue] = issue[p.issue]
    BY <1>1, <2>1 DEF HandedOut
  <2>3. p.op = "weighIn" => p.issue # i
    BY <1>1 DEF WeightSnapshot, HandedOut
  <2>. QED
    BY <1>2, <1>3, <2>1, <2>2, <2>3 DEF WeightSnapshot
<1>. QED
  BY <1>0, <1>5, <1>6, <1>7, <1>8, <1>9 DEF AuditInv

\* What undoing a weigh-in writes: the pool gets back exactly what the line
\* says it paid in.
Undone(i) ==
  /\ line[i].status = "WEIGHED" /\ PaidIn(i) \in Int
  /\ pool' = AddTo(pool, OrderOf[i], MetalOf[i], -PaidIn(i))
  /\ line'[i].status = "ISSUED" /\ line'[i].allowed = line[i].allowed
  /\ ret'[i].id = 0
  /\ \A j \in Issues \ {i} : ret'[j] = ret[j]
  /\ \A j \in Lines \ {i} : line'[j] = line[j]
  /\ UNCHANGED <<orderStatus, issue, returnsMade, dispute, stock, item, balance>>

LEMMA CorrectRows ==
  ASSUME AuditInv, NEW r \in Requests, CommitCorrect(r)
  PROVE  /\ Answer(r)
         /\ \E i \in Lines : Undone(i)
<1> DEFINE q == req[r]
           i == q.issue
<1>0. /\ TypeOK /\ ProductionInv /\ q \in CorrectRequest /\ q.op = "correct"
      /\ WeightSnapshot(q)
  BY RequestTypes
     DEF AuditInv, ProductionInv, TypeOK, CommitCorrect, WeightSnapshots
<1>1. i \in Lines /\ i \in Issues
  BY <1>0, LinesAreIssues DEF CorrectRequest
<1>2. /\ line[i].status = "WEIGHED" /\ ~line[i].disputed
      /\ ret[i].id = q.row.ret
      /\ pool' = AddTo(pool, OrderOf[i], MetalOf[i], GivenBack(i, q.row))
      /\ line' = [line EXCEPT ![i] = [NewLine EXCEPT
                    !.status = "ISSUED", !.allowed = line[i].allowed]]
      /\ ret' = [ret EXCEPT ![i] = NoReturn]
      /\ UNCHANGED <<orderStatus, issue, returnsMade, dispute, stock, item,
                     balance>>
      /\ Answer(r)
  BY DEF CommitCorrect, ReturnStillThere
<1>3. /\ q.row.allowed = line[i].allowed /\ q.row.actual = line[i].actual
      /\ q.row.surplus = line[i].surplus /\ q.row.deficit = line[i].deficit
  BY <1>0, <1>2 DEF WeightSnapshot
<1>4. PICK loss, allowed \in Int, surplus \in Nat :
        /\ loss = LossOf(i, line[i].actual) /\ allowed = line[i].allowed
        /\ surplus = line[i].surplus /\ line[i].deficit = 0
        /\ WithinAllowance(loss, allowed) <=> loss <= allowed + Eps
  <2>1. /\ LossOf(i, line[i].actual) \in Int /\ line[i].allowed \in Int
        /\ line[i].surplus \in Nat /\ line[i].deficit \in Nat
    BY <1>0, <1>1 DEF TypeOK, IssueRow, LineRow, LossOf
  <2>2. ~(line[i].deficit > 0)
    BY <1>0, <1>1, <1>2 DEF ProductionInv, DisputeRows, DisputeIsTheDeficit
  <2>. QED
    BY <2>1, <2>2 DEF WithinAllowance
<1>5. surplus = IF WithinAllowance(loss, allowed) THEN Material(allowed - loss) ELSE 0
  BY <1>0, <1>1, <1>2, <1>4 DEF AuditInv, WeighedLines, Weighed
<1>6. PaidIn(i) = IF WithinAllowance(loss, allowed) THEN surplus
                  ELSE 0 - (loss - allowed)
  BY <1>2, <1>4 DEF PaidIn, Weighed
<1>7. GivenBack(i, q.row) = IF surplus > Eps THEN -surplus
                            ELSE IF ~WithinAllowance(loss, allowed)
                                 THEN Material(loss - allowed - 0) ELSE 0
  BY <1>3, <1>4 DEF GivenBack
<1>8. PaidIn(i) \in Int /\ GivenBack(i, q.row) = -PaidIn(i)
  <2>0. Eps \in Nat
    BY ProductionAssumption
  <2>1. CASE WithinAllowance(loss, allowed)
    <3>1. allowed - loss \in Int
      BY <1>4
    <3>2. surplus > Eps \/ surplus = 0
      BY <1>5, <2>0, <2>1, <3>1 DEF Material
    <3>. QED
      BY <1>4, <1>6, <1>7, <2>0, <2>1, <3>2
  <2>2. CASE ~WithinAllowance(loss, allowed)
    <3>1. loss - allowed - 0 \in Int /\ loss - allowed - 0 > Eps
      BY <1>4, <2>0, <2>2
    <3>2. Material(loss - allowed - 0) = loss - allowed - 0
      BY <3>1, MaterialDrift
    <3>. QED
      BY <1>4, <1>5, <1>6, <1>7, <2>0, <2>2, <3>2
  <2>. QED
    BY <2>1, <2>2
<1>9. /\ line'[i].status = "ISSUED" /\ line'[i].allowed = line[i].allowed
      /\ \A j \in Lines \ {i} : line'[j] = line[j]
  BY <1>0, <1>1, <1>2 DEF TypeOK, NewLine
<1>10. ret'[i].id = 0 /\ \A j \in Issues \ {i} : ret'[j] = ret[j]
  BY <1>0, <1>1, <1>2 DEF TypeOK, NoReturn
<1>11. Undone(i)
  BY <1>2, <1>8, <1>9, <1>10 DEF Undone
<1>. QED
  BY <1>1, <1>2, <1>11

LEMMA CorrectAudit ==
  ASSUME AuditInv, NEW r \in Requests, CommitCorrect(r)
  PROVE  AuditInv'
<1>0. /\ ProductionInv /\ ProductionInv' /\ TypeOK /\ TypeOK' /\ Answer(r)
      /\ LedgerRows /\ WeighedLines /\ DirectReturns /\ WeightSnapshots /\ PoolBounds
  BY CommitCorrectInv, CorrectRows DEF AuditInv, ProductionInv
<1>1. PICK i \in Lines : Undone(i)
  BY CorrectRows
<1>2. i \in Issues /\ returnsMade[i] \in Nat
  BY <1>0, LinesAreIssues DEF TypeOK
<1>3. /\ orderStatus' = orderStatus /\ issue' = issue /\ dispute' = dispute
      /\ stock' = stock /\ returnsMade' = returnsMade
  BY <1>1 DEF Undone
<1>4. \A j \in Lines \ {i} : line'[j] = line[j] /\ ret'[j] = ret[j]
  BY <1>1, LinesAreIssues DEF Undone
<1>5. PoolBounds'
  <2>1. \A j \in Lines \ {i} : PaidIn(j)' = PaidIn(j) /\ Credit(j)' = Credit(j)
    BY <1>3, <1>4, LineKept DEF Weighed
  <2>2. PaidIn(i)' = 0
    BY <1>1 DEF PaidIn, Weighed, Undone
  <2>3. ~Used(i)' /\ returnsMade'[i] = returnsMade[i]
    BY <1>1 DEF Used, Undone
  <2>4. /\ Credit(i)' = 0 + Eps * returnsMade[i] - 0
        /\ Credit(i) = PaidIn(i) + Eps * returnsMade[i] - (IF Used(i) THEN Eps ELSE 0)
    BY <2>2, <2>3 DEF Credit
  <2>5. Eps * returnsMade[i] \in Int /\ Eps \in Nat /\ PaidIn(i) \in Int
    BY <1>1, <1>2, DriftStep, ProductionAssumption DEF Undone
  <2>6. /\ -PaidIn(i) \in Int /\ PaidIn(i)' - PaidIn(i) <= -PaidIn(i)
        /\ -PaidIn(i) <= Credit(i)' - Credit(i)
    BY <2>2, <2>4, <2>5
  <2>7. pool' = AddTo(pool, OrderOf[i], MetalOf[i], -PaidIn(i))
    BY <1>1 DEF Undone
  <2>. QED
    BY <1>0, <1>3, <2>1, <2>6, <2>7, PoolMoves
<1>6. LedgerRows'
  BY <1>0, <1>3 DEF LedgerRows
<1>7. WeighedLines'
  <2>1. \A j \in Lines : Weighed(j)' => j # i
    BY <1>1 DEF Weighed, Undone
  <2>. QED
    BY <1>0, <1>3, <1>4, <2>1
       DEF WeighedLines, Weighed, LossOf, WithinAllowance, Material
<1>8. DirectReturns'
  <2>1. ret'[i].id = 0 /\ \A j \in Issues \ {i} : ret'[j] = ret[j]
    BY <1>1 DEF Undone
  <2>. QED
    BY <1>0, <1>3, <2>1 DEF DirectReturns, MaxWaste
<1>9. WeightSnapshots'
  <2>. SUFFICES ASSUME NEW p \in Request, WeightSnapshot(p)
                PROVE  WeightSnapshot(p)'
    BY <1>0, WeightSnapshotsKept
  <2>1. p.op \in {"weighIn", "correct"} => p.issue \in Lines
    BY RequestTypes DEF WeighRequest, CorrectRequest
  <2>2. /\ line'[i].allowed = line[i].allowed /\ ret'[i].id = 0
    BY <1>1 DEF Undone
  <2>. QED
    BY <1>3, <1>4, <2>1, <2>2 DEF WeightSnapshot
<1>. QED
  BY <1>0, <1>5, <1>6, <1>7, <1>8, <1>9 DEF AuditInv

LEMMA ApproveAudit ==
  ASSUME AuditInv, NEW r \in Requests, CommitApprove(r)
  PROVE  AuditInv'
<1>0. /\ ProductionInv /\ ProductionInv' /\ TypeOK /\ TypeOK'
      /\ LedgerRows /\ WeighedLines /\ DirectReturns /\ WeightSnapshots /\ PoolBounds
  BY CommitApproveInv DEF AuditInv, ProductionInv
<1>1. PICK i \in Lines :
        /\ i \in Issues /\ line[i].status = "WEIGHED"
        /\ line' = [line EXCEPT ![i].status = "APPROVED"]
        /\ \A j \in Issues \ {i} : stock'[j] = stock[j]
        /\ UNCHANGED <<orderStatus, issue, ret, returnsMade, dispute, pool>>
        /\ Answer(r)
  <2>1. req[r].issue \in Lines /\ req[r].issue \in Issues
    BY <1>0, CommitTargets, LinesAreIssues
  <2>. QED
    BY <1>0, <2>1 DEF CommitApprove, TypeOK
<1>2. \A j \in Lines : /\ Weighed(j)' <=> Weighed(j)
                       /\ line'[j].allowed = line[j].allowed
                       /\ line'[j].actual = line[j].actual
                       /\ line'[j].surplus = line[j].surplus
                       /\ line'[j].deficit = line[j].deficit
  BY <1>0, <1>1 DEF TypeOK, LineRow, Weighed
<1>3. PoolBounds'
  <2>1. \A j \in Lines : PaidIn(j)' = PaidIn(j) /\ Credit(j)' = Credit(j)
    BY <1>1, <1>2, LineKept
  <2>. QED
    BY <1>0, <1>1, <2>1, PaidInType, PoolKept
<1>4. LedgerRows'
  BY <1>0, <1>1 DEF LedgerRows
<1>5. WeighedLines'
  BY <1>0, <1>1, <1>2 DEF WeighedLines, LossOf, WithinAllowance, Material
<1>6. DirectReturns'
  <2>1. ret[i].byLine
    BY <1>0, <1>1, LineReturn
  <2>. QED
    BY <1>0, <1>1, <2>1 DEF DirectReturns, MaxWaste
<1>7. WeightSnapshots'
  <2>. SUFFICES ASSUME NEW p \in Request, WeightSnapshot(p)
                PROVE  WeightSnapshot(p)'
    BY <1>0, <1>1, WeightSnapshotsKept
  <2>1. p.op \in {"weighIn", "correct"} => p.issue \in Lines
    BY RequestTypes DEF WeighRequest, CorrectRequest
  <2>. QED
    BY <1>1, <1>2, <2>1 DEF WeightSnapshot
<1>. QED
  BY <1>0, <1>3, <1>4, <1>5, <1>6, <1>7 DEF AuditInv

\* What a return without a line writes.
ReturnedAlone(i) ==
  /\ ret[i].id = 0 /\ dispute[i].status = "NONE"
  /\ ret'[i] = [id |-> returnsMade[i] + 1, byLine |-> FALSE]
  /\ returnsMade'[i] = returnsMade[i] + 1
  /\ dispute'[i].status # "RESOLVED" /\ dispute'[i].how = "NONE"
  /\ dispute'[i].status = "NONE" => dispute'[i].excess = 0
  /\ issue[i].weight - stock'[i].weight <= MaxWaste(i) + dispute'[i].excess + Eps
  /\ \A j \in Issues \ {i} :
       ret'[j] = ret[j] /\ returnsMade'[j] = returnsMade[j]
         /\ dispute'[j] = dispute[j] /\ stock'[j] = stock[j]
  /\ UNCHANGED <<orderStatus, issue, line, pool, balance>>

LEMMA ReturnRowsOf ==
  ASSUME AuditInv, NEW r \in Requests, CommitReturn(r)
  PROVE  /\ Answer(r)
         /\ \E i \in Issues : ReturnedAlone(i)
<1> DEFINE q == req[r]
           i == q.issue
           waste == LossOf(i, q.weight)
           within == waste <= MaxWaste(i) + Eps
<1>0. TypeOK /\ ProductionInv /\ q \in ReturnRequest
  BY RequestTypes DEF AuditInv, ProductionInv, TypeOK, CommitReturn
<1>1. /\ i \in Issues /\ ret[i].id = 0 /\ dispute[i].status = "NONE"
      /\ dispute[i].how = "NONE" /\ dispute[i].excess = 0
  <2>1. i \in Issues /\ ret[i].id = 0 /\ dispute[i].status = "NONE"
    BY <1>0, CommitTargets
  <2>. QED
    BY <2>1 DEF AuditInv, LedgerRows
<1>2. /\ waste \in Int /\ MaxWaste(i) \in Int /\ Eps \in Nat
      /\ waste = issue[i].weight - q.weight
      /\ issue[i].weight \in Nat /\ q.weight \in Nat
  BY <1>0, <1>1, MaxWasteType, ProductionAssumption
     DEF TypeOK, IssueRow, ReturnRequest, LossOf
<1>3. /\ returnsMade' = [returnsMade EXCEPT ![i] = returnsMade[i] + 1]
      /\ ret' = [ret EXCEPT ![i] = [id |-> returnsMade[i] + 1, byLine |-> FALSE]]
      /\ stock' = [stock EXCEPT ![i] =
                     [status |-> IF within THEN "IN_STOCK" ELSE "UNDER_DISPUTE",
                      weight |-> q.weight, ret |-> returnsMade[i] + 1]]
      /\ dispute' = IF within
                    THEN dispute
                    ELSE [dispute EXCEPT ![i] =
                            [status |-> "PENDING",
                             excess |-> waste - MaxWaste(i), how |-> "NONE"]]
      /\ UNCHANGED <<orderStatus, issue, line, pool, balance>>
      /\ Answer(r)
  BY DEF CommitReturn
<1> HIDE DEF waste
<1>4. /\ dispute'[i] = IF within THEN dispute[i]
                       ELSE [status |-> "PENDING", excess |-> waste - MaxWaste(i),
                             how |-> "NONE"]
      /\ \A j \in Issues \ {i} : dispute'[j] = dispute[j]
  BY <1>0, <1>1, <1>3 DEF TypeOK
<1>5. /\ stock'[i].weight = q.weight
      /\ \A j \in Issues \ {i} : stock'[j] = stock[j]
  BY <1>0, <1>1, <1>3 DEF TypeOK
<1>6. /\ ret'[i] = [id |-> returnsMade[i] + 1, byLine |-> FALSE]
      /\ returnsMade'[i] = returnsMade[i] + 1
      /\ \A j \in Issues \ {i} : ret'[j] = ret[j] /\ returnsMade'[j] = returnsMade[j]
  BY <1>0, <1>1, <1>3 DEF TypeOK
<1>7. /\ issue[i].weight - stock'[i].weight <= MaxWaste(i) + dispute'[i].excess + Eps
      /\ dispute'[i].status # "RESOLVED" /\ dispute'[i].how = "NONE"
      /\ dispute'[i].status = "NONE" => dispute'[i].excess = 0
  <2>1. CASE within
    <3>1. dispute'[i] = dispute[i]
      BY <1>4, <2>1
    <3>. QED
      BY <1>1, <1>2, <1>5, <2>1, <3>1
  <2>2. CASE ~within
    <3>1. dispute'[i] = [status |-> "PENDING", excess |-> waste - MaxWaste(i),
                         how |-> "NONE"]
      BY <1>4, <2>2
    <3>2. /\ dispute'[i].status = "PENDING" /\ dispute'[i].how = "NONE"
          /\ dispute'[i].excess = waste - MaxWaste(i)
      BY <3>1
    <3>. QED
      BY <1>2, <1>5, <3>2
  <2>. QED
    BY <2>1, <2>2
<1>8. ReturnedAlone(i)
  BY <1>1, <1>3, <1>4, <1>5, <1>6, <1>7 DEF ReturnedAlone
<1>. QED
  BY <1>1, <1>3, <1>8

LEMMA ReturnAudit ==
  ASSUME AuditInv, NEW r \in Requests, CommitReturn(r)
  PROVE  AuditInv'
<1>0. /\ ProductionInv /\ ProductionInv' /\ TypeOK /\ TypeOK' /\ Answer(r)
      /\ LedgerRows /\ WeighedLines /\ DirectReturns /\ WeightSnapshots /\ PoolBounds
  BY CommitReturnInv, ReturnRowsOf DEF AuditInv, ProductionInv
<1>1. PICK i \in Issues : ReturnedAlone(i)
  BY ReturnRowsOf
<1>2. /\ returnsMade[i] \in Nat /\ returnsMade'[i] = returnsMade[i] + 1
      /\ ret'[i].id = returnsMade[i] + 1 /\ ~ret'[i].byLine /\ ret[i].id = 0
  BY <1>0, <1>1 DEF TypeOK, ReturnedAlone
<1>3. /\ orderStatus' = orderStatus /\ issue' = issue /\ line' = line
      /\ pool' = pool
      /\ \A j \in Issues \ {i} :
           ret'[j] = ret[j] /\ returnsMade'[j] = returnsMade[j]
             /\ dispute'[j] = dispute[j] /\ stock'[j] = stock[j]
  BY <1>1 DEF ReturnedAlone
<1>4. PoolBounds'
  <2>. SUFFICES ASSUME NEW j \in Lines
                PROVE  PaidIn(j)' = PaidIn(j) /\ Credit(j) <= Credit(j)'
    BY <1>0, <1>3, PoolKept
  <2>1. PaidIn(j)' = PaidIn(j) /\ Credit(j)' = Credit(j)
    <3>1. CASE j = i
      <4>1. ~Weighed(j) /\ PaidIn(j) = 0 /\ Credit(j) = Eps * returnsMade[j]
        BY <1>0, <1>2, <3>1, NothingPaid
      <4>2. PaidIn(j)' = 0
        BY <1>3, <4>1 DEF PaidIn, Weighed
      <4>3. Used(j)'
        BY <1>2, <3>1 DEF Used
      <4>4. /\ Eps * returnsMade[i] \in Int /\ Eps \in Nat
            /\ Eps * (returnsMade[i] + 1) = Eps * returnsMade[i] + Eps
        BY <1>2, DriftStep, ProductionAssumption
      <4>5. Credit(j)' = 0 + Eps * (returnsMade[i] + 1) - Eps
        BY <1>2, <3>1, <4>2, <4>3 DEF Credit
      <4>. QED
        BY <3>1, <4>1, <4>2, <4>4, <4>5
    <3>2. CASE j # i
      BY <1>3, <3>2, LineKept, LinesAreIssues DEF Weighed
    <3>. QED
      BY <3>1, <3>2
  <2>. QED
    BY <1>0, <2>1, PaidInType
<1>5. LedgerRows'
  <2>1. /\ dispute'[i].status # "RESOLVED" /\ dispute'[i].how = "NONE"
        /\ dispute'[i].status = "NONE" => dispute'[i].excess = 0
    BY <1>1 DEF ReturnedAlone
  <2>. QED
    BY <1>0, <1>3, <2>1 DEF LedgerRows
<1>6. WeighedLines'
  BY <1>0, <1>3 DEF WeighedLines, Weighed, LossOf, WithinAllowance, Material
<1>7. DirectReturns'
  <2>1. issue[i].weight - stock'[i].weight <= MaxWaste(i) + dispute'[i].excess + Eps
    BY <1>1 DEF ReturnedAlone
  <2>. QED
    BY <1>0, <1>3, <2>1 DEF DirectReturns, MaxWaste
<1>8. WeightSnapshots'
  <2>. SUFFICES ASSUME NEW p \in Request, WeightSnapshot(p)
                PROVE  WeightSnapshot(p)'
    BY <1>0, WeightSnapshotsKept
  <2>1. p.op = "correct" => p.issue \in Issues /\ p.row.ret \in Nat
    BY RequestTypes, LinesAreIssues DEF CorrectRequest, LineRow
  <2>. QED
    BY <1>2, <1>3, <2>1 DEF WeightSnapshot
<1>. QED
  BY <1>0, <1>4, <1>5, <1>6, <1>7, <1>8 DEF AuditInv

\* What completing an order writes.
Swept(o, pooled) ==
  /\ orderStatus' = [orderStatus EXCEPT ![o] = "COMPLETED"]
  /\ \A p \in Orders \ {o} : pool'[p] = pool[p]
  /\ balance' = [balance EXCEPT ![KarigarOf[o]] =
                   [m \in Metals |-> @[m] + Material(pooled[m])]]
  /\ UNCHANGED <<issue, line, ret, returnsMade, dispute, stock, item>>

LEMMA CompleteRows ==
  ASSUME AuditInv, NEW r \in Requests, CommitComplete(r)
  PROVE  /\ Answer(r)
         /\ req[r] \in CompleteRequest /\ req[r].op = "complete"
         /\ Swept(req[r].order, req[r].pooled)
<1>1. TypeOK /\ req[r] \in CompleteRequest /\ req[r].op = "complete"
  BY RequestTypes DEF AuditInv, ProductionInv, TypeOK, CommitComplete
<1> DEFINE o == req[r].order
           swept == [m \in Metals |-> Material(req[r].pooled[m])]
<1>2. /\ balance' = [balance EXCEPT ![KarigarOf[o]] =
                       [m \in Metals |-> @[m] + swept[m]]]
      /\ pool' = [pool EXCEPT ![o] =
                    [m \in Metals |-> IF swept[m] > 0 THEN 0 ELSE @[m]]]
      /\ orderStatus' = [orderStatus EXCEPT ![o] = "COMPLETED"]
      /\ UNCHANGED <<issue, line, ret, returnsMade, dispute, stock, item>>
      /\ Answer(r)
  BY DEF CommitComplete
<1>3. \A p \in Orders \ {o} : pool'[p] = pool[p]
  BY <1>1, <1>2 DEF TypeOK
<1>4. balance' = [balance EXCEPT ![KarigarOf[o]] =
                    [m \in Metals |-> @[m] + Material(req[r].pooled[m])]]
  <2>1. \A m \in Metals : swept[m] = Material(req[r].pooled[m])
    OBVIOUS
  <2>2. [m \in Metals |-> balance[KarigarOf[o]][m] + swept[m]]
          = [m \in Metals |-> balance[KarigarOf[o]][m] + Material(req[r].pooled[m])]
    BY <2>1
  <2>. QED
    BY <1>2, <2>2
<1>. QED
  BY <1>1, <1>2, <1>3, <1>4 DEF Swept

LEMMA CompleteAudit ==
  ASSUME AuditInv, NEW r \in Requests, CommitComplete(r)
  PROVE  AuditInv'
<1>0. /\ ProductionInv /\ ProductionInv' /\ TypeOK /\ TypeOK' /\ Answer(r)
      /\ AuditRows /\ WeightSnapshots /\ PoolBounds
  BY CommitCompleteInv, CompleteRows DEF AuditInv, ProductionInv, AuditRows
<1>1. PICK o, pooled : Swept(o, pooled)
  BY CompleteRows
<1>2. /\ issue' = issue /\ line' = line /\ ret' = ret /\ dispute' = dispute
      /\ stock' = stock /\ returnsMade' = returnsMade
  BY <1>1 DEF Swept
<1>3. PoolBounds'
  <2>1. \A j \in Lines : PaidIn(j)' = PaidIn(j) /\ Credit(j)' = Credit(j)
    BY <1>2, LineKept DEF Weighed
  <2>2. \A p \in Orders : orderStatus'[p] = "OPEN" =>
          orderStatus[p] = "OPEN" /\ pool'[p] = pool[p]
    BY <1>0, <1>1 DEF Swept, TypeOK
  <2>. QED
    BY <1>0, <2>1, <2>2, PaidInType, PoolKept
<1>4. AuditRows'
  BY <1>0, <1>2, AuditRowsKept
<1>5. WeightSnapshots'
  BY <1>0, <1>2, WeightSnapshotsKept DEF WeightSnapshot
<1>. QED
  BY <1>0, <1>3, <1>4, <1>5 DEF AuditInv, AuditRows

\* What resolving a dispute writes.
Settled(i, how) ==
  /\ dispute[i].status # "NONE"
  /\ dispute'[i].status = "RESOLVED" /\ dispute'[i].how = how
  /\ dispute'[i].excess = dispute[i].excess
  /\ \A j \in Issues \ {i} : dispute'[j] = dispute[j]
  /\ \A j \in Issues : stock'[j].weight = stock[j].weight
  /\ stock' = Lifted(i)
  /\ balance' = IF how = "METAL_CARRYFORWARD"
                THEN AddTo(balance, KarigarOf[OrderOf[i]], MetalOf[i],
                           dispute[i].excess)
                ELSE balance
  /\ UNCHANGED <<orderStatus, issue, line, ret, returnsMade, pool>>

LEMMA ResolveRows ==
  ASSUME AuditInv, NEW r \in Requests, CommitResolve(r)
  PROVE  /\ Answer(r)
         /\ req[r].op = "resolve" /\ req[r].issue \in Issues
         /\ req[r].how \in Resolutions
         /\ Settled(req[r].issue, req[r].how)
<1> DEFINE q == req[r]
           i == q.issue
<1>1. TypeOK /\ q \in ResolveRequest /\ q.op = "resolve"
  BY RequestTypes DEF AuditInv, ProductionInv, TypeOK, CommitResolve
<1>2. i \in Issues /\ q.how \in Resolutions /\ dispute[i].status # "NONE"
  BY <1>1, CommitTargets DEF AuditInv, ResolveRequest
<1>3. /\ balance' = IF q.how = "METAL_CARRYFORWARD"
                    THEN AddTo(balance, KarigarOf[OrderOf[i]], MetalOf[i],
                               dispute[i].excess)
                    ELSE balance
      /\ dispute' = [dispute EXCEPT ![i].status = "RESOLVED", ![i].how = q.how]
      /\ stock' = Lifted(i)
      /\ UNCHANGED <<orderStatus, issue, line, ret, returnsMade, pool>>
      /\ Answer(r)
  BY DEF CommitResolve, Resolved
<1>4. /\ dispute'[i].status = "RESOLVED" /\ dispute'[i].how = q.how
      /\ dispute'[i].excess = dispute[i].excess
      /\ \A j \in Issues \ {i} : dispute'[j] = dispute[j]
  BY <1>1, <1>2, <1>3 DEF TypeOK, DisputeRow
<1>5. \A j \in Issues : stock'[j].weight = stock[j].weight
  BY <1>1, <1>2, <1>3 DEF TypeOK, StockRow, Lifted
<1>. QED
  BY <1>1, <1>2, <1>3, <1>4, <1>5 DEF Settled

LEMMA ResolveAudit ==
  ASSUME AuditInv, NEW r \in Requests, CommitResolve(r)
  PROVE  AuditInv'
<1>0. /\ ProductionInv /\ ProductionInv' /\ TypeOK /\ TypeOK' /\ Answer(r)
      /\ LedgerRows /\ WeighedLines /\ DirectReturns /\ WeightSnapshots /\ PoolBounds
  BY CommitResolveInv, ResolveRows DEF AuditInv, ProductionInv
<1>1. PICK i \in Issues, how \in Resolutions : Settled(i, how)
  BY ResolveRows
<1>2. /\ orderStatus' = orderStatus /\ issue' = issue /\ line' = line
      /\ ret' = ret /\ returnsMade' = returnsMade /\ pool' = pool
  BY <1>1 DEF Settled
<1>3. PoolBounds'
  <2>1. \A j \in Lines : PaidIn(j)' = PaidIn(j) /\ Credit(j)' = Credit(j)
    BY <1>2, LineKept DEF Weighed
  <2>. QED
    BY <1>0, <1>2, <2>1, PaidInType, PoolKept
<1>4. LedgerRows'
  BY <1>0, <1>1, <1>2 DEF LedgerRows, Settled
<1>5. WeighedLines'
  BY <1>0, <1>2 DEF WeighedLines, Weighed, LossOf, WithinAllowance, Material
<1>6. DirectReturns'
  <2>1. \A j \in Issues : /\ dispute'[j].excess = dispute[j].excess
                          /\ stock'[j].weight = stock[j].weight
    BY <1>1 DEF Settled
  <2>. QED
    BY <1>0, <1>2, <2>1 DEF DirectReturns, MaxWaste
<1>7. WeightSnapshots'
  BY <1>0, <1>2, WeightSnapshotsKept DEF WeightSnapshot
<1>. QED
  BY <1>0, <1>3, <1>4, <1>5, <1>6, <1>7 DEF AuditInv

LEMMA InitAudit == Init => AuditInv
<1>. SUFFICES ASSUME Init PROVE AuditInv
  OBVIOUS
<1>1. ProductionInv
  BY InitInv
<1>2. LedgerRows /\ DirectReturns /\ WeighedLines
  BY LinesAreIssues
     DEF Init, LedgerRows, DirectReturns, WeighedLines, Weighed, NoIssue,
         NoDispute, NoReturn, NewLine
<1>3. WeightSnapshots
  BY DEF Init, WeightSnapshots, WeightSnapshot, Idle
<1>4. PoolBounds
  <2>. SUFFICES ASSUME NEW o \in Orders, NEW m \in Metals
                PROVE  PaidInBy(o, m) <= pool[o][m] /\ pool[o][m] <= CreditOf(o, m)
    BY DEF PoolBounds
  <2>1. \A i \in Lines : PaidIn(i) = 0 /\ Credit(i) = 0
    <3>. SUFFICES ASSUME NEW i \in Lines PROVE PaidIn(i) = 0 /\ Credit(i) = 0
      OBVIOUS
    <3>1. ret[i].id = 0 /\ returnsMade[i] = 0
      BY LinesAreIssues DEF Init, NoReturn
    <3>2. Eps * 0 = 0
      BY ProductionAssumption
    <3>. QED
      BY <1>1, <3>1, <3>2, NothingPaid
  <2>2. PICK S, f, c : /\ S = LinesIn(o, m) /\ f = [i \in Lines |-> PaidIn(i)]
                       /\ c = [i \in Lines |-> Credit(i)]
    OBVIOUS
  <2>3. IsFiniteSet(S) /\ \A i \in S : f[i] = 0 /\ c[i] = 0
    BY <2>1, <2>2, LinesInFacts
  <2>4. SumFunctionOnSet(f, S) = 0 /\ SumFunctionOnSet(c, S) = 0
    BY <2>3, SumZero
  <2>5. PaidInBy(o, m) = 0 /\ CreditOf(o, m) = 0
    BY <2>2, <2>4 DEF PaidInBy, CreditOf
  <2>. QED
    BY <2>5 DEF Init
<1>. QED
  BY <1>1, <1>2, <1>3, <1>4 DEF AuditInv

LEMMA NextAudit == AuditInv /\ [Next]_vars => AuditInv'
<1>. SUFFICES ASSUME AuditInv, [Next]_vars PROVE AuditInv'
  OBVIOUS
<1>1. ASSUME NEW r \in Requests, Committing(r) PROVE AuditInv'
  BY <1>1, IssueAudit, WeighInAudit, CorrectAudit, ApproveAudit, ReturnAudit,
     CompleteAudit, ResolveAudit DEF Committing
<1>2. CASE UNCHANGED vars
  <2>1. ProductionInv'
    BY <1>2, NextInv DEF AuditInv
  <2>2. WeightSnapshots'
    BY <1>2 DEF AuditInv, WeightSnapshots, WeightSnapshot, vars
  <2>. QED
    BY <1>2, <2>1, <2>2, QuietAudit DEF vars
<1>. QED
  BY <1>1, <1>2, RequestingAudit, ReadingAudit, AbortAudit, SellItemAudit
     DEF Next

\* The rows and pools behind the accounts, in every reachable state.
THEOREM AuditInvHolds == Spec => []AuditInv
BY InitAudit, NextAudit, PTL DEF Spec

\* The drift a pool may have is one WEIGHT_EPSILON for every return made.
LEMMA CreditBound ==
  ASSUME TypeOK, NEW o, NEW m
  PROVE  /\ PaidInBy(o, m) \in Int /\ Eps * ReturnsMade(LinesIn(o, m)) \in Int
         /\ CreditOf(o, m) \in Int
         /\ CreditOf(o, m) <= PaidInBy(o, m) + Eps * ReturnsMade(LinesIn(o, m))
<1>0. PICK S, f, c, d, h :
        /\ S = LinesIn(o, m)
        /\ f = [i \in Lines |-> PaidIn(i)] /\ c = [i \in Lines |-> Credit(i)]
        /\ d = [i \in Lines |-> Eps * returnsMade[i]]
        /\ h = [i \in Lines |-> f[i] + d[i]]
  OBVIOUS
<1>1. IsFiniteSet(S) /\ S \subseteq Lines
  BY <1>0, LinesInFacts
<1>2. \A i \in S : /\ f[i] \in Int /\ c[i] \in Int /\ d[i] \in Int /\ h[i] \in Int
                   /\ d[i] = Eps * returnsMade[i] /\ returnsMade[i] \in Int
                   /\ h[i] = f[i] + d[i] /\ c[i] <= h[i]
  <2>. SUFFICES ASSUME NEW i \in S
                PROVE  /\ f[i] \in Int /\ c[i] \in Int /\ d[i] \in Int /\ h[i] \in Int
                       /\ d[i] = Eps * returnsMade[i] /\ returnsMade[i] \in Int
                       /\ h[i] = f[i] + d[i] /\ c[i] <= h[i]
    OBVIOUS
  <2>1. /\ f[i] = PaidIn(i) /\ c[i] = Credit(i) /\ d[i] = Eps * returnsMade[i]
        /\ h[i] = f[i] + d[i]
    BY <1>0, <1>1
  <2>2. PaidIn(i) \in Int /\ Credit(i) \in Int
    BY <1>1, PaidInType
  <2>3. returnsMade[i] \in Nat /\ Eps * returnsMade[i] \in Int /\ Eps \in Nat
    BY <1>1, DriftStep, LinesAreIssues, ProductionAssumption DEF TypeOK
  <2>4. Credit(i) <= PaidIn(i) + Eps * returnsMade[i]
    BY <2>2, <2>3 DEF Credit
  <2>. QED
    BY <2>1, <2>2, <2>3, <2>4
<1>3. /\ SumFunctionOnSet(c, S) \in Int /\ SumFunctionOnSet(f, S) \in Int
      /\ SumFunctionOnSet(d, S) \in Int
  BY <1>1, <1>2, SumInt
<1>4. SumFunctionOnSet(c, S) <= SumFunctionOnSet(h, S)
  BY <1>1, <1>2, SumLeq
<1>5. SumFunctionOnSet(h, S) = SumFunctionOnSet(f, S) + SumFunctionOnSet(d, S)
  BY <1>1, <1>2, SumAdd
<1>6. SumFunctionOnSet(d, S) = Eps * SumFunctionOnSet(returnsMade, S)
  <2>1. Eps \in Int
    BY ProductionAssumption
  <2>. QED
    BY <1>1, <1>2, <2>1, SumScale
<1>7. /\ PaidInBy(o, m) = SumFunctionOnSet(f, S)
      /\ CreditOf(o, m) = SumFunctionOnSet(c, S)
      /\ ReturnsMade(LinesIn(o, m)) = SumFunctionOnSet(returnsMade, S)
  BY <1>0 DEF PaidInBy, CreditOf, ReturnsMade
<1>. QED
  BY <1>3, <1>4, <1>5, <1>6, <1>7

\* An order's surplus pool is what its lines record, up to the drift.
THEOREM PoolMatchesLinesHolds == Spec => []PoolMatchesLines
<1>1. AuditInv => PoolMatchesLines
  <2>. SUFFICES ASSUME AuditInv, NEW o \in Orders, NEW m \in Metals,
                       orderStatus[o] = "OPEN"
                PROVE  /\ PaidInBy(o, m) <= pool[o][m]
                       /\ pool[o][m] <= PaidInBy(o, m)
                                          + Eps * ReturnsMade(LinesIn(o, m))
    BY DEF PoolMatchesLines
  <2>1. /\ PaidInBy(o, m) <= pool[o][m] /\ pool[o][m] <= CreditOf(o, m)
        /\ pool[o][m] \in Int /\ TypeOK
    BY DEF AuditInv, PoolBounds, ProductionInv, TypeOK
  <2>. QED
    BY <2>1, CreditBound
<1>. QED
  BY <1>1, AuditInvHolds, PTL

\* What one issue lacks is allowed, disputed, or taken from the pool.
LEMMA IssueAccounts ==
  ASSUME AuditInv, NEW i \in Issues
  PROVE  /\ Eps * returnsMade[i] \in Int
         /\ i \in Lines /\ ret[i].id = 0 => Credit(i) = Eps * returnsMade[i]
         /\ ret[i].id # 0 =>
              /\ issue[i].weight \in Int /\ ReturnedWeight(i) \in Int
              /\ Allowance(i) \in Int /\ dispute[i].excess \in Int
              /\ (IF i \in Lines THEN Credit(i) ELSE 0)
                   <= Allowance(i) + dispute[i].excess - issue[i].weight
                        + ReturnedWeight(i) + Eps * returnsMade[i]
<1>0. /\ ProductionInv /\ TypeOK /\ Eps \in Nat
      /\ returnsMade[i] \in Nat /\ Eps * returnsMade[i] \in Int
      /\ issue[i].weight \in Nat /\ dispute[i].excess \in Nat
      /\ stock[i].weight \in Nat /\ MaxWaste(i) \in Int /\ ret[i].id \in Nat
  BY DriftStep, MaxWasteType, ProductionAssumption
     DEF AuditInv, ProductionInv, TypeOK, IssueRow, DisputeRow, StockRow, ReturnRow
<1>1. i \in Lines /\ ret[i].id = 0 => Credit(i) = Eps * returnsMade[i]
  BY <1>0, NothingPaid
<1>2. ASSUME ret[i].id # 0, ret[i].byLine
      PROVE  /\ ReturnedWeight(i) \in Int /\ Allowance(i) \in Int
             /\ (IF i \in Lines THEN Credit(i) ELSE 0)
                   <= Allowance(i) + dispute[i].excess - issue[i].weight
                        + ReturnedWeight(i) + Eps * returnsMade[i]
  <2>1. i \in Lines /\ Weighed(i)
    BY <1>0, <1>2 DEF ProductionInv, ReturnRows, Weighed
  <2>2. PICK loss, allowed \in Int, actual, surplus, deficit \in Nat :
          /\ loss = LossOf(i, line[i].actual) /\ allowed = line[i].allowed
          /\ actual = line[i].actual /\ surplus = line[i].surplus
          /\ deficit = line[i].deficit /\ loss = issue[i].weight - actual
          /\ WithinAllowance(loss, allowed) <=> loss <= allowed + Eps
    <3>1. /\ line[i].actual \in Nat /\ line[i].surplus \in Nat
          /\ line[i].deficit \in Nat /\ line[i].allowed \in Int
          /\ LossOf(i, line[i].actual) = issue[i].weight - line[i].actual
      BY <1>0, <2>1 DEF TypeOK, LineRow, LossOf
    <3>2. LossOf(i, line[i].actual) \in Int
      BY <1>0, <3>1
    <3>. QED
      BY <3>1, <3>2 DEF WithinAllowance
  <2>3. ReturnedWeight(i) = actual /\ Allowance(i) = allowed
    BY <1>2, <2>2 DEF ReturnedWeight, Allowance
  <2>4. /\ surplus = IF WithinAllowance(loss, allowed)
                     THEN Material(allowed - loss) ELSE 0
        /\ deficit <= dispute[i].excess
    <3>1. surplus = IF WithinAllowance(loss, allowed)
                    THEN Material(allowed - loss) ELSE 0
      BY <2>1, <2>2 DEF AuditInv, WeighedLines
    <3>2. deficit > 0 => dispute[i].excess = deficit
      BY <1>0, <2>1, <2>2
         DEF ProductionInv, DisputeRows, DisputeIsTheDeficit, Weighed
    <3>. QED
      BY <1>0, <2>2, <3>1, <3>2
  <2>5. /\ PaidIn(i) = IF WithinAllowance(loss, allowed) THEN surplus
                       ELSE deficit - (loss - allowed)
        /\ Used(i) <=> WithinAllowance(loss, allowed)
    BY <1>2, <2>1, <2>2 DEF PaidIn, Used
  <2>6. Credit(i) <= allowed + dispute[i].excess - loss + Eps * returnsMade[i]
    <3>1. CASE WithinAllowance(loss, allowed)
      <4>1. Credit(i) = surplus + Eps * returnsMade[i] - Eps
        BY <2>5, <3>1 DEF Credit
      <4>2. allowed - loss \in Int
        BY <2>2
      <4>3. surplus - Eps <= allowed - loss
        BY <1>0, <2>2, <2>4, <3>1, <4>2 DEF Material
      <4>. QED
        BY <1>0, <2>2, <4>1, <4>3
    <3>2. CASE ~WithinAllowance(loss, allowed)
      <4>1. Credit(i) = deficit - (loss - allowed) + Eps * returnsMade[i] - 0
        BY <2>5, <3>2 DEF Credit
      <4>. QED
        BY <1>0, <2>2, <2>4, <4>1
    <3>. QED
      BY <3>1, <3>2
  <2>7. Credit(i) \in Int
    BY <1>0, <2>1, PaidInType
  <2>. QED
    BY <1>0, <2>1, <2>2, <2>3, <2>6, <2>7
<1>3. ASSUME ret[i].id # 0, ~ret[i].byLine
      PROVE  /\ ReturnedWeight(i) \in Int /\ Allowance(i) \in Int
             /\ (IF i \in Lines THEN Credit(i) ELSE 0)
                   <= Allowance(i) + dispute[i].excess - issue[i].weight
                        + ReturnedWeight(i) + Eps * returnsMade[i]
  <2>1. ReturnedWeight(i) = stock[i].weight /\ Allowance(i) = MaxWaste(i)
    BY <1>3 DEF ReturnedWeight, Allowance
  <2>2. issue[i].weight - stock[i].weight <= MaxWaste(i) + dispute[i].excess + Eps
    BY <1>3 DEF AuditInv, DirectReturns
  <2>3. Eps <= Eps * returnsMade[i]
    <3>1. returnsMade[i] # 0
      BY <1>0, <1>3 DEF ProductionInv, ReturnRows
    <3>2. PICK n \in Nat : returnsMade[i] = n + 1
      <4>1. returnsMade[i] - 1 \in Nat /\ returnsMade[i] = (returnsMade[i] - 1) + 1
        BY <1>0, <3>1
      <4>. QED
        BY <4>1
    <3>3. Eps * n \in Nat
      BY <1>0
    <3>. QED
      BY <1>0, <3>2, <3>3, DriftStep
  <2>4. i \in Lines => Credit(i) = Eps * returnsMade[i] - Eps
    <3>. SUFFICES ASSUME i \in Lines PROVE Credit(i) = Eps * returnsMade[i] - Eps
      OBVIOUS
    <3>1. ~Weighed(i)
      BY <1>0, <1>3, LineReturn DEF Weighed
    <3>2. PaidIn(i) = 0 /\ Used(i)
      BY <1>3, <3>1 DEF PaidIn, Used
    <3>. QED
      BY <1>0, <3>2 DEF Credit
  <2>. QED
    BY <1>0, <2>1, <2>2, <2>3, <2>4
<1>. QED
  BY <1>0, <1>1, <1>2, <1>3

\* What an order's pools hold is at most the credit of its lines.
LEMMA PoolsOfOrder ==
  ASSUME AuditInv, NEW o \in Orders, orderStatus[o] = "OPEN"
  PROVE  /\ SumFunctionOnSet(pool[o], Metals) \in Int
         /\ SumFunctionOnSet(pool[o], Metals)
              <= SumFunctionOnSet([i \in Lines |-> Credit(i)], LinesOf(o))
<1>0. PICK c, g, L : /\ c = [i \in Lines |-> Credit(i)] /\ L = LinesOf(o)
                     /\ g = [m \in Metals |-> CreditOf(o, m)]
  OBVIOUS
<1>1. TypeOK /\ IsFiniteSet(Metals) /\ IsFiniteSet(L) /\ L \subseteq Lines
  <2>1. L \subseteq Lines /\ L \subseteq Issues
    BY <1>0, LinesAreIssues DEF LinesOf
  <2>. QED
    BY <2>1, FS_Subset, AuditAssumption DEF AuditInv, ProductionInv
<1>2. \A m \in Metals :
        /\ pool[o][m] \in Int /\ g[m] \in Int /\ pool[o][m] <= g[m]
        /\ g[m] = SumFunctionOnSet(c, GroupOf(MetalOf, L, m))
  <2>. SUFFICES ASSUME NEW m \in Metals
                PROVE  /\ pool[o][m] \in Int /\ g[m] \in Int /\ pool[o][m] <= g[m]
                       /\ g[m] = SumFunctionOnSet(c, GroupOf(MetalOf, L, m))
    OBVIOUS
  <2>1. g[m] = CreditOf(o, m) /\ CreditOf(o, m) \in Int
    BY <1>0, <1>1, CreditBound
  <2>2. pool[o][m] \in Int /\ pool[o][m] <= CreditOf(o, m)
    BY <1>1 DEF AuditInv, PoolBounds, TypeOK
  <2>3. CreditOf(o, m) = SumFunctionOnSet(c, GroupOf(MetalOf, L, m))
    BY <1>0 DEF CreditOf, LinesIn, GroupOf
  <2>. QED
    BY <2>1, <2>2, <2>3
<1>3. \A i \in L : c[i] \in Int /\ MetalOf[i] \in Metals
  BY <1>0, <1>1, PaidInType, IssueParts, LinesAreIssues
<1>4. SumFunctionOnSet(g, Metals) = SumFunctionOnSet(c, L)
  BY <1>1, <1>2, <1>3, SumGroups
<1>5. SumFunctionOnSet(pool[o], Metals) <= SumFunctionOnSet(g, Metals)
  BY <1>1, <1>2, SumLeq
<1>6. SumFunctionOnSet(pool[o], Metals) \in Int
  BY <1>1, <1>2, SumInt
<1>. QED
  BY <1>0, <1>4, <1>5, <1>6

\* What is missing from an open order is allowed, disputed, or paid for.
THEOREM MissingMetalHolds == Spec => []MissingMetalIsAccounted
<1>1. ASSUME AuditInv, NEW o \in Orders, orderStatus[o] = "OPEN",
             NEW A, A = {i \in Issues : OrderOf[i] = o},
             NEW B, B = ReturnedRows(A)
      PROVE  Kharchar(B) + SumFunctionOnSet(pool[o], Metals)
               <= SumFunctionOnSet([i \in Issues |-> Allowance(i)], B)
                    + SumFunctionOnSet([i \in Issues |-> dispute[i].excess], B)
                    + Eps * ReturnsMade(A)
  <2>0. PICK w, v, a, e, c, d, k, x, y, s, t, L :
          /\ w = [i \in Issues |-> issue[i].weight]
          /\ v = [i \in Issues |-> ReturnedWeight(i)]
          /\ a = [i \in Issues |-> Allowance(i)]
          /\ e = [i \in Issues |-> dispute[i].excess]
          /\ d = [i \in Issues |-> Eps * returnsMade[i]]
          /\ c = [i \in Lines |-> Credit(i)]
          /\ k = [i \in Issues |-> IF i \in Lines THEN Credit(i) ELSE 0]
          /\ x = [i \in Issues |-> IF i \in B THEN a[i] + e[i] - w[i] + v[i] ELSE 0]
          /\ y = [i \in Issues |-> x[i] + d[i]]
          /\ s = [i \in Issues |-> x[i] + w[i]]
          /\ t = [i \in Issues |-> a[i] + e[i]]
          /\ L = LinesOf(o)
    OBVIOUS
  <2>1. /\ IsFiniteSet(A) /\ IsFiniteSet(B) /\ IsFiniteSet(L)
        /\ A \subseteq Issues /\ B \subseteq A /\ L \subseteq A
        /\ L = A \cap Lines
    <3>1. A \subseteq Issues /\ B \subseteq A /\ L = A \cap Lines
      BY <1>1, <2>0, LinesAreIssues DEF ReturnedRows, LinesOf
    <3>2. IsFiniteSet(A)
      BY <3>1, FS_Subset, AuditAssumption
    <3>. QED
      BY <3>1, <3>2, FS_Subset
  <2>2. ReturnedRows(B) = B /\ IssuedRows(B) = B
        /\ \A i \in A : i \in B <=> ret[i].id # 0
    <3>1. \A i \in Issues : (ret[i].id = 0 => ret[i] = NoReturn)
                            /\ (ret[i].id # 0 => issue[i].created)
      BY <1>1 DEF AuditInv, ProductionInv, ReturnRows
    <3>2. NoReturn.id = 0
      BY DEF NoReturn
    <3>3. \A i \in A : i \in B <=> ret[i].id # 0
      BY <1>1, <2>1, <3>1, <3>2 DEF ReturnedRows
    <3>. QED
      BY <1>1, <2>1, <3>1, <3>2, <3>3 DEF ReturnedRows, IssuedRows
  <2>3. \A i \in B : /\ w[i] \in Int /\ v[i] \in Int /\ a[i] \in Int /\ e[i] \in Int
                     /\ x[i] = a[i] + e[i] - w[i] + v[i]
                     /\ s[i] = x[i] + w[i] /\ t[i] = a[i] + e[i]
                     /\ x[i] \in Int /\ t[i] \in Int /\ s[i] = t[i] + v[i]
    <3>. SUFFICES ASSUME NEW i \in B
                  PROVE  /\ w[i] \in Int /\ v[i] \in Int /\ a[i] \in Int /\ e[i] \in Int
                         /\ x[i] = a[i] + e[i] - w[i] + v[i]
                         /\ s[i] = x[i] + w[i] /\ t[i] = a[i] + e[i]
                         /\ x[i] \in Int /\ t[i] \in Int /\ s[i] = t[i] + v[i]
      OBVIOUS
    <3>1. i \in Issues /\ ret[i].id # 0
      BY <2>1, <2>2
    <3>2. w[i] \in Int /\ v[i] \in Int /\ a[i] \in Int /\ e[i] \in Int
      BY <1>1, <2>0, <3>1, IssueAccounts
    <3>3. /\ x[i] = a[i] + e[i] - w[i] + v[i] /\ s[i] = x[i] + w[i]
          /\ t[i] = a[i] + e[i]
      BY <2>0, <3>1
    <3>. QED
      BY <3>2, <3>3
  <2>4. \A i \in A : /\ d[i] = Eps * returnsMade[i] /\ returnsMade[i] \in Int
                     /\ d[i] \in Int /\ x[i] \in Int /\ k[i] \in Int
                     /\ y[i] = x[i] + d[i] /\ y[i] \in Int /\ k[i] <= y[i]
    <3>. SUFFICES ASSUME NEW i \in A
                  PROVE  /\ d[i] = Eps * returnsMade[i] /\ returnsMade[i] \in Int
                         /\ d[i] \in Int /\ x[i] \in Int /\ k[i] \in Int
                         /\ y[i] = x[i] + d[i] /\ y[i] \in Int /\ k[i] <= y[i]
      OBVIOUS
    <3>1. /\ i \in Issues /\ d[i] = Eps * returnsMade[i] /\ d[i] \in Int
          /\ y[i] = x[i] + d[i] /\ returnsMade[i] \in Int
          /\ k[i] = IF i \in Lines THEN Credit(i) ELSE 0
      BY <1>1, <2>0, <2>1, IssueAccounts DEF AuditInv, ProductionInv, TypeOK
    <3>2. k[i] \in Int
      BY <1>1, <3>1, PaidInType DEF AuditInv, ProductionInv
    <3>3. CASE i \in B
      <4>1. x[i] = a[i] + e[i] - w[i] + v[i] /\ x[i] \in Int
        BY <2>3, <3>3
      <4>2. k[i] <= Allowance(i) + dispute[i].excess - issue[i].weight
                      + ReturnedWeight(i) + Eps * returnsMade[i]
        BY <1>1, <2>2, <3>1, <3>3, IssueAccounts
      <4>3. /\ a[i] = Allowance(i) /\ e[i] = dispute[i].excess
            /\ w[i] = issue[i].weight /\ v[i] = ReturnedWeight(i)
        BY <2>0, <3>1
      <4>4. k[i] <= x[i] + d[i]
        BY <3>1, <4>1, <4>2, <4>3
      <4>. QED
        BY <3>1, <3>2, <4>1, <4>4
    <3>4. CASE i \notin B
      <4>1. x[i] = 0
        BY <2>0, <3>1, <3>4
      <4>2. ret[i].id = 0
        BY <2>2, <3>4
      <4>3. i \in Lines => Credit(i) = Eps * returnsMade[i]
        BY <1>1, <3>1, <4>2, IssueAccounts
      <4>4. 0 <= d[i]
        <5>1. returnsMade[i] \in Nat /\ Eps \in Nat
          BY <1>1, <3>1, ProductionAssumption DEF AuditInv, ProductionInv, TypeOK
        <5>2. Eps * returnsMade[i] \in Nat
          BY <5>1
        <5>. QED
          BY <3>1, <5>2
      <4>. QED
        BY <3>1, <3>2, <4>1, <4>3, <4>4
    <3>. QED
      BY <3>3, <3>4
  <2>5. SumFunctionOnSet(c, L) = SumFunctionOnSet(k, A)
    <3>1. SumFunctionOnSet(k, A) = SumFunctionOnSet(k, L)
      <4>1. \A i \in A \ L : k[i] = 0
        BY <2>0, <2>1
      <4>2. L \in SUBSET A /\ \A i \in A : k[i] \in Int
        BY <2>1, <2>4
      <4>. QED
        BY <2>1, <4>1, <4>2, SumSupport
    <3>2. \A i \in L : c[i] = k[i]
      BY <2>0, <2>1
    <3>3. SumFunctionOnSet(c, L) = SumFunctionOnSet(k, L)
      BY <2>1, <3>2, SumSame
    <3>. QED
      BY <3>1, <3>3
  <2>6. SumFunctionOnSet(k, A) <= SumFunctionOnSet(y, A)
    BY <2>1, <2>4, SumLeq
  <2>7. SumFunctionOnSet(y, A) = SumFunctionOnSet(x, A) + SumFunctionOnSet(d, A)
    BY <2>1, <2>4, SumAdd
  <2>8. SumFunctionOnSet(d, A) = Eps * SumFunctionOnSet(returnsMade, A)
    <3>1. Eps \in Int
      BY ProductionAssumption
    <3>. QED
      BY <2>1, <2>4, <3>1, SumScale
  <2>9. SumFunctionOnSet(x, A) = SumFunctionOnSet(x, B)
    <3>1. B \in SUBSET A /\ \A i \in A : x[i] \in Int
      BY <2>1, <2>4
    <3>2. \A i \in A \ B : x[i] = 0
      BY <2>0, <2>1
    <3>. QED
      BY <2>1, <3>1, <3>2, SumSupport
  <2>10. SumFunctionOnSet(s, B) = SumFunctionOnSet(x, B) + SumFunctionOnSet(w, B)
    BY <2>1, <2>3, SumAdd
  <2>11. SumFunctionOnSet(s, B) = SumFunctionOnSet(t, B) + SumFunctionOnSet(v, B)
    BY <2>1, <2>3, SumAdd
  <2>12. SumFunctionOnSet(t, B) = SumFunctionOnSet(a, B) + SumFunctionOnSet(e, B)
    BY <2>1, <2>3, SumAdd
  <2>13. /\ SumFunctionOnSet(w, B) \in Int /\ SumFunctionOnSet(v, B) \in Int
         /\ SumFunctionOnSet(a, B) \in Int /\ SumFunctionOnSet(e, B) \in Int
         /\ SumFunctionOnSet(x, B) \in Int /\ SumFunctionOnSet(d, A) \in Int
         /\ SumFunctionOnSet(k, A) \in Int
    <3>1. /\ \A i \in B : /\ w[i] \in Int /\ v[i] \in Int /\ a[i] \in Int
                          /\ e[i] \in Int /\ x[i] \in Int
          /\ \A i \in A : d[i] \in Int /\ k[i] \in Int
      BY <2>3, <2>4
    <3>. QED
      BY <2>1, <3>1, SumInt
  <2>14. Kharchar(B) = SumFunctionOnSet(w, B) - SumFunctionOnSet(v, B)
    BY <2>0, <2>2 DEF Kharchar, KarigarOut, KarigarIn
  <2>15. /\ SumFunctionOnSet(pool[o], Metals) \in Int
         /\ SumFunctionOnSet(pool[o], Metals) <= SumFunctionOnSet(c, L)
    BY <1>1, <2>0, PoolsOfOrder
  <2>16. Kharchar(B) + SumFunctionOnSet(pool[o], Metals)
           <= SumFunctionOnSet(a, B) + SumFunctionOnSet(e, B)
                + SumFunctionOnSet(d, A)
    BY <2>5, <2>6, <2>7, <2>9, <2>10, <2>11, <2>12, <2>13, <2>14, <2>15
  <2>. QED
    BY <2>0, <2>8, <2>16 DEF ReturnsMade
<1>2. AuditInv => MissingMetalIsAccounted
  BY <1>1 DEF MissingMetalIsAccounted
<1>. QED
  BY <1>2, AuditInvHolds, PTL
-----------------------------------------------------------------------------
(* One request at a time.  Nothing a request has read is stale when it     *)
(* commits, so a dispute is resolved once, an order is completed once, and *)
(* what is swept into a balance is what the pool holds.                    *)

\* The other requests are none: a request's own snapshot is all there is.
LEMMA OwnSnapshot ==
  ASSUME OneAtATime, TypeOK, NEW r \in Requests, NEW q,
         req' = [req EXCEPT ![r] = q], FreshSnapshot(q)'
  PROVE  FreshSnapshots'
<1>1. \A s \in Requests : req'[s] = q
  BY DEF OneAtATime, TypeOK
<1>. QED
  BY <1>1 DEF FreshSnapshots, FreshSnapshot

LEMMA FreshAnswer ==
  ASSUME OneAtATime, TypeOK, NEW r \in Requests, Answer(r)
  PROVE  FreshSnapshots'
<1>1. FreshSnapshot(Idle)'
  BY DEF FreshSnapshot, Idle
<1>. QED
  BY <1>1, OwnSnapshot DEF Answer

LEMMA FreshRequest ==
  ASSUME OneAtATime, TypeOK, NEW r \in Requests, Requesting(r)
  PROVE  FreshSnapshots'
<1>1. ASSUME NEW q, Submit(r, q), q.op \notin {"approve", "complete", "resolve"}
      PROVE  FreshSnapshots'
  <2>1. FreshSnapshot(q)'
    BY <1>1 DEF FreshSnapshot
  <2>. QED
    BY <1>1, <2>1, OwnSnapshot DEF Submit
<1>2. ASSUME NEW i \in Lines, RequestApprove(r, i)
      PROVE  FreshSnapshots'
  <2>1. FreshSnapshot([op |-> "approve", issue |-> i, row |-> line[i],
                       read |-> FALSE, hold |-> FALSE])'
    BY DEF FreshSnapshot
  <2>2. req' = [req EXCEPT ![r] =
                  [op |-> "approve", issue |-> i, row |-> line[i],
                   read |-> FALSE, hold |-> FALSE]]
    BY <1>2 DEF RequestApprove, Submit
  <2>3. PICK q : q = [op |-> "approve", issue |-> i, row |-> line[i],
                      read |-> FALSE, hold |-> FALSE]
    OBVIOUS
  <2>4. FreshSnapshot(q)'
    BY <2>3 DEF FreshSnapshot
  <2>. QED
    BY <2>2, <2>3, <2>4, OwnSnapshot
<1>3. ASSUME NEW o \in Orders, RequestComplete(r, o)
      PROVE  FreshSnapshots'
  <2>1. PICK q : q = [op |-> "complete", order |-> o, read |-> FALSE,
                      pooled |-> [m \in Metals |-> 0]]
    OBVIOUS
  <2>2. Open(o)'
    BY <1>3 DEF RequestComplete, Open, Tables
  <2>3. FreshSnapshot(q)'
    BY <2>1, <2>2 DEF FreshSnapshot
  <2>. QED
    BY <1>3, <2>1, <2>3, OwnSnapshot DEF RequestComplete, Submit
<1>4. ASSUME NEW i \in Issues, NEW how \in Resolutions,
             RequestResolve(r, i, how)
      PROVE  FreshSnapshots'
  <2>1. PICK q : q = [op |-> "resolve", issue |-> i, how |-> how]
    OBVIOUS
  <2>2. dispute'[i].status = "PENDING"
    BY <1>4 DEF RequestResolve, Tables
  <2>3. FreshSnapshot(q)'
    BY <2>1, <2>2 DEF FreshSnapshot
  <2>. QED
    BY <1>4, <2>1, <2>3, OwnSnapshot DEF RequestResolve, Submit
<1>5. ASSUME NEW i \in Issues, NEW raw \in RawWeights,
             NEW applied \in AppliedWeights, NEW sources \in SUBSET Items,
             RequestIssue(r, i, raw, applied, sources)
      PROVE  FreshSnapshots'
  BY <1>1, <1>5 DEF RequestIssue
<1>6. ASSUME NEW i \in Lines, NEW actual \in ActualWeights,
             RequestWeighIn(r, i, actual)
      PROVE  FreshSnapshots'
  <2>1. PICK q : q = [op |-> "weighIn", issue |-> i, row |-> line[i],
                      actual |-> actual, read |-> FALSE, pooled |-> 0]
    OBVIOUS
  <2>. QED
    BY <1>1, <1>6, <2>1 DEF RequestWeighIn
<1>7. ASSUME NEW i \in Lines, RequestCorrect(r, i)
      PROVE  FreshSnapshots'
  <2>1. PICK q : q = [op |-> "correct", issue |-> i, row |-> line[i]]
    OBVIOUS
  <2>. QED
    BY <1>1, <1>7, <2>1 DEF RequestCorrect
<1>8. ASSUME NEW i \in Issues, NEW weight \in ActualWeights,
             RequestReturn(r, i, weight)
      PROVE  FreshSnapshots'
  BY <1>1, <1>8 DEF RequestReturn
<1>. QED
  BY <1>2, <1>3, <1>4, <1>5, <1>6, <1>7, <1>8 DEF Requesting

LEMMA FreshReading ==
  ASSUME OneAtATime, TypeOK, FreshSnapshots, NEW r \in Requests, Reading(r)
  PROVE  FreshSnapshots'
<1>0. req[r] \in Request /\ UNCHANGED Tables /\ FreshSnapshot(req[r])
  BY DEF TypeOK, Reading, ReadPool, ReadDispute, ReadPools, FreshSnapshots
<1>1. CASE ReadPool(r)
  <2>1. req[r] \in WeighRequest
    BY <1>0, <1>1, RequestTypes DEF ReadPool
  <2>2. PICK q : /\ q = [req[r] EXCEPT !.read = TRUE,
                           !.pooled = pool[OrderOf[req[r].issue]]
                                          [MetalOf[req[r].issue]]]
                 /\ req' = [req EXCEPT ![r] = q]
    BY <1>1 DEF ReadPool, TypeOK
  <2>3. q.op = "weighIn"
    BY <2>1, <2>2 DEF WeighRequest
  <2>4. FreshSnapshot(q)'
    BY <2>3 DEF FreshSnapshot
  <2>. QED
    BY <2>2, <2>4, OwnSnapshot
<1>2. CASE ReadDispute(r)
  <2>1. req[r] \in ApproveRequest
    BY <1>0, <1>2, RequestTypes DEF ReadDispute
  <2>2. PICK q : /\ q = [req[r] EXCEPT !.read = TRUE,
                           !.hold = dispute[req[r].issue].status = "PENDING"]
                 /\ req' = [req EXCEPT ![r] = q]
    BY <1>2 DEF ReadDispute, TypeOK
  <2>3. /\ q.op = "approve" /\ q.read = TRUE /\ q.issue = req[r].issue
        /\ q.hold = (dispute[req[r].issue].status = "PENDING")
    BY <2>1, <2>2 DEF ApproveRequest
  <2>4. dispute' = dispute
    BY <1>0 DEF Tables
  <2>5. FreshSnapshot(q)'
    BY <2>3, <2>4 DEF FreshSnapshot
  <2>. QED
    BY <2>2, <2>5, OwnSnapshot
<1>3. CASE ReadPools(r)
  <2>1. req[r] \in CompleteRequest /\ req[r].op = "complete"
    BY <1>0, <1>3, RequestTypes DEF ReadPools
  <2>2. PICK q : /\ q = [req[r] EXCEPT !.read = TRUE, !.pooled = pool[req[r].order]]
                 /\ req' = [req EXCEPT ![r] = q]
    BY <1>3 DEF ReadPools, TypeOK
  <2>3. /\ q.op = "complete" /\ q.read = TRUE /\ q.order = req[r].order
        /\ q.pooled = pool[req[r].order]
    BY <2>1, <2>2 DEF CompleteRequest
  <2>4. pool' = pool /\ orderStatus' = orderStatus /\ Open(req[r].order)
    BY <1>0, <2>1 DEF Tables, FreshSnapshot
  <2>5. FreshSnapshot(q)'
    BY <2>3, <2>4 DEF FreshSnapshot, Open
  <2>. QED
    BY <2>2, <2>5, OwnSnapshot
<1>. QED
  BY <1>1, <1>2, <1>3 DEF Reading

\* A piece goes on hold only for a dispute that is open, and comes off hold
\* with it.
LEMMA HeldStep ==
  ASSUME AuditInv, FreshSnapshots, HeldOnlyWhileDisputed,
         NEW r \in Requests, Committing(r)
  PROVE  HeldOnlyWhileDisputed'
<1>0. /\ TypeOK /\ req[r] \in Request /\ FreshSnapshot(req[r])
  BY DEF AuditInv, ProductionInv, TypeOK, FreshSnapshots
<1>1. CASE CommitIssue(r) \/ CommitCorrect(r) \/ CommitComplete(r)
  <2>1. UNCHANGED <<dispute, stock>>
    BY <1>1 DEF CommitIssue, CommitCorrect, CommitComplete
  <2>. QED
    BY <2>1 DEF HeldOnlyWhileDisputed
<1>2. CASE CommitWeighIn(r)
  <2>1. PICK i \in Lines, actual, surplus, cover, uncovered \in Nat, spare \in Int :
          WeighedIn(i, actual, spare, surplus, cover, uncovered)
    BY <1>2, WeighInRows
  <2>2. /\ stock' = stock /\ dispute'[i].status \in {"PENDING", dispute[i].status}
        /\ \A j \in Issues \ {i} : dispute'[j] = dispute[j]
    BY <2>1 DEF WeighedIn
  <2>. QED
    BY <2>2 DEF HeldOnlyWhileDisputed
<1>3. CASE CommitApprove(r)
  <2>1. req[r] \in ApproveRequest /\ req[r].op = "approve"
    BY <1>0, <1>3, RequestTypes DEF CommitApprove
  <2>2. PICK i \in Issues : i = req[r].issue
    BY <2>1, LinesAreIssues DEF ApproveRequest
  <2>3. /\ stock'[i].status = IF req[r].hold THEN "UNDER_DISPUTE" ELSE "IN_STOCK"
        /\ \A j \in Issues \ {i} : stock'[j] = stock[j]
        /\ dispute' = dispute
    BY <1>0, <1>3, <2>2 DEF CommitApprove, TypeOK
  <2>4. req[r].hold => dispute[i].status = "PENDING"
    BY <1>0, <2>1, <2>2 DEF FreshSnapshot
  <2>. QED
    BY <2>3, <2>4 DEF HeldOnlyWhileDisputed
<1>4. CASE CommitReturn(r)
  <2>1. req[r] \in ReturnRequest
    BY <1>0, <1>4, RequestTypes DEF CommitReturn
  <2>2. PICK i \in Issues, within \in BOOLEAN :
          /\ i = req[r].issue
          /\ within <=> LossOf(i, req[r].weight) <= MaxWaste(i) + Eps
    BY <2>1 DEF ReturnRequest
  <2>3. /\ stock' = [stock EXCEPT ![i] =
                       [status |-> IF within THEN "IN_STOCK" ELSE "UNDER_DISPUTE",
                        weight |-> req[r].weight, ret |-> returnsMade[i] + 1]]
        /\ dispute' = IF within THEN dispute
                      ELSE [dispute EXCEPT ![i] =
                              [status |-> "PENDING",
                               excess |-> LossOf(i, req[r].weight) - MaxWaste(i),
                               how |-> "NONE"]]
    BY <1>4, <2>2 DEF CommitReturn
  <2>4. /\ stock'[i].status = IF within THEN "IN_STOCK" ELSE "UNDER_DISPUTE"
        /\ \A j \in Issues \ {i} : stock'[j] = stock[j] /\ dispute'[j] = dispute[j]
        /\ ~within => dispute'[i].status = "PENDING"
    BY <1>0, <2>2, <2>3 DEF TypeOK
  <2>. QED
    BY <2>2, <2>4 DEF HeldOnlyWhileDisputed
<1>5. CASE CommitResolve(r)
  <2>1. PICK i \in Issues, how \in Resolutions : Settled(i, how)
    BY <1>5, ResolveRows
  <2>2. /\ \A j \in Issues \ {i} : stock'[j] = stock[j] /\ dispute'[j] = dispute[j]
        /\ stock'[i].status # "UNDER_DISPUTE"
    BY <1>0, <2>1 DEF Settled, Lifted, TypeOK, StockRow
  <2>. QED
    BY <2>2 DEF HeldOnlyWhileDisputed
<1>. QED
  BY <1>1, <1>2, <1>3, <1>4, <1>5 DEF Committing
-----------------------------------------------------------------------------
(* The balance of a karigar, entry by entry.                               *)

LEMMA IssuesOfFacts ==
  ASSUME NEW k, NEW m
  PROVE  /\ IssuesOf(k, m) \subseteq Issues /\ IsFiniteSet(IssuesOf(k, m))
         /\ OrdersOf(k) \subseteq Orders /\ IsFiniteSet(OrdersOf(k))
<1>1. IssuesOf(k, m) \subseteq Issues /\ OrdersOf(k) \subseteq Orders
  BY DEF IssuesOf, OrdersOf
<1>. QED
  BY <1>1, FS_Subset, AuditAssumption

LEMMA EntryTypes ==
  TypeOK => /\ \A i \in Issues : CarriedOf(i) \in Int /\ issue[i].applied \in Int
            /\ \A o \in Orders, m \in Metals :
                 SweptAtLeast(o, m) \in Int /\ SweptAtMost(o, m) \in Int
<1>. SUFFICES ASSUME TypeOK
     PROVE  /\ \A i \in Issues : CarriedOf(i) \in Int /\ issue[i].applied \in Int
            /\ \A o \in Orders, m \in Metals :
                 SweptAtLeast(o, m) \in Int /\ SweptAtMost(o, m) \in Int
  OBVIOUS
<1>1. \A i \in Issues : CarriedOf(i) \in Int /\ issue[i].applied \in Int
  BY DEF TypeOK, DisputeRow, IssueRow, CarriedOf
<1>2. ASSUME NEW o \in Orders, NEW m \in Metals
      PROVE  SweptAtLeast(o, m) \in Int /\ SweptAtMost(o, m) \in Int
  <2>1. PaidInBy(o, m) \in Int /\ Eps * ReturnsMade(LinesIn(o, m)) \in Int /\ Eps \in Int
    BY CreditBound, ProductionAssumption
  <2>. QED
    BY <2>1 DEF SweptAtLeast, SweptAtMost
<1>. QED
  BY <1>1, <1>2

LEMMA NextEntryTypes ==
  ASSUME TypeOK'
  PROVE  (/\ \A i \in Issues : CarriedOf(i) \in Int /\ issue[i].applied \in Int
          /\ \A o \in Orders, m \in Metals :
               SweptAtLeast(o, m) \in Int /\ SweptAtMost(o, m) \in Int)'
BY EntryTypes, PTL

LEMMA LedgersPrimed ==
  ASSUME NEW k, NEW m
  PROVE  /\ CarriedBy(k, m)' = SumFunctionOnSet([i \in Issues |-> CarriedOf(i)'],
                                               IssuesOf(k, m))
         /\ AppliedBy(k, m)' = SumFunctionOnSet([i \in Issues |-> issue'[i].applied],
                                               IssuesOf(k, m))
BY DEF CarriedBy, AppliedBy, IssuesOf

\* An order that is not touched has swept what it had swept.
LEMMA SweptKept ==
  ASSUME NEW o \in Orders, NEW m, TypeOK, orderStatus'[o] = orderStatus[o],
         orderStatus[o] = "COMPLETED" =>
           \A i \in LinesOf(o) : PaidIn(i)' = PaidIn(i)
                                 /\ returnsMade'[i] = returnsMade[i]
  PROVE  /\ SweptAtLeast(o, m)' = SweptAtLeast(o, m)
         /\ SweptAtMost(o, m)' = SweptAtMost(o, m)
<1>1. CASE orderStatus[o] = "COMPLETED"
  <2>1. PICK S, f, g : /\ S = LinesIn(o, m) /\ f = [i \in Lines |-> PaidIn(i)]
                       /\ g = [i \in Lines |-> PaidIn(i)']
    OBVIOUS
  <2>2. /\ IsFiniteSet(S) /\ S \subseteq Lines
        /\ \A i \in S : PaidIn(i)' = PaidIn(i)
        /\ \A i \in S : returnsMade[i] = returnsMade'[i]
    <3>1. IsFiniteSet(S) /\ S \subseteq Lines
      BY <2>1, LinesInFacts
    <3>2. \A i \in S : i \in LinesOf(o)
      BY <2>1 DEF LinesIn
    <3>. QED
      BY <1>1, <3>1, <3>2
  <2>3. SumFunctionOnSet(f, S) = SumFunctionOnSet(g, S)
    <3>1. \A i \in S : f[i] = g[i]
      BY <2>1, <2>2
    <3>. QED
      BY <2>2, <3>1, SumSame
  <2>4. SumFunctionOnSet(returnsMade, S) = SumFunctionOnSet(returnsMade', S)
    BY <2>2, SumSame
  <2>5. PaidInBy(o, m)' = PaidInBy(o, m)
    BY <2>1, <2>3, SumsPrimed DEF PaidInBy
  <2>6. ReturnsMade(LinesIn(o, m))' = ReturnsMade(LinesIn(o, m))
    BY <2>1, <2>4 DEF ReturnsMade, LinesIn, LinesOf
  <2>. QED
    BY <1>1, <2>5, <2>6 DEF SweptAtLeast, SweptAtMost
<1>2. CASE orderStatus[o] # "COMPLETED"
  BY <1>2 DEF SweptAtLeast, SweptAtMost
<1>. QED
  BY <1>1, <1>2

\* The sums over a karigar's orders, next to each other.
LEMMA SweptSumsPrimed ==
  ASSUME NEW k, NEW m
  PROVE  /\ SumFunctionOnSet([o \in Orders |-> SweptAtLeast(o, m)], OrdersOf(k))'
              = SumFunctionOnSet([o \in Orders |-> SweptAtLeast(o, m)'], OrdersOf(k))
         /\ SumFunctionOnSet([o \in Orders |-> SweptAtMost(o, m)], OrdersOf(k))'
              = SumFunctionOnSet([o \in Orders |-> SweptAtMost(o, m)'], OrdersOf(k))
BY DEF OrdersOf

\* What a karigar owes apart from the pools of his orders, and the least and
\* the most these have put into his balance.
Owed(k, m) == InitialBalance[k][m] + CarriedBy(k, m) - AppliedBy(k, m)

SweepsAtLeast(k, m) ==
  SumFunctionOnSet([o \in Orders |-> SweptAtLeast(o, m)], OrdersOf(k))
SweepsAtMost(k, m) ==
  SumFunctionOnSet([o \in Orders |-> SweptAtMost(o, m)], OrdersOf(k))

LEMMA BoundsOfBalance ==
  BalanceBounds <=>
    \A k \in Karigars, m \in Metals :
      /\ Owed(k, m) + SweepsAtLeast(k, m) <= balance[k][m]
      /\ balance[k][m] <= Owed(k, m) + SweepsAtMost(k, m)
BY DEF BalanceBounds, Owed, SweepsAtLeast, SweepsAtMost

LEMMA NextBoundsOfBalance ==
  BalanceBounds' <=>
    \A k \in Karigars, m \in Metals :
      /\ Owed(k, m)' + SweepsAtLeast(k, m)' <= balance'[k][m]
      /\ balance'[k][m] <= Owed(k, m)' + SweepsAtMost(k, m)'
BY DEF BalanceBounds, Owed, SweepsAtLeast, SweepsAtMost

\* A step that touches the account of one issue changes what its karigar owes
\* by as much, and nothing else.
LEMMA OneIssueMoves ==
  ASSUME TypeOK, TypeOK', NEW i,
         \A j \in Issues \ {i} : CarriedOf(j)' = CarriedOf(j)
                                 /\ issue'[j].applied = issue[j].applied
  PROVE  \A k \in Karigars, m \in Metals :
           /\ Owed(k, m) \in Int
           /\ Owed(k, m)' = Owed(k, m) +
                (IF i \in IssuesOf(k, m)
                 THEN (CarriedOf(i)' - CarriedOf(i))
                        - (issue'[i].applied - issue[i].applied)
                 ELSE 0)
<1>. SUFFICES ASSUME NEW k \in Karigars, NEW m \in Metals
              PROVE  /\ Owed(k, m) \in Int
                     /\ Owed(k, m)' = Owed(k, m) +
                          (IF i \in IssuesOf(k, m)
                           THEN (CarriedOf(i)' - CarriedOf(i))
                                  - (issue'[i].applied - issue[i].applied)
                           ELSE 0)
  OBVIOUS
<1>1. PICK S, c, d, a, b :
        /\ S = IssuesOf(k, m)
        /\ c = [j \in Issues |-> CarriedOf(j)]
        /\ d = [j \in Issues |-> CarriedOf(j)']
        /\ a = [j \in Issues |-> issue[j].applied]
        /\ b = [j \in Issues |-> issue'[j].applied]
  OBVIOUS
<1>2. IsFiniteSet(S) /\ S \subseteq Issues
  BY <1>1, IssuesOfFacts
<1>3. /\ \A j \in S : c[j] = CarriedOf(j) /\ d[j] = CarriedOf(j)'
                      /\ a[j] = issue[j].applied /\ b[j] = issue'[j].applied
      /\ \A j \in S : c[j] \in Int /\ d[j] \in Int /\ a[j] \in Int /\ b[j] \in Int
  <2>1. \A j \in S : c[j] = CarriedOf(j) /\ d[j] = CarriedOf(j)'
                      /\ a[j] = issue[j].applied /\ b[j] = issue'[j].applied
    BY <1>1, <1>2
  <2>2. \A j \in S : CarriedOf(j) \in Int /\ issue[j].applied \in Int
    BY <1>2, EntryTypes
  <2>3. \A j \in S : CarriedOf(j)' \in Int /\ issue'[j].applied \in Int
    BY <1>2, NextEntryTypes
  <2>. QED
    BY <2>1, <2>2, <2>3
<1>4. \A j \in S \ {i} : d[j] = c[j] /\ b[j] = a[j]
  BY <1>2, <1>3
<1>5. /\ SumFunctionOnSet(c, S) \in Int
      /\ SumFunctionOnSet(d, S)
           = SumFunctionOnSet(c, S) + (IF i \in S THEN d[i] - c[i] ELSE 0)
  BY <1>2, <1>3, <1>4, SumMoved
<1>6. /\ SumFunctionOnSet(a, S) \in Int
      /\ SumFunctionOnSet(b, S)
           = SumFunctionOnSet(a, S) + (IF i \in S THEN b[i] - a[i] ELSE 0)
  BY <1>2, <1>3, <1>4, SumMoved
<1>7. /\ CarriedBy(k, m) = SumFunctionOnSet(c, S)
      /\ AppliedBy(k, m) = SumFunctionOnSet(a, S)
      /\ CarriedBy(k, m)' = SumFunctionOnSet(d, S)
      /\ AppliedBy(k, m)' = SumFunctionOnSet(b, S)
  BY <1>1, LedgersPrimed DEF CarriedBy, AppliedBy
<1>8. InitialBalance[k][m] \in Int
  BY ProductionAssumption
<1>9. /\ Owed(k, m) = InitialBalance[k][m] + SumFunctionOnSet(c, S)
                        - SumFunctionOnSet(a, S)
      /\ Owed(k, m)' = InitialBalance[k][m] + SumFunctionOnSet(d, S)
                         - SumFunctionOnSet(b, S)
  BY <1>7 DEF Owed
<1>10. CASE i \in S
  <2>1. /\ c[i] \in Int /\ d[i] \in Int /\ a[i] \in Int /\ b[i] \in Int
        /\ c[i] = CarriedOf(i) /\ d[i] = CarriedOf(i)'
        /\ a[i] = issue[i].applied /\ b[i] = issue'[i].applied
    BY <1>3, <1>10
  <2>. QED
    BY <2>1, <1>1, <1>5, <1>6, <1>8, <1>9, <1>10
<1>11. CASE i \notin S
  BY <1>1, <1>5, <1>6, <1>8, <1>9, <1>11
<1>. QED
  BY <1>10, <1>11

\* A step that completes one order changes the sweeps of its karigar only.
LEMMA OneOrderSweeps ==
  ASSUME TypeOK, TypeOK', NEW o,
         \A p \in Orders \ {o}, m \in Metals :
           SweptAtLeast(p, m)' = SweptAtLeast(p, m)
           /\ SweptAtMost(p, m)' = SweptAtMost(p, m)
  PROVE  \A k \in Karigars, m \in Metals :
           /\ SweepsAtLeast(k, m) \in Int /\ SweepsAtMost(k, m) \in Int
           /\ SweepsAtLeast(k, m)' = SweepsAtLeast(k, m) +
                (IF o \in OrdersOf(k)
                 THEN SweptAtLeast(o, m)' - SweptAtLeast(o, m) ELSE 0)
           /\ SweepsAtMost(k, m)' = SweepsAtMost(k, m) +
                (IF o \in OrdersOf(k)
                 THEN SweptAtMost(o, m)' - SweptAtMost(o, m) ELSE 0)
<1>. SUFFICES ASSUME NEW k \in Karigars, NEW m \in Metals
     PROVE  /\ SweepsAtLeast(k, m) \in Int /\ SweepsAtMost(k, m) \in Int
            /\ SweepsAtLeast(k, m)' = SweepsAtLeast(k, m) +
                 (IF o \in OrdersOf(k)
                  THEN SweptAtLeast(o, m)' - SweptAtLeast(o, m) ELSE 0)
            /\ SweepsAtMost(k, m)' = SweepsAtMost(k, m) +
                 (IF o \in OrdersOf(k)
                  THEN SweptAtMost(o, m)' - SweptAtMost(o, m) ELSE 0)
  OBVIOUS
<1>1. PICK S, c, d, a, b :
        /\ S = OrdersOf(k)
        /\ c = [p \in Orders |-> SweptAtLeast(p, m)]
        /\ d = [p \in Orders |-> SweptAtLeast(p, m)']
        /\ a = [p \in Orders |-> SweptAtMost(p, m)]
        /\ b = [p \in Orders |-> SweptAtMost(p, m)']
  OBVIOUS
<1>2. IsFiniteSet(S) /\ S \subseteq Orders
  BY <1>1, IssuesOfFacts
<1>3. /\ \A p \in S : c[p] = SweptAtLeast(p, m) /\ d[p] = SweptAtLeast(p, m)'
                      /\ a[p] = SweptAtMost(p, m) /\ b[p] = SweptAtMost(p, m)'
      /\ \A p \in S : c[p] \in Int /\ d[p] \in Int /\ a[p] \in Int /\ b[p] \in Int
  <2>1. \A p \in S : c[p] = SweptAtLeast(p, m) /\ d[p] = SweptAtLeast(p, m)'
                      /\ a[p] = SweptAtMost(p, m) /\ b[p] = SweptAtMost(p, m)'
    BY <1>1, <1>2
  <2>2. \A p \in S : SweptAtLeast(p, m) \in Int /\ SweptAtMost(p, m) \in Int
    BY <1>2, EntryTypes
  <2>3. \A p \in S : SweptAtLeast(p, m)' \in Int /\ SweptAtMost(p, m)' \in Int
    BY <1>2, NextEntryTypes
  <2>. QED
    BY <2>1, <2>2, <2>3
<1>4. \A p \in S \ {o} : d[p] = c[p] /\ b[p] = a[p]
  BY <1>2, <1>3
<1>5. /\ SumFunctionOnSet(c, S) \in Int
      /\ SumFunctionOnSet(d, S)
           = SumFunctionOnSet(c, S) + (IF o \in S THEN d[o] - c[o] ELSE 0)
  BY <1>2, <1>3, <1>4, SumMoved
<1>6. /\ SumFunctionOnSet(a, S) \in Int
      /\ SumFunctionOnSet(b, S)
           = SumFunctionOnSet(a, S) + (IF o \in S THEN b[o] - a[o] ELSE 0)
  BY <1>2, <1>3, <1>4, SumMoved
<1>7. /\ SweepsAtLeast(k, m) = SumFunctionOnSet(c, S)
      /\ SweepsAtMost(k, m) = SumFunctionOnSet(a, S)
      /\ SweepsAtLeast(k, m)' = SumFunctionOnSet(d, S)
      /\ SweepsAtMost(k, m)' = SumFunctionOnSet(b, S)
  BY <1>1, SweptSumsPrimed DEF SweepsAtLeast, SweepsAtMost
<1>. QED
  BY <1>1, <1>3, <1>5, <1>6, <1>7

\* The pools swept stay what they are in every step but a completion.
LEMMA SweepsKept ==
  ASSUME TypeOK, TypeOK', orderStatus' = orderStatus,
         \A o \in Orders : orderStatus[o] = "COMPLETED" =>
           \A i \in LinesOf(o) : PaidIn(i)' = PaidIn(i)
                                 /\ returnsMade'[i] = returnsMade[i]
  PROVE  \A k \in Karigars, m \in Metals :
           /\ SweepsAtLeast(k, m) \in Int /\ SweepsAtMost(k, m) \in Int
           /\ SweepsAtLeast(k, m)' = SweepsAtLeast(k, m)
           /\ SweepsAtMost(k, m)' = SweepsAtMost(k, m)
<1>1. PICK x : x \notin Orders
  BY NoSetContainsEverything
<1>2. \A p \in Orders, m \in Metals : SweptAtLeast(p, m)' = SweptAtLeast(p, m)
                                      /\ SweptAtMost(p, m)' = SweptAtMost(p, m)
  BY SweptKept
<1>3. \A k : x \notin OrdersOf(k)
  BY <1>1 DEF OrdersOf
<1>4. \A k \in Karigars, m \in Metals :
        /\ SweepsAtLeast(k, m) \in Int /\ SweepsAtMost(k, m) \in Int
        /\ SweepsAtLeast(k, m)' = SweepsAtLeast(k, m) + 0
        /\ SweepsAtMost(k, m)' = SweepsAtMost(k, m) + 0
  BY <1>2, <1>3, OneOrderSweeps
<1>. QED
  BY <1>4, SMT

\* A step that touches no account at all.
LEMMA BalanceKept ==
  ASSUME TypeOK, TypeOK', BalanceBounds, UNCHANGED <<orderStatus, balance>>,
         \A i \in Issues : CarriedOf(i)' = CarriedOf(i)
                           /\ issue'[i].applied = issue[i].applied,
         \A o \in Orders : orderStatus[o] = "COMPLETED" =>
           \A i \in LinesOf(o) : PaidIn(i)' = PaidIn(i)
                                 /\ returnsMade'[i] = returnsMade[i]
  PROVE  BalanceBounds'
<1>1. PICK x : x \notin Issues
  BY NoSetContainsEverything
<1>2. \A k, m : x \notin IssuesOf(k, m)
  BY <1>1 DEF IssuesOf
<1>3. \A k \in Karigars, m \in Metals : Owed(k, m)' = Owed(k, m)
  <2>1. \A k \in Karigars, m \in Metals :
           Owed(k, m) \in Int /\ Owed(k, m)' = Owed(k, m) + 0
    BY <1>2, OneIssueMoves
  <2>. QED
    BY <2>1
<1>. QED
  BY <1>3, SweepsKept, BoundsOfBalance, NextBoundsOfBalance

\* A step that moves the account of one issue and the balance alike.
LEMMA BalanceMoves ==
  ASSUME TypeOK, TypeOK', BalanceBounds, orderStatus' = orderStatus,
         NEW i \in Issues, NEW gram \in Int,
         \A j \in Issues \ {i} : CarriedOf(j)' = CarriedOf(j)
                                 /\ issue'[j].applied = issue[j].applied,
         gram = (CarriedOf(i)' - CarriedOf(i))
                  - (issue'[i].applied - issue[i].applied),
         balance' = AddTo(balance, KarigarOf[OrderOf[i]], MetalOf[i], gram),
         \A o \in Orders : orderStatus[o] = "COMPLETED" =>
           \A j \in LinesOf(o) : PaidIn(j)' = PaidIn(j)
                                 /\ returnsMade'[j] = returnsMade[j]
  PROVE  BalanceBounds'
<1>1. ASSUME NEW k \in Karigars, NEW m \in Metals
      PROVE  balance'[k][m] = balance[k][m] + (IF i \in IssuesOf(k, m) THEN gram ELSE 0)
  <2>1. /\ balance \in [Karigars -> [Metals -> Int]]
        /\ KarigarOf[OrderOf[i]] \in Karigars /\ MetalOf[i] \in Metals
    BY ProductionAssumption DEF TypeOK
  <2>2. balance'[k][m] = IF KarigarOf[OrderOf[i]] = k /\ MetalOf[i] = m
                         THEN balance[k][m] + gram ELSE balance[k][m]
    BY <2>1 DEF AddTo
  <2>3. balance[k][m] \in Int
    BY <2>1
  <2>. QED
    BY <2>2, <2>3 DEF IssuesOf
<1>2. \A k \in Karigars, m \in Metals :
        /\ Owed(k, m) \in Int
        /\ Owed(k, m)' = Owed(k, m) + (IF i \in IssuesOf(k, m) THEN gram ELSE 0)
  BY OneIssueMoves
<1>3. \A k \in Karigars, m \in Metals : balance[k][m] \in Int
  BY DEF TypeOK
<1>4. \A k \in Karigars, m \in Metals :
           /\ SweepsAtLeast(k, m) \in Int /\ SweepsAtMost(k, m) \in Int
           /\ SweepsAtLeast(k, m)' = SweepsAtLeast(k, m)
           /\ SweepsAtMost(k, m)' = SweepsAtMost(k, m)
  BY SweepsKept
<1>5. ASSUME NEW k \in Karigars, NEW m \in Metals
      PROVE  /\ Owed(k, m)' + SweepsAtLeast(k, m)' <= balance'[k][m]
             /\ balance'[k][m] <= Owed(k, m)' + SweepsAtMost(k, m)'
  <2>1. PICK u, lo, hi, b, d \in Int :
          /\ u = Owed(k, m) /\ lo = SweepsAtLeast(k, m) /\ hi = SweepsAtMost(k, m)
          /\ b = balance[k][m] /\ d = IF i \in IssuesOf(k, m) THEN gram ELSE 0
    BY <1>2, <1>3, <1>4
  <2>2. u + lo <= b /\ b <= u + hi
    BY <2>1, BoundsOfBalance
  <2>3. /\ Owed(k, m)' = u + d /\ balance'[k][m] = b + d
        /\ SweepsAtLeast(k, m)' = lo /\ SweepsAtMost(k, m)' = hi
    BY <1>1, <1>2, <1>4, <2>1
  <2>. QED
    BY <2>2, <2>3
<1>. QED
  BY <1>5, NextBoundsOfBalance
\* Only a line that is not APPROVED changes what it paid in, and a completed
\* order has none.
CompletedLinesKept ==
  \A o \in Orders : orderStatus[o] = "COMPLETED" =>
    \A i \in LinesOf(o) : PaidIn(i)' = PaidIn(i)
                          /\ returnsMade'[i] = returnsMade[i]

LEMMA CompletedKept ==
  ASSUME ProductionInv, NEW j,
         j \in Lines => line[j].status # "APPROVED",
         \A i \in Issues \ {j} :
           /\ i \in Lines => line'[i] = line[i]
           /\ issue'[i] = issue[i]
           /\ ret'[i] = ret[i] /\ returnsMade'[i] = returnsMade[i]
  PROVE  CompletedLinesKept
<1>. SUFFICES ASSUME NEW o \in Orders, orderStatus[o] = "COMPLETED",
                     NEW i \in LinesOf(o)
              PROVE  PaidIn(i)' = PaidIn(i) /\ returnsMade'[i] = returnsMade[i]
  BY DEF CompletedLinesKept
<1>1. i \in Lines /\ i \in Issues /\ line[i].status = "APPROVED"
  BY LinesAreIssues DEF ProductionInv, CompletedMeansApproved, LinesOf
<1>2. i # j
  BY <1>1
<1>3. /\ line'[i] = line[i] /\ issue'[i] = issue[i]
      /\ ret'[i] = ret[i] /\ returnsMade'[i] = returnsMade[i]
  BY <1>1, <1>2
<1>4. Weighed(i)' <=> Weighed(i)
  BY <1>3 DEF Weighed
<1>. QED
  BY <1>3, <1>4, LineKept

\* A step that leaves orders, issues, lines, returns, disputes and balances
\* alone leaves the account alone.
LEMMA BalanceQuiet ==
  ASSUME AuditInv, TypeOK', BalanceBounds,
         UNCHANGED <<orderStatus, issue, line, ret, returnsMade, dispute, balance>>
  PROVE  BalanceBounds'
<1>1. PICK x : x \notin Lines
  BY NoSetContainsEverything
<1>2. CompletedLinesKept
  BY <1>1, CompletedKept DEF AuditInv
<1>3. \A i \in Issues : CarriedOf(i)' = CarriedOf(i)
                        /\ issue'[i].applied = issue[i].applied
  BY DEF CarriedOf
<1>. QED
  BY <1>2, <1>3, BalanceKept DEF CompletedLinesKept, AuditInv, ProductionInv

\* A return, a weigh-in, an approval or a correction of one issue: what it
\* changes is not in the account yet.
LEMMA BalanceOfOther ==
  ASSUME AuditInv, TypeOK', BalanceBounds,
         UNCHANGED <<orderStatus, issue, balance>>, NEW j \in Issues,
         j \in Lines => line[j].status # "APPROVED",
         \A i \in Issues \ {j} :
           /\ i \in Lines => line'[i] = line[i]
           /\ ret'[i] = ret[i] /\ returnsMade'[i] = returnsMade[i]
           /\ dispute'[i] = dispute[i],
         CarriedOf(j)' = CarriedOf(j)
  PROVE  BalanceBounds'
<1>1. \A i \in Issues \ {j} :
        /\ i \in Lines => line'[i] = line[i]
        /\ issue'[i] = issue[i]
        /\ ret'[i] = ret[i] /\ returnsMade'[i] = returnsMade[i]
  OBVIOUS
<1>2. CompletedLinesKept
  BY <1>1, CompletedKept DEF AuditInv
<1>3. \A i \in Issues : CarriedOf(i)' = CarriedOf(i)
                        /\ issue'[i].applied = issue[i].applied
  BY DEF CarriedOf
<1>. QED
  BY <1>2, <1>3, BalanceKept DEF CompletedLinesKept, AuditInv, ProductionInv

LEMMA IssueBalance ==
  ASSUME AuditInv, TypeOK', BalanceBounds, NEW r \in Requests, CommitIssue(r)
  PROVE  BalanceBounds'
<1>1. PICK i \in Issues, applied \in Nat : HandedOut(i, applied)
  BY IssueRows
<1>2. /\ issue[i].applied = 0
      /\ i \in Lines => line[i].status # "APPROVED"
  BY <1>1 DEF HandedOut, AuditInv, LedgerRows
<1>3. CompletedLinesKept
  <2>1. \A j \in Issues \ {i} :
          /\ j \in Lines => line'[j] = line[j]
          /\ issue'[j] = issue[j]
          /\ ret'[j] = ret[j] /\ returnsMade'[j] = returnsMade[j]
    BY <1>1 DEF HandedOut
  <2>. QED
    BY <1>2, <2>1, CompletedKept DEF AuditInv
<1>4. /\ \A j \in Issues : CarriedOf(j)' = CarriedOf(j)
      /\ \A j \in Issues \ {i} : issue'[j].applied = issue[j].applied
      /\ issue'[i].applied = applied
      /\ orderStatus' = orderStatus
      /\ balance' = AddTo(balance, KarigarOf[OrderOf[i]], MetalOf[i], -applied)
  BY <1>1 DEF HandedOut, CarriedOf
<1>5. CarriedOf(i) \in Int /\ CarriedOf(i)' = CarriedOf(i) /\ -applied \in Int
  BY <1>4, EntryTypes DEF AuditInv, ProductionInv
<1>6. -applied = (CarriedOf(i)' - CarriedOf(i))
                   - (issue'[i].applied - issue[i].applied)
  BY <1>2, <1>4, <1>5
<1>. QED
  BY <1>3, <1>4, <1>5, <1>6, BalanceMoves
     DEF CompletedLinesKept, AuditInv, ProductionInv

LEMMA WeighInBalance ==
  ASSUME AuditInv, TypeOK', BalanceBounds, NEW r \in Requests, CommitWeighIn(r)
  PROVE  BalanceBounds'
<1>1. PICK i \in Lines, actual, surplus, cover, uncovered \in Nat, spare \in Int :
        WeighedIn(i, actual, spare, surplus, cover, uncovered)
  BY WeighInRows
<1>2. /\ i \in Issues /\ line[i].status # "APPROVED"
      /\ \A j \in Issues \ {i} :
           /\ j \in Lines => line'[j] = line[j]
           /\ ret'[j] = ret[j] /\ returnsMade'[j] = returnsMade[j]
           /\ dispute'[j] = dispute[j]
      /\ dispute[i].status = "NONE"
      /\ dispute'[i].how \in {"NONE", dispute[i].how}
  BY <1>1, LinesAreIssues DEF WeighedIn
<1>3. dispute[i].how = "NONE"
  BY <1>2 DEF AuditInv, LedgerRows
<1>4. CarriedOf(i)' = CarriedOf(i)
  BY <1>2, <1>3 DEF CarriedOf
<1>5. UNCHANGED <<orderStatus, issue, balance>>
  BY DEF CommitWeighIn
<1>. QED
  BY <1>2, <1>4, <1>5, BalanceOfOther

LEMMA CorrectBalance ==
  ASSUME AuditInv, TypeOK', BalanceBounds, NEW r \in Requests, CommitCorrect(r)
  PROVE  BalanceBounds'
<1>1. PICK i \in Lines : Undone(i)
  BY CorrectRows
<1>2. /\ i \in Issues /\ line[i].status # "APPROVED"
      /\ \A j \in Issues \ {i} :
           /\ j \in Lines => line'[j] = line[j]
           /\ ret'[j] = ret[j] /\ returnsMade'[j] = returnsMade[j]
           /\ dispute'[j] = dispute[j]
      /\ CarriedOf(i)' = CarriedOf(i)
      /\ UNCHANGED <<orderStatus, issue, balance>>
  BY <1>1, LinesAreIssues DEF Undone, CarriedOf
<1>. QED
  BY <1>2, BalanceOfOther

LEMMA ApproveBalance ==
  ASSUME AuditInv, TypeOK', BalanceBounds, NEW r \in Requests, CommitApprove(r)
  PROVE  BalanceBounds'
<1>0. TypeOK /\ req[r] \in ApproveRequest
  BY RequestTypes DEF AuditInv, ProductionInv, TypeOK, CommitApprove
<1>1. PICK i \in Issues : i = req[r].issue /\ i \in Lines
  BY <1>0, LinesAreIssues DEF ApproveRequest
<1>2. /\ line[i].status # "APPROVED"
      /\ line' = [line EXCEPT ![i].status = "APPROVED"]
      /\ UNCHANGED <<orderStatus, issue, ret, returnsMade, dispute, balance>>
  BY <1>1 DEF CommitApprove
<1>3. /\ \A j \in Issues \ {i} :
           /\ j \in Lines => line'[j] = line[j]
           /\ ret'[j] = ret[j] /\ returnsMade'[j] = returnsMade[j]
           /\ dispute'[j] = dispute[j]
      /\ CarriedOf(i)' = CarriedOf(i)
  BY <1>0, <1>2 DEF CarriedOf, TypeOK
<1>. QED
  BY <1>2, <1>3, BalanceOfOther

LEMMA ReturnBalance ==
  ASSUME AuditInv, TypeOK', BalanceBounds, NEW r \in Requests, CommitReturn(r)
  PROVE  BalanceBounds'
<1>1. PICK i \in Issues : ReturnedAlone(i)
  BY ReturnRowsOf
<1>2. /\ ret[i].id = 0 /\ dispute[i].status = "NONE" /\ dispute'[i].how = "NONE"
      /\ \A j \in Issues \ {i} :
           /\ j \in Lines => line'[j] = line[j]
           /\ ret'[j] = ret[j] /\ returnsMade'[j] = returnsMade[j]
           /\ dispute'[j] = dispute[j]
      /\ UNCHANGED <<orderStatus, issue, balance>>
  BY <1>1 DEF ReturnedAlone
<1>3. i \in Lines => line[i].status # "APPROVED"
  BY <1>2, NothingPaid DEF Weighed, AuditInv
<1>4. dispute[i].how = "NONE"
  BY <1>2 DEF AuditInv, LedgerRows
<1>5. CarriedOf(i)' = CarriedOf(i)
  BY <1>2, <1>4 DEF CarriedOf
<1>. QED
  BY <1>2, <1>3, <1>5, BalanceOfOther

LEMMA ResolveBalance ==
  ASSUME AuditInv, TypeOK', BalanceBounds, FreshSnapshots,
         NEW r \in Requests, CommitResolve(r)
  PROVE  BalanceBounds'
<1>1. PICK i \in Issues, how \in Resolutions :
        /\ Settled(i, how) /\ i = req[r].issue /\ req[r].op = "resolve"
  BY ResolveRows
<1>2. dispute[i].status = "PENDING" /\ dispute[i].how = "NONE"
  BY <1>1 DEF FreshSnapshots, FreshSnapshot, AuditInv, LedgerRows
<1>3. CompletedLinesKept
  <2>1. PICK x : x \notin Lines
    BY NoSetContainsEverything
  <2>. QED
    BY <1>1, <2>1, CompletedKept DEF Settled, AuditInv
<1>4. /\ \A j \in Issues \ {i} : CarriedOf(j)' = CarriedOf(j)
      /\ \A j \in Issues : issue'[j].applied = issue[j].applied
      /\ orderStatus' = orderStatus
      /\ CarriedOf(i) = 0
      /\ CarriedOf(i)' = IF how = "METAL_CARRYFORWARD" THEN dispute[i].excess ELSE 0
  BY <1>1, <1>2 DEF Settled, CarriedOf
<1>5. dispute[i].excess \in Int /\ issue[i].applied \in Int
  BY EntryTypes DEF AuditInv, ProductionInv, TypeOK, DisputeRow
<1>6. CASE how = "METAL_CARRYFORWARD"
  <2>1. dispute[i].excess = (CarriedOf(i)' - CarriedOf(i))
                              - (issue'[i].applied - issue[i].applied)
    BY <1>4, <1>5, <1>6
  <2>2. balance' = AddTo(balance, KarigarOf[OrderOf[i]], MetalOf[i],
                         dispute[i].excess)
    BY <1>1, <1>6 DEF Settled
  <2>. QED
    BY <1>3, <1>4, <1>5, <2>1, <2>2, BalanceMoves
       DEF CompletedLinesKept, AuditInv, ProductionInv
<1>7. CASE how # "METAL_CARRYFORWARD"
  <2>1. balance' = balance /\ \A j \in Issues : CarriedOf(j)' = CarriedOf(j)
    BY <1>1, <1>4, <1>7 DEF Settled
  <2>. QED
    BY <1>3, <1>4, <2>1, BalanceKept DEF CompletedLinesKept, AuditInv, ProductionInv
<1>. QED
  BY <1>6, <1>7

\* What a completion sweeps is what the lines of the order paid in, within the
\* drift of its pools and up to one WEIGHT_EPSILON.
LEMMA SweptAmount ==
  ASSUME AuditInv, FreshSnapshots, NEW r \in Requests, CommitComplete(r),
         NEW o, o = req[r].order, NEW m \in Metals
  PROVE  /\ Material(req[r].pooled[m]) \in Int
         /\ PaidInBy(o, m) - Eps <= Material(req[r].pooled[m])
         /\ Material(req[r].pooled[m])
              <= PaidInBy(o, m) + Eps * ReturnsMade(LinesIn(o, m))
<1>0. /\ TypeOK /\ req[r] \in CompleteRequest /\ req[r].op = "complete"
      /\ LinesOf(o) # {} => req[r].read
  BY CompleteRows DEF AuditInv, ProductionInv, CommitComplete
<1>1. /\ o \in Orders /\ orderStatus[o] = "OPEN"
      /\ req[r].pooled = IF req[r].read THEN pool[o] ELSE [n \in Metals |-> 0]
  BY <1>0 DEF CompleteRequest, FreshSnapshots, FreshSnapshot, Open
<1>2. PICK gram, paid, drift \in Int :
        /\ gram = req[r].pooled[m] /\ paid = PaidInBy(o, m)
        /\ drift = Eps * ReturnsMade(LinesIn(o, m))
  BY <1>0, CreditBound DEF CompleteRequest
<1>3. 0 <= gram /\ paid <= gram /\ gram <= paid + drift
  <2>1. CASE req[r].read
    <3>1. gram = pool[o][m]
      BY <1>1, <1>2, <2>1
    <3>2. /\ PaidInBy(o, m) <= pool[o][m] /\ pool[o][m] <= CreditOf(o, m)
          /\ pool[o][m] >= 0
      BY <1>1 DEF AuditInv, PoolBounds, ProductionInv, NeverOverdrawn
    <3>3. CreditOf(o, m) \in Int /\ CreditOf(o, m) <= paid + drift
      BY <1>0, <1>2, CreditBound
    <3>. QED
      BY <1>2, <3>1, <3>2, <3>3
  <2>2. CASE ~req[r].read
    <3>1. gram = 0
      BY <1>1, <1>2, <2>2
    <3>2. LinesIn(o, m) = {}
      BY <1>0, <2>2 DEF LinesIn
    <3>3. PaidInBy(o, m) = 0 /\ ReturnsMade(LinesIn(o, m)) = 0
      BY <3>2, SumEmpty DEF PaidInBy, ReturnsMade
    <3>4. Eps * 0 = 0
      BY ProductionAssumption
    <3>. QED
      BY <1>2, <3>1, <3>3, <3>4
  <2>. QED
    BY <2>1, <2>2
<1>4. /\ Material(gram) \in Int /\ gram - Material(gram) <= Eps
      /\ Material(gram) <= gram
  BY <1>3, MaterialDrift
<1>. QED
  BY <1>2, <1>3, <1>4, ProductionAssumption

LEMMA CompleteBalance ==
  ASSUME AuditInv, TypeOK', BalanceBounds, FreshSnapshots,
         NEW r \in Requests, CommitComplete(r)
  PROVE  BalanceBounds'
<1>0. TypeOK
  BY DEF AuditInv, ProductionInv
<1>1. PICK o, pooled : /\ o = req[r].order /\ pooled = req[r].pooled
                       /\ Swept(o, pooled)
  BY CompleteRows
<1>2. /\ req[r] \in CompleteRequest /\ o \in Orders
      /\ orderStatus[o] = "OPEN"
  BY <1>1, CompleteRows DEF CompleteRequest, FreshSnapshots, FreshSnapshot, Open
<1>3. /\ orderStatus'[o] = "COMPLETED"
      /\ \A p \in Orders \ {o} : orderStatus'[p] = orderStatus[p]
      /\ UNCHANGED <<issue, line, ret, returnsMade, dispute, stock, item>>
  BY <1>0, <1>1, <1>2 DEF Swept, TypeOK
<1>4. ASSUME NEW p \in Orders \ {o}, NEW m \in Metals
      PROVE  SweptAtLeast(p, m)' = SweptAtLeast(p, m)
             /\ SweptAtMost(p, m)' = SweptAtMost(p, m)
  <2>1. \A i : PaidIn(i)' = PaidIn(i) /\ returnsMade'[i] = returnsMade[i]
    BY <1>3 DEF PaidIn, Weighed, LossOf
  <2>. QED
    BY <1>0, <1>3, <2>1, SweptKept
<1>5. ASSUME NEW m \in Metals
      PROVE  /\ SweptAtLeast(o, m) = 0 /\ SweptAtMost(o, m) = 0
             /\ SweptAtLeast(o, m)' = PaidInBy(o, m) - Eps
             /\ SweptAtMost(o, m)'
                  = PaidInBy(o, m) + Eps * ReturnsMade(LinesIn(o, m))
  <2>1. /\ PaidInBy(o, m)' = PaidInBy(o, m)
        /\ ReturnsMade(LinesIn(o, m))' = ReturnsMade(LinesIn(o, m))
    BY <1>3 DEF PaidInBy, PaidIn, Weighed, LossOf, ReturnsMade, LinesIn, LinesOf
  <2>. QED
    BY <1>2, <1>3, <2>1 DEF SweptAtLeast, SweptAtMost
<1>6. \A k \in Karigars, m \in Metals :
        /\ SweepsAtLeast(k, m) \in Int /\ SweepsAtMost(k, m) \in Int
        /\ SweepsAtLeast(k, m)' = SweepsAtLeast(k, m) +
             (IF o \in OrdersOf(k)
              THEN SweptAtLeast(o, m)' - SweptAtLeast(o, m) ELSE 0)
        /\ SweepsAtMost(k, m)' = SweepsAtMost(k, m) +
             (IF o \in OrdersOf(k)
              THEN SweptAtMost(o, m)' - SweptAtMost(o, m) ELSE 0)
  BY <1>0, <1>4, OneOrderSweeps
<1>7. ASSUME NEW k \in Karigars, NEW m \in Metals
      PROVE  Owed(k, m) \in Int /\ Owed(k, m)' = Owed(k, m)
  <2>1. PICK x : x \notin Issues
    BY NoSetContainsEverything
  <2>2. x \notin IssuesOf(k, m)
    BY <2>1 DEF IssuesOf
  <2>3. \A j \in Issues : CarriedOf(j)' = CarriedOf(j)
                          /\ issue'[j].applied = issue[j].applied
    BY <1>3 DEF CarriedOf
  <2>4. Owed(k, m) \in Int /\ Owed(k, m)' = Owed(k, m) + 0
    BY <1>0, <2>2, <2>3, OneIssueMoves
  <2>. QED
    BY <2>4
<1>8. ASSUME NEW k \in Karigars, NEW m \in Metals
      PROVE  balance'[k][m] = balance[k][m] +
               (IF o \in OrdersOf(k) THEN Material(pooled[m]) ELSE 0)
  <2>1. balance \in [Karigars -> [Metals -> Int]] /\ KarigarOf[o] \in Karigars
    BY <1>0, <1>2, ProductionAssumption DEF TypeOK
  <2>2. balance'[k] = IF KarigarOf[o] = k
                      THEN [n \in Metals |-> balance[k][n] + Material(pooled[n])]
                      ELSE balance[k]
    BY <1>1, <2>1 DEF Swept
  <2>3. balance[k][m] \in Int
    BY <2>1
  <2>4. o \in OrdersOf(k) <=> KarigarOf[o] = k
    BY <1>2 DEF OrdersOf
  <2>. QED
    BY <2>2, <2>3, <2>4
<1>9. ASSUME NEW k \in Karigars, NEW m \in Metals
      PROVE  /\ Owed(k, m)' + SweepsAtLeast(k, m)' <= balance'[k][m]
             /\ balance'[k][m] <= Owed(k, m)' + SweepsAtMost(k, m)'
  <2>1. balance[k][m] \in Int /\ Eps \in Int
    BY <1>0, ProductionAssumption DEF TypeOK
  <2>2. /\ Material(pooled[m]) \in Int
        /\ PaidInBy(o, m) - Eps <= Material(pooled[m])
        /\ Material(pooled[m])
             <= PaidInBy(o, m) + Eps * ReturnsMade(LinesIn(o, m))
        /\ PaidInBy(o, m) \in Int /\ Eps * ReturnsMade(LinesIn(o, m)) \in Int
    BY <1>0, <1>1, SweptAmount, CreditBound
  <2>3. PICK u, lo, hi, b, paid, drift, gram \in Int :
          /\ u = Owed(k, m) /\ lo = SweepsAtLeast(k, m) /\ hi = SweepsAtMost(k, m)
          /\ b = balance[k][m] /\ gram = Material(pooled[m])
          /\ paid = PaidInBy(o, m) /\ drift = Eps * ReturnsMade(LinesIn(o, m))
    BY <1>6, <1>7, <2>1, <2>2
  <2>4. /\ u + lo <= b /\ b <= u + hi
        /\ paid - Eps <= gram /\ gram <= paid + drift
    BY <2>2, <2>3, BoundsOfBalance
  <2>5. CASE o \in OrdersOf(k)
    <3>1. /\ SweepsAtLeast(k, m)' = lo + ((paid - Eps) - 0)
          /\ SweepsAtMost(k, m)' = hi + ((paid + drift) - 0)
          /\ Owed(k, m)' = u /\ balance'[k][m] = b + gram
      BY <1>5, <1>6, <1>7, <1>8, <2>3, <2>5
    <3>. QED
      BY <2>1, <2>4, <3>1
  <2>6. CASE o \notin OrdersOf(k)
    <3>1. /\ SweepsAtLeast(k, m)' = lo + 0
          /\ SweepsAtMost(k, m)' = hi + 0
          /\ Owed(k, m)' = u /\ balance'[k][m] = b + 0
      BY <1>6, <1>7, <1>8, <2>3, <2>6
    <3>. QED
      BY <2>1, <2>4, <3>1
  <2>. QED
    BY <2>5, <2>6
<1>. QED
  BY <1>9, NextBoundsOfBalance

-----------------------------------------------------------------------------
(* The theorems for one request at a time.                                 *)

LEMMA InitSerial == Init => SerialInv
<1>. SUFFICES ASSUME Init PROVE SerialInv
  OBVIOUS
<1>1. AuditInv /\ TypeOK
  BY InitAudit DEF AuditInv, ProductionInv
<1>2. FreshSnapshots
  BY DEF Init, FreshSnapshots, FreshSnapshot, Idle
<1>3. HeldOnlyWhileDisputed
  BY DEF Init, HeldOnlyWhileDisputed, NoStock
<1>4. ASSUME NEW k \in Karigars, NEW m \in Metals
      PROVE  /\ Owed(k, m) + SweepsAtLeast(k, m) <= balance[k][m]
             /\ balance[k][m] <= Owed(k, m) + SweepsAtMost(k, m)
  <2>1. PICK I, c, a : /\ I = IssuesOf(k, m)
                       /\ c = [i \in Issues |-> CarriedOf(i)]
                       /\ a = [i \in Issues |-> issue[i].applied]
    OBVIOUS
  <2>2. PICK O, lo, hi : /\ O = OrdersOf(k)
                         /\ lo = [o \in Orders |-> SweptAtLeast(o, m)]
                         /\ hi = [o \in Orders |-> SweptAtMost(o, m)]
    OBVIOUS
  <2>3. /\ IsFiniteSet(I) /\ I \subseteq Issues
        /\ IsFiniteSet(O) /\ O \subseteq Orders
    BY <2>1, <2>2, IssuesOfFacts
  <2>4. \A i \in I : c[i] = 0 /\ a[i] = 0
    BY <2>1, <2>3 DEF Init, CarriedOf, NoDispute, NoIssue
  <2>5. \A o \in O : lo[o] = 0 /\ hi[o] = 0
    BY <2>2, <2>3 DEF Init, SweptAtLeast, SweptAtMost
  <2>6. CarriedBy(k, m) = 0 /\ AppliedBy(k, m) = 0
    BY <2>1, <2>3, <2>4, SumZero DEF CarriedBy, AppliedBy
  <2>7. SweepsAtLeast(k, m) = 0 /\ SweepsAtMost(k, m) = 0
    BY <2>2, <2>3, <2>5, SumZero DEF SweepsAtLeast, SweepsAtMost
  <2>8. balance[k][m] = InitialBalance[k][m] /\ balance[k][m] \in Int
    BY <1>1 DEF Init, TypeOK
  <2>. QED
    BY <2>6, <2>7, <2>8 DEF Owed
<1>. QED
  BY <1>1, <1>2, <1>3, <1>4, BoundsOfBalance DEF SerialInv

LEMMA NextSerial ==
  ASSUME OneAtATime, SerialInv, [Next]_vars
  PROVE  SerialInv'
<1>0. /\ AuditInv /\ FreshSnapshots /\ HeldOnlyWhileDisputed /\ BalanceBounds
      /\ AuditInv' /\ TypeOK /\ TypeOK'
  BY NextAudit DEF SerialInv, AuditInv, ProductionInv
<1>1. ASSUME NEW r \in Requests, Requesting(r) \/ Reading(r) \/ Abort(r)
      PROVE  SerialInv'
  <2>1. UNCHANGED Tables
    BY <1>1 DEF Requesting, RequestIssue, RequestWeighIn, RequestCorrect,
                RequestApprove, RequestReturn, RequestComplete, RequestResolve,
                Reading, ReadPool, ReadDispute, ReadPools, Abort
  <2>2. BalanceBounds' /\ HeldOnlyWhileDisputed'
    BY <1>0, <2>1, BalanceQuiet DEF Tables, HeldOnlyWhileDisputed
  <2>3. FreshSnapshots'
    BY <1>0, <1>1, FreshRequest, FreshReading, FreshAnswer DEF Abort
  <2>. QED
    BY <1>0, <2>2, <2>3 DEF SerialInv
<1>2. ASSUME NEW r \in Requests, Committing(r)
      PROVE  SerialInv'
  <2>1. HeldOnlyWhileDisputed'
    BY <1>0, <1>2, HeldStep
  <2>2. Answer(r)
    BY <1>2 DEF Committing, CommitIssue, CommitWeighIn, CommitCorrect,
                CommitApprove, CommitReturn, CommitComplete, CommitResolve
  <2>3. FreshSnapshots'
    BY <1>0, <2>2, FreshAnswer
  <2>4. BalanceBounds'
    BY <1>0, <1>2, IssueBalance, WeighInBalance, CorrectBalance, ApproveBalance,
       ReturnBalance, CompleteBalance, ResolveBalance DEF Committing
  <2>. QED
    BY <1>0, <2>1, <2>3, <2>4 DEF SerialInv
<1>3. ASSUME NEW s \in Items, SellItem(s)
      PROVE  SerialInv'
  <2>1. UNCHANGED <<orderStatus, issue, line, ret, returnsMade, dispute, stock,
                    pool, balance, req>>
    BY <1>3 DEF SellItem
  <2>2. BalanceBounds' /\ HeldOnlyWhileDisputed' /\ FreshSnapshots'
    BY <1>0, <2>1, BalanceQuiet
       DEF HeldOnlyWhileDisputed, FreshSnapshots, FreshSnapshot, Open
  <2>. QED
    BY <1>0, <2>2 DEF SerialInv
<1>4. CASE UNCHANGED vars
  <2>1. BalanceBounds' /\ HeldOnlyWhileDisputed' /\ FreshSnapshots'
    BY <1>0, <1>4, BalanceQuiet
       DEF vars, HeldOnlyWhileDisputed, FreshSnapshots, FreshSnapshot, Open
  <2>. QED
    BY <1>0, <2>1 DEF SerialInv
<1>. QED
  BY <1>1, <1>2, <1>3, <1>4 DEF Next

\* Requests served one at a time keep SerialInv.
THEOREM SerialInvHolds == OneAtATime => (Spec => []SerialInv)
<1>. SUFFICES ASSUME OneAtATime PROVE Spec => []SerialInv
  OBVIOUS
<1>1. SerialInv /\ [Next]_vars => SerialInv'
  BY NextSerial
<1>. QED
  BY InitSerial, <1>1, PTL DEF Spec

\* With one request at a time a piece is held only while its dispute is open.
THEOREM HeldOnlyWhileDisputedHolds ==
  OneAtATime => (Spec => []HeldOnlyWhileDisputed)
<1>. SUFFICES ASSUME OneAtATime PROVE Spec => []HeldOnlyWhileDisputed
  OBVIOUS
<1>1. SerialInv => HeldOnlyWhileDisputed
  BY DEF SerialInv
<1>. QED
  BY SerialInvHolds, <1>1, PTL

\* More returns allow more drift.
LEMMA EpsMonotone == \A a, b \in Nat : a <= b => Eps * a <= Eps * b
BY ProductionAssumption

\* The returns of the lines of some orders of a karigar are among the returns
\* of his issues.
LEMMA ReturnsOfOrders ==
  ASSUME TypeOK, NEW k, NEW m, NEW C \in SUBSET OrdersOf(k)
  PROVE  /\ SumFunctionOnSet([o \in Orders |-> ReturnsMade(LinesIn(o, m))], C) \in Nat
         /\ ReturnsMade(IssuesOf(k, m)) \in Nat
         /\ SumFunctionOnSet([o \in Orders |-> ReturnsMade(LinesIn(o, m))], C)
              <= ReturnsMade(IssuesOf(k, m))
<1>1. PICK I, U, g :
        /\ I = IssuesOf(k, m)
        /\ U = {i \in Lines : OrderOf[i] \in C /\ MetalOf[i] = m}
        /\ g = [o \in Orders |-> ReturnsMade(LinesIn(o, m))]
  OBVIOUS
<1>2. /\ IsFiniteSet(I) /\ I \subseteq Issues
      /\ IsFiniteSet(C) /\ C \subseteq Orders
  BY <1>1, IssuesOfFacts, FS_Subset
<1>3. U \in SUBSET I
  BY <1>1, LinesAreIssues DEF IssuesOf, OrdersOf
<1>4. IsFiniteSet(U) /\ U \subseteq Issues
  BY <1>2, <1>3, FS_Subset
<1>5. \A i \in Issues : returnsMade[i] \in Nat
  BY DEF TypeOK
<1>6. \A o \in C : g[o] = SumFunctionOnSet(returnsMade, GroupOf(OrderOf, U, o))
  <2>1. \A o \in C : GroupOf(OrderOf, U, o) = LinesIn(o, m)
    BY <1>1 DEF LinesIn, LinesOf, GroupOf
  <2>. QED
    BY <1>1, <1>2, <2>1 DEF ReturnsMade
<1>7. \A i \in U : returnsMade[i] \in Int /\ OrderOf[i] \in C
  BY <1>1, <1>4, <1>5
<1>8. SumFunctionOnSet(g, C) = SumFunctionOnSet(returnsMade, U)
  BY <1>2, <1>4, <1>6, <1>7, SumGroups
<1>9. /\ SumFunctionOnSet(returnsMade, U) <= SumFunctionOnSet(returnsMade, I)
      /\ SumFunctionOnSet(returnsMade, U) \in Nat
      /\ SumFunctionOnSet(returnsMade, I) \in Nat
  <2>1. \A i \in I : returnsMade[i] \in Nat
    BY <1>2, <1>5
  <2>2. \A i \in U : returnsMade[i] \in Nat
    BY <1>4, <1>5
  <2>3. SumFunctionOnSet(returnsMade, U) <= SumFunctionOnSet(returnsMade, I)
    BY <1>2, <1>3, <2>1, SumSubset
  <2>. QED
    BY <1>2, <1>4, <2>1, <2>2, <2>3, SumNat
<1>. QED
  BY <1>1, <1>8, <1>9 DEF ReturnsMade

\* What the completed orders swept, as the ledger counts it.
LEMMA SweepsInLedger ==
  ASSUME TypeOK, NEW k \in Karigars, NEW m \in Metals
  PROVE  /\ SweptTo(k, m) \in Int
         /\ SweepsAtLeast(k, m) = SweptTo(k, m) - Eps * Cardinality(CompletedOf(k))
         /\ SweepsAtMost(k, m) <= SweptTo(k, m) + Eps * ReturnsMade(IssuesOf(k, m))
         /\ Eps * Cardinality(CompletedOf(k)) \in Int
         /\ Eps * ReturnsMade(IssuesOf(k, m)) \in Int
<1>1. PICK O, C, paid, lo, hi, less, n, drift :
        /\ O = OrdersOf(k) /\ C = CompletedOf(k)
        /\ paid = [o \in Orders |-> PaidInBy(o, m)]
        /\ lo = [o \in Orders |-> SweptAtLeast(o, m)]
        /\ hi = [o \in Orders |-> SweptAtMost(o, m)]
        /\ less = [o \in Orders |-> -Eps]
        /\ n = [o \in Orders |-> ReturnsMade(LinesIn(o, m))]
        /\ drift = [o \in Orders |-> Eps * ReturnsMade(LinesIn(o, m))]
  OBVIOUS
<1>2. /\ IsFiniteSet(O) /\ O \subseteq Orders /\ C \in SUBSET O
      /\ C \in SUBSET OrdersOf(k) /\ IsFiniteSet(C) /\ C \subseteq Orders
  <2>1. IsFiniteSet(O) /\ O \subseteq Orders
    BY <1>1, IssuesOfFacts
  <2>2. C \subseteq O
    BY <1>1 DEF CompletedOf, OrdersOf
  <2>. QED
    BY <1>1, <2>1, <2>2, FS_Subset
<1>3. \A o \in O : lo[o] \in Int /\ hi[o] \in Int
  BY <1>1, <1>2, EntryTypes
<1>4. \A o \in O \ C : lo[o] = 0 /\ hi[o] = 0
  <2>1. \A o \in O \ C : orderStatus[o] # "COMPLETED"
    BY <1>1 DEF OrdersOf, CompletedOf
  <2>. QED
    BY <1>1, <1>2, <2>1 DEF SweptAtLeast, SweptAtMost
<1>5. /\ SumFunctionOnSet(lo, O) = SumFunctionOnSet(lo, C)
      /\ SumFunctionOnSet(hi, O) = SumFunctionOnSet(hi, C)
  BY <1>2, <1>3, <1>4, SumSupport
<1>6. /\ \A o \in C : lo[o] = paid[o] + less[o] /\ hi[o] = paid[o] + drift[o]
      /\ \A o \in C : paid[o] \in Int /\ less[o] = -Eps /\ drift[o] \in Int
      /\ \A o \in C : drift[o] = Eps * n[o] /\ n[o] \in Int
      /\ Eps \in Int /\ -Eps \in Int
  <2>1. \A o \in C : orderStatus[o] = "COMPLETED"
    BY <1>1 DEF CompletedOf
  <2>2. \A o \in C : PaidInBy(o, m) \in Int
                     /\ Eps * ReturnsMade(LinesIn(o, m)) \in Int
    BY CreditBound
  <2>3. Eps \in Int /\ -Eps \in Int
    BY ProductionAssumption
  <2>4. \A o \in C : ReturnsMade(LinesIn(o, m)) \in Int
    <3>. SUFFICES ASSUME NEW o \in C PROVE ReturnsMade(LinesIn(o, m)) \in Int
      OBVIOUS
    <3>1. PICK L : L = LinesIn(o, m)
      OBVIOUS
    <3>2. IsFiniteSet(L) /\ \A i \in L : returnsMade[i] \in Int
      BY <3>1, LinesInFacts DEF TypeOK
    <3>. QED
      BY <3>1, <3>2, SumInt DEF ReturnsMade
  <2>5. \A o \in C : /\ paid[o] = PaidInBy(o, m) /\ less[o] = -Eps
                     /\ n[o] = ReturnsMade(LinesIn(o, m))
                     /\ drift[o] = Eps * ReturnsMade(LinesIn(o, m))
                     /\ lo[o] = PaidInBy(o, m) - Eps
                     /\ hi[o] = PaidInBy(o, m) + Eps * ReturnsMade(LinesIn(o, m))
    BY <1>1, <1>2, <2>1 DEF SweptAtLeast, SweptAtMost
  <2>. QED
    BY <2>2, <2>3, <2>4, <2>5
<1>7. /\ SumFunctionOnSet(lo, C)
           = SumFunctionOnSet(paid, C) + SumFunctionOnSet(less, C)
      /\ SumFunctionOnSet(hi, C)
           = SumFunctionOnSet(paid, C) + SumFunctionOnSet(drift, C)
      /\ SumFunctionOnSet(paid, C) \in Int
  BY <1>2, <1>6, SumAdd, SumInt
<1>8. SumFunctionOnSet(less, C) = (-Eps) * Cardinality(C)
  BY <1>2, <1>6, SumConstant
<1>9. SumFunctionOnSet(drift, C) = Eps * SumFunctionOnSet(n, C)
  BY <1>2, <1>6, SumScale
<1>10. /\ SumFunctionOnSet(n, C) \in Nat /\ ReturnsMade(IssuesOf(k, m)) \in Nat
       /\ SumFunctionOnSet(n, C) <= ReturnsMade(IssuesOf(k, m))
  BY <1>1, <1>2, ReturnsOfOrders
<1>11. Eps * SumFunctionOnSet(n, C) <= Eps * ReturnsMade(IssuesOf(k, m))
  BY <1>10, EpsMonotone
<1>12. Cardinality(C) \in Nat
  BY <1>2, FS_CardinalityType
<1>13. /\ (-Eps) * Cardinality(C) = -(Eps * Cardinality(C))
       /\ Eps * Cardinality(C) \in Int
       /\ Eps * ReturnsMade(IssuesOf(k, m)) \in Int
       /\ Eps * SumFunctionOnSet(n, C) \in Int
  BY <1>6, <1>10, <1>12
<1>14. /\ SweptTo(k, m) = SumFunctionOnSet(paid, C)
       /\ SweepsAtLeast(k, m) = SumFunctionOnSet(lo, O)
       /\ SweepsAtMost(k, m) = SumFunctionOnSet(hi, O)
  BY <1>1 DEF SweptTo, SweepsAtLeast, SweepsAtMost
<1>. QED
  BY <1>1, <1>5, <1>7, <1>8, <1>9, <1>11, <1>13, <1>14

\* With one request at a time a karigar's balance is what he owed at first and
\* the entries made since, within the drift of the pools.
THEOREM BalanceMatchesLedgerHolds ==
  OneAtATime => (Spec => []BalanceMatchesLedger)
<1>. SUFFICES ASSUME OneAtATime PROVE Spec => []BalanceMatchesLedger
  OBVIOUS
<1>1. ASSUME TypeOK, BalanceBounds PROVE BalanceMatchesLedger
  <2>. SUFFICES ASSUME NEW k \in Karigars, NEW m \in Metals
       PROVE  LET ledger == InitialBalance[k][m] + CarriedBy(k, m)
                              + SweptTo(k, m) - AppliedBy(k, m)
              IN  /\ ledger - Eps * Cardinality(CompletedOf(k)) <= balance[k][m]
                  /\ balance[k][m] <= ledger + Eps * ReturnsMade(IssuesOf(k, m))
    BY DEF BalanceMatchesLedger
  <2>1. /\ Owed(k, m) + SweepsAtLeast(k, m) <= balance[k][m]
        /\ balance[k][m] <= Owed(k, m) + SweepsAtMost(k, m)
    BY <1>1, BoundsOfBalance
  <2>2. CarriedBy(k, m) \in Int /\ AppliedBy(k, m) \in Int
    <3>1. PICK I, c, a : /\ I = IssuesOf(k, m)
                         /\ c = [i \in Issues |-> CarriedOf(i)]
                         /\ a = [i \in Issues |-> issue[i].applied]
      OBVIOUS
    <3>2. IsFiniteSet(I) /\ I \subseteq Issues
      BY <3>1, IssuesOfFacts
    <3>3. \A i \in I : c[i] \in Int /\ a[i] \in Int
      BY <1>1, <3>1, <3>2, EntryTypes
    <3>. QED
      BY <3>1, <3>2, <3>3, SumInt DEF CarriedBy, AppliedBy
  <2>3. InitialBalance[k][m] \in Int /\ balance[k][m] \in Int
    BY <1>1, ProductionAssumption DEF TypeOK
  <2>4. PICK i, c, a, b, s, e, d \in Int :
          /\ i = InitialBalance[k][m] /\ c = CarriedBy(k, m)
          /\ a = AppliedBy(k, m) /\ b = balance[k][m] /\ s = SweptTo(k, m)
          /\ e = Eps * Cardinality(CompletedOf(k))
          /\ d = Eps * ReturnsMade(IssuesOf(k, m))
    BY <1>1, <2>2, <2>3, SweepsInLedger
  <2>5. SweepsAtLeast(k, m) = s - e /\ SweepsAtMost(k, m) <= s + d
    BY <1>1, <2>4, SweepsInLedger
  <2>6. SweepsAtMost(k, m) \in Int
    <3>1. PICK O, hi : /\ O = OrdersOf(k)
                       /\ hi = [o \in Orders |-> SweptAtMost(o, m)]
      OBVIOUS
    <3>2. IsFiniteSet(O) /\ O \subseteq Orders
      BY <3>1, IssuesOfFacts
    <3>3. \A o \in O : hi[o] \in Int
      BY <1>1, <3>1, <3>2, EntryTypes
    <3>. QED
      BY <3>1, <3>2, <3>3, SumInt DEF SweepsAtMost
  <2>7. Owed(k, m) = i + c - a
    BY <2>4 DEF Owed
  <2>8. PICK x \in Int : x = SweepsAtMost(k, m)
    BY <2>6
  <2>9. i + c - a + (s - e) <= b /\ b <= i + c - a + x /\ x <= s + d
    BY <2>1, <2>4, <2>5, <2>7, <2>8
  <2>10. (i + c + s - a) - e <= b /\ b <= (i + c + s - a) + d
    BY <2>9
  <2>. QED
    BY <2>4, <2>10
<1>2. SerialInv => BalanceMatchesLedger
  BY <1>1 DEF SerialInv, AuditInv, ProductionInv
<1>. QED
  BY SerialInvHolds, <1>2, PTL
=============================================================================
