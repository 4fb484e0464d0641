------------------------ MODULE ProductionProperties ------------------------
(***************************************************************************)
(* What must hold of karigar production whatever the interleaving of       *)
(* requests, stated without sums (see ProductionAudit for the accounts).   *)
(***************************************************************************)
EXTENDS ProductionOrders

\* Type invariant of the tables and of what requests keep in memory.
TypeOK ==
  /\ orderStatus \in [Orders -> {"OPEN", "COMPLETED"}]
  /\ issue \in [Issues -> IssueRow]
  /\ line \in [Lines -> LineRow]
  /\ ret \in [Issues -> ReturnRow]
  /\ returnsMade \in [Issues -> Nat]
  /\ dispute \in [Issues -> DisputeRow]
  /\ stock \in [Issues -> StockRow]
  /\ item \in [Items -> {"IN_STOCK", "IN_REMAKE", "REMADE", "SOLD"}]
  /\ pool \in [Orders -> [Metals -> Int]]
  /\ balance \in [Karigars -> [Metals -> Int]]
  /\ req \in [Requests -> Request]

-----------------------------------------------------------------------------
(* Safety invariants.                                                      *)

\* Metal is never spent twice: neither a pool nor a karigar's balance goes
\* below zero, although weigh-ins, corrections, completions and issues read
\* them at one moment and draw on them at another (conditional updateMany in
\* weighIn, correctWeighIn and createProductionIssue).
NeverOverdrawn ==
  \A m \in Metals :
    /\ \A o \in Orders : pool[o][m] >= 0
    /\ \A k \in Karigars : balance[k][m] >= 0

\* A piece in stock is the piece that was weighed: the stock item of an
\* approved line hangs on the return of the weigh-in now recorded on the line
\* and has its weight, even when the line was corrected and weighed again
\* while an approval was in flight (approve works on a snapshot).
StockMatchesWeighIn ==
  \A i \in Lines : line[i].status = "APPROVED" =>
    /\ stock[i].status # "NONE"
    /\ stock[i].ret = line[i].ret
    /\ stock[i].weight = line[i].actual
    /\ ret[i] = [id |-> line[i].ret, byLine |-> TRUE]

\* No piece exists without its return, and a line that is not approved has
\* put nothing in stock through its own weigh-in: an issue yields one return
\* and one entry into stock, whichever of the two return paths wins the race.
OneReturnPerIssue ==
  \A i \in Issues :
    /\ stock[i].status # "NONE" => ret[i].id = stock[i].ret
    /\ ret[i].byLine => i \in Lines /\ line[i].ret = ret[i].id
    /\ i \in Lines /\ stock[i].status # "NONE" =>
         (ret[i].byLine <=> line[i].status = "APPROVED")

\* A piece is never for sale while the dispute about its wastage is open,
\* although approval reads the dispute before it creates the stock item.
NotForSaleWhileDisputed ==
  \A i \in Issues :
    stock[i].status = "IN_STOCK" => dispute[i].status # "PENDING"

\* The dispute of a line is about exactly the deficit recorded on the line,
\* and a line without a dispute has none: no re-weighing, lost race for the
\* pool or correction separates the two records.
DisputeIsTheDeficit ==
  \A i \in Lines :
    /\ line[i].disputed => /\ dispute[i].status # "NONE"
                           /\ dispute[i].excess = line[i].deficit
    /\ line[i].status \in {"WEIGHED", "APPROVED"} =>
         (line[i].disputed <=> line[i].deficit > 0)
    /\ line[i].deficit > 0 => line[i].surplus = 0

\* An item is melted for one issue only, it is never also sold, and it is
\* REMADE exactly when the issue it went into has come back as stock.
MeltedOnce ==
  /\ \A i, j \in Issues :
       i # j => issue[i].sources \intersect issue[j].sources = {}
  /\ \A i \in Issues : \A s \in issue[i].sources :
       item[s] = IF stock[i].status = "NONE" THEN "IN_REMAKE" ELSE "REMADE"

\* A completed order has only approved lines, although no line handler reads
\* the order's status inside its transaction.
CompletedMeansApproved ==
  \A o \in Orders : orderStatus[o] = "COMPLETED" =>
    \A i \in LinesOf(o) : line[i].status = "APPROVED"

-----------------------------------------------------------------------------
(* Action properties.                                                      *)

\* Approval is final: no request that was in flight when a line was approved
\* changes its row, its return or the weight of its piece, or pays into or
\* draws from the pool on its account once every line of the order is done.
ApprovalIsFinal ==
  [][/\ \A i \in Lines : line[i].status = "APPROVED" =>
          /\ line'[i] = line[i]
          /\ ret'[i] = ret[i]
          /\ stock'[i].weight = stock[i].weight
     /\ \A o \in Orders :
          (\A i \in LinesOf(o) : line[i].status = "APPROVED") =>
            \A m \in Metals : pool'[o][m] \in {pool[o][m], 0}]_vars

\* A dispute is never reopened, replaced or changed in amount.
DisputeIsKept ==
  [][\A i \in Issues : dispute[i].status # "NONE" =>
       /\ dispute'[i].excess = dispute[i].excess
       /\ dispute'[i].status \in {dispute[i].status, "RESOLVED"}]_vars

-----------------------------------------------------------------------------
(* What the code, its comments or its tests promise and concurrency breaks.*)
(* These hold when requests are served one at a time.                      *)

\* "Lift UNDER_DISPUTE stock only for this dispute's issue"
\* (karigar.service.ts:1615): a piece is held only while its dispute is open.
HeldOnlyWhileDisputed ==
  \A i \in Issues :
    stock[i].status = "UNDER_DISPUTE" => dispute[i].status = "PENDING"

=============================================================================
