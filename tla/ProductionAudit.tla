-------------------------- MODULE ProductionAudit ---------------------------
(***************************************************************************)
(* The metal accounts of karigar production, recomputed from the rows an   *)
(* auditor finds in the database and compared with the running totals the  *)
(* handlers keep by increments and decrements.                             *)
(***************************************************************************)
EXTENDS ProductionProperties, Functions

\* An audit adds up finitely many rows.
ASSUME AuditAssumption ==
  IsFiniteSet(Orders) /\ IsFiniteSet(Issues) /\ IsFiniteSet(Metals)

Weighed(i) == line[i].status \in {"WEIGHED", "APPROVED"}

\* What the weigh-in recorded on a line says it put into the pool: its
\* surplus, or minus the part of its deficit that is not in dispute.
PaidIn(i) ==
  LET loss == LossOf(i, line[i].actual)
  IN  IF ~Weighed(i) THEN 0
      ELSE IF WithinAllowance(loss, line[i].allowed) THEN line[i].surplus
      ELSE line[i].deficit - (loss - line[i].allowed)

LinesIn(o, m) == {i \in LinesOf(o) : MetalOf[i] = m}

PaidInBy(o, m) ==
  SumFunctionOnSet([i \in Lines |-> PaidIn(i)], LinesIn(o, m))

ReturnsMade(S) == SumFunctionOnSet(returnsMade, S)

\* The surplus pool of an open order is what the weighed lines put into it,
\* per metal, up to one WEIGHT_EPSILON for every weigh-in made: no weigh-in,
\* correction or lost race for the pool invents or loses more than that.
PoolMatchesLines ==
  \A o \in Orders, m \in Metals : orderStatus[o] = "OPEN" =>
    /\ PaidInBy(o, m) <= pool[o][m]
    /\ pool[o][m] <= PaidInBy(o, m) + Eps * ReturnsMade(LinesIn(o, m))

IssuesOf(k, m) == {i \in Issues : KarigarOf[OrderOf[i]] = k /\ MetalOf[i] = m}

CarriedOf(i) ==
  IF dispute[i].how = "METAL_CARRYFORWARD" THEN dispute[i].excess ELSE 0

CarriedBy(k, m) ==
  SumFunctionOnSet([i \in Issues |-> CarriedOf(i)], IssuesOf(k, m))

AppliedBy(k, m) ==
  SumFunctionOnSet([i \in Issues |-> issue[i].applied], IssuesOf(k, m))

CompletedOf(k) ==
  {o \in Orders : KarigarOf[o] = k /\ orderStatus[o] = "COMPLETED"}

SweptTo(k, m) ==
  SumFunctionOnSet([o \in Orders |-> PaidInBy(o, m)], CompletedOf(k))

\* A karigar's balance is what he owed at first, plus the disputes carried
\* forward as metal, plus the surplus of his completed orders, minus what was
\* applied to issues, up to the drift of the pools and the part of a pool too
\* small to be swept.  "Dispute is already resolved" (karigar.service.ts:1567)
\* and "Order is already COMPLETED" (karigar.service.ts:360) are the refusals
\* that keep each of these credits from being made twice.
BalanceMatchesLedger ==
  \A k \in Karigars, m \in Metals :
    LET ledger == InitialBalance[k][m] + CarriedBy(k, m) + SweptTo(k, m)
                    - AppliedBy(k, m)
    IN  /\ ledger - Eps * Cardinality(CompletedOf(k)) <= balance[k][m]
        /\ balance[k][m] <= ledger + Eps * ReturnsMade(IssuesOf(k, m))

-----------------------------------------------------------------------------
(* The gold ledger and the weight summary of an order: what went out to    *)
(* karigars and what came back, over the issues in S.                      *)

IssuedRows(S)   == {i \in S : issue[i].created}
ReturnedRows(S) == {i \in S : ret[i] # NoReturn}

\* returnedWeightGram: a weigh-in writes the weight of its line, a return
\* without a line that of its piece.
ReturnedWeight(i) == IF ret[i].byLine THEN line[i].actual ELSE stock[i].weight

KarigarOut(S) ==
  SumFunctionOnSet([i \in Issues |-> issue[i].weight], IssuedRows(S))
KarigarIn(S) ==
  SumFunctionOnSet([i \in Issues |-> ReturnedWeight(i)], ReturnedRows(S))

\* The kharcharGram of the returns of the issues in S, added up: what is
\* missing.  The order's totalKharchar shows it, never below zero.
Kharchar(S) == KarigarOut(S) - KarigarIn(S)

\* The loss an issue may have: of a weighed line, the one fixed at the issue.
Allowance(i) == IF ret[i].byLine THEN line[i].allowed ELSE MaxWaste(i)

\* No metal goes missing unseen.  Of the issues of an open order that have come
\* back, what is missing beyond the allowances is in a dispute or was paid by
\* the surplus of other lines, so it and what is left of that surplus come to
\* no more than the disputes, up to one WEIGHT_EPSILON for every return ever made.
\* Weigh-ins, corrections and returns without a line compete for it.
MissingMetalIsAccounted ==
  \A o \in Orders : orderStatus[o] = "OPEN" =>
    LET all  == {i \in Issues : OrderOf[i] = o}
        back == ReturnedRows(all)
    IN  Kharchar(back) + SumFunctionOnSet(pool[o], Metals)
          <= SumFunctionOnSet([i \in Issues |-> Allowance(i)], back)
               + SumFunctionOnSet([i \in Issues |-> dispute[i].excess], back)
               + Eps * ReturnsMade(all)
=============================================================================
