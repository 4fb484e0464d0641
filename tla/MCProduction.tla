---------------------------- MODULE MCProduction ----------------------------
(***************************************************************************)
(* Small instances of karigar production: one order o1 with two lines l1   *)
(* and l2 of gold, optionally an issue f1 that belongs to no line, one     *)
(* karigar, and an item t1 that may be melted or sold.                     *)
(***************************************************************************)
EXTENDS ProductionAudit, ProductionRefinement, ProductionInvariant, TLC

CONSTANTS o1, l1, l2, f1, k1, gold, t1

MCOrders   == {o1}
MCKarigars == {k1}
MCMetals   == {gold}

TwoLines     == {l1, l2}
LinesAndFree == {l1, l2, f1}

NoItems == {}
OneItem == {t1}

MCOrderOf        == [i \in Issues |-> o1]
MCMetalOf        == [i \in Issues |-> gold]
MCKarigarOf      == [o \in Orders |-> k1]
MCExpected       == [i \in Lines |-> 5]
MCMetalOfItem    == [s \in Items |-> gold]
MCWeightOf       == [S \in SUBSET Items |-> 3 * Cardinality(S)]
MCToleranceGram  == [o \in Orders |-> 2]
NullTolerance    == [o \in Orders |-> NoTolerance]
MCTolerancePct   == [o \in Orders |-> 30]
ZeroBalance      == [k \in Karigars |-> [m \in Metals |-> 0]]
SomeBalance      == [k \in Karigars |-> [m \in Metals |-> 3]]

Carry       == {"METAL_CARRYFORWARD"}
CashOrCarry == Carry \union {"CASH_DEDUCTION"}

\* An issue of 8 for a piece of 5 allows a loss of 3.  The piece weighs 8
\* (surplus 3), or 1 (a deficit of 4: all of it disputed when the pool is
\* empty, all but WEIGHT_EPSILON covered when it holds 3).
Raw8       == {8}
Actual18   == {1, 8}
Apply0     == {0}
Apply02    == {0, 2}

RequestSymmetry == Permutations(Requests)
=============================================================================
