------------------------ MODULE ProductionRefinement ------------------------
(***************************************************************************)
(* The handlers of ProductionOrders, with their snapshots, interleavings   *)
(* and aborts, implement the one-step operations of ProductionLifecycle.   *)
(***************************************************************************)
EXTENDS ProductionProperties

Lifecycle == INSTANCE ProductionLifecycle
               WITH lineStatus <- [i \in Lines |-> line[i].status]

\* Every step of the handlers is a step of the lifecycle or leaves it alone:
\* lines move only on open orders and an order is completed only once all its
\* lines are approved, although the handlers check the order's status before
\* their transactions and never again.
ImplementsLifecycle == Lifecycle!Spec
=============================================================================
