------------------------- MODULE ProductionLifecycle ------------------------
(***************************************************************************)
(* What karigar production promises the shop about an order and its lines, *)
(* with every operation in one step: a line goes from PENDING to APPROVED, *)
(* its weigh-in can be undone until it is approved, all of it on an open   *)
(* order, and the order is completed once, after all its lines.            *)
(* ProductionOrders implements it (see ProductionRefinement).              *)
(***************************************************************************)
CONSTANTS Orders, Lines, OrderOf

VARIABLES orderStatus, lineStatus

lifecycleVars == <<orderStatus, lineStatus>>

Init ==
  /\ orderStatus = [o \in Orders |-> "OPEN"]
  /\ lineStatus = [i \in Lines |-> "PENDING"]

Move(i, from, to) ==
  /\ orderStatus[OrderOf[i]] = "OPEN"
  /\ lineStatus[i] = from
  /\ lineStatus' = [lineStatus EXCEPT ![i] = to]
  /\ UNCHANGED orderStatus

Issue(i)   == Move(i, "PENDING", "ISSUED")
WeighIn(i) == Move(i, "ISSUED", "WEIGHED")
Correct(i) == Move(i, "WEIGHED", "ISSUED")
Approve(i) == Move(i, "WEIGHED", "APPROVED")

Complete(o) ==
  /\ orderStatus[o] = "OPEN"
  /\ \A i \in Lines : OrderOf[i] = o => lineStatus[i] = "APPROVED"
  /\ orderStatus' = [orderStatus EXCEPT ![o] = "COMPLETED"]
  /\ UNCHANGED lineStatus

Next ==
  \/ \E i \in Lines : Issue(i) \/ WeighIn(i) \/ Correct(i) \/ Approve(i)
  \/ \E o \in Orders : Complete(o)

Spec == Init /\ [][Next]_lifecycleVars
=============================================================================
