------------------------------- MODULE RateBook -------------------------------
(***************************************************************************)
(* What the rate board promises the shop: every metal has one price, a     *)
(* writer prices all its metals in one step or none, the others keep       *)
(* theirs, and the step that prices from an offer of the site is the one   *)
(* the offer is marked with.  RateBoard implements it (see                 *)
(* RateRefinement).                                                        *)
(***************************************************************************)
EXTENDS Naturals

CONSTANTS Metals, Gold, Fine, Silver

VARIABLES
  price,     \* of each metal, and the write it comes from
  written,   \* writes so far
  offers,    \* the site's offers, each with the write that confirmed it
  recorded   \* offers ever recorded

bookVars == <<price, written, offers, recorded>>

Unpriced == [by |-> 0, sell |-> 0, buy |-> 0]

Init ==
  /\ price = [m \in Metals |-> Unpriced] /\ written = 0
  /\ offers = {} /\ recorded = 0

\* The metals in S get prices, the shop's rate to buy not above that to sell.
Reprice(S) ==
  /\ written' = written + 1
  /\ DOMAIN price' = Metals
  /\ \A m \in S : price'[m].by = written' /\ price'[m].buy <= price'[m].sell
  /\ \A m \in Metals \ S : price'[m] = price[m]
  /\ UNCHANGED recorded

Set(m)  == Reprice({m}) /\ UNCHANGED offers
SetGold == Reprice(Gold) /\ UNCHANGED offers

\* All gold or the 24K only, and the silver; n is the offer, 0 for none.
Confirm(gold, n) ==
  /\ gold \in {Gold, {Fine}}
  /\ n = 0 \/ \E o \in offers : o.n = n
  /\ Reprice(gold \union {Silver})
  /\ offers' = {IF o.n = n THEN [o EXCEPT !.by = written'] ELSE o : o \in offers}

Record ==
  /\ recorded' = recorded + 1
  /\ offers' = offers \union {[n |-> recorded', by |-> 0]}
  /\ UNCHANGED <<price, written>>

Next ==
  \/ \E m \in Metals : Set(m)
  \/ SetGold
  \/ \E gold \in {Gold, {Fine}}, n \in 0..recorded : Confirm(gold, n)
  \/ Record

Spec == Init /\ [][Next]_bookVars
=============================================================================
