----------------------------- MODULE ItemCustody ------------------------------
(***************************************************************************)
(* What the sales desk promises about the pieces of jewellery: a piece is  *)
(* outside the shop, on the shelf, aside (melted, scrapped, in dispute) or *)
(* with a customer.  It goes to a customer, and comes back from him, only  *)
(* with a bill that is entered in the same step, and a bill is entered     *)
(* once.  SalesDesk implements it (see SalesRefinement).                   *)
(***************************************************************************)
CONSTANTS Items, Bills

VARIABLES
  custody,  \* where each item is
  ledger    \* the items each bill brought in and sent out

custodyVars == <<custody, ledger>>

Blank == [in |-> {}, out |-> {}]

Place(S, where) == [i \in Items |-> IF i \in S THEN where ELSE custody[i]]

Init ==
  /\ custody \in [Items -> {"outside", "shelf"}]
  /\ ledger = [b \in Bills |-> Blank]

\* Stock entries and trades with other shops.
Enter(S) ==
  /\ \A i \in S : custody[i] = "outside"
  /\ custody' = Place(S, "shelf")
  /\ UNCHANGED ledger

\* Some items come back from customers, some leave, from the shelf or as they
\* come back: a sale, a return or an exchange.
Settle(b, back, out) ==
  /\ ledger[b] = Blank
  /\ \A i \in back : custody[i] = "customer"
  /\ \A i \in out \ back : custody[i] = "shelf"
  /\ custody' = [i \in Items |-> IF i \in out THEN "customer"
                                 ELSE IF i \in back THEN "shelf"
                                 ELSE custody[i]]
  /\ ledger' = [ledger EXCEPT ![b] = [in |-> back, out |-> out]]

\* A customer's metal becomes an item of the shop.
Purchase(b, i) ==
  /\ ledger[b] = Blank
  /\ custody[i] = "outside"
  /\ custody' = Place({i}, "shelf")
  /\ ledger' = [ledger EXCEPT ![b] = [in |-> {i}, out |-> {}]]

\* Melting, remaking, disputes, scrapping: items the shop has, and only those.
Handle(S, where) ==
  /\ \A i \in S : custody[i] \in {"shelf", "aside"}
  /\ custody' = Place(S, where)
  /\ UNCHANGED ledger

Next ==
  \/ \E S \in SUBSET Items : Enter(S)
  \/ \E b \in Bills, back, out \in SUBSET Items : Settle(b, back, out)
  \/ \E b \in Bills, i \in Items : Purchase(b, i)
  \/ \E S \in SUBSET Items, where \in {"shelf", "aside"} : Handle(S, where)

Spec == Init /\ [][Next]_custodyVars
=============================================================================
