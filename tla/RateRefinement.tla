---------------------------- MODULE RateRefinement ----------------------------
(***************************************************************************)
(* The writers of RateBoard, which expire rows, wait for each other and    *)
(* meet the unique index, implement the one-step writes of RateBook.       *)
(***************************************************************************)
EXTENDS RateInvariant

\* The current row of a metal is its price.
PriceIn(rows) ==
  IF rows = {} THEN [by |-> 0, sell |-> 0, buy |-> 0]
  ELSE LET row == CHOOSE row \in rows : TRUE
       IN  [by |-> row.tx, sell |-> row.sell, buy |-> row.buy]

PriceOf(m) == PriceIn(CurrentOf(m))

Book == INSTANCE RateBook
          WITH price    <- [m \in Metals |-> PriceOf(m)],
               written  <- writes,
               offers   <- {[n |-> s.n, by |-> s.consumed] : s \in snaps},
               recorded <- fetches

\* Every step of the writers is one write of RateBook, or leaves the prices
\* alone: nobody ever sees a metal without its price, half of a confirmation,
\* or one writer's prices under another's number, although each writer expires
\* and inserts row by row what it read before (expireAndCreateDailyRate).
ImplementsBook == Book!Spec
=============================================================================
