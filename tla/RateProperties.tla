--------------------------- MODULE RateProperties ---------------------------
(***************************************************************************)
(* What the rate board promises.                                           *)
(***************************************************************************)
EXTENDS RateBoard

\* Tables and requests keep their types; a metal has at most one row per
\* writing transaction.
TypeOK ==
  /\ daily \subseteq RateRow /\ writes \in Nat
  /\ snaps \subseteq SnapRow /\ fetches \in Nat
  /\ discount \in 0..100 /\ override \in [Metals -> -1..100]
  /\ day \in Days /\ fired \in BOOLEAN /\ up \in BOOLEAN
  /\ site \in Fetched
  /\ req \in [Requests -> Request]

-----------------------------------------------------------------------------
\* setRate, setGoldRatesFrom24K and confirmRates expire the current rate of a
\* metal and insert the next: a metal that was ever given a rate has exactly
\* one current rate, its newest, however the writers interleave.  Pricing,
\* old-gold purchases and karigar fines look it up by isCurrent alone.
OneCurrentRate ==
  \A m \in Metals : LET rows == {row \in daily : row.metal = m} IN
    rows # {} =>
      \E row \in rows : /\ CurrentOf(m) = {row}
                        /\ \A older \in rows : older.tx <= row.tx

\* The two rates are compared before they are scaled by purity and rounded
\* to paisa; what is stored never has the shop buy above its sell rate.
NeverInverted == \A row \in daily : row.buy <= row.sell

\* The scheduled fetch skips a date it already has (rates-fetch.service.spec.ts,
\* "runFetch unchanged-date skip"): two scheduled snapshots with nothing between them are
\* of different dates, unless the first brought no rates.
NoRepeatedFetch ==
  \A s, t \in snaps :
    (s.by = "cron" /\ t.by = "cron" /\ t.n = s.n + 1
       /\ (s.gold # 0 \/ s.silver # 0)) => s.label # t.label \/ s.label = -1

-----------------------------------------------------------------------------
\* Every fetch ends, whatever the site does (fetchTodayRates never throws and
\* both of its requests have a time limit), or the server has stopped.
FetchEnds ==
  \A r \in Requests :
    (req[r].op \in {"fetch", "fetched", "record"}) ~> (req[r] = Idle)

\* If from the morning of a working day on the server runs and the site shows
\* that day's rates (or a later day's), the banner comes to offer them, or they
\* are confirmed already: neither fetches that failed earlier, nor fetches by
\* hand, nor older offers nobody took stand in the way (runFetch,
\* getLatestSnapshot).
DayIsCovered ==
  \A d \in Days :
    ( /\ day = d /\ ~fired /\ ~Saturday(d)
      /\ [](up /\ site.label >= d /\ (site.gold # 0 \/ site.silver # 0)))
      ~> ( \/ \E s \in snaps : s.label >= d /\ s.status = "CONFIRMED"
           \/ snaps # {} /\ Offered.label >= d /\ Offered.status # "FAILED")
=============================================================================
