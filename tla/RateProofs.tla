----------------------------- MODULE RateProofs -----------------------------
(***************************************************************************)
(* RateBoard keeps RateInv, hence one current rate per metal and rates     *)
(* that are not inverted, for any metals, requests and typed rates; it     *)
(* keeps FetchInv, hence a scheduler that does not write one date twice in *)
(* a row; it implements RateBook; and what a fetch records is what the     *)
(* site meant to show.                                                     *)
(***************************************************************************)
EXTENDS RateRefinement, RateSource, TLAPS

-----------------------------------------------------------------------------
(* Rounding keeps the order of two rates.                                  *)

LEMMA DivMonotone ==
  ASSUME NEW a \in Nat, NEW b \in Nat, NEW k \in Nat \ {0}, a <= b
  PROVE  a \div k \in Nat /\ a \div k <= b \div k
<1> DEFINE x == a \div k
           y == b \div k
<1>1. /\ x \in Int /\ y \in Int
      /\ a = k * x + (a % k) /\ b = k * y + (b % k)
      /\ a % k \in 0..(k - 1) /\ b % k \in 0..(k - 1)
  BY SMT
<1>2. ASSUME x > y PROVE FALSE
  <2>1. x >= y + 1
    BY <1>1, <1>2, SMT
  <2>2. k * x >= k * y + k
    <3> HIDE DEF x, y
    <3> QED BY <2>1, <1>1, SMT
  <2> QED BY <2>2, <1>1, SMT
<1>3. ASSUME x < 0 PROVE FALSE
  <2>1. k * x <= -k
    <3> HIDE DEF x, y
    <3> QED BY <1>3, <1>1, SMT
  <2> QED BY <2>1, <1>1, SMT
<1> QED BY <1>1, <1>2, <1>3, SMT

LEMMA RoundDivMonotone ==
  ASSUME NEW n \in Nat, NEW m \in Nat, NEW d \in Nat \ {0}, n <= m
  PROVE  RoundDiv(n, d) \in Nat /\ RoundDiv(n, d) <= RoundDiv(m, d)
<1>1. 2 * n + d \in Nat /\ 2 * m + d \in Nat /\ 2 * d \in Nat \ {0}
      /\ 2 * n + d <= 2 * m + d
  OBVIOUS
<1> QED BY <1>1, DivMonotone DEF RoundDiv

LEMMA RoundRateMonotone ==
  ASSUME NEW a \in Nat, NEW b \in Nat, a <= b
  PROVE  RoundRate(a) \in Nat /\ RoundRate(a) <= RoundRate(b)
BY RoundDivMonotone DEF RoundRate, Parts

LEMMA ProductMonotone ==
  ASSUME NEW a \in Nat, NEW b \in Nat, NEW k \in Nat, a <= b
  PROVE  a * k \in Nat /\ b * k \in Nat /\ a * k <= b * k
BY SMT

LEMMA DeriveMonotone ==
  ASSUME NEW a \in Nat, NEW b \in Nat, a <= b, NEW m \in Metals
  PROVE  Derive(a, m) \in Nat /\ Derive(a, m) <= Derive(b, m)
<1>1. Purity[m] \in Nat /\ Purity[Fine] \in Nat \ {0}
  BY RateAssumption
<1>2. Parts * Purity[Fine] \in Nat \ {0}
  BY <1>1 DEF Parts
<1>3. a * Purity[m] \in Nat /\ b * Purity[m] \in Nat
      /\ a * Purity[m] <= b * Purity[m]
  BY <1>1, ProductMonotone
<1> QED BY <1>2, <1>3, RoundDivMonotone DEF Derive

LEMMA BuyRateIsNat ==
  ASSUME NEW sell \in Nat, NEW pct \in 0..100
  PROVE  ComputeBuyRate(sell, pct) \in Nat
<1>1. sell * (100 - pct) \in Nat
  BY ProductMonotone
<1>2. 100 * Parts \in Nat \ {0}
  BY DEF Parts
<1> QED BY <1>1, <1>2, RoundDivMonotone DEF ComputeBuyRate

\* A confirmed row is priced in natural numbers, typed or derived.
LEMMA PricedIsNat ==
  ASSUME TypeOK, NEW m \in Metals, NEW derived \in Nat, NEW rows \in Overrides
  PROVE  /\ Priced(m, derived, rows).sell \in Nat
         /\ Priced(m, derived, rows).buy \in Nat
<1> DEFINE typed == IF m \in DOMAIN rows THEN rows[m]
                    ELSE [sell |-> 0, buy |-> 0]
           sell  == IF typed.sell # 0 THEN typed.sell ELSE Parts * derived
<1>1. typed \in [sell: Nat, buy: Nat]
  BY RateAssumption
<1>2. sell \in Nat
  BY <1>1 DEF Parts
<1>3. EffectiveDiscount(m) \in 0..100
  BY DEF TypeOK, EffectiveDiscount
<1>4. ComputeBuyRate(sell, EffectiveDiscount(m)) \in Nat
  <2> HIDE DEF sell
  <2> QED BY <1>2, <1>3, BuyRateIsNat
<1>5. Parts * ComputeBuyRate(sell, EffectiveDiscount(m)) \in Nat
  BY <1>4 DEF Parts
<1> QED BY <1>1, <1>2, <1>5 DEF Priced

-----------------------------------------------------------------------------
(* The steps that store nothing.                                           *)

LEMMA InitRateInv == Init => RateInv
<1> SUFFICES ASSUME Init PROVE RateInv
  OBVIOUS
<1>1. TypeOK
  <2>1. req \in [Requests -> Request]
    BY DEF Init, Request
  <2>2. site \in Fetched
    BY DEF Init, Nothing, Fetched
  <2>3. override \in [Metals -> -1..100]
    BY DEF Init
  <2>4. daily \subseteq RateRow /\ snaps \subseteq SnapRow /\ writes \in Nat
    BY DEF Init
  <2>8. fetches \in Nat
    BY DEF Init
  <2>5. fired \in BOOLEAN /\ up \in BOOLEAN
    BY DEF Init
  <2>7. discount \in 0..100
    BY DEF Init
  <2>6. day \in Days
    BY DEF Init
  <2> QED BY <2>1, <2>2, <2>3, <2>4, <2>5, <2>6, <2>7, <2>8 DEF TypeOK
<1>2. PlansSound /\ SeenPlanned
  BY DEF Init, PlansSound, SeenPlanned, Planning, Idle
<1>3. Numbered /\ OneCurrentRate /\ NeverInverted
  BY DEF Init, Numbered, OneCurrentRate, NeverInverted
<1> QED BY <1>1, <1>2, <1>3 DEF RateInv

\* The board is left alone, and no request plans anything new.
LEMMA QuietStep ==
  ASSUME RateInv, TypeOK', UNCHANGED <<daily, writes>>,
         \A r \in Requests : req'[r] = req[r] \/ ~Planning(r)'
  PROVE  RateInv'
<1>1. PlansSound'
  BY DEF RateInv, PlansSound, Planning
<1>2. SeenPlanned'
  BY DEF RateInv, SeenPlanned, Planning, Planned
<1>3. Numbered' /\ NeverInverted'
  BY DEF RateInv, Numbered, NeverInverted
<1>4. OneCurrentRate'
  BY DEF RateInv, OneCurrentRate, CurrentOf, CurrentRows
<1> QED BY <1>1, <1>2, <1>3, <1>4 DEF RateInv

LEMMA PlanKeeps ==
  ASSUME RateInv, NEW r \in Requests, NEW plan \in SUBSET PlanRow,
         NEW snap \in Nat, Plan(r, plan, snap),
         \A p, q \in plan : p.metal = q.metal => p = q,
         \A p \in plan : p.buy <= p.sell
  PROVE  RateInv'
<1>1. TypeOK'
  BY DEF RateInv, TypeOK, Plan, Submit, Tables, Calendar, Request, PlanRequest
<1>2. PlansSound'
  BY DEF RateInv, TypeOK, PlansSound, Planning, Plan, Submit
<1>3. SeenPlanned'
  BY DEF RateInv, TypeOK, SeenPlanned, Planned, Plan, Submit
<1>4. Numbered' /\ NeverInverted'
  BY DEF RateInv, Numbered, NeverInverted, Plan, Tables
<1>5. OneCurrentRate'
  BY DEF RateInv, OneCurrentRate, CurrentOf, CurrentRows, Plan, Tables
<1> QED BY <1>1, <1>2, <1>3, <1>4, <1>5 DEF RateInv

LEMMA PlanSetKeeps ==
  ASSUME RateInv, NEW r \in Requests, NEW m \in Metals,
         NEW p \in [sell: Nat, buy: Nat], PlanSet(r, m, p)
  PROVE  RateInv'
<1>1. /\ RoundRate(p.buy) \in Nat /\ RoundRate(p.sell) \in Nat
      /\ RoundRate(p.buy) <= RoundRate(p.sell)
  BY RoundRateMonotone DEF PlanSet, SellAboveBuy
<1> QED BY <1>1, PlanKeeps DEF PlanSet, PlanRow

LEMMA PlanGoldKeeps ==
  ASSUME RateInv, NEW r \in Requests, NEW p \in [sell: Nat, buy: Nat],
         PlanGold(r, p)
  PROVE  RateInv'
<1> DEFINE plan == {[metal |-> m, sell |-> Derive(p.sell, m),
                     buy |-> Derive(p.buy, m)] : m \in Gold}
<1>1. \A m \in Gold : /\ Derive(p.buy, m) \in Nat /\ Derive(p.sell, m) \in Nat
                      /\ Derive(p.buy, m) <= Derive(p.sell, m)
  BY DeriveMonotone, RateAssumption DEF PlanGold, SellAboveBuy
<1>2. plan \in SUBSET PlanRow
  BY <1>1, RateAssumption DEF PlanRow
<1>3. \A a, b \in plan : a.metal = b.metal => a = b
  OBVIOUS
<1>4. \A a \in plan : a.buy <= a.sell
  BY <1>1
<1>5. Plan(r, plan, 0)
  BY DEF PlanGold
<1> HIDE DEF plan
<1> QED BY <1>2, <1>3, <1>4, <1>5, PlanKeeps

LEMMA PlanConfirmKeeps ==
  ASSUME RateInv, NEW r \in Requests, NEW snap \in Nat, NEW gold \in Bases,
         NEW silver \in Bases, NEW all \in BOOLEAN, NEW rows \in Overrides,
         PlanConfirm(r, snap, gold, silver, all, rows)
  PROVE  RateInv'
<1> DEFINE ms == (IF all THEN Gold ELSE {Fine}) \union {Silver}
           priced == [m \in ms |-> Priced(m, Proposed(m, gold, silver), rows)]
           plan == {[metal |-> m, sell |-> RoundRate(priced[m].sell),
                     buy |-> RoundRate(priced[m].buy)] : m \in ms}
<1>1. ms \subseteq Metals
  BY RateAssumption
<1>2. \A m \in ms : Proposed(m, gold, silver) \in Nat
  <2>1. gold \in Nat /\ silver \in Nat
    BY RateAssumption
  <2>2. RoundRate(silver) \in Nat
    BY <2>1, RoundRateMonotone
  <2>3. \A m \in Metals : Derive(gold, m) \in Nat
    BY <2>1, DeriveMonotone
  <2> QED BY <1>1, <2>2, <2>3 DEF Proposed
<1>3. \A m \in ms : priced[m].sell \in Nat /\ priced[m].buy \in Nat
  BY <1>1, <1>2, PricedIsNat DEF RateInv
<1>4. \A m \in ms : priced[m].buy < priced[m].sell
  BY DEF PlanConfirm, SellAboveBuy
<1>5. \A m \in ms : /\ RoundRate(priced[m].buy) \in Nat
                    /\ RoundRate(priced[m].sell) \in Nat
                    /\ RoundRate(priced[m].buy) <= RoundRate(priced[m].sell)
  <2> HIDE DEF priced
  <2> QED BY <1>3, <1>4, RoundRateMonotone
<1>6. Plan(r, plan, snap)
  BY DEF PlanConfirm
<1>7. plan \in SUBSET PlanRow
  <2> HIDE DEF priced
  <2> QED BY <1>1, <1>5 DEF PlanRow
<1>8. \A a, b \in plan : a.metal = b.metal => a = b
  <2> HIDE DEF priced
  <2> QED OBVIOUS
<1>9. \A a \in plan : a.buy <= a.sell
  <2> HIDE DEF priced
  <2> QED BY <1>5
<1> HIDE DEF plan
<1> QED BY <1>6, <1>7, <1>8, <1>9, PlanKeeps

LEMMA ExpireKeeps ==
  ASSUME RateInv, NEW r \in Requests, Expire(r)
  PROVE  RateInv'
<1>0. req[r] \in PlanRequest
  BY DEF RateInv, TypeOK, Request, Expire, Idle, WriteRequest, PatchRequest,
         FetchRequest, FetchedRequest, RecordRequest, PlanRequest
<1>1. TypeOK'
  BY <1>0 DEF RateInv, TypeOK, Expire, Proceed, Tables, Calendar, Request,
              PlanRequest, WriteRequest, CurrentRows
<1>2. PlansSound'
  BY DEF RateInv, TypeOK, PlansSound, Planning, Expire, Proceed
<1>3. SeenPlanned'
  BY DEF RateInv, TypeOK, SeenPlanned, Planned, Expire, Proceed
<1>4. Numbered' /\ NeverInverted'
  BY DEF RateInv, Numbered, NeverInverted, Expire, Tables
<1>5. OneCurrentRate'
  BY DEF RateInv, OneCurrentRate, CurrentOf, CurrentRows, Expire, Tables
<1> QED BY <1>1, <1>2, <1>3, <1>4, <1>5 DEF RateInv

-----------------------------------------------------------------------------
(* The inserts.                                                            *)

\* The rows of the plan become the current ones of their metals; the current
\* rows of all others stay.
LEMMA CommitCurrent ==
  ASSUME RateInv, NEW r \in Requests, CommitRates(r)
  PROVE  /\ req[r] \in WriteRequest
         /\ \A p \in req[r].plan :
              /\ p \in PlanRow /\ p.buy <= p.sell
              /\ CurrentOf(p.metal)' =
                   {[tx |-> writes + 1, metal |-> p.metal, sell |-> p.sell,
                     buy |-> p.buy, current |-> TRUE]}
         /\ \A m \in Metals : ~Planned(r, m) =>
              /\ CurrentOf(m)' = CurrentOf(m)
              /\ {x \in daily' : x.metal = m} = {x \in daily : x.metal = m}
<1> DEFINE plan == req[r].plan
           seen == req[r].seen
           new  == NewRows(plan)
           old  == Expired(seen)
<1>0. req[r] \in WriteRequest
  <2>1. req[r].op = "write" /\ req[r] \in Request
    BY DEF RateInv, TypeOK, CommitRates
  <2> QED BY <2>1 DEF Request, Idle, PlanRequest, PatchRequest, FetchRequest,
                      FetchedRequest, RecordRequest, WriteRequest
<1>1. plan \in SUBSET PlanRow /\ seen \in SUBSET RateRow /\ daily \subseteq RateRow
  BY <1>0 DEF WriteRequest, RateInv, TypeOK
<1>2. \A row \in new : row.current /\ \E p \in plan : p.metal = row.metal
  BY DEF NewRows
<1>3. \A row \in old : \E was \in daily :
        row.metal = was.metal /\ (row.current => row = was /\ was \notin seen)
  BY <1>1 DEF Expired, RateRow
<1>4. daily' = old \union new
  BY DEF CommitRates
<1>5. \A m : CurrentOf(m)' = {row \in old \union new : row.current /\ row.metal = m}
  BY <1>4 DEF CurrentOf, CurrentRows
<1>6. \A p, q \in plan : p.metal = q.metal => p = q
  BY DEF RateInv, PlansSound, Planning, CommitRates
<1>7. ASSUME NEW p \in plan
      PROVE  /\ p \in PlanRow /\ p.buy <= p.sell
             /\ CurrentOf(p.metal)' =
                  {[tx |-> writes + 1, metal |-> p.metal, sell |-> p.sell,
                    buy |-> p.buy, current |-> TRUE]}
  <2> DEFINE fresh == [tx |-> writes + 1, metal |-> p.metal, sell |-> p.sell,
                       buy |-> p.buy, current |-> TRUE]
  <2>1. p \in PlanRow /\ p.buy <= p.sell
    BY <1>1 DEF RateInv, PlansSound, Planning, CommitRates
  <2>2. fresh \in new /\ fresh.metal = p.metal /\ fresh.current
    BY DEF NewRows
  <2>3. \A row \in new : row.metal = p.metal => row = fresh
    BY <1>6 DEF NewRows
  <2>4. \A row \in old : row.metal = p.metal => ~row.current
    BY <1>3 DEF CommitRates, Indexed, CurrentRows, Planned
  <2> QED BY <1>5, <2>1, <2>2, <2>3, <2>4
<1>8. ASSUME NEW m \in Metals, ~Planned(r, m)
      PROVE  /\ CurrentOf(m)' = CurrentOf(m)
             /\ {x \in daily' : x.metal = m} = {x \in daily : x.metal = m}
  <2>1. \A row \in new : row.metal # m
    BY <1>2, <1>8 DEF Planned
  <2>2. \A row \in seen : row.metal # m
    BY <1>8 DEF RateInv, SeenPlanned, CommitRates, Planned
  <2>3. \A row : row \in old /\ row.metal = m
                   <=> row \in daily /\ row.metal = m
    BY <2>2, <1>1 DEF Expired, RateRow
  <2>4. CurrentOf(m)' = CurrentOf(m)
    BY <1>5, <2>1, <2>3 DEF CurrentOf, CurrentRows
  <2> QED BY <1>4, <2>1, <2>3, <2>4
<1> QED BY <1>0, <1>7, <1>8

LEMMA CommitKeeps ==
  ASSUME RateInv, NEW r \in Requests, CommitRates(r)
  PROVE  RateInv'
<1> DEFINE plan == req[r].plan
           seen == req[r].seen
           new  == NewRows(plan)
           old  == Expired(seen)
<1>0. req[r] \in WriteRequest
  <2>1. req[r].op = "write" /\ req[r] \in Request
    BY DEF RateInv, TypeOK, CommitRates
  <2> QED BY <2>1 DEF Request, Idle, PlanRequest, PatchRequest, FetchRequest,
                      FetchedRequest, RecordRequest, WriteRequest
<1>1. plan \in SUBSET PlanRow /\ seen \in SUBSET RateRow /\ writes \in Nat
      /\ daily \subseteq RateRow
  BY <1>0 DEF WriteRequest, RateInv, TypeOK
<1>2. new \subseteq RateRow /\ \A row \in new :
        /\ row.tx = writes + 1 /\ row.current
        /\ \E p \in plan : p.metal = row.metal /\ row.buy = p.buy
                             /\ row.sell = p.sell
  <2> SUFFICES ASSUME NEW p \in plan
               PROVE  LET row == [tx |-> writes + 1, metal |-> p.metal,
                                  sell |-> p.sell, buy |-> p.buy,
                                  current |-> TRUE]
                      IN  row \in RateRow
    BY DEF NewRows
  <2>1. p \in PlanRow
    BY <1>1
  <2> QED BY <2>1, <1>1 DEF RateRow, PlanRow
<1>3. old \subseteq RateRow /\ \A row \in old : \E was \in daily :
        /\ row.tx = was.tx /\ row.metal = was.metal /\ row.buy = was.buy
        /\ row.sell = was.sell /\ (row.current => row = was /\ was \notin seen)
  BY <1>1 DEF Expired, RateRow
<1>4. daily' = old \union new /\ writes' = writes + 1
  BY DEF CommitRates
<1>5. TypeOK'
  <2>1. snaps' \subseteq SnapRow
    <3>1. snaps \subseteq SnapRow
      BY DEF RateInv, TypeOK
    <3>2. ASSUME NEW s \in SnapRow
          PROVE  [s EXCEPT !.status = "CONFIRMED", !.consumed = writes + 1]
                   \in SnapRow
      <4>1. writes + 1 \in Nat
        BY <1>1
      <4> QED BY <4>1 DEF SnapRow
    <3>3. snaps' = {IF s.n = req[r].snap
                    THEN [s EXCEPT !.status = "CONFIRMED",
                                   !.consumed = writes + 1]
                    ELSE s : s \in snaps}
      BY DEF CommitRates
    <3> QED BY <3>1, <3>2, <3>3
  <2>5. fetches' \in Nat
    BY DEF RateInv, TypeOK, CommitRates
  <2>2. req' \in [Requests -> Request]
    BY DEF RateInv, TypeOK, CommitRates, Answer, Request
  <2>3. daily' \subseteq RateRow /\ writes' \in Nat
    BY <1>1, <1>2, <1>3, <1>4
  <2>4. UNCHANGED <<discount, override, day, fired, up, site>>
    BY DEF CommitRates, Calendar
  <2> QED BY <2>1, <2>2, <2>3, <2>4, <2>5 DEF RateInv, TypeOK
<1>6. PlansSound' /\ SeenPlanned'
  BY DEF RateInv, TypeOK, PlansSound, SeenPlanned, Planning, Planned,
         CommitRates, Answer, Idle
<1>7. Numbered'
  BY <1>1, <1>2, <1>3, <1>4 DEF RateInv, Numbered, RateRow
<1>8. NeverInverted'
  <2>1. \A p \in plan : p.buy <= p.sell
    BY DEF RateInv, PlansSound, Planning, CommitRates
  <2> QED BY <2>1, <1>2, <1>3, <1>4 DEF RateInv, NeverInverted
<1>9. OneCurrentRate'
  <2> SUFFICES ASSUME NEW m \in Metals, {row \in daily' : row.metal = m} # {}
               PROVE  \E row \in {x \in daily' : x.metal = m} :
                        /\ CurrentOf(m)' = {row}
                        /\ \A older \in {x \in daily' : x.metal = m} :
                             older.tx <= row.tx
    BY DEF OneCurrentRate
  <2>1. CASE Planned(r, m)
    <3>1. PICK p \in plan : p.metal = m
      BY <2>1 DEF Planned
    <3> DEFINE fresh == [tx |-> writes + 1, metal |-> p.metal, sell |-> p.sell,
                         buy |-> p.buy, current |-> TRUE]
    <3>2. CurrentOf(m)' = {fresh} /\ fresh \in daily' /\ fresh.metal = m
      BY <1>4, <3>1, CommitCurrent DEF NewRows
    <3>3. \A older \in daily' : older.tx <= fresh.tx
      BY <1>1, <1>2, <1>3, <1>4 DEF RateInv, Numbered, RateRow
    <3> QED BY <3>2, <3>3
  <2>2. CASE ~Planned(r, m)
    BY <2>2, CommitCurrent DEF RateInv, OneCurrentRate
  <2> QED BY <2>1, <2>2
<1> QED BY <1>5, <1>6, <1>7, <1>8, <1>9 DEF RateInv

-----------------------------------------------------------------------------
(* Settings, fetches and the world.                                        *)

LEMMA PatchGlobalKeeps ==
  ASSUME RateInv, NEW r \in Requests, NEW m \in Metals,
         NEW pct \in Percents \union {discount}, NEW own \in Percents \union {-1},
         PatchGlobal(r, pct, m, own)
  PROVE  RateInv'
<1>1. pct \in 0..100 /\ own \in -1..100
  <2>1. Percents \subseteq 0..100 /\ discount \in 0..100
    BY RateAssumption DEF RateInv, TypeOK
  <2>2. CASE own = -1
    BY <2>1, <2>2
  <2>3. CASE own \in Percents
    BY <2>1, <2>3
  <2> QED BY <2>1, <2>2, <2>3
<1>2. TypeOK'
  BY <1>1 DEF RateInv, TypeOK, PatchGlobal, Submit, Calendar, Request,
              PatchRequest
<1> QED BY <1>2, QuietStep DEF RateInv, TypeOK, PatchGlobal, Submit, Planning

LEMMA PatchMetalKeeps ==
  ASSUME RateInv, NEW r \in Requests, PatchMetal(r)
  PROVE  RateInv'
<1>1. req[r] \in PatchRequest
  <2>1. req[r].op = "patch" /\ req[r] \in Request
    BY DEF RateInv, TypeOK, PatchMetal
  <2> QED BY <2>1 DEF Request, Idle, PlanRequest, WriteRequest, PatchRequest,
                      FetchRequest, FetchedRequest, RecordRequest
<1>2. TypeOK'
  BY <1>1 DEF RateInv, TypeOK, PatchMetal, Answer, Calendar, Request,
              PatchRequest
<1> QED BY <1>2, QuietStep
        DEF RateInv, TypeOK, PatchMetal, Answer, Planning, Idle

\* What a request of the fetch keeps in memory is of its type.
LEMMA FetchTypes ==
  ASSUME RateInv, NEW r \in Requests
  PROVE  /\ req[r].op = "fetch" => req[r] \in FetchRequest
         /\ req[r].op = "fetched" => req[r] \in FetchedRequest
         /\ req[r].op = "record" => req[r] \in RecordRequest
<1>1. req[r] \in Request
  BY DEF RateInv, TypeOK
<1> QED BY <1>1 DEF Request, Idle, PlanRequest, WriteRequest, PatchRequest,
                    FetchRequest, FetchedRequest, RecordRequest

LEMMA FetchingKeeps ==
  ASSUME RateInv, NEW r \in Requests, Fetching(r)
  PROVE  RateInv'
<1>1. CASE SiteAnswers(r)
  <2>1. req'[r] \in FetchedRequest
    BY <1>1, FetchTypes
       DEF RateInv, TypeOK, SiteAnswers, Proceed, FetchRequest, FetchedRequest
  <2>2. TypeOK'
    BY <1>1, <2>1 DEF RateInv, TypeOK, SiteAnswers, Proceed, Tables, Calendar,
                      Request
  <2> QED BY <1>1, <2>2, QuietStep
          DEF RateInv, TypeOK, SiteAnswers, Proceed, Planning, Tables
<1>2. CASE KeepSnapshot(r)
  <2>1. TypeOK'
    BY <1>2 DEF RateInv, TypeOK, KeepSnapshot, Answer, Tables, Calendar, Request
  <2> QED BY <1>2, <2>1, QuietStep
          DEF RateInv, TypeOK, KeepSnapshot, Answer, Planning, Tables, Idle
<1>3. CASE Evaluate(r)
  <2>1. req[r].got \in Fetched /\ req[r].by \in {"cron", "manual"}
    BY <1>3, FetchTypes DEF Evaluate, FetchedRequest
  <2>2. StatusOf(req[r].got) \in {"PENDING", "SUSPICIOUS", "FAILED"}
    BY DEF StatusOf
  <2>3. req'[r] \in RecordRequest
    BY <1>3, <2>1, <2>2 DEF RateInv, TypeOK, Evaluate, Proceed, RecordRequest,
                            SnapRow, Fetched
  <2>4. TypeOK'
    BY <1>3, <2>3 DEF RateInv, TypeOK, Evaluate, Proceed, Tables, Calendar,
                      Request
  <2> QED BY <1>3, <2>4, QuietStep
          DEF RateInv, TypeOK, Evaluate, Proceed, Planning, Tables
<1>4. CASE RecordSnapshot(r)
  <2>1. req[r].row \in SnapRow
    BY <1>4, FetchTypes DEF RecordSnapshot, RecordRequest
  <2>2. fetches + 1 \in Nat
    BY DEF RateInv, TypeOK
  <2>3. TypeOK'
    BY <1>4, <2>1, <2>2 DEF RateInv, TypeOK, RecordSnapshot, Answer, Calendar,
                            Request, SnapRow
  <2> QED BY <1>4, <2>3, QuietStep
          DEF RateInv, TypeOK, RecordSnapshot, Answer, Planning, Idle
<1> QED BY <1>1, <1>2, <1>3, <1>4 DEF Fetching

LEMMA FetchKeeps ==
  ASSUME RateInv, (\E r \in Requests : FetchByHand(r)) \/ CronFires
  PROVE  RateInv'
<1>1. PICK r \in Requests, by \in {"cron", "manual"} : Fetch(r, by)
  BY RateAssumption DEF FetchByHand, CronFires
<1>2. TypeOK'
  BY <1>1 DEF RateInv, TypeOK, FetchByHand, CronFires, Fetch, Submit, Tables,
              Calendar, Request, FetchRequest
<1> QED BY <1>1, <1>2, QuietStep
        DEF RateInv, TypeOK, Fetch, Submit, Planning, Tables

LEMMA AbortKeeps ==
  ASSUME RateInv, NEW r \in Requests, Abort(r)
  PROVE  RateInv'
<1>1. TypeOK'
  BY DEF RateInv, TypeOK, Abort, Answer, Tables, Calendar, Request
<1> QED BY <1>1, QuietStep
        DEF RateInv, TypeOK, Abort, Answer, Planning, Tables, Idle

LEMMA WorldKeeps ==
  ASSUME RateInv, World
  PROVE  RateInv'
<1>1. site' \in Fetched
  BY RateAssumption
     DEF RateInv, TypeOK, World, Publish, SiteFails, CronPasses, NextDay, Crash,
         Restart, Nothing, Fetched
<1>2. req' \in [Requests -> Request] /\ (req' = req \/ \A r \in Requests : req'[r] = Idle)
  BY DEF RateInv, TypeOK, World, Publish, SiteFails, CronPasses, NextDay, Crash,
         Restart, Request
<1>3. TypeOK'
  BY <1>1, <1>2 DEF RateInv, TypeOK, World, Publish, SiteFails, CronPasses,
                    NextDay, Crash, Restart, Tables
<1> QED BY <1>2, <1>3, QuietStep
        DEF World, Publish, SiteFails, CronPasses, NextDay, Crash, Restart,
            Tables, Planning, Idle

-----------------------------------------------------------------------------
(* The theorems.                                                           *)

LEMMA NextKeeps == RateInv /\ [Next]_vars => RateInv'
<1> SUFFICES ASSUME RateInv, [Next]_vars PROVE RateInv'
  OBVIOUS
<1>1. ASSUME NEW r \in Requests, Setting(r) PROVE RateInv'
  <2>1. Typed \subseteq Nat /\ \A s \in snaps : s.n \in Nat
    BY RateAssumption DEF RateInv, TypeOK, SnapRow
  <2>2. CASE \E s, b \in Typed : \/ \E m \in Metals : PlanSet(r, m, [sell |-> s, buy |-> b])
                                 \/ PlanGold(r, [sell |-> s, buy |-> b])
    BY <2>1, <2>2, PlanSetKeeps, PlanGoldKeeps
  <2>3. CASE \E n \in {0} \union {s.n : s \in snaps}, g, v \in Bases,
               all \in BOOLEAN, rows \in Overrides :
                 PlanConfirm(r, n, g, v, all, rows)
    BY <2>1, <2>3, PlanConfirmKeeps
  <2>4. CASE \E pct \in Percents \union {discount}, own \in Percents \union {-1},
               m \in Discounted : PatchGlobal(r, pct, m, own)
    BY <2>4, PatchGlobalKeeps, RateAssumption
  <2> QED BY <1>1, <2>2, <2>3, <2>4 DEF Setting
<1>2. ASSUME NEW r \in Requests, Committing(r) PROVE RateInv'
  BY <1>2, ExpireKeeps, CommitKeeps, PatchMetalKeeps, AbortKeeps DEF Committing
<1>3. CASE UNCHANGED vars
  <2>1. TypeOK'
    BY <1>3 DEF RateInv, TypeOK, vars
  <2> QED BY <1>3, <2>1, QuietStep DEF vars
<1> QED BY <1>1, <1>2, <1>3, FetchingKeeps, FetchKeeps, WorldKeeps DEF Next

\* RateInv holds of every reachable state, for all values of the constants.
THEOREM RateInvHolds == Spec => []RateInv
<1>1. Init => RateInv
  BY InitRateInv
<1>2. RateInv /\ [Next]_vars => RateInv'
  BY NextKeeps
<1> QED BY <1>1, <1>2, PTL DEF Spec

\* However the writers of rates interleave, a metal that was given a rate has
\* exactly one current rate, the newest.
THEOREM OneCurrentRateHolds == Spec => []OneCurrentRate
<1>1. RateInv => OneCurrentRate
  BY DEF RateInv
<1> QED BY <1>1, RateInvHolds, PTL

\* Scaling by purity and rounding never put the buy rate above the sell rate.
THEOREM NeverInvertedHolds == Spec => []NeverInverted
<1>1. RateInv => NeverInverted
  BY DEF RateInv
<1> QED BY <1>1, RateInvHolds, PTL

-----------------------------------------------------------------------------
(* Scheduled fetches.  A step writes one snapshot, confirms one, or leaves  *)
(* them alone.                                                              *)

\* The invariant of the snapshots and of what requests keep for them.
SnapInv == SnapsNumbered /\ RatesCount /\ OnlyCron /\ NothingRepeats /\ NoRepeatedFetch

\* A request that is not about to write a snapshot, and fetches as it did.
SameFetch(r) ==
  \/ req'[r] = req[r]
  \/ req'[r].op \notin {"fetch", "fetched", "record"}
  \/ /\ req'[r].op \in {"fetch", "fetched"}
     /\ req'[r].by = "cron" => r = Cron

\* Steps that leave the snapshots alone and write none.
LEMMA SnapsLeft ==
  ASSUME SnapInv, UNCHANGED <<snaps, fetches>>,
         \A r \in Requests : SameFetch(r)
  PROVE  SnapInv'
<1>1. SnapsNumbered' /\ NoRepeatedFetch'
  BY DEF SnapInv, SnapsNumbered, NoRepeatedFetch
<1>2. RatesCount'
  BY DEF SnapInv, RatesCount, SameFetch
<1>3. OnlyCron'
  BY DEF SnapInv, OnlyCron, SameFetch
<1>4. NothingRepeats'
  BY DEF SnapInv, NothingRepeats, SameFetch
<1>. QED
  BY <1>1, <1>2, <1>3, <1>4 DEF SnapInv

\* confirmRates changes what a snapshot is, not what it shows.
LEMMA SnapsConfirmed ==
  ASSUME RateInv, SnapInv, NEW r \in Requests, CommitRates(r)
  PROVE  SnapInv'
<1>1. PICK k, tx : snaps' = {IF s.n = k
                             THEN [s EXCEPT !.status = "CONFIRMED", !.consumed = tx]
                             ELSE s : s \in snaps}
  BY DEF CommitRates
<1>2. snaps \subseteq SnapRow /\ fetches' = fetches
  BY DEF RateInv, TypeOK, CommitRates
<1> DEFINE Mark(u) == IF u.n = k
                      THEN [u EXCEPT !.status = "CONFIRMED", !.consumed = tx]
                      ELSE u
<1>3. \A u \in snaps : /\ Mark(u).n = u.n /\ Mark(u).label = u.label
                       /\ Mark(u).gold = u.gold /\ Mark(u).silver = u.silver
                       /\ Mark(u).by = u.by
                       /\ Mark(u).status \in {u.status, "CONFIRMED"}
  <2>. SUFFICES ASSUME NEW u \in snaps, u \in SnapRow
                PROVE  /\ Mark(u).n = u.n /\ Mark(u).label = u.label
                       /\ Mark(u).gold = u.gold /\ Mark(u).silver = u.silver
                       /\ Mark(u).by = u.by
                       /\ Mark(u).status \in {u.status, "CONFIRMED"}
    BY <1>2
  <2>. QED
    BY DEF SnapRow
<1>4. \A q \in Requests : req'[q] = req[q] \/ req'[q] = Idle
  BY DEF RateInv, TypeOK, CommitRates, Answer
<1>10. snaps' = {Mark(u) : u \in snaps}
  BY <1>1
<1>. HIDE DEF Mark
<1>5. SnapsNumbered'
  <2>1. \A s \in snaps' : 1 <= s.n /\ s.n <= fetches'
    BY <1>2, <1>3, <1>10 DEF SnapInv, SnapsNumbered
  <2>2. ASSUME NEW s \in snaps', NEW t \in snaps', s.n = t.n PROVE s = t
    <3>1. PICK u \in snaps : s = Mark(u)
      BY <1>10
    <3>2. PICK v \in snaps : t = Mark(v)
      BY <1>10
    <3>3. u.n = v.n
      BY <1>3, <2>2, <3>1, <3>2
    <3>4. u = v
      BY <3>3 DEF SnapInv, SnapsNumbered
    <3>. QED
      BY <3>1, <3>2, <3>4
  <2>. QED
    BY <2>1, <2>2 DEF SnapsNumbered
<1>6. NoRepeatedFetch'
  <2>. SUFFICES ASSUME NEW s \in snaps', NEW t \in snaps', s.by = "cron", t.by = "cron",
                       t.n = s.n + 1, HasRates(s)
                PROVE  s.label # t.label \/ s.label = -1
    BY DEF NoRepeatedFetch, HasRates
  <2>1. PICK u \in snaps : s = Mark(u)
    BY <1>10
  <2>2. PICK v \in snaps : t = Mark(v)
    BY <1>10
  <2>3. /\ u.by = "cron" /\ v.by = "cron" /\ v.n = u.n + 1
        /\ u.gold # 0 \/ u.silver # 0
        /\ s.label = u.label /\ t.label = v.label
    BY <1>3, <2>1, <2>2 DEF HasRates
  <2>. QED
    BY <2>3 DEF SnapInv, NoRepeatedFetch
<1>7. RatesCount'
  <2>1. ASSUME NEW s \in snaps', HasRates(s) PROVE s.status # "FAILED"
    <3>1. PICK u \in snaps : s = Mark(u)
      BY <1>10
    <3>2. HasRates(u) /\ s.status \in {u.status, "CONFIRMED"}
      BY <1>3, <2>1, <3>1 DEF HasRates
    <3>. QED
      BY <3>2 DEF SnapInv, RatesCount
  <2>. QED
    BY <1>4, <2>1 DEF SnapInv, RatesCount, HasRates, Idle
<1>8. OnlyCron'
  BY <1>4 DEF SnapInv, OnlyCron, Idle
<1>9. NothingRepeats'
  <2>. SUFFICES ASSUME NEW q \in Requests, req'[q].op = "record",
                       req'[q].row.by = "cron", NEW s \in snaps', s.n = fetches'
                PROVE  ~Repeats(req'[q].row, s)
    BY DEF NothingRepeats, Repeats, HasRates
  <2>1. req'[q] = req[q]
    BY <1>4 DEF Idle
  <2>2. PICK u \in snaps : /\ s.n = u.n /\ s.label = u.label /\ s.gold = u.gold
                           /\ s.silver = u.silver /\ s.by = u.by
    BY <1>3, <1>10
  <2>3. ~Repeats(req[q].row, u)
    BY <1>2, <2>1, <2>2 DEF SnapInv, NothingRepeats
  <2>. QED
    BY <2>1, <2>2, <2>3 DEF Repeats, HasRates
<1>. QED
  BY <1>5, <1>6, <1>7, <1>8, <1>9 DEF SnapInv

\* runFetch compares with the last snapshot there is.
LEMMA EvaluatedSnaps ==
  ASSUME RateInv, SnapInv, NEW r \in Requests, Evaluate(r)
  PROVE  SnapInv'
<1>1. req[r] \in FetchedRequest /\ UNCHANGED <<snaps, fetches>>
  BY FetchTypes DEF Evaluate, Tables
<1>2. PICK row : /\ row = [n |-> 0, label |-> req[r].got.label,
                           gold |-> req[r].got.gold, silver |-> req[r].got.silver,
                           status |-> StatusOf(req[r].got), by |-> req[r].by,
                           consumed |-> 0]
                 /\ req' = [req EXCEPT ![r] = [op |-> "record", row |-> row]]
  BY DEF Evaluate, Proceed
<1>3. /\ row.label = req[r].got.label /\ row.gold = req[r].got.gold
      /\ row.silver = req[r].got.silver /\ row.by = req[r].by
      /\ row.status = StatusOf(req[r].got)
  BY <1>2
<1>4. /\ req'[r].op = "record" /\ req'[r].row = row
      /\ \A q \in Requests \ {r} : req'[q] = req[q]
  BY <1>2 DEF RateInv, TypeOK
<1>5. SnapsNumbered' /\ NoRepeatedFetch'
  BY <1>1 DEF SnapInv, SnapsNumbered, NoRepeatedFetch
<1>6. RatesCount'
  <2>1. HasRates(row) => row.status # "FAILED"
    BY <1>3 DEF StatusOf, HasRates
  <2>. QED
    BY <1>1, <1>4, <2>1 DEF SnapInv, RatesCount, HasRates
<1>7. OnlyCron'
  <2>1. row.by = "cron" => r = Cron
    BY <1>1, <1>3 DEF SnapInv, OnlyCron, Evaluate
  <2>. QED
    BY <1>4, <2>1 DEF SnapInv, OnlyCron
<1>8. ASSUME row.by = "cron", NEW s \in snaps, s.n = fetches
      PROVE  ~Repeats(row, s)
  <2>. SUFFICES ASSUME Repeats(row, s) PROVE FALSE
    OBVIOUS
  <2>1. s.status # "FAILED"
    BY DEF Repeats, SnapInv, RatesCount
  <2>2. Newest(snaps) = s
    <3>1. snaps \subseteq SnapRow /\ fetches \in Nat
      BY DEF RateInv, TypeOK
    <3>2. \A t \in snaps : t.n \in Nat /\ t.n <= s.n
      BY <1>8, <3>1 DEF SnapInv, SnapsNumbered, SnapRow
    <3>3. \A u \in snaps : (\A t \in snaps : t.n <= u.n) => u = s
      <4>. SUFFICES ASSUME NEW u \in snaps, \A t \in snaps : t.n <= u.n
                    PROVE  u = s
        OBVIOUS
      <4>1. u.n = s.n
        BY <3>2
      <4>. QED
        BY <4>1 DEF SnapInv, SnapsNumbered
    <3>. QED
      BY <3>2, <3>3 DEF Newest
  <2>3. Unchanged(r)
    BY <1>3, <1>8, <2>1, <2>2 DEF Unchanged, Repeats
  <2>. QED
    BY <2>3 DEF Evaluate
<1>9. NothingRepeats'
  <2>. SUFFICES ASSUME NEW q \in Requests, req'[q].op = "record",
                       req'[q].row.by = "cron", NEW s \in snaps, s.n = fetches
                PROVE  ~Repeats(req'[q].row, s)
    BY <1>1 DEF NothingRepeats, Repeats, HasRates
  <2>. QED
    BY <1>4, <1>8 DEF SnapInv, NothingRepeats
<1>. QED
  BY <1>5, <1>6, <1>7, <1>9 DEF SnapInv

\* The snapshot is written: the scheduler's if nobody wrote one since.
LEMMA RecordedSnaps ==
  ASSUME RateInv, SnapInv, NEW r \in Requests, RecordSnapshot(r)
  PROVE  SnapInv'
<1>1. req[r] \in RecordRequest /\ req[r].op = "record" /\ req[r].row \in SnapRow
  BY FetchTypes DEF RecordSnapshot, RecordRequest
<1>2. PICK new : new = [req[r].row EXCEPT !.n = fetches + 1]
  OBVIOUS
<1>3. /\ snaps' = snaps \union {new} /\ fetches' = fetches + 1
      /\ req' = [req EXCEPT ![r] = Idle]
  BY <1>2 DEF RecordSnapshot, Answer
<1>4. /\ new.n = fetches + 1 /\ new.label = req[r].row.label
      /\ new.gold = req[r].row.gold /\ new.silver = req[r].row.silver
      /\ new.by = req[r].row.by /\ new.status = req[r].row.status
  BY <1>1, <1>2 DEF SnapRow
<1>5. /\ fetches \in Nat
      /\ \A s \in snaps : s.n \in Nat /\ 1 <= s.n /\ s.n <= fetches
  BY DEF RateInv, TypeOK, SnapRow, SnapInv, SnapsNumbered
<1>6. \A q \in Requests : req'[q] = req[q] \/ req'[q] = Idle
  BY <1>3 DEF RateInv, TypeOK
<1>7. req'[r] = Idle
  BY <1>3 DEF RateInv, TypeOK
<1>8. SnapsNumbered'
  BY <1>3, <1>4, <1>5 DEF SnapInv, SnapsNumbered
<1>9. RatesCount'
  <2>1. HasRates(new) => new.status # "FAILED"
    BY <1>1, <1>4 DEF SnapInv, RatesCount, HasRates
  <2>. QED
    BY <1>3, <1>6, <2>1 DEF SnapInv, RatesCount, HasRates, Idle
<1>10. OnlyCron'
  BY <1>6 DEF SnapInv, OnlyCron, Idle
<1>11. NothingRepeats'
  <2>. SUFFICES ASSUME NEW q \in Requests, req'[q].op = "record",
                       req'[q].row.by = "cron", NEW s \in snaps', s.n = fetches'
                PROVE  ~Repeats(req'[q].row, s)
    BY DEF NothingRepeats, Repeats, HasRates
  <2>1. req'[q] = req[q] /\ q # r
    BY <1>6, <1>7 DEF Idle
  <2>2. s = new
    BY <1>3, <1>5
  <2>3. q = Cron
    BY <2>1 DEF SnapInv, OnlyCron
  <2>4. new.by = "cron" => r = Cron
    BY <1>1, <1>4 DEF SnapInv, OnlyCron
  <2>. QED
    BY <2>1, <2>2, <2>3, <2>4 DEF Repeats
<1>12. NoRepeatedFetch'
  <2>. SUFFICES ASSUME NEW s \in snaps', NEW t \in snaps', s.by = "cron", t.by = "cron",
                       t.n = s.n + 1, HasRates(s)
                PROVE  s.label # t.label \/ s.label = -1
    BY DEF NoRepeatedFetch, HasRates
  <2>1. CASE t \in snaps
    <3>1. s \in snaps
      BY <1>3, <1>4, <1>5, <2>1
    <3>. QED
      BY <2>1, <3>1 DEF SnapInv, NoRepeatedFetch, HasRates
  <2>2. CASE t = new
    <3>1. s \in snaps /\ s.n = fetches
      BY <1>3, <1>4, <1>5, <2>2
    <3>2. ~Repeats(req[r].row, s)
      BY <1>1, <1>4, <2>2, <3>1 DEF SnapInv, NothingRepeats
    <3>. QED
      BY <1>4, <2>2, <3>2 DEF Repeats
  <2>. QED
    BY <1>3, <2>1, <2>2
<1>. QED
  BY <1>8, <1>9, <1>10, <1>11, <1>12 DEF SnapInv

LEMMA SnapStep ==
  ASSUME RateInv, SnapInv, [Next]_vars
  PROVE  SnapInv'
<1>0. req \in [Requests -> Request]
  BY DEF RateInv, TypeOK
<1>1. ASSUME NEW r \in Requests, Setting(r) PROVE SnapInv'
  <2>1. UNCHANGED <<snaps, fetches>>
    BY <1>1 DEF Setting, PlanSet, PlanGold, PlanConfirm, Plan, PatchGlobal, Tables
  <2>. DEFINE Aside == /\ req'[r].op \in {"plan", "patch"}
                       /\ \A s \in Requests \ {r} : req'[s] = req[s]
  <2>2. Aside
    <3>1. ASSUME NEW plan, NEW snap, Plan(r, plan, snap)
          PROVE  Aside
      BY <1>0, <3>1 DEF Plan, Submit
    <3>2. ASSUME NEW pct, NEW m, NEW own, PatchGlobal(r, pct, m, own)
          PROVE  Aside
      BY <1>0, <3>2 DEF PatchGlobal, Submit
    <3>. QED
      BY <1>1, <3>1, <3>2 DEF Setting, PlanSet, PlanGold, PlanConfirm
  <2>3. \A s \in Requests : SameFetch(s)
    BY <1>0, <2>2 DEF SameFetch
  <2>. QED
    BY <2>1, <2>3, SnapsLeft
<1>2. ASSUME NEW r \in Requests, (Fetch(r, "cron") /\ r = Cron) \/ Fetch(r, "manual")
      PROVE  SnapInv'
  <2>1. UNCHANGED <<snaps, fetches>>
    BY <1>2 DEF Fetch, Tables
  <2>2. PICK q : /\ q.op = "fetch" /\ (q.by = "cron" => r = Cron)
                 /\ req' = [req EXCEPT ![r] = q]
    BY <1>2 DEF Fetch, Submit
  <2>3. \A s \in Requests : SameFetch(s)
    BY <1>0, <2>2 DEF SameFetch
  <2>. QED
    BY <2>1, <2>3, SnapsLeft
<1>3. ASSUME NEW r \in Requests, Expire(r) PROVE SnapInv'
  <2>1. UNCHANGED <<snaps, fetches>>
    BY <1>3 DEF Expire, Tables
  <2>2. PICK q : q.op = "write" /\ req' = [req EXCEPT ![r] = q]
    BY <1>3 DEF Expire, Proceed
  <2>3. \A s \in Requests : SameFetch(s)
    BY <1>0, <2>2 DEF SameFetch
  <2>. QED
    BY <2>1, <2>3, SnapsLeft
<1>4. ASSUME NEW r \in Requests, PatchMetal(r) \/ Abort(r) \/ KeepSnapshot(r)
      PROVE  SnapInv'
  <2>1. UNCHANGED <<snaps, fetches>> /\ Answer(r)
    BY <1>4 DEF PatchMetal, Abort, KeepSnapshot, Tables
  <2>2. \A s \in Requests : SameFetch(s)
    BY <1>0, <2>1 DEF SameFetch, Answer, Idle
  <2>. QED
    BY <2>1, <2>2, SnapsLeft
<1>5. ASSUME NEW r \in Requests, SiteAnswers(r) PROVE SnapInv'
  <2>1. UNCHANGED <<snaps, fetches>> /\ req[r].op = "fetch"
    BY <1>5 DEF SiteAnswers, Tables
  <2>2. PICK q : /\ q.op = "fetched" /\ q.by = req[r].by
                 /\ req' = [req EXCEPT ![r] = q]
    BY <1>5 DEF SiteAnswers, Proceed
  <2>3. q.by = "cron" => r = Cron
    BY <2>1, <2>2 DEF SnapInv, OnlyCron
  <2>4. \A s \in Requests : SameFetch(s)
    BY <1>0, <2>2, <2>3 DEF SameFetch
  <2>. QED
    BY <2>1, <2>4, SnapsLeft
<1>6. CASE World
  <2>1. UNCHANGED <<snaps, fetches>>
    BY <1>6 DEF World, Publish, SiteFails, CronPasses, NextDay, Crash, Restart, Tables
  <2>2. req' = req \/ \A r \in Requests : req'[r] = Idle
    BY <1>6 DEF World, Publish, SiteFails, CronPasses, NextDay, Crash, Restart
  <2>3. \A s \in Requests : SameFetch(s)
    BY <2>2 DEF SameFetch, Idle
  <2>. QED
    BY <2>1, <2>3, SnapsLeft
<1>7. CASE UNCHANGED vars
  <2>1. \A s \in Requests : SameFetch(s)
    BY <1>7 DEF vars, SameFetch
  <2>. QED
    BY <1>7, <2>1, SnapsLeft DEF vars
<1>8. ASSUME NEW r \in Requests, Committing(r) \/ Fetching(r) PROVE SnapInv'
  BY <1>3, <1>4, <1>5, <1>8, SnapsConfirmed, EvaluatedSnaps, RecordedSnaps
     DEF Committing, Fetching
<1>9. CronFires \/ (\E r \in Requests : FetchByHand(r)) => SnapInv'
  BY <1>2, RateAssumption DEF CronFires, FetchByHand
<1>. QED
  BY <1>1, <1>6, <1>7, <1>8, <1>9 DEF Next

\* RateInv and what the scheduler relies on hold of every reachable state.
THEOREM FetchInvHolds == Spec => []FetchInv
<1>1. Init => SnapInv
  BY DEF Init, SnapInv, SnapsNumbered, RatesCount, OnlyCron, NothingRepeats,
     NoRepeatedFetch, Idle
<1>2. Init => RateInv
  BY InitRateInv
<1>3. RateInv /\ SnapInv /\ [Next]_vars => (RateInv /\ SnapInv)'
  BY NextKeeps, SnapStep
<1>4. RateInv /\ SnapInv => FetchInv
  BY DEF SnapInv, FetchInv
<1>. QED
  BY <1>1, <1>2, <1>3, <1>4, PTL DEF Spec

\* Whoever else fetches, confirms or sets rates, and however often the server
\* stops: the scheduler does not write the same date twice in a row.
THEOREM NoRepeatedFetchHolds == Spec => []NoRepeatedFetch
<1>1. FetchInv => NoRepeatedFetch
  BY DEF FetchInv
<1>. QED
  BY <1>1, FetchInvHolds, PTL

-----------------------------------------------------------------------------
(* The writers implement RateBook.                                         *)

LEMMA PriceInOne ==
  ASSUME NEW row
  PROVE  PriceIn({row}) = [by |-> row.tx, sell |-> row.sell, buy |-> row.buy]
<1>1. {row} # {} /\ (CHOOSE x \in {row} : TRUE) = row
  OBVIOUS
<1>. QED
  BY <1>1 DEF PriceIn

LEMMA InitPlansNamed == Init => PlansNamed
BY DEF Init, PlansNamed, Planning, Idle

\* Snapshots are never removed, so what a plan names stays there.
LEMMA PlansStayNamed ==
  ASSUME PlansNamed, {s.n : s \in snaps} \subseteq {s.n : s \in snaps}',
         \A r \in Requests :
           \/ ~Planning(r)'
           \/ Planning(r) /\ req'[r].plan = req[r].plan /\ req'[r].snap = req[r].snap
           \/ PlanOf(req'[r])
  PROVE  PlansNamed'
<1>. SUFFICES ASSUME NEW r \in Requests, Planning(r)' PROVE PlanOf(req[r])'
  BY DEF PlansNamed
<1>1. CASE PlanOf(req'[r])
  BY <1>1 DEF PlanOf, ConfirmedSets
<1>2. CASE Planning(r) /\ req'[r].plan = req[r].plan /\ req'[r].snap = req[r].snap
  BY <1>2 DEF PlansNamed, PlanOf, ConfirmedSets
<1>. QED
  BY <1>1, <1>2

\* The metals of a plan, whoever makes it.
LEMMA PlansMade ==
  ASSUME RateInv, NEW r \in Requests, Setting(r)
  PROVE  /\ \A q \in Requests \ {r} : req'[q] = req[q]
         /\ ~Planning(r)' \/ PlanOf(req'[r])
         /\ UNCHANGED <<daily, writes, snaps, fetches>>
<1>0. req \in [Requests -> Request]
  BY DEF RateInv, TypeOK
<1>1. ASSUME NEW plan, NEW snap, Plan(r, plan, snap)
      PROVE  /\ \A q \in Requests \ {r} : req'[q] = req[q]
             /\ req'[r] = [op |-> "plan", plan |-> plan, snap |-> snap]
             /\ UNCHANGED <<daily, writes, snaps, fetches>>
  BY <1>0, <1>1 DEF Plan, Submit, Tables
<1>2. ASSUME NEW m \in Metals, NEW p, PlanSet(r, m, p)
      PROVE  PlanOf(req'[r]) /\ Plan(r, req'[r].plan, req'[r].snap)
  <2>. DEFINE plan == {[metal |-> m, sell |-> RoundRate(p.sell), buy |-> RoundRate(p.buy)]}
  <2>1. Plan(r, plan, 0)
    BY <1>2 DEF PlanSet
  <2>3. {q.metal : q \in plan} = {m}
    OBVIOUS
  <2>. HIDE DEF plan
  <2>2. req'[r].plan = plan /\ req'[r].snap = 0
    BY <1>0, <2>1 DEF Plan, Submit
  <2>. QED
    BY <2>1, <2>2, <2>3 DEF PlanOf
<1>3. ASSUME NEW p, PlanGold(r, p)
      PROVE  PlanOf(req'[r]) /\ Plan(r, req'[r].plan, req'[r].snap)
  <2>. DEFINE plan == {[metal |-> m, sell |-> Derive(p.sell, m),
                        buy |-> Derive(p.buy, m)] : m \in Gold}
  <2>1. Plan(r, plan, 0)
    BY <1>3 DEF PlanGold
  <2>4. /\ \A q \in plan : q.metal \in Gold
        /\ \A m \in Gold : \E q \in plan : q.metal = m
    <3>1. ASSUME NEW m \in Gold PROVE \E q \in plan : q.metal = m
      <4>. WITNESS [metal |-> m, sell |-> Derive(p.sell, m), buy |-> Derive(p.buy, m)] \in plan
      <4>. QED
        OBVIOUS
    <3>. QED
      BY <3>1
  <2>. HIDE DEF plan
  <2>3. {q.metal : q \in plan} = Gold
    BY <2>4
  <2>2. req'[r].plan = plan /\ req'[r].snap = 0
    BY <1>0, <2>1 DEF Plan, Submit
  <2>. QED
    BY <2>1, <2>2, <2>3 DEF PlanOf
<1>4. ASSUME NEW n, NEW g, NEW v, NEW all \in BOOLEAN, NEW rows, PlanConfirm(r, n, g, v, all, rows)
      PROVE  PlanOf(req'[r]) /\ Plan(r, req'[r].plan, req'[r].snap)
  <2>. DEFINE ms     == (IF all THEN Gold ELSE {Fine}) \union {Silver}
              priced == [m \in ms |-> Priced(m, Proposed(m, g, v), rows)]
              plan   == {[metal |-> m, sell |-> RoundRate(priced[m].sell),
                          buy |-> RoundRate(priced[m].buy)] : m \in ms}
  <2>1. Plan(r, plan, n) /\ (n = 0 \/ \E s \in snaps : s.n = n)
    BY <1>4 DEF PlanConfirm
  <2>2. ms \in ConfirmedSets
    BY DEF ConfirmedSets
  <2>5. /\ \A q \in plan : q.metal \in ms
        /\ \A m \in ms : \E q \in plan : q.metal = m
    <3>. HIDE DEF priced, ms
    <3>1. ASSUME NEW m \in ms PROVE \E q \in plan : q.metal = m
      <4>. WITNESS [metal |-> m, sell |-> RoundRate(priced[m].sell),
                    buy |-> RoundRate(priced[m].buy)] \in plan
      <4>. QED
        OBVIOUS
    <3>. QED
      BY <3>1
  <2>. HIDE DEF plan, ms
  <2>3. {q.metal : q \in plan} = ms
    BY <2>5
  <2>4. req'[r].plan = plan /\ req'[r].snap = n
    BY <1>0, <2>1 DEF Plan, Submit
  <2>. QED
    BY <2>1, <2>2, <2>3, <2>4 DEF PlanOf
<1>5. ASSUME NEW pct, NEW m, NEW own, PatchGlobal(r, pct, m, own)
      PROVE  /\ \A q \in Requests \ {r} : req'[q] = req[q]
             /\ ~Planning(r)'
             /\ UNCHANGED <<daily, writes, snaps, fetches>>
  BY <1>0, <1>5 DEF PatchGlobal, Submit, Planning
<1>. QED
  BY <1>1, <1>2, <1>3, <1>4, <1>5 DEF Setting

LEMMA NamedStep ==
  ASSUME RateInv, SnapInv, PlansNamed, [Next]_vars
  PROVE  PlansNamed'
<1>0. req \in [Requests -> Request]
  BY DEF RateInv, TypeOK
<1>1. ASSUME NEW r \in Requests, Setting(r) PROVE PlansNamed'
  <2>1. /\ \A q \in Requests \ {r} : req'[q] = req[q]
        /\ ~Planning(r)' \/ PlanOf(req'[r])
        /\ snaps' = snaps
    BY <1>1, PlansMade
  <2>2. \A q \in Requests \ {r} :
          \/ ~Planning(q)'
          \/ Planning(q) /\ req'[q].plan = req[q].plan /\ req'[q].snap = req[q].snap
    BY <2>1 DEF Planning
  <2>. QED
    BY <2>1, <2>2, PlansStayNamed
<1>2. ASSUME NEW r \in Requests, Expire(r) PROVE PlansNamed'
  <2>1. /\ snaps' = snaps /\ Planning(r)
        /\ req'[r].plan = req[r].plan /\ req'[r].snap = req[r].snap
        /\ \A q \in Requests \ {r} : req'[q] = req[q]
    BY <1>0, <1>2 DEF Expire, Proceed, Tables, Planning
  <2>. QED
    BY <2>1, PlansStayNamed DEF Planning
<1>3. ASSUME NEW r \in Requests, CommitRates(r) PROVE PlansNamed'
  <2>1. \A q \in Requests : req'[q] = req[q] \/ req'[q] = Idle
    BY <1>0, <1>3 DEF CommitRates, Answer
  <2>2. ASSUME NEW s \in snaps PROVE \E t \in snaps' : t.n = s.n
    <3>. DEFINE t == IF s.n = req[r].snap
                     THEN [s EXCEPT !.status = "CONFIRMED", !.consumed = writes + 1]
                     ELSE s
    <3>1. t \in snaps'
      BY <1>3 DEF CommitRates
    <3>2. s \in SnapRow
      BY DEF RateInv, TypeOK
    <3>3. t.n = s.n
      BY <3>2 DEF SnapRow
    <3>. QED
      BY <3>1, <3>3
  <2>. QED
    BY <2>1, <2>2, PlansStayNamed DEF Planning, Idle
<1>4. ASSUME NEW r \in Requests, RecordSnapshot(r) PROVE PlansNamed'
  <2>1. \A q \in Requests : req'[q] = req[q] \/ req'[q] = Idle
    BY <1>0, <1>4 DEF RecordSnapshot, Answer
  <2>2. snaps \subseteq snaps'
    BY <1>4 DEF RecordSnapshot
  <2>. QED
    BY <2>1, <2>2, PlansStayNamed DEF Planning, Idle
<1>5. ASSUME snaps' = snaps,
             \A q \in Requests : req'[q] = req[q] \/ req'[q].op \notin {"plan", "write"}
      PROVE  PlansNamed'
  BY <1>5, PlansStayNamed DEF Planning
<1>6. ASSUME NEW r \in Requests, PatchMetal(r) \/ Abort(r) \/ KeepSnapshot(r)
      PROVE  PlansNamed'
  BY <1>0, <1>5, <1>6 DEF PatchMetal, Abort, KeepSnapshot, Answer, Tables, Idle
<1>7. ASSUME NEW r \in Requests, SiteAnswers(r) \/ Evaluate(r) PROVE PlansNamed'
  BY <1>0, <1>5, <1>7 DEF SiteAnswers, Evaluate, Proceed, Tables
<1>8. ASSUME NEW r \in Requests, NEW by, Fetch(r, by) PROVE PlansNamed'
  BY <1>0, <1>5, <1>8 DEF Fetch, Submit, Tables
<1>9. World \/ UNCHANGED vars => PlansNamed'
  BY <1>5 DEF World, Publish, SiteFails, CronPasses, NextDay, Crash, Restart,
              Tables, Idle, vars
<1>. QED
  BY <1>1, <1>2, <1>3, <1>4, <1>6, <1>7, <1>8, <1>9, RateAssumption
     DEF Next, Committing, Fetching, FetchByHand, CronFires

\* A step that commits nothing and records nothing leaves the book alone.
LEMMA BookLeft ==
  ASSUME UNCHANGED <<daily, writes, snaps, fetches>>
  PROVE  UNCHANGED Book!bookVars
BY DEF Book!bookVars, PriceOf, CurrentOf, CurrentRows

\* The inserts of a transaction are one write of the book.
LEMMA CommitIsWrite ==
  ASSUME RateInv, SnapInv, PlansNamed, NEW r \in Requests, CommitRates(r)
  PROVE  Book!Next
<1>. DEFINE n  == req[r].snap
            ms == {p.metal : p \in req[r].plan}
<1>1. req[r] \in WriteRequest /\ ms \subseteq Metals
  <2>1. req[r] \in WriteRequest
    BY CommitCurrent
  <2>. QED
    BY <2>1 DEF WriteRequest, PlanRow
<1>2. ASSUME NEW m \in ms
      PROVE  PriceOf(m)'.by = writes + 1 /\ PriceOf(m)'.buy <= PriceOf(m)'.sell
  <2>1. PICK p \in req[r].plan : p.metal = m
    OBVIOUS
  <2>. DEFINE row == [tx |-> writes + 1, metal |-> p.metal, sell |-> p.sell,
                      buy |-> p.buy, current |-> TRUE]
  <2>2. CurrentOf(m)' = {row} /\ p.buy <= p.sell
    BY <2>1, CommitCurrent
  <2>3. PriceOf(m)' = PriceIn({row})
    BY <2>2 DEF PriceOf, PriceIn
  <2>4. PriceOf(m)' = [by |-> writes + 1, sell |-> p.sell, buy |-> p.buy]
    BY <2>3, PriceInOne
  <2>. QED
    BY <2>2, <2>4
<1>3. ASSUME NEW m \in Metals \ ms PROVE PriceOf(m)' = PriceOf(m)
  <2>1. ~Planned(r, m)
    BY DEF Planned
  <2>2. CurrentOf(m)' = CurrentOf(m)
    BY <2>1, CommitCurrent
  <2>. QED
    BY <2>2 DEF PriceOf
<1>4. writes' = writes + 1 /\ fetches' = fetches
  BY DEF CommitRates
<1>5. Book!Reprice(ms)
  BY <1>1, <1>2, <1>3, <1>4 DEF Book!Reprice
<1>. DEFINE Offer(s) == [n |-> s.n, by |-> s.consumed]
            Mark(s) == IF s.n = n
                       THEN [s EXCEPT !.status = "CONFIRMED", !.consumed = writes + 1]
                       ELSE s
            Marked(o) == IF o.n = n THEN [o EXCEPT !.by = writes + 1] ELSE o
<1>6. snaps' = {Mark(s) : s \in snaps}
  BY DEF CommitRates
<1>7. \A s \in snaps : /\ Offer(Mark(s)) = Marked(Offer(s))
                       /\ s.n # n => Offer(Mark(s)) = Offer(s)
  <2>1. snaps \subseteq SnapRow
    BY DEF RateInv, TypeOK
  <2>. QED
    BY <2>1 DEF SnapRow
<1>8. \A s \in snaps : s.n # 0 /\ s.n \in 0..fetches
  BY DEF SnapInv, SnapsNumbered, RateInv, TypeOK, SnapRow
<1>9. PlanOf(req[r])
  BY DEF PlansNamed, Planning, CommitRates
<1>10. {Offer(s) : s \in snaps'} = {Offer(Mark(s)) : s \in snaps}
  BY <1>6
<1>. HIDE DEF Mark
<1>11. ASSUME n = 0 PROVE {Offer(s) : s \in snaps'} = {Offer(s) : s \in snaps}
  <2>1. \A s \in snaps : Offer(Mark(s)) = Offer(s)
    BY <1>7, <1>8, <1>11
  <2>. HIDE DEF Offer
  <2>. QED
    BY <1>10, <2>1
<1>12. {Offer(s) : s \in snaps'} = {Marked(o) : o \in {Offer(s) : s \in snaps}}
  <2>. HIDE DEF Marked, Offer
  <2>. QED
    BY <1>7, <1>10
<1>13. CASE n = 0 /\ ms = Gold
  BY <1>4, <1>5, <1>11, <1>13 DEF Book!Next, Book!SetGold
<1>14. CASE n = 0 /\ \E m \in Metals : ms = {m}
  BY <1>4, <1>5, <1>11, <1>14 DEF Book!Next, Book!Set
<1>15. CASE ms \in ConfirmedSets /\ n \in {0} \union {s.n : s \in snaps}
  <2>1. PICK gold \in {Gold, {Fine}} : ms = gold \union {Silver}
    BY <1>15 DEF ConfirmedSets
  <2>5. n = 0 \/ \E s \in snaps : s.n = n
    BY <1>15
  <2>6. fetches \in Nat
    BY DEF RateInv, TypeOK
  <2>2. n \in 0..fetches
    BY <1>8, <2>5, <2>6
  <2>3. n = 0 \/ \E o \in {Offer(s) : s \in snaps} : o.n = n
    <3>1. \A s \in snaps : Offer(s).n = s.n /\ Offer(s) \in {Offer(t) : t \in snaps}
      OBVIOUS
    <3>. HIDE DEF Offer
    <3>. QED
      BY <2>5, <3>1
  <2>4. PICK k : k = n
    OBVIOUS
  <2>7. Book!Confirm(gold, k)
    BY <1>4, <1>5, <1>12, <2>1, <2>3, <2>4 DEF Book!Confirm
  <2>. QED
    BY <2>1, <2>2, <2>4, <2>7 DEF Book!Next
<1>. QED
  BY <1>9, <1>13, <1>14, <1>15 DEF PlanOf

LEMMA FreshStep ==
  ASSUME RateInv, OffersFresh, [Next]_vars
  PROVE  OffersFresh'
<1>0. req \in [Requests -> Request]
  BY DEF RateInv, TypeOK
<1>1. ASSUME \A q \in Requests : \/ req'[q] = req[q] \/ req'[q].op # "record"
                                 \/ req'[q].row.consumed = 0
      PROVE  OffersFresh'
  BY <1>1 DEF OffersFresh
<1>2. ASSUME NEW r \in Requests, Setting(r) PROVE OffersFresh'
  <2>1. ASSUME NEW plan, NEW snap, Plan(r, plan, snap) PROVE OffersFresh'
    BY <1>0, <1>1, <2>1 DEF Plan, Submit
  <2>2. ASSUME NEW pct, NEW m, NEW own, PatchGlobal(r, pct, m, own) PROVE OffersFresh'
    BY <1>0, <1>1, <2>2 DEF PatchGlobal, Submit
  <2>. QED
    BY <1>2, <2>1, <2>2 DEF Setting, PlanSet, PlanGold, PlanConfirm
<1>3. ASSUME NEW r \in Requests, Committing(r) PROVE OffersFresh'
  <2>1. CASE Expire(r)
    BY <1>0, <1>1, <2>1 DEF Expire, Proceed
  <2>2. CASE CommitRates(r) \/ PatchMetal(r) \/ Abort(r)
    <3>1. Answer(r)
      BY <2>2 DEF CommitRates, PatchMetal, Abort
    <3>. QED
      BY <1>0, <1>1, <3>1 DEF Answer, Idle
  <2>. QED
    BY <1>3, <2>1, <2>2 DEF Committing
<1>4. ASSUME NEW r \in Requests, Fetching(r) PROVE OffersFresh'
  BY <1>0, <1>1, <1>4 DEF Fetching, SiteAnswers, KeepSnapshot, Evaluate, RecordSnapshot,
                          Proceed, Answer, Idle
<1>5. ASSUME NEW r \in Requests, NEW by, Fetch(r, by) PROVE OffersFresh'
  BY <1>0, <1>1, <1>5 DEF Fetch, Submit
<1>6. World \/ UNCHANGED vars => OffersFresh'
  BY <1>1 DEF World, Publish, SiteFails, CronPasses, NextDay, Crash, Restart, Idle, vars
<1>. QED
  BY <1>2, <1>3, <1>4, <1>5, <1>6, RateAssumption DEF Next, FetchByHand, CronFires

LEMMA RecordIsRecord ==
  ASSUME RateInv, OffersFresh, NEW r \in Requests, RecordSnapshot(r)
  PROVE  Book!Record
<1>. DEFINE Offer(s) == [n |-> s.n, by |-> s.consumed]
            new == [req[r].row EXCEPT !.n = fetches + 1]
<1>1. req[r].row \in SnapRow /\ req[r].row.consumed = 0
  BY FetchTypes DEF RecordSnapshot, RecordRequest, OffersFresh
<1>2. Offer(new) = [n |-> fetches + 1, by |-> 0]
  BY <1>1 DEF SnapRow
<1>3. snaps' = snaps \union {new} /\ fetches' = fetches + 1
      /\ UNCHANGED <<daily, writes>>
  BY DEF RecordSnapshot
<1>. HIDE DEF new
<1>4. {Offer(s) : s \in snaps'} = {Offer(s) : s \in snaps} \union {Offer(new)}
  BY <1>3
<1>5. \A m : PriceOf(m)' = PriceOf(m)
  BY <1>3 DEF PriceOf, CurrentOf, CurrentRows
<1>. QED
  BY <1>2, <1>3, <1>4, <1>5 DEF Book!Record

LEMMA BookStep ==
  ASSUME RateInv, SnapInv, PlansNamed, OffersFresh, [Next]_vars
  PROVE  [Book!Next]_Book!bookVars
<1>1. ASSUME NEW r \in Requests, CommitRates(r) PROVE Book!Next
  BY <1>1, CommitIsWrite
<1>2. ASSUME NEW r \in Requests, RecordSnapshot(r) PROVE Book!Next
  BY <1>2, RecordIsRecord DEF Book!Next
<1>3. ASSUME UNCHANGED Tables \/ UNCHANGED <<daily, writes, snaps, fetches>>
      PROVE  UNCHANGED Book!bookVars
  BY <1>3, BookLeft DEF Tables
<1>4. ASSUME NEW r \in Requests, Setting(r) PROVE UNCHANGED Book!bookVars
  BY <1>3, <1>4, PlansMade
<1>5. ASSUME NEW r \in Requests, Expire(r) \/ PatchMetal(r) \/ Abort(r)
                                  \/ SiteAnswers(r) \/ KeepSnapshot(r) \/ Evaluate(r)
      PROVE  UNCHANGED Book!bookVars
  BY <1>3, <1>5 DEF Expire, PatchMetal, Abort, SiteAnswers, KeepSnapshot, Evaluate
<1>6. ASSUME NEW r, NEW by, Fetch(r, by) PROVE UNCHANGED Book!bookVars
  BY <1>3, <1>6 DEF Fetch
<1>7. World \/ UNCHANGED vars => UNCHANGED Book!bookVars
  BY <1>3 DEF World, Publish, SiteFails, CronPasses, NextDay, Crash, Restart, vars
<1>. QED
  BY <1>1, <1>2, <1>4, <1>5, <1>6, <1>7
     DEF Next, Committing, Fetching, FetchByHand, CronFires

\* Whoever writes rates, in whatever order their reads, expiries and inserts
\* come, and wherever a transaction is rolled back or the server stops: seen
\* from its current rates and its offers, the board is the one-step RateBook.
THEOREM HandlersImplementBook == Spec => ImplementsBook
<1>. DEFINE Inv == RateInv /\ SnapInv /\ PlansNamed /\ OffersFresh
<1>1. Init => Inv
  <2>1. Init => SnapInv
    BY DEF Init, SnapInv, SnapsNumbered, RatesCount, OnlyCron, NothingRepeats,
       NoRepeatedFetch, Idle
  <2>2. Init => OffersFresh
    BY DEF Init, OffersFresh, Idle
  <2>. QED
    BY <2>1, <2>2, InitRateInv, InitPlansNamed
<1>2. Inv /\ [Next]_vars => Inv'
  BY NextKeeps, SnapStep, NamedStep, FreshStep
<1>3. Init => Book!Init
  BY DEF Init, Book!Init, Book!Unpriced, PriceOf, PriceIn, CurrentOf, CurrentRows
<1>4. Inv /\ [Next]_vars => [Book!Next]_Book!bookVars
  BY BookStep
<1>. QED
  BY <1>1, <1>2, <1>3, <1>4, PTL DEF Spec, ImplementsBook, Book!Spec

-----------------------------------------------------------------------------
(* The provider reads every page as it was meant.                          *)

LEMMA FirstLeads ==
  ASSUME NEW rows, NEW found, NEW rate, Leads(rows, found, rate), found \subseteq Nat
  PROVE  FirstValue(rows, found) = rate
<1>1. PICK k \in found : rows[k].value = rate /\ \A l \in found : k <= l
  BY DEF Leads
<1>2. \A i \in found : (\A l \in found : i <= l) => i = k
  BY <1>1
<1>. QED
  BY <1>1, <1>2 DEF FirstValue

\* The row with the largest value is the first in the order.
LEMMA TopIsLargest ==
  ASSUME NEW D \in SUBSET Nat, NEW v \in [D -> Nat], NEW S \in SUBSET D, NEW k \in S,
         \A l \in S \ {k} : v[k] > v[l]
  PROVE  Top(v, S) = k
<1>1. \A l \in S \ {k} : Above(v, k, l) /\ ~Above(v, l, k)
  BY DEF Above
<1>2. \A i \in S : (\A l \in S \ {i} : Above(v, i, l)) => i = k
  BY <1>1
<1>. QED
  BY <1>1, <1>2 DEF Top

\* All the others come after the largest.
LEMMA BelowLargest ==
  ASSUME NEW D \in SUBSET Nat, NEW v \in [D -> Nat], NEW S \in SUBSET D, NEW k \in S,
         \A l \in S \ {k} : v[k] > v[l]
  PROVE  Below(v, S, k) = S \ {k}
<1>1. \A l \in S \ {k} : Above(v, k, l)
  BY DEF Above
<1>2. ~Above(v, k, k)
  BY DEF Above
<1>. QED
  BY <1>1, <1>2 DEF Below

LEMMA TellsAmong ==
  ASSUME NEW v, NEW D, NEW S \in SUBSET D
  PROVE  Telling(v, S) \subseteq S /\ Telling(v, S) \in SUBSET D
BY DEF Telling

\* A round of rows S starts from the largest of them, k, if that tells a rate.
LEMMA RoundFrom ==
  ASSUME NEW D \in SUBSET Nat, NEW v \in [D -> Nat], NEW S \in SUBSET D, NEW k \in S,
         \A l \in S \ {k} : v[k] > v[l],
         Mates(v, S, k) # {} \/ v[k] >= GoldTola
  PROVE  Round(v, S) = ReadRow(v, S, k)
<1>1. k \in Telling(v, S) /\ Telling(v, S) \subseteq S /\ Telling(v, S) \in SUBSET D
  <2>1. k \in Telling(v, S)
    BY DEF Telling
  <2>. QED
    BY <2>1, TellsAmong
<1>2. Top(v, Telling(v, S)) = k
  <2>1. \A l \in Telling(v, S) \ {k} : v[k] > v[l]
    BY <1>1
  <2>. QED
    BY <1>1, <2>1, TopIsLargest
<1>. QED
  BY <1>1, <1>2 DEF Round

\* A tola and its ten grams, and nothing else that could be either.
LEMMA RoundOfPair ==
  ASSUME NEW D \in SUBSET Nat, NEW v \in [D -> Nat], NEW S \in SUBSET D, NEW k \in S,
         \A l \in S \ {k} : v[k] > v[l],
         NEW m \in S \ {k}, TolaOf(v[k], v[m]),
         \A l \in S \ {k, m} : ~Paired(v[k], v[l])
  PROVE  Round(v, S) = [rate |-> v[m], left |-> S \ {k, m}]
<1>1. Below(v, S, k) = S \ {k}
  BY BelowLargest
<1>2. Mates(v, S, k) = {m}
  <2>1. Paired(v[k], v[m])
    BY DEF Paired
  <2>. QED
    BY <1>1, <2>1 DEF Mates
<1>3. Top(v, {m}) = m
  BY TopIsLargest
<1>4. TenGramOf(v[k], v[m]) = v[m]
  BY DEF TenGramOf
<1>5. Round(v, S) = ReadRow(v, S, k)
  <2>1. Mates(v, S, k) # {}
    BY <1>2
  <2>. QED
    BY <2>1, RoundFrom
<1>6. ReadRow(v, S, k) = [rate |-> v[m], left |-> (S \ {k}) \ {m}]
  BY <1>1, <1>2, <1>3, <1>4 DEF ReadRow
<1>7. (S \ {k}) \ {m} = S \ {k, m}
  OBVIOUS
<1>. QED
  BY <1>5, <1>6, <1>7

LEMMA NoMates ==
  ASSUME NEW v, NEW S, NEW k, \A l \in Below(v, S, k) : ~Paired(v[k], v[l])
  PROVE  Mates(v, S, k) = {}
BY DEF Mates

\* A large value alone.
LEMMA RoundOfLarge ==
  ASSUME NEW D \in SUBSET Nat, NEW v \in [D -> Nat], NEW S \in SUBSET D, NEW k \in S,
         \A l \in S \ {k} : v[k] > v[l],
         \A l \in S \ {k} : ~Paired(v[k], v[l]),
         v[k] >= GoldTola
  PROVE  Round(v, S) = [rate |-> PerTenGram(v[k]), left |-> S \ {k}]
<1>1. Below(v, S, k) = S \ {k}
  BY BelowLargest
<1>2. Mates(v, S, k) = {}
  <2>1. \A l \in Below(v, S, k) : ~Paired(v[k], v[l])
    BY <1>1
  <2>. QED
    BY <2>1, NoMates
<1>3. Round(v, S) = ReadRow(v, S, k)
  BY RoundFrom
<1>. QED
  BY <1>1, <1>2, <1>3 DEF ReadRow

\* In whatever order the values come, they are told apart.
LEMMA PairsTellRates ==
  ASSUME NEW D \in SUBSET Nat, NEW v \in [D -> Nat], NEW gold, NEW silver,
         ShowsValues(v, gold, silver)
  PROVE  PairedRates(v) = [gold |-> gold, silver |-> silver] /\ silver # 0
<1>1. PICK g \in D, s \in D, t \in D :
        /\ v[g] > v[t] /\ v[t] > v[s] /\ v[s] > 0
        /\ ~Paired(v[g], v[t]) /\ ~Paired(v[g], v[s])
        /\ TolaOf(v[t], v[s]) /\ v[s] = silver
        /\ \/ D = {g, t, s} /\ v[g] >= GoldTola /\ PerTenGram(v[g]) = gold
           \/ \E h \in D : /\ D = {g, h, t, s} /\ v[g] > v[h] /\ v[h] > v[t]
                          /\ TolaOf(v[g], v[h]) /\ v[h] = gold
  BY DEF ShowsValues
<1>2. Round(v, {t, s}) = [rate |-> silver, left |-> {}]
  <2>1. s # t /\ {t, s} \in SUBSET D /\ s \in {t, s} \ {t} /\ {t, s} \ {t, s} = {}
    BY <1>1
  <2>2. \A l \in {t, s} \ {t} : v[t] > v[l]
    BY <1>1
  <2>3. \A l \in {t, s} \ {t, s} : ~Paired(v[t], v[l])
    OBVIOUS
  <2>4. Round(v, {t, s}) = [rate |-> v[s], left |-> {t, s} \ {t, s}]
    <3>. DEFINE S == {t, s}
    <3>1. S \in SUBSET D /\ t \in S /\ s \in S \ {t}
      BY <2>1
    <3>2. TolaOf(v[t], v[s])
      BY <1>1
    <3>3. /\ \A l \in S \ {t} : v[t] > v[l]
          /\ \A l \in S \ {t, s} : ~Paired(v[t], v[l])
      BY <2>2, <2>3
    <3>. HIDE DEF S
    <3>4. Round(v, S) = [rate |-> v[s], left |-> S \ {t, s}]
      BY <3>1, <3>2, <3>3, RoundOfPair
    <3>. QED
      BY <3>4 DEF S
  <2>. QED
    BY <1>1, <2>1, <2>4
<1>3. Round(v, D) = [rate |-> gold, left |-> {t, s}]
  <2>1. CASE D = {g, t, s} /\ v[g] >= GoldTola /\ PerTenGram(v[g]) = gold
    <3>1. D \ {g} = {t, s}
      BY <1>1, <2>1
    <3>2. \A l \in D \ {g} : v[g] > v[l] /\ ~Paired(v[g], v[l])
      BY <1>1, <3>1
    <3>3. D \in SUBSET D /\ g \in D /\ v[g] >= GoldTola
      BY <2>1
    <3>4. Round(v, D) = [rate |-> PerTenGram(v[g]), left |-> D \ {g}]
      BY <3>2, <3>3, RoundOfLarge
    <3>. QED
      BY <2>1, <3>1, <3>4
  <2>2. ASSUME NEW h \in D, D = {g, h, t, s}, v[g] > v[h], v[h] > v[t],
               TolaOf(v[g], v[h]), v[h] = gold
        PROVE  Round(v, D) = [rate |-> gold, left |-> {t, s}]
    <3>1. h # g /\ D \ {g, h} = {t, s}
      BY <1>1, <2>2
    <3>2. \A l \in D \ {g} : v[g] > v[l]
      BY <1>1, <2>2
    <3>3. \A l \in D \ {g, h} : ~Paired(v[g], v[l])
      BY <1>1, <3>1
    <3>4. Round(v, D) = [rate |-> v[h], left |-> D \ {g, h}]
      <4>1. D \in SUBSET D /\ g \in D /\ h \in D \ {g} /\ TolaOf(v[g], v[h])
        BY <2>2, <3>1
      <4>. QED
        BY <3>2, <3>3, <4>1, RoundOfPair
    <3>. QED
      BY <2>2, <3>1, <3>4
  <2>. QED
    BY <1>1, <2>1, <2>2
<1>4. \A k \in D : v[k] > 0
  BY <1>1
<1>5. {k \in DOMAIN v : v[k] > 0} = D
  BY <1>4
<1>6. PairedRates(v) = [gold |-> gold, silver |-> silver]
  BY <1>2, <1>3, <1>5 DEF PairedRates
<1>. QED
  BY <1>1, <1>6

LEMMA NothingPerTenGram == PerTenGram(0) = 0
BY DEF PerTenGram, RoundDiv

LEMMA ReadsLabeled ==
  ASSUME NEW rows \in Seq(ApiRow), NEW metal, NEW rate, ShowsLabeled(rows, metal, rate)
  PROVE  PickLabeled(rows, metal) = rate
<1>. DEFINE tens == Labeled(rows, metal, "ten")
            tolas == Labeled(rows, metal, "tola")
<1>1. tens \subseteq Nat /\ tolas \subseteq Nat
  BY DEF Labeled
<1>2. CASE Leads(rows, tens, rate)
  <2>1. tens # {}
    BY <1>2 DEF Leads
  <2>2. FirstValue(rows, tens) = rate
    BY <1>1, <1>2, FirstLeads
  <2>. QED
    BY <2>1, <2>2 DEF PickLabeled
<1>3. ASSUME tens = {}, NEW k \in tolas, Leads(rows, tolas, rows[k].value),
             rate = PerTenGram(rows[k].value)
      PROVE  PickLabeled(rows, metal) = rate
  <2>1. FirstValue(rows, tolas) = rows[k].value
    BY <1>1, <1>3, FirstLeads
  <2>. QED
    BY <1>3, <2>1 DEF PickLabeled
<1>. QED
  BY <1>2, <1>3 DEF ShowsLabeled

LEMMA ReadsLabeledPage ==
  ASSUME NEW p \in Pages, LabeledPage(p)
  PROVE  TodayRates(p) = [gold |-> p.gold, silver |-> p.silver]
<1>1. /\ PickLabeled(p.api, "gold") = p.gold /\ PickLabeled(p.api, "silver") = p.silver
      /\ p.gold # 0
  BY ReadsLabeled, PagesAssumption DEF LabeledPage
<1>2. ParsedApi(p.api) = [gold |-> p.gold, silver |-> p.silver]
  BY <1>1 DEF ParsedApi
<1>. QED
  BY <1>1, <1>2 DEF TodayRates

\* Without a label nothing is read by labels.
LEMMA ReadsNoLabel ==
  ASSUME NEW rows, \A k \in DOMAIN rows : rows[k].metal = "none", NEW metal \in {"gold", "silver"}
  PROVE  PickLabeled(rows, metal) = 0
<1>1. Labeled(rows, metal, "ten") = {} /\ Labeled(rows, metal, "tola") = {}
  BY DEF Labeled
<1>. QED
  BY <1>1, NothingPerTenGram DEF PickLabeled, FirstValue

LEMMA ReadsBarePage ==
  ASSUME NEW p \in Pages, BarePage(p)
  PROVE  TodayRates(p) = [gold |-> p.gold, silver |-> p.silver]
<1>1. DOMAIN p.api \in SUBSET Nat /\ ValuesOf(p.api) \in [DOMAIN p.api -> Nat]
  <2>1. p.api \in Seq(ApiRow)
    BY PagesAssumption
  <2>2. DOMAIN p.api \in SUBSET Nat /\ \A k \in DOMAIN p.api : p.api[k] \in ApiRow
    BY <2>1
  <2>3. \A x \in ApiRow : x.value \in Nat
    BY DEF ApiRow
  <2>. QED
    BY <2>2, <2>3 DEF ValuesOf
<1>2. PairedRates(ValuesOf(p.api)) = [gold |-> p.gold, silver |-> p.silver] /\ p.silver # 0
  BY <1>1, PairsTellRates DEF BarePage
<1>3. PickLabeled(p.api, "gold") = 0 /\ PickLabeled(p.api, "silver") = 0
  BY ReadsNoLabel DEF BarePage
<1>4. ParsedApi(p.api) = [gold |-> p.gold, silver |-> p.silver]
  BY <1>2, <1>3 DEF ParsedApi
<1>. QED
  BY <1>2, <1>4 DEF TodayRates

LEMMA ReadsNothing ==
  ASSUME NEW rows, DOMAIN rows = {}
  PROVE  ParsedApi(rows).gold = 0 /\ ParsedApi(rows).silver = 0
<1>1. ParsedApi(rows) = PairedRates(ValuesOf(rows))
  <2>1. PickLabeled(rows, "gold") = 0 /\ PickLabeled(rows, "silver") = 0
    BY ReadsNoLabel
  <2>. QED
    BY <2>1 DEF ParsedApi
<1>2. \A v : Round(v, {}) = [rate |-> 0, left |-> {}]
  BY DEF Round, Telling
<1>. DEFINE v == ValuesOf(rows)
<1>3. {k \in DOMAIN v : v[k] > 0} = {}
  BY DEF ValuesOf
<1>. HIDE DEF v
<1>4. Round(v, {}).rate = 0 /\ Round(v, {}).left = {}
  BY <1>2
<1>5. PairedRates(v) = [gold |-> 0, silver |-> 0]
  BY <1>3, <1>4 DEF PairedRates
<1>. QED
  BY <1>1, <1>5 DEF v

LEMMA ReadsHomepage ==
  ASSUME NEW p \in Pages, Homepage(p)
  PROVE  TodayRates(p) = [gold |-> p.gold, silver |-> p.silver]
<1>1. ParsedApi(p.api).gold = 0 /\ ParsedApi(p.api).silver = 0
  BY ReadsNothing DEF Homepage
<1>2. ASSUME NEW label, NEW rate, HomepageShows(p.html, label, rate)
      PROVE  FirstValue(p.html, OnHomepage(p.html, label)) = rate
  <2>1. OnHomepage(p.html, label) \subseteq Nat
    BY PagesAssumption DEF OnHomepage
  <2>2. CASE Leads(p.html, OnHomepage(p.html, label), rate)
    BY <2>1, <2>2, FirstLeads
  <2>3. CASE OnHomepage(p.html, label) = {} /\ rate = 0
    BY <2>3 DEF FirstValue
  <2>. QED
    BY <1>2, <2>2, <2>3 DEF HomepageShows
<1>3. ParsedHtml(p.html) = [gold |-> p.gold, silver |-> p.silver]
  BY <1>2 DEF Homepage, ParsedHtml
<1>. QED
  BY <1>1, <1>3 DEF TodayRates, Homepage

LEMMA ReadsPages ==
  \A p \in Pages : TodayRates(p) = [gold |-> p.gold, silver |-> p.silver]
BY ReadsLabeledPage, ReadsBarePage, ReadsHomepage, PagesAssumption

LEMMA PublishedIsShown == \A x \in Published : Shown(x)
<1>. SUFFICES ASSUME NEW x \in Published PROVE Shown(x)
  OBVIOUS
<1>1. PICK p \in Pages : x = PerGram(TodayRates(p))
  BY PublishedAssumption
<1>2. x.gold = 10 * p.gold /\ x.silver = 10 * p.silver
  BY <1>1, ReadsPages DEF PerGram
<1>. QED
  BY <1>2 DEF Shown

\* A request that keeps what it had, or only what the site has shown.
KeepsShown(q) ==
  \/ req'[q] = req[q]
  \/ /\ req'[q].op = "fetched" => Shown(req'[q].got)
     /\ req'[q].op = "record" => Shown(req'[q].row)

LEMMA SourceLeft ==
  ASSUME SourceInv, \A s \in snaps' : Shown(s), site' = site \/ Shown(site'),
         \A q \in Requests : KeepsShown(q)
  PROVE  SourceInv'
<1>1. ReadAsPublished'
  BY DEF ReadAsPublished, Shown
<1>2. Shown(site)'
  BY DEF SourceInv, Shown
<1>3. ASSUME NEW q \in Requests
      PROVE  /\ req'[q].op = "fetched" => Shown(req'[q].got)
             /\ req'[q].op = "record" => Shown(req'[q].row)
  <2>1. CASE req'[q] = req[q]
    BY <2>1, Zenon DEF SourceInv
  <2>. QED
    BY <2>1, Zenon DEF KeepsShown
<1>. QED
  BY <1>1, <1>2, <1>3 DEF SourceInv, Shown

\* A step that writes no snapshot.
LEMMA SourceAside ==
  ASSUME SourceInv, UNCHANGED <<snaps, site>>, \A q \in Requests : KeepsShown(q)
  PROVE  SourceInv'
<1>1. \A s \in snaps' : Shown(s)
  BY DEF SourceInv, ReadAsPublished
<1>. QED
  BY <1>1, SourceLeft

LEMMA ShownNothing == Shown(Nothing)
BY DEF Shown, Nothing

\* What counts is the two rates.
LEMMA SameShown ==
  ASSUME NEW x, NEW y, Shown(x), y.gold = x.gold, y.silver = x.silver
  PROVE  Shown(y)
BY DEF Shown

\* A confirmation marks a snapshot and keeps its rates.
LEMMA MarkedShown ==
  ASSUME RateInv, SourceInv, NEW r \in Requests, CommitRates(r)
  PROVE  \A s \in snaps' : Shown(s)
<1>. SUFFICES ASSUME NEW s \in snaps' PROVE Shown(s)
  OBVIOUS
<1>1. PICK u \in snaps : \E k, tx :
        s = IF u.n = k THEN [u EXCEPT !.status = "CONFIRMED", !.consumed = tx] ELSE u
  BY DEF CommitRates
<1>2. u \in SnapRow /\ Shown(u)
  BY DEF RateInv, TypeOK, SourceInv, ReadAsPublished
<1>3. s.gold = u.gold /\ s.silver = u.silver
  BY <1>1, <1>2 DEF SnapRow
<1>. QED
  BY <1>2, <1>3, SameShown

LEMMA SourceStep ==
  ASSUME RateInv, SourceInv, [Next]_vars
  PROVE  SourceInv'
<1>0. req \in [Requests -> Request]
  BY DEF RateInv, TypeOK
<1>1. ASSUME NEW r \in Requests, NEW q, q.op \notin {"fetched", "record"},
             req' = [req EXCEPT ![r] = q]
      PROVE  \A t \in Requests : KeepsShown(t)
  BY <1>0, <1>1 DEF KeepsShown
<1>2. ASSUME NEW r \in Requests, Setting(r) PROVE SourceInv'
  <2>1. ASSUME NEW plan, NEW snap, Plan(r, plan, snap) PROVE SourceInv'
    <3>1. UNCHANGED <<snaps, site>>
      BY <2>1 DEF Plan, Tables, Calendar
    <3>2. PICK q : q.op = "plan" /\ req' = [req EXCEPT ![r] = q]
      BY <2>1 DEF Plan, Submit
    <3>. QED
      BY <1>1, <3>1, <3>2, SourceAside
  <2>2. ASSUME NEW pct, NEW m, NEW own, PatchGlobal(r, pct, m, own) PROVE SourceInv'
    <3>1. UNCHANGED <<snaps, site>>
      BY <2>2 DEF PatchGlobal, Calendar
    <3>2. PICK q : q.op = "patch" /\ req' = [req EXCEPT ![r] = q]
      BY <2>2 DEF PatchGlobal, Submit
    <3>. QED
      BY <1>1, <3>1, <3>2, SourceAside
  <2>. QED
    BY <1>2, <2>1, <2>2 DEF Setting, PlanSet, PlanGold, PlanConfirm
<1>3. ASSUME NEW r \in Requests, Answer(r) PROVE \A t \in Requests : KeepsShown(t)
  BY <1>1, <1>3 DEF Answer, Idle
<1>4. ASSUME NEW r \in Requests, Committing(r) PROVE SourceInv'
  <2>1. CASE Expire(r)
    <3>1. UNCHANGED <<snaps, site>>
      BY <2>1 DEF Expire, Tables, Calendar
    <3>2. PICK q : q.op = "write" /\ req' = [req EXCEPT ![r] = q]
      BY <2>1 DEF Expire, Proceed
    <3>. QED
      BY <1>1, <3>1, <3>2, SourceAside
  <2>2. CASE CommitRates(r)
    <3>1. Answer(r) /\ site' = site
      BY <2>2 DEF CommitRates, Calendar
    <3>. QED
      BY <1>3, <2>2, <3>1, MarkedShown, SourceLeft
  <2>3. CASE PatchMetal(r) \/ Abort(r)
    <3>1. Answer(r) /\ UNCHANGED <<snaps, site>>
      BY <2>3 DEF PatchMetal, Abort, Tables, Calendar
    <3>. QED
      BY <1>3, <3>1, SourceAside
  <2>. QED
    BY <1>4, <2>1, <2>2, <2>3 DEF Committing
<1>5. ASSUME NEW r \in Requests, Fetching(r) PROVE SourceInv'
  <2>1. CASE SiteAnswers(r)
    <3>1. UNCHANGED <<snaps, site>>
      BY <2>1 DEF SiteAnswers, Tables, Calendar
    <3>2. req'[r].op = "fetched" /\ req'[r].got = site
      BY <1>0, <2>1 DEF SiteAnswers, Proceed
    <3>3. \A t \in Requests \ {r} : req'[t] = req[t]
      BY <1>0, <2>1 DEF SiteAnswers, Proceed
    <3>4. \A t \in Requests : KeepsShown(t)
      BY <3>2, <3>3 DEF KeepsShown, SourceInv
    <3>. QED
      BY <3>1, <3>4, SourceAside
  <2>2. CASE KeepSnapshot(r)
    <3>1. Answer(r) /\ UNCHANGED <<snaps, site>>
      BY <2>2 DEF KeepSnapshot, Tables, Calendar
    <3>. QED
      BY <1>3, <3>1, SourceAside
  <2>3. CASE Evaluate(r)
    <3>1. UNCHANGED <<snaps, site>>
      BY <2>3 DEF Evaluate, Tables, Calendar
    <3>2. /\ req'[r].op = "record"
          /\ req'[r].row.gold = req[r].got.gold /\ req'[r].row.silver = req[r].got.silver
      BY <1>0, <2>3 DEF Evaluate, Proceed
    <3>3. Shown(req[r].got)
      <4>1. req[r].op = "fetched"
        BY <2>3 DEF Evaluate
      <4>. QED
        BY <4>1, Zenon DEF SourceInv
    <3>4. Shown(req'[r].row)
      BY <3>2, <3>3, SameShown
    <3>5. \A t \in Requests \ {r} : req'[t] = req[t]
      BY <1>0, <2>3 DEF Evaluate, Proceed
    <3>6. \A t \in Requests : KeepsShown(t)
      BY <3>2, <3>4, <3>5 DEF KeepsShown
    <3>. QED
      BY <3>1, <3>6, SourceAside
  <2>4. CASE RecordSnapshot(r)
    <3>. DEFINE row == [req[r].row EXCEPT !.n = fetches + 1]
    <3>1. Answer(r) /\ site' = site /\ snaps' = snaps \union {row}
      BY <2>4 DEF RecordSnapshot, Calendar
    <3>2. req[r].row \in SnapRow /\ Shown(req[r].row)
      BY <2>4, FetchTypes DEF RecordSnapshot, RecordRequest, SourceInv
    <3>3. row.gold = req[r].row.gold /\ row.silver = req[r].row.silver
      BY <3>2 DEF SnapRow
    <3>4. Shown(row)
      BY <3>2, <3>3, SameShown
    <3>. HIDE DEF row
    <3>5. \A s \in snaps' : Shown(s)
      BY <3>1, <3>4 DEF SourceInv, ReadAsPublished
    <3>. QED
      BY <1>3, <3>1, <3>5, SourceLeft
  <2>. QED
    BY <1>5, <2>1, <2>2, <2>3, <2>4 DEF Fetching
<1>6. ASSUME NEW r \in Requests, NEW by, Fetch(r, by), site' = site PROVE SourceInv'
  <2>1. snaps' = snaps
    BY <1>6 DEF Fetch, Tables
  <2>2. PICK q : q.op = "fetch" /\ req' = [req EXCEPT ![r] = q]
    BY <1>6 DEF Fetch, Submit
  <2>. QED
    BY <1>1, <1>6, <2>1, <2>2, SourceAside
<1>7. World \/ UNCHANGED vars => SourceInv'
  <2>1. ASSUME World \/ UNCHANGED vars PROVE \A t \in Requests : KeepsShown(t)
    BY <2>1 DEF World, Publish, SiteFails, CronPasses, NextDay, Crash, Restart, vars,
                KeepsShown, Idle
  <2>2. ASSUME World \/ UNCHANGED vars PROVE \A s \in snaps' : Shown(s)
    BY <2>2 DEF World, Publish, SiteFails, CronPasses, NextDay, Crash, Restart, vars,
                Tables, SourceInv, ReadAsPublished
  <2>3. ASSUME NEW p \in Published, Publish(p) PROVE Shown(site')
    <3>1. site'.gold = p.gold /\ site'.silver = p.silver
      BY <2>3 DEF Publish
    <3>. QED
      BY <3>1, PublishedIsShown, SameShown
  <2>4. SiteFails => Shown(site')
    BY ShownNothing DEF SiteFails
  <2>5. World \/ UNCHANGED vars => site' = site \/ Shown(site')
    BY <2>3, <2>4 DEF World, CronPasses, NextDay, Crash, Restart, vars
  <2>. QED
    BY <2>1, <2>2, <2>5, SourceLeft
<1>. QED
  BY <1>2, <1>4, <1>5, <1>6, <1>7, RateAssumption
     DEF Next, FetchByHand, CronFires, Calendar

\* Whatever the site shows, in whichever of its forms and row orders, and
\* whenever it fails: a snapshot holds the rates it meant to show, or none.
THEOREM ReadAsPublishedHolds == Spec => []ReadAsPublished
<1>1. Init => RateInv /\ SourceInv
  <2>1. Init => SourceInv
    BY ShownNothing DEF Init, SourceInv, ReadAsPublished, Idle
  <2>. QED
    BY <2>1, InitRateInv
<1>2. RateInv /\ SourceInv /\ [Next]_vars => (RateInv /\ SourceInv)'
  BY NextKeeps, SourceStep
<1>3. SourceInv => ReadAsPublished
  BY DEF SourceInv
<1>. QED
  BY <1>1, <1>2, <1>3, PTL DEF Spec
=============================================================================
