------------------------------ MODULE RateBoard ------------------------------
(***************************************************************************)
(* The daily rates of the metals: rates set by hand, gold rates derived    *)
(* from the 24K rate, and rates fetched from the federation's site, which  *)
(* are kept as snapshots until somebody confirms one.                      *)
(*                                                                         *)
(* Code: src/rates/rates.service.ts, rates.helpers.ts,                     *)
(* rates-fetch.service.ts, rates-fetch.scheduler.ts.                       *)
(*                                                                         *)
(* A writer of rates is three steps: Plan... reads metals and discounts    *)
(* and computes the new rates; Expire is the updateMany of its             *)
(* transaction, which sees the committed current rows; CommitRates is its  *)
(* inserts.  The rows Expire has seen stay locked: a second writer waits   *)
(* for the first and then finds them expired, but not their successors, so *)
(* its own insert meets the unique index on the current rate of a metal    *)
(* and the transaction is rolled back (Abort).                             *)
(* A fetch is three steps, too: the site answers, the last snapshot and    *)
(* the current rates are read, the snapshot is written.                    *)
(*                                                                         *)
(* Rates are per gram in paisa, as the columns keep them; what the owner   *)
(* types is in tenths of a paisa, so that rounding happens.                *)
(***************************************************************************)
EXTENDS Integers

CONSTANTS
  Metals,        \* active metal types
  Gold,          \* those whose name says gold
  Fine,          \* the 24K gold
  Silver,        \* the silver
  Purity,        \* purity factor of each metal, in a common unit
  Requests,      \* requests that may be in flight at the same time
  Cron,          \* the one that is the scheduler's own
  Days,          \* days, as numbers; day 6, 13, ... is a Saturday
  Typed,         \* rates somebody may type, in tenths of a paisa
  Bases,         \* 24K and silver rates somebody may confirm, in the same unit
  Overrides,     \* rows of a confirmation: metal to [sell, buy], 0 if absent
  Percents,      \* discounts somebody may set
  Discounted,    \* metals whose own discount somebody may set
  Published,     \* what the site may publish: [gold, silver], 0 if absent
  MaxWrites,     \* bound: transactions that write rates
  MaxManual      \* bound: snapshots up to which somebody still fetches by hand

Parts == 10

ASSUME RateAssumption ==
  /\ Gold \subseteq Metals /\ Fine \in Gold /\ Silver \in Metals \ Gold
  /\ Purity \in [Metals -> Nat \ {0}]
  /\ Cron \in Requests
  /\ Days \subseteq Nat /\ Days # {}
  /\ Typed \subseteq Nat \ {0} /\ Bases \subseteq Nat \ {0}
  /\ \A o \in Overrides : DOMAIN o \subseteq Metals
       /\ \A m \in DOMAIN o : o[m] \in [sell: Nat, buy: Nat]
  /\ Percents \subseteq 0..100 /\ Discounted \subseteq Metals
  /\ Published \subseteq [gold: Nat, silver: Nat]
  /\ MaxWrites \in Nat /\ MaxManual \in Nat

VARIABLES
  daily,     \* daily_rates
  writes,    \* transactions that have written rates; numbers the rows
  snaps,     \* fetched_rate_snapshots
  fetches,   \* snapshots ever written; numbers them
  discount,  \* system setting buyDiscountPct
  override,  \* metal_types.buyDiscountPctOverride, -1 when null
  day,       \* the day in Kathmandu
  fired,     \* whether it is past 11:30 on that day
  up,        \* whether the server runs
  site,      \* what the site shows: a date and rates, or nothing
  req        \* what each request in flight keeps in memory

vars == <<daily, writes, snaps, fetches, discount, override,
          day, fired, up, site, req>>

Tables   == <<daily, writes, snaps, fetches, discount, override>>
Calendar == <<day, fired, up, site>>

-----------------------------------------------------------------------------
(* Rows and requests.                                                      *)

RateRow == [tx: Nat, metal: Metals, sell: Nat, buy: Nat, current: BOOLEAN]

SnapRow == [n: Nat, label: Int, gold: Nat, silver: Nat,
            status: {"PENDING", "SUSPICIOUS", "FAILED", "CONFIRMED"},
            by: {"cron", "manual"}, consumed: Nat]

\* What the provider returns: the date shown (-1 for none) and per-gram rates.
Fetched == [label: Int, gold: Nat, silver: Nat]
Nothing == [label |-> -1, gold |-> 0, silver |-> 0]

\* The rates a writer is about to store, one row per metal.
PlanRow == [metal: Metals, sell: Nat, buy: Nat]

Idle           == [op |-> "idle"]
PlanRequest    == [op: {"plan"}, plan: SUBSET PlanRow, snap: Nat]
WriteRequest   == [op: {"write"}, plan: SUBSET PlanRow, snap: Nat, seen: SUBSET RateRow]
PatchRequest   == [op: {"patch"}, metal: Metals, pct: -1..100]
FetchRequest   == [op: {"fetch"}, by: {"cron", "manual"}]
FetchedRequest == [op: {"fetched"}, by: {"cron", "manual"}, got: Fetched]
RecordRequest  == [op: {"record"}, row: SnapRow]

Request == {Idle} \union PlanRequest \union WriteRequest \union PatchRequest
             \union FetchRequest \union FetchedRequest \union RecordRequest

Submit(r, q) == up /\ req[r] = Idle /\ req' = [req EXCEPT ![r] = q]
Proceed(r, q) == req' = [req EXCEPT ![r] = q]
Answer(r)    == req' = [req EXCEPT ![r] = Idle]

CurrentRows == {row \in daily : row.current}
CurrentOf(m) == {row \in CurrentRows : row.metal = m}

-----------------------------------------------------------------------------
(* Rounding and derivation.                                                *)

\* n/d rounded half up: Decimal.toFixed and the numeric columns.
RoundDiv(n, d) == (2 * n + d) \div (2 * d)

\* roundRate: a typed rate as it is stored.
RoundRate(typed) == RoundDiv(typed, Parts)

\* deriveShopRateFromPureBase, and the scaling of setGoldRatesFrom24K.
Derive(base, m) == RoundDiv(base * Purity[m], Parts * Purity[Fine])

\* computeBuyRate, from a sell rate in tenths of a paisa.
ComputeBuyRate(sell, pct) == RoundDiv(sell * (100 - pct), 100 * Parts)

EffectiveDiscount(m) == IF override[m] # -1 THEN override[m] ELSE discount

\* Bug: the two rates are not compared.
AnyPrices(p) == TRUE

\* Every writer checks the rates before they are rounded for storage.
SellAboveBuy(p) == p.buy < p.sell

-----------------------------------------------------------------------------
Init ==
  /\ daily = {} /\ writes = 0 /\ snaps = {} /\ fetches = 0
  /\ discount = 5 /\ override = [m \in Metals |-> -1]
  /\ day \in Days /\ \A d \in Days : day <= d
  /\ fired = FALSE /\ up = TRUE /\ site = Nothing
  /\ req = [r \in Requests |-> Idle]

-----------------------------------------------------------------------------
(* Writers of rates.                                                       *)

Plan(r, plan, snap) ==
  /\ r # Cron /\ writes < MaxWrites
  /\ Submit(r, [op |-> "plan", plan |-> plan, snap |-> snap])
  /\ UNCHANGED <<Tables, Calendar>>

\* setRate: one metal, both rates typed.
PlanSet(r, m, p) ==
  /\ SellAboveBuy(p)
  /\ Plan(r, {[metal |-> m, sell |-> RoundRate(p.sell),
               buy |-> RoundRate(p.buy)]}, 0)

\* setGoldRatesFrom24K: all gold in proportion to its purity.
PlanGold(r, p) ==
  /\ SellAboveBuy(p)
  /\ Plan(r, {[metal |-> m, sell |-> Derive(p.sell, m),
               buy |-> Derive(p.buy, m)] : m \in Gold}, 0)

\* The sell rate derivePreview proposes, and confirmRates takes, for a metal:
\* that of gold by its purity, that of silver as published.
Proposed(m, gold, silver) == IF m = Silver THEN RoundRate(silver) ELSE Derive(gold, m)

\* A row of confirmRates: what was typed for the metal, or else the derived
\* rate and that rate less the discount.
Priced(m, derived, rows) ==
  LET typed == IF m \in DOMAIN rows THEN rows[m] ELSE [sell |-> 0, buy |-> 0]
      sell  == IF typed.sell # 0 THEN typed.sell ELSE Parts * derived
  IN  [sell |-> sell,
       buy  |-> IF typed.buy # 0 THEN typed.buy
                ELSE Parts * ComputeBuyRate(sell, EffectiveDiscount(m))]

\* confirmRates: all gold or only the 24K, and the silver.
PlanConfirm(r, snap, gold, silver, all, rows) ==
  LET ms     == (IF all THEN Gold ELSE {Fine}) \union {Silver}
      priced == [m \in ms |->
                   Priced(m, Proposed(m, gold, silver), rows)]
  IN  /\ snap = 0 \/ \E s \in snaps : s.n = snap
      /\ all \/ (Fine \in DOMAIN rows /\ rows[Fine].sell # 0
                                      /\ rows[Fine].buy # 0)
      /\ \A m \in ms : SellAboveBuy(priced[m])
      /\ Plan(r, {[metal |-> m, sell |-> RoundRate(priced[m].sell),
                   buy |-> RoundRate(priced[m].buy)] : m \in ms}, snap)

Planned(r, m) == \E p \in req[r].plan : p.metal = m

\* Bug: every current rate expires, not only those of the plan's metals.
ExpireEverything(r) ==
  /\ req[r].op = "plan"
  /\ Proceed(r, [op |-> "write", plan |-> req[r].plan, snap |-> req[r].snap,
                 seen |-> CurrentRows])
  /\ UNCHANGED <<Tables, Calendar>>

\* The updateMany of expireAndCreateDailyRate, for every metal of the plan.
Expire(r) ==
  /\ req[r].op = "plan"
  /\ Proceed(r, [op |-> "write", plan |-> req[r].plan, snap |-> req[r].snap,
                 seen |-> {row \in CurrentRows : Planned(r, row.metal)}])
  /\ UNCHANGED <<Tables, Calendar>>

\* The rows a transaction inserts.
NewRows(plan) ==
  {[tx |-> writes + 1, metal |-> p.metal, sell |-> p.sell, buy |-> p.buy,
    current |-> TRUE] : p \in plan}

\* The rows seen expire, whichever of them still were current.
Expired(seen) ==
  {IF row \in seen THEN [row EXCEPT !.current = FALSE] ELSE row : row \in daily}

\* Bug: there is no unique index on the current rate of a metal.
NoIndex(r) == TRUE

\* The unique index: of each metal, no other current row than those seen.
Indexed(r) ==
  {row \in CurrentRows : Planned(r, row.metal)} \subseteq req[r].seen

\* The inserts, and the snapshot the confirmation consumes.
CommitRates(r) ==
  /\ req[r].op = "write"
  /\ Indexed(r)
  /\ daily' = Expired(req[r].seen) \union NewRows(req[r].plan)
  /\ writes' = writes + 1
  /\ snaps' = {IF s.n = req[r].snap
               THEN [s EXCEPT !.status = "CONFIRMED", !.consumed = writes + 1]
               ELSE s : s \in snaps}
  /\ Answer(r)
  /\ UNCHANGED <<fetches, discount, override, Calendar>>

-----------------------------------------------------------------------------
(* patchSettings: the global discount is stored before the metal is looked *)
(* up; its override is a second write, and may be refused.  A request that *)
(* names no discount keeps it, one that names no metal ends with Abort.    *)

PatchGlobal(r, pct, m, own) ==
  /\ r # Cron
  /\ Submit(r, [op |-> "patch", metal |-> m, pct |-> own])
  /\ discount' = pct
  /\ UNCHANGED <<daily, writes, snaps, fetches, override, Calendar>>

PatchMetal(r) ==
  /\ req[r].op = "patch"
  /\ override' = [override EXCEPT ![req[r].metal] = req[r].pct]
  /\ Answer(r)
  /\ UNCHANGED <<daily, writes, snaps, fetches, discount, Calendar>>

-----------------------------------------------------------------------------
(* Fetching.                                                               *)

Saturday(d) == d % 7 = 6

Fetch(r, by) ==
  /\ Submit(r, [op |-> "fetch", by |-> by])
  /\ UNCHANGED Tables

FetchByHand(r) ==
  /\ r # Cron /\ fetches < MaxManual
  /\ Fetch(r, "manual")
  /\ UNCHANGED Calendar

\* The cron expression: 11:30, Sunday to Friday.
CronFires ==
  /\ ~fired /\ ~Saturday(day)
  /\ fired' = TRUE
  /\ Fetch(Cron, "cron")
  /\ UNCHANGED <<day, up, site>>

\* Bug: a request to the site has no time limit.
SiteAnswersOnly(r) ==
  /\ req[r].op = "fetch" /\ site # Nothing
  /\ Proceed(r, [op |-> "fetched", by |-> req[r].by, got |-> site])
  /\ UNCHANGED <<Tables, Calendar>>

\* fetchTodayRates: what the site shows, or nulls on an error or a timeout.
SiteAnswers(r) ==
  /\ req[r].op = "fetch"
  /\ Proceed(r, [op |-> "fetched", by |-> req[r].by, got |-> site])
  /\ UNCHANGED <<Tables, Calendar>>

Newest(S) == CHOOSE s \in S : \A t \in S : t.n <= s.n

\* Bug: a failed fetch of the date counts as well.
SameDate(r) ==
  /\ req[r].by = "cron" /\ req[r].got.label # -1
  /\ snaps # {} /\ Newest(snaps).label = req[r].got.label

\* Bug: only a snapshot that still waits for its confirmation counts.
SameDateWaiting(r) ==
  /\ req[r].by = "cron" /\ req[r].got.label # -1
  /\ snaps # {} /\ Newest(snaps).label = req[r].got.label
  /\ Newest(snaps).status \in {"PENDING", "SUSPICIOUS"}

\* A scheduled fetch of the date the last snapshot has keeps that snapshot.
Unchanged(r) ==
  /\ req[r].by = "cron" /\ req[r].got.label # -1
  /\ snaps # {} /\ Newest(snaps).label = req[r].got.label
  /\ Newest(snaps).status # "FAILED"

KeepSnapshot(r) ==
  /\ req[r].op = "fetched"
  /\ Unchanged(r)
  /\ Answer(r)
  /\ UNCHANGED <<Tables, Calendar>>

\* More than 8 per cent away from the current sell rate, if there is one.
Swings(fetched, m) ==
  \E row \in CurrentOf(m) :
    LET d == IF fetched > row.sell THEN fetched - row.sell ELSE row.sell - fetched
    IN  fetched # 0 /\ row.sell > 0 /\ 100 * d > 8 * row.sell

\* evaluateStatus.
StatusOf(got) ==
  IF got.gold = 0 /\ got.silver = 0 THEN "FAILED"
  ELSE IF Swings(got.gold, Fine) \/ Swings(got.silver, Silver) THEN "SUSPICIOUS"
  ELSE "PENDING"

Evaluate(r) ==
  LET got == req[r].got IN
  /\ req[r].op = "fetched"
  /\ ~Unchanged(r)
  /\ Proceed(r, [op |-> "record",
                 row |-> [n |-> 0, label |-> got.label, gold |-> got.gold,
                          silver |-> got.silver, status |-> StatusOf(got),
                          by |-> req[r].by, consumed |-> 0]])
  /\ UNCHANGED <<Tables, Calendar>>

RecordSnapshot(r) ==
  /\ req[r].op = "record"
  /\ snaps' = snaps \union {[req[r].row EXCEPT !.n = fetches + 1]}
  /\ fetches' = fetches + 1
  /\ Answer(r)
  /\ UNCHANGED <<daily, writes, discount, override, Calendar>>

\* getLatestSnapshot: what the banner offers.
Offered ==
  LET actionable == {s \in snaps : s.status \in {"PENDING", "SUSPICIOUS"}}
  IN  Newest(IF actionable # {} THEN actionable ELSE snaps)

-----------------------------------------------------------------------------
(* The world: the site, the calendar, the server.                          *)

\* External: the federation publishes the rates of the day.
Publish(p) ==
  /\ site' = [label |-> day, gold |-> p.gold, silver |-> p.silver]
  /\ UNCHANGED <<Tables, day, fired, up, req>>

SiteFails ==
  /\ site # Nothing /\ site' = Nothing
  /\ UNCHANGED <<Tables, day, fired, up, req>>

\* 11:30 passes without a fetch: on Saturdays, and while the server is down.
CronPasses ==
  /\ ~fired /\ (Saturday(day) \/ ~up)
  /\ fired' = TRUE
  /\ UNCHANGED <<Tables, day, up, site, req>>

\* A fetch takes two minutes at most and is over before the day is.
NextDay ==
  /\ fired /\ req[Cron] = Idle /\ day + 1 \in Days
  /\ day' = day + 1 /\ fired' = FALSE
  /\ UNCHANGED <<Tables, up, site, req>>

\* The server stops; its requests and their transactions are gone.
Crash ==
  /\ up /\ up' = FALSE
  /\ req' = [r \in Requests |-> Idle]
  /\ UNCHANGED <<Tables, day, fired, site>>

Restart ==
  /\ ~up /\ up' = TRUE
  /\ UNCHANGED <<Tables, day, fired, site, req>>

\* A request is refused, or its transaction is rolled back.
Abort(r) ==
  /\ req[r].op \in {"plan", "write", "patch"}
  /\ Answer(r)
  /\ UNCHANGED <<Tables, Calendar>>

-----------------------------------------------------------------------------
Setting(r) ==
  \/ \E s, b \in Typed : LET p == [sell |-> s, buy |-> b] IN
       \/ \E m \in Metals : PlanSet(r, m, p)
       \/ PlanGold(r, p)
  \/ \E n \in {0} \union {s.n : s \in snaps}, g, v \in Bases,
        all \in BOOLEAN, rows \in Overrides : PlanConfirm(r, n, g, v, all, rows)
  \/ \E pct \in Percents \union {discount}, own \in Percents \union {-1},
        m \in Discounted : PatchGlobal(r, pct, m, own)

Committing(r) == Expire(r) \/ CommitRates(r) \/ PatchMetal(r) \/ Abort(r)

Fetching(r) ==
  SiteAnswers(r) \/ KeepSnapshot(r) \/ Evaluate(r) \/ RecordSnapshot(r)

World ==
  \/ \E p \in Published : Publish(p)
  \/ SiteFails \/ CronPasses \/ NextDay \/ Crash \/ Restart

Next ==
  \/ \E r \in Requests : Setting(r) \/ FetchByHand(r) \/ Committing(r) \/ Fetching(r)
  \/ CronFires
  \/ World

Spec == Init /\ [][Next]_vars

\* The scheduler fires while the server runs; a fetch is answered within its
\* time limits, and its own steps are not held up by anybody.
Fairness ==
  /\ WF_vars(CronFires)
  /\ \A r \in Requests : WF_vars(Fetching(r))

FairSpec == Spec /\ Fairness
=============================================================================
