---------------------------- MODULE RateInvariant ----------------------------
(***************************************************************************)
(* The inductive invariants of RateBoard behind OneCurrentRate and         *)
(* NeverInverted, and behind NoRepeatedFetch.                              *)
(***************************************************************************)
EXTENDS RateProperties

Planning(r) == req[r].op \in {"plan", "write"}

\* A plan has one row per metal, and passed the comparison of its rates.
PlansSound ==
  \A r \in Requests : Planning(r) =>
    /\ \A p, q \in req[r].plan : p.metal = q.metal => p = q
    /\ \A p \in req[r].plan : p.buy <= p.sell

\* The rows a transaction has locked are of the metals it is about to write.
SeenPlanned ==
  \A r \in Requests : req[r].op = "write" =>
    \A row \in req[r].seen : Planned(r, row.metal)

\* Rows are numbered by the transactions committed so far.
Numbered == \A row \in daily : row.tx <= writes

\* A plan prices one metal, all gold, or what a confirmation prices; only a
\* confirmation names a snapshot, and one that is there.
ConfirmedSets == {Gold \union {Silver}, {Fine, Silver}}

PlanOf(q) ==
  LET ms == {p.metal : p \in q.plan} IN
  \/ q.snap = 0 /\ (ms = Gold \/ \E m \in Metals : ms = {m})
  \/ ms \in ConfirmedSets /\ q.snap \in {0} \union {s.n : s \in snaps}

PlansNamed == \A r \in Requests : Planning(r) => PlanOf(req[r])

\* A snapshot about to be written is not confirmed yet.
OffersFresh == \A r \in Requests : req[r].op = "record" => req[r].row.consumed = 0

\* Plans, locks and the board together keep a single, current, sound rate of
\* every metal.
RateInv ==
  TypeOK /\ PlansSound /\ SeenPlanned /\ Numbered
    /\ OneCurrentRate /\ NeverInverted

-----------------------------------------------------------------------------
(* Snapshots and the fetches that are about to write one.                  *)

HasRates(s) == s.gold # 0 \/ s.silver # 0

\* Snapshots are numbered as they are written, each number once.
SnapsNumbered ==
  /\ \A s \in snaps : 1 <= s.n /\ s.n <= fetches
  /\ \A s, t \in snaps : s.n = t.n => s = t

\* A snapshot with rates never counts as failed, nor one about to be written.
RatesCount ==
  /\ \A s \in snaps : HasRates(s) => s.status # "FAILED"
  /\ \A r \in Requests : req[r].op = "record" =>
       (HasRates(req[r].row) => req[r].row.status # "FAILED")

\* Only the scheduler fetches on schedule.
OnlyCron ==
  \A r \in Requests :
    /\ req[r].op \in {"fetch", "fetched"} /\ req[r].by = "cron" => r = Cron
    /\ req[r].op = "record" => (req[r].row.by = "cron" => r = Cron)

\* What the scheduler is about to write does not repeat what it wrote last.
Repeats(row, s) ==
  s.by = "cron" /\ HasRates(s) /\ s.label = row.label /\ s.label # -1

NothingRepeats ==
  \A r \in Requests : req[r].op = "record" =>
    (req[r].row.by = "cron" =>
       \A s \in snaps : s.n = fetches => ~Repeats(req[r].row, s))

FetchInv ==
  RateInv /\ SnapsNumbered /\ RatesCount /\ OnlyCron /\ NothingRepeats
    /\ NoRepeatedFetch
=============================================================================
