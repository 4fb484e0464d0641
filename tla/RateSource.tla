------------------------------ MODULE RateSource ------------------------------
(***************************************************************************)
(* How the rates shown by the federation's site become the rates of a      *)
(* fetch: the rows of its interface are read by their labels, or else by   *)
(* the ratio of their numbers; its homepage is the second source.          *)
(*                                                                         *)
(* Code: src/rates/providers/fenegosida-scrape.provider.ts.                *)
(*                                                                         *)
(* Figures are whole rupees, 0 stands for null.  A label is what the       *)
(* code's patterns recognise in it, a homepage the labels found on it with *)
(* the number that follows each before the next label.                     *)
(***************************************************************************)
EXTENDS RateProperties, Sequences

CONSTANT Pages  \* what the site may answer, with the rates it means to show

\* A row of the interface, a label of the homepage, an answer: rows or labels
\* are empty when there is no answer in time.
ApiRow  == [metal: {"gold", "silver", "none"}, unit: {"ten", "tola", "none"}, value: Nat]
HtmlRow == [label: {"fine", "tejabi", "silver"}, value: Nat]

\* The value of the first of the rows found, 0 if there is none.
FirstValue(rows, found) ==
  IF found = {} THEN 0
  ELSE rows[CHOOSE k \in found : \A l \in found : k <= l].value

-----------------------------------------------------------------------------
(* A tola is 11.664 gram.                                                  *)

PerTenGram(tola) == RoundDiv(tola * 1250, 1458)

\* b is the rate of ten grams where a is that of a tola, give or take 2 %.
TolaOf(a, b) ==
  LET d == a * 1250 - b * 1458
  IN  (IF d < 0 THEN -d ELSE d) <= (1458 * b - 1) \div 50

Paired(a, b) == TolaOf(a, b) \/ TolaOf(b, a)

-----------------------------------------------------------------------------
(* The interface.                                                          *)

Labeled(rows, metal, unit) ==
  {k \in DOMAIN rows : rows[k].metal = metal /\ rows[k].unit = unit}

\* pickLabeledPer10g.
PickLabeled(rows, metal) ==
  IF Labeled(rows, metal, "ten") # {}
  THEN FirstValue(rows, Labeled(rows, metal, "ten"))
  ELSE PerTenGram(FirstValue(rows, Labeled(rows, metal, "tola")))

\* v: the values of the rows.  They are sorted, the largest first.
Above(v, k, l) == v[k] > v[l] \/ (v[k] = v[l] /\ k < l)

Top(v, S) == CHOOSE k \in S : \A l \in S \ {k} : Above(v, k, l)

Below(v, S, k) == {l \in S : Above(v, k, l)}

\* The later rows among S that row k forms a pair with.
Mates(v, S, k) == {l \in Below(v, S, k) : Paired(v[k], v[l])}

\* Bug: the larger of a pair is taken for the rate of ten grams.
LargerOf(a, b) == a

\* Of a pair, the rate of ten grams.
TenGramOf(a, b) == IF TolaOf(a, b) THEN b ELSE a

\* Gold's rate per tola is at least this.
GoldTola == 50000

\* The rows that tell a rate: they form a pair, or are large enough for gold's
\* per tola.
Telling(v, S) == {k \in S : Mates(v, S, k) # {} \/ v[k] >= GoldTola}

\* The rate row k tells, and the rows of S that are left then.
ReadRow(v, S, k) ==
  LET mates == Mates(v, S, k)
      mate  == Top(v, mates)
  IN  IF mates = {}
      THEN [rate |-> PerTenGram(v[k]), left |-> Below(v, S, k)]
      ELSE [rate |-> TenGramOf(v[k], v[mate]),
            left |-> Below(v, S, k) \ {mate}]

\* pairTolaAndPer10g, one round.
Round(v, S) ==
  LET telling == Telling(v, S)
  IN  IF telling = {} THEN [rate |-> 0, left |-> {}]
      ELSE ReadRow(v, S, Top(v, telling))

\* pairTolaAndPer10g: the first round tells gold, the second silver.
PairedRates(v) ==
  LET first == Round(v, {k \in DOMAIN v : v[k] > 0})
  IN  [gold |-> first.rate, silver |-> Round(v, first.left).rate]

ValuesOf(rows) == [k \in DOMAIN rows |-> rows[k].value]

\* parseFenegosidaApiToday.
ParsedApi(rows) ==
  LET gold   == PickLabeled(rows, "gold")
      silver == PickLabeled(rows, "silver")
  IN  IF gold # 0 \/ silver # 0 THEN [gold |-> gold, silver |-> silver]
      ELSE PairedRates(ValuesOf(rows))

-----------------------------------------------------------------------------
(* The homepage, and both.                                                 *)

OnHomepage(rows, label) == {k \in DOMAIN rows : rows[k].label = label}

\* parseFenegosidaHtml.
ParsedHtml(rows) ==
  [gold   |-> FirstValue(rows, OnHomepage(rows, "fine")),
   silver |-> FirstValue(rows, OnHomepage(rows, "silver"))]

\* fetchTodayRates, and its rates per gram in paisa.
TodayRates(page) ==
  LET api == ParsedApi(page.api)
  IN  IF api.gold # 0 \/ api.silver # 0 THEN api ELSE ParsedHtml(page.html)

PerGram(rates) == [gold |-> 10 * rates.gold, silver |-> 10 * rates.silver]

-----------------------------------------------------------------------------
(* External: the ways in which the site has shown its rates.               *)

\* The first of the rows has the rate.
Leads(rows, found, rate) ==
  \E k \in found : rows[k].value = rate /\ \A l \in found : k <= l

\* Labelled rows, fine gold before other gold, of ten grams or only of a tola.
ShowsLabeled(rows, metal, rate) ==
  LET tens  == Labeled(rows, metal, "ten")
      tolas == Labeled(rows, metal, "tola")
  IN  \/ Leads(rows, tens, rate)
      \/ /\ tens = {}
         /\ \E k \in tolas : /\ Leads(rows, tolas, rows[k].value)
                             /\ rate = PerTenGram(rows[k].value)

LabeledPage(p) ==
  /\ ShowsLabeled(p.api, "gold", p.gold) /\ ShowsLabeled(p.api, "silver", p.silver)
  /\ p.gold # 0

\* Values in any order: gold per tola and perhaps per ten grams, then silver per
\* tola and per ten grams.
ShowsValues(v, gold, silver) ==
  \E g, s, t \in DOMAIN v :
    /\ v[g] > v[t] /\ v[t] > v[s] /\ v[s] > 0
    /\ ~Paired(v[g], v[t]) /\ ~Paired(v[g], v[s])
    /\ TolaOf(v[t], v[s]) /\ v[s] = silver
    /\ \/ DOMAIN v = {g, t, s} /\ v[g] >= GoldTola /\ PerTenGram(v[g]) = gold
       \/ \E h \in DOMAIN v : /\ DOMAIN v = {g, h, t, s} /\ v[g] > v[h] /\ v[h] > v[t]
                              /\ TolaOf(v[g], v[h]) /\ v[h] = gold

BarePage(p) ==
  /\ \A k \in DOMAIN p.api : p.api[k].metal = "none"
  /\ ShowsValues(ValuesOf(p.api), p.gold, p.silver)

\* The homepage, or no answer at all.
HomepageShows(rows, label, rate) ==
  LET found == OnHomepage(rows, label)
  IN  Leads(rows, found, rate) \/ (found = {} /\ rate = 0)

Homepage(p) ==
  /\ p.api = <<>>
  /\ HomepageShows(p.html, "fine", p.gold)
  /\ HomepageShows(p.html, "silver", p.silver)

ASSUME PagesAssumption ==
  \A p \in Pages : /\ p.api \in Seq(ApiRow) /\ p.html \in Seq(HtmlRow)
                   /\ {p.gold, p.silver} \subseteq Nat
                   /\ LabeledPage(p) \/ BarePage(p) \/ Homepage(p)

\* What is published is what the provider makes of the site.
ASSUME PublishedAssumption == Published \subseteq {PerGram(TodayRates(p)) : p \in Pages}

-----------------------------------------------------------------------------
\* Nothing at all, or what the site meant to show.
Shown(x) ==
  \/ x.gold = 0 /\ x.silver = 0
  \/ \E p \in Pages : x.gold = 10 * p.gold /\ x.silver = 10 * p.silver

\* Every snapshot holds what the site meant to show, metal by metal, or nothing
\* at all, whichever of its two sources answered, whatever order its rows had,
\* and whether they were labelled, paired or of one unit only ("never throws,
\* never fakes a number").
ReadAsPublished == \A s \in snaps : Shown(s)

\* Inductive, with what the site shows and what the fetches in flight keep of it.
SourceInv ==
  /\ ReadAsPublished /\ Shown(site)
  /\ \A r \in Requests : /\ req[r].op = "fetched" => Shown(req[r].got)
                         /\ req[r].op = "record" => Shown(req[r].row)
=============================================================================
