------------------------------- MODULE MCRates -------------------------------
(***************************************************************************)
(* Small instances of RateBoard: 24K and 22K gold and silver.              *)
(***************************************************************************)
EXTENDS RateRefinement, RateSource, TLC

CONSTANTS g24, g22, ag, u1, u2, cron

MCMetals == {g24, g22, ag}
MCGold   == {g24, g22}
MCPurity == (g24 :> 24) @@ (g22 :> 22) @@ (ag :> 22)

\* No overrides, or both rates of the 24K and the silver's sell rate.
MCOverrides ==
  {<<>>,
   (g24 :> [sell |-> 1004, buy |-> 996]) @@ (ag :> [sell |-> 1004, buy |-> 0])}
NoOverrides == {<<>>}

Users == Permutations({u1, u2})

\* The site shows gold at 50000 and silver at 1250 rupees per ten grams, in
\* the ways it has done so: rows without labels in any order, gold per tola only,
\* labelled rows, labelled rows per tola, or the homepage; or nothing.
Row(metal, unit, value) == [metal |-> metal, unit |-> unit, value |-> value]
Bare(value)             == Row("none", "none", value)
Label(label, value)     == [label |-> label, value |-> value]
Both(api, html)  == [api |-> api, html |-> html, gold |-> 50000, silver |-> 1250]

HomepageRows == <<Label("fine", 50000), Label("tejabi", 0), Label("silver", 1250)>>

SitePages ==
  {Both(<<Bare(1458), Bare(1250), Bare(58320), Bare(50000)>>, <<>>),
   Both(<<Bare(50000), Bare(1250), Bare(58320), Bare(1458)>>, <<>>),
   Both(<<Bare(58320), Bare(1250), Bare(1458)>>, <<>>),
   Both(<<Row("silver", "ten", 1250), Row("silver", "tola", 1458),
          Row("gold", "tola", 58320), Row("gold", "ten", 50000)>>, <<>>),
   Both(<<Row("silver", "tola", 1458), Row("gold", "tola", 58320)>>, <<>>),
   Both(<<>>, HomepageRows),
   [api |-> <<>>, html |-> <<>>, gold |-> 0, silver |-> 0]}

ShownRates == {PerGram(TodayRates(p)) : p \in SitePages}
NoPages    == {}

Saturday6 == {6}
Weekend   == 5..7
Base1004   == {1004}
Typed2     == {1004, 1010}
\* More than 8 per cent above the site's gold.
Base5500000 == {5500000}
NoDiscount == {0}
OnlySilver == {ag}
None == {}
=============================================================================
