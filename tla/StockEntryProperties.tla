------------------------ MODULE StockEntryProperties ------------------------
(***************************************************************************)
(* What the catalogue and the entry of stock promise.                      *)
(***************************************************************************)
EXTENDS StockEntry

ItemRow == [id: Nat, sku: Codes \X Nat \X {Suffix[m] : m \in Metals},
            category: Nat, row: Nat, n: Nat, stocked: BOOLEAN]

\* What a request keeps in memory.
NewRequest    == [op: {"new"}, name: Names, code: Codes]
UpdateRequest == [op: {"update"}, id: Nat, data: Edits \union {[active |-> FALSE]}]
DeleteRequest == [op: {"delete", "drop"}, id: Nat]
EnterRequest  == [op: {"enter"}, raised: SUBSET SequenceRow, written: SUBSET ItemRow,
                  codes: SUBSET Codes, rows: Seq([metal: Metals, category: Nat])]

Request == {Idle} \union NewRequest \union UpdateRequest \union DeleteRequest
             \union EnterRequest

\* Type invariant of the tables and of what requests keep in memory.
TypeOK ==
  /\ categories \subseteq CategoryRow /\ sequences \subseteq SequenceRow
  /\ items \subseteq ItemRow /\ serial \in Nat /\ attempts \in Nat
  /\ req \in [Requests -> Request]

\* The numbers a sequence gave are the numbers its items have, each once and
\* none left out, through entries that wait for each other, are rolled back, or
\* enter several rows of one category (generateCategoryKaratSku,
\* bulkCreateStock, importStock): the gaps the migration accepts never come.
NumbersGapless ==
  \A s \in sequences : LET given == {i \in items : i.row = s.id} IN
    /\ {i.n : i \in given} = 1..s.last
    /\ Cardinality(given) = s.last

\* Rows of sequences and items, those not yet committed among them.
AllSequences == sequences \union UNION {Raised(r) : r \in Requests}
AllItems     == items \union UNION {Written(r) : r \in Requests}

\* The first number of category c and metal m is taken: no sequence of theirs
\* exists, an item has the SKU it would give, and no entry is under way with a
\* code that c had before.
Stuck(c, m) ==
  /\ \A s \in AllSequences : s.category = c.id => s.metal # m
  /\ \E i \in items : i.sku = Sku(c.code, 1, m)
  /\ \A r \in Entering :
       req[r].rows # <<>> /\ Head(req[r].rows).category = c.id =>
         req[r].codes \subseteq {c.code}

\* No entry gets past a number that is taken: the index refuses it, its raise is
\* rolled back with it, and the next entry meets the same number, until the
\* category has another code.  So it is after deleteCategory dropped the
\* sequences of a category whose items were moved and then kept the category,
\* when a category is made with a code whose items were moved, and for a second
\* metal of one suffix (generateCategoryKaratSku, deleteCategory).
StuckForGood ==
  [][\A c \in categories, d \in categories', m \in Metals :
       c.id = d.id /\ c.code = d.code /\ Stuck(c, m) => Stuck(d, m)']_vars

-----------------------------------------------------------------------------
\* The numbers that the items of S drew from a sequence.
Numbers(S, id) == {i.n : i \in {j \in S : j.row = id}}

\* The ids of sequences were given, and stand for one category and metal.
IdsGiven ==
  /\ \A s \in AllSequences : s.id <= serial
  /\ \A i \in AllItems : i.row <= serial
  /\ \A s, t \in AllSequences :
       s.id = t.id => s.category = t.category /\ s.metal = t.metal
  /\ \A s, t \in sequences : s.id = t.id => s = t

\* The ids of categories were given, each once.
CategoryIds ==
  /\ \A c \in categories : c.id <= serial
  /\ \A c, d \in categories : c.id = d.id => c = d

\* A sequence is raised by one entry at a time, once.
RaisedByOne ==
  /\ \A r, u \in Requests : \A s \in Raised(r), t \in Raised(u) :
       s.category = t.category /\ s.metal = t.metal => r = u
  /\ \A r \in Requests : \A s, t \in Raised(r) : s.id = t.id => s = t

\* No two items, committed or not, have one SKU, or one number of one sequence,
\* and an item is committed once.
ItemsDiffer ==
  /\ \A i, j \in AllItems : i.sku = j.sku => i = j
  /\ \A i, j \in AllItems : i.row = j.row /\ i.n = j.n => i = j
  /\ \A r \in Requests : Written(r) \cap items = {}

\* The numbers drawn are those given, as committed and as each entry sees it.
NoGaps ==
  /\ \A s \in sequences : Numbers(items, s.id) = 1..s.last
  /\ \A r \in Requests : \A s \in Raised(r) :
       Numbers(items \union Written(r), s.id) = 1..s.last
  /\ \A r \in Requests : \A i \in Written(r) : \E s \in Raised(r) : s.id = i.row

\* The inductive invariant of the entry of stock.
EntryInv == TypeOK /\ IdsGiven /\ CategoryIds /\ RaisedByOne /\ ItemsDiffer /\ NoGaps
=============================================================================
