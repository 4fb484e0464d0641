------------------------------ MODULE StockEntry ------------------------------
(***************************************************************************)
(* Categories of the catalogue and the entry of stock under them: one      *)
(* piece, many at once, or the rows of a sheet, each with a SKU            *)
(* <category code>-<number>-<karat> drawn from the category's sequence.    *)
(*                                                                         *)
(* Code: src/stock/stock.service.ts (createStockItem with origin DIRECT,   *)
(* bulkCreateStock, updateStockItem's category, the category operations),  *)
(* stock-sku.service.ts, sku-suffix.util.ts, import.service.ts.            *)
(*                                                                         *)
(* An entry is one transaction: row by row it reads the category's code,   *)
(* raises the sequence and inserts the item (Draw), and CommitEntry        *)
(* publishes what it wrote.  The raised row of the sequence stays locked   *)
(* until then, and so does the category against deletion.  The category    *)
(* operations use no transaction.                                          *)
(***************************************************************************)
EXTENDS Integers, Sequences, FiniteSets

CONSTANTS
  Names,         \* names of categories
  Codes,         \* short codes
  Metals,        \* metal types
  Suffix,        \* the karat suffix of each metal: two may have the same
  Edits,         \* records with the fields of a category somebody may set
  Sheets,        \* sequences of [name, metal] that may be entered at once
  Requests,      \* requests that may be in flight at the same time
  MaxSerial,     \* bound: categories, sequences and items ever created
  MaxAttempts    \* bound: entries begun

ASSUME EntryAssumption ==
  /\ Names # {} /\ Codes # {} /\ Metals # {} /\ DOMAIN Suffix = Metals
  /\ \A d \in Edits : /\ "name" \in DOMAIN d => d.name \in Names
                      /\ "code" \in DOMAIN d => d.code \in Codes
                      /\ "active" \in DOMAIN d => d.active \in BOOLEAN
                      /\ DOMAIN d \subseteq {"name", "code", "active"}
  /\ Sheets \subseteq Seq([name: Names, metal: Metals])
  /\ MaxSerial \in Nat /\ MaxAttempts \in Nat

VARIABLES
  categories,   \* item_categories
  sequences,    \* category_karat_sequences
  items,        \* stock_items of origin DIRECT
  serial,       \* the last id given to a category, sequence or item
  attempts,     \* entries begun
  req           \* what each request in flight keeps in memory

vars == <<categories, sequences, items, serial, attempts, req>>

Tables == <<categories, sequences, items, serial, attempts>>

-----------------------------------------------------------------------------
(* Rows and requests.                                                      *)

CategoryRow == [id: Nat, name: Names, code: Codes, active: BOOLEAN,
                protected: BOOLEAN]

SequenceRow == [id: Nat, category: Nat, metal: Metals, last: Nat]

Sku(code, n, metal) == <<code, n, Suffix[metal]>>

\* An item, in stock or sold; row and n say which sequence gave its number.
Item(id, sku, category, row, n) ==
  [id |-> id, sku |-> sku, category |-> category, row |-> row, n |-> n,
   stocked |-> TRUE]

Idle == [op |-> "idle"]

Submit(r, q)  == req[r] = Idle /\ req' = [req EXCEPT ![r] = q]
Proceed(r, q) == req' = [req EXCEPT ![r] = q]
Answer(r)     == req' = [req EXCEPT ![r] = Idle]

Entering == {r \in Requests : req[r].op = "enter"}

\* Rows an entry has written and not committed.
Raised(r)  == IF r \in Entering THEN req[r].raised ELSE {}
Written(r) == IF r \in Entering THEN req[r].written ELSE {}

Filed(c) == {i \in items : i.category = c}

NextId(n) == serial + n <= MaxSerial /\ serial' = serial + n

Init ==
  /\ categories = {[id |-> 1, name |-> CHOOSE n \in Names : TRUE,
                    code |-> CHOOSE c \in Codes : TRUE,
                    active |-> TRUE, protected |-> TRUE]}
  /\ sequences = {} /\ items = {} /\ serial = 1 /\ attempts = 0
  /\ req = [r \in Requests |-> Idle]

-----------------------------------------------------------------------------
(* Categories.                                                             *)

\* createCategory: a name that is new, under any code that is free when
\* resolveUniqueShortCode looks ...
PlanCategory(r, name, code) ==
  /\ \A c \in categories : c.name # name /\ c.code # code
  /\ Submit(r, [op |-> "new", name |-> name, code |-> code])
  /\ UNCHANGED Tables

\* ... an inactive one is taken up again.
Reactivate(name) ==
  /\ \E c \in categories : c.name = name /\ ~c.active
  /\ categories' = {IF c.name = name THEN [c EXCEPT !.active = TRUE] ELSE c :
                    c \in categories}
  /\ UNCHANGED <<sequences, items, serial, attempts, req>>

\* The unique indexes on name and code, when category id takes them.
Unique(name, code, id) ==
  \A c \in categories : c.name = name \/ c.code = code => c.id = id

CommitCategory(r) ==
  /\ req[r].op = "new"
  /\ Unique(req[r].name, req[r].code, serial + 1)
  /\ NextId(1)
  /\ categories' = categories \union
       {[id |-> serial', name |-> req[r].name, code |-> req[r].code,
         active |-> TRUE, protected |-> FALSE]}
  /\ Answer(r)
  /\ UNCHANGED <<sequences, items, attempts>>

\* What an update names is written, the rest stays.
Edited(c, data) == [f \in DOMAIN c |-> IF f \in DOMAIN data THEN data[f] ELSE c[f]]

\* updateCategory: a new name if free, a new code if free and only before its
\* first number.
PlanUpdate(r, c, data) ==
  /\ LET new == Edited(c, data) IN
       /\ new.name # c.name => \A d \in categories : d.name # new.name
       /\ new.code # c.code =>
            /\ \A s \in sequences : s.category = c.id => s.last = 0
            /\ \A d \in categories : d.code # new.code
  /\ Submit(r, [op |-> "update", id |-> c.id, data |-> data])
  /\ UNCHANGED Tables

\* deactivateCategory: nothing of it in stock when counted.
PlanDeactivate(r, c) ==
  /\ \A i \in Filed(c.id) : ~i.stocked
  /\ Submit(r, [op |-> "update", id |-> c.id, data |-> [active |-> FALSE]])
  /\ UNCHANGED Tables

CommitUpdate(r) ==
  /\ req[r].op = "update"
  /\ \E c \in categories :
       LET new == Edited(c, req[r].data) IN
       /\ c.id = req[r].id /\ Unique(new.name, new.code, c.id)
       /\ categories' = (categories \ {c}) \union {new}
  /\ Answer(r)
  /\ UNCHANGED <<sequences, items, serial, attempts>>

\* deleteCategory: not protected, no item when counted ...
PlanDelete(r, c) ==
  /\ ~c.protected /\ Filed(c.id) = {}
  /\ Submit(r, [op |-> "delete", id |-> c.id])
  /\ UNCHANGED Tables

\* ... its sequences go first, when nobody has one locked ...
DropSequences(r) ==
  /\ req[r].op = "delete"
  /\ \A s \in Requests : \A q \in Raised(s) :
       q.category = req[r].id => q.id \notin {p.id : p \in sequences}
  /\ sequences' = {s \in sequences : s.category # req[r].id}
  /\ Proceed(r, [op |-> "drop", id |-> req[r].id])
  /\ UNCHANGED <<categories, items, serial, attempts>>

\* The foreign keys: no item and no sequence refers to the category.
Unreferenced(id) ==
  /\ Filed(id) = {}
  /\ \A s \in sequences : s.category # id
  /\ \A r \in Requests : \A i \in Written(r) : i.category # id

\* ... then the category itself; a foreign key may still refuse it (Abort),
\* and the sequences stay deleted.
DropCategory(r) ==
  /\ req[r].op = "drop"
  /\ \E c \in categories : c.id = req[r].id
  /\ Unreferenced(req[r].id)
  /\ categories' = {c \in categories : c.id # req[r].id}
  /\ Answer(r)
  /\ UNCHANGED <<sequences, items, serial, attempts>>

-----------------------------------------------------------------------------
(* Entry of items.                                                         *)

\* createStockItem, bulkCreateStock: the category is active; importStock asks
\* for its name only.  A sheet is entered under the ids found.
PlanEntry(r, sheet, imported) ==
  /\ attempts < MaxAttempts
  /\ \A i \in DOMAIN sheet : \E c \in categories :
       c.name = sheet[i].name /\ (imported \/ c.active)
  /\ Submit(r, [op |-> "enter", raised |-> {}, written |-> {}, codes |-> {},
                rows |-> [i \in DOMAIN sheet |->
                  [metal |-> sheet[i].metal,
                   category |-> (CHOOSE c \in categories : c.name = sheet[i].name).id]]])
  /\ attempts' = attempts + 1
  /\ UNCHANGED <<categories, sequences, items, serial>>

\* generateCategoryKaratSku reads the category of the first row left: the code
\* it has now is the one of the SKU, whatever becomes of it.
ReadCategory(r) ==
  /\ req[r].op = "enter" /\ req[r].rows # <<>> /\ req[r].codes = {}
  /\ \E k \in categories :
       /\ k.id = Head(req[r].rows).category
       /\ Proceed(r, [req[r] EXCEPT !.codes = {k.code}])
  /\ UNCHANGED Tables

\* Another entry has raised the sequence, or is making it: this one waits.
Locked(r, c, m) ==
  \E s \in Requests \ {r} : \E q \in Raised(s) : q.category = c /\ q.metal = m

\* The row of the sequence, as the entry itself raised it or as committed.
Sequence(r, c, m) ==
  {q \in Raised(r) : q.category = c /\ q.metal = m} \union
  {s \in sequences : /\ s.category = c /\ s.metal = m
                     /\ \A q \in Raised(r) : q.id # s.id}

\* The upsert of generateCategoryKaratSku: one more, or the first.
Raise(seqs, c, m) ==
  IF seqs = {} THEN [id |-> serial + 1, category |-> c, metal |-> m, last |-> 1]
  ELSE [(CHOOSE s \in seqs : TRUE) EXCEPT !.last = @ + 1]

\* Bug: no unique index on the SKU.
FreshAny(sku) == TRUE

\* The unique index on the SKU, which waits for those not yet committed.
Fresh(sku) ==
  \A i \in items \union UNION {Written(s) : s \in Requests} : i.sku # sku

\* ... and when nobody else has the sequence locked it is raised and the item
\* inserted under the code that was read; the foreign key asks for the
\* category.  A SKU that exists ends the transaction (Abort).
Draw(r) ==
  /\ req[r].op = "enter" /\ req[r].rows # <<>>
  /\ LET c == Head(req[r].rows).category
         m == Head(req[r].rows).metal
         q == Raise(Sequence(r, c, m), c, m)
     IN  /\ ~Locked(r, c, m)
         /\ \E k \in categories : k.id = c
         /\ \E code \in req[r].codes :
              /\ Fresh(Sku(code, q.last, m))
              /\ Proceed(r, [req[r] EXCEPT
                   !.rows = Tail(@), !.codes = {},
                   !.raised = {p \in @ : p.id # q.id} \union {q},
                   !.written = @ \union
                     {Item(serial + 1, Sku(code, q.last, m), c, q.id, q.last)}])
  /\ NextId(1)
  /\ UNCHANGED <<categories, sequences, items, attempts>>

\* Bug: a sequence that exists is not raised.
CommitNewOnly(r) ==
  /\ req[r].op = "enter" /\ req[r].rows = <<>>
  /\ sequences' = sequences \union
       {q \in req[r].raised : \A s \in sequences : s.id # q.id}
  /\ items' = items \union req[r].written
  /\ Answer(r)
  /\ UNCHANGED <<categories, serial, attempts>>

CommitEntry(r) ==
  /\ req[r].op = "enter" /\ req[r].rows = <<>>
  /\ sequences' = {s \in sequences : \A q \in req[r].raised : q.id # s.id}
                    \union req[r].raised
  /\ items' = items \union req[r].written
  /\ Answer(r)
  /\ UNCHANGED <<categories, serial, attempts>>

\* updateStockItem with a category that is active; the SKU stays.
Move(i, c) ==
  /\ i.stocked /\ c.active
  /\ items' = (items \ {i}) \union {[i EXCEPT !.category = c.id]}
  /\ UNCHANGED <<categories, sequences, serial, attempts, req>>

\* External: the sales desk sells the item.
Sell(i) ==
  /\ i.stocked
  /\ items' = (items \ {i}) \union {[i EXCEPT !.stocked = FALSE]}
  /\ UNCHANGED <<categories, sequences, serial, attempts, req>>

\* The request is refused, or its transaction is rolled back.
Abort(r) ==
  /\ req[r] # Idle
  /\ Answer(r)
  /\ UNCHANGED Tables

-----------------------------------------------------------------------------
Cataloguing(r) ==
  \/ \E n \in Names, k \in Codes : PlanCategory(r, n, k)
  \/ \E c \in categories :
       \/ \E data \in Edits : PlanUpdate(r, c, data)
       \/ PlanDeactivate(r, c) \/ PlanDelete(r, c)
  \/ CommitCategory(r) \/ CommitUpdate(r)
  \/ DropSequences(r) \/ DropCategory(r)

EnteringStock(r) ==
  \/ \E s \in Sheets, b \in BOOLEAN : PlanEntry(r, s, b)
  \/ ReadCategory(r) \/ Draw(r) \/ CommitEntry(r)

Next ==
  \/ \E r \in Requests : Cataloguing(r) \/ EnteringStock(r) \/ Abort(r)
  \/ \E n \in Names : Reactivate(n)
  \/ \E i \in items : Sell(i) \/ \E c \in categories : Move(i, c)

Spec == Init /\ [][Next]_vars
=============================================================================
