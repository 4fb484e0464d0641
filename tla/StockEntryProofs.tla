-------------------------- MODULE StockEntryProofs --------------------------
(***************************************************************************)
(* EntryInv is inductive, for every value of the constants: any number of  *)
(* categories, metals, requests and rows of a sheet.                       *)
(***************************************************************************)
EXTENDS StockEntryProperties, FunctionTheorems, FiniteSetTheorems, TLAPS

\* What a request's op says about the rest of it.
LEMMA RequestTypes ==
  ASSUME NEW q \in Request
  PROVE  /\ q.op = "new"    => q \in NewRequest
         /\ q.op = "update" => q \in UpdateRequest
         /\ q.op \in {"delete", "drop"} => q \in DeleteRequest
         /\ q.op = "enter"  => q \in EnterRequest
BY DEF Request, Idle, NewRequest, UpdateRequest, DeleteRequest, EnterRequest

LEMMA IdleType == Idle \in Request /\ Idle.op = "idle"
BY DEF Idle, Request

\* What a request has raised and written are rows.
LEMMA RaisedTypes ==
  ASSUME TypeOK, NEW r \in Requests
  PROVE  Raised(r) \subseteq SequenceRow /\ Written(r) \subseteq ItemRow
BY RequestTypes DEF TypeOK, Raised, Written, Entering, EnterRequest

\* A step of request r leaves what the others have raised and written.
LEMMA RequestStep ==
  ASSUME TypeOK, NEW r \in Requests, NEW q \in Request, req' = [req EXCEPT ![r] = q]
  PROVE  /\ req' \in [Requests -> Request]
         /\ Raised(r)' = IF q.op = "enter" THEN q.raised ELSE {}
         /\ Written(r)' = IF q.op = "enter" THEN q.written ELSE {}
         /\ \A t \in Requests \ {r} :
              Raised(t)' = Raised(t) /\ Written(t)' = Written(t)
BY DEF TypeOK, Raised, Written, Entering

-----------------------------------------------------------------------------
(* The three ways the rows of sequences and items change.                  *)

\* An entry has raised and written as much as before, or nothing.
KeptOrGone(t) == \/ Raised(t)' = Raised(t) /\ Written(t)' = Written(t)
                 \/ Raised(t)' = {} /\ Written(t)' = {}

\* Sequences and uncommitted rows go, ids are given.
LEMMA Shrinks ==
  ASSUME EntryInv, TypeOK', CategoryIds', serial <= serial',
         sequences' \subseteq sequences, items' = items,
         \A t \in Requests : KeptOrGone(t)
  PROVE  EntryInv'
<1>1. \A t \in Requests : Raised(t)' \subseteq Raised(t) /\ Written(t)' \subseteq Written(t)
  BY DEF KeptOrGone
<1>2. AllSequences' \subseteq AllSequences /\ AllItems' \subseteq AllItems
  BY <1>1 DEF AllSequences, AllItems
<1>3. IdsGiven'
  <2>1. \A s \in AllSequences : s.id \in Nat
    BY RaisedTypes DEF EntryInv, TypeOK, AllSequences, SequenceRow
  <2>2. \A i \in AllItems : i.row \in Nat
    BY RaisedTypes DEF EntryInv, TypeOK, AllItems, ItemRow
  <2>3. serial \in Nat /\ serial' \in Nat
    BY DEF EntryInv, TypeOK
  <2>4. /\ \A s \in AllSequences' : s.id <= serial'
        /\ \A i \in AllItems' : i.row <= serial'
    BY <1>2, <2>1, <2>2, <2>3 DEF EntryInv, IdsGiven
  <2>. QED
    BY <1>2, <2>4 DEF EntryInv, IdsGiven
<1>4. RaisedByOne'
  BY <1>1 DEF EntryInv, RaisedByOne
<1>5. ItemsDiffer'
  BY <1>1, <1>2 DEF EntryInv, ItemsDiffer
<1>6. NoGaps'
  <2>1. \A s \in sequences' : Numbers(items', s.id) = 1..s.last
    BY DEF EntryInv, NoGaps
  <2>2. ASSUME NEW t \in Requests
        PROVE  /\ \A s \in Raised(t)' : Numbers(items' \union Written(t)', s.id) = 1..s.last
               /\ \A i \in Written(t)' : \E s \in Raised(t)' : s.id = i.row
    BY DEF EntryInv, NoGaps, KeptOrGone
  <2>. QED
    BY <2>1, <2>2 DEF NoGaps, Numbers
<1>. QED
  BY <1>3, <1>4, <1>5, <1>6 DEF EntryInv

\* An item is edited in stock, its SKU and its number stay.
LEMMA ItemEdited ==
  ASSUME EntryInv, NEW i \in items, NEW j \in ItemRow,
         j.sku = i.sku, j.row = i.row, j.n = i.n,
         items' = (items \ {i}) \union {j},
         UNCHANGED <<categories, sequences, serial, attempts, req>>
  PROVE  EntryInv'
<1>1. \A t \in Requests : Raised(t)' = Raised(t) /\ Written(t)' = Written(t)
  BY DEF Raised, Written, Entering
<1>2. TypeOK'
  BY DEF EntryInv, TypeOK
<1>3. AllSequences' = AllSequences
  BY <1>1 DEF AllSequences
<1>4. AllItems' \subseteq (AllItems \ {i}) \union {j}
  BY <1>1 DEF AllItems, EntryInv, ItemsDiffer
<1>5. i \in AllItems
  BY DEF AllItems
<1>6. IdsGiven'
  BY <1>3, <1>4, <1>5 DEF EntryInv, IdsGiven
<1>7. RaisedByOne'
  BY <1>1 DEF EntryInv, RaisedByOne
<1>8. ItemsDiffer'
  <2>1. /\ \A a, b \in AllItems' : a.sku = b.sku => a = b
        /\ \A a, b \in AllItems' : a.row = b.row /\ a.n = b.n => a = b
    BY <1>4, <1>5 DEF EntryInv, ItemsDiffer
  <2>2. \A r \in Requests : j \notin Written(r)
    <3>1. ASSUME NEW r \in Requests, j \in Written(r) PROVE FALSE
      <4>1. j \in AllItems
        BY <3>1 DEF AllItems
      <4>2. i = j
        BY <4>1, <1>5 DEF EntryInv, ItemsDiffer
      <4>. QED
        BY <3>1, <4>2 DEF EntryInv, ItemsDiffer
    <3>. QED
      BY <3>1
  <2>3. \A r \in Requests : Written(r)' \cap items' = {}
    BY <1>1, <2>2 DEF EntryInv, ItemsDiffer
  <2>. QED
    BY <2>1, <2>3 DEF ItemsDiffer
<1>9. NoGaps'
  <2>1. ASSUME NEW W, NEW id
        PROVE  Numbers(((items \ {i}) \union {j}) \union W, id) = Numbers(items \union W, id)
    <3>. DEFINE A == {k \in ((items \ {i}) \union {j}) \union W : k.row = id}
                B == {k \in items \union W : k.row = id}
    <3>1. \A k \in A : \E l \in B : l.n = k.n
      OBVIOUS
    <3>2. \A k \in B : \E l \in A : l.n = k.n
      OBVIOUS
    <3>3. {k.n : k \in A} = {k.n : k \in B}
      <4>. HIDE DEF A, B
      <4>. QED
        BY <3>1, <3>2
    <3>. QED
      BY <3>3 DEF Numbers
  <2>2. \A id : Numbers(items', id) = Numbers(items, id)
    <3>1. \A S : S \union {} = S
      OBVIOUS
    <3>. QED
      BY <2>1, <3>1
  <2>3. \A r \in Requests : \A id :
          Numbers(items' \union Written(r)', id) = Numbers(items \union Written(r), id)
    BY <1>1, <2>1
  <2>4. \A s \in sequences' : Numbers(items', s.id) = 1..s.last
    BY <2>2 DEF EntryInv, NoGaps
  <2>5. \A r \in Requests : \A s \in Raised(r)' :
          Numbers(items' \union Written(r)', s.id) = 1..s.last
    <3>. TAKE r \in Requests
    <3>. TAKE s \in Raised(r)'
    <3>1. s \in Raised(r)
      BY <1>1
    <3>2. Numbers(items \union Written(r), s.id) = 1..s.last
      BY <3>1 DEF EntryInv, NoGaps
    <3>. QED
      BY <2>3, <3>2
  <2>6. \A r \in Requests : \A k \in Written(r)' : \E s \in Raised(r)' : s.id = k.row
    BY <1>1 DEF EntryInv, NoGaps
  <2>. QED
    BY <2>4, <2>5, <2>6 DEF NoGaps, Numbers
<1>10. CategoryIds'
  BY DEF EntryInv, CategoryIds
<1>. QED
  BY <1>2, <1>6, <1>7, <1>8, <1>9, <1>10 DEF EntryInv

\* An entry commits what it raised and wrote.
LEMMA Commits ==
  ASSUME EntryInv, NEW r \in Requests, CommitEntry(r)
  PROVE  EntryInv'
<1>. DEFINE R == Raised(r)
            W == Written(r)
<1>1. R = req[r].raised /\ W = req[r].written
  BY DEF CommitEntry, Raised, Written, Entering
<1>2. /\ sequences' = {s \in sequences : \A q \in R : q.id # s.id} \union R
      /\ items' = items \union W /\ req' = [req EXCEPT ![r] = Idle]
      /\ UNCHANGED <<categories, serial, attempts>>
  BY <1>1 DEF CommitEntry, Answer
<1>3. /\ req' \in [Requests -> Request]
      /\ Raised(r)' = {} /\ Written(r)' = {}
      /\ \A t \in Requests \ {r} : Raised(t)' = Raised(t) /\ Written(t)' = Written(t)
  BY <1>2, IdleType, RequestStep DEF EntryInv
<1>4. R \subseteq SequenceRow /\ W \subseteq ItemRow
  BY RaisedTypes DEF EntryInv
<1>5. TypeOK'
  BY <1>2, <1>3, <1>4 DEF EntryInv, TypeOK
<1>6. \A t \in Requests : Raised(t)' \subseteq Raised(t) /\ Written(t)' \subseteq Written(t)
  BY <1>3
<1>7. AllSequences' \subseteq AllSequences /\ AllItems' \subseteq AllItems
  BY <1>2, <1>6 DEF AllSequences, AllItems
<1>8. R \subseteq AllSequences /\ sequences \subseteq AllSequences
  BY DEF AllSequences
<1>9. IdsGiven'
  <2>1. \A s, t \in sequences' : s.id = t.id => s = t
    BY <1>2 DEF EntryInv, IdsGiven, RaisedByOne
  <2>. QED
    BY <1>2, <1>7, <2>1 DEF EntryInv, IdsGiven
<1>10. RaisedByOne'
  BY <1>6 DEF EntryInv, RaisedByOne
\* No other entry has raised a sequence of r's.
<1>11. ASSUME NEW t \in Requests, t # r, NEW s \in Raised(t), NEW q \in R PROVE s.id # q.id
  <2>1. s \in AllSequences /\ q \in AllSequences
    BY DEF AllSequences
  <2>. QED
    BY <1>11, <2>1 DEF EntryInv, IdsGiven, RaisedByOne
<1>12. ASSUME NEW t \in Requests, t # r PROVE Written(t) \cap W = {}
  BY <1>11, <1>12 DEF EntryInv, NoGaps
<1>13. ItemsDiffer'
  <2>1. \A t \in Requests : Written(t)' \cap items' = {}
    BY <1>2, <1>3, <1>12 DEF EntryInv, ItemsDiffer
  <2>. QED
    BY <1>7, <2>1 DEF EntryInv, ItemsDiffer
<1>14. NoGaps'
  <2>1. ASSUME NEW S, NEW id, \A q \in R : q.id # id
        PROVE  Numbers(S \union W, id) = Numbers(S, id)
    BY <2>1 DEF EntryInv, NoGaps, Numbers
  <2>2. ASSUME NEW s \in sequences' PROVE Numbers(items', s.id) = 1..s.last
    <3>1. CASE s \in R
      BY <3>1, <1>2 DEF EntryInv, NoGaps
    <3>2. CASE s \in sequences /\ \A q \in R : q.id # s.id
      <4>1. Numbers(items \union W, s.id) = Numbers(items, s.id)
        BY <3>2, <2>1
      <4>. QED
        BY <3>2, <4>1, <1>2 DEF EntryInv, NoGaps
    <3>. QED
      BY <1>2, <3>1, <3>2
  <2>3. ASSUME NEW t \in Requests
        PROVE  /\ \A s \in Raised(t)' : Numbers(items' \union Written(t)', s.id) = 1..s.last
               /\ \A i \in Written(t)' : \E s \in Raised(t)' : s.id = i.row
    <3>1. CASE t = r
      BY <1>3, <3>1
    <3>2. CASE t # r
      <4>1. Raised(t)' = Raised(t) /\ Written(t)' = Written(t)
        BY <1>3, <3>2
      <4>2. ASSUME NEW s \in Raised(t)
            PROVE  Numbers(items' \union Written(t), s.id) = 1..s.last
        <5>1. Numbers((items \union Written(t)) \union W, s.id)
                = Numbers(items \union Written(t), s.id)
          BY <3>2, <1>11, <2>1
        <5>2. (items \union Written(t)) \union W = items' \union Written(t)
          BY <1>2
        <5>. QED
          BY <5>1, <5>2 DEF EntryInv, NoGaps
      <4>. QED
        BY <4>1, <4>2 DEF EntryInv, NoGaps
    <3>. QED
      BY <3>1, <3>2
  <2>. QED
    BY <2>2, <2>3 DEF NoGaps, Numbers
<1>15. CategoryIds'
  BY <1>2 DEF EntryInv, CategoryIds
<1>. QED
  BY <1>5, <1>9, <1>10, <1>13, <1>14, <1>15 DEF EntryInv

\* q may be the row of the sequence of c and m that request r raises: nobody else
\* has raised it, and it is one more than r sees drawn.
RaisedWell(r, c, m, q) ==
  /\ q \in SequenceRow /\ q.category = c /\ q.metal = m /\ q.id <= serial + 1
  /\ q.last >= 1
  /\ \A s \in AllSequences : s.id = q.id => s.category = c /\ s.metal = m
  /\ \A t \in Requests \ {r} : \A s \in Raised(t) : s.id # q.id
  /\ Numbers(items \union Written(r), q.id) = 1..(q.last - 1)

\* The entry's own row, a committed one that nobody has raised, or a new one is.
LEMMA RaisedNext ==
  ASSUME EntryInv, NEW r \in Requests, NEW c \in Nat, NEW m \in Metals, ~Locked(r, c, m)
  PROVE  RaisedWell(r, c, m, Raise(Sequence(r, c, m), c, m))
<1>. DEFINE seqs == Sequence(r, c, m)
<1>q. PICK q : q = Raise(seqs, c, m)
  OBVIOUS
<1>. SUFFICES RaisedWell(r, c, m, q)
  BY <1>q
<1>0. serial \in Nat /\ \A s \in AllSequences : s \in SequenceRow
  BY RaisedTypes DEF EntryInv, TypeOK, AllSequences
<1>1. ASSUME NEW t \in Requests \ {r}, NEW s \in Raised(t), s.category = c, s.metal = m
      PROVE  FALSE
  BY <1>1 DEF Locked
<1>2. CASE seqs = {}
  <2>1. q = [id |-> serial + 1, category |-> c, metal |-> m, last |-> 1]
    BY <1>2, <1>q DEF Raise
  <2>2. \A s \in AllSequences : s.id # q.id
    <3>1. \A s \in AllSequences : s.id \in Nat /\ s.id <= serial
      BY <1>0 DEF SequenceRow, EntryInv, IdsGiven
    <3>. QED
      BY <1>0, <2>1, <3>1
  <2>3. \A i \in AllItems : i.row # q.id
    <3>1. \A i \in AllItems : i.row \in Nat /\ i.row <= serial
      BY RaisedTypes DEF EntryInv, TypeOK, AllItems, ItemRow, IdsGiven
    <3>. QED
      BY <1>0, <2>1, <3>1
  <2>4. items \union Written(r) \subseteq AllItems
    BY DEF AllItems
  <2>5. Numbers(items \union Written(r), q.id) = {}
    BY <2>3, <2>4 DEF Numbers
  <2>6. \A t \in Requests : Raised(t) \subseteq AllSequences
    BY DEF AllSequences
  <2>7. q \in SequenceRow /\ q.last = 1
    BY <1>0, <2>1 DEF SequenceRow
  <2>8. 1..(q.last - 1) = {}
    BY <2>7
  <2>9. q.category = c /\ q.metal = m /\ q.id <= serial + 1 /\ q.last >= 1
    BY <1>0, <2>1
  <2>10. \A t \in Requests \ {r} : \A s \in Raised(t) : s.id # q.id
    BY <2>2, <2>6
  <2>11. Numbers(items \union Written(r), q.id) = 1..(q.last - 1)
    BY <2>5, <2>8
  <2>12. \A s \in AllSequences : s.id = q.id => s.category = c /\ s.metal = m
    BY <2>2
  <2>. QED
    BY <2>7, <2>9, <2>10, <2>11, <2>12 DEF RaisedWell
<1>3. CASE seqs # {}
  <2>1. PICK s \in seqs : q = [s EXCEPT !.last = @ + 1]
    BY <1>3, <1>q DEF Raise
  <2>2. s \in AllSequences /\ s.category = c /\ s.metal = m
    BY DEF Sequence, AllSequences
  <2>3. /\ s \in SequenceRow /\ q \in SequenceRow /\ q.id = s.id /\ q.last = s.last + 1
        /\ q.category = s.category /\ q.metal = s.metal
    BY <1>0, <2>1, <2>2 DEF SequenceRow
  <2>4. \A t \in AllSequences : t.id = q.id => t.category = c /\ t.metal = m
    BY <2>2, <2>3 DEF EntryInv, IdsGiven
  <2>5. \A t \in Requests \ {r} : \A p \in Raised(t) : p.id # q.id
    BY <1>1, <2>4 DEF AllSequences
  <2>6. Numbers(items \union Written(r), s.id) = 1..s.last
    <3>1. CASE s \in Raised(r)
      BY <3>1 DEF EntryInv, NoGaps
    <3>2. CASE s \in sequences /\ \A p \in Raised(r) : p.id # s.id
      <4>1. \A i \in Written(r) : i.row # s.id
        BY <3>2 DEF EntryInv, NoGaps
      <4>2. Numbers(items \union Written(r), s.id) = Numbers(items, s.id)
        BY <4>1 DEF Numbers
      <4>. QED
        BY <3>2, <4>2 DEF EntryInv, NoGaps
    <3>. QED
      BY <3>1, <3>2 DEF Sequence
  <2>7. s.id \in Nat /\ s.last \in Nat /\ s.id <= serial
    BY <2>2, <2>3 DEF SequenceRow, EntryInv, IdsGiven
  <2>8. q.id <= serial + 1 /\ q.last >= 1 /\ q.last - 1 = s.last
    BY <1>0, <2>3, <2>7
  <2>. QED
    BY <2>2, <2>3, <2>4, <2>5, <2>6, <2>8 DEF RaisedWell
<1>. QED
  BY <1>2, <1>3

\* An entry draws a number and makes the item.
LEMMA Draws ==
  ASSUME EntryInv, EntryAssumption, NEW r \in Requests, Draw(r)
  PROVE  EntryInv'
<1>0. req[r] \in EnterRequest /\ serial \in Nat /\ r \in Entering
  BY RequestTypes DEF Draw, EntryInv, TypeOK, Entering
<1>1. Head(req[r].rows) \in [metal: Metals, category: Nat] /\ Tail(req[r].rows) \in Seq([metal: Metals, category: Nat])
  <2>. DEFINE S == [metal: Metals, category: Nat]
              rows == req[r].rows
  <2>1. rows \in Seq(S) /\ rows # <<>>
    BY <1>0 DEF Draw, EnterRequest
  <2>. HIDE DEF S, rows
  <2>2. Head(rows) \in S /\ Tail(rows) \in Seq(S)
    BY <2>1
  <2>. QED
    BY <2>2 DEF S, rows
<1>. DEFINE cc == Head(req[r].rows).category
            mm == Head(req[r].rows).metal
            qq == Raise(Sequence(r, cc, mm), cc, mm)
            Drawn(c, m, q) ==
              \E code \in req[r].codes :
                /\ Fresh(Sku(code, q.last, m))
                /\ Proceed(r, [req[r] EXCEPT
                     !.rows = Tail(@), !.codes = {},
                     !.raised = {p \in @ : p.id # q.id} \union {q},
                     !.written = @ \union
                       {Item(serial + 1, Sku(code, q.last, m), c, q.id, q.last)}])
<1>2. cc \in Nat /\ mm \in Metals /\ ~Locked(r, cc, mm) /\ Drawn(cc, mm, qq)
  <2>1. cc \in Nat /\ mm \in Metals
    BY <1>1
  <2>. QED
    BY <2>1, Zenon DEF Draw
<1>3a. \E c \in Nat, m \in Metals : \E q :
         q = Raise(Sequence(r, c, m), c, m) /\ ~Locked(r, c, m) /\ Drawn(c, m, q)
  <2>1. qq = Raise(Sequence(r, cc, mm), cc, mm)
    OBVIOUS
  <2>. HIDE DEF cc, mm, qq, Drawn
  <2>. QED
    BY <1>2, <2>1, Zenon
<1>3b. PICK c \in Nat, m \in Metals : \E q :
         q = Raise(Sequence(r, c, m), c, m) /\ ~Locked(r, c, m) /\ Drawn(c, m, q)
  BY <1>3a, Zenon
<1>3. PICK q :
        q = Raise(Sequence(r, c, m), c, m) /\ ~Locked(r, c, m) /\ Drawn(c, m, q)
  BY <1>3b, Zenon
<1>4. PICK code \in req[r].codes :
        /\ Fresh(Sku(code, q.last, m))
        /\ Proceed(r, [req[r] EXCEPT
             !.rows = Tail(@), !.codes = {},
             !.raised = {p \in @ : p.id # q.id} \union {q},
             !.written = @ \union
               {Item(serial + 1, Sku(code, q.last, m), c, q.id, q.last)}])
  BY <1>3, Zenon
<1>5. serial' = serial + 1 /\ UNCHANGED <<categories, sequences, items, attempts>>
  BY DEF Draw, NextId
<1>. HIDE DEF cc, mm, qq, Drawn
<1>6. /\ q \in SequenceRow /\ q.category = c /\ q.metal = m /\ q.id <= serial + 1
      /\ q.last >= 1
      /\ \A s \in AllSequences : s.id = q.id => s.category = c /\ s.metal = m
      /\ \A t \in Requests \ {r} : \A s \in Raised(t) : s.id # q.id
      /\ Numbers(items \union Written(r), q.id) = 1..(q.last - 1)
  <2>1. RaisedWell(r, c, m, q)
    BY <1>3, RaisedNext
  <2>. QED
    BY <2>1 DEF RaisedWell
<1>7. q.id \in Nat /\ q.last \in Nat
  BY <1>6 DEF SequenceRow
<1>8. PICK sku : sku = Sku(code, q.last, m)
  OBVIOUS
<1>9. PICK new : new = Item(serial + 1, sku, c, q.id, q.last)
  OBVIOUS
<1>10. /\ new \in ItemRow /\ new.row = q.id /\ new.n = q.last /\ new.sku = sku
       /\ \A i \in items \union UNION {Written(s) : s \in Requests} : i.sku # sku
  <2>1. code \in Codes
    BY <1>0 DEF EnterRequest
  <2>2. sku \in Codes \X Nat \X {Suffix[x] : x \in Metals}
    BY <1>7, <1>8, <2>1 DEF Sku
  <2>3. serial + 1 \in Nat
    BY <1>0
  <2>. QED
    BY <1>4, <1>7, <1>8, <1>9, <2>2, <2>3 DEF Item, ItemRow, Fresh
<1>11. PICK p : p = [req[r] EXCEPT !.rows = Tail(@), !.codes = {},
                        !.raised = {s \in @ : s.id # q.id} \union {q},
                        !.written = @ \union {new}]
  OBVIOUS
<1>12. /\ p \in EnterRequest /\ p.op = "enter"
       /\ p.raised = {s \in Raised(r) : s.id # q.id} \union {q}
       /\ p.written = Written(r) \union {new}
  <2>1. /\ req[r].raised \in SUBSET SequenceRow /\ req[r].written \in SUBSET ItemRow
        /\ Raised(r) = req[r].raised /\ Written(r) = req[r].written
    BY <1>0 DEF EnterRequest, Raised, Written
  <2>2. /\ {s \in req[r].raised : s.id # q.id} \union {q} \in SUBSET SequenceRow
        /\ req[r].written \union {new} \in SUBSET ItemRow
        /\ {} \in SUBSET Codes
    BY <1>6, <1>10, <2>1
  <2>. QED
    BY <1>0, <1>1, <1>11, <2>1, <2>2 DEF EnterRequest
<1>13. req' = [req EXCEPT ![r] = p] /\ p \in Request
  BY <1>4, <1>8, <1>9, <1>11, <1>12 DEF Proceed, Request
<1>14. /\ req' \in [Requests -> Request]
       /\ Raised(r)' = {s \in Raised(r) : s.id # q.id} \union {q}
       /\ Written(r)' = Written(r) \union {new}
       /\ \A t \in Requests \ {r} : Raised(t)' = Raised(t) /\ Written(t)' = Written(t)
  BY <1>12, <1>13, RequestStep DEF EntryInv
<1>15. TypeOK'
  BY <1>0, <1>5, <1>14 DEF EntryInv, TypeOK
<1>16. AllSequences' \subseteq AllSequences \union {q} /\ AllItems' = AllItems \union {new}
  BY <1>5, <1>14 DEF AllSequences, AllItems
<1>17. new \notin AllItems /\ \A i \in AllItems : i.sku # new.sku
  BY <1>10 DEF AllItems
\* No item has the number: in this entry by the count, in another by the lock.
<1>18. ASSUME NEW i \in AllItems, i.row = q.id, i.n = q.last PROVE FALSE
  <2>1. CASE i \in items \union Written(r)
    <3>1. i.n \in Numbers(items \union Written(r), q.id)
      BY <1>18, <2>1 DEF Numbers
    <3>. QED
      BY <1>6, <1>7, <1>18, <3>1
  <2>2. ASSUME NEW t \in Requests \ {r}, i \in Written(t) PROVE FALSE
    BY <1>6, <1>18, <2>2 DEF EntryInv, NoGaps
  <2>. QED
    BY <2>1, <2>2 DEF AllItems
<1>19. IdsGiven'
  <2>1. /\ \A s \in AllSequences' : s.id <= serial'
        /\ \A i \in AllItems' : i.row <= serial'
    <3>1. \A s \in AllSequences : s.id \in Nat /\ s.id <= serial
      BY RaisedTypes DEF EntryInv, TypeOK, AllSequences, SequenceRow, IdsGiven
    <3>2. \A i \in AllItems : i.row \in Nat /\ i.row <= serial
      BY RaisedTypes DEF EntryInv, TypeOK, AllItems, ItemRow, IdsGiven
    <3>3. \A n \in Nat : n <= serial => n <= serial + 1
      BY <1>0
    <3>. QED
      BY <1>5, <1>6, <1>10, <1>16, <3>1, <3>2, <3>3
  <2>2. \A s, t \in AllSequences' :
          s.id = t.id => s.category = t.category /\ s.metal = t.metal
    BY <1>6, <1>16 DEF EntryInv, IdsGiven
  <2>3. \A s, t \in sequences' : s.id = t.id => s = t
    BY <1>5 DEF EntryInv, IdsGiven
  <2>. QED
    BY <2>1, <2>2, <2>3 DEF IdsGiven
<1>20. RaisedByOne'
  <2>1. ASSUME NEW t \in Requests, NEW u \in Requests, NEW s \in Raised(t)', NEW v \in Raised(u)',
               s.category = v.category, s.metal = v.metal, t # u
        PROVE  FALSE
    <3>1. \A x \in Requests \ {r} : \A y \in Raised(x) : ~(y.category = c /\ y.metal = m)
      BY <1>3 DEF Locked
    <3>2. CASE s = q /\ t = r
      BY <1>6, <1>14, <2>1, <3>1, <3>2
    <3>3. CASE v = q /\ u = r
      BY <1>6, <1>14, <2>1, <3>1, <3>3
    <3>4. CASE ~(s = q /\ t = r) /\ ~(v = q /\ u = r)
      <4>1. s \in Raised(t) /\ v \in Raised(u)
        BY <1>14, <3>4
      <4>. QED
        BY <2>1, <4>1 DEF EntryInv, RaisedByOne
    <3>. QED
      BY <3>2, <3>3, <3>4
  <2>2. \A t \in Requests : \A s, v \in Raised(t)' : s.id = v.id => s = v
    BY <1>14 DEF EntryInv, RaisedByOne
  <2>. QED
    BY <2>1, <2>2 DEF RaisedByOne
<1>21. ItemsDiffer'
  <2>1. \A i, j \in AllItems' : i.sku = j.sku => i = j
    BY <1>16, <1>17 DEF EntryInv, ItemsDiffer
  <2>2. \A i, j \in AllItems' : i.row = j.row /\ i.n = j.n => i = j
    BY <1>10, <1>16, <1>18 DEF EntryInv, ItemsDiffer
  <2>3. \A t \in Requests : Written(t)' \cap items' = {}
    <3>1. new \notin items
      BY <1>17 DEF AllItems
    <3>. QED
      BY <1>5, <1>14, <3>1 DEF EntryInv, ItemsDiffer
  <2>. QED
    BY <2>1, <2>2, <2>3 DEF ItemsDiffer
<1>22. NoGaps'
  <2>1. \A s \in sequences' : Numbers(items', s.id) = 1..s.last
    BY <1>5 DEF EntryInv, NoGaps
  <2>2. ASSUME NEW s \in Raised(r)'
        PROVE  Numbers(items' \union Written(r)', s.id) = 1..s.last
    <3>. DEFINE S == items \union Written(r)
    <3>1. items' \union Written(r)' = S \union {new}
      BY <1>5, <1>14
    <3>2. CASE s = q
      <4>1. Numbers(S \union {new}, q.id) = Numbers(S, q.id) \union {q.last}
        BY <1>10 DEF Numbers
      <4>2. 1..q.last = (1..(q.last - 1)) \union {q.last}
        BY <1>6, <1>7
      <4>. QED
        BY <1>6, <3>1, <3>2, <4>1, <4>2
    <3>3. CASE s # q
      <4>1. s \in Raised(r) /\ s.id # q.id
        BY <1>14, <3>3
      <4>2. Numbers(S \union {new}, s.id) = Numbers(S, s.id)
        BY <1>10, <4>1 DEF Numbers
      <4>. QED
        BY <3>1, <4>1, <4>2 DEF EntryInv, NoGaps
    <3>. QED
      BY <3>2, <3>3
  <2>3. \A i \in Written(r)' : \E s \in Raised(r)' : s.id = i.row
    <3>1. \A s \in Raised(r) : \E v \in Raised(r)' : v.id = s.id
      BY <1>14
    <3>2. q \in Raised(r)'
      BY <1>14
    <3>. QED
      BY <1>10, <1>14, <3>1, <3>2 DEF EntryInv, NoGaps
  <2>4. ASSUME NEW t \in Requests \ {r}
        PROVE  /\ \A s \in Raised(t)' : Numbers(items' \union Written(t)', s.id) = 1..s.last
               /\ \A i \in Written(t)' : \E s \in Raised(t)' : s.id = i.row
    <3>1. Raised(t)' = Raised(t) /\ Written(t)' = Written(t) /\ items' = items
      BY <1>5, <1>14
    <3>2. NoGaps
      BY DEF EntryInv
    <3>. QED
      BY <3>1, <3>2 DEF NoGaps
  <2>. QED
    BY <2>1, <2>2, <2>3, <2>4 DEF NoGaps, Numbers
<1>23. CategoryIds'
  BY <1>0, <1>5 DEF EntryInv, TypeOK, CategoryRow, CategoryIds
<1>. QED
  BY <1>15, <1>19, <1>20, <1>21, <1>22, <1>23 DEF EntryInv

-----------------------------------------------------------------------------
(* The other operations.                                                   *)

\* A request begins or goes on in one of these ways: sequences may go, ids come.
LEMMA RequestPreserves ==
  ASSUME EntryInv, NEW r \in Requests, NEW q \in Request, req' = [req EXCEPT ![r] = q],
         q.op = "enter" => \/ q.raised = {} /\ q.written = {}
                           \/ q.raised = Raised(r) /\ q.written = Written(r),
         categories' \subseteq CategoryRow, CategoryIds',
         sequences' \subseteq sequences, items' = items,
         serial' \in Nat, serial <= serial', attempts' \in Nat
  PROVE  EntryInv'
<1>1. /\ req' \in [Requests -> Request] /\ KeptOrGone(r)
      /\ \A t \in Requests \ {r} : Raised(t)' = Raised(t) /\ Written(t)' = Written(t)
  BY RequestStep DEF EntryInv, KeptOrGone
<1>2. TypeOK'
  BY <1>1 DEF EntryInv, TypeOK
<1>3. \A t \in Requests : KeptOrGone(t)
  BY <1>1 DEF KeptOrGone
<1>. QED
  BY <1>2, <1>3, Shrinks

\* No category changes.
LEMMA IdsKept ==
  ASSUME EntryInv, categories' = categories, serial' \in Nat, serial <= serial'
  PROVE  CategoryIds'
BY DEF EntryInv, TypeOK, CategoryRow, CategoryIds

\* An edited category is one.
LEMMA EditedType ==
  ASSUME EntryAssumption, NEW c \in CategoryRow,
         NEW data \in Edits \union {[active |-> FALSE]}
  PROVE  Edited(c, data) \in CategoryRow /\ Edited(c, data).id = c.id
<1>1. DOMAIN c = {"id", "name", "code", "active", "protected"}
  BY DEF CategoryRow
<1>2. /\ c.id \in Nat /\ c.name \in Names /\ c.code \in Codes /\ c.active \in BOOLEAN
      /\ c.protected \in BOOLEAN
  BY DEF CategoryRow
<1>3. /\ "name" \in DOMAIN data => data["name"] \in Names
      /\ "code" \in DOMAIN data => data["code"] \in Codes
      /\ "active" \in DOMAIN data => data["active"] \in BOOLEAN
      /\ "id" \notin DOMAIN data /\ "protected" \notin DOMAIN data
  <2>1. CASE data \in Edits
    <3>1. /\ "name" \in DOMAIN data => data.name \in Names
          /\ "code" \in DOMAIN data => data.code \in Codes
          /\ "active" \in DOMAIN data => data.active \in BOOLEAN
          /\ DOMAIN data \subseteq {"name", "code", "active"}
      BY <2>1, Zenon DEF EntryAssumption
    <3>. QED
      BY <3>1
  <2>2. CASE data = [active |-> FALSE]
    BY <2>2
  <2>. QED
    BY <2>1, <2>2
<1>. DEFINE e == Edited(c, data)
<1>4. e = [f \in DOMAIN c |-> IF f \in DOMAIN data THEN data[f] ELSE c[f]]
  BY DEF Edited
<1>5. /\ e.id \in Nat /\ e.name \in Names /\ e.code \in Codes /\ e.active \in BOOLEAN
      /\ e.protected \in BOOLEAN /\ e.id = c.id
  BY <1>1, <1>2, <1>3, <1>4
<1>6. e = [id |-> e.id, name |-> e.name, code |-> e.code, active |-> e.active,
           protected |-> e.protected]
  BY <1>1, <1>4
<1>. QED
  BY <1>5, <1>6 DEF CategoryRow

\* Categories are made, edited and deleted, whatever of them is checked.
LEMMA CataloguingPreserves ==
  ASSUME EntryAssumption, EntryInv, NEW r \in Requests, Cataloguing(r) PROVE EntryInv'
<1>0. /\ categories \subseteq CategoryRow /\ serial \in Nat /\ attempts \in Nat
      /\ req[r] \in Request /\ serial <= serial
      /\ Idle \in Request /\ Idle.op # "enter"
  BY IdleType DEF EntryInv, TypeOK
<1>1. ASSUME NEW n \in Names, NEW k \in Codes, PlanCategory(r, n, k) PROVE EntryInv'
  <2>. DEFINE q == [op |-> "new", name |-> n, code |-> k]
  <2>1. q \in Request /\ q.op # "enter"
    BY DEF Request, NewRequest
  <2>2. req' = [req EXCEPT ![r] = q] /\ UNCHANGED Tables
    BY <1>1 DEF PlanCategory, Submit
  <2>. HIDE DEF q
  <2>. QED
    BY <1>0, <2>1, <2>2, IdsKept, RequestPreserves DEF Tables
<1>2. ASSUME NEW c \in categories, NEW data \in Edits, PlanUpdate(r, c, data) PROVE EntryInv'
  <2>. DEFINE q == [op |-> "update", id |-> c.id, data |-> data]
  <2>1. q \in Request /\ q.op # "enter"
    BY <1>0 DEF Request, UpdateRequest, CategoryRow
  <2>2. req' = [req EXCEPT ![r] = q] /\ UNCHANGED Tables
    BY <1>2 DEF PlanUpdate, Submit
  <2>. HIDE DEF q
  <2>. QED
    BY <1>0, <2>1, <2>2, IdsKept, RequestPreserves DEF Tables
<1>3. ASSUME NEW c \in categories, PlanDeactivate(r, c) PROVE EntryInv'
  <2>. DEFINE q == [op |-> "update", id |-> c.id, data |-> [active |-> FALSE]]
  <2>1. q \in Request /\ q.op # "enter"
    BY <1>0 DEF Request, UpdateRequest, CategoryRow
  <2>2. req' = [req EXCEPT ![r] = q] /\ UNCHANGED Tables
    BY <1>3 DEF PlanDeactivate, Submit
  <2>. HIDE DEF q
  <2>. QED
    BY <1>0, <2>1, <2>2, IdsKept, RequestPreserves DEF Tables
<1>4. ASSUME NEW c \in categories, PlanDelete(r, c) PROVE EntryInv'
  <2>. DEFINE q == [op |-> "delete", id |-> c.id]
  <2>1. q \in Request /\ q.op # "enter"
    BY <1>0 DEF Request, DeleteRequest, CategoryRow
  <2>2. req' = [req EXCEPT ![r] = q] /\ UNCHANGED Tables
    BY <1>4 DEF PlanDelete, Submit
  <2>. HIDE DEF q
  <2>. QED
    BY <1>0, <2>1, <2>2, IdsKept, RequestPreserves DEF Tables
<1>5. ASSUME CommitCategory(r) PROVE EntryInv'
  <2>1. req[r].name \in Names /\ req[r].code \in Codes
    BY <1>0, <1>5, RequestTypes DEF CommitCategory, NewRequest
  <2>2. serial' = serial + 1 /\ serial' \in Nat /\ serial <= serial'
    BY <1>0, <1>5 DEF CommitCategory, NextId
  <2>3. categories' \subseteq CategoryRow
    <3>1. [id |-> serial', name |-> req[r].name, code |-> req[r].code,
           active |-> TRUE, protected |-> FALSE] \in CategoryRow
      BY <2>1, <2>2 DEF CategoryRow
    <3>. QED
      BY <1>0, <1>5, <3>1 DEF CommitCategory
  <2>4. /\ req' = [req EXCEPT ![r] = Idle] /\ sequences' = sequences /\ items' = items
        /\ attempts' = attempts
    BY <1>5 DEF CommitCategory, Answer
  <2>5. CategoryIds'
    <3>1. \A c \in categories : c.id \in Nat /\ c.id <= serial
      BY <1>0 DEF EntryInv, CategoryIds, CategoryRow
    <3>2. PICK row : row.id = serial + 1 /\ categories' = categories \union {row}
      BY <1>5, <2>2 DEF CommitCategory
    <3>3. \A c, d \in categories : c.id = d.id => c = d
      BY DEF EntryInv, CategoryIds
    <3>4. /\ \A c \in categories' : c.id <= serial + 1
          /\ \A c, d \in categories' : c.id = d.id => c = d
      BY <1>0, <3>1, <3>2, <3>3
    <3>. QED
      BY <2>2, <3>4 DEF CategoryIds
  <2>. QED
    BY <1>0, <2>2, <2>3, <2>4, <2>5, RequestPreserves
<1>6. ASSUME CommitUpdate(r) PROVE EntryInv'
  <2>1. req[r].data \in Edits \union {[active |-> FALSE]}
    BY <1>0, <1>6, RequestTypes DEF CommitUpdate, UpdateRequest
  <2>2. \A c \in categories : /\ Edited(c, req[r].data) \in CategoryRow
                              /\ Edited(c, req[r].data).id = c.id
    BY <1>0, <2>1, EditedType
  <2>0. PICK c \in categories :
          categories' = (categories \ {c}) \union {Edited(c, req[r].data)}
    BY <1>6, Zenon DEF CommitUpdate
  <2>3. categories' \subseteq CategoryRow
    BY <1>0, <2>0, <2>2
  <2>4. /\ req' = [req EXCEPT ![r] = Idle] /\ sequences' = sequences /\ items' = items
        /\ attempts' = attempts /\ serial' = serial
    BY <1>6 DEF CommitUpdate, Answer
  <2>5. CategoryIds'
    BY <2>0, <2>2, <2>4 DEF EntryInv, CategoryIds
  <2>. QED
    BY <1>0, <2>3, <2>4, <2>5, RequestPreserves
<1>7. ASSUME DropSequences(r) PROVE EntryInv'
  <2>. DEFINE q == [op |-> "drop", id |-> req[r].id]
  <2>1. q \in Request /\ q.op # "enter"
    BY <1>0, <1>7, RequestTypes DEF DropSequences, Request, DeleteRequest
  <2>2. /\ req' = [req EXCEPT ![r] = q] /\ sequences' \subseteq sequences
        /\ UNCHANGED <<categories, items, serial, attempts>>
    BY <1>7 DEF DropSequences, Proceed
  <2>. HIDE DEF q
  <2>. QED
    BY <1>0, <2>1, <2>2, IdsKept, RequestPreserves
<1>8. ASSUME DropCategory(r) PROVE EntryInv'
  <2>1. /\ req' = [req EXCEPT ![r] = Idle] /\ categories' \subseteq CategoryRow
        /\ UNCHANGED <<sequences, items, serial, attempts>>
    BY <1>0, <1>8 DEF DropCategory, Answer
  <2>2. CategoryIds'
    BY <1>8, <2>1 DEF EntryInv, CategoryIds, DropCategory
  <2>. QED
    BY <1>0, <2>1, <2>2, RequestPreserves
<1>. QED
  BY <1>1, <1>2, <1>3, <1>4, <1>5, <1>6, <1>7, <1>8 DEF Cataloguing

\* An entry begins.
LEMMA PlanEntryPreserves ==
  ASSUME EntryAssumption, EntryInv, NEW r \in Requests, NEW sheet \in Sheets, NEW b,
         PlanEntry(r, sheet, b)
  PROVE  EntryInv'
<1>. DEFINE S == [metal: Metals, category: Nat]
            rows == [i \in DOMAIN sheet |->
                  [metal |-> sheet[i].metal,
                   category |-> (CHOOSE c \in categories : c.name = sheet[i].name).id]]
            q == [op |-> "enter", raised |-> {}, written |-> {}, codes |-> {}, rows |-> rows]
<1>1. sheet \in Seq([name: Names, metal: Metals])
  BY DEF EntryAssumption
<1>2. rows \in [1..Len(sheet) -> S] /\ Len(sheet) \in Nat
  <2>1. DOMAIN sheet = 1..Len(sheet) /\ Len(sheet) \in Nat
    BY <1>1
  <2>2. ASSUME NEW i \in 1..Len(sheet)
        PROVE  (CHOOSE c \in categories : c.name = sheet[i].name).id \in Nat
    <3>1. \E c \in categories : c.name = sheet[i].name
      BY <2>1 DEF PlanEntry
    <3>2. (CHOOSE c \in categories : c.name = sheet[i].name) \in categories
      BY <3>1
    <3>. QED
      BY <3>2 DEF EntryInv, TypeOK, CategoryRow
  <2>3. \A i \in 1..Len(sheet) : sheet[i].metal \in Metals
    <3>1. \A i \in 1..Len(sheet) : sheet[i] \in [name: Names, metal: Metals]
      <4>. DEFINE T == [name: Names, metal: Metals]
      <4>1. sheet \in Seq(T)
        BY <1>1
      <4>. HIDE DEF T
      <4>2. \A i \in 1..Len(sheet) : sheet[i] \in T
        BY <4>1
      <4>. QED
        BY <4>2 DEF T
    <3>. QED
      BY <3>1
  <2>. QED
    BY <2>1, <2>2, <2>3
<1>3. rows \in Seq(S)
  <2>. DEFINE n == Len(sheet)
  <2>1. n \in Nat /\ rows \in [1..n -> S]
    BY <1>2
  <2>. HIDE DEF n, rows, S
  <2>. QED
    BY <2>1
<1>4. q \in Request
  BY <1>3 DEF Request, EnterRequest
<1>5. /\ req' = [req EXCEPT ![r] = q] /\ attempts' = attempts + 1
      /\ UNCHANGED <<categories, sequences, items, serial>>
  BY DEF PlanEntry, Submit
<1>6. attempts' \in Nat /\ categories \subseteq CategoryRow /\ serial \in Nat
      /\ serial <= serial
  BY <1>5 DEF EntryInv, TypeOK
<1>7. q.raised = {} /\ q.written = {}
  OBVIOUS
<1>. HIDE DEF q
<1>. QED
  BY <1>4, <1>5, <1>6, <1>7, IdsKept, RequestPreserves

\* An entry has read the category of its next row.
LEMMA ReadPreserves ==
  ASSUME EntryInv, NEW r \in Requests, ReadCategory(r)
  PROVE  EntryInv'
<1>1. req[r] \in EnterRequest /\ r \in Entering /\ UNCHANGED Tables
  BY RequestTypes DEF ReadCategory, EntryInv, TypeOK, Entering
<1>2. PICK k \in categories : req' = [req EXCEPT ![r] = [req[r] EXCEPT !.codes = {k.code}]]
  BY DEF ReadCategory, Proceed
<1>3. PICK q : q = [req[r] EXCEPT !.codes = {k.code}]
  OBVIOUS
<1>4. k.code \in Codes /\ categories \subseteq CategoryRow /\ serial \in Nat
      /\ attempts \in Nat /\ serial <= serial
  BY DEF EntryInv, TypeOK, CategoryRow
<1>5. /\ q \in EnterRequest /\ q.raised = Raised(r) /\ q.written = Written(r)
  BY <1>1, <1>3, <1>4 DEF EnterRequest, Raised, Written
<1>6. q \in Request /\ req' = [req EXCEPT ![r] = q]
  BY <1>2, <1>3, <1>5 DEF Request
<1>. QED
  BY <1>1, <1>4, <1>5, <1>6, IdsKept, RequestPreserves DEF Tables

-----------------------------------------------------------------------------
(* The theorems.                                                           *)

LEMMA InitInv == ASSUME EntryAssumption, Init PROVE EntryInv
<1>1. /\ \A r \in Requests : req[r] = Idle /\ Raised(r) = {} /\ Written(r) = {}
      /\ sequences = {} /\ items = {} /\ serial = 1
  BY IdleType DEF Init, Raised, Written, Entering
<1>2. TypeOK
  <2>1. (CHOOSE n \in Names : TRUE) \in Names /\ (CHOOSE c \in Codes : TRUE) \in Codes
    BY DEF EntryAssumption
  <2>2. categories \subseteq CategoryRow
    BY <2>1 DEF Init, CategoryRow
  <2>. QED
    BY <2>2, IdleType DEF Init, TypeOK
<1>3. AllSequences = {} /\ AllItems = {}
  BY <1>1 DEF AllSequences, AllItems
<1>4. CategoryIds
  BY DEF Init, CategoryIds
<1>. QED
  BY <1>1, <1>2, <1>3, <1>4 DEF EntryInv, IdsGiven, RaisedByOne, ItemsDiffer, NoGaps

LEMMA StepInv == ASSUME EntryAssumption, EntryInv, [Next]_vars PROVE EntryInv'
<1>0. /\ categories \subseteq CategoryRow /\ serial \in Nat /\ attempts \in Nat
      /\ items \subseteq ItemRow /\ serial <= serial /\ Idle \in Request /\ Idle.op # "enter"
  BY IdleType DEF EntryInv, TypeOK
<1>1. CASE UNCHANGED vars
  <2>1. \A t \in Requests : Raised(t)' = Raised(t) /\ Written(t)' = Written(t)
    BY <1>1 DEF vars, Raised, Written, Entering
  <2>2. TypeOK' /\ serial <= serial' /\ sequences' \subseteq sequences /\ items' = items
    BY <1>0, <1>1 DEF vars, EntryInv, TypeOK
  <2>. QED
    BY <1>0, <1>1, <2>1, <2>2, IdsKept, Shrinks DEF KeptOrGone, vars
<1>2. ASSUME NEW r \in Requests, EnteringStock(r) PROVE EntryInv'
  BY <1>2, PlanEntryPreserves, ReadPreserves, Draws, Commits DEF EnteringStock
<1>3. ASSUME NEW r \in Requests, Abort(r) PROVE EntryInv'
  <2>1. req' = [req EXCEPT ![r] = Idle] /\ UNCHANGED Tables
    BY <1>3 DEF Abort, Answer
  <2>. QED
    BY <1>0, <2>1, IdsKept, RequestPreserves DEF Tables
<1>4. ASSUME NEW n \in Names, Reactivate(n) PROVE EntryInv'
  <2>1. \A c \in categories : [c EXCEPT !.active = TRUE] \in CategoryRow
    BY <1>0 DEF CategoryRow
  <2>2. categories' \subseteq CategoryRow
    BY <1>0, <1>4, <2>1 DEF Reactivate
  <2>3. \A t \in Requests : Raised(t)' = Raised(t) /\ Written(t)' = Written(t)
    BY <1>4 DEF Reactivate, Raised, Written, Entering
  <2>4. TypeOK' /\ serial <= serial' /\ sequences' \subseteq sequences /\ items' = items
    BY <1>0, <1>4, <2>2 DEF Reactivate, EntryInv, TypeOK
  <2>5. CategoryIds'
    <3>1. \A c \in categories : [c EXCEPT !.active = TRUE].id = c.id
      BY <1>0 DEF CategoryRow
    <3>2. \A c, d \in categories : c.id = d.id => c = d
      BY DEF EntryInv, CategoryIds
    <3>3. \A c \in categories : c.id <= serial
      BY DEF EntryInv, CategoryIds
    <3>4. \A d \in categories' : \E c \in categories :
            d = IF c.name = n THEN [c EXCEPT !.active = TRUE] ELSE c
      BY <1>4 DEF Reactivate
    <3>5. /\ \A d \in categories' : d.id <= serial
          /\ \A d, e \in categories' : d.id = e.id => d = e
      <4>1. \A d \in categories' : \E c \in categories :
              d.id = c.id /\ d = IF c.name = n THEN [c EXCEPT !.active = TRUE] ELSE c
        BY <3>1, <3>4
      <4>2. ASSUME NEW d \in categories', NEW e \in categories', d.id = e.id PROVE d = e
        <5>1. PICK c \in categories :
                d.id = c.id /\ d = IF c.name = n THEN [c EXCEPT !.active = TRUE] ELSE c
          BY <4>1
        <5>2. PICK k \in categories :
                e.id = k.id /\ e = IF k.name = n THEN [k EXCEPT !.active = TRUE] ELSE k
          BY <4>1
        <5>3. c = k
          BY <3>2, <4>2, <5>1, <5>2
        <5>. QED
          BY <5>1, <5>2, <5>3
      <4>. QED
        BY <3>3, <4>1, <4>2
    <3>6. serial' = serial
      BY <1>4 DEF Reactivate
    <3>. QED
      BY <3>5, <3>6 DEF CategoryIds
  <2>. QED
    BY <2>3, <2>4, <2>5, Shrinks DEF KeptOrGone
<1>5. ASSUME NEW i \in items, Sell(i) PROVE EntryInv'
  <2>. DEFINE j == [i EXCEPT !.stocked = FALSE]
  <2>1. j \in ItemRow /\ j.sku = i.sku /\ j.row = i.row /\ j.n = i.n
    BY <1>0 DEF ItemRow
  <2>2. items' = (items \ {i}) \union {j}
        /\ UNCHANGED <<categories, sequences, serial, attempts, req>>
    BY <1>5 DEF Sell
  <2>. HIDE DEF j
  <2>. QED
    BY <2>1, <2>2, ItemEdited
<1>6. ASSUME NEW i \in items, NEW c \in categories, Move(i, c) PROVE EntryInv'
  <2>. DEFINE j == [i EXCEPT !.category = c.id]
  <2>1. j \in ItemRow /\ j.sku = i.sku /\ j.row = i.row /\ j.n = i.n
    BY <1>0 DEF ItemRow, CategoryRow
  <2>2. items' = (items \ {i}) \union {j}
        /\ UNCHANGED <<categories, sequences, serial, attempts, req>>
    BY <1>6 DEF Move
  <2>. HIDE DEF j
  <2>. QED
    BY <2>1, <2>2, ItemEdited
<1>. QED
  BY <1>1, <1>2, <1>3, <1>4, <1>5, <1>6, CataloguingPreserves DEF Next

\* The inductive invariant holds: whatever entries, edits and deletions of
\* categories are under way at once.
THEOREM EntryInvHolds == Spec => []EntryInv
<1>1. Init => EntryInv
  BY InitInv, EntryAssumption
<1>2. EntryInv /\ [Next]_vars => EntryInv'
  BY StepInv, EntryAssumption
<1>. QED
  BY <1>1, <1>2, PTL DEF Spec

-----------------------------------------------------------------------------
(* A number that is taken stays taken.                                     *)

\* A step of request r that raises no sequence and reads no category.
LEMMA StuckKept ==
  ASSUME EntryInv, NEW c, NEW d, NEW m, c.id = d.id, c.code = d.code, Stuck(c, m),
         NEW r \in Requests, \A t \in Requests \ {r} : req'[t] = req[t],
         req'[r].op = "enter" => req'[r].raised = {} /\ req'[r].codes = {},
         sequences' \subseteq AllSequences,
         \A i \in items : \E j \in items' : j.sku = i.sku
  PROVE  Stuck(d, m)'
<1>1. \A t \in Requests \ {r} : Raised(t)' = Raised(t)
  BY DEF Raised, Entering
<1>2. Raised(r)' = {}
  BY DEF Raised, Entering
<1>3. AllSequences' \subseteq AllSequences
  BY <1>1, <1>2 DEF AllSequences
<1>4. \A s \in AllSequences' : s.category = d.id => s.metal # m
  BY <1>3 DEF Stuck
<1>5. \E j \in items' : j.sku = Sku(d.code, 1, m)
  BY DEF Stuck
<1>6. ASSUME NEW t \in Entering', req'[t].rows # <<>>, Head(req'[t].rows).category = d.id
      PROVE  req'[t].codes \subseteq {d.code}
  <2>1. CASE t = r
    BY <2>1 DEF Entering
  <2>2. CASE t # r
    <3>1. t \in Entering /\ req'[t] = req[t]
      BY <2>2 DEF Entering
    <3>. QED
      BY <1>6, <3>1 DEF Stuck
  <2>. QED
    BY <2>1, <2>2
<1>. QED
  BY <1>4, <1>5, <1>6 DEF Stuck, Sku

\* The item is in stock elsewhere, or no longer in stock: its SKU stays.
LEMMA StuckEdited ==
  ASSUME NEW c, NEW d, NEW m, c.id = d.id, c.code = d.code, Stuck(c, m),
         NEW i \in items, NEW j, j.sku = i.sku, items' = (items \ {i}) \union {j},
         UNCHANGED <<sequences, req>>
  PROVE  Stuck(d, m)'
<1>1. AllSequences' = AllSequences /\ Entering' = Entering
  BY DEF AllSequences, Raised, Entering
<1>2. \A k \in items : \E l \in items' : l.sku = k.sku
  OBVIOUS
<1>. QED
  BY <1>1, <1>2 DEF Stuck, Sku

\* An entry that reads the category c reads the code c has.
LEMMA StuckRead ==
  ASSUME EntryInv, NEW c \in categories, NEW m, Stuck(c, m),
         NEW r \in Requests, ReadCategory(r)
  PROVE  \A d \in categories' : c.id = d.id /\ c.code = d.code => Stuck(d, m)'
<1>1. PICK k \in categories :
        /\ k.id = Head(req[r].rows).category
        /\ req' = [req EXCEPT ![r] = [req[r] EXCEPT !.codes = {k.code}]]
  BY DEF ReadCategory, Proceed
<1>2. /\ req[r] \in EnterRequest /\ req \in [Requests -> Request]
      /\ UNCHANGED <<sequences, items>>
  BY RequestTypes DEF ReadCategory, EntryInv, TypeOK, Tables
<1>3. PICK q : q = [req[r] EXCEPT !.codes = {k.code}]
  OBVIOUS
<1>4. /\ q.op = "enter" /\ q.raised = req[r].raised /\ q.rows = req[r].rows
      /\ q.codes = {k.code} /\ req[r].op = "enter" /\ req' = [req EXCEPT ![r] = q]
  BY <1>1, <1>2, <1>3 DEF EnterRequest
<1>5. /\ Entering' = Entering /\ \A t \in Requests : Raised(t)' = Raised(t)
      /\ req'[r] = q /\ \A t \in Requests \ {r} : req'[t] = req[t]
  BY <1>2, <1>4 DEF Entering, Raised
<1>6. AllSequences' = AllSequences
  BY <1>2, <1>5 DEF AllSequences
<1>7. k.id = c.id => k = c
  BY DEF EntryInv, CategoryIds
<1>8. ASSUME NEW t \in Entering', req'[t].rows # <<>>, Head(req'[t].rows).category = c.id
      PROVE  req'[t].codes \subseteq {c.code}
  <2>1. CASE t = r
    BY <1>1, <1>4, <1>5, <1>7, <1>8, <2>1
  <2>2. CASE t # r
    BY <1>5, <1>8, <2>2 DEF Stuck, Entering
  <2>. QED
    BY <2>1, <2>2
<1>. QED
  BY <1>2, <1>6, <1>8 DEF Stuck, Sku

\* An entry of another category or metal, or one that the index refuses.
LEMMA StuckDraw ==
  ASSUME EntryInv, NEW c \in categories, NEW m, Stuck(c, m),
         NEW r \in Requests, Draw(r)
  PROVE  \A d \in categories' : c.id = d.id /\ c.code = d.code => Stuck(d, m)'
<1>. DEFINE cc == Head(req[r].rows).category
            mm == Head(req[r].rows).metal
            qq == Raise(Sequence(r, cc, mm), cc, mm)
<1>0. /\ req[r] \in EnterRequest /\ req[r].op = "enter" /\ req[r].rows # <<>>
      /\ req \in [Requests -> Request] /\ UNCHANGED <<sequences, items>>
      /\ r \in Entering
  BY RequestTypes DEF Draw, EntryInv, TypeOK, Entering
<1>1. PICK code \in req[r].codes :
        /\ Fresh(Sku(code, qq.last, mm))
        /\ Proceed(r, [req[r] EXCEPT
             !.rows = Tail(@), !.codes = {},
             !.raised = {p \in @ : p.id # qq.id} \union {qq},
             !.written = @ \union
               {Item(serial + 1, Sku(code, qq.last, mm), cc, qq.id, qq.last)}])
  BY Zenon DEF Draw
<1>2. PICK q : q = qq
  OBVIOUS
<1>3. PICK new : new = Item(serial + 1, Sku(code, qq.last, mm), cc, qq.id, qq.last)
  OBVIOUS
<1>4. PICK p : p = [req[r] EXCEPT !.rows = Tail(@), !.codes = {},
                       !.raised = {s \in @ : s.id # q.id} \union {q},
                       !.written = @ \union {new}]
  OBVIOUS
<1>5. req' = [req EXCEPT ![r] = p]
  BY <1>1, <1>2, <1>3, <1>4 DEF Proceed
<1>6. p.codes = {} /\ p.raised \subseteq Raised(r) \union {q}
  BY <1>0, <1>4 DEF EnterRequest, Raised
<1>7. /\ \A t \in Requests \ {r} : req'[t] = req[t] /\ Raised(t)' = Raised(t)
      /\ req'[r] = p /\ Raised(r)' \subseteq Raised(r) \union {q}
  BY <1>0, <1>5, <1>6 DEF Raised, Entering
<1>8. AllSequences' \subseteq AllSequences \union {q}
  BY <1>0, <1>7 DEF AllSequences
<1>9. ~(q.category = c.id /\ q.metal = m)
  <2>1. ASSUME cc = c.id, mm = m PROVE FALSE
    <3>1. Sequence(r, cc, mm) = {}
      BY <2>1 DEF Stuck, Sequence, AllSequences
    <3>2. qq.last = 1
      BY <3>1 DEF Raise
    <3>3. code = c.code
      BY <1>0, <2>1 DEF Stuck
    <3>4. Fresh(Sku(c.code, 1, m))
      BY <1>1, <2>1, <3>2, <3>3
    <3>. QED
      BY <3>4 DEF Stuck, Fresh
  <2>2. q.category = cc /\ q.metal = mm
    <3>1. CASE Sequence(r, cc, mm) = {}
      BY <1>2, <3>1 DEF Raise
    <3>2. CASE Sequence(r, cc, mm) # {}
      <4>1. PICK s \in Sequence(r, cc, mm) : q = [s EXCEPT !.last = @ + 1]
        BY <1>2, <3>2 DEF Raise
      <4>2. s.category = cc /\ s.metal = mm /\ s \in SequenceRow
        BY RaisedTypes DEF Sequence, EntryInv, TypeOK
      <4>. QED
        BY <4>1, <4>2 DEF SequenceRow
    <3>. QED
      BY <3>1, <3>2
  <2>. QED
    BY <2>1, <2>2
<1>. HIDE DEF cc, mm, qq
<1>10. \A s \in AllSequences' : s.category = c.id => s.metal # m
  BY <1>8, <1>9 DEF Stuck
<1>11. ASSUME NEW t \in Entering', req'[t].rows # <<>>, Head(req'[t].rows).category = c.id
       PROVE  req'[t].codes \subseteq {c.code}
  <2>1. CASE t = r
    BY <1>6, <1>7, <2>1
  <2>2. CASE t # r
    BY <1>7, <1>11, <2>2 DEF Stuck, Entering
  <2>. QED
    BY <2>1, <2>2
<1>. QED
  BY <1>0, <1>10, <1>11 DEF Stuck, Sku

LEMMA StuckStep ==
  ASSUME EntryInv, [Next]_vars, NEW c \in categories, NEW d \in categories', NEW m \in Metals,
         c.id = d.id, c.code = d.code, Stuck(c, m)
  PROVE  Stuck(d, m)'
<1>0. req \in [Requests -> Request] /\ Idle.op # "enter" /\ sequences \subseteq AllSequences
  BY IdleType DEF EntryInv, TypeOK, AllSequences
<1>1. CASE UNCHANGED vars
  BY <1>1 DEF vars, Stuck, AllSequences, Raised, Entering, Sku
<1>2. ASSUME NEW r \in Requests, Cataloguing(r) PROVE Stuck(d, m)'
  <2>1. /\ \A t \in Requests \ {r} : req'[t] = req[t]
        /\ req'[r].op # "enter" /\ sequences' \subseteq sequences /\ items' = items
    BY <1>0, <1>2 DEF Cataloguing, PlanCategory, PlanUpdate, PlanDeactivate, PlanDelete,
      CommitCategory, CommitUpdate, DropSequences, DropCategory, Submit, Proceed,
      Answer, Tables
  <2>. QED
    BY <1>0, <2>1, StuckKept
<1>3. ASSUME NEW r \in Requests, NEW sheet \in Sheets, NEW b \in BOOLEAN,
             PlanEntry(r, sheet, b)
      PROVE  Stuck(d, m)'
  <2>1. /\ \A t \in Requests \ {r} : req'[t] = req[t]
        /\ req'[r].raised = {} /\ req'[r].codes = {}
        /\ sequences' = sequences /\ items' = items
    BY <1>0, <1>3 DEF PlanEntry, Submit
  <2>. QED
    BY <1>0, <2>1, StuckKept
<1>4. ASSUME NEW r \in Requests, CommitEntry(r) PROVE Stuck(d, m)'
  <2>1. /\ \A t \in Requests \ {r} : req'[t] = req[t]
        /\ req'[r].op # "enter" /\ items \subseteq items'
        /\ sequences' \subseteq sequences \union Raised(r)
    BY <1>0, <1>4 DEF CommitEntry, Answer, Raised, Entering
  <2>. QED
    BY <2>1, StuckKept DEF AllSequences
<1>5. ASSUME NEW r \in Requests, Abort(r) PROVE Stuck(d, m)'
  <2>1. /\ \A t \in Requests \ {r} : req'[t] = req[t]
        /\ req'[r].op # "enter" /\ sequences' = sequences /\ items' = items
    BY <1>0, <1>5 DEF Abort, Answer, Tables
  <2>. QED
    BY <1>0, <2>1, StuckKept
<1>6. ASSUME NEW n \in Names, Reactivate(n) PROVE Stuck(d, m)'
  BY <1>6 DEF Reactivate, Stuck, AllSequences, Raised, Entering, Sku
<1>7. ASSUME NEW i \in items, Sell(i) PROVE Stuck(d, m)'
  <2>1. i \in ItemRow
    BY DEF EntryInv, TypeOK
  <2>2. [i EXCEPT !.stocked = FALSE].sku = i.sku
    BY <2>1 DEF ItemRow
  <2>. QED
    BY <1>7, <2>2, StuckEdited DEF Sell
<1>8. ASSUME NEW i \in items, NEW k \in categories, Move(i, k) PROVE Stuck(d, m)'
  <2>1. i \in ItemRow
    BY DEF EntryInv, TypeOK
  <2>2. [i EXCEPT !.category = k.id].sku = i.sku
    BY <2>1 DEF ItemRow
  <2>. QED
    BY <1>8, <2>2, StuckEdited DEF Move
<1>. QED
  BY <1>1, <1>2, <1>3, <1>4, <1>5, <1>6, <1>7, <1>8, StuckRead, StuckDraw
    DEF Next, EnteringStock

\* Every later entry of a category whose first number is taken is refused too.
THEOREM StuckForGoodHolds == Spec => StuckForGood
<1>1. EntryInv /\ [Next]_vars =>
        [\A c \in categories, d \in categories', m \in Metals :
           c.id = d.id /\ c.code = d.code /\ Stuck(c, m) => Stuck(d, m)']_vars
  BY StuckStep
<1>. QED
  BY <1>1, EntryInvHolds, PTL DEF Spec, StuckForGood

-----------------------------------------------------------------------------
\* As many items as numbers: each number is one item's.
LEMMA Counted ==
  ASSUME EntryInv, NEW s \in sequences
  PROVE  Cardinality({i \in items : i.row = s.id}) = s.last
<1>. DEFINE given == {i \in items : i.row = s.id}
            f == [i \in given |-> i.n]
<1>1. {i.n : i \in given} = 1..s.last /\ s.last \in Nat
  BY DEF EntryInv, NoGaps, Numbers, TypeOK, SequenceRow
<1>2. \A i, j \in given : i.n = j.n => i = j
  BY DEF EntryInv, ItemsDiffer, AllItems
<1>3. f \in Bijection(given, 1..s.last)
  <2>. HIDE DEF given
  <2>1. f \in [given -> 1..s.last]
    BY <1>1
  <2>2. \A i, j \in given : f[i] = f[j] => i = j
    BY <1>2
  <2>3. \A n \in 1..s.last : \E i \in given : f[i] = n
    BY <1>1
  <2>. HIDE DEF f
  <2>. QED
    BY <2>1, <2>2, <2>3, Fun_IsBij DEF Surjection
<1>4. IsFiniteSet(1..s.last) /\ Cardinality(1..s.last) = s.last
  <2>. DEFINE n == s.last
  <2>1. n \in Nat
    BY <1>1
  <2>. HIDE DEF n
  <2>2. IsFiniteSet(1..n) /\ Cardinality(1..n) = IF 1 > n THEN 0 ELSE n - 1 + 1
    BY <2>1, FS_Interval
  <2>3. IsFiniteSet(1..n) /\ Cardinality(1..n) = n
    BY <2>1, <2>2
  <2>. QED
    BY <2>3 DEF n
<1>5. ExistsBijection(1..s.last, given)
  BY <1>3, Fun_ExistsBijSymmetric DEF ExistsBijection
<1>6. Cardinality(given) = s.last
  <2>. HIDE DEF given
  <2>. QED
    BY <1>4, <1>5, FS_Bijection
<1>. QED
  BY <1>6

\* The numbers a sequence gave are those of its items, each once and none left out.
THEOREM NumbersGaplessHolds == Spec => []NumbersGapless
<1>1. EntryInv => NumbersGapless
  BY Counted DEF EntryInv, NoGaps, Numbers, NumbersGapless
<1>. QED
  BY <1>1, EntryInvHolds, PTL
=============================================================================
