------------------------------- MODULE Pantry -------------------------------
(***************************************************************************)
(* The pantry's database and the calls that change it: items and their     *)
(* aliases, purchases (one to an item and day), products, consumption      *)
(* events and the inventory row that is derived from them (server.py,      *)
(* api.py, resolution.py, purchases.py, products.py, merge.py,             *)
(* inventory.py).                                                          *)
(*                                                                         *)
(* A call is one transaction and then the recalculation of the items it    *)
(* touched, each read and written back in a transaction of its own.  A     *)
(* call that raises is rolled back: its set of results is empty.  Times    *)
(* are half days: an even time is a bare date, stored at 00:00, and an odd *)
(* time is a clock time on that date.                                      *)
(***************************************************************************)
EXTENDS Integers, SequencesExt

CONSTANTS
    Names,      \* normalized names
    Similar,    \* the pairs of names that the fuzzy rule takes for one
    Upcs,       \* bar codes
    Receipts,   \* the receipts of record_purchase, sequences of lines
    Meals,      \* the lists of consume_items, sequences of names
    Batches,    \* the batches of import_data
    MaxItems,   \* bound: ids of items
    MaxTime,    \* bound: times
    MaxCalls,   \* bound: calls, one after the other
    MaxOverlaps \* bound: calls, when they may overlap

NoName == "no name"
NoUpc == "no upc"
NoTime == -1

Ids == 1..MaxItems
Times == 0..MaxTime
Day(t) == t \div 2

\* What a call is given: a line of a receipt, and the entries of a batch.
Coded == Upcs \cup {NoUpc}
Lines == [name : Names, upc : Coded]
Entries == [name : Names, akas : SUBSET Names, pref : Coded]
OldLines == [name : Names, upc : Coded, at : Times]
OldUses == [name : Names, at : Times]

ASSUME PantryAssumption ==
    /\ NoName \notin Names /\ NoUpc \notin Upcs
    /\ Similar \subseteq Names \X Names
    /\ \A s \in Similar : s[1] # s[2] /\ <<s[2], s[1]>> \in Similar
    /\ \A receipt \in Receipts : receipt \in Seq(Lines) /\ receipt # <<>>
    /\ \A meal \in Meals : meal \in Seq(Names)
    /\ \A b \in Batches : /\ b.items \in Seq(Entries)
                          /\ b.purchases \in Seq(OldLines)
                          /\ b.consumptions \in Seq(OldUses)
    /\ MaxItems \in Nat /\ MaxTime \in Nat /\ MaxCalls \in Nat
    /\ MaxOverlaps \in 0..MaxCalls

FaultKinds == {
    "overlap",  \* a second call runs between the awaits of the first
    "crash"}    \* the addon dies

VARIABLES
    db,         \* the committed tables
    kept,       \* history: <<name, day>> of the lines that were recorded
    call,       \* the calls in progress
    calls,      \* how many calls there were
    faults      \* the faults that may happen, a subset of FaultKinds

vars == <<db, kept, call, calls, faults>>

NoRow == [from |-> {}, emptied |-> NoTime]
Idle == [at |-> "idle"]
Slots == {1, 2}

-----------------------------------------------------------------------------
(* resolution.py *)

Items(d) == {i \in Ids : d.name[i] # NoName}
Named(d, n) == {i \in Items(d) : d.name[i] = n}

LikeName(d, n) == {i \in Items(d) : d.tracked[i] /\ <<d.name[i], n>> \in Similar}
LikeAlias(d, n) ==
    {i \in Items(d) : d.tracked[i] /\ \E m \in Names : d.alias[m] = i /\ <<m, n>> \in Similar}

\* The item of a name, 0 when there is none: the first rule that finds one.
Else(found, others) == IF found # {} THEN found ELSE others
Resolve(d, n) ==
    Min(Else(Named(d, n),
        Else({d.alias[n]} \ {0},
        Else(LikeName(d, n),
        Else(LikeAlias(d, n), {0})))))

\* History: the name under which a line is found again.
FiledAs(d, n, i) == IF d.alias[n] = i THEN n ELSE d.name[i]

-----------------------------------------------------------------------------
(* What a call does to the tables: a set of results, empty when it raises. *)

Result(d) == [db |-> d, touched |-> {}, filed |-> {}]

\* A new item takes the id after the largest.
Fresh(d) == Max(Items(d) \cup {0}) + 1
Create(d, n) == [d EXCEPT !.name[Fresh(d)] = n, !.tracked[Fresh(d)] = TRUE]
Match(d, n, found) ==
    CASE found \in Items(d) -> {[db |-> d, item |-> found]}
      [] found = 0 /\ Fresh(d) \in Ids -> {[db |-> Create(d, n), item |-> Fresh(d)]}
      [] OTHER -> {}

OnDay(d, i, t) == {r \in d.bought : r.item = i /\ Day(r.at) = Day(t)}
\* Mutated: each entry is a purchase of its own.
UpsertInserting(d, i, t, upc, n) ==
    [d EXCEPT !.bought = @ \cup {[item |-> i, at |-> t, upc |-> upc, filed |-> {n}]}]
\* The first entry of a day keeps its time and its bar code.
Upsert(d, i, t, upc, n) ==
    LET old == OnDay(d, i, t)
        row == IF old = {} THEN [item |-> i, at |-> t, upc |-> NoUpc, filed |-> {}]
                           ELSE CHOOSE r \in old : TRUE
        new == [row EXCEPT !.upc = IF @ = NoUpc THEN upc ELSE @, !.filed = @ \cup {n}]
    IN [d EXCEPT !.bought = (@ \ old) \cup {new}]

\* Mutated: a bar code moves to the item that was bought last.
LinkMoved(d, i, upc) == IF upc = NoUpc THEN {d} ELSE {[d EXCEPT !.product[upc] = i]}
\* A product belongs to one item.
Link(d, i, upc) ==
    CASE upc = NoUpc -> {d}
      [] upc # NoUpc /\ d.product[upc] \in {0, i} -> {[d EXCEPT !.product[upc] = i]}
      [] OTHER -> {}

\* One line, whose name was looked up before: found, and whether it was hidden.
Buy(r, line, t, found, hidden) ==
    UNION {
        LET i == m.item
            n == FiledAs(m.db, line.name, i)
            shown == [m.db EXCEPT !.tracked[i] = @ \/ hidden]
            bought == Upsert(shown, i, t, line.upc, n)
            row == CHOOSE b \in OnDay(bought, i, t) : TRUE
        IN {[db |-> d, touched |-> r.touched \cup {i}, filed |-> r.filed \cup {<<n, Day(t)>>}] :
                d \in Link(bought, i, row.upc)} :
        m \in Match(r.db, line.name, found)}
Hidden(d, i) == i # 0 /\ ~d.tracked[i]
BuyLine(r, line, t) ==
    LET found == Resolve(r.db, line.name) IN Buy(r, line, t, found, Hidden(r.db, found))

Use(r, i, t, d) == [r EXCEPT !.db = [d EXCEPT !.used[i] = @ \cup {t}], !.touched = @ \cup {i}]
UseLine(r, n, t) == {Use(r, m.item, t, m.db) : m \in Match(r.db, n, Resolve(r.db, n))}

Unlisted(d, i) ==
    [d EXCEPT !.name[i] = NoName, !.tracked[i] = FALSE, !.pref[i] = NoUpc,
              !.pinned[i] = FALSE, !.used[i] = {}, !.stock[i] = NoRow]

ItemDeleted(d, i) ==
    [Unlisted(d, i) EXCEPT
        !.bought = {r \in @ : r.item # i},
        !.alias = [n \in Names |-> IF @[n] = i THEN 0 ELSE @[n]],
        !.product = [u \in Upcs |-> IF @[u] = i THEN 0 ELSE @[u]]]

(* merge.py *)

\* A purchase of the source joins the target's of the same day, or moves.
\* Mutated: the source's purchase of a shared day is dropped.
MovedDropping(d, s, t) ==
    {r \in d.bought : r.item # s} \cup
    {[r EXCEPT !.item = t] : r \in {q \in d.bought : q.item = s /\ OnDay(d, t, q.at) = {}}}
Moved(d, s, t) ==
    LET joins(r) == {q \in d.bought : q.item = s /\ Day(q.at) = Day(r.at)}
        combined(r) == [r EXCEPT
            !.upc = IF @ = NoUpc /\ joins(r) # {} THEN (CHOOSE q \in joins(r) : TRUE).upc ELSE @,
            !.filed = @ \cup UNION {q.filed : q \in joins(r)}]
    IN {r \in d.bought : r.item \notin {s, t}}
       \cup {combined(r) : r \in {q \in d.bought : q.item = t}}
       \cup {[r EXCEPT !.item = t] : r \in {q \in d.bought : q.item = s /\ OnDay(d, t, q.at) = {}}}

\* Mutated: the name of the source is forgotten.
AliasesUnnamed(d, s, t) == [n \in Names |-> IF d.alias[n] = s THEN t ELSE d.alias[n]]
\* The aliases of the source follow it and its name becomes one.
Aliases(d, s, t) ==
    LET named == {n \in {d.name[s]} \ {d.name[t]} : d.alias[n] = 0}
    IN [n \in Names |-> IF d.alias[n] = s \/ n \in named THEN t ELSE d.alias[n]]

Merged(d, s, t) ==
    [Unlisted(d, s) EXCEPT
        !.bought = Moved(d, s, t),
        !.alias = Aliases(d, s, t),
        !.product = [u \in Upcs |-> IF @[u] = s THEN t ELSE @[u]],
        !.pref[t] = IF @ = NoUpc THEN d.pref[s] ELSE @,
        !.pinned[t] = IF d.pref[t] = NoUpc THEN d.pinned[s] ELSE @,
        !.used[t] = @ \cup d.used[s],
        !.tracked[t] = @ \/ d.tracked[s]]

\* The name n is free for item i: no other item has it, no other item's alias is it.
FreeFor(d, i, n) == Named(d, n) \subseteq {i} /\ d.alias[n] \in {0, i}

\* Mutated: only the names of items are compared.
RenamedOver(d, i, n) ==
    IF n # d.name[i] /\ Named(d, n) = {}
    THEN {[d EXCEPT !.name[i] = n, !.alias[n] = IF @ = i THEN 0 ELSE @, !.alias[d.name[i]] = i]}
    ELSE {}
Renamed(d, i, n) ==
    IF n # d.name[i] /\ FreeFor(d, i, n) /\ d.alias[d.name[i]] \in {0, i}
    THEN {[d EXCEPT !.name[i] = n, !.alias[n] = 0, !.alias[d.name[i]] = i]}
    ELSE {}

AliasAdded(d, i, n) ==
    IF Named(d, n) = {} /\ d.alias[n] = 0 THEN {[d EXCEPT !.alias[n] = i]} ELSE {}

-----------------------------------------------------------------------------
(* import_data *)

\* The aliases that a batch asks for, with the name of their entry.
Claims(b) == UNION {{<<e.name, n>> : n \in e.akas \ {e.name}} : e \in Range(b.items)}
Valid(d, b) ==
    \A c \in Claims(b) :
        /\ \A o \in Claims(b) : o[2] = c[2] => o[1] = c[1]
        /\ Named(d, c[2]) = {}
        /\ d.alias[c[2]] # 0 => d.name[d.alias[c[2]]] = c[1]

\* An entry's preference, unless a person has set one.
Preferred(d, i, upc) ==
    CASE upc = NoUpc \/ (d.pref[i] # NoUpc /\ d.pinned[i]) -> {d}
      [] OTHER -> {[p EXCEPT !.pref[i] = upc, !.pinned[i] = FALSE] : p \in Link(d, i, upc)}
ImportItem(r, e) ==
    UNION {
        LET i == m.item
            listed == [m.db EXCEPT
                !.tracked[i] = TRUE,
                !.alias = [n \in Names |->
                    IF n \in e.akas /\ n # m.db.name[i] /\ @[n] = 0 THEN i ELSE @[n]]]
        IN {[r EXCEPT !.db = d] : d \in Preferred(listed, i, e.pref)} :
        m \in Match(r.db, e.name, Resolve(r.db, e.name))}
ImportUse(r, c) ==
    {LET d == [m.db EXCEPT !.tracked[m.item] = TRUE]
     IN IF c.at \in d.used[m.item] THEN [r EXCEPT !.db = d] ELSE Use(r, m.item, c.at, d) :
        m \in Match(r.db, c.name, Resolve(r.db, c.name))}
-----------------------------------------------------------------------------
(* The lines of a call, one after another. *)

\* One line of a receipt or a meal at time t, or of a section of a batch.
Step(what, r, line, t) ==
    CASE what = "buy" -> BuyLine(r, line, t)
      [] what = "use" -> UseLine(r, line, t)
      [] what = "list" -> ImportItem(r, line)
      [] what = "bought" -> BuyLine(r, line, line.at)
      [] what = "used" -> ImportUse(r, line)
Each(what, rs, lines, t) ==
    LET after[k \in 0..Len(lines)] ==
            IF k = 0 THEN rs ELSE UNION {Step(what, r, lines[k], t) : r \in after[k - 1]}
    IN after[Len(lines)]

\* found and hidden are of the first line; the others are looked up as they come.
Recorded(d, receipt, t, found, hidden) ==
    Each("buy", Buy(Result(d), Head(receipt), t, found, hidden), Tail(receipt), t)

Consumed(d, meal, t) == Each("use", {Result(d)}, meal, t)

Imported(d, b) ==
    LET listed == Each("list", {Result(d)}, b.items, NoTime)
        bought == Each("bought", listed, b.purchases, NoTime)
    IN Each("used", bought, b.consumptions, NoTime)

-----------------------------------------------------------------------------
(* inventory.py *)

Purchases(d, i) == {r.at : r \in {q \in d.bought : q.item = i}}

\* consumed_after_purchase: a bare date counts as the whole day.
ConsumedAfter(c, t) == IF t % 2 = 0 THEN Day(c) > Day(t) ELSE c > t

\* The row: what it says is a function of the purchases it was computed from
\* and of the consumption that emptied the stock, if one did.
Derived(d, i) ==
    LET last == Max(Purchases(d, i))
        used == Max(d.used[i] \cup {NoTime})
    IN [from |-> Purchases(d, i),
        emptied |-> IF used # NoTime /\ ConsumedAfter(used, last) THEN used ELSE NoTime]

-----------------------------------------------------------------------------
(* A call begins, in a free slot: the other is free too unless calls overlap. *)

Recalc(todo) == [at |-> "recalc", todo |-> todo, item |-> 0, row |-> NoRow, had |-> FALSE]
AllIdle == \A s \in Slots : call[s] = Idle

Bound == IF "overlap" \in faults THEN MaxOverlaps ELSE MaxCalls
Begins(s) ==
    /\ call[s] = Idle /\ \A q \in 1..(s - 1) : call[q] # Idle
    /\ AllIdle \/ "overlap" \in faults
    /\ calls < Bound /\ calls' = calls + 1
    /\ UNCHANGED faults

\* The transaction of a call commits with the tables d.
Commits(s, d, filed, touched) ==
    /\ db' = d
    /\ kept' = kept \cup filed
    /\ call' = [call EXCEPT ![s] = IF touched = {} THEN Idle ELSE Recalc(touched)]
CommitsOne(s, rs) == \E r \in rs : Commits(s, r.db, r.filed, r.touched)

\* record_purchase, and the route of the same name for one line.
Record(s, receipt, t) ==
    /\ Begins(s)
    /\ LET found == Resolve(db, Head(receipt).name)
       IN CommitsOne(s, Recorded(db, receipt, t, found, Hidden(db, found)))

\* The same with another call between the look-up of its first line and its writes.
RecordLooks(s, receipt, t) ==
    /\ "overlap" \in faults /\ Begins(s)
    /\ LET found == Resolve(db, Head(receipt).name)
       IN call' = [call EXCEPT ![s] = [at |-> "record", receipt |-> receipt, time |-> t,
                                       found |-> found, hidden |-> Hidden(db, found)]]
    /\ UNCHANGED <<db, kept>>
RecordWrites(s) ==
    /\ call[s].at = "record"
    /\ LET c == call[s]
           rs == Recorded(db, c.receipt, c.time, c.found, c.hidden)
       IN \/ CommitsOne(s, rs)
          \/ rs = {} /\ call' = [call EXCEPT ![s] = Idle] /\ UNCHANGED <<db, kept>>
    /\ UNCHANGED <<calls, faults>>

Consume(s, meal, t) == Begins(s) /\ CommitsOne(s, Consumed(db, meal, t))
MarkOutOfStock(s, i, t) == Begins(s) /\ CommitsOne(s, {Use(Result(db), i, t, db)})

Import(s, b) == Begins(s) /\ Valid(db, b) /\ CommitsOne(s, Imported(db, b))

\* Mutated: the target keeps the row it had.
MergeStale(s, i, t) == i # t /\ Begins(s) /\ Commits(s, Merged(db, i, t), {}, {})
Merge(s, i, t) == i # t /\ Begins(s) /\ Commits(s, Merged(db, i, t), {}, {t})

\* The lines of a deleted purchase or item are no longer kept.
DeletePurchase(s, r) ==
    /\ Begins(s)
    /\ db' = [db EXCEPT !.bought = @ \ {r}]
    /\ kept' = kept \ (r.filed \X {Day(r.at)})
    /\ call' = [call EXCEPT ![s] = Recalc({r.item})]
DeleteItem(s, i) ==
    /\ Begins(s)
    /\ db' = ItemDeleted(db, i)
    /\ kept' = kept \ UNION {r.filed \X {Day(r.at)} : r \in {q \in db.bought : q.item = i}}
    /\ UNCHANGED call

\* Calls that touch no purchase and recalculate nothing.
Edits(s, ds) == \E d \in ds : Begins(s) /\ db' = d /\ UNCHANGED <<kept, call>>
AddAlias(s, i, n) == Edits(s, AliasAdded(db, i, n))
Rename(s, i, n) == Edits(s, Renamed(db, i, n))
Deactivate(s, i) == Edits(s, {[db EXCEPT !.tracked[i] = FALSE]})
SetPreferred(s, i, u) ==
    db.product[u] = i /\ Edits(s, {[db EXCEPT !.pref[i] = u, !.pinned[i] = TRUE]})
ClearPreferred(s, i) == Edits(s, {[db EXCEPT !.pref[i] = NoUpc, !.pinned[i] = FALSE]})

\* History: the lines under that name are no longer promised to be found by it.
RemoveAlias(s, n) ==
    /\ db.alias[n] # 0 /\ Begins(s)
    /\ db' = [db EXCEPT !.alias[n] = 0,
                        !.bought = {[r EXCEPT !.filed = @ \ {n}] : r \in @}]
    /\ kept' = {k \in kept : k[1] # n}
    /\ UNCHANGED call

-----------------------------------------------------------------------------
(* recalculate_inventory, for one item after another. *)

Without(c, i) == IF c.todo = {i} THEN Idle ELSE Recalc(c.todo \ {i})

RecalcReads(s, i) ==
    /\ call[s].at = "recalc" /\ call[s].item = 0 /\ i \in call[s].todo
    /\ call' = [call EXCEPT ![s] =
           IF Purchases(db, i) = {} THEN Without(@, i)
           ELSE [@ EXCEPT !.item = i, !.row = Derived(db, i), !.had = db.stock[i] # NoRow]]
    /\ UNCHANGED <<db, kept, calls, faults>>

\* The row is updated, or inserted; either raises when another call was faster.
RecalcWrites(s) ==
    /\ call[s].at = "recalc" /\ call[s].item # 0
    /\ LET i == call[s].item
           fits == i \in Items(db) /\ (db.stock[i] # NoRow <=> call[s].had)
       IN IF fits
          THEN /\ db' = [db EXCEPT !.stock[i] = call[s].row]
               /\ call' = [call EXCEPT ![s] = Without(@, i)]
          ELSE UNCHANGED db /\ call' = [call EXCEPT ![s] = Idle]
    /\ UNCHANGED <<kept, calls, faults>>

Crash ==
    /\ "crash" \in faults /\ ~AllIdle
    /\ call' = [s \in Slots |-> Idle]
    /\ UNCHANGED <<db, kept, calls, faults>>

-----------------------------------------------------------------------------
Init ==
    /\ db = [name |-> [i \in Ids |-> NoName], tracked |-> [i \in Ids |-> FALSE],
             pref |-> [i \in Ids |-> NoUpc], pinned |-> [i \in Ids |-> FALSE],
             used |-> [i \in Ids |-> {}], stock |-> [i \in Ids |-> NoRow],
             alias |-> [n \in Names |-> 0], product |-> [u \in Upcs |-> 0], bought |-> {}]
    /\ kept = {}
    /\ call = [s \in Slots |-> Idle]
    /\ calls = 0
    /\ faults \in {{}, {"crash"}, FaultKinds}   \* an overlap without a crash is among the last

Next ==
    \/ \E s \in Slots :
        \/ \E receipt \in Receipts, t \in Times :
            Record(s, receipt, t) \/ RecordLooks(s, receipt, t)
        \/ RecordWrites(s)
        \/ \E meal \in Meals, t \in Times : Consume(s, meal, t)
        \/ \E b \in Batches : Import(s, b)
        \/ \E r \in db.bought : DeletePurchase(s, r)
        \/ \E i \in Items(db) :
            \/ \E t \in Times : MarkOutOfStock(s, i, t)
            \/ \E t \in Items(db) : Merge(s, i, t)
            \/ \E n \in Names : AddAlias(s, i, n) \/ Rename(s, i, n)
            \/ \E u \in Upcs : SetPreferred(s, i, u)
            \/ DeleteItem(s, i) \/ Deactivate(s, i) \/ ClearPreferred(s, i)
        \/ \E n \in Names : RemoveAlias(s, n)
        \/ \E i \in Ids : RecalcReads(s, i)
        \/ RecalcWrites(s)
    \/ Crash

Spec == Init /\ [][Next]_vars

-----------------------------------------------------------------------------
(* Properties *)

Rows == [item : Ids, at : Times, upc : Upcs \cup {NoUpc}, filed : SUBSET Names]
StockRows == [from : SUBSET Times, emptied : Times \cup {NoTime}]

\* The tables have their types and keys: purchases, aliases, products and
\* inventory rows are of items that exist, and an item has one purchase a day.
TypeOK ==
    /\ db.name \in [Ids -> Names \cup {NoName}]
    /\ db.tracked \in [Ids -> BOOLEAN] /\ db.pinned \in [Ids -> BOOLEAN]
    /\ db.pref \in [Ids -> Upcs \cup {NoUpc}]
    /\ db.used \in [Ids -> SUBSET Times]
    /\ db.stock \in [Ids -> StockRows]
    /\ db.alias \in [Names -> Items(db) \cup {0}]
    /\ db.product \in [Upcs -> Items(db) \cup {0}]
    /\ db.bought \subseteq Rows
    /\ \A r \in db.bought : r.item \in Items(db) /\ OnDay(db, r.item, r.at) = {r}
    /\ \A i \in Ids \ Items(db) : db.stock[i] = NoRow /\ db.used[i] = {}
    /\ kept \subseteq Names \X {Day(t) : t \in Times}
    /\ calls \in 0..MaxCalls /\ faults \subseteq FaultKinds

\* A condition on the batches, which import_data does not ask for: no alias is
\* the name of an earlier entry, which would have made it an item's by then.
AliasesApart ==
    \A b \in Batches : \A k \in DOMAIN b.items : \A j \in 1..(k - 1) :
        b.items[j].name \notin b.items[k].akas \ {b.items[k].name}

Holding(n, day) == {r \in db.bought : n \in r.filed /\ Day(r.at) = day}

\* A line that a person did not delete stays in a purchase of its day through
\* merges, same-day entries, renames, overlapping calls and crashes.
NothingLost == \A k \in kept : Holding(k[1], k[2]) # {}

\* Without overlapping calls the name of a line leads to the item that holds
\* it, and to no other, however often items were merged or renamed since.
KeepsName ==
    "overlap" \notin faults =>
        \A k \in kept : {r.item : r \in Holding(k[1], k[2])} = {Resolve(db, k[1])}

\* Without overlapping calls no two items have one name, and no alias is the
\* name of an item, which would hide the item that the alias is for.
NamesApart ==
    "overlap" \notin faults =>
        \A i \in Items(db) : FreeFor(db, i, db.name[i]) /\ db.alias[db.name[i]] = 0

\* Without overlaps and crashes, the row of an item with purchases is what the
\* purchases and consumptions of now make it, whatever calls led here.
StockFollows ==
    (faults = {} /\ AllIdle) =>
        \A i \in Items(db) : Purchases(db, i) # {} => db.stock[i] = Derived(db, i)

\* A bar code on a purchase, and the product an item prefers, are the item's
\* own, through merges, deletions, imports and overlapping calls.
ProductsOwn ==
    /\ \A r \in db.bought : r.upc # NoUpc => db.product[r.upc] = r.item
    /\ \A i \in Items(db) : db.pref[i] # NoUpc => db.product[db.pref[i]] = i

=============================================================================
