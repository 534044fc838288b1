---------------------------- MODULE PantryProofs ----------------------------
(***************************************************************************)
(* What holds of the pantry's tables for any names, bar codes, receipts,   *)
(* meals and batches, of any length.                                       *)
(*                                                                         *)
(* A call changes the tables one line after another, so each invariant is  *)
(* shown of the tables after any number of lines: Induction stands in for  *)
(* the induction over the natural numbers, and EachKeeps carries a         *)
(* property from one line to the next.                                     *)
(***************************************************************************)
EXTENDS Pantry, WellFoundedInduction, TLAPS

-----------------------------------------------------------------------------
(* Numbers *)

\* Every set of natural numbers has a least one.
LEMMA Least == ASSUME NEW S \in SUBSET Nat, S # {} PROVE \E x \in S : \A y \in S : x <= y
<1>1. IsWellFoundedOn(OpToRel(<, Nat), Nat)
  BY NatLessThanWellFounded
<1>2. PICK x \in S : \A y \in S : ~ (<<y, x>> \in OpToRel(<, Nat))
  BY <1>1, WFMin
<1>3. \A k, m \in Nat : k < m => <<k, m>> \in OpToRel(<, Nat)
  BY DEF OpToRel
<1>4. \A y \in S : ~ (y < x)
  BY <1>2, <1>3, Zenon
<1> QED BY <1>4

\* Induction, of a set rather than of a predicate.
LEMMA Induction ==
    ASSUME NEW S, 0 \in S, \A n \in Nat : n \in S => n + 1 \in S
    PROVE  Nat \subseteq S
<1> SUFFICES ASSUME Nat \ S # {} PROVE FALSE
  OBVIOUS
<1>1. PICK x \in Nat \ S : \A y \in Nat \ S : x <= y
  BY Least
<1>2. x # 0 /\ x - 1 \in Nat
  BY <1>1
<1>3. x - 1 \in S
  BY <1>1, <1>2
<1> QED BY <1>1, <1>2, <1>3

LEMMA MinOf == ASSUME NEW S \in SUBSET Nat, S # {} PROVE Min(S) \in S
<1>1. \E x \in S : \A y \in S : x <= y
  BY Least
<1> QED BY <1>1 DEF Min

LEMMA MaxOf ==
    ASSUME NEW n \in Nat, NEW S \in SUBSET (-1..n), S # {}
    PROVE  Max(S) \in S /\ \A y \in S : y <= Max(S)
<1> DEFINE T == {k \in Nat : \A y \in S : y <= k - 1}
<1>1. n + 1 \in T
  OBVIOUS
<1>2. PICK k \in T : \A m \in T : k <= m
  BY <1>1, Least
<1>3. k - 1 \in S
  <2>1. CASE k = 0
    <3>1. PICK y \in S : TRUE
      OBVIOUS
    <3>2. y = -1
      BY <2>1
    <3> QED BY <2>1, <3>1, <3>2
  <2>2. CASE k # 0
    <3>1. k - 1 \in Nat /\ k - 1 \notin T
      BY <1>2, <2>2
    <3>2. PICK y \in S : ~ (y <= (k - 1) - 1)
      BY <3>1
    <3>3. y = k - 1
      BY <3>2
    <3> QED BY <3>3
  <2> QED BY <2>1, <2>2
<1>4. \A y \in S : y <= k - 1
  OBVIOUS
<1>5. \E x \in S : \A y \in S : x >= y
  BY <1>3, <1>4
<1>6. Max(S) \in S /\ \A y \in S : Max(S) >= y
  BY <1>5 DEF Max
<1> QED BY <1>6

-----------------------------------------------------------------------------
(* The lines of a call *)

\* A property of the tables for each line of a call: what holds before the first,
\* and after each line if before it, holds when the call has gone through.
LEMMA EachLeads ==
    ASSUME NEW what, NEW rs, NEW L, NEW lines \in Seq(L), NEW t, NEW Good,
           rs \subseteq Good[0],
           \A k \in 1..Len(lines) : \A r \in Good[k - 1] :
                Step(what, r, lines[k], t) \subseteq Good[k]
    PROVE  Each(what, rs, lines, t) \subseteq Good[Len(lines)]
<1> DEFINE G(x, k) == UNION {Step(what, r, lines[k], t) : r \in x}
           N == Len(lines)
           Fits(f, n) == f = [k \in 0..n |-> IF k = 0 THEN rs ELSE G(f[k - 1], k)]
           S == {n \in Nat : \E f : Fits(f, n)}
           after == CHOOSE f : Fits(f, N)
           T == {n \in Nat : n \in 0..N => after[n] \subseteq Good[n]}
<1>1. N \in Nat
  OBVIOUS
<1>2. Nat \subseteq S
  <2> HIDE DEF G, after
  <2>1. 0 \in S
    <3> DEFINE f == [k \in 0..0 |-> rs]
    <3>1. Fits(f, 0)
      OBVIOUS
    <3> QED BY <3>1
  <2>2. ASSUME NEW n \in Nat, n \in S PROVE n + 1 \in S
    <3>1. PICK f : Fits(f, n)
      BY <2>2
    <3> DEFINE h == [k \in 0..(n + 1) |-> IF k = n + 1 THEN G(f[n], k) ELSE f[k]]
    <3>2. Fits(h, n + 1)
      <4>1. ASSUME NEW k \in 0..(n + 1) PROVE h[k] = IF k = 0 THEN rs ELSE G(h[k - 1], k)
        <5>1. CASE k = n + 1
          BY <5>1
        <5>2. CASE k \in 0..n
          <6>1. f[k] = IF k = 0 THEN rs ELSE G(f[k - 1], k)
            BY <3>1, <5>2
          <6>2. h[k] = f[k] /\ (k # 0 => h[k - 1] = f[k - 1])
            BY <5>2
          <6> QED BY <6>1, <6>2
        <5> QED BY <5>1, <5>2
      <4> QED BY <4>1
    <3> HIDE DEF h, Fits
    <3> QED BY <3>2 DEF S
  <2> QED BY <2>1, <2>2, Induction
<1>3. Fits(after, N)
  BY <1>1, <1>2
<1>4. Each(what, rs, lines, t) = after[N]
  BY DEF Each
<1>5. ASSUME NEW k \in 1..N, NEW x \in SUBSET Good[k - 1] PROVE G(x, k) \subseteq Good[k]
  <2>1. \A r \in x : Step(what, r, lines[k], t) \subseteq Good[k]
    OBVIOUS
  <2> QED BY <2>1
<1>6. Nat \subseteq T
  <2> HIDE DEF G, after
  <2>1. 0 \in T
    BY <1>1, <1>3
  <2>2. ASSUME NEW n \in Nat, n \in T PROVE n + 1 \in T
    <3> SUFFICES ASSUME n + 1 \in 0..N PROVE after[n + 1] \subseteq Good[n + 1]
      OBVIOUS
    <3>1. n \in 0..N /\ after[n] \in SUBSET Good[n] /\ n + 1 \in 1..N /\ (n + 1) - 1 = n
      BY <1>1, <2>2
    <3>2. after[n + 1] = G(after[n], n + 1)
      BY <1>1, <1>3
    <3> QED BY <3>1, <3>2, <1>5
  <2> QED BY <2>1, <2>2, Induction
<1>7. N \in T
  BY <1>1, <1>6
<1> HIDE DEF after
<1> QED BY <1>1, <1>4, <1>7

\* One property for all lines.
LEMMA EachKeeps ==
    ASSUME NEW what, NEW rs, NEW L, NEW lines \in Seq(L), NEW t, NEW Good,
           rs \subseteq Good,
           \A line \in L, r \in Good : Step(what, r, line, t) \subseteq Good
    PROVE  Each(what, rs, lines, t) \subseteq Good
<1> DEFINE Goods == [k \in 0..Len(lines) |-> Good]
<1>1. Len(lines) \in Nat /\ \A k \in 1..Len(lines) : lines[k] \in L /\ k - 1 \in 0..Len(lines)
  OBVIOUS
<1>2. rs \subseteq Goods[0]
  BY <1>1
<1>3. \A k \in 1..Len(lines) : \A r \in Goods[k - 1] : Step(what, r, lines[k], t) \subseteq Goods[k]
  BY <1>1
<1>4. Goods[Len(lines)] = Good
  BY <1>1
<1> HIDE DEF Goods
<1> QED BY <1>2, <1>3, <1>4, EachLeads

-----------------------------------------------------------------------------
(* The tables *)

Dbs == [name : [Ids -> Names \cup {NoName}], tracked : [Ids -> BOOLEAN],
        pref : [Ids -> Coded], pinned : [Ids -> BOOLEAN],
        used : [Ids -> SUBSET Times], stock : [Ids -> StockRows],
        alias : [Names -> Ids \cup {0}], product : [Upcs -> Ids \cup {0}],
        bought : SUBSET Rows]

\* What refers to an item refers to one that is there, and an item has one
\* purchase a day.
Keyed(d) ==
    /\ \A n \in Names : d.alias[n] \in Items(d) \cup {0}
    /\ \A u \in Upcs : d.product[u] \in Items(d) \cup {0}
    /\ \A i \in Ids \ Items(d) : d.stock[i] = NoRow /\ d.used[i] = {} /\ d.pref[i] = NoUpc
    /\ \A r \in d.bought : r.item \in Items(d)
    /\ \A r, q \in d.bought : r.item = q.item /\ Day(r.at) = Day(q.at) => r = q

\* The products of purchases and preferences are the item's own.
Owning(d) ==
    /\ \A r \in d.bought : r.upc # NoUpc => d.product[r.upc] = r.item
    /\ \A i \in Ids : d.pref[i] # NoUpc => d.product[d.pref[i]] = i

Sound(d) == d \in Dbs /\ Keyed(d) /\ Owning(d)

\* A name leads to its item by the item's name or by an alias, and no name
\* is two items'.
Apart(d) == \A i \in Items(d) : Named(d, d.name[i]) \subseteq {i} /\ d.alias[d.name[i]] = 0
Leading(d) == \A r \in d.bought : \A n \in r.filed : d.name[r.item] = n \/ d.alias[n] = r.item

\* A recorded line is in a purchase of its day.
Held(d, k) == \E r \in d.bought : k[1] \in r.filed /\ Day(r.at) = k[2]

\* The row of an item is what its purchases and consumptions make it.
Current(d, i) == Purchases(d, i) # {} => d.stock[i] = Derived(d, i)

\* The results of a call's lines: with K, the lines that were recorded before.
Days == {Day(t) : t \in Times}
Results == [db : Dbs, touched : SUBSET Ids, filed : SUBSET (Names \X Days)]
Fine(K) == {r \in Results : /\ Sound(r.db)
                            /\ r.touched \subseteq Items(r.db)
                            /\ \A k \in K \cup r.filed : Held(r.db, k)}
\* No item has one of the names C: those a batch has for aliases.
Led(K, C) == {r \in Fine(K) : /\ Apart(r.db) /\ Leading(r.db)
                              /\ \A n \in C : Named(r.db, n) = {}}
Followed(K) == {r \in Fine(K) : \A i \in Ids \ r.touched : Current(r.db, i)}

-----------------------------------------------------------------------------
(* The invariant *)

Looked == [at : {"record"}, receipt : Receipts, time : Times,
           found : Ids \cup {0}, hidden : BOOLEAN]
Recalcs == [at : {"recalc"}, todo : SUBSET Ids, item : Ids \cup {0},
            row : StockRows, had : BOOLEAN]
CallInv ==
    /\ call \in [Slots -> {Idle} \cup Looked \cup Recalcs]
    /\ "overlap" \notin faults => call[1].at # "record" /\ call[2] = Idle
    /\ calls \in 0..MaxCalls /\ faults \subseteq FaultKinds

TableInv ==
    /\ Sound(db) /\ kept \subseteq Names \X Days
    /\ \A k \in kept : Held(db, k)

NameInv == "overlap" \notin faults => Apart(db) /\ Leading(db)

\* A row that does not follow is of an item that the call under way has yet
\* to recalculate, from what it has read when it has read already.
RowInv ==
    faults = {} =>
        LET c == call[1]
        IN /\ c.at = "recalc" => c.todo \subseteq Items(db)
           /\ c.at = "recalc" /\ c.item # 0 =>
                /\ c.item \in c.todo /\ c.row = Derived(db, c.item)
                /\ c.had <=> db.stock[c.item] # NoRow
           /\ \A i \in Ids : Current(db, i) \/ (c.at = "recalc" /\ i \in c.todo)

-----------------------------------------------------------------------------
(* Looking a name up *)

LEMMA ResolveTyped ==
    ASSUME NEW d, d \in Dbs, Keyed(d), NEW n \in Names
    PROVE  /\ Resolve(d, n) \in Items(d) \cup {0}
           /\ Named(d, n) # {} => Resolve(d, n) \in Named(d, n)
           /\ Named(d, n) = {} /\ d.alias[n] # 0 => Resolve(d, n) = d.alias[n]
           /\ Resolve(d, n) = 0 => Named(d, n) = {} /\ d.alias[n] = 0
<1> DEFINE third == Else(LikeName(d, n), Else(LikeAlias(d, n), {0}))
           found == Else(Named(d, n), Else({d.alias[n]} \ {0}, third))
<1>1. Items(d) \subseteq Ids /\ Ids \subseteq Nat /\ 0 \notin Ids
  BY DEF Items, Ids
<1>2. third # {} /\ third \subseteq Items(d) \cup {0}
  BY DEF Else, LikeName, LikeAlias
<1>3. Named(d, n) \subseteq Items(d) /\ d.alias[n] \in Items(d) \cup {0}
  BY DEF Named, Keyed
<1>4. Resolve(d, n) = Min(found)
  BY DEF Resolve
<1> HIDE DEF third
<1>5. found # {} /\ found \subseteq Items(d) \cup {0}
  BY <1>2, <1>3 DEF Else
<1>6. Resolve(d, n) \in found
  BY <1>1, <1>4, <1>5, MinOf
<1>7. Named(d, n) # {} => found = Named(d, n)
  BY DEF Else
<1>8. Named(d, n) = {} /\ d.alias[n] # 0 => found = {d.alias[n]}
  BY DEF Else
<1> QED BY <1>1, <1>3, <1>5, <1>6, <1>7, <1>8

-----------------------------------------------------------------------------
(* What one line does *)

LEMMA FreshIsNew ==
    ASSUME NEW d, d \in Dbs
    PROVE  Fresh(d) \in Nat \ {0} /\ Fresh(d) \notin Items(d)
<1> DEFINE S == Items(d) \cup {0}
<1>1. MaxItems \in Nat
  BY PantryAssumption
<1>2. S \in SUBSET (-1..MaxItems) /\ S # {}
  BY <1>1 DEF Items, Ids
<1>3. Max(S) \in S /\ \A y \in S : y <= Max(S)
  BY <1>1, <1>2, MaxOf
<1>4. Max(S) \in Nat
  BY <1>1, <1>3 DEF Items, Ids
<1>5. Fresh(d) = Max(S) + 1
  BY DEF Fresh
<1> HIDE DEF S
<1>6. Fresh(d) \notin S
  BY <1>3, <1>4, <1>5
<1> QED BY <1>4, <1>5, <1>6 DEF S

\* The tables e have the item i of name n besides those of d.
SameRest(d, e) ==
    e.bought = d.bought /\ e.used = d.used /\ e.stock = d.stock /\ e.alias = d.alias
Grown(d, e, i, n) ==
    /\ Sound(e) /\ SameRest(d, e)
    /\ Items(e) = Items(d) \cup {i} /\ i \in Ids \ Items(d)
    /\ e.name = [d.name EXCEPT ![i] = n]

LEMMA CreateKeeps ==
    ASSUME NEW d, Sound(d), NEW n \in Names, Fresh(d) \in Ids
    PROVE  Grown(d, Create(d, n), Fresh(d), n)
<1> SUFFICES ASSUME NEW e, e = Create(d, n) PROVE Grown(d, e, Fresh(d), n)
  OBVIOUS
<1>1. Fresh(d) \notin Items(d) /\ n # NoName
  BY FreshIsNew, PantryAssumption DEF Sound
<1>2. /\ e.name = [d.name EXCEPT ![Fresh(d)] = n]
      /\ e.bought = d.bought /\ e.used = d.used /\ e.stock = d.stock /\ e.pref = d.pref
      /\ e.alias = d.alias /\ e.product = d.product /\ e \in Dbs
  BY DEF Create, Sound, Dbs
<1>3. d.name \in [Ids -> Names \cup {NoName}]
  BY DEF Sound, Dbs
<1>4. Items(e) = Items(d) \cup {Fresh(d)}
  BY <1>1, <1>2, <1>3 DEF Items
<1>5. Keyed(e)
  BY <1>2, <1>4 DEF Keyed, Sound
<1>6. Owning(e)
  BY <1>2 DEF Owning, Sound
<1> QED BY <1>1, <1>2, <1>4, <1>5, <1>6 DEF Sound, Grown, SameRest

\* The item of a line, and the tables with it: those there were, or those
\* with a new item.
Matched(d, n, found, m) ==
    /\ Sound(m.db) /\ SameRest(d, m.db)
    /\ m.item \in Items(m.db) /\ Items(d) \subseteq Items(m.db)
    /\ \/ m.db = d /\ m.item = found
       \/ found = 0 /\ Grown(d, m.db, m.item, n)

LEMMA MatchKeeps ==
    ASSUME NEW d, Sound(d), NEW n \in Names, NEW found \in Ids \cup {0},
           NEW m \in Match(d, n, found)
    PROVE  Matched(d, n, found, m)
<1>1. \/ found \in Items(d) /\ m = [db |-> d, item |-> found]
      \/ found = 0 /\ Fresh(d) \in Ids /\ m = [db |-> Create(d, n), item |-> Fresh(d)]
  BY DEF Match
<1>2. CASE found \in Items(d) /\ m = [db |-> d, item |-> found]
  BY <1>2 DEF Matched, SameRest
<1>3. CASE found = 0 /\ Fresh(d) \in Ids /\ m = [db |-> Create(d, n), item |-> Fresh(d)]
  <2>1. m.db = Create(d, n) /\ m.item = Fresh(d)
    BY <1>3
  <2>2. Grown(d, m.db, m.item, n)
    BY <1>3, <2>1, CreateKeeps
  <2> QED BY <1>3, <2>2 DEF Matched, Grown
<1> QED BY <1>1, <1>2, <1>3

\* The row of an item's day: the one that was there, with what is new.
Entered(d, e, i, t, n, new) ==
    /\ new \in Rows /\ new.item = i /\ Day(new.at) = Day(t) /\ n \in new.filed
    /\ \A r \in OnDay(d, i, t) :
         r.at = new.at /\ r.filed \subseteq new.filed /\ new.filed \subseteq r.filed \cup {n}
    /\ OnDay(d, i, t) = {} => new.filed = {n}
    /\ e.bought = (d.bought \ OnDay(d, i, t)) \cup {new} /\ OnDay(e, i, t) = {new}
SameButBought(d, e) ==
    /\ e.name = d.name /\ e.alias = d.alias /\ e.product = d.product /\ e.pref = d.pref
    /\ e.used = d.used /\ e.stock = d.stock

LEMMA UpsertKeeps ==
    ASSUME NEW d, d \in Dbs, Keyed(d), NEW i \in Items(d), NEW t \in Times, NEW upc \in Coded,
           NEW n \in Names
    PROVE  /\ Upsert(d, i, t, upc, n) \in Dbs /\ Keyed(Upsert(d, i, t, upc, n))
           /\ SameButBought(d, Upsert(d, i, t, upc, n))
           /\ \E new : Entered(d, Upsert(d, i, t, upc, n), i, t, n, new)
<1> SUFFICES ASSUME NEW e, e = Upsert(d, i, t, upc, n)
             PROVE  /\ e \in Dbs /\ Keyed(e) /\ SameButBought(d, e)
                    /\ \E new : Entered(d, e, i, t, n, new)
  OBVIOUS
<1> DEFINE old == OnDay(d, i, t)
           row == IF old = {} THEN [item |-> i, at |-> t, upc |-> NoUpc, filed |-> {}]
                             ELSE CHOOSE r \in old : TRUE
           new == [row EXCEPT !.upc = IF @ = NoUpc THEN upc ELSE @, !.filed = @ \cup {n}]
<1>1. i \in Ids /\ d.bought \subseteq Rows /\ old \subseteq d.bought
  BY DEF Items, Dbs, OnDay
<1>2. \A r \in old : r.item = i /\ Day(r.at) = Day(t) /\ r = row
  BY DEF OnDay, Keyed
<1>3. row \in Rows /\ row.item = i /\ Day(row.at) = Day(t)
  <2>1. CASE old = {}
    BY <1>1, <2>1 DEF Rows, Coded
  <2>2. CASE old # {}
    <3>1. row \in old
      BY <2>2
    <3> QED BY <1>1, <1>2, <3>1
  <2> QED BY <2>1, <2>2
<1>4. old = {} => row.filed = {}
  OBVIOUS
<1> HIDE DEF row
<1>5. /\ new \in Rows /\ new.item = i /\ new.at = row.at /\ new.filed = row.filed \cup {n}
  BY <1>3 DEF Rows, Coded
<1>6. e = [d EXCEPT !.bought = (d.bought \ old) \cup {new}]
  BY DEF Upsert, row
<1> HIDE DEF new, old
<1>7. e.bought = (d.bought \ old) \cup {new} /\ e \in Dbs /\ SameButBought(d, e)
  BY <1>1, <1>5, <1>6 DEF Dbs, SameButBought
<1>8. OnDay(e, i, t) = {new}
  <2>1. \A r \in d.bought \ old : ~ (r.item = i /\ Day(r.at) = Day(t))
    BY DEF OnDay, old
  <2> QED BY <1>3, <1>5, <1>7, <2>1 DEF OnDay
<1>9. Items(e) = Items(d)
  BY <1>7 DEF Items, SameButBought
<1>10. Keyed(e)
  <2>2. \A r, q \in e.bought : r.item = q.item /\ Day(r.at) = Day(q.at) => r = q
    <3> SUFFICES ASSUME NEW r \in e.bought, NEW q \in e.bought, r.item = q.item,
                        Day(r.at) = Day(q.at) PROVE r = q
      OBVIOUS
    <3>1. CASE r \in d.bought /\ q \in d.bought
      BY <3>1 DEF Keyed
    <3>2. CASE r = new \/ q = new
      <4>1. r \in OnDay(e, i, t) /\ q \in OnDay(e, i, t)
        BY <3>2, <1>3, <1>5 DEF OnDay
      <4> QED BY <4>1, <1>8
    <3> QED BY <3>1, <3>2, <1>7
  <2>3. \A r \in e.bought : r.item \in Items(e)
    BY <1>5, <1>7, <1>9 DEF Keyed
  <2> QED BY <1>7, <2>2, <2>3, <1>9 DEF Keyed, SameButBought
<1>11. Entered(d, e, i, t, n, new)
  BY <1>1, <1>2, <1>3, <1>4, <1>5, <1>7, <1>8 DEF old, Entered
<1> QED BY <1>7, <1>10, <1>11

\* A bar code on a purchase becomes a product of the item, or was one.
SameButProduct(d, e) ==
    /\ e.name = d.name /\ e.alias = d.alias /\ e.pref = d.pref
    /\ e.used = d.used /\ e.stock = d.stock /\ e.bought = d.bought
Linked(d, e, i, u) ==
    /\ e \in Dbs /\ Keyed(e) /\ SameButProduct(d, e)
    /\ \A x \in Upcs : e.product[x] = IF x = u THEN i ELSE d.product[x]
    /\ u # NoUpc => d.product[u] \in {0, i}

LEMMA LinkKeeps ==
    ASSUME NEW d, d \in Dbs, Keyed(d), NEW i \in Items(d), NEW u \in Coded, NEW e \in Link(d, i, u)
    PROVE  Linked(d, e, i, u)
<1>1. i \in Ids /\ NoUpc \notin Upcs
  BY PantryAssumption DEF Items
<1>2. CASE u = NoUpc
  <2>1. e = d
    BY <1>2 DEF Link
  <2> QED BY <1>1, <1>2, <2>1 DEF Linked, SameButProduct
<1>3. CASE u # NoUpc
  <2>1. u \in Upcs /\ d.product[u] \in {0, i} /\ e = [d EXCEPT !.product[u] = i]
    BY <1>3 DEF Link, Coded
  <2>2. e \in Dbs /\ e.product = [d.product EXCEPT ![u] = i] /\ SameButProduct(d, e)
    BY <1>1, <2>1 DEF Dbs, SameButProduct
  <2>3. \A x \in Upcs : e.product[x] = IF x = u THEN i ELSE d.product[x]
    BY <2>2 DEF Dbs
  <2>4. Keyed(e)
    BY <2>2, <2>3 DEF Keyed, Items, SameButProduct
  <2> QED BY <2>1, <2>2, <2>3, <2>4 DEF Linked
<1> QED BY <1>2, <1>3

\* Flags of an item say nothing of what refers to it.
SameTables(d, e) ==
    /\ e.name = d.name /\ e.alias = d.alias /\ e.product = d.product /\ e.pref = d.pref
    /\ e.used = d.used /\ e.stock = d.stock /\ e.bought = d.bought

LEMMA SameIsSound ==
    ASSUME NEW d, Sound(d), NEW e \in Dbs, SameTables(d, e)
    PROVE  Sound(e)
<1>1. Items(e) = Items(d)
  BY DEF Items, SameTables
<1> QED BY <1>1 DEF Sound, Keyed, Owning, SameTables

LEMMA ShowKeeps ==
    ASSUME NEW d, Sound(d), NEW i \in Ids, NEW b \in BOOLEAN
    PROVE  /\ Sound([d EXCEPT !.tracked[i] = b])
           /\ SameTables(d, [d EXCEPT !.tracked[i] = b])
<1> SUFFICES ASSUME NEW e, e = [d EXCEPT !.tracked[i] = b] PROVE Sound(e) /\ SameTables(d, e)
  OBVIOUS
<1>1. e \in Dbs /\ SameTables(d, e)
  BY DEF Sound, Dbs, SameTables
<1> QED BY <1>1, SameIsSound

\* The item i has a purchase on the day of t, filed under the name n.
Bought(d, e, i, t, n) ==
    /\ Sound(e)
    /\ e.name = d.name /\ e.alias = d.alias /\ e.used = d.used /\ e.stock = d.stock
    /\ \E new : Entered(d, e, i, t, n, new)

LEMMA EntryKeeps ==
    ASSUME NEW d, Sound(d), NEW i \in Items(d), NEW t \in Times, NEW upc \in Coded, NEW n \in Names,
           NEW b, b = Upsert(d, i, t, upc, n), NEW row, row \in OnDay(b, i, t),
           NEW e \in Link(b, i, row.upc)
    PROVE  Bought(d, e, i, t, n)
<1>1. b \in Dbs /\ Keyed(b) /\ SameButBought(d, b)
  BY UpsertKeeps DEF Sound
<1>2. PICK new : Entered(d, b, i, t, n, new)
  BY UpsertKeeps DEF Sound
<1>3. row = new /\ new \in Rows
  BY <1>2 DEF Entered
<1>4. i \in Items(b) /\ row.upc \in Coded
  BY <1>1, <1>3 DEF SameButBought, Items, Rows, Coded
<1>5. Linked(b, e, i, row.upc)
  BY <1>1, <1>4, LinkKeeps
<1>6. /\ e \in Dbs /\ Keyed(e) /\ e.name = d.name /\ e.alias = d.alias
      /\ e.used = d.used /\ e.stock = d.stock /\ e.pref = d.pref /\ e.bought = b.bought
  BY <1>1, <1>5 DEF SameButBought, SameButProduct, Linked
<1>7. Entered(d, e, i, t, n, new)
  BY <1>2, <1>6 DEF Entered, OnDay
<1>8. i \in Ids /\ 0 \notin Ids /\ NoUpc \notin Upcs
  BY PantryAssumption DEF Items, Ids
<1>9. \A x \in Upcs, j \in Ids : d.product[x] = j => e.product[x] = j
  <2>1. b.product = d.product
    BY <1>1 DEF SameButBought
  <2> QED BY <1>5, <1>8, <2>1 DEF Linked
<1>10. Owning(e)
  <2>1. ASSUME NEW r \in e.bought, r.upc # NoUpc PROVE e.product[r.upc] = r.item
    <3>1. r \in Rows /\ r.upc \in Upcs /\ r.item \in Ids
      BY <1>6, <2>1 DEF Dbs, Rows
    <3>2. CASE r = new
      BY <1>2, <1>3, <1>5, <2>1, <3>1, <3>2 DEF Linked, Entered
    <3>3. CASE r \in d.bought
      BY <1>9, <2>1, <3>1, <3>3 DEF Owning, Sound
    <3> QED BY <1>2, <1>6, <3>2, <3>3 DEF Entered
  <2>2. ASSUME NEW j \in Ids, e.pref[j] # NoUpc PROVE e.product[e.pref[j]] = j
    <3>1. d.pref[j] \in Upcs /\ d.product[d.pref[j]] = j
      BY <1>6, <2>2 DEF Owning, Sound, Dbs, Coded
    <3> QED BY <1>6, <1>9, <3>1
  <2> QED BY <2>1, <2>2 DEF Owning
<1> QED BY <1>6, <1>7, <1>10 DEF Bought, Sound

\* What a line of a receipt does.
BuyGives(r, line, t, m, q) ==
    LET n == FiledAs(m.db, line.name, m.item)
    IN /\ n \in Names /\ Bought(m.db, q.db, m.item, t, n)
       /\ q.touched = r.touched \cup {m.item} /\ q.filed = r.filed \cup {<<n, Day(t)>>}

LEMMA BuyKeeps ==
    ASSUME NEW r \in Results, Sound(r.db), NEW line, line.name \in Names, line.upc \in Coded,
           NEW t \in Times, NEW found \in Ids \cup {0}, NEW hidden \in BOOLEAN,
           NEW q \in Buy(r, line, t, found, hidden)
    PROVE  \E m : Matched(r.db, line.name, found, m) /\ BuyGives(r, line, t, m, q)
               /\ q \in Results
<1>1. PICK m \in Match(r.db, line.name, found) :
        LET i == m.item
            n == FiledAs(m.db, line.name, i)
            shown == [m.db EXCEPT !.tracked[i] = @ \/ hidden]
            bought == Upsert(shown, i, t, line.upc, n)
            row == CHOOSE b \in OnDay(bought, i, t) : TRUE
        IN q \in {[db |-> d, touched |-> r.touched \cup {i}, filed |-> r.filed \cup {<<n, Day(t)>>}] :
                    d \in Link(bought, i, row.upc)}
  BY DEF Buy
<1> DEFINE i == m.item
           n == FiledAs(m.db, line.name, i)
           shown == [m.db EXCEPT !.tracked[i] = @ \/ hidden]
           bought == Upsert(shown, i, t, line.upc, n)
           row == CHOOSE b \in OnDay(bought, i, t) : TRUE
<1>2. PICK d \in Link(bought, i, row.upc) :
        q = [db |-> d, touched |-> r.touched \cup {i}, filed |-> r.filed \cup {<<n, Day(t)>>}]
  BY <1>1
<1>3. Matched(r.db, line.name, found, m)
  BY MatchKeeps
<1>4. Sound(m.db) /\ i \in Items(m.db) /\ i \in Ids
  BY <1>3 DEF Matched, Items
<1>5. n \in Names
  BY <1>4 DEF FiledAs, Items, Sound, Dbs
<1> HIDE DEF n
<1>6. Sound(shown) /\ SameTables(m.db, shown)
  <2>1. PICK b \in BOOLEAN : b = (m.db.tracked[i] \/ hidden)
    OBVIOUS
  <2>2. shown = [m.db EXCEPT !.tracked[i] = b]
    BY <2>1
  <2> QED BY <1>4, <2>2, ShowKeeps
<1> HIDE DEF shown
<1>7. i \in Items(shown)
  BY <1>4, <1>6 DEF SameTables, Items
<1>8. \E new : Entered(shown, bought, i, t, n, new)
  BY <1>5, <1>6, <1>7, UpsertKeeps DEF Sound
<1>9. row \in OnDay(bought, i, t)
  BY <1>8 DEF Entered
<1> HIDE DEF bought, row
<1>10. Bought(shown, d, i, t, n)
  BY <1>2, <1>5, <1>6, <1>7, <1>9, EntryKeeps DEF bought
<1>11. Bought(m.db, d, i, t, n)
  BY <1>6, <1>10 DEF Bought, SameTables, Entered, OnDay
<1>12. q.db = d /\ q.touched = r.touched \cup {i} /\ q.filed = r.filed \cup {<<n, Day(t)>>}
  BY <1>2
<1>13. BuyGives(r, line, t, m, q)
  BY <1>5, <1>11, <1>12 DEF BuyGives, n
<1>14. q \in Results
  <2>1. d \in Dbs /\ r.touched \cup {i} \in SUBSET Ids
    BY <1>4, <1>11 DEF Results, Bought, Sound
  <2>2. r.filed \cup {<<n, Day(t)>>} \in SUBSET (Names \X Days)
    BY <1>5 DEF Results, Days
  <2> QED BY <1>2, <2>1, <2>2 DEF Results
<1> QED BY <1>3, <1>13, <1>14

\* A consumption of the item i is written down, or was.
Noted(d, e, i) ==
    /\ Sound(e) /\ e.name = d.name /\ e.alias = d.alias /\ e.bought = d.bought
    /\ e.stock = d.stock /\ \A j \in Ids \ {i} : e.used[j] = d.used[j]

LEMMA NoteKeeps ==
    ASSUME NEW d, Sound(d), NEW i \in Items(d), NEW t \in Times
    PROVE  Noted(d, [d EXCEPT !.used[i] = @ \cup {t}], i)
<1> SUFFICES ASSUME NEW e, e = [d EXCEPT !.used[i] = @ \cup {t}] PROVE Noted(d, e, i)
  OBVIOUS
<1>1. i \in Ids
  BY DEF Items
<1>2. /\ e \in Dbs /\ e.name = d.name /\ e.alias = d.alias /\ e.bought = d.bought
      /\ e.stock = d.stock /\ e.product = d.product /\ e.pref = d.pref
      /\ \A j \in Ids \ {i} : e.used[j] = d.used[j]
  BY <1>1 DEF Sound, Dbs
<1>3. Items(e) = Items(d)
  BY <1>2 DEF Items
<1>4. Keyed(e) /\ Owning(e)
  <2>1. \A j \in Ids \ Items(d) : e.used[j] = d.used[j]
    BY <1>2
  <2>2. Keyed(e)
    BY <1>2, <1>3, <2>1 DEF Sound, Keyed
  <2>3. Owning(e)
    BY <1>2 DEF Sound, Owning
  <2> QED BY <2>2, <2>3
<1> QED BY <1>2, <1>4 DEF Noted, Sound

\* What a line of a meal, or a consumption of a batch, does.
UseGives(r, m, q) ==
    /\ Noted(m.db, q.db, m.item) /\ q.filed = r.filed
    /\ \/ q.touched = r.touched \cup {m.item}
       \/ q.touched = r.touched /\ q.db.used = m.db.used

LEMMA UseKeeps ==
    ASSUME NEW r \in Results, Sound(r.db), NEW n \in Names, NEW t \in Times,
           NEW q \in UseLine(r, n, t)
    PROVE  \E m : Matched(r.db, n, Resolve(r.db, n), m) /\ UseGives(r, m, q) /\ q \in Results
<1>1. PICK m \in Match(r.db, n, Resolve(r.db, n)) : q = Use(r, m.item, t, m.db)
  BY DEF UseLine
<1>2. Resolve(r.db, n) \in Ids \cup {0}
  BY ResolveTyped DEF Sound, Items
<1>3. Matched(r.db, n, Resolve(r.db, n), m)
  BY <1>2, MatchKeeps
<1>4. Sound(m.db) /\ m.item \in Items(m.db) /\ m.item \in Ids
  BY <1>3 DEF Matched, Items
<1>5. PICK e : e = [m.db EXCEPT !.used[m.item] = @ \cup {t}]
  OBVIOUS
<1>6. Noted(m.db, e, m.item)
  BY <1>4, <1>5, NoteKeeps
<1>7. q = [r EXCEPT !.db = e, !.touched = @ \cup {m.item}]
  BY <1>1, <1>5 DEF Use
<1>8. q.db = e /\ q.touched = r.touched \cup {m.item} /\ q.filed = r.filed /\ q \in Results
  BY <1>4, <1>6, <1>7 DEF Results, Noted, Sound
<1> QED BY <1>3, <1>6, <1>8 DEF UseGives

LEMMA ImportUseKeeps ==
    ASSUME NEW r \in Results, Sound(r.db), NEW c \in OldUses, NEW q \in ImportUse(r, c)
    PROVE  \E m : Matched(r.db, c.name, Resolve(r.db, c.name), m) /\ UseGives(r, m, q)
               /\ q \in Results
<1> DEFINE n == c.name
<1>1. PICK m \in Match(r.db, n, Resolve(r.db, n)) :
        LET d == [m.db EXCEPT !.tracked[m.item] = TRUE]
        IN q = IF c.at \in d.used[m.item] THEN [r EXCEPT !.db = d] ELSE Use(r, m.item, c.at, d)
  BY DEF ImportUse
<1>2. n \in Names /\ c.at \in Times /\ Resolve(r.db, n) \in Ids \cup {0}
  BY ResolveTyped DEF Sound, Items, OldUses
<1>3. Matched(r.db, n, Resolve(r.db, n), m)
  BY <1>2, MatchKeeps
<1>4. Sound(m.db) /\ m.item \in Items(m.db) /\ m.item \in Ids
  BY <1>3 DEF Matched, Items
<1>5. PICK d : d = [m.db EXCEPT !.tracked[m.item] = TRUE]
  OBVIOUS
<1>6. Sound(d) /\ SameTables(m.db, d)
  BY <1>4, <1>5, ShowKeeps
<1>7. q = IF c.at \in d.used[m.item] THEN [r EXCEPT !.db = d] ELSE Use(r, m.item, c.at, d)
  BY <1>1, <1>5
<1>8. CASE c.at \in d.used[m.item]
  <2>1. q.db = d /\ q.touched = r.touched /\ q.filed = r.filed /\ q \in Results
    BY <1>6, <1>7, <1>8 DEF Results, Sound
  <2>2. Noted(m.db, q.db, m.item) /\ q.db.used = m.db.used
    BY <1>6, <2>1 DEF Noted, SameTables
  <2> QED BY <1>3, <2>1, <2>2 DEF UseGives
<1>9. CASE c.at \notin d.used[m.item]
  <2>1. PICK e : e = [d EXCEPT !.used[m.item] = @ \cup {c.at}]
    OBVIOUS
  <2>2. m.item \in Items(d)
    BY <1>4, <1>6 DEF SameTables, Items
  <2>3. Noted(d, e, m.item)
    BY <1>2, <1>6, <2>1, <2>2, NoteKeeps
  <2>4. q = [r EXCEPT !.db = e, !.touched = @ \cup {m.item}]
    BY <1>7, <1>9, <2>1 DEF Use
  <2>5. q.db = e /\ q.touched = r.touched \cup {m.item} /\ q.filed = r.filed /\ q \in Results
    BY <1>4, <2>3, <2>4 DEF Results, Noted, Sound
  <2>6. Noted(m.db, q.db, m.item)
    BY <1>6, <2>3, <2>5 DEF Noted, SameTables
  <2> QED BY <1>3, <2>5, <2>6 DEF UseGives
<1> QED BY <1>8, <1>9

\* The item i has the aliases of an entry that were nobody's.
Listed(d, e, i, akas) ==
    /\ Sound(e) /\ e.name = d.name /\ e.bought = d.bought /\ e.used = d.used /\ e.stock = d.stock
    /\ \A n \in Names :
         e.alias[n] = IF n \in akas /\ n # d.name[i] /\ d.alias[n] = 0 THEN i ELSE d.alias[n]

LEMMA ListKeeps ==
    ASSUME NEW d, Sound(d), NEW i \in Items(d), NEW akas, NEW upc \in Coded, NEW listed,
           listed = [d EXCEPT
                !.tracked[i] = TRUE,
                !.alias = [n \in Names |->
                    IF n \in akas /\ n # d.name[i] /\ @[n] = 0 THEN i ELSE @[n]]],
           NEW e \in Preferred(listed, i, upc)
    PROVE  Listed(d, e, i, akas)
<1>1. i \in Ids /\ NoUpc \notin Upcs
  BY PantryAssumption DEF Items
<1>2. /\ listed \in Dbs /\ listed.name = d.name /\ listed.bought = d.bought
      /\ listed.used = d.used /\ listed.stock = d.stock
      /\ listed.product = d.product /\ listed.pref = d.pref
      /\ listed.alias = [n \in Names |->
            IF n \in akas /\ n # d.name[i] /\ d.alias[n] = 0 THEN i ELSE d.alias[n]]
  BY <1>1 DEF Sound, Dbs
<1>3. Items(listed) = Items(d)
  BY <1>2 DEF Items
<1>4. Keyed(listed) /\ Owning(listed)
  <2>1. \A n \in Names : listed.alias[n] \in {i, d.alias[n]}
    BY <1>2
  <2>2. \A n \in Names : listed.alias[n] \in Items(d) \cup {0}
    BY <2>1 DEF Sound, Keyed
  <2>3. Keyed(listed)
    BY <1>2, <1>3, <2>2 DEF Sound, Keyed
  <2>4. Owning(listed)
    BY <1>2 DEF Sound, Owning
  <2> QED BY <2>3, <2>4
<1>5. Listed(d, listed, i, akas)
  BY <1>2, <1>4 DEF Sound, Listed
<1>6. CASE e = listed
  BY <1>5, <1>6
<1>7. ASSUME NEW p \in Link(listed, i, upc), upc # NoUpc,
             e = [p EXCEPT !.pref[i] = upc, !.pinned[i] = FALSE]
      PROVE  Listed(d, e, i, akas)
  <2>1. Linked(listed, p, i, upc)
    BY <1>2, <1>3, <1>4, LinkKeeps
  <2>2. /\ e \in Dbs /\ e.name = p.name /\ e.alias = p.alias /\ e.product = p.product
        /\ e.used = p.used /\ e.stock = p.stock /\ e.bought = p.bought
        /\ e.pref = [p.pref EXCEPT ![i] = upc]
    BY <1>1, <1>7, <2>1 DEF Linked, Dbs
  <2>3. /\ e.name = listed.name /\ e.alias = listed.alias /\ e.used = listed.used
        /\ e.stock = listed.stock /\ e.bought = listed.bought
        /\ e.pref = [listed.pref EXCEPT ![i] = upc]
    BY <2>1, <2>2 DEF Linked, SameButProduct
  <2>4. Items(e) = Items(listed) /\ i \in Items(listed)
    BY <1>3, <2>3 DEF Items
  <2>5. \A j \in Ids : e.pref[j] = IF j = i THEN upc ELSE listed.pref[j]
    BY <1>2, <2>3 DEF Dbs
  <2>6. \A x \in Upcs : e.product[x] = IF x = upc THEN i ELSE listed.product[x]
    BY <2>1, <2>2 DEF Linked
  <2>7. listed.product[upc] \in {0, i} /\ upc \in Upcs /\ 0 \notin Ids
    BY <1>7, <2>1 DEF Linked, Coded, Ids
  <2>8. Keyed(e)
    <3>1. \A u \in Upcs : e.product[u] \in Items(e) \cup {0}
      BY <1>4, <2>4, <2>6 DEF Keyed
    <3>2. \A j \in Ids \ Items(e) : e.stock[j] = NoRow /\ e.used[j] = {} /\ e.pref[j] = NoUpc
      BY <1>4, <2>3, <2>4, <2>5 DEF Keyed
    <3>3. /\ \A n \in Names : e.alias[n] \in Items(e) \cup {0}
          /\ \A r \in e.bought : r.item \in Items(e)
          /\ \A r, q \in e.bought : r.item = q.item /\ Day(r.at) = Day(q.at) => r = q
      BY <1>4, <2>3, <2>4 DEF Keyed
    <3> QED BY <3>1, <3>2, <3>3 DEF Keyed
  <2>9. \A r \in e.bought : r.upc # NoUpc => e.product[r.upc] = r.item
    <3>1. \A r \in listed.bought : r.item \in Ids /\ r.upc \in Coded
      BY <1>2 DEF Dbs, Rows, Coded
    <3> QED BY <1>4, <2>3, <2>6, <2>7, <3>1 DEF Owning, Coded
  <2>10. \A j \in Ids : e.pref[j] # NoUpc => e.product[e.pref[j]] = j
    <3>1. \A j \in Ids : listed.pref[j] \in Coded
      BY <1>2 DEF Dbs
    <3> QED BY <1>4, <2>5, <2>6, <2>7, <3>1 DEF Owning, Coded
  <2>11. Sound(e)
    BY <2>2, <2>8, <2>9, <2>10 DEF Sound, Owning
  <2> QED BY <1>5, <2>3, <2>11 DEF Listed
<1>8. e = listed \/ (upc # NoUpc /\ \E p \in Link(listed, i, upc) :
                        e = [p EXCEPT !.pref[i] = upc, !.pinned[i] = FALSE])
  BY DEF Preferred
<1> QED BY <1>6, <1>7, <1>8

\* What an entry of a batch does.
ListGives(r, entry, m, q) ==
    Listed(m.db, q.db, m.item, entry.akas) /\ q.filed = r.filed /\ q.touched = r.touched

LEMMA ImportItemKeeps ==
    ASSUME NEW r \in Results, Sound(r.db), NEW entry \in Entries, NEW q \in ImportItem(r, entry)
    PROVE  \E m : Matched(r.db, entry.name, Resolve(r.db, entry.name), m)
               /\ ListGives(r, entry, m, q) /\ q \in Results
<1>1. PICK m \in Match(r.db, entry.name, Resolve(r.db, entry.name)) :
        LET i == m.item
            listed == [m.db EXCEPT
                !.tracked[i] = TRUE,
                !.alias = [n \in Names |->
                    IF n \in entry.akas /\ n # m.db.name[i] /\ @[n] = 0 THEN i ELSE @[n]]]
        IN q \in {[r EXCEPT !.db = d] : d \in Preferred(listed, i, entry.pref)}
  BY DEF ImportItem
<1>2. entry.name \in Names /\ entry.pref \in Coded /\ Resolve(r.db, entry.name) \in Ids \cup {0}
  BY ResolveTyped DEF Sound, Items, Entries
<1>3. Matched(r.db, entry.name, Resolve(r.db, entry.name), m)
  BY <1>2, MatchKeeps
<1>4. Sound(m.db) /\ m.item \in Items(m.db)
  BY <1>3 DEF Matched
<1>5. PICK listed :
        listed = [m.db EXCEPT
            !.tracked[m.item] = TRUE,
            !.alias = [n \in Names |->
                IF n \in entry.akas /\ n # m.db.name[m.item] /\ @[n] = 0 THEN m.item ELSE @[n]]]
  OBVIOUS
<1>6. PICK e \in Preferred(listed, m.item, entry.pref) : q = [r EXCEPT !.db = e]
  BY <1>1, <1>5
<1>7. Listed(m.db, e, m.item, entry.akas)
  BY <1>2, <1>4, <1>5, <1>6, ListKeeps
<1>8. q.db = e /\ q.filed = r.filed /\ q.touched = r.touched /\ q \in Results
  BY <1>6, <1>7 DEF Results, Listed, Sound
<1> QED BY <1>3, <1>7, <1>8 DEF ListGives

-----------------------------------------------------------------------------
(* What a line leaves true *)

LEMMA EntryHolds ==
    ASSUME NEW d, NEW e, NEW i, NEW t, NEW n, NEW new, Entered(d, e, i, t, n, new)
    PROVE  /\ \A k : Held(d, k) => Held(e, k)
           /\ Held(e, <<n, Day(t)>>)
<1>1. ASSUME NEW k, Held(d, k) PROVE Held(e, k)
  <2>1. PICK r \in d.bought : k[1] \in r.filed /\ Day(r.at) = k[2]
    BY <1>1 DEF Held
  <2>2. CASE r \in OnDay(d, i, t)
    <3>1. r.filed \subseteq new.filed /\ r.at = new.at /\ new \in e.bought
      BY <2>2 DEF Entered
    <3> QED BY <2>1, <3>1 DEF Held
  <2>3. CASE r \notin OnDay(d, i, t)
    BY <2>1, <2>3 DEF Held, Entered
  <2> QED BY <2>2, <2>3
<1>2. Held(e, <<n, Day(t)>>)
  BY DEF Held, Entered
<1> QED BY <1>1, <1>2

\* The three kinds of line, whatever item was found.
LEMMA FineStep ==
    ASSUME NEW K, NEW r \in Fine(K), NEW q \in Results, NEW n, NEW found, NEW m,
           Matched(r.db, n, found, m),
           \/ \E line, t : BuyGives(r, line, t, m, q)
           \/ UseGives(r, m, q)
           \/ \E entry : ListGives(r, entry, m, q)
    PROVE  q \in Fine(K)
<1>1. /\ Sound(m.db) /\ m.item \in Items(m.db) /\ Items(r.db) \subseteq Items(m.db)
      /\ m.db.bought = r.db.bought
  BY DEF Matched, SameRest
<1>2. r.touched \subseteq Items(r.db) /\ \A k \in K \cup r.filed : Held(m.db, k)
  BY <1>1 DEF Fine, Held
<1>3. ASSUME NEW line, NEW t, BuyGives(r, line, t, m, q) PROVE q \in Fine(K)
  <2> DEFINE name == FiledAs(m.db, line.name, m.item)
  <2>1. PICK new : Entered(m.db, q.db, m.item, t, name, new)
    BY <1>3 DEF BuyGives, Bought
  <2>2. Sound(q.db) /\ Items(q.db) = Items(m.db)
    BY <1>3 DEF BuyGives, Bought, Items
  <2>3. q.touched = r.touched \cup {m.item} /\ q.filed = r.filed \cup {<<name, Day(t)>>}
    BY <1>3 DEF BuyGives
  <2>4. \A k \in K \cup q.filed : Held(q.db, k)
    <3>1. \A k : Held(m.db, k) => Held(q.db, k)
      BY <2>1, EntryHolds
    <3>2. Held(q.db, <<name, Day(t)>>)
      BY <2>1, EntryHolds
    <3> QED BY <1>2, <2>3, <3>1, <3>2
  <2> QED BY <1>1, <1>2, <2>2, <2>3, <2>4 DEF Fine
<1>4. CASE UseGives(r, m, q)
  <2>1. Sound(q.db) /\ Items(q.db) = Items(m.db) /\ q.db.bought = m.db.bought /\ q.filed = r.filed
    BY <1>4 DEF UseGives, Noted, Items
  <2>2. q.touched \subseteq r.touched \cup {m.item}
    BY <1>4 DEF UseGives
  <2> QED BY <1>1, <1>2, <2>1, <2>2 DEF Fine, Held
<1>5. ASSUME NEW entry, ListGives(r, entry, m, q) PROVE q \in Fine(K)
  <2>1. Sound(q.db) /\ Items(q.db) = Items(m.db) /\ q.db.bought = m.db.bought /\ q.filed = r.filed
        /\ q.touched = r.touched
    BY <1>5 DEF ListGives, Listed, Items
  <2> QED BY <1>1, <1>2, <2>1 DEF Fine, Held
<1> QED BY <1>3, <1>4, <1>5

\* A new item has a name that led to none.
LEMMA MatchLeads ==
    ASSUME NEW d, Sound(d), Apart(d), Leading(d), NEW n \in Names, NEW m,
           Matched(d, n, Resolve(d, n), m)
    PROVE  /\ Apart(m.db) /\ Leading(m.db)
           /\ \A c \in Names \ {n} : Named(d, c) = {} => Named(m.db, c) = {}
<1>1. CASE m.db = d
  BY <1>1
<1>2. CASE Resolve(d, n) = 0 /\ Grown(d, m.db, m.item, n)
  <2> DEFINE e == m.db
             j == m.item
  <2>1. Named(d, n) = {} /\ d.alias[n] = 0
    BY <1>2, ResolveTyped DEF Sound
  <2>2. /\ Items(e) = Items(d) \cup {j} /\ j \in Ids \ Items(d)
        /\ e.name = [d.name EXCEPT ![j] = n]
        /\ e.alias = d.alias /\ e.bought = d.bought
    BY <1>2 DEF Grown, SameRest
  <2>3. d.name \in [Ids -> Names \cup {NoName}] /\ Items(d) \subseteq Ids
    BY DEF Sound, Dbs, Items
  <2> HIDE DEF e, j
  <2>4. e.name[j] = n /\ \A i \in Items(d) : e.name[i] = d.name[i] /\ e.name[i] # n
    BY <2>1, <2>2, <2>3 DEF Named
  <2>5. \A c \in Names \ {n} : Named(e, c) = Named(d, c)
    BY <2>2, <2>4 DEF Named
  <2>6. Named(e, n) = {j}
    BY <2>2, <2>4 DEF Named
  <2>7. Apart(e)
    <3> SUFFICES ASSUME NEW i \in Items(e) PROVE Named(e, e.name[i]) \subseteq {i} /\ e.alias[e.name[i]] = 0
      BY DEF Apart
    <3>1. CASE i = j
      BY <2>1, <2>2, <2>4, <2>6, <3>1
    <3>2. CASE i \in Items(d)
      <4>1. e.name[i] = d.name[i] /\ d.name[i] \in Names \ {n}
        BY <2>3, <2>4, <3>2 DEF Items
      <4> QED BY <2>2, <2>5, <3>2, <4>1 DEF Apart
    <3> QED BY <2>2, <3>1, <3>2
  <2>8. Leading(e)
    <3>1. \A r \in d.bought : r.item \in Items(d)
      BY DEF Sound, Keyed
    <3> QED BY <2>2, <2>4, <3>1 DEF Leading
  <2> QED BY <2>5, <2>7, <2>8 DEF e
<1> QED BY <1>1, <1>2 DEF Matched

\* A purchase is filed under a name that leads to its item.
LEMMA EntryLeads ==
    ASSUME NEW d, Sound(d), Apart(d), Leading(d), NEW i, NEW t, NEW name \in Names, NEW e,
           Bought(d, e, i, t, FiledAs(d, name, i))
    PROVE  Apart(e) /\ Leading(e) /\ \A c : Named(e, c) = Named(d, c)
<1> DEFINE n == FiledAs(d, name, i)
<1>1. PICK new : Entered(d, e, i, t, n, new)
  BY DEF Bought
<1>2. e.name = d.name /\ e.alias = d.alias
  BY DEF Bought
<1>3. Items(e) = Items(d) /\ \A c : Named(e, c) = Named(d, c)
  BY <1>2 DEF Items, Named
<1>4. Apart(e)
  BY <1>2, <1>3 DEF Apart
<1>5. d.name[i] = n \/ d.alias[n] = i
  BY DEF FiledAs
<1> HIDE DEF n
<1>6. ASSUME NEW r \in e.bought, NEW x \in r.filed PROVE d.name[r.item] = x \/ d.alias[x] = r.item
  <2>1. CASE r \in d.bought
    BY <1>6, <2>1 DEF Leading
  <2>2. CASE r = new
    <3>1. CASE x = n
      BY <1>1, <1>5, <2>2, <3>1 DEF Entered
    <3>2. CASE x # n
      <4>1. PICK o \in OnDay(d, i, t) : x \in o.filed
        BY <1>1, <1>6, <2>2, <3>2 DEF Entered
      <4>2. o \in d.bought /\ o.item = i /\ new.item = i
        BY <1>1 DEF OnDay, Entered
      <4> QED BY <2>2, <4>1, <4>2 DEF Leading
    <3> QED BY <3>1, <3>2
  <2> QED BY <1>1, <2>1, <2>2 DEF Entered
<1> QED BY <1>2, <1>3, <1>4, <1>6 DEF Leading

LEMMA LedStep ==
    ASSUME NEW K, NEW C \in SUBSET Names, NEW r \in Led(K, C), NEW q \in Results,
           NEW n \in Names, NEW m,
           Matched(r.db, n, Resolve(r.db, n), m), n \notin C,
           \/ \E line, t : line.name = n /\ BuyGives(r, line, t, m, q)
           \/ UseGives(r, m, q)
           \/ \E entry : entry.name = n /\ entry.akas \ {n} \subseteq C /\ ListGives(r, entry, m, q)
    PROVE  q \in Led(K, C)
<1>1. r \in Fine(K) /\ Sound(r.db) /\ Apart(r.db) /\ Leading(r.db)
  BY DEF Led, Fine
<1>2. q \in Fine(K)
  BY <1>1, FineStep
<1>3. Sound(m.db) /\ m.item \in Items(m.db)
  BY DEF Matched
<1>4. Apart(m.db) /\ Leading(m.db) /\ \A c \in C : Named(m.db, c) = {}
  <2>1. \A c \in C : c \in Names \ {n} /\ Named(r.db, c) = {}
    BY DEF Led
  <2> QED BY <1>1, <2>1, MatchLeads
<1>5. ASSUME NEW line, NEW t, line.name = n, BuyGives(r, line, t, m, q) PROVE q \in Led(K, C)
  <2>1. Bought(m.db, q.db, m.item, t, FiledAs(m.db, n, m.item))
    BY <1>5 DEF BuyGives
  <2>2. Apart(q.db) /\ Leading(q.db) /\ \A c : Named(q.db, c) = Named(m.db, c)
    BY <1>3, <1>4, <2>1, EntryLeads
  <2> QED BY <1>2, <1>4, <2>2 DEF Led
<1>6. CASE UseGives(r, m, q)
  <2>1. q.db.name = m.db.name /\ q.db.alias = m.db.alias /\ q.db.bought = m.db.bought
    BY <1>6 DEF UseGives, Noted
  <2> QED BY <1>2, <1>4, <2>1 DEF Led, Apart, Leading, Named, Items
<1>7. ASSUME NEW entry, entry.name = n, entry.akas \ {n} \subseteq C, ListGives(r, entry, m, q)
      PROVE  q \in Led(K, C)
  <2> DEFINE e == q.db
             i == m.item
             d == m.db
  <2>1. /\ e.name = d.name /\ e.bought = d.bought
        /\ \A x \in Names :
             e.alias[x] = IF x \in entry.akas /\ x # d.name[i] /\ d.alias[x] = 0 THEN i ELSE d.alias[x]
    BY <1>7 DEF ListGives, Listed
  <2>2. Items(e) = Items(d) /\ \A c : Named(e, c) = Named(d, c)
    BY <2>1 DEF Items, Named
  <2>3. ASSUME NEW x \in Names, e.alias[x] # d.alias[x] PROVE Named(d, x) = {}
    <3>1. x \in entry.akas /\ x # d.name[i]
      BY <2>1, <2>3
    <3>2. CASE x # n
      BY <1>4, <1>7, <3>1, <3>2
    <3>3. CASE x = n
      <4> SUFFICES ASSUME Named(d, n) # {} PROVE FALSE
        BY <3>3
      <4>1. CASE d = r.db /\ i = Resolve(r.db, n)
        <5>1. i \in Named(d, n)
          BY <1>1, <4>1, ResolveTyped DEF Sound
        <5> QED BY <3>1, <3>3, <5>1 DEF Named
      <4>2. CASE Grown(r.db, d, i, n)
        <5>1. d.name[i] = n
          BY <1>1, <4>2 DEF Grown, Sound, Dbs
        <5> QED BY <3>1, <3>3, <5>1
      <4> QED BY <4>1, <4>2 DEF Matched
    <3> QED BY <3>2, <3>3
  <2>4. Apart(e)
    <3> SUFFICES ASSUME NEW j \in Items(d)
                 PROVE  Named(d, d.name[j]) \subseteq {j} /\ e.alias[d.name[j]] = 0
      BY <2>1, <2>2 DEF Apart
    <3>1. d.name[j] \in Names /\ j \in Named(d, d.name[j])
      BY <1>3 DEF Sound, Dbs, Items, Named
    <3>2. Named(d, d.name[j]) \subseteq {j} /\ d.alias[d.name[j]] = 0
      BY <1>4 DEF Apart
    <3> QED BY <2>3, <3>1, <3>2
  <2>5. Leading(e)
    <3> SUFFICES ASSUME NEW b \in d.bought, NEW x \in b.filed
                 PROVE  d.name[b.item] = x \/ e.alias[x] = b.item
      BY <2>1 DEF Leading
    <3>1. x \in Names /\ b.item \in Items(d) /\ 0 \notin Items(d)
      BY <1>3 DEF Sound, Dbs, Keyed, Rows, Items, Ids
    <3>2. d.name[b.item] = x \/ d.alias[x] = b.item
      BY <1>4 DEF Leading
    <3> QED BY <2>1, <3>1, <3>2
  <2> QED BY <1>2, <1>4, <2>2, <2>4, <2>5 DEF Led
<1> QED BY <1>5, <1>6, <1>7

\* An item that no line was for keeps its purchases, consumptions and row.
LEMMA CurrentStays ==
    ASSUME NEW d, NEW e, NEW i, Current(d, i), Purchases(e, i) = Purchases(d, i),
           e.used[i] = d.used[i], e.stock[i] = d.stock[i]
    PROVE  Current(e, i)
<1>1. Derived(e, i) = Derived(d, i)
  BY DEF Derived
<1> QED BY <1>1 DEF Current

LEMMA FollowedStep ==
    ASSUME NEW K, NEW r \in Followed(K), NEW q \in Results, NEW n, NEW found, NEW m,
           Matched(r.db, n, found, m),
           \/ \E line, t : BuyGives(r, line, t, m, q)
           \/ UseGives(r, m, q)
           \/ \E entry : ListGives(r, entry, m, q)
    PROVE  q \in Followed(K)
<1>1. r \in Fine(K)
  BY DEF Followed
<1>2. q \in Fine(K)
  BY <1>1, FineStep
<1>3. m.db.bought = r.db.bought /\ m.db.used = r.db.used /\ m.db.stock = r.db.stock
  BY DEF Matched, SameRest
<1>4. ASSUME NEW i \in Ids \ q.touched PROVE Current(q.db, i)
  <2>1. CASE \E line, t : BuyGives(r, line, t, m, q)
    <3>1. PICK line, t : BuyGives(r, line, t, m, q)
      BY <2>1
    <3>2. PICK x, new : Entered(m.db, q.db, m.item, t, x, new)
      BY <3>1 DEF BuyGives, Bought
    <3>3. i # m.item /\ i \notin r.touched
      BY <1>4, <3>1 DEF BuyGives
    <3>4. Purchases(q.db, i) = Purchases(m.db, i)
      BY <3>2, <3>3 DEF Entered, Purchases, OnDay
    <3>5. Current(r.db, i)
      BY <3>3 DEF Followed
    <3>6. Purchases(q.db, i) = Purchases(r.db, i) /\ q.db.used = r.db.used /\ q.db.stock = r.db.stock
      BY <1>3, <3>1, <3>4 DEF Purchases, BuyGives, Bought
    <3> QED BY <3>5, <3>6, CurrentStays
  <2>2. CASE UseGives(r, m, q)
    <3>1. i \notin r.touched /\ q.db.used[i] = m.db.used[i]
      BY <1>4, <2>2 DEF UseGives, Noted
    <3>2. Current(r.db, i)
      BY <3>1 DEF Followed
    <3>3. Purchases(q.db, i) = Purchases(r.db, i) /\ q.db.stock = r.db.stock
      BY <1>3, <2>2 DEF Purchases, UseGives, Noted
    <3> QED BY <1>3, <3>1, <3>2, <3>3, CurrentStays
  <2>3. CASE \E entry : ListGives(r, entry, m, q)
    <3>1. i \notin r.touched
      BY <1>4, <2>3 DEF ListGives
    <3>2. Current(r.db, i)
      BY <3>1 DEF Followed
    <3>3. Purchases(q.db, i) = Purchases(r.db, i) /\ q.db.used = r.db.used /\ q.db.stock = r.db.stock
      BY <1>3, <2>3 DEF Purchases, ListGives, Listed
    <3> QED BY <3>2, <3>3, CurrentStays
  <2> QED BY <2>1, <2>2, <2>3
<1> QED BY <1>2, <1>4 DEF Followed

-----------------------------------------------------------------------------
(* What a call leaves true *)

\* Good stays true from one line of a receipt, a meal or an old record to the
\* next; the entries L of a batch keep it too.
Closed(Good) ==
    /\ Good \subseteq Results /\ \A r \in Good : Sound(r.db)
    /\ \A r \in Good, q \in Results, n \in Names : \A m :
        /\ Matched(r.db, n, Resolve(r.db, n), m)
        /\ (\E line, t : line.name = n /\ BuyGives(r, line, t, m, q)) \/ UseGives(r, m, q)
        => q \in Good
ClosedFor(Good, L) ==
    /\ Good \subseteq Results /\ \A r \in Good : Sound(r.db)
    /\ L \subseteq Entries
    /\ \A r \in Good, q \in Results, entry \in L : \A m :
        /\ Matched(r.db, entry.name, Resolve(r.db, entry.name), m)
        /\ ListGives(r, entry, m, q)
        => q \in Good

LEMMA BuyLineKeeps ==
    ASSUME NEW Good, Closed(Good), NEW r \in Good, NEW line, line.name \in Names,
           line.upc \in Coded, NEW t \in Times
    PROVE  BuyLine(r, line, t) \subseteq Good
<1> DEFINE found == Resolve(r.db, line.name)
<1>1. r \in Results /\ Sound(r.db)
  BY DEF Closed
<1>2. found \in Items(r.db) \cup {0} /\ Items(r.db) \subseteq Ids
  BY <1>1, ResolveTyped DEF Sound, Items
<1>3. Hidden(r.db, found) \in BOOLEAN
  BY DEF Hidden
<1> HIDE DEF found
<1>4. ASSUME NEW q \in Buy(r, line, t, found, Hidden(r.db, found)) PROVE q \in Good
  <2>1. PICK m : Matched(r.db, line.name, found, m) /\ BuyGives(r, line, t, m, q) /\ q \in Results
    BY <1>1, <1>2, <1>3, BuyKeeps
  <2> QED BY <2>1 DEF Closed, found
<1> QED BY <1>4 DEF BuyLine, found

LEMMA LinesKeep ==
    ASSUME NEW Good, Closed(Good), NEW rs \in SUBSET Good, NEW t
    PROVE  /\ \A lines \in Seq(Lines) : t \in Times => Each("buy", rs, lines, t) \subseteq Good
           /\ \A lines \in Seq(Names) : t \in Times => Each("use", rs, lines, t) \subseteq Good
           /\ \A lines \in Seq(OldLines) : Each("bought", rs, lines, t) \subseteq Good
           /\ \A lines \in Seq(OldUses) : Each("used", rs, lines, t) \subseteq Good
<1>1. ASSUME NEW lines \in Seq(Lines), t \in Times PROVE Each("buy", rs, lines, t) \subseteq Good
  <2>1. ASSUME NEW line \in Lines, NEW r \in Good PROVE Step("buy", r, line, t) \subseteq Good
    BY <1>1, BuyLineKeeps DEF Step, Lines
  <2> QED BY <2>1, EachKeeps
<1>2. ASSUME NEW lines \in Seq(Names), t \in Times PROVE Each("use", rs, lines, t) \subseteq Good
  <2>1. ASSUME NEW n \in Names, NEW r \in Good PROVE Step("use", r, n, t) \subseteq Good
    <3>1. ASSUME NEW q \in UseLine(r, n, t) PROVE q \in Good
      <4>1. r \in Results /\ Sound(r.db)
        BY DEF Closed
      <4>2. PICK m : Matched(r.db, n, Resolve(r.db, n), m) /\ UseGives(r, m, q) /\ q \in Results
        BY <1>2, <4>1, UseKeeps
      <4> QED BY <4>2 DEF Closed
    <3> QED BY <3>1 DEF Step
  <2> QED BY <2>1, EachKeeps
<1>3. ASSUME NEW lines \in Seq(OldLines) PROVE Each("bought", rs, lines, t) \subseteq Good
  <2>1. ASSUME NEW line \in OldLines, NEW r \in Good PROVE Step("bought", r, line, t) \subseteq Good
    BY BuyLineKeeps DEF Step, OldLines
  <2> QED BY <2>1, EachKeeps
<1>4. ASSUME NEW lines \in Seq(OldUses) PROVE Each("used", rs, lines, t) \subseteq Good
  <2>1. ASSUME NEW c \in OldUses, NEW r \in Good PROVE Step("used", r, c, t) \subseteq Good
    <3>1. ASSUME NEW q \in ImportUse(r, c) PROVE q \in Good
      <4>1. r \in Results /\ Sound(r.db) /\ c.name \in Names
        BY DEF Closed, OldUses
      <4>2. PICK m : Matched(r.db, c.name, Resolve(r.db, c.name), m) /\ UseGives(r, m, q) /\ q \in Results
        BY <4>1, ImportUseKeeps
      <4> QED BY <4>1, <4>2 DEF Closed
    <3> QED BY <3>1 DEF Step
  <2> QED BY <2>1, EachKeeps
<1> QED BY <1>1, <1>2, <1>3, <1>4

LEMMA EntriesKeep ==
    ASSUME NEW Good, NEW L, ClosedFor(Good, L), NEW rs \in SUBSET Good, NEW entries \in Seq(L), NEW t
    PROVE  Each("list", rs, entries, t) \subseteq Good
<1>1. ASSUME NEW entry \in L, NEW r \in Good PROVE Step("list", r, entry, t) \subseteq Good
  <2>1. ASSUME NEW q \in ImportItem(r, entry) PROVE q \in Good
    <3>1. r \in Results /\ Sound(r.db) /\ entry \in Entries
      BY DEF ClosedFor
    <3>2. PICK m : /\ Matched(r.db, entry.name, Resolve(r.db, entry.name), m)
                   /\ ListGives(r, entry, m, q) /\ q \in Results
      BY <3>1, ImportItemKeeps
    <3> QED BY <3>2 DEF ClosedFor
  <2> QED BY <2>1 DEF Step
<1> QED BY <1>1, EachKeeps

LEMMA AllClosed ==
    ASSUME NEW K
    PROVE  /\ Closed(Fine(K)) /\ Closed(Followed(K)) /\ Closed(Led(K, {}))
           /\ ClosedFor(Fine(K), Entries) /\ ClosedFor(Followed(K), Entries)
<1>1. Followed(K) \subseteq Fine(K) /\ Led(K, {}) \subseteq Fine(K)
  BY DEF Followed, Led
<1>2. Fine(K) \subseteq Results /\ \A r \in Fine(K) : Sound(r.db)
  BY DEF Fine
<1>3. Closed(Fine(K)) /\ ClosedFor(Fine(K), Entries)
  BY <1>2, FineStep DEF Closed, ClosedFor
<1>4. Closed(Followed(K)) /\ ClosedFor(Followed(K), Entries)
  BY <1>1, <1>2, FollowedStep DEF Closed, ClosedFor
<1>5. Closed(Led(K, {}))
  BY <1>1, <1>2, LedStep DEF Closed
<1> QED BY <1>3, <1>4, <1>5

LEMMA RecordedKeeps ==
    ASSUME NEW Good, Closed(Good), NEW d, NEW receipt \in Receipts, NEW t \in Times,
           NEW found, NEW hidden,
           Buy(Result(d), Head(receipt), t, found, hidden) \subseteq Good
    PROVE  Recorded(d, receipt, t, found, hidden) \subseteq Good
<1>1. Tail(receipt) \in Seq(Lines)
  BY PantryAssumption
<1> QED BY <1>1, LinesKeep DEF Recorded

LEMMA ConsumedKeeps ==
    ASSUME NEW Good, Closed(Good), NEW d, Result(d) \in Good, NEW meal \in Meals, NEW t \in Times
    PROVE  Consumed(d, meal, t) \subseteq Good
<1>1. meal \in Seq(Names)
  BY PantryAssumption
<1> QED BY <1>1, LinesKeep DEF Consumed

LEMMA ImportedKeeps ==
    ASSUME NEW Good, Closed(Good), NEW d, NEW b \in Batches,
           Each("list", {Result(d)}, b.items, NoTime) \subseteq Good
    PROVE  Imported(d, b) \subseteq Good
<1> DEFINE listed == Each("list", {Result(d)}, b.items, NoTime)
           bought == Each("bought", listed, b.purchases, NoTime)
<1>1. b.purchases \in Seq(OldLines) /\ b.consumptions \in Seq(OldUses)
  BY PantryAssumption
<1>2. listed \in SUBSET Good
  OBVIOUS
<1> HIDE DEF listed
<1>3. bought \in SUBSET Good
  <2>1. \A lines \in Seq(OldLines) : Each("bought", listed, lines, NoTime) \subseteq Good
    BY <1>2, LinesKeep
  <2> QED BY <1>1, <2>1
<1> HIDE DEF bought
<1>4. Each("used", bought, b.consumptions, NoTime) \subseteq Good
  <2>1. \A lines \in Seq(OldUses) : Each("used", bought, lines, NoTime) \subseteq Good
    BY <1>3, LinesKeep
  <2> QED BY <1>1, <2>1
<1> QED BY <1>4 DEF Imported, bought, listed

-----------------------------------------------------------------------------
(* Merging two items *)

\* What comes of the purchases: each is there, with more of its day's names,
\* and each that is there was one.
Joins(d, s, r) == {q \in d.bought : q.item = s /\ Day(q.at) = Day(r.at)}
Joined(d, s, r, x) ==
    /\ x.item = r.item /\ x.at = r.at
    /\ x.filed = r.filed \cup UNION {q.filed : q \in Joins(d, s, r)}
    /\ x.upc = r.upc \/ \E q \in Joins(d, s, r) : x.upc = q.upc
Carried(d, s, t, r, x) ==
    \/ r.item \notin {s, t} /\ x = r
    \/ r.item = t /\ Joined(d, s, r, x)
    \/ r.item = s /\ OnDay(d, t, r.at) = {} /\ x = [r EXCEPT !.item = t]
Carries(d, s, t, rows) ==
    /\ rows \subseteq Rows
    /\ \A x \in rows : \E r \in d.bought : Carried(d, s, t, r, x)
    /\ \A r \in d.bought :
         \/ \E x \in rows : Carried(d, s, t, r, x)
         \/ r.item = s /\ OnDay(d, t, r.at) # {}
    /\ \A x, y \in rows : x.item = y.item /\ Day(x.at) = Day(y.at) => x = y

LEMMA MovedCarries ==
    ASSUME NEW d, d \in Dbs, Keyed(d), NEW s \in Items(d), NEW t \in Items(d), s # t
    PROVE  Carries(d, s, t, Moved(d, s, t))
<1> DEFINE rows == Moved(d, s, t)
           combined(r) == [r EXCEPT
             !.upc = IF @ = NoUpc /\ Joins(d, s, r) # {} THEN (CHOOSE q \in Joins(d, s, r) : TRUE).upc ELSE @,
             !.filed = @ \cup UNION {q.filed : q \in Joins(d, s, r)}]
<1>1. rows = {r \in d.bought : r.item \notin {s, t}}
             \cup {combined(r) : r \in {q \in d.bought : q.item = t}}
             \cup {[r EXCEPT !.item = t] : r \in {q \in d.bought : q.item = s /\ OnDay(d, t, q.at) = {}}}
  BY DEF Moved, Joins
<1>2. d.bought \subseteq Rows /\ s \in Ids /\ t \in Ids
  BY DEF Dbs, Items
<1>3. ASSUME NEW r \in d.bought, r.item = t PROVE combined(r) \in Rows /\ Joined(d, s, r, combined(r))
  <2> DEFINE u == IF r.upc = NoUpc /\ Joins(d, s, r) # {}
                  THEN (CHOOSE q \in Joins(d, s, r) : TRUE).upc ELSE r.upc
             names == r.filed \cup UNION {q.filed : q \in Joins(d, s, r)}
  <2>1. r \in Rows /\ Joins(d, s, r) \subseteq Rows
    BY <1>2 DEF Joins
  <2>2. u = r.upc \/ \E q \in Joins(d, s, r) : u = q.upc
    OBVIOUS
  <2>3. u \in Upcs \cup {NoUpc}
    BY <2>1, <2>2 DEF Rows
  <2>4. names \in SUBSET Names
    BY <2>1 DEF Rows
  <2>5. combined(r) = [r EXCEPT !.upc = u, !.filed = names]
    OBVIOUS
  <2> HIDE DEF combined, u, names
  <2>6. /\ combined(r) \in Rows /\ combined(r).item = r.item /\ combined(r).at = r.at
        /\ combined(r).upc = u /\ combined(r).filed = names
    BY <2>1, <2>3, <2>4, <2>5 DEF Rows
  <2> QED BY <2>2, <2>6 DEF Joined, names
<1> HIDE DEF combined
<1>4. \A r \in d.bought : [r EXCEPT !.item = t] \in Rows
  BY <1>2 DEF Rows
<1>5. rows \subseteq Rows
  BY <1>1, <1>2, <1>3, <1>4
<1>6. \A x \in rows : \E r \in d.bought : Carried(d, s, t, r, x)
  BY <1>1, <1>3 DEF Carried
<1>7. \A r \in d.bought :
         \/ \E x \in rows : Carried(d, s, t, r, x)
         \/ r.item = s /\ OnDay(d, t, r.at) # {}
  <2> SUFFICES ASSUME NEW r \in d.bought
               PROVE  (\E x \in rows : Carried(d, s, t, r, x)) \/ (r.item = s /\ OnDay(d, t, r.at) # {})
    OBVIOUS
  <2>1. CASE r.item \notin {s, t}
    BY <1>1, <2>1 DEF Carried
  <2>2. CASE r.item = t
    BY <1>1, <1>3, <2>2 DEF Carried
  <2>3. CASE r.item = s /\ OnDay(d, t, r.at) = {}
    BY <1>1, <2>3 DEF Carried
  <2> QED BY <2>1, <2>2, <2>3
<1>8. ASSUME NEW x \in rows, NEW y \in rows, x.item = y.item, Day(x.at) = Day(y.at)
      PROVE  x = y
  <2> DEFINE Stays(r, z) == r.item \notin {s, t} /\ z = r
             Joining(r, z) == r.item = t /\ z = combined(r)
             Moving(r, z) == r.item = s /\ OnDay(d, t, r.at) = {} /\ z = [r EXCEPT !.item = t]
  <2>1. \A z \in rows : \E r \in d.bought : Stays(r, z) \/ Joining(r, z) \/ Moving(r, z)
    BY <1>1
  <2>2. PICK r \in d.bought : Stays(r, x) \/ Joining(r, x) \/ Moving(r, x)
    BY <2>1
  <2>3. PICK q \in d.bought : Stays(q, y) \/ Joining(q, y) \/ Moving(q, y)
    BY <2>1
  <2>4. /\ x.item = IF r.item = s THEN t ELSE r.item
        /\ y.item = IF q.item = s THEN t ELSE q.item
        /\ x.at = r.at /\ y.at = q.at
    <3>1. \A z \in d.bought : (combined(z).item = z.item /\ combined(z).at = z.at) \/ z.item # t
      BY <1>3 DEF Joined
    <3>2. \A z \in d.bought : [z EXCEPT !.item = t].item = t /\ [z EXCEPT !.item = t].at = z.at
      BY <1>2 DEF Rows
    <3> QED BY <2>2, <2>3, <3>1, <3>2
  <2>5. Day(r.at) = Day(q.at)
    BY <1>8, <2>4
  <2>6. CASE r.item = q.item
    <3>1. r = q
      BY <2>5, <2>6 DEF Keyed
    <3> QED BY <2>2, <2>3, <3>1
  <2>7. CASE r.item # q.item
    <3>1. (r.item = s /\ q.item = t) \/ (r.item = t /\ q.item = s)
      BY <1>8, <2>4, <2>7
    <3>2. q.item = t => q \in OnDay(d, t, r.at)
      BY <2>5 DEF OnDay
    <3>3. r.item = t => r \in OnDay(d, t, q.at)
      BY <2>5 DEF OnDay
    <3> QED BY <2>2, <2>3, <3>1, <3>2, <3>3
  <2> QED BY <2>6, <2>7
<1> QED BY <1>5, <1>6, <1>7, <1>8 DEF Carries

\* The tables after a merge, column by column.
MergeGives(d, s, t, e) ==
    /\ e \in Dbs /\ Items(e) = Items(d) \ {s}
    /\ \A i \in Ids : e.name[i] = IF i = s THEN NoName ELSE d.name[i]
    /\ e.bought = Moved(d, s, t) /\ e.alias = Aliases(d, s, t)
    /\ \A u \in Upcs : e.product[u] = IF d.product[u] = s THEN t ELSE d.product[u]
    /\ \A i \in Ids : e.stock[i] = IF i = s THEN NoRow ELSE d.stock[i]
    /\ \A i \in Ids \ {t} : e.used[i] = IF i = s THEN {} ELSE d.used[i]
    /\ \A i \in Ids \ {t} : e.pref[i] = IF i = s THEN NoUpc ELSE d.pref[i]
    /\ e.pref[t] = IF d.pref[t] = NoUpc THEN d.pref[s] ELSE d.pref[t]

LEMMA MergeColumns ==
    ASSUME NEW d, Sound(d), NEW s \in Items(d), NEW t \in Items(d), s # t
    PROVE  MergeGives(d, s, t, Merged(d, s, t))
<1> DEFINE e == Merged(d, s, t)
<1>1. s \in Ids /\ t \in Ids /\ d \in Dbs /\ NoName \notin Names
  BY PantryAssumption DEF Items, Sound
<1>2. Moved(d, s, t) \in SUBSET Rows
  BY MovedCarries DEF Sound, Carries
<1>3. Aliases(d, s, t) \in [Names -> Ids \cup {0}]
  BY <1>1 DEF Aliases, Dbs
<1>4. PICK f : f = Unlisted(d, s)
  OBVIOUS
<1>5. NoRow \in StockRows
  BY DEF NoRow, StockRows
<1>6. /\ f \in Dbs
      /\ f.name = [d.name EXCEPT ![s] = NoName] /\ f.pref = [d.pref EXCEPT ![s] = NoUpc]
      /\ f.used = [d.used EXCEPT ![s] = {}] /\ f.stock = [d.stock EXCEPT ![s] = NoRow]
      /\ f.product = d.product /\ f.tracked \in [Ids -> BOOLEAN] /\ f.pinned \in [Ids -> BOOLEAN]
  BY <1>1, <1>4, <1>5 DEF Unlisted, Dbs, Coded
<1>7. e = [f EXCEPT
        !.bought = Moved(d, s, t),
        !.alias = Aliases(d, s, t),
        !.product = [u \in Upcs |-> IF @[u] = s THEN t ELSE @[u]],
        !.pref[t] = IF @ = NoUpc THEN d.pref[s] ELSE @,
        !.pinned[t] = IF d.pref[t] = NoUpc THEN d.pinned[s] ELSE @,
        !.used[t] = @ \cup d.used[s],
        !.tracked[t] = @ \/ d.tracked[s]]
  BY <1>4 DEF Merged
<1> HIDE DEF e
<1>8. PICK pr, pf, pn, us, tr :
        /\ e = [f EXCEPT !.bought = Moved(d, s, t), !.alias = Aliases(d, s, t), !.product = pr,
                         !.pref = pf, !.pinned = pn, !.used = us, !.tracked = tr]
        /\ pr = [u \in Upcs |-> IF d.product[u] = s THEN t ELSE d.product[u]]
        /\ pf = [f.pref EXCEPT ![t] = IF f.pref[t] = NoUpc THEN d.pref[s] ELSE f.pref[t]]
        /\ pn = [f.pinned EXCEPT ![t] = IF d.pref[t] = NoUpc THEN d.pinned[s] ELSE f.pinned[t]]
        /\ us = [f.used EXCEPT ![t] = f.used[t] \cup d.used[s]]
        /\ tr = [f.tracked EXCEPT ![t] = f.tracked[t] \/ d.tracked[s]]
  <2> DEFINE pr == [u \in Upcs |-> IF f.product[u] = s THEN t ELSE f.product[u]]
             pf == [f.pref EXCEPT ![t] = IF f.pref[t] = NoUpc THEN d.pref[s] ELSE f.pref[t]]
             pn == [f.pinned EXCEPT ![t] = IF d.pref[t] = NoUpc THEN d.pinned[s] ELSE f.pinned[t]]
             us == [f.used EXCEPT ![t] = f.used[t] \cup d.used[s]]
             tr == [f.tracked EXCEPT ![t] = f.tracked[t] \/ d.tracked[s]]
  <2>1. e = [f EXCEPT !.bought = Moved(d, s, t), !.alias = Aliases(d, s, t), !.product = pr,
                      !.pref = pf, !.pinned = pn, !.used = us, !.tracked = tr]
    BY <1>7, Zenon
  <2>2. pr = [u \in Upcs |-> IF d.product[u] = s THEN t ELSE d.product[u]]
    BY <1>6
  <2> HIDE DEF pr, pf, pn, us, tr
  <2> QED BY <2>1, <2>2 DEF pf, pn, us, tr
<1>9. /\ e.bought = Moved(d, s, t) /\ e.alias = Aliases(d, s, t) /\ e.product = pr
      /\ e.name = f.name /\ e.stock = f.stock /\ e.used = us /\ e.pref = pf
      /\ e \in Dbs
  <2>1. /\ d.pref[s] \in Coded /\ d.pinned[s] \in BOOLEAN /\ d.used[s] \in SUBSET Times
        /\ d.tracked[s] \in BOOLEAN /\ d.product \in [Upcs -> Ids \cup {0}]
    BY <1>1 DEF Dbs
  <2>2. pr \in [Upcs -> Ids \cup {0}]
    BY <1>1, <1>8, <2>1
  <2>3. pf \in [Ids -> Coded]
    BY <1>1, <1>6, <1>8, <2>1 DEF Dbs
  <2>4. us \in [Ids -> SUBSET Times]
    <3>1. f.used \in [Ids -> SUBSET Times]
      BY <1>6 DEF Dbs
    <3> QED BY <1>8, <2>1, <3>1
  <2>5. pn \in [Ids -> BOOLEAN] /\ tr \in [Ids -> BOOLEAN]
    <3>1. (IF d.pref[t] = NoUpc THEN d.pinned[s] ELSE f.pinned[t]) \in BOOLEAN
      BY <1>1, <1>6, <2>1
    <3>2. (f.tracked[t] \/ d.tracked[s]) \in BOOLEAN
      OBVIOUS
    <3> QED BY <1>6, <1>8, <3>1, <3>2
  <2>6. e \in Dbs
    <3>1. \A g \in Dbs :
            [g EXCEPT !.bought = Moved(d, s, t), !.alias = Aliases(d, s, t), !.product = pr,
                      !.pref = pf, !.pinned = pn, !.used = us, !.tracked = tr] \in Dbs
      BY <1>2, <1>3, <2>2, <2>3, <2>4, <2>5 DEF Dbs
    <3> QED BY <1>6, <1>8, <3>1
  <2>7. /\ e.bought = Moved(d, s, t) /\ e.alias = Aliases(d, s, t) /\ e.product = pr
        /\ e.used = us /\ e.pref = pf /\ e.name = f.name /\ e.stock = f.stock
    <3>1. f \in Dbs
      BY <1>6
    <3>2. e = [f EXCEPT !.bought = Moved(d, s, t), !.alias = Aliases(d, s, t), !.product = pr,
                        !.pref = pf, !.pinned = pn, !.used = us, !.tracked = tr]
      BY <1>8
    <3> QED BY <3>1, <3>2 DEF Dbs
  <2> QED BY <2>6, <2>7
<1>10. \A i \in Ids : e.name[i] = IF i = s THEN NoName ELSE d.name[i]
  BY <1>1, <1>6, <1>9 DEF Dbs
<1>11. Items(e) = Items(d) \ {s}
  BY <1>10 DEF Items
<1>12. /\ \A i \in Ids : e.stock[i] = IF i = s THEN NoRow ELSE d.stock[i]
       /\ \A i \in Ids \ {t} : e.used[i] = IF i = s THEN {} ELSE d.used[i]
  <2>1. d.stock \in [Ids -> StockRows] /\ d.used \in [Ids -> SUBSET Times]
    BY <1>1 DEF Dbs
  <2>2. \A i \in Ids : f.stock[i] = IF i = s THEN NoRow ELSE d.stock[i]
    BY <1>6, <2>1
  <2>3. \A i \in Ids : f.used[i] = IF i = s THEN {} ELSE d.used[i]
    BY <1>6, <2>1
  <2>4. f.used \in [Ids -> SUBSET Times]
    BY <1>6 DEF Dbs
  <2>5. \A i \in Ids \ {t} : us[i] = f.used[i]
    BY <1>8, <2>4
  <2> QED BY <1>9, <2>2, <2>3, <2>5
<1>13. /\ \A i \in Ids \ {t} : e.pref[i] = IF i = s THEN NoUpc ELSE d.pref[i]
       /\ e.pref[t] = IF d.pref[t] = NoUpc THEN d.pref[s] ELSE d.pref[t]
  <2>1. d.pref \in [Ids -> Coded] /\ f.pref \in [Ids -> Coded]
    BY <1>1, <1>6 DEF Dbs
  <2>2. \A i \in Ids : f.pref[i] = IF i = s THEN NoUpc ELSE d.pref[i]
    BY <1>6, <2>1
  <2>3. \A i \in Ids :
          pf[i] = IF i = t THEN (IF f.pref[t] = NoUpc THEN d.pref[s] ELSE f.pref[t]) ELSE f.pref[i]
    BY <1>8, <2>1
  <2> QED BY <1>1, <1>9, <2>2, <2>3
<1>14. \A u \in Upcs : e.product[u] = IF d.product[u] = s THEN t ELSE d.product[u]
  BY <1>8, <1>9
<1> QED BY <1>9, <1>10, <1>11, <1>12, <1>13, <1>14 DEF MergeGives, e

LEMMA MergeKeeps ==
    ASSUME NEW d, Sound(d), NEW s \in Items(d), NEW t \in Items(d), s # t,
           NEW e, e = Merged(d, s, t)
    PROVE  /\ Sound(e) /\ Items(e) = Items(d) \ {s}
           /\ \A k : Held(d, k) => Held(e, k)
           /\ Apart(d) /\ Leading(d) => Apart(e) /\ Leading(e)
           /\ \A i \in Ids \ {t} : Current(d, i) => Current(e, i)
<1>1. MergeGives(d, s, t, e) /\ Carries(d, s, t, e.bought)
  BY MergeColumns, MovedCarries DEF Sound, MergeGives
<1>2. s \in Ids /\ t \in Ids /\ 0 \notin Ids /\ NoName \notin Names /\ NoUpc \notin Upcs
  BY PantryAssumption DEF Items, Ids
<1>3. /\ d \in Dbs /\ d.bought \subseteq Rows /\ Items(d) \subseteq Ids
      /\ e \in Dbs /\ Items(e) = Items(d) \ {s}
  BY <1>1 DEF Sound, Dbs, Items, MergeGives
<1>4. ASSUME NEW x \in e.bought, NEW r \in d.bought, Carried(d, s, t, r, x)
      PROVE  /\ x.item = IF r.item = s THEN t ELSE r.item
             /\ x.at = r.at /\ r.filed \subseteq x.filed
             /\ \A n \in x.filed : \E q \in d.bought :
                  n \in q.filed /\ x.item = IF q.item = s THEN t ELSE q.item
             /\ x.upc # NoUpc => \E q \in d.bought :
                  x.upc = q.upc /\ x.item = IF q.item = s THEN t ELSE q.item
  <2>1. r \in Rows
    BY <1>3
  <2>2. CASE r.item \notin {s, t} /\ x = r
    BY <2>2
  <2>3. CASE r.item = t /\ Joined(d, s, r, x)
    <3>1. \A q \in Joins(d, s, r) : q \in d.bought /\ q.item = s
      BY DEF Joins
    <3>2. x.item = t /\ x.at = r.at /\ r.filed \subseteq x.filed
      BY <2>3 DEF Joined
    <3>3. \A n \in x.filed : n \in r.filed \/ \E q \in Joins(d, s, r) : n \in q.filed
      BY <2>3 DEF Joined
    <3>4. x.upc = r.upc \/ \E q \in Joins(d, s, r) : x.upc = q.upc
      BY <2>3 DEF Joined
    <3> QED BY <2>3, <3>1, <3>2, <3>3, <3>4
  <2>4. CASE r.item = s /\ x = [r EXCEPT !.item = t]
    <3>1. x.item = t /\ x.at = r.at /\ x.filed = r.filed /\ x.upc = r.upc
      BY <2>1, <2>4 DEF Rows
    <3> QED BY <2>4, <3>1
  <2> QED BY <1>4, <2>2, <2>3, <2>4 DEF Carried
<1>5. \A x \in e.bought : \E r \in d.bought : Carried(d, s, t, r, x)
  BY <1>1 DEF Carries
<1>6. Keyed(e)
  <2>1. \A r \in e.bought : r.item \in Items(e)
    <3> SUFFICES ASSUME NEW x \in e.bought PROVE x.item \in Items(e)
      OBVIOUS
    <3>1. PICK r \in d.bought : Carried(d, s, t, r, x)
      BY <1>5
    <3>2. r.item \in Items(d) /\ x.item = IF r.item = s THEN t ELSE r.item
      BY <1>4, <3>1 DEF Sound, Keyed
    <3> QED BY <1>3, <3>2
  <2>2. \A x, y \in e.bought : x.item = y.item /\ Day(x.at) = Day(y.at) => x = y
    BY <1>1 DEF Carries
  <2>3. \A n \in Names : e.alias[n] \in Items(e) \cup {0}
    <3>1. \A n \in Names : e.alias[n] = t \/ (e.alias[n] = d.alias[n] /\ d.alias[n] # s)
      BY <1>1 DEF MergeGives, Aliases
    <3> QED BY <1>3, <3>1 DEF Sound, Keyed
  <2>4. \A u \in Upcs : e.product[u] \in Items(e) \cup {0}
    BY <1>1, <1>3 DEF MergeGives, Sound, Keyed
  <2>5. \A i \in Ids \ Items(e) : e.stock[i] = NoRow /\ e.used[i] = {} /\ e.pref[i] = NoUpc
    <3> SUFFICES ASSUME NEW i \in Ids \ Items(e)
                 PROVE  e.stock[i] = NoRow /\ e.used[i] = {} /\ e.pref[i] = NoUpc
      OBVIOUS
    <3>1. i # t /\ (i = s \/ i \in Ids \ Items(d))
      BY <1>3
    <3> QED BY <1>1, <3>1 DEF MergeGives, Sound, Keyed
  <2> QED BY <2>1, <2>2, <2>3, <2>4, <2>5 DEF Keyed
<1>7. Owning(e)
  <2>1. ASSUME NEW x \in e.bought, x.upc # NoUpc PROVE e.product[x.upc] = x.item
    <3>1. PICK q \in d.bought : x.upc = q.upc /\ x.item = IF q.item = s THEN t ELSE q.item
      BY <1>4, <1>5, <2>1
    <3>2. q.upc \in Upcs /\ d.product[q.upc] = q.item
      BY <1>3, <2>1, <3>1 DEF Rows, Sound, Owning
    <3> QED BY <1>1, <3>1, <3>2 DEF MergeGives
  <2>2. ASSUME NEW i \in Ids, e.pref[i] # NoUpc PROVE e.product[e.pref[i]] = i
    <3>1. \A j \in Ids : d.pref[j] # NoUpc => d.pref[j] \in Upcs /\ d.product[d.pref[j]] = j
      BY <1>3 DEF Dbs, Sound, Owning, Coded
    <3>2. CASE i # t
      BY <1>1, <2>2, <3>1, <3>2 DEF MergeGives
    <3>3. CASE i = t
      BY <1>1, <1>2, <2>2, <3>1, <3>3 DEF MergeGives
    <3> QED BY <3>2, <3>3
  <2> QED BY <2>1, <2>2 DEF Owning
<1>8. ASSUME NEW k, Held(d, k) PROVE Held(e, k)
  <2>1. PICK r \in d.bought : k[1] \in r.filed /\ Day(r.at) = k[2]
    BY <1>8 DEF Held
  <2>2. CASE \E x \in e.bought : Carried(d, s, t, r, x)
    BY <1>4, <2>1, <2>2 DEF Held
  <2>3. CASE r.item = s /\ OnDay(d, t, r.at) # {}
    <3>1. PICK o \in d.bought : o.item = t /\ Day(o.at) = Day(r.at)
      BY <2>3 DEF OnDay
    <3>2. PICK x \in e.bought : Carried(d, s, t, o, x)
      BY <1>1, <3>1 DEF Carries
    <3>3. Joined(d, s, o, x) /\ r \in Joins(d, s, o)
      BY <2>3, <3>1, <3>2 DEF Carried, Joins
    <3>4. k[1] \in x.filed /\ x.at = o.at
      BY <2>1, <3>3 DEF Joined
    <3> QED BY <2>1, <3>1, <3>4 DEF Held
  <2> QED BY <1>1, <2>2, <2>3 DEF Carries
<1>9. ASSUME Apart(d), Leading(d) PROVE Apart(e) /\ Leading(e)
  <2>1. ASSUME NEW i \in Items(e) PROVE Named(e, e.name[i]) \subseteq {i} /\ e.alias[e.name[i]] = 0
    <3>1. i \in Items(d) /\ i # s /\ e.name[i] = d.name[i] /\ d.name[i] \in Names
      BY <1>1, <1>3 DEF MergeGives, Items, Dbs
    <3>2. Named(d, d.name[i]) \subseteq {i} /\ d.alias[d.name[i]] = 0
      BY <1>9, <3>1 DEF Apart
    <3>3. Named(e, e.name[i]) \subseteq Named(d, d.name[i])
      BY <1>1, <1>3, <3>1 DEF MergeGives, Named
    <3>4. d.name[i] # d.name[s]
      BY <3>1, <3>2 DEF Named
    <3>5. e.alias[d.name[i]] = d.alias[d.name[i]]
      <4>1. 0 # s
        BY <1>2
      <4> QED BY <1>1, <3>1, <3>2, <3>4, <4>1 DEF MergeGives, Aliases
    <3> QED BY <3>1, <3>2, <3>3, <3>5
  <2>2. ASSUME NEW x \in e.bought, NEW n \in x.filed PROVE e.name[x.item] = n \/ e.alias[n] = x.item
    <3>1. PICK q \in d.bought : n \in q.filed /\ x.item = IF q.item = s THEN t ELSE q.item
      BY <1>4, <1>5
    <3>2. q.item \in Items(d) /\ n \in Names
      BY <1>3, <3>1 DEF Sound, Keyed, Rows
    <3>3. d.name[q.item] = n \/ d.alias[n] = q.item
      BY <1>9, <3>1 DEF Leading
    <3>4. CASE d.alias[n] = q.item
      <4>1. e.alias[n] = IF d.alias[n] = s \/ n \in {y \in {d.name[s]} \ {d.name[t]} : d.alias[y] = 0}
                         THEN t ELSE d.alias[n]
        BY <1>1, <3>2 DEF MergeGives, Aliases
      <4>2. d.alias[n] # 0
        BY <1>2, <1>3, <3>2, <3>4
      <4>3. e.alias[n] = IF d.alias[n] = s THEN t ELSE d.alias[n]
        BY <4>1, <4>2
      <4> QED BY <3>1, <3>4, <4>3
    <3>5. CASE d.name[q.item] = n /\ q.item # s
      BY <1>1, <1>3, <3>1, <3>2, <3>5 DEF MergeGives
    <3>6. CASE d.name[s] = n /\ q.item = s
      <4>1. d.alias[n] = 0 /\ n # d.name[t]
        BY <1>9, <3>6 DEF Apart, Named
      <4>2. e.alias[n] = t
        BY <1>1, <3>2, <3>6, <4>1 DEF MergeGives, Aliases
      <4> QED BY <3>1, <3>6, <4>2
    <3> QED BY <3>3, <3>4, <3>5, <3>6
  <2> QED BY <2>1, <2>2 DEF Apart, Leading
<1>10. ASSUME NEW i \in Ids \ {t}, Current(d, i) PROVE Current(e, i)
  <2>1. CASE i = s
    <3>1. Purchases(e, s) = {}
      BY <1>4, <1>5 DEF Purchases
    <3> QED BY <2>1, <3>1 DEF Current
  <2>2. CASE i # s
    <3>1. Purchases(e, i) \subseteq Purchases(d, i)
      BY <1>4, <1>5, <2>2 DEF Purchases
    <3>2. \A r \in d.bought : r.item = i => r \in e.bought
      BY <1>1, <2>2 DEF Carries, Carried
    <3>3. Purchases(d, i) \subseteq Purchases(e, i)
      BY <3>2 DEF Purchases
    <3>4. e.used[i] = d.used[i] /\ e.stock[i] = d.stock[i]
      BY <1>1, <2>2 DEF MergeGives
    <3>5. Purchases(e, i) = Purchases(d, i)
      BY <3>1, <3>3
    <3> QED BY <1>10, <3>4, <3>5, CurrentStays
  <2> QED BY <2>1, <2>2
<1> QED BY <1>3, <1>6, <1>7, <1>8, <1>9, <1>10 DEF Sound

-----------------------------------------------------------------------------
(* Renaming, aliases, preferences and deletions *)

\* Tables with the same names, aliases and purchases hold the same lines, and
\* under the same names.
Alike(d, e) == e.name = d.name /\ e.alias = d.alias /\ e.bought = d.bought

LEMMA AlikeHolds ==
    ASSUME NEW d, NEW e, Alike(d, e)
    PROVE  /\ Items(e) = Items(d)
           /\ \A k : Held(d, k) => Held(e, k)
           /\ Apart(d) /\ Leading(d) => Apart(e) /\ Leading(e)
           /\ \A i : Purchases(e, i) = Purchases(d, i)
BY DEF Alike, Items, Held, Apart, Leading, Named, Purchases

LEMMA RenamedKeeps ==
    ASSUME NEW d, Sound(d), NEW i \in Items(d), NEW n \in Names, NEW e \in Renamed(d, i, n)
    PROVE  /\ Sound(e)
           /\ \A k : Held(d, k) => Held(e, k)
           /\ Apart(d) /\ Leading(d) => Apart(e) /\ Leading(e)
           /\ \A j : Current(d, j) => Current(e, j)
<1> DEFINE old == d.name[i]
<1>1. /\ n # old /\ FreeFor(d, i, n) /\ d.alias[old] \in {0, i}
      /\ e = [d EXCEPT !.name[i] = n, !.alias[n] = 0, !.alias[old] = i]
  BY DEF Renamed
<1>2. i \in Ids /\ old \in Names /\ d \in Dbs /\ NoName \notin Names
  BY PantryAssumption DEF Items, Sound, Dbs
<1>3. Named(d, n) = {} /\ d.alias[n] \in {0, i}
  BY <1>1 DEF FreeFor, Named
<1>4. /\ e \in Dbs
      /\ e.name = [d.name EXCEPT ![i] = n]
      /\ e.alias = [[d.alias EXCEPT ![n] = 0] EXCEPT ![old] = i]
      /\ e.bought = d.bought /\ e.used = d.used /\ e.stock = d.stock
      /\ e.product = d.product /\ e.pref = d.pref
  BY <1>1, <1>2 DEF Dbs
<1>5. \A x \in Names : e.alias[x] = IF x = old THEN i ELSE IF x = n THEN 0 ELSE d.alias[x]
  <2>1. d.alias \in [Names -> Ids \cup {0}]
    BY <1>2 DEF Dbs
  <2> QED BY <1>4, <2>1
<1>6. \A j \in Ids : e.name[j] = IF j = i THEN n ELSE d.name[j]
  BY <1>2, <1>4 DEF Dbs
<1>7. Items(e) = Items(d)
  BY <1>2, <1>6 DEF Items
<1>8. Sound(e)
  <2>1. Keyed(e)
    BY <1>4, <1>5, <1>7 DEF Sound, Keyed
  <2>2. Owning(e)
    BY <1>4 DEF Sound, Owning
  <2> QED BY <1>4, <2>1, <2>2 DEF Sound
<1>9. ASSUME Apart(d), Leading(d) PROVE Apart(e) /\ Leading(e)
  <2>1. ASSUME NEW j \in Items(e) PROVE Named(e, e.name[j]) \subseteq {j} /\ e.alias[e.name[j]] = 0
    <3>1. j \in Items(d) /\ j \in Ids /\ d.name[j] # n
      BY <1>3, <1>7, <2>1 DEF Named, Items
    <3>2. CASE j = i
      BY <1>1, <1>3, <1>5, <1>6, <1>7, <3>2 DEF Named, Items
    <3>3. CASE j # i
      <4>1. Named(d, d.name[j]) \subseteq {j} /\ d.alias[d.name[j]] = 0 /\ d.name[j] \in Names
        BY <1>2, <1>9, <3>1 DEF Apart, Items, Dbs
      <4>2. d.name[j] # old
        BY <3>3, <4>1 DEF Named
      <4>3. Named(e, d.name[j]) \subseteq Named(d, d.name[j])
        BY <1>6, <1>7, <3>1 DEF Named, Items
      <4> QED BY <1>5, <1>6, <3>1, <3>3, <4>1, <4>2, <4>3
    <3> QED BY <3>2, <3>3
  <2>2. ASSUME NEW r \in e.bought, NEW x \in r.filed PROVE e.name[r.item] = x \/ e.alias[x] = r.item
    <3>1. /\ r \in d.bought /\ r.item \in Items(d) /\ r.item \in Ids /\ r.item # 0
          /\ x \in Names /\ (d.name[r.item] = x \/ d.alias[x] = r.item)
      <4>1. r \in d.bought
        BY <1>4
      <4>2. r \in Rows /\ r.item \in Items(d)
        BY <1>2, <4>1 DEF Dbs, Sound, Keyed
      <4> QED BY <1>9, <4>1, <4>2 DEF Leading, Rows, Ids
    <3>2. CASE r.item = i
      BY <1>5, <1>6, <3>1, <3>2
    <3>3. CASE r.item # i
      BY <1>1, <1>3, <1>5, <1>6, <3>1, <3>3
    <3> QED BY <3>2, <3>3
  <2> QED BY <2>1, <2>2 DEF Apart, Leading
<1>10. \A j : Purchases(e, j) = Purchases(d, j)
  BY <1>4 DEF Purchases
<1>11. \A j : Current(d, j) => Current(e, j)
  BY <1>4, <1>10, CurrentStays
<1> QED BY <1>4, <1>8, <1>9, <1>11 DEF Held

LEMMA AliasAddedKeeps ==
    ASSUME NEW d, Sound(d), NEW i \in Items(d), NEW n \in Names, NEW e \in AliasAdded(d, i, n)
    PROVE  /\ Sound(e)
           /\ \A k : Held(d, k) => Held(e, k)
           /\ Apart(d) /\ Leading(d) => Apart(e) /\ Leading(e)
           /\ \A j : Current(d, j) => Current(e, j)
<1>1. Named(d, n) = {} /\ d.alias[n] = 0 /\ e = [d EXCEPT !.alias[n] = i]
  BY DEF AliasAdded
<1>2. i \in Ids /\ d \in Dbs /\ NoName \notin Names
  BY PantryAssumption DEF Items, Sound
<1>3. /\ e \in Dbs /\ e.alias = [d.alias EXCEPT ![n] = i]
      /\ e.name = d.name /\ e.bought = d.bought /\ e.used = d.used /\ e.stock = d.stock
      /\ e.product = d.product /\ e.pref = d.pref
  BY <1>1, <1>2 DEF Dbs
<1>4. \A x \in Names : e.alias[x] = IF x = n THEN i ELSE d.alias[x]
  BY <1>2, <1>3 DEF Dbs
<1>5. Items(e) = Items(d) /\ \A x : Named(e, x) = Named(d, x)
  BY <1>3 DEF Items, Named
<1>6. Sound(e)
  <2>1. Keyed(e)
    BY <1>3, <1>4, <1>5 DEF Sound, Keyed
  <2>2. Owning(e)
    BY <1>3 DEF Sound, Owning
  <2> QED BY <1>3, <2>1, <2>2 DEF Sound
<1>7. ASSUME Apart(d), Leading(d) PROVE Apart(e) /\ Leading(e)
  <2>1. \A j \in Items(d) : d.name[j] \in Names /\ d.name[j] # n
    BY <1>1, <1>2 DEF Named, Items, Dbs
  <2>2. Apart(e)
    BY <1>3, <1>4, <1>5, <1>7, <2>1 DEF Apart
  <2>3. \A r \in d.bought : r.item # 0 /\ r.filed \subseteq Names
    BY <1>2 DEF Dbs, Rows, Ids
  <2>4. Leading(e)
    BY <1>1, <1>3, <1>4, <1>7, <2>3 DEF Leading
  <2> QED BY <2>2, <2>4
<1>8. \A j : Purchases(e, j) = Purchases(d, j)
  BY <1>3 DEF Purchases
<1>9. \A j : Current(d, j) => Current(e, j)
  BY <1>3, <1>8, CurrentStays
<1> QED BY <1>3, <1>6, <1>7, <1>9 DEF Held

\* What the removal of an alias leaves.
Unaliased(d, n) ==
    [d EXCEPT !.alias[n] = 0, !.bought = {[r EXCEPT !.filed = @ \ {n}] : r \in @}]

LEMMA AliasRemovedKeeps ==
    ASSUME NEW d, Sound(d), NEW n \in Names, NEW e, e = Unaliased(d, n)
    PROVE  /\ Sound(e)
           /\ \A k : Held(d, k) /\ k[1] # n => Held(e, k)
           /\ Apart(d) /\ Leading(d) => Apart(e) /\ Leading(e)
           /\ \A j : Current(d, j) => Current(e, j)
<1> DEFINE cut(r) == [r EXCEPT !.filed = @ \ {n}]
<1>1. d \in Dbs /\ d.bought \subseteq Rows
  BY DEF Sound, Dbs
<1>2. \A r \in d.bought :
        /\ cut(r) \in Rows /\ cut(r).item = r.item /\ cut(r).at = r.at /\ cut(r).upc = r.upc
        /\ cut(r).filed = r.filed \ {n}
  BY <1>1 DEF Rows
<1>3. /\ e.bought = {cut(r) : r \in d.bought} /\ e.alias = [d.alias EXCEPT ![n] = 0]
      /\ e.name = d.name /\ e.used = d.used /\ e.stock = d.stock
      /\ e.product = d.product /\ e.pref = d.pref
  BY <1>1 DEF Dbs, Unaliased
<1>4. e \in Dbs
  <2>1. PICK rows \in SUBSET Rows : e = [d EXCEPT !.alias[n] = 0, !.bought = rows]
    <3>1. {cut(r) : r \in d.bought} \in SUBSET Rows
      BY <1>2
    <3> QED BY <3>1 DEF Unaliased
  <2>2. PICK al \in [Names -> Ids \cup {0}] : e = [d EXCEPT !.alias = al, !.bought = rows]
    <3>1. [d.alias EXCEPT ![n] = 0] \in [Names -> Ids \cup {0}]
      BY <1>1 DEF Dbs
    <3>2. e = [d EXCEPT !.alias = [d.alias EXCEPT ![n] = 0], !.bought = rows]
      BY <2>1
    <3> QED BY <3>1, <3>2
  <2>3. rows \in SUBSET Rows
    OBVIOUS
  <2> QED BY <1>1, <2>2, <2>3 DEF Dbs
<1> HIDE DEF cut
<1>5. \A x \in Names : e.alias[x] = IF x = n THEN 0 ELSE d.alias[x]
  BY <1>1, <1>3 DEF Dbs
<1>6. Items(e) = Items(d) /\ \A x : Named(e, x) = Named(d, x)
  BY <1>3 DEF Items, Named
<1>7. Sound(e)
  <2>1. \A r \in e.bought : \E o \in d.bought : r = cut(o)
    BY <1>3
  <2>2. \A r, q \in e.bought : r.item = q.item /\ Day(r.at) = Day(q.at) => r = q
    <3> SUFFICES ASSUME NEW r \in e.bought, NEW q \in e.bought, r.item = q.item,
                        Day(r.at) = Day(q.at) PROVE r = q
      OBVIOUS
    <3>1. PICK o \in d.bought, p \in d.bought : r = cut(o) /\ q = cut(p)
      BY <2>1
    <3>2. o.item = p.item /\ Day(o.at) = Day(p.at)
      BY <1>2, <3>1
    <3>3. o = p
      BY <3>2 DEF Sound, Keyed
    <3> QED BY <3>1, <3>3
  <2>3. \A r \in e.bought : r.item \in Items(e)
    BY <1>2, <1>6, <2>1 DEF Sound, Keyed
  <2>4. Keyed(e)
    BY <1>3, <1>5, <1>6, <2>2, <2>3 DEF Sound, Keyed
  <2>5. Owning(e)
    BY <1>2, <1>3 DEF Sound, Owning
  <2> QED BY <1>4, <2>4, <2>5 DEF Sound
<1>8. ASSUME NEW k, Held(d, k), k[1] # n PROVE Held(e, k)
  <2>1. PICK r \in d.bought : k[1] \in r.filed /\ Day(r.at) = k[2]
    BY <1>8 DEF Held
  <2>2. cut(r) \in e.bought /\ k[1] \in cut(r).filed /\ Day(cut(r).at) = k[2]
    BY <1>2, <1>3, <1>8, <2>1
  <2> QED BY <2>2 DEF Held
<1>9. ASSUME Apart(d), Leading(d) PROVE Apart(e) /\ Leading(e)
  <2>1. \A j \in Items(d) : d.name[j] \in Names
    BY <1>1 DEF Items, Dbs
  <2>2. Apart(e)
    BY <1>3, <1>5, <1>6, <1>9, <2>1 DEF Apart
  <2>3. ASSUME NEW r \in d.bought, NEW x \in cut(r).filed
        PROVE  e.name[cut(r).item] = x \/ e.alias[x] = cut(r).item
    <3>1. x \in r.filed /\ x # n /\ x \in Names /\ cut(r).item = r.item
      BY <1>1, <1>2 DEF Rows
    <3> QED BY <1>3, <1>5, <1>9, <3>1 DEF Leading
  <2>4. Leading(e)
    BY <1>3, <2>3 DEF Leading
  <2> QED BY <2>2, <2>4
<1>10. \A j : Purchases(e, j) = Purchases(d, j)
  <2> SUFFICES ASSUME NEW j PROVE Purchases(e, j) = Purchases(d, j)
    OBVIOUS
  <2>1. \A r \in d.bought : cut(r) \in e.bought /\ cut(r).item = r.item /\ cut(r).at = r.at
    BY <1>2, <1>3
  <2>2. \A q \in e.bought : \E r \in d.bought : q.item = r.item /\ q.at = r.at
    BY <1>2, <1>3
  <2> QED BY <2>1, <2>2 DEF Purchases
<1>11. \A j : Current(d, j) => Current(e, j)
  BY <1>3, <1>10, CurrentStays
<1> QED BY <1>7, <1>8, <1>9, <1>11

\* What the removal of an item leaves, column by column.
ItemGone(d, i, e) ==
    /\ e \in Dbs /\ Items(e) = Items(d) \ {i}
    /\ \A j \in Ids : e.name[j] = IF j = i THEN NoName ELSE d.name[j]
    /\ e.bought = {r \in d.bought : r.item # i}
    /\ \A n \in Names : e.alias[n] = IF d.alias[n] = i THEN 0 ELSE d.alias[n]
    /\ \A u \in Upcs : e.product[u] = IF d.product[u] = i THEN 0 ELSE d.product[u]
    /\ \A j \in Ids : e.stock[j] = IF j = i THEN NoRow ELSE d.stock[j]
    /\ \A j \in Ids : e.used[j] = IF j = i THEN {} ELSE d.used[j]
    /\ \A j \in Ids : e.pref[j] = IF j = i THEN NoUpc ELSE d.pref[j]

LEMMA ItemDeletedColumns ==
    ASSUME NEW d, Sound(d), NEW i \in Items(d)
    PROVE  ItemGone(d, i, ItemDeleted(d, i))
<1> DEFINE e == ItemDeleted(d, i)
<1>1. i \in Ids /\ d \in Dbs /\ NoRow \in StockRows
  BY DEF Items, Sound, NoRow, StockRows
<1>2. PICK f : f = Unlisted(d, i)
  OBVIOUS
<1>3. /\ f \in Dbs
      /\ f.name = [d.name EXCEPT ![i] = NoName] /\ f.pref = [d.pref EXCEPT ![i] = NoUpc]
      /\ f.used = [d.used EXCEPT ![i] = {}] /\ f.stock = [d.stock EXCEPT ![i] = NoRow]
      /\ f.product = d.product /\ f.alias = d.alias /\ f.bought = d.bought
  BY <1>1, <1>2 DEF Unlisted, Dbs, Coded
<1>4. PICK rows, al, pr :
        /\ e = [f EXCEPT !.bought = rows, !.alias = al, !.product = pr]
        /\ rows = {r \in d.bought : r.item # i}
        /\ al = [n \in Names |-> IF d.alias[n] = i THEN 0 ELSE d.alias[n]]
        /\ pr = [u \in Upcs |-> IF d.product[u] = i THEN 0 ELSE d.product[u]]
  <2> DEFINE rows == {r \in f.bought : r.item # i}
             al == [n \in Names |-> IF f.alias[n] = i THEN 0 ELSE f.alias[n]]
             pr == [u \in Upcs |-> IF f.product[u] = i THEN 0 ELSE f.product[u]]
  <2>1. e = [f EXCEPT !.bought = rows, !.alias = al, !.product = pr]
    BY <1>2, Zenon DEF ItemDeleted
  <2>2. /\ rows = {r \in d.bought : r.item # i}
        /\ al = [n \in Names |-> IF d.alias[n] = i THEN 0 ELSE d.alias[n]]
        /\ pr = [u \in Upcs |-> IF d.product[u] = i THEN 0 ELSE d.product[u]]
    BY <1>3
  <2> HIDE DEF rows, al, pr
  <2> QED BY <2>1, <2>2
<1> HIDE DEF e
<1>5. rows \in SUBSET Rows /\ al \in [Names -> Ids \cup {0}] /\ pr \in [Upcs -> Ids \cup {0}]
  <2>1. /\ d.bought \subseteq Rows /\ d.alias \in [Names -> Ids \cup {0}]
        /\ d.product \in [Upcs -> Ids \cup {0}]
    BY <1>1 DEF Dbs
  <2> QED BY <1>4, <2>1
<1>6. /\ e \in Dbs /\ e.bought = rows /\ e.alias = al /\ e.product = pr
      /\ e.name = f.name /\ e.pref = f.pref /\ e.used = f.used /\ e.stock = f.stock
  BY <1>3, <1>4, <1>5 DEF Dbs
<1>7. \A j \in Ids : e.name[j] = IF j = i THEN NoName ELSE d.name[j]
  BY <1>1, <1>3, <1>6 DEF Dbs
<1>8. Items(e) = Items(d) \ {i}
  BY <1>7 DEF Items
<1>9. \A j \in Ids : e.stock[j] = IF j = i THEN NoRow ELSE d.stock[j]
  <2>1. d.stock \in [Ids -> StockRows]
    BY <1>1 DEF Dbs
  <2> QED BY <1>3, <1>6, <2>1
<1>10. \A j \in Ids : e.used[j] = IF j = i THEN {} ELSE d.used[j]
  <2>1. d.used \in [Ids -> SUBSET Times]
    BY <1>1 DEF Dbs
  <2> QED BY <1>3, <1>6, <2>1
<1>11. \A j \in Ids : e.pref[j] = IF j = i THEN NoUpc ELSE d.pref[j]
  <2>1. d.pref \in [Ids -> Coded]
    BY <1>1 DEF Dbs
  <2> QED BY <1>3, <1>6, <2>1
<1>12. /\ \A n \in Names : e.alias[n] = IF d.alias[n] = i THEN 0 ELSE d.alias[n]
       /\ \A u \in Upcs : e.product[u] = IF d.product[u] = i THEN 0 ELSE d.product[u]
  BY <1>4, <1>6
<1> QED BY <1>4, <1>6, <1>7, <1>8, <1>9, <1>10, <1>11, <1>12 DEF ItemGone, e

LEMMA ItemDeletedKeeps ==
    ASSUME NEW d, Sound(d), NEW i \in Items(d), NEW e, e = ItemDeleted(d, i)
    PROVE  /\ Sound(e) /\ Items(e) = Items(d) \ {i}
           /\ \A k : Held(d, k) =>
                Held(e, k) \/ \E r \in d.bought : r.item = i /\ k[1] \in r.filed /\ Day(r.at) = k[2]
           /\ Apart(d) /\ Leading(d) => Apart(e) /\ Leading(e)
           /\ \A j \in Ids : Current(d, j) => Current(e, j)
<1>1. ItemGone(d, i, e)
  BY ItemDeletedColumns
<1>2. /\ i \in Ids /\ 0 \notin Ids /\ d \in Dbs /\ Items(d) \subseteq Ids
      /\ e \in Dbs /\ Items(e) = Items(d) \ {i}
  BY <1>1 DEF Items, Ids, Sound, ItemGone
<1>3. e.bought = {r \in d.bought : r.item # i}
  BY <1>1 DEF ItemGone
<1>4. Keyed(e)
  <2>1. \A n \in Names : e.alias[n] \in Items(e) \cup {0}
    BY <1>1, <1>2 DEF ItemGone, Sound, Keyed
  <2>2. \A u \in Upcs : e.product[u] \in Items(e) \cup {0}
    BY <1>1, <1>2 DEF ItemGone, Sound, Keyed
  <2>3. \A j \in Ids \ Items(e) : e.stock[j] = NoRow /\ e.used[j] = {} /\ e.pref[j] = NoUpc
    BY <1>1, <1>2 DEF ItemGone, Sound, Keyed
  <2>4. \A r \in e.bought : r.item \in Items(e)
    BY <1>2, <1>3 DEF Sound, Keyed
  <2>5. \A r, q \in e.bought : r.item = q.item /\ Day(r.at) = Day(q.at) => r = q
    BY <1>3 DEF Sound, Keyed
  <2> QED BY <2>1, <2>2, <2>3, <2>4, <2>5 DEF Keyed
<1>5. Owning(e)
  <2>1. \A u \in Upcs : d.product[u] # i => e.product[u] = d.product[u]
    BY <1>1 DEF ItemGone
  <2>2. \A r \in e.bought : r.upc # NoUpc => e.product[r.upc] = r.item
    <3>1. \A r \in d.bought : r.upc \in Upcs \cup {NoUpc}
      BY <1>2 DEF Dbs, Rows
    <3> QED BY <1>3, <2>1, <3>1 DEF Sound, Owning
  <2>3. \A j \in Ids : e.pref[j] # NoUpc => e.product[e.pref[j]] = j
    <3>1. \A j \in Ids : e.pref[j] # NoUpc => j # i /\ e.pref[j] = d.pref[j] /\ d.pref[j] \in Upcs
      BY <1>1, <1>2 DEF ItemGone, Dbs, Coded
    <3> QED BY <2>1, <3>1 DEF Sound, Owning
  <2> QED BY <2>2, <2>3 DEF Owning
<1>6. \A k : Held(d, k) =>
        Held(e, k) \/ \E r \in d.bought : r.item = i /\ k[1] \in r.filed /\ Day(r.at) = k[2]
  BY <1>3 DEF Held
<1>7. ASSUME Apart(d), Leading(d) PROVE Apart(e) /\ Leading(e)
  <2>1. ASSUME NEW j \in Items(e) PROVE Named(e, e.name[j]) \subseteq {j} /\ e.alias[e.name[j]] = 0
    <3>1. j \in Items(d) /\ e.name[j] = d.name[j] /\ d.name[j] \in Names
      BY <1>1, <1>2, <2>1 DEF ItemGone, Items, Dbs
    <3>2. Named(d, d.name[j]) \subseteq {j} /\ d.alias[d.name[j]] = 0
      BY <1>7, <3>1 DEF Apart
    <3>3. Named(e, d.name[j]) \subseteq Named(d, d.name[j])
      BY <1>1, <1>2 DEF ItemGone, Named
    <3> QED BY <1>1, <3>1, <3>2, <3>3 DEF ItemGone
  <2>2. ASSUME NEW r \in e.bought, NEW x \in r.filed PROVE e.name[r.item] = x \/ e.alias[x] = r.item
    <3>1. r \in d.bought /\ r.item # i /\ r.item \in Ids /\ x \in Names
      BY <1>2, <1>3 DEF Dbs, Rows
    <3>2. d.name[r.item] = x \/ d.alias[x] = r.item
      BY <1>7, <3>1 DEF Leading
    <3> QED BY <1>1, <3>1, <3>2 DEF ItemGone
  <2> QED BY <2>1, <2>2 DEF Apart, Leading
<1>8. ASSUME NEW j \in Ids, Current(d, j) PROVE Current(e, j)
  <2>1. CASE j = i
    <3>1. Purchases(e, i) = {}
      BY <1>3 DEF Purchases
    <3> QED BY <2>1, <3>1 DEF Current
  <2>2. CASE j # i
    <3>1. Purchases(e, j) = Purchases(d, j)
      BY <1>3, <2>2 DEF Purchases
    <3>2. e.used[j] = d.used[j] /\ e.stock[j] = d.stock[j]
      BY <1>1, <2>2 DEF ItemGone
    <3> QED BY <1>8, <3>1, <3>2, CurrentStays
  <2> QED BY <2>1, <2>2
<1> QED BY <1>2, <1>4, <1>5, <1>6, <1>7, <1>8 DEF Sound

LEMMA PurchaseDeletedKeeps ==
    ASSUME NEW d, Sound(d), NEW r \in d.bought, NEW e, e = [d EXCEPT !.bought = @ \ {r}]
    PROVE  /\ Sound(e) /\ Items(e) = Items(d)
           /\ \A k : Held(d, k) => Held(e, k) \/ (k[1] \in r.filed /\ Day(r.at) = k[2])
           /\ Apart(d) /\ Leading(d) => Apart(e) /\ Leading(e)
           /\ \A j \in Ids \ {r.item} : Current(d, j) => Current(e, j)
<1>1. /\ e \in Dbs /\ e.bought = d.bought \ {r} /\ e.name = d.name /\ e.alias = d.alias
      /\ e.used = d.used /\ e.stock = d.stock /\ e.product = d.product /\ e.pref = d.pref
  BY DEF Sound, Dbs
<1>2. Items(e) = Items(d)
  BY <1>1 DEF Items
<1>3. Sound(e)
  BY <1>1, <1>2 DEF Sound, Keyed, Owning
<1>4. \A k : Held(d, k) => Held(e, k) \/ (k[1] \in r.filed /\ Day(r.at) = k[2])
  BY <1>1 DEF Held
<1>5. ASSUME Apart(d), Leading(d) PROVE Apart(e) /\ Leading(e)
  <2>1. \A x : Named(e, x) = Named(d, x)
    BY <1>1, <1>2 DEF Named
  <2>2. Apart(e)
    BY <1>1, <1>2, <1>5, <2>1 DEF Apart
  <2>3. Leading(e)
    BY <1>1, <1>5 DEF Leading
  <2> QED BY <2>2, <2>3
<1>6. ASSUME NEW j \in Ids \ {r.item}, Current(d, j) PROVE Current(e, j)
  <2>1. Purchases(e, j) = Purchases(d, j)
    BY <1>1 DEF Purchases
  <2> QED BY <1>1, <1>6, <2>1, CurrentStays
<1> QED BY <1>2, <1>3, <1>4, <1>5, <1>6

\* The tables differ in no more than flags and preferences.
Unmoved(d, e) == Alike(d, e) /\ e.used = d.used /\ e.stock = d.stock

\* The product an item prefers is one of its own, or none.
LEMMA PreferKeeps ==
    ASSUME NEW d, Sound(d), NEW i \in Items(d), NEW u \in Coded, u # NoUpc => d.product[u] = i,
           NEW b \in BOOLEAN, NEW e, e = [d EXCEPT !.pref[i] = u, !.pinned[i] = b]
    PROVE  Sound(e) /\ Unmoved(d, e)
<1>1. i \in Ids /\ d \in Dbs
  BY DEF Items, Sound
<1>2. /\ e \in Dbs /\ Alike(d, e) /\ e.used = d.used /\ e.stock = d.stock
      /\ e.product = d.product /\ e.pref = [d.pref EXCEPT ![i] = u]
  BY <1>1 DEF Dbs, Alike
<1>3. \A j \in Ids : e.pref[j] = IF j = i THEN u ELSE d.pref[j]
  BY <1>1, <1>2 DEF Dbs
<1>4. Items(e) = Items(d)
  BY <1>2 DEF Alike, Items
<1>5. Keyed(e)
  BY <1>2, <1>3, <1>4 DEF Sound, Keyed, Alike
<1>6. Owning(e)
  BY <1>2, <1>3 DEF Sound, Owning, Alike
<1> QED BY <1>2, <1>5, <1>6 DEF Sound, Unmoved

\* A row is written of an item that is there.
Restocked(d, e, i, row) ==
    /\ Alike(d, e) /\ e.used = d.used
    /\ \A j \in Ids : e.stock[j] = IF j = i THEN row ELSE d.stock[j]

LEMMA StockKeeps ==
    ASSUME NEW d, Sound(d), NEW i \in Items(d), NEW row \in StockRows,
           NEW e, e = [d EXCEPT !.stock[i] = row]
    PROVE  Sound(e) /\ Restocked(d, e, i, row)
<1>1. i \in Ids /\ d \in Dbs
  BY DEF Items, Sound
<1>2. /\ e \in Dbs /\ Alike(d, e) /\ e.used = d.used
      /\ e.product = d.product /\ e.pref = d.pref /\ e.stock = [d.stock EXCEPT ![i] = row]
  BY <1>1 DEF Dbs, Alike
<1>3. \A j \in Ids : e.stock[j] = IF j = i THEN row ELSE d.stock[j]
  BY <1>1, <1>2 DEF Dbs
<1>4. Items(e) = Items(d)
  BY <1>2 DEF Alike, Items
<1>5. Keyed(e) /\ Owning(e)
  BY <1>2, <1>3, <1>4 DEF Sound, Keyed, Owning, Alike
<1> QED BY <1>2, <1>3, <1>5 DEF Sound, Restocked

\* The row that is derived is one.
LEMMA DerivedTyped ==
    ASSUME NEW d, d \in Dbs, NEW i \in Ids
    PROVE  Derived(d, i) \in StockRows
<1>1. Purchases(d, i) \in SUBSET Times
  BY DEF Dbs, Rows, Purchases
<1>2. d.used[i] \in SUBSET Times
  BY DEF Dbs
<1> DEFINE used == Max(d.used[i] \cup {NoTime})
<1>3. used \in Times \cup {NoTime}
  <2>1. MaxTime \in Nat
    BY PantryAssumption
  <2>2. d.used[i] \cup {NoTime} \in SUBSET (-1..MaxTime)
    BY <1>2, <2>1 DEF Times, NoTime
  <2>3. used \in d.used[i] \cup {NoTime}
    BY <2>1, <2>2, MaxOf
  <2> QED BY <1>2, <2>3
<1> HIDE DEF used
<1> QED BY <1>1, <1>3 DEF Derived, StockRows, used

-----------------------------------------------------------------------------
(* What the calls come to, from the tables of now *)

LEMMA ResultIsFine ==
    ASSUME NEW d, Sound(d), NEW K, \A k \in K : Held(d, k)
    PROVE  /\ Result(d) \in Fine(K)
           /\ Apart(d) /\ Leading(d) => \A C : (\A n \in C : Named(d, n) = {}) => Result(d) \in Led(K, C)
           /\ (\A i \in Ids : Current(d, i)) => Result(d) \in Followed(K)
<1>1. Result(d) \in Fine(K) /\ Result(d).db = d /\ Result(d).touched = {}
  BY DEF Result, Fine, Results, Sound
<1> QED BY <1>1 DEF Led, Followed

LEMMA CallsKeep ==
    ASSUME NEW Good, Closed(Good), NEW d, Result(d) \in Good, NEW t \in Times
    PROVE  /\ \A receipt \in Receipts :
                LET found == Resolve(d, Head(receipt).name)
                IN Recorded(d, receipt, t, found, Hidden(d, found)) \subseteq Good
           /\ \A meal \in Meals : Consumed(d, meal, t) \subseteq Good
<1>1. Result(d).db = d
  BY DEF Result
<1>2. ASSUME NEW receipt \in Receipts, NEW found, found = Resolve(d, Head(receipt).name)
      PROVE  Recorded(d, receipt, t, found, Hidden(d, found)) \subseteq Good
  <2>1. Head(receipt) \in Lines
    BY PantryAssumption
  <2>2. Head(receipt).name \in Names /\ Head(receipt).upc \in Coded
    BY <2>1 DEF Lines
  <2>3. BuyLine(Result(d), Head(receipt), t) \subseteq Good
    BY <2>2, BuyLineKeeps
  <2>4. Buy(Result(d), Head(receipt), t, found, Hidden(d, found)) \subseteq Good
    BY <1>1, <1>2, <2>3 DEF BuyLine
  <2> QED BY <2>4, RecordedKeeps
<1> QED BY <1>2, ConsumedKeeps

\* What was looked up before another call ran is no more than an id that was one.
LEMMA LookedUpKeeps ==
    ASSUME NEW d, NEW K, Result(d) \in Fine(K), NEW receipt \in Receipts, NEW t \in Times,
           NEW found \in Ids \cup {0}, NEW hidden \in BOOLEAN
    PROVE  Recorded(d, receipt, t, found, hidden) \subseteq Fine(K)
<1> DEFINE line == Head(receipt)
           r == Result(d)
<1>1. line.name \in Names /\ line.upc \in Coded
  <2>1. line \in Lines
    BY PantryAssumption
  <2> QED BY <2>1 DEF Lines
<1>2. r \in Results /\ Sound(r.db)
  BY DEF Fine
<1> HIDE DEF r, line
<1>3. ASSUME NEW q \in Buy(r, line, t, found, hidden) PROVE q \in Fine(K)
  <2>1. PICK m : Matched(r.db, line.name, found, m) /\ BuyGives(r, line, t, m, q) /\ q \in Results
    BY <1>1, <1>2, BuyKeeps
  <2>2. r \in Fine(K)
    BY DEF r
  <2> QED BY <2>1, <2>2, FineStep
<1>4. Buy(r, line, t, found, hidden) \subseteq Fine(K) /\ Closed(Fine(K))
  BY <1>3, AllClosed
<1> QED BY <1>4, RecordedKeeps DEF r, line

\* The names that the entries from the k-th on have for aliases are no item's
\* before the k-th is applied, and it names its item by none of them.
LEMMA ImportLeads ==
    ASSUME AliasesApart, NEW d, NEW b \in Batches, Valid(d, b), NEW K, Result(d) \in Led(K, {})
    PROVE  Imported(d, b) \subseteq Led(K, {})
<1> DEFINE items == b.items
           N == Len(items)
           Others(k) == items[k].akas \ {items[k].name}
           C(k) == UNION {Others(j) : j \in k..N}
           Good == [k \in 0..N |-> Led(K, C(k + 1))]
<1>1. items \in Seq(Entries) /\ N \in Nat
  BY PantryAssumption
<1>2. \A k \in 1..N : /\ items[k] \in Entries /\ items[k].name \in Names
                       /\ Others(k) \in SUBSET Names
  <2>1. \A k \in 1..N : items[k] \in Entries
    BY <1>1
  <2>2. \A entry \in Entries : entry.name \in Names /\ entry.akas \in SUBSET Names
    BY DEF Entries
  <2> QED BY <2>1, <2>2
<1>3. \A k \in 1..(N + 1) : C(k) \in SUBSET Names
  BY <1>1, <1>2
<1>4. \A n \in C(1) : Named(d, n) = {}
  <2>1. ASSUME NEW k \in 1..N, NEW n \in Others(k) PROVE Named(d, n) = {}
    <3>1. items[k] \in Range(items)
      BY <1>1 DEF Range
    <3>2. <<items[k].name, n>> \in Claims(b)
      BY <3>1 DEF Claims
    <3>3. <<items[k].name, n>>[2] = n
      OBVIOUS
    <3> QED BY <3>2, <3>3 DEF Valid
  <2> QED BY <2>1
<1>5. ASSUME NEW k \in 1..N
      PROVE  /\ items[k].name \notin C(k) /\ Others(k) \subseteq C(k)
             /\ C(k + 1) \subseteq C(k)
  <2>1. k \in k..N /\ \A j \in (k + 1)..N : j \in k..N
    BY <1>1
  <2>2. \A j \in (k + 1)..N : items[k].name \notin Others(j)
    <3> SUFFICES ASSUME NEW j \in (k + 1)..N PROVE items[k].name \notin Others(j)
      OBVIOUS
    <3>1. j \in DOMAIN items /\ k \in 1..(j - 1)
      BY <1>1
    <3> QED BY <3>1 DEF AliasesApart
  <2>3. \A j \in k..N : j = k \/ j \in (k + 1)..N
    BY <1>1
  <2>4. \A j \in k..N : items[k].name \notin Others(j)
    BY <2>2, <2>3
  <2> QED BY <2>1, <2>4
<1>6. Result(d) \in Good[0]
  <2>1. Result(d).db = d
    BY DEF Result
  <2>2. Good[0] = Led(K, C(1))
    BY <1>1
  <2> HIDE DEF C
  <2> QED BY <1>4, <2>1, <2>2 DEF Led
<1>7. ASSUME NEW k \in 1..N, NEW r \in Good[k - 1]
      PROVE  Step("list", r, items[k], NoTime) \subseteq Good[k]
  <2>0. Good[k - 1] = Led(K, C(k)) /\ Good[k] = Led(K, C(k + 1)) /\ C(k) \in SUBSET Names
    <3>1. k - 1 \in 0..N /\ (k - 1) + 1 = k /\ k \in 0..N /\ k \in 1..(N + 1)
      BY <1>1
    <3> HIDE DEF C
    <3> QED BY <1>3, <3>1
  <2> HIDE DEF Good, C, Others
  <2> SUFFICES ASSUME NEW q \in ImportItem(r, items[k]) PROVE q \in Good[k]
    BY DEF Step
  <2>1. r \in Led(K, C(k)) /\ r \in Results /\ Sound(r.db)
    BY <2>0 DEF Led, Fine
  <2>2. PICK m : /\ Matched(r.db, items[k].name, Resolve(r.db, items[k].name), m)
                 /\ ListGives(r, items[k], m, q) /\ q \in Results
    BY <1>2, <2>1, ImportItemKeeps
  <2>3. items[k].akas \ {items[k].name} \subseteq C(k)
    BY <1>5 DEF Others
  <2>4. q \in Led(K, C(k))
    BY <1>2, <1>5, <2>0, <2>1, <2>2, <2>3, LedStep
  <2> QED BY <1>5, <2>0, <2>4 DEF Led
<1>8. Good[N] \subseteq Led(K, {})
  <2>1. Good[N] = Led(K, C(N + 1))
    BY <1>1
  <2> HIDE DEF C
  <2> QED BY <2>1 DEF Led
<1> HIDE DEF Good
<1>9. Each("list", {Result(d)}, items, NoTime) \subseteq Good[N]
  <2>1. {Result(d)} \subseteq Good[0]
    BY <1>6
  <2> QED BY <1>1, <1>7, <2>1, EachLeads
<1>10. Closed(Led(K, {}))
  BY AllClosed
<1> QED BY <1>8, <1>9, <1>10, ImportedKeeps

LEMMA ImportKeeps ==
    ASSUME NEW d, NEW b \in Batches, NEW K
    PROVE  /\ Result(d) \in Fine(K) => Imported(d, b) \subseteq Fine(K)
           /\ Result(d) \in Followed(K) => Imported(d, b) \subseteq Followed(K)
<1>1. b.items \in Seq(Entries)
  BY PantryAssumption
<1>2. ASSUME NEW Good, Closed(Good), ClosedFor(Good, Entries), Result(d) \in Good
      PROVE  Imported(d, b) \subseteq Good
  <2>1. {Result(d)} \in SUBSET Good
    BY <1>2
  <2>2. Each("list", {Result(d)}, b.items, NoTime) \subseteq Good
    BY <1>1, <1>2, <2>1, EntriesKeep
  <2> QED BY <1>2, <2>2, ImportedKeeps
<1>3. ASSUME Result(d) \in Fine(K) PROVE Imported(d, b) \subseteq Fine(K)
  BY <1>2, <1>3, AllClosed
<1>4. ASSUME Result(d) \in Followed(K) PROVE Imported(d, b) \subseteq Followed(K)
  BY <1>2, <1>4, AllClosed
<1> QED BY <1>3, <1>4

\* An item that is marked out of stock.
LEMMA MarkKeeps ==
    ASSUME NEW d, NEW K, NEW i \in Items(d), NEW t \in Times
    PROVE  /\ Result(d) \in Fine(K) => Use(Result(d), i, t, d) \in Fine(K)
           /\ Result(d) \in Led(K, {}) => Use(Result(d), i, t, d) \in Led(K, {})
           /\ Result(d) \in Followed(K) => Use(Result(d), i, t, d) \in Followed(K)
<1> SUFFICES ASSUME Result(d) \in Fine(K)
             PROVE  /\ Use(Result(d), i, t, d) \in Fine(K)
                    /\ Result(d) \in Led(K, {}) => Use(Result(d), i, t, d) \in Led(K, {})
                    /\ Result(d) \in Followed(K) => Use(Result(d), i, t, d) \in Followed(K)
  BY DEF Led, Followed
<1>1. Sound(d) /\ Result(d).db = d /\ Result(d) \in Results /\ i \in Ids
  BY DEF Fine, Result, Items
<1>2. PICK e : e = [d EXCEPT !.used[i] = @ \cup {t}]
  OBVIOUS
<1>3. Noted(d, e, i)
  BY <1>1, <1>2, NoteKeeps
<1>4. PICK q : q = Use(Result(d), i, t, d)
  OBVIOUS
<1>5. q = [Result(d) EXCEPT !.db = e, !.touched = @ \cup {i}]
  BY <1>2, <1>4 DEF Use
<1>6. q.db = e /\ q.touched = Result(d).touched \cup {i} /\ q.filed = Result(d).filed /\ q \in Results
  BY <1>1, <1>3, <1>5 DEF Results, Noted, Sound
<1>7. PICK m : m = [db |-> d, item |-> i]
  OBVIOUS
<1>8. Matched(Result(d).db, NoName, i, m) /\ UseGives(Result(d), m, q)
  BY <1>1, <1>3, <1>6, <1>7 DEF Matched, SameRest, UseGives
<1>9. q \in Fine(K)
  BY <1>6, <1>8, FineStep
<1>10. Result(d) \in Followed(K) => q \in Followed(K)
  BY <1>6, <1>8, FollowedStep
<1>11. Result(d) \in Led(K, {}) => q \in Led(K, {})
  <2>1. Alike(d, e)
    BY <1>3 DEF Noted, Alike
  <2>2. Apart(d) /\ Leading(d) => Apart(e) /\ Leading(e)
    BY <2>1, AlikeHolds
  <2> QED BY <1>1, <1>6, <1>9, <2>2 DEF Led
<1> QED BY <1>4, <1>9, <1>10, <1>11

-----------------------------------------------------------------------------
(* The steps *)

LEMMA CallKinds ==
    ASSUME CallInv, NEW s \in Slots
    PROVE  /\ call[s] \in {Idle} \cup Looked \cup Recalcs
           /\ call[s].at = "idle" => call[s] = Idle
           /\ call[s].at = "record" => call[s] \in Looked
           /\ call[s].at = "recalc" => call[s] \in Recalcs
BY DEF CallInv, Idle, Looked, Recalcs

\* Without overlapping calls only the first slot is used.
Alone(s) == "overlap" \notin faults => s = 1 /\ call[2] = Idle

LEMMA BeginsAlone ==
    ASSUME CallInv, NEW s \in Slots, Begins(s)
    PROVE  /\ calls' \in 0..MaxCalls /\ faults' = faults /\ Alone(s) /\ call[s] = Idle
<1>1. Bound <= MaxCalls /\ Bound \in Nat /\ calls \in Nat
  BY PantryAssumption DEF Bound, CallInv
<1>2. calls' \in 0..MaxCalls /\ faults' = faults
  BY <1>1, PantryAssumption DEF Begins
<1>3. ASSUME "overlap" \notin faults PROVE s = 1 /\ call[2] = Idle
  <2>1. AllIdle
    BY <1>3 DEF Begins
  <2>2. call[1] = Idle /\ call[2] = Idle
    BY <2>1 DEF AllIdle, Slots
  <2>3. s # 2
    BY <2>2 DEF Begins
  <2> QED BY <2>2, <2>3 DEF Slots
<1> QED BY <1>2, <1>3 DEF Begins, Alone

LEMMA BusyAlone ==
    ASSUME CallInv, NEW s \in Slots, call[s] # Idle
    PROVE  Alone(s)
BY DEF CallInv, Alone, Slots

\* The call of a slot, and the call it becomes.
LEMMA CallStays ==
    ASSUME CallInv, NEW s \in Slots, NEW c, call' = [call EXCEPT ![s] = c], Alone(s),
           c \in {Idle} \cup Recalcs, calls' \in 0..MaxCalls, faults' = faults
    PROVE  CallInv' /\ call'[s] = c
<1>1. call \in [Slots -> {Idle} \cup Looked \cup Recalcs]
  BY DEF CallInv
<1>2. call' \in [Slots -> {Idle} \cup Looked \cup Recalcs] /\ call'[s] = c
  BY <1>1
<1>3. c.at # "record"
  BY DEF Idle, Recalcs
<1>4. "overlap" \notin faults => call'[1].at # "record" /\ call'[2] = Idle
  BY <1>1, <1>3 DEF Alone, Slots
<1> QED BY <1>2, <1>4 DEF CallInv

\* A transaction that commits tables with all that was recorded in them.
LEMMA CommitKeeps ==
    ASSUME CallInv, TableInv, NEW s \in Slots, NEW d, NEW filed, NEW touched,
           Commits(s, d, filed, touched), Alone(s), calls' \in 0..MaxCalls, faults' = faults,
           Sound(d), touched \subseteq Items(d), filed \subseteq Names \X Days,
           \A k \in kept \cup filed : Held(d, k)
    PROVE  CallInv' /\ TableInv'
<1>1. db' = d /\ kept' = kept \cup filed
  BY DEF Commits
<1>2. PICK c : c = IF touched = {} THEN Idle ELSE Recalc(touched)
  OBVIOUS
<1>3. c \in {Idle} \cup Recalcs
  <2>1. NoRow \in StockRows /\ Items(d) \subseteq Ids
    BY DEF NoRow, StockRows, Items
  <2> QED BY <1>2, <2>1 DEF Recalc, Recalcs
<1>4. CallInv'
  BY <1>2, <1>3, CallStays DEF Commits
<1>5. TableInv'
  BY <1>1 DEF TableInv
<1> QED BY <1>4, <1>5

LEMMA CommitsOneKeeps ==
    ASSUME CallInv, TableInv, NEW s \in Slots, NEW rs, rs \subseteq Fine(kept),
           CommitsOne(s, rs), Alone(s), calls' \in 0..MaxCalls, faults' = faults
    PROVE  CallInv' /\ TableInv'
<1>1. PICK r \in rs : Commits(s, r.db, r.filed, r.touched)
  BY DEF CommitsOne
<1>2. /\ Sound(r.db) /\ r.touched \subseteq Items(r.db) /\ r.filed \subseteq Names \X Days
      /\ \A k \in kept \cup r.filed : Held(r.db, k)
  BY DEF Fine, Results
<1> QED BY <1>1, <1>2, CommitKeeps

\* A call that edits the tables and recalculates nothing.
LEMMA EditKeeps ==
    ASSUME CallInv, TableInv, NEW s \in Slots, Begins(s), UNCHANGED <<kept, call>>,
           Sound(db'), \A k : Held(db, k) => Held(db', k)
    PROVE  CallInv' /\ TableInv'
<1>1. calls' \in 0..MaxCalls /\ faults' = faults
  BY BeginsAlone
<1>2. CallInv'
  BY <1>1 DEF CallInv
<1>3. TableInv'
  BY DEF TableInv
<1> QED BY <1>2, <1>3

LEMMA WithoutTyped ==
    ASSUME NEW c \in Recalcs, NEW i \in Ids
    PROVE  Without(c, i) \in {Idle} \cup Recalcs
<1>1. NoRow \in StockRows
  BY DEF NoRow, StockRows
<1> QED BY <1>1 DEF Without, Recalc, Recalcs

\* The types of the tables and what refers to what, and that every recorded
\* line is held, whatever calls overlap and wherever the addon dies.
LEMMA TablesStep ==
    ASSUME CallInv, TableInv, [Next]_vars
    PROVE  CallInv' /\ TableInv'
<1>1. /\ Sound(db) /\ \A k \in kept : Held(db, k)
      /\ kept \subseteq Names \X Days /\ Result(db) \in Fine(kept)
  BY ResultIsFine DEF TableInv
<1>2. ASSUME NEW s \in Slots, NEW receipt \in Receipts, NEW t \in Times, Record(s, receipt, t)
      PROVE  CallInv' /\ TableInv'
  <2>1. Alone(s) /\ calls' \in 0..MaxCalls /\ faults' = faults
    BY <1>2, BeginsAlone DEF Record
  <2>2. PICK rs : rs \subseteq Fine(kept) /\ CommitsOne(s, rs)
    <3>1. Closed(Fine(kept))
      BY AllClosed
    <3> QED BY <1>1, <1>2, <3>1, CallsKeep DEF Record
  <2> QED BY <2>1, <2>2, CommitsOneKeeps
<1>3. ASSUME NEW s \in Slots, NEW receipt \in Receipts, NEW t \in Times, RecordLooks(s, receipt, t)
      PROVE  CallInv' /\ TableInv'
  <2>1. calls' \in 0..MaxCalls /\ faults' = faults /\ "overlap" \in faults
    BY <1>3, BeginsAlone DEF RecordLooks
  <2>2. PICK found : found = Resolve(db, Head(receipt).name)
    OBVIOUS
  <2>3. Head(receipt).name \in Names
    <3>1. Head(receipt) \in Lines
      BY PantryAssumption
    <3> QED BY <3>1 DEF Lines
  <2>4. found \in Ids \cup {0}
    BY <1>1, <2>2, <2>3, ResolveTyped DEF Sound, Items
  <2>5. PICK c : /\ c = [at |-> "record", receipt |-> receipt, time |-> t,
                         found |-> found, hidden |-> Hidden(db, found)]
                 /\ call' = [call EXCEPT ![s] = c]
    BY <1>3, <2>2 DEF RecordLooks
  <2>6. c \in Looked
    BY <2>4, <2>5 DEF Looked, Hidden
  <2>7. call' \in [Slots -> {Idle} \cup Looked \cup Recalcs]
    BY <2>5, <2>6 DEF CallInv
  <2>8. TableInv'
    BY <1>3 DEF RecordLooks, TableInv
  <2> QED BY <2>1, <2>7, <2>8 DEF CallInv
<1>4. ASSUME NEW s \in Slots, RecordWrites(s) PROVE CallInv' /\ TableInv'
  <2>1. call[s] \in Looked /\ call[s] # Idle
    BY <1>4, CallKinds DEF RecordWrites, Idle
  <2>2. Alone(s) /\ calls' \in 0..MaxCalls /\ faults' = faults
    BY <1>4, <2>1, BusyAlone DEF RecordWrites, CallInv
  <2>3. PICK c : c = call[s]
    OBVIOUS
  <2>4. /\ c.receipt \in Receipts /\ c.time \in Times
        /\ c.found \in Ids \cup {0} /\ c.hidden \in BOOLEAN
    BY <2>1, <2>3 DEF Looked
  <2>5. PICK rs : rs = Recorded(db, c.receipt, c.time, c.found, c.hidden)
    OBVIOUS
  <2>6. rs \subseteq Fine(kept)
    BY <1>1, <2>4, <2>5, LookedUpKeeps
  <2>7. CASE CommitsOne(s, rs)
    BY <2>2, <2>6, <2>7, CommitsOneKeeps
  <2>8. CASE call' = [call EXCEPT ![s] = Idle] /\ UNCHANGED <<db, kept>>
    <3>1. CallInv'
      BY <2>2, <2>8, CallStays
    <3> QED BY <2>8, <3>1 DEF TableInv
  <2> QED BY <1>4, <2>3, <2>5, <2>7, <2>8 DEF RecordWrites
<1>5. ASSUME NEW s \in Slots, NEW meal \in Meals, NEW t \in Times, Consume(s, meal, t)
      PROVE  CallInv' /\ TableInv'
  <2>1. Alone(s) /\ calls' \in 0..MaxCalls /\ faults' = faults
    BY <1>5, BeginsAlone DEF Consume
  <2>2. Consumed(db, meal, t) \subseteq Fine(kept)
    BY <1>1, AllClosed, CallsKeep
  <2> QED BY <1>5, <2>1, <2>2, CommitsOneKeeps DEF Consume
<1>6. ASSUME NEW s \in Slots, NEW b \in Batches, Import(s, b) PROVE CallInv' /\ TableInv'
  <2>1. Alone(s) /\ calls' \in 0..MaxCalls /\ faults' = faults
    BY <1>6, BeginsAlone DEF Import
  <2>2. Imported(db, b) \subseteq Fine(kept)
    BY <1>1, ImportKeeps
  <2> QED BY <1>6, <2>1, <2>2, CommitsOneKeeps DEF Import
<1>7. ASSUME NEW s \in Slots, NEW i \in Items(db), NEW t \in Times, MarkOutOfStock(s, i, t)
      PROVE  CallInv' /\ TableInv'
  <2>1. Alone(s) /\ calls' \in 0..MaxCalls /\ faults' = faults
    BY <1>7, BeginsAlone DEF MarkOutOfStock
  <2>2. {Use(Result(db), i, t, db)} \subseteq Fine(kept)
    BY <1>1, MarkKeeps
  <2> QED BY <1>7, <2>1, <2>2, CommitsOneKeeps DEF MarkOutOfStock
<1>8. ASSUME NEW s \in Slots, NEW i \in Items(db), NEW t \in Items(db), Merge(s, i, t)
      PROVE  CallInv' /\ TableInv'
  <2>1. Alone(s) /\ calls' \in 0..MaxCalls /\ faults' = faults
    BY <1>8, BeginsAlone DEF Merge
  <2>2. PICK e : e = Merged(db, i, t)
    OBVIOUS
  <2>3. Sound(e) /\ Items(e) = Items(db) \ {i} /\ \A k : Held(db, k) => Held(e, k)
    BY <1>1, <1>8, <2>2, MergeKeeps DEF Merge
  <2>4. {t} \subseteq Items(e) /\ Commits(s, e, {}, {t})
    BY <1>8, <2>2, <2>3 DEF Merge
  <2> QED BY <1>1, <2>1, <2>3, <2>4, CommitKeeps
<1>9. ASSUME NEW s \in Slots, NEW r \in db.bought, DeletePurchase(s, r) PROVE CallInv' /\ TableInv'
  <2>1. Alone(s) /\ calls' \in 0..MaxCalls /\ faults' = faults
    BY <1>9, BeginsAlone DEF DeletePurchase
  <2>2. r.item \in Ids
    BY <1>1 DEF Sound, Dbs, Rows
  <2>3. Recalc({r.item}) \in Recalcs
    BY <2>2 DEF Recalc, Recalcs, NoRow, StockRows
  <2>4. CallInv'
    BY <1>9, <2>1, <2>3, CallStays DEF DeletePurchase
  <2>5. Sound(db') /\ \A k : Held(db, k) => Held(db', k) \/ (k[1] \in r.filed /\ Day(r.at) = k[2])
    BY <1>1, <1>9, PurchaseDeletedKeeps DEF DeletePurchase
  <2>6. \A k \in kept' : k \in kept /\ ~ (k[1] \in r.filed /\ Day(r.at) = k[2])
    BY <1>1, <1>9 DEF DeletePurchase
  <2> QED BY <1>1, <2>4, <2>5, <2>6 DEF TableInv
<1>10. ASSUME NEW s \in Slots, NEW i \in Items(db), DeleteItem(s, i) PROVE CallInv' /\ TableInv'
  <2>1. calls' \in 0..MaxCalls /\ faults' = faults /\ call' = call
    BY <1>10, BeginsAlone DEF DeleteItem
  <2>2. /\ Sound(db')
        /\ \A k : Held(db, k) =>
             Held(db', k) \/ \E r \in db.bought : r.item = i /\ k[1] \in r.filed /\ Day(r.at) = k[2]
    BY <1>1, <1>10, ItemDeletedKeeps DEF DeleteItem
  <2>3. \A k \in kept' :
          k \in kept /\ \A r \in db.bought : ~ (r.item = i /\ k[1] \in r.filed /\ Day(r.at) = k[2])
    BY <1>1, <1>10 DEF DeleteItem
  <2>4. TableInv'
    BY <1>1, <2>2, <2>3 DEF TableInv
  <2> QED BY <2>1, <2>4 DEF CallInv
<1>11. ASSUME NEW s \in Slots, NEW i \in Items(db), NEW n \in Names, AddAlias(s, i, n)
       PROVE  CallInv' /\ TableInv'
  BY <1>1, <1>11, AliasAddedKeeps, EditKeeps DEF AddAlias, Edits
<1>12. ASSUME NEW s \in Slots, NEW i \in Items(db), NEW n \in Names, Rename(s, i, n)
       PROVE  CallInv' /\ TableInv'
  BY <1>1, <1>12, RenamedKeeps, EditKeeps DEF Rename, Edits
<1>13. ASSUME NEW s \in Slots, NEW i \in Items(db), NEW u \in Upcs, SetPreferred(s, i, u)
       PROVE  CallInv' /\ TableInv'
  <2>1. Begins(s) /\ UNCHANGED <<kept, call>> /\ db' = [db EXCEPT !.pref[i] = u, !.pinned[i] = TRUE]
    BY <1>13 DEF SetPreferred, Edits
  <2>2. Sound(db') /\ Alike(db, db')
    BY <1>1, <1>13, <2>1, PreferKeeps DEF SetPreferred, Coded, Unmoved
  <2> QED BY <2>1, <2>2, AlikeHolds, EditKeeps
<1>14. ASSUME NEW s \in Slots, NEW i \in Items(db), ClearPreferred(s, i) PROVE CallInv' /\ TableInv'
  <2>1. Begins(s) /\ UNCHANGED <<kept, call>> /\ db' = [db EXCEPT !.pref[i] = NoUpc, !.pinned[i] = FALSE]
    BY <1>14 DEF ClearPreferred, Edits
  <2>2. Sound(db') /\ Alike(db, db')
    BY <1>1, <2>1, PreferKeeps DEF Coded, Unmoved
  <2> QED BY <2>1, <2>2, AlikeHolds, EditKeeps
<1>15. ASSUME NEW s \in Slots, NEW i \in Items(db), Deactivate(s, i) PROVE CallInv' /\ TableInv'
  <2>1. Begins(s) /\ UNCHANGED <<kept, call>> /\ db' = [db EXCEPT !.tracked[i] = FALSE]
    BY <1>15 DEF Deactivate, Edits
  <2>2. Sound(db') /\ SameTables(db, db') /\ Alike(db, db')
    BY <1>1, <2>1, ShowKeeps DEF Items, SameTables, Alike
  <2> QED BY <2>1, <2>2, AlikeHolds, EditKeeps
<1>16. ASSUME NEW s \in Slots, NEW n \in Names, RemoveAlias(s, n) PROVE CallInv' /\ TableInv'
  <2>1. calls' \in 0..MaxCalls /\ faults' = faults /\ call' = call
    BY <1>16, BeginsAlone DEF RemoveAlias
  <2>2. Sound(db') /\ \A k : Held(db, k) /\ k[1] # n => Held(db', k)
    <3>1. db' = Unaliased(db, n)
      BY <1>16 DEF RemoveAlias, Unaliased
    <3> QED BY <1>1, <3>1, AliasRemovedKeeps
  <2>3. \A k \in kept' : k \in kept /\ k[1] # n
    BY <1>16 DEF RemoveAlias
  <2>4. TableInv'
    BY <1>1, <2>2, <2>3 DEF TableInv
  <2> QED BY <2>1, <2>4 DEF CallInv
<1>17. ASSUME NEW s \in Slots, NEW i \in Ids, RecalcReads(s, i) PROVE CallInv' /\ TableInv'
  <2>1. call[s] \in Recalcs /\ call[s] # Idle
    BY <1>17, CallKinds DEF RecalcReads, Idle
  <2>2. Alone(s) /\ calls' \in 0..MaxCalls /\ faults' = faults /\ UNCHANGED <<db, kept>>
    BY <1>17, <2>1, BusyAlone DEF RecalcReads, CallInv
  <2>3. PICK c, row, had : /\ c = [call[s] EXCEPT !.item = i, !.row = row, !.had = had]
                           /\ row = Derived(db, i) /\ had = (db.stock[i] # NoRow)
    OBVIOUS
  <2>4. row \in StockRows /\ had \in BOOLEAN
    BY <1>1, <2>3, DerivedTyped DEF Sound
  <2>5. c \in Recalcs
    BY <2>1, <2>3, <2>4 DEF Recalcs
  <2>6. Without(call[s], i) \in {Idle} \cup Recalcs
    BY <2>1, WithoutTyped
  <2>7. call' = [call EXCEPT ![s] = IF Purchases(db, i) = {} THEN Without(call[s], i) ELSE c]
    BY <1>17, <2>3 DEF RecalcReads
  <2>8. CallInv'
    BY <2>2, <2>5, <2>6, <2>7, CallStays
  <2> QED BY <2>2, <2>8 DEF TableInv
<1>18. ASSUME NEW s \in Slots, RecalcWrites(s) PROVE CallInv' /\ TableInv'
  <2>1. call[s] \in Recalcs /\ call[s] # Idle
    BY <1>18, CallKinds DEF RecalcWrites, Idle
  <2>2. Alone(s) /\ calls' \in 0..MaxCalls /\ faults' = faults /\ kept' = kept
    BY <1>18, <2>1, BusyAlone DEF RecalcWrites, CallInv
  <2>3. PICK i : i = call[s].item
    OBVIOUS
  <2>4. i \in Ids /\ call[s].row \in StockRows
    BY <1>18, <2>1, <2>3 DEF RecalcWrites, Recalcs
  <2>5. CASE i \in Items(db) /\ db' = [db EXCEPT !.stock[i] = call[s].row]
                /\ call' = [call EXCEPT ![s] = Without(call[s], i)]
    <3>1. Without(call[s], i) \in {Idle} \cup Recalcs
      BY <2>1, <2>4, WithoutTyped
    <3>2. CallInv'
      BY <2>2, <2>5, <3>1, CallStays
    <3>3. Sound(db') /\ Alike(db, db')
      BY <1>1, <2>4, <2>5, StockKeeps DEF Restocked
    <3>4. \A k : Held(db, k) => Held(db', k)
      BY <3>3, AlikeHolds
    <3> QED BY <1>1, <2>2, <3>2, <3>3, <3>4 DEF TableInv
  <2>6. CASE db' = db /\ call' = [call EXCEPT ![s] = Idle]
    <3>1. CallInv'
      BY <2>2, <2>6, CallStays
    <3> QED BY <2>2, <2>6, <3>1 DEF TableInv
  <2> QED BY <1>18, <2>3, <2>5, <2>6 DEF RecalcWrites
<1>19. CASE Crash
  <2>1. call' = [s \in Slots |-> Idle] /\ UNCHANGED <<db, kept, calls, faults>>
    BY <1>19 DEF Crash
  <2>2. CallInv'
    BY <2>1 DEF CallInv, Slots, Idle
  <2> QED BY <2>1, <2>2 DEF TableInv
<1>20. CASE UNCHANGED vars
  BY <1>20 DEF vars, CallInv, TableInv
<1> QED
  BY <1>2, <1>3, <1>4, <1>5, <1>6, <1>7, <1>8, <1>9, <1>10, <1>11, <1>12, <1>13, <1>14, <1>15,
     <1>16, <1>17, <1>18, <1>19, <1>20 DEF Next

LEMMA FaultsStay == ASSUME [Next]_vars PROVE faults' = faults
<1>1. \A s : Begins(s) => faults' = faults
  BY DEF Begins
<1>2. ASSUME NEW s, NEW ds, Edits(s, ds) PROVE faults' = faults
  BY <1>1, <1>2 DEF Edits
<1>3. ASSUME NEW s, NEW n, RemoveAlias(s, n) PROVE faults' = faults
  BY <1>1, <1>3 DEF RemoveAlias
<1>4. ASSUME NEW s, NEW i, RecalcReads(s, i) \/ RecalcWrites(s) \/ RecordWrites(s)
      PROVE  faults' = faults
  BY <1>4 DEF RecalcReads, RecalcWrites, RecordWrites
<1>5. ASSUME NEW s, NEW i, NEW t,
             \/ Record(s, i, t) \/ RecordLooks(s, i, t) \/ Consume(s, i, t) \/ Import(s, i)
             \/ MarkOutOfStock(s, i, t) \/ Merge(s, i, t) \/ DeletePurchase(s, i) \/ DeleteItem(s, i)
      PROVE  faults' = faults
  BY <1>1, <1>5 DEF Record, RecordLooks, Consume, Import, MarkOutOfStock, Merge, DeletePurchase, DeleteItem
<1>6. ASSUME NEW s, NEW i, NEW n,
             \/ AddAlias(s, i, n) \/ Rename(s, i, n) \/ SetPreferred(s, i, n)
             \/ Deactivate(s, i) \/ ClearPreferred(s, i)
      PROVE  faults' = faults
  BY <1>2, <1>6 DEF AddAlias, Rename, SetPreferred, Deactivate, ClearPreferred
<1>7. Crash \/ UNCHANGED vars => faults' = faults
  BY DEF Crash, vars
<1> QED BY <1>3, <1>4, <1>5, <1>6, <1>7 DEF Next

\* A flag or a preference is no name, purchase or row.
LEMMA FlagsStep ==
    ASSUME Sound(db), NEW s, NEW i \in Items(db),
           Deactivate(s, i) \/ ClearPreferred(s, i) \/ \E u \in Upcs : SetPreferred(s, i, u)
    PROVE  Begins(s) /\ call' = call /\ Unmoved(db, db')
<1>1. CASE Deactivate(s, i)
  <2>1. Begins(s) /\ call' = call /\ db' = [db EXCEPT !.tracked[i] = FALSE]
    BY <1>1 DEF Deactivate, Edits
  <2> QED BY <2>1, ShowKeeps DEF Items, SameTables, Alike, Unmoved
<1>2. ASSUME NEW u \in Coded, NEW b \in BOOLEAN, u # NoUpc => db.product[u] = i,
             Edits(s, {[db EXCEPT !.pref[i] = u, !.pinned[i] = b]})
      PROVE  Begins(s) /\ call' = call /\ Unmoved(db, db')
  <2>1. Begins(s) /\ call' = call /\ db' = [db EXCEPT !.pref[i] = u, !.pinned[i] = b]
    BY <1>2 DEF Edits
  <2> QED BY <1>2, <2>1, PreferKeeps
<1>3. CASE ClearPreferred(s, i)
  BY <1>2, <1>3 DEF ClearPreferred, Coded
<1>4. CASE \E u \in Upcs : SetPreferred(s, i, u)
  BY <1>2, <1>4 DEF SetPreferred, Coded
<1> QED BY <1>1, <1>3, <1>4

\* A name leads to its item, and to one item.
LEMMA NamesStep ==
    ASSUME AliasesApart, CallInv, TableInv, NameInv, [Next]_vars
    PROVE  NameInv'
<1> SUFFICES ASSUME "overlap" \notin faults PROVE Apart(db') /\ Leading(db')
  BY FaultsStay DEF NameInv
<1>1. Sound(db) /\ Apart(db) /\ Leading(db)
  BY DEF TableInv, NameInv
<1>2. Result(db) \in Led(kept, {}) /\ Closed(Led(kept, {}))
  BY <1>1, ResultIsFine, AllClosed DEF TableInv
<1>3. ASSUME NEW s, NEW rs, rs \subseteq Led(kept, {}), CommitsOne(s, rs) PROVE Apart(db') /\ Leading(db')
  BY <1>3 DEF CommitsOne, Commits, Led
<1>4. ASSUME NEW s \in Slots, NEW receipt \in Receipts, NEW t \in Times, Record(s, receipt, t)
      PROVE  Apart(db') /\ Leading(db')
  BY <1>2, <1>3, <1>4, CallsKeep DEF Record
<1>5. ASSUME NEW s \in Slots, RecordWrites(s) PROVE FALSE
  BY <1>5 DEF RecordWrites, CallInv, Slots, Idle
<1>6. ASSUME NEW s \in Slots, NEW meal \in Meals, NEW t \in Times, Consume(s, meal, t)
      PROVE  Apart(db') /\ Leading(db')
  BY <1>2, <1>3, <1>6, CallsKeep DEF Consume
<1>7. ASSUME NEW s \in Slots, NEW b \in Batches, Import(s, b) PROVE Apart(db') /\ Leading(db')
  BY <1>2, <1>3, <1>7, ImportLeads DEF Import
<1>8. ASSUME NEW s \in Slots, NEW i \in Items(db), NEW t \in Times, MarkOutOfStock(s, i, t)
      PROVE  Apart(db') /\ Leading(db')
  <2>1. Result(db) \in Led(kept, {}) => {Use(Result(db), i, t, db)} \subseteq Led(kept, {})
    BY MarkKeeps
  <2> QED BY <1>2, <1>3, <1>8, <2>1 DEF MarkOutOfStock
<1>9. ASSUME NEW s \in Slots, NEW i \in Items(db), NEW t \in Items(db), Merge(s, i, t)
      PROVE  Apart(db') /\ Leading(db')
  BY <1>1, <1>9, MergeKeeps DEF Merge, Commits
<1>10. ASSUME NEW s \in Slots, NEW r \in db.bought, DeletePurchase(s, r)
       PROVE  Apart(db') /\ Leading(db')
  BY <1>1, <1>10, PurchaseDeletedKeeps DEF DeletePurchase
<1>11. ASSUME NEW s \in Slots, NEW i \in Items(db), DeleteItem(s, i) PROVE Apart(db') /\ Leading(db')
  BY <1>1, <1>11, ItemDeletedKeeps DEF DeleteItem
<1>12. ASSUME NEW s \in Slots, NEW i \in Items(db), NEW n \in Names, AddAlias(s, i, n)
       PROVE  Apart(db') /\ Leading(db')
  BY <1>1, <1>12, AliasAddedKeeps DEF AddAlias, Edits
<1>13. ASSUME NEW s \in Slots, NEW i \in Items(db), NEW n \in Names, Rename(s, i, n)
       PROVE  Apart(db') /\ Leading(db')
  BY <1>1, <1>13, RenamedKeeps DEF Rename, Edits
<1>14. ASSUME NEW s \in Slots, NEW n \in Names, RemoveAlias(s, n) PROVE Apart(db') /\ Leading(db')
  <2>1. db' = Unaliased(db, n)
    BY <1>14 DEF RemoveAlias, Unaliased
  <2> QED BY <1>1, <2>1, AliasRemovedKeeps
<1>15. ASSUME Alike(db, db') PROVE Apart(db') /\ Leading(db')
  BY <1>1, <1>15, AlikeHolds
<1>16. ASSUME NEW s \in Slots, NEW i \in Items(db),
              Deactivate(s, i) \/ ClearPreferred(s, i) \/ \E u \in Upcs : SetPreferred(s, i, u)
       PROVE  Alike(db, db')
  BY <1>1, <1>16, FlagsStep DEF Unmoved
<1>17. ASSUME NEW s \in Slots, RecalcWrites(s) PROVE Alike(db, db')
  BY <1>1, <1>17 DEF RecalcWrites, Alike, Sound, Dbs
<1>18. ASSUME UNCHANGED db PROVE Alike(db, db')
  BY <1>18 DEF Alike
<1>19. ASSUME NEW s \in Slots,
              \/ \E receipt \in Receipts, t \in Times : RecordLooks(s, receipt, t)
              \/ \E i \in Ids : RecalcReads(s, i)
       PROVE  UNCHANGED db
  BY <1>19 DEF RecordLooks, RecalcReads
<1>20. Crash \/ UNCHANGED vars => UNCHANGED db
  BY DEF Crash, vars
<1> QED
  BY <1>4, <1>5, <1>6, <1>7, <1>8, <1>9, <1>10, <1>11, <1>12, <1>13, <1>14, <1>15, <1>16, <1>17,
     <1>18, <1>19, <1>20 DEF Next

\* Tables whose rows are all current, or of items that the call will recalculate.
LEMMA RowsToDo ==
    ASSUME NEW touched, call'[1] = IF touched = {} THEN Idle ELSE Recalc(touched),
           touched \subseteq Items(db'), \A i \in Ids \ touched : Current(db', i)
    PROVE  RowInv'
<1>1. CASE touched = {}
  BY <1>1 DEF RowInv, Idle
<1>2. CASE touched # {}
  BY <1>2 DEF RowInv, Recalc
<1> QED BY <1>1, <1>2

\* One call, one slot, and no crash: what it has not recalculated yet is all
\* that may differ.
LEMMA RowsStep ==
    ASSUME CallInv, TableInv, RowInv, [Next]_vars
    PROVE  RowInv'
<1> SUFFICES ASSUME faults = {} PROVE RowInv'
  BY FaultsStay DEF RowInv
<1>1. Sound(db) /\ call \in [Slots -> {Idle} \cup Looked \cup Recalcs] /\ 1 \in Slots
  BY DEF TableInv, CallInv, Slots
<1>2. ASSUME NEW s \in Slots, Begins(s)
      PROVE  s = 1 /\ call[1] = Idle /\ \A i \in Ids : Current(db, i)
  <2>1. s = 1 /\ call[1] = Idle
    BY <1>2, BeginsAlone DEF Alone
  <2> QED BY <2>1 DEF RowInv, Idle
<1>3. ASSUME NEW s \in Slots, call[s] # Idle PROVE s = 1
  BY <1>3 DEF CallInv, Slots
<1>4. ASSUME NEW s \in Slots, Begins(s) PROVE Result(db) \in Followed(kept)
  BY <1>1, <1>2, <1>4, ResultIsFine DEF TableInv
<1>5. ASSUME NEW s \in Slots, Begins(s), NEW rs, rs \subseteq Followed(kept), CommitsOne(s, rs)
      PROVE  RowInv'
  <2>1. PICK r \in rs : Commits(s, r.db, r.filed, r.touched)
    BY <1>5 DEF CommitsOne
  <2>2. s = 1 /\ db' = r.db /\ call'[1] = IF r.touched = {} THEN Idle ELSE Recalc(r.touched)
    BY <1>1, <1>2, <1>5, <2>1 DEF Commits
  <2>3. r.touched \subseteq Items(r.db) /\ \A i \in Ids \ r.touched : Current(r.db, i)
    BY <1>5 DEF Followed, Fine
  <2> QED BY <2>2, <2>3, RowsToDo
<1>6. ASSUME NEW s \in Slots, Begins(s), call' = call, \A i \in Ids : Current(db, i) => Current(db', i)
      PROVE  RowInv'
  BY <1>2, <1>6 DEF RowInv, Idle
<1>7. ASSUME NEW s \in Slots, NEW receipt \in Receipts, NEW t \in Times, Record(s, receipt, t)
      PROVE  RowInv'
  BY <1>4, <1>5, <1>7, AllClosed, CallsKeep DEF Record
<1>8. ASSUME NEW s \in Slots, RecordWrites(s) PROVE FALSE
  BY <1>8 DEF RecordWrites, CallInv, Slots, Idle
<1>9. ASSUME NEW s \in Slots, NEW meal \in Meals, NEW t \in Times, Consume(s, meal, t) PROVE RowInv'
  BY <1>4, <1>5, <1>9, AllClosed, CallsKeep DEF Consume
<1>10. ASSUME NEW s \in Slots, NEW b \in Batches, Import(s, b) PROVE RowInv'
  BY <1>4, <1>5, <1>10, ImportKeeps DEF Import
<1>11. ASSUME NEW s \in Slots, NEW i \in Items(db), NEW t \in Times, MarkOutOfStock(s, i, t)
       PROVE  RowInv'
  <2>1. Result(db) \in Followed(kept) => {Use(Result(db), i, t, db)} \subseteq Followed(kept)
    BY MarkKeeps
  <2> QED BY <1>4, <1>5, <1>11, <2>1 DEF MarkOutOfStock
<1>12. ASSUME NEW s \in Slots, NEW i \in Items(db), NEW t \in Items(db), Merge(s, i, t) PROVE RowInv'
  <2>1. PICK e : e = Merged(db, i, t)
    OBVIOUS
  <2>2. Items(e) = Items(db) \ {i} /\ \A j \in Ids \ {t} : Current(db, j) => Current(e, j)
    BY <1>1, <1>12, <2>1, MergeKeeps DEF Merge
  <2>3. s = 1 /\ \A j \in Ids : Current(db, j)
    BY <1>2, <1>12 DEF Merge
  <2>4. db' = e /\ call'[1] = Recalc({t}) /\ i # t
    BY <1>1, <1>12, <2>1, <2>3 DEF Merge, Commits
  <2>5. \A j \in Ids \ {t} : Current(db', j)
    BY <2>2, <2>3, <2>4
  <2> QED BY <2>2, <2>4, <2>5, RowsToDo
<1>13. ASSUME NEW s \in Slots, NEW r \in db.bought, DeletePurchase(s, r) PROVE RowInv'
  <2>1. Items(db') = Items(db) /\ \A j \in Ids \ {r.item} : Current(db, j) => Current(db', j)
    BY <1>1, <1>13, PurchaseDeletedKeeps DEF DeletePurchase
  <2>2. s = 1 /\ \A j \in Ids : Current(db, j)
    BY <1>2, <1>13 DEF DeletePurchase
  <2>3. call'[1] = Recalc({r.item}) /\ r.item \in Items(db)
    BY <1>1, <1>13, <2>2 DEF DeletePurchase, Sound, Keyed
  <2>4. \A j \in Ids \ {r.item} : Current(db', j)
    BY <2>1, <2>2
  <2> QED BY <2>1, <2>3, <2>4, RowsToDo
<1>14. ASSUME NEW s \in Slots, NEW i \in Items(db), DeleteItem(s, i) PROVE RowInv'
  BY <1>1, <1>6, <1>14, ItemDeletedKeeps DEF DeleteItem
<1>15. ASSUME NEW s \in Slots, NEW i \in Items(db), NEW n \in Names, AddAlias(s, i, n) PROVE RowInv'
  BY <1>1, <1>6, <1>15, AliasAddedKeeps DEF AddAlias, Edits
<1>16. ASSUME NEW s \in Slots, NEW i \in Items(db), NEW n \in Names, Rename(s, i, n) PROVE RowInv'
  BY <1>1, <1>6, <1>16, RenamedKeeps DEF Rename, Edits
<1>17. ASSUME NEW s \in Slots, NEW n \in Names, RemoveAlias(s, n) PROVE RowInv'
  <2>1. db' = Unaliased(db, n) /\ Begins(s) /\ call' = call
    BY <1>17 DEF RemoveAlias, Unaliased
  <2> QED BY <1>1, <1>6, <2>1, AliasRemovedKeeps
<1>18. ASSUME NEW s \in Slots, NEW i \in Items(db),
              Deactivate(s, i) \/ ClearPreferred(s, i) \/ \E u \in Upcs : SetPreferred(s, i, u)
       PROVE  RowInv'
  <2>1. /\ Begins(s) /\ call' = call
        /\ Alike(db, db') /\ db'.used = db.used /\ db'.stock = db.stock
    BY <1>1, <1>18, FlagsStep DEF Unmoved
  <2>2. \A j : Purchases(db', j) = Purchases(db, j)
    BY <2>1, AlikeHolds
  <2>3. \A j \in Ids : Current(db, j) => Current(db', j)
    BY <2>1, <2>2, CurrentStays
  <2> QED BY <1>6, <2>1, <2>3
<1>19. ASSUME NEW s \in Slots, NEW i \in Ids, RecalcReads(s, i) PROVE RowInv'
  <2>1. call[s] \in Recalcs /\ s = 1
    BY <1>3, <1>19, CallKinds DEF RecalcReads, Idle
  <2>2. PICK c : c = call[1]
    OBVIOUS
  <2>3. /\ c \in Recalcs /\ c.at = "recalc" /\ c.item = 0 /\ i \in c.todo /\ c.todo \subseteq Items(db)
        /\ \A j \in Ids : Current(db, j) \/ j \in c.todo
    BY <1>19, <2>1, <2>2 DEF RecalcReads, RowInv, Recalcs
  <2>4. CASE Purchases(db, i) = {}
    <3>1. db' = db /\ call'[1] = Without(c, i)
      BY <1>1, <1>19, <2>1, <2>2, <2>4 DEF RecalcReads
    <3>2. Current(db, i)
      BY <2>4 DEF Current
    <3>3. PICK touched : touched = c.todo \ {i}
      OBVIOUS
    <3>4. call'[1] = IF touched = {} THEN Idle ELSE Recalc(touched)
      BY <2>3, <3>1, <3>3 DEF Without
    <3> QED BY <2>3, <3>1, <3>2, <3>3, <3>4, RowsToDo
  <2>5. CASE Purchases(db, i) # {}
    <3>1. PICK row, had : row = Derived(db, i) /\ had = (db.stock[i] # NoRow)
      OBVIOUS
    <3>2. db' = db /\ call'[1] = [c EXCEPT !.item = i, !.row = row, !.had = had]
      BY <1>1, <1>19, <2>1, <2>2, <2>5, <3>1 DEF RecalcReads
    <3>3. /\ call'[1].at = "recalc" /\ call'[1].todo = c.todo /\ call'[1].item = i
          /\ call'[1].row = row /\ call'[1].had = had
      BY <2>3, <3>2 DEF Recalcs
    <3> QED BY <2>3, <3>1, <3>2, <3>3 DEF RowInv
  <2> QED BY <2>4, <2>5
<1>20. ASSUME NEW s \in Slots, RecalcWrites(s) PROVE RowInv'
  <2>1. call[s] \in Recalcs /\ s = 1
    BY <1>3, <1>20, CallKinds DEF RecalcWrites, Idle
  <2>2. PICK c, i : c = call[1] /\ i = c.item
    OBVIOUS
  <2>3. /\ c \in Recalcs /\ i # 0 /\ i \in c.todo /\ c.todo \subseteq Items(db) /\ c.row = Derived(db, i)
        /\ c.had <=> db.stock[i] # NoRow
        /\ \A j \in Ids : Current(db, j) \/ j \in c.todo
    BY <1>20, <2>1, <2>2 DEF RecalcWrites, RowInv
  <2>4. db' = [db EXCEPT !.stock[i] = c.row] /\ call'[1] = Without(c, i)
    BY <1>1, <1>20, <2>1, <2>2, <2>3 DEF RecalcWrites
  <2>5. c.row \in StockRows /\ i \in Items(db) /\ i \in Ids
    BY <2>3 DEF Recalcs
  <2>6. /\ Alike(db, db') /\ db'.used = db.used
        /\ \A j \in Ids : db'.stock[j] = IF j = i THEN c.row ELSE db.stock[j]
    <3>1. Restocked(db, db', i, c.row)
      BY <1>1, <2>3, <2>4, <2>5, StockKeeps
    <3> QED BY <3>1 DEF Restocked
  <2>7. Items(db') = Items(db) /\ \A j : Purchases(db', j) = Purchases(db, j)
    BY <2>6, AlikeHolds
  <2>8. Current(db', i)
    <3>1. Derived(db', i) = Derived(db, i)
      BY <2>6, <2>7 DEF Derived
    <3> QED BY <2>3, <2>5, <2>6, <3>1 DEF Current
  <2>9. \A j \in Ids \ {i} : Current(db, j) => Current(db', j)
    BY <2>6, <2>7, CurrentStays
  <2>10. PICK touched : touched = c.todo \ {i}
    OBVIOUS
  <2>11. call'[1] = IF touched = {} THEN Idle ELSE Recalc(touched)
    BY <2>3, <2>4, <2>10 DEF Without
  <2> QED BY <2>3, <2>7, <2>8, <2>9, <2>10, <2>11, RowsToDo
<1>21. ASSUME NEW s \in Slots, NEW receipt \in Receipts, NEW t \in Times, RecordLooks(s, receipt, t)
       PROVE  FALSE
  BY <1>21 DEF RecordLooks
<1>22. Crash => FALSE
  BY DEF Crash
<1>23. CASE UNCHANGED vars
  BY <1>23 DEF vars, RowInv
<1> QED
  BY <1>7, <1>8, <1>9, <1>10, <1>11, <1>12, <1>13, <1>14, <1>15, <1>16, <1>17, <1>18, <1>19,
     <1>20, <1>21, <1>22, <1>23 DEF Next

-----------------------------------------------------------------------------
(* The theorems *)

LEMMA Start == ASSUME Init PROVE CallInv /\ TableInv /\ NameInv /\ RowInv
<1>1. Sound(db) /\ db.bought = {} /\ Items(db) = {}
  <2>1. NoRow \in StockRows /\ 0 \notin Ids
    BY DEF NoRow, StockRows, Ids
  <2>2. db \in Dbs
    BY <2>1 DEF Init, Dbs, Coded, Rows
  <2>3. Items(db) = {}
    BY DEF Init, Items
  <2>4. Keyed(db) /\ Owning(db) /\ db.bought = {}
    BY <2>3 DEF Init, Keyed, Owning
  <2> QED BY <2>2, <2>3, <2>4 DEF Sound
<1>2. CallInv
  BY PantryAssumption DEF Init, CallInv, Slots, Idle, FaultKinds
<1>3. TableInv
  BY <1>1 DEF Init, TableInv
<1>4. NameInv
  BY <1>1 DEF NameInv, Apart, Leading
<1>5. RowInv
  <2>1. \A i : Purchases(db, i) = {}
    BY <1>1 DEF Purchases
  <2> QED BY <2>1 DEF Init, RowInv, Current, Slots, Idle
<1> QED BY <1>2, <1>3, <1>4, <1>5

\* The two parts that every call keeps, whatever overlaps and dies.
THEOREM TablesKeep == Spec => [](CallInv /\ TableInv)
<1>1. Init => CallInv /\ TableInv
  BY Start
<1>2. (CallInv /\ TableInv) /\ [Next]_vars => (CallInv /\ TableInv)'
  BY TablesStep
<1> QED BY <1>1, <1>2, PTL DEF Spec

\* TypeOK: the tables have their types and keys, through overlapping calls,
\* recalculations of what another call deleted, and crashes.
THEOREM TypeCorrect == Spec => []TypeOK
<1>1. CallInv /\ TableInv => TypeOK
  <2> SUFFICES ASSUME CallInv, TableInv PROVE TypeOK
    OBVIOUS
  <2>1. db \in Dbs /\ Keyed(db)
    BY DEF TableInv, Sound
  <2>2. /\ db.name \in [Ids -> Names \cup {NoName}]
        /\ db.tracked \in [Ids -> BOOLEAN] /\ db.pinned \in [Ids -> BOOLEAN]
        /\ db.pref \in [Ids -> Upcs \cup {NoUpc}]
        /\ db.used \in [Ids -> SUBSET Times]
        /\ db.stock \in [Ids -> StockRows]
        /\ db.bought \subseteq Rows
    BY <2>1 DEF Dbs, Coded
  <2>3. db.alias \in [Names -> Items(db) \cup {0}] /\ db.product \in [Upcs -> Items(db) \cup {0}]
    <3>1. db.alias \in [Names -> Ids \cup {0}] /\ db.product \in [Upcs -> Ids \cup {0}]
      BY <2>1 DEF Dbs
    <3> QED BY <2>1, <3>1 DEF Keyed
  <2>4. \A r \in db.bought : r.item \in Items(db) /\ OnDay(db, r.item, r.at) = {r}
    BY <2>1 DEF Keyed, OnDay
  <2>5. \A i \in Ids \ Items(db) : db.stock[i] = NoRow /\ db.used[i] = {}
    BY <2>1 DEF Keyed
  <2>6. kept \subseteq Names \X {Day(t) : t \in Times} /\ calls \in 0..MaxCalls /\ faults \subseteq FaultKinds
    BY DEF CallInv, TableInv, Days
  <2> QED BY <2>2, <2>3, <2>4, <2>5, <2>6 DEF TypeOK
<1> QED BY <1>1, TablesKeep, PTL

\* NothingLost: a line that nobody deleted stays in a purchase of its day,
\* through merges, same-day entries, renames, overlapping calls and crashes.
THEOREM NothingIsLost == Spec => []NothingLost
<1>1. TableInv => NothingLost
  BY DEF TableInv, NothingLost, Held, Holding
<1> QED BY <1>1, TablesKeep, PTL

\* ProductsOwn: a bar code on a purchase, and the one an item prefers, are the
\* item's own, whatever calls overlap.
THEOREM ProductsAreOwn == Spec => []ProductsOwn
<1>1. TableInv => ProductsOwn
  BY DEF TableInv, Sound, Owning, ProductsOwn, Items
<1> QED BY <1>1, TablesKeep, PTL

\* StockFollows: without overlaps and crashes an item's row is what its
\* purchases and consumptions make it, whenever no call is under way.
THEOREM StockIsFollowed == Spec => []StockFollows
<1> DEFINE Inv == CallInv /\ TableInv /\ RowInv
<1>1. Init => Inv
  BY Start
<1>2. Inv /\ [Next]_vars => Inv'
  BY TablesStep, RowsStep
<1>3. Inv => StockFollows
  BY DEF RowInv, StockFollows, AllIdle, Idle, Slots, Current, Items
<1> QED BY <1>1, <1>2, <1>3, PTL DEF Spec

LEMMA NamesKeep == ASSUME AliasesApart PROVE Spec => [](TableInv /\ NameInv)
<1> DEFINE Inv == CallInv /\ TableInv /\ NameInv
<1>1. Init => Inv
  BY Start
<1>2. Inv /\ [Next]_vars => Inv'
  BY TablesStep, NamesStep
<1> QED BY <1>1, <1>2, PTL DEF Spec

\* NamesApart: without overlaps no two items have one name and no alias is an
\* item's name, if the batches' aliases are not names of their own entries.
THEOREM NamesAreApart == ASSUME AliasesApart PROVE Spec => []NamesApart
<1>1. TableInv /\ NameInv => NamesApart
  BY DEF NameInv, NamesApart, Apart, FreeFor
<1> QED BY <1>1, NamesKeep, PTL

\* KeepsName: without overlaps the name a line was recorded under leads to the
\* item that holds it, and to no other, under the same condition.
THEOREM NameIsKept == ASSUME AliasesApart PROVE Spec => []KeepsName
<1>1. TableInv /\ NameInv => KeepsName
  <2> SUFFICES ASSUME TableInv, NameInv, "overlap" \notin faults, NEW k \in kept
               PROVE  {r.item : r \in Holding(k[1], k[2])} = {Resolve(db, k[1])}
    BY DEF KeepsName
  <2>1. Sound(db) /\ Apart(db) /\ Leading(db) /\ Held(db, k) /\ k[1] \in Names
    BY DEF TableInv, NameInv
  <2>2. PICK r \in db.bought : k[1] \in r.filed /\ Day(r.at) = k[2]
    BY <2>1 DEF Held
  <2>3. ASSUME NEW q \in Holding(k[1], k[2]) PROVE q.item = Resolve(db, k[1])
    <3>1. q \in db.bought /\ k[1] \in q.filed /\ q.item \in Items(db) /\ q.item # 0
      BY <2>1 DEF Holding, Sound, Keyed, Items, Ids
    <3>2. CASE db.name[q.item] = k[1]
      <4>1. q.item \in Named(db, k[1]) /\ Named(db, k[1]) \subseteq {q.item}
        BY <2>1, <3>1, <3>2 DEF Named, Apart
      <4> QED BY <2>1, <4>1, ResolveTyped DEF Sound
    <3>3. CASE db.alias[k[1]] = q.item
      <4>1. Named(db, k[1]) = {}
        BY <2>1, <3>1, <3>3 DEF Named, Apart
      <4> QED BY <2>1, <3>1, <3>3, <4>1, ResolveTyped DEF Sound
    <3> QED BY <2>1, <3>1, <3>2, <3>3 DEF Leading
  <2>4. r \in Holding(k[1], k[2])
    BY <2>2 DEF Holding
  <2> QED BY <2>3, <2>4
<1> QED BY <1>1, NamesKeep, PTL

=============================================================================
