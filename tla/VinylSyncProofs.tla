--------------------------- MODULE VinylSyncProofs ---------------------------
(***************************************************************************)
(* What no job takes away from the shelf, for any number of releases,      *)
(* calls, copies and events, whatever jobs overlap, fail or crash; and     *)
(* what a job that nothing overlaps leaves behind: a shelf that is the     *)
(* collection, and a page that shows what was done.                        *)
(***************************************************************************)
EXTENDS VinylSync, FiniteSetTheorems, SequenceTheorems, TLAPS

CallOps == {"none", "add", "remove", "lend", "return", "correct"}
CallArgs == [op : CallOps, rels : SUBSET Releases, note : BOOLEAN]
Removal == {"removing", "counts", "forget"}

\* Each job has a stage, a call that removes has its record, and a row that is
\* about to be stored is one.
Typed ==
    /\ pc \in [Jobs -> Stages]
    /\ arg \in [Calls -> CallArgs]
    /\ pend = [j \in Jobs |-> pend[j]]
    /\ albums \in [Shelved -> Filing]
    /\ \A c \in Calls : pc[c] \in Removal => arg[c].op = "remove" /\ arg[c].rels # {}
    /\ \A j \in Jobs : pc[j] = "art" => pend[j].album \in Filing

LEMMA InitTyped == Init => Typed
<1> SUFFICES ASSUME Init PROVE Typed
  OBVIOUS
<1>1. pc \in [Jobs -> Stages] /\ \A j \in Jobs : pc[j] = "idle"
  BY DEF Init, Stages
<1>2. NoArg \in CallArgs
  BY DEF NoArg, CallArgs, CallOps
<1>3. arg \in [Calls -> CallArgs] /\ pend = [j \in Jobs |-> pend[j]]
  BY <1>2 DEF Init
<1>4. Calls \subseteq Jobs
  BY DEF Jobs
<1>5. albums \in [Shelved -> Filing]
  <2>1. Shelved = {}
    BY DEF Init, Shelved
  <2> QED BY <2>1 DEF Init
<1> QED BY <1>1, <1>3, <1>4, <1>5 DEF Typed, Removal

-----------------------------------------------------------------------------
(* How a job goes on. *)

Advances ==
    \E j \in Jobs, from, to \in Stages :
        /\ Goes(j, from, to) /\ UNCHANGED arg
        /\ to \in Removal => from \in Removal
        /\ to = "art" => pend'[j].album \in Filing

IsCalled ==
    \E c \in Calls, op \in CallOps, rels \in SUBSET Releases, note \in BOOLEAN,
       stage \in Stages \ {"art", "counts", "forget"} :
        /\ Called(c, op, rels, note, stage)
        /\ stage = "removing" => op = "remove" /\ rels # {}

AllStop == pc' = [j \in Jobs |-> "idle"] /\ arg' = [c \in Calls |-> NoArg]

JobStep ==
    \/ Advances \/ IsCalled \/ AllStop
    \/ \E j \in Jobs : Ends(j)
    \/ UNCHANGED <<pc, arg>>

LEMMA JobGoes ==
    ASSUME Typed, JobStep
    PROVE  /\ pc' \in [Jobs -> Stages] /\ arg' \in [Calls -> CallArgs]
           /\ \A c \in Calls : pc'[c] \in Removal => arg'[c].op = "remove" /\ arg'[c].rels # {}
<1>0. Calls \subseteq Jobs /\ "idle" \in Stages /\ "idle" \notin Removal /\ NoArg \in CallArgs
  BY DEF Jobs, Stages, Removal, NoArg, CallArgs, CallOps
<1>1. CASE Advances
  BY <1>0, <1>1 DEF Advances, Goes, Typed
<1>2. CASE IsCalled
  <2>1. PICK c \in Calls, op \in CallOps, rels \in SUBSET Releases, note \in BOOLEAN,
              stage \in Stages \ {"art", "counts", "forget"} :
            /\ Called(c, op, rels, note, stage)
            /\ stage = "removing" => op = "remove" /\ rels # {}
    BY <1>2 DEF IsCalled
  <2>2. /\ pc' = [pc EXCEPT ![c] = stage]
        /\ arg' = [arg EXCEPT ![c] = [op |-> op, rels |-> rels, note |-> note]]
    BY <2>1 DEF Called, Begins
  <2>3. [op |-> op, rels |-> rels, note |-> note] \in CallArgs
    BY DEF CallArgs
  <2> QED BY <1>0, <2>1, <2>2, <2>3 DEF Typed, Removal
<1>3. CASE AllStop
  BY <1>0, <1>3 DEF AllStop
<1>4. ASSUME NEW j \in Jobs, Ends(j) PROVE
        /\ pc' \in [Jobs -> Stages] /\ arg' \in [Calls -> CallArgs]
        /\ \A c \in Calls : pc'[c] \in Removal => arg'[c].op = "remove" /\ arg'[c].rels # {}
  <2>1. pc' = [pc EXCEPT ![j] = "idle"] /\ (arg' = arg \/ arg' = [arg EXCEPT ![j] = NoArg])
    BY <1>4 DEF Ends
  <2>2. \A c \in Calls : c # j => arg'[c] = arg[c]
    BY <2>1 DEF Typed
  <2> QED BY <1>0, <2>1, <2>2 DEF Typed
<1>5. CASE UNCHANGED <<pc, arg>>
  BY <1>5 DEF Typed
<1> QED BY <1>1, <1>2, <1>3, <1>4, <1>5 DEF JobStep

\* A row that is made from an item is a row.
LEMMA RowsFiled ==
    ASSUME NEW o, NEW r, NEW note \in BOOLEAN, NEW row \in Rows(o, r, note)
    PROVE  row.album \in Filing
<1>1. PICK s \in Resolutions(o, CreditOf[r]) :
          row = [rel |-> {r},
                 album |-> [sort |-> s.sort, section |-> SectionOf(o, r, s.sort), note |-> note],
                 fresh |-> s.fresh]
  BY DEF Rows
<1>2. s.sort \in Sorts
  BY DEF Resolutions, Sorts
<1>3. SectionOf(o, r, s.sort) \in Sorts \cup {"moved"}
  BY <1>2 DEF SectionOf
<1> QED BY <1>1, <1>2, <1>3 DEF Filing

LEMMA SyncJobStep == ASSUME Typed, SyncStep PROVE JobStep
<1>0. Sync \in Jobs /\ {"list", "art", "enrich", "reads"} \subseteq Stages \ Removal
  BY DEF Jobs, Stages, Removal
<1>1. CASE SyncBegins
  <2>1. Goes(Sync, "idle", "list") /\ UNCHANGED arg
    BY <1>1 DEF SyncBegins, Begins, Goes
  <2>2. "idle" \in Stages
    BY DEF Stages
  <2> QED BY <1>0, <2>1, <2>2 DEF JobStep, Advances
<1>2. CASE ReadsPage
  BY <1>0, <1>2 DEF ReadsPage, JobStep, Advances
<1>3. CASE TakesItem
  <2>1. PICK row \in Rows(scan.overrides, Head(scan.todo), FALSE) :
            pend' = [pend EXCEPT ![Sync] = row]
    BY <1>3 DEF TakesItem
  <2>2. pend'[Sync].album \in Filing
    BY <1>0, <2>1, RowsFiled DEF Typed
  <2>3. Goes(Sync, "list", "art") /\ UNCHANGED arg
    BY <1>3 DEF TakesItem
  <2> QED BY <1>0, <2>2, <2>3 DEF JobStep, Advances
<1>4. CASE SyncStores
  BY <1>0, <1>4 DEF SyncStores, Stores, JobStep, Advances
<1>5. CASE DeletesUnseen
  BY <1>0, <1>5 DEF DeletesUnseen, JobStep, Advances
<1>6. CASE Enriches
  BY <1>6 DEF Enriches, JobStep
<1>7. CASE Enriched
  BY <1>0, <1>7 DEF Enriched, JobStep, Advances
<1>8. CASE SyncFails
  BY <1>0, <1>8 DEF SyncFails, JobStep
<1> QED BY <1>1, <1>2, <1>3, <1>4, <1>5, <1>6, <1>7, <1>8 DEF SyncStep

\* The calls of the tools.
CallBegins(c) ==
    \/ \E r \in Releases :
        \/ \E note \in Notes, allowDuplicate \in BOOLEAN : AddRecord(c, r, note, allowDuplicate)
        \/ RemoveRecord(c, r) \/ LendRecord(c, r) \/ ReturnRecord(c, r)
    \/ SetCorrection(c)

LEMMA CalledIs ==
    ASSUME NEW c \in Calls, NEW op \in CallOps, NEW rels \in SUBSET Releases, NEW note \in BOOLEAN,
           NEW stage \in Stages \ {"art", "counts", "forget"},
           Called(c, op, rels, note, stage), stage = "removing" => op = "remove" /\ rels # {}
    PROVE  IsCalled
BY DEF IsCalled

LEMMA CallIsCalled == ASSUME NEW c \in Calls, CallBegins(c) PROVE IsCalled
<1>0. /\ {"adding", "removing", "reads", "refile"} \subseteq Stages \ {"art", "counts", "forget"}
      /\ {"add", "remove", "lend", "return", "correct"} \subseteq CallOps
      /\ FALSE \in BOOLEAN /\ Notes \subseteq BOOLEAN
      /\ \A r \in Releases : {r} \in SUBSET Releases
  BY VinylAssumption DEF Stages, CallOps
<1>1. ASSUME NEW r \in Releases, NEW note \in Notes, NEW d \in BOOLEAN, AddRecord(c, r, note, d)
      PROVE  IsCalled
  <2>1. Called(c, "add", {r}, note, "adding") /\ note \in BOOLEAN
    BY <1>0, <1>1 DEF AddRecord
  <2> QED BY <1>0, <2>1, CalledIs
<1>2. ASSUME NEW r \in Releases, RemoveRecord(c, r) PROVE IsCalled
  <2>1. Called(c, "remove", {r}, FALSE, "removing")
    BY <1>2 DEF RemoveRecord
  <2> QED BY <1>0, <2>1, CalledIs
<1>3. ASSUME NEW r \in Releases, LendRecord(c, r) \/ ReturnRecord(c, r) PROVE IsCalled
  <2>1. Called(c, "lend", {r}, FALSE, "reads") \/ Called(c, "return", {r}, FALSE, "reads")
    BY <1>3 DEF LendRecord, ReturnRecord
  <2> QED BY <1>0, <2>1, CalledIs
<1>4. CASE SetCorrection(c)
  <2>1. PICK rels \in SUBSET Releases : Called(c, "correct", rels, FALSE, "refile")
    BY <1>4 DEF SetCorrection
  <2> QED BY <1>0, <2>1, CalledIs
<1> QED BY <1>1, <1>2, <1>3, <1>4 DEF CallBegins

LEMMA CallJobStep == ASSUME Typed, NEW c \in Calls, CallStep(c) PROVE JobStep
<1>0. /\ c \in Jobs /\ Removal \subseteq Stages
      /\ {"adding", "file", "art", "fetch", "reads", "refile"} \subseteq Stages \ Removal
      /\ {"removing", "counts", "forget"} = Removal
  BY DEF Jobs, Stages, Removal
<1>1. CASE CallBegins(c)
  BY <1>1, CallIsCalled DEF JobStep
<1>2. CASE Files(c)
  <2>1. PICK row \in Rows(overrides, The(c), arg[c].note) : pend' = [pend EXCEPT ![c] = row]
    BY <1>2 DEF Files
  <2>2. arg[c].note \in BOOLEAN
    BY DEF Typed, CallArgs
  <2>3. pend'[c].album \in Filing
    BY <1>0, <2>1, <2>2, RowsFiled DEF Typed
  <2>4. Goes(c, "file", "art") /\ UNCHANGED arg
    BY <1>2 DEF Files
  <2> QED BY <1>0, <2>3, <2>4 DEF JobStep, Advances
<1>3. CASE AddsCopy(c) \/ Fetches(c) \/ RefileAlbums(c)
  BY <1>0, <1>3 DEF AddsCopy, Fetches, RefileAlbums, JobStep, Advances
<1>4. CASE AddStores(c)
  BY <1>0, <1>4 DEF AddStores, Stores, JobStep, Advances
<1>5. CASE RemovesCopy(c) \/ LastCopy(c) \/ Forgets(c)
  BY <1>0, <1>5 DEF RemovesCopy, LastCopy, Forgets, JobStep, Advances
<1>6. CASE CopiesLeft(c) \/ CallFails(c)
  BY <1>0, <1>6 DEF CopiesLeft, CallFails, JobStep
<1> QED BY <1>1, <1>2, <1>3, <1>4, <1>5, <1>6 DEF CallStep, CallBegins

LEMMA OtherJobStep ==
    ASSUME (\E j \in Jobs : BundleStep(j)) \/ Starts \/ Crash \/ WebChange PROVE JobStep
<1>0. {"reads", "index", "details", "done"} \subseteq Stages \ (Removal \cup {"art"})
  BY DEF Stages, Removal
<1>1. ASSUME NEW j \in Jobs, BundleStep(j) PROVE JobStep
  <2>1. CASE ReadsRows(j) \/ WritesIndex(j) \/ WritesDetails(j)
    BY <1>0, <2>1 DEF ReadsRows, WritesIndex, WritesDetails, JobStep, Advances
  <2>2. CASE JobReturns(j) \/ LockTimesOut(j)
    BY <2>2 DEF JobReturns, LockTimesOut, JobStep
  <2> QED BY <1>1, <2>1, <2>2 DEF BundleStep
<1>2. CASE Starts \/ Crash \/ WebChange
  BY <1>2 DEF Starts, Crash, WebChange, AllStop, JobStep, jobVars
<1> QED BY <1>1, <1>2

LEMMA NextJobStep == ASSUME Typed, [Next]_vars PROVE JobStep
<1>1. CASE UNCHANGED vars
  BY <1>1 DEF vars, jobVars, JobStep
<1> QED BY <1>1, SyncJobStep, CallJobStep, OtherJobStep DEF Next

-----------------------------------------------------------------------------
(* The rows that are about to be stored, and those on the shelf. *)

PendStep ==
    \/ UNCHANGED pend
    \/ \E j \in Jobs : \E row :
        pend' = [pend EXCEPT ![j] = row] /\ (pc'[j] = "art" => row.album \in Filing)
    \/ pend' = [j \in Jobs |-> NoRow] /\ \A j \in Jobs : pc'[j] = "idle"

\* A job that comes to its end, or stores its row, has none about to be stored.
LEMMA PendEnds ==
    ASSUME Typed, NEW j \in Jobs,
           Ends(j) \/ \E to \in Stages \ {"art"} : Stores(j, to)
    PROVE  PendStep
<1>1. pend' = [pend EXCEPT ![j] = NoRow] /\ pc'[j] # "art"
  BY DEF Ends, Stores, Goes, Typed
<1> QED BY <1>1 DEF PendStep

LEMMA PendTakes ==
    ASSUME Typed, NEW j \in Jobs, NEW o, NEW r, NEW note \in BOOLEAN, NEW row \in Rows(o, r, note),
           pend' = [pend EXCEPT ![j] = row]
    PROVE  PendStep
BY RowsFiled DEF PendStep

LEMMA NextPendStep == ASSUME Typed, [Next]_vars PROVE PendStep
<1>0. Sync \in Jobs /\ Calls \subseteq Jobs /\ {"list", "fetch"} \subseteq Stages \ {"art"}
  BY DEF Jobs, Stages
<1>1. CASE UNCHANGED vars
  BY <1>1 DEF vars, jobVars, PendStep
<1>2. CASE SyncStep
  <2>1. CASE SyncFails
    BY <1>0, <2>1, PendEnds DEF SyncFails
  <2>2. CASE SyncStores
    BY <1>0, <2>2, PendEnds DEF SyncStores
  <2>3. CASE TakesItem
    BY <1>0, <2>3, PendTakes DEF TakesItem
  <2>4. CASE SyncBegins \/ ReadsPage \/ DeletesUnseen \/ Enriches \/ Enriched
    BY <2>4 DEF SyncBegins, ReadsPage, DeletesUnseen, Enriches, Enriched, PendStep
  <2> QED BY <1>2, <2>1, <2>2, <2>3, <2>4 DEF SyncStep
<1>3. ASSUME NEW c \in Calls, CallStep(c) PROVE PendStep
  <2>1. CASE CopiesLeft(c) \/ CallFails(c)
    BY <1>0, <2>1, PendEnds DEF CopiesLeft, CallFails
  <2>2. CASE AddStores(c)
    BY <1>0, <2>2, PendEnds DEF AddStores
  <2>3. CASE Files(c)
    <3>1. arg[c].note \in BOOLEAN
      BY DEF Typed, CallArgs
    <3> QED BY <1>0, <2>3, <3>1, PendTakes DEF Files
  <2>4. CASE CallBegins(c)
    <3>1. IsCalled
      BY <2>4, CallIsCalled
    <3> QED BY <3>1 DEF IsCalled, Called, PendStep
  <2>5. CASE \/ AddsCopy(c) \/ Fetches(c) \/ RemovesCopy(c) \/ LastCopy(c) \/ Forgets(c)
             \/ RefileAlbums(c)
    BY <2>5 DEF AddsCopy, Fetches, RemovesCopy, LastCopy, Forgets, RefileAlbums, PendStep
  <2> QED BY <1>3, <2>1, <2>2, <2>3, <2>4, <2>5 DEF CallStep, CallBegins
<1>4. ASSUME NEW j \in Jobs, BundleStep(j) PROVE PendStep
  <2>1. CASE ReadsRows(j) \/ WritesIndex(j) \/ WritesDetails(j)
    BY <2>1 DEF ReadsRows, WritesIndex, WritesDetails, PendStep
  <2>2. CASE JobReturns(j) \/ LockTimesOut(j)
    BY <2>2, PendEnds DEF JobReturns, LockTimesOut
  <2> QED BY <1>4, <2>1, <2>2 DEF BundleStep
<1>5. CASE Starts \/ Crash \/ WebChange
  BY <1>5 DEF Starts, Crash, WebChange, PendStep, jobVars
<1> QED BY <1>1, <1>2, <1>3, <1>4, <1>5 DEF Next

LEMMA PendTyped ==
    ASSUME Typed, JobStep, PendStep
    PROVE  /\ pend' = [j \in Jobs |-> pend'[j]]
           /\ \A j \in Jobs : pc'[j] = "art" => pend'[j].album \in Filing
<1>1. pend' = [j \in Jobs |-> pend'[j]]
  BY DEF PendStep, Typed
<1>2. ASSUME NEW k \in Jobs, pc'[k] = "art" PROVE pc[k] = "art" \/ pend'[k].album \in Filing
  <2>1. CASE Advances
    BY <1>2, <2>1 DEF Advances, Goes, Typed
  <2>2. CASE IsCalled
    BY <1>2, <2>2 DEF IsCalled, Called, Begins, Typed
  <2>3. CASE AllStop \/ UNCHANGED <<pc, arg>>
    BY <1>2, <2>3 DEF AllStop
  <2>4. ASSUME NEW j \in Jobs, Ends(j) PROVE pc[k] = "art"
    BY <1>2, <2>4 DEF Ends, Typed
  <2> QED BY <2>1, <2>2, <2>3, <2>4 DEF JobStep
<1>3. ASSUME NEW k \in Jobs, pc'[k] = "art" PROVE pend'[k].album \in Filing
  <2>1. CASE UNCHANGED pend
    BY <1>2, <1>3, <2>1 DEF Typed
  <2>2. ASSUME NEW j \in Jobs, NEW row, pend' = [pend EXCEPT ![j] = row],
               pc'[j] = "art" => row.album \in Filing
        PROVE  pend'[k].album \in Filing
    <3>1. pend'[k] = IF k = j THEN row ELSE pend[k]
      BY <2>2 DEF Typed
    <3> QED BY <1>2, <1>3, <2>2, <3>1 DEF Typed
  <2> QED BY <1>3, <2>1, <2>2 DEF PendStep
<1> QED BY <1>1, <1>3

\* The rows of the shelf change in four ways only.
AlbumsStep ==
    \/ UNCHANGED <<albums, tracks>>
    \/ UNCHANGED albums /\ tracks \subseteq tracks'
    \/ \E j \in Jobs, to \in Stages : Stores(j, to)
    \/ DeletesUnseen
    \/ \E c \in Calls : Forgets(c) \/ RefileAlbums(c)

LEMMA NextAlbumsStep == ASSUME [Next]_vars PROVE AlbumsStep
<1> USE DEF AlbumsStep
<1>0. Sync \in Jobs /\ Calls \subseteq Jobs /\ {"list", "fetch"} \subseteq Stages
  BY DEF Jobs, Stages
<1>1. CASE UNCHANGED vars
  BY <1>1 DEF vars, dbVars
<1>2. CASE SyncStep
  <2>1. CASE SyncBegins \/ ReadsPage \/ TakesItem \/ Enriches \/ Enriched \/ SyncFails
    BY <2>1 DEF SyncBegins, ReadsPage, TakesItem, Enriches, Enriched, SyncFails, dbVars
  <2>2. CASE SyncStores
    BY <1>0, <2>2 DEF SyncStores
  <2> QED BY <1>2, <2>1, <2>2 DEF SyncStep
<1>3. ASSUME NEW c \in Calls, CallStep(c) PROVE AlbumsStep
  <2>1. CASE CallBegins(c)
    BY <2>1 DEF CallBegins, AddRecord, RemoveRecord, LendRecord, ReturnRecord, SetCorrection, dbVars
  <2>2. CASE \/ AddsCopy(c) \/ Files(c) \/ Fetches(c) \/ RemovesCopy(c) \/ LastCopy(c)
             \/ CopiesLeft(c) \/ CallFails(c)
    BY <2>2 DEF AddsCopy, Files, Fetches, RemovesCopy, LastCopy, CopiesLeft, CallFails, dbVars
  <2>3. CASE AddStores(c)
    BY <1>0, <2>3 DEF AddStores
  <2> QED BY <1>3, <2>1, <2>2, <2>3 DEF CallStep, CallBegins
<1>4. CASE (\E j \in Jobs : BundleStep(j)) \/ Starts \/ Crash \/ WebChange
  BY <1>4 DEF BundleStep, ReadsRows, WritesIndex, WritesDetails, JobReturns, LockTimesOut,
              Starts, Crash, WebChange, dbVars
<1> QED BY <1>1, <1>2, <1>3, <1>4 DEF Next

\* A record that stays has a row that is one, with its note and its tracklist.
LEMMA AlbumsKeep ==
    ASSUME Typed, AlbumsStep
    PROVE  /\ albums' \in [Shelved' -> Filing]
           /\ \A r \in Shelved \cap Shelved' :
                /\ albums[r].note => albums'[r].note
                /\ r \in tracks => r \in tracks'
<1>0. \A r \in Shelved : albums[r] \in Filing /\ albums[r].note \in BOOLEAN
  BY DEF Typed, Filing
<1>1. CASE UNCHANGED albums /\ tracks \subseteq tracks'
  BY <1>1 DEF Typed, Shelved
<1>2. ASSUME NEW j \in Jobs, NEW to \in Stages, Stores(j, to)
      PROVE  /\ albums' \in [Shelved' -> Filing] /\ tracks' = tracks
             /\ \A r \in Shelved : albums[r].note => albums'[r].note
  <2>1. PICK r \in pend[j].rel : albums' = Upserted(r, pend[j].album)
    BY <1>2 DEF Stores
  <2> DEFINE row == pend[j].album
             note == row.note \/ (r \in Shelved /\ albums[r].note)
             new == [row EXCEPT !.note = note]
  <2>2. row \in Filing
    BY <1>2 DEF Stores, Goes, Typed
  <2>3. note \in BOOLEAN
    BY <1>0, <2>2 DEF Filing
  <2>4. new \in Filing /\ new.note = note
    BY <2>2, <2>3 DEF Filing
  <2>5. albums' = [x \in Shelved \cup {r} |-> IF x # r THEN albums[x] ELSE new]
    BY <2>1 DEF Upserted
  <2> HIDE DEF row, new
  <2>6. Shelved' = Shelved \cup {r}
    BY <2>5 DEF Shelved
  <2>7. albums' \in [Shelved' -> Filing]
    BY <1>0, <2>4, <2>5, <2>6
  <2>8. \A x \in Shelved : albums[x].note => albums'[x].note
    BY <2>4, <2>5
  <2>9. tracks' = tracks
    BY <1>2 DEF Stores
  <2> QED BY <2>7, <2>8, <2>9
<1>3. CASE DeletesUnseen
  <2>1. /\ albums' = [r \in Shelved \cap Range(scan.seen) |-> albums[r]]
        /\ tracks' = tracks \ (Shelved \ Range(scan.seen))
    BY <1>3 DEF DeletesUnseen
  <2>2. Shelved' = Shelved \cap Range(scan.seen)
    BY <2>1 DEF Shelved
  <2> QED BY <1>0, <2>1, <2>2
<1>4. ASSUME NEW c \in Calls, Forgets(c)
      PROVE  /\ albums' \in [Shelved' -> Filing]
             /\ \A r \in Shelved \cap Shelved' : albums'[r] = albums[r] /\ (r \in tracks => r \in tracks')
  <2>1. /\ albums' = [r \in Shelved \ {The(c)} |-> albums[r]]
        /\ tracks' = tracks \ {The(c)}
    BY <1>4 DEF Forgets
  <2>2. Shelved' = Shelved \ {The(c)}
    BY <2>1 DEF Shelved
  <2> QED BY <1>0, <2>1, <2>2
<1>5. ASSUME NEW c \in Calls, RefileAlbums(c)
      PROVE  /\ albums' \in [Shelved' -> Filing] /\ tracks' = tracks
             /\ \A r \in Shelved : albums'[r].note = albums[r].note
  <2>1. /\ albums' = [r \in Shelved |-> IF r \in arg[c].rels THEN Refiled(r) ELSE albums[r]]
        /\ tracks' = tracks
    BY <1>5 DEF RefileAlbums
  <2>2. Shelved' = Shelved
    BY <2>1 DEF Shelved
  <2>3. ASSUME NEW r \in Shelved PROVE Refiled(r) \in Filing /\ Refiled(r).note = albums[r].note
    <3> DEFINE a == CreditOf[r]
               sort == IF a \in overrides.sort THEN "manual"
                       ELSE IF a \in artists THEN "musicbrainz"
                       ELSE albums[r].sort
    <3>1. sort \in Sorts
      BY <1>0 DEF Filing, Sorts
    <3>2. SectionOf(overrides, r, sort) \in Sorts \cup {"moved"}
      BY <3>1 DEF SectionOf
    <3>3. Refiled(r) = [albums[r] EXCEPT !.sort = sort, !.section = SectionOf(overrides, r, sort)]
      BY DEF Refiled
    <3> HIDE DEF sort
    <3> QED BY <1>0, <3>1, <3>2, <3>3 DEF Filing
  <2> QED BY <1>0, <2>1, <2>2, <2>3
<1> QED BY <1>0, <1>1, <1>2, <1>3, <1>4, <1>5 DEF AlbumsStep

LEMMA NextTyped == ASSUME Typed, [Next]_vars PROVE Typed'
BY NextJobStep, JobGoes, NextPendStep, PendTyped, NextAlbumsStep, AlbumsKeep DEF Typed

LEMMA AlwaysTyped == Spec => []Typed
<1>1. Typed /\ [Next]_vars => Typed'
  BY NextTyped
<1> QED BY <1>1, InitTyped, PTL DEF Spec

-----------------------------------------------------------------------------
\* An upsert, a refile, a sync and a removal of another record leave the note and
\* the tracklist of a record as they are, whichever of them overlap (db.py).
THEOREM KnownStays == Spec => KnownStaysKnown
<1>1. Typed /\ [Next]_vars
         => [\A r \in Shelved \cap Shelved' :
                /\ albums[r].note => albums'[r].note
                /\ r \in tracks => r \in tracks']_vars
  BY NextAlbumsStep, AlbumsKeep
<1> QED BY <1>1, AlwaysTyped, PTL DEF Spec, KnownStaysKnown

\* What a call wrote of its own is in its argument.
LEMMA CalledArg ==
    ASSUME Typed, NEW c \in Calls, NEW op, NEW rels, NEW note, NEW stage,
           Called(c, op, rels, note, stage)
    PROVE  pc[c] = "idle" /\ arg'[c].op = op /\ arg'[c].rels = rels
<1>1. /\ pc[c] = "idle"
      /\ arg' = [arg EXCEPT ![c] = [op |-> op, rels |-> rels, note |-> note]]
  BY DEF Called, Begins
<1> QED BY <1>1 DEF Typed

LEMMA LoanStep ==
    ASSUME [Next]_vars
    PROVE  \/ loans \subseteq loans'
           \/ \E c \in Calls : Forgets(c) \/ \E r \in Releases : ReturnRecord(c, r)
<1>1. CASE UNCHANGED vars
  BY <1>1 DEF vars, dbVars
<1>2. CASE SyncStep
  BY <1>2 DEF SyncStep, SyncBegins, ReadsPage, TakesItem, SyncStores, Stores, DeletesUnseen,
              Enriches, Enriched, SyncFails, dbVars
<1>3. ASSUME NEW c \in Calls, CallStep(c) PROVE
          \/ loans \subseteq loans'
          \/ Forgets(c) \/ \E r \in Releases : ReturnRecord(c, r)
  <2>1. ASSUME CallBegins(c), ~\E r \in Releases : ReturnRecord(c, r) PROVE loans \subseteq loans'
    BY <2>1 DEF CallBegins, AddRecord, RemoveRecord, LendRecord, SetCorrection, dbVars
  <2>2. CASE \/ AddsCopy(c) \/ Files(c) \/ AddStores(c) \/ Fetches(c) \/ RemovesCopy(c)
             \/ LastCopy(c) \/ CopiesLeft(c) \/ RefileAlbums(c) \/ CallFails(c)
    BY <2>2 DEF AddsCopy, Files, AddStores, Stores, Fetches, RemovesCopy, LastCopy, CopiesLeft,
                RefileAlbums, CallFails, dbVars
  <2> QED BY <1>3, <2>1, <2>2 DEF CallStep, CallBegins
<1>4. CASE (\E j \in Jobs : BundleStep(j)) \/ Starts \/ Crash \/ WebChange
  BY <1>4 DEF BundleStep, ReadsRows, WritesIndex, WritesDetails, JobReturns, LockTimesOut,
              Starts, Crash, WebChange, dbVars
<1> QED BY <1>1, <1>2, <1>3, <1>4 DEF Next

LEMMA LoanEnds ==
    ASSUME Typed, [Next]_vars, NEW r \in loans \ loans'
    PROVE  \E c \in Calls :
        \/ arg'[c].op = "return" /\ r \in arg'[c].rels /\ pc[c] = "idle"
        \/ arg[c].op = "remove" /\ r \in arg[c].rels /\ pc[c] = "forget"
<1>1. PICK c \in Calls : Forgets(c) \/ \E x \in Releases : ReturnRecord(c, x)
  BY LoanStep
<1>2. CASE Forgets(c)
  <2>1. pc[c] = "forget" /\ loans' = loans \ {The(c)}
    BY <1>2 DEF Forgets, Goes
  <2>2. arg[c].op = "remove" /\ arg[c].rels # {}
    BY <2>1 DEF Typed, Removal
  <2>3. The(c) \in arg[c].rels
    BY <2>2 DEF The
  <2> QED BY <2>1, <2>2, <2>3
<1>3. ASSUME NEW x \in Releases, ReturnRecord(c, x)
      PROVE  arg'[c].op = "return" /\ r \in arg'[c].rels /\ pc[c] = "idle"
  <2>1. loans' = loans \ {x} /\ Called(c, "return", {x}, FALSE, "reads")
    BY <1>3 DEF ReturnRecord
  <2> QED BY <2>1, CalledArg
<1> QED BY <1>1, <1>2, <1>3

\* Only vinyl_return, or vinyl_remove of the last copy, ends a loan: no sync
\* does, though it deletes the album of a record that is gone (sync.py, db.py).
THEOREM LoansStay == Spec => LoanStays
<1>1. Typed /\ [Next]_vars
         => [\A r \in loans \ loans' : \E c \in Calls :
                \/ arg'[c].op = "return" /\ r \in arg'[c].rels /\ pc[c] = "idle"
                \/ arg[c].op = "remove" /\ r \in arg[c].rels /\ pc[c] = "forget"]_vars
  BY LoanEnds
<1> QED BY <1>1, AlwaysTyped, PTL DEF Spec, LoanStays

LEMMA OverridesStep ==
    ASSUME [Next]_vars, imported, overrides' # overrides
    PROVE  \E c \in Calls : SetCorrection(c)
<1>1. ~(UNCHANGED vars)
  BY DEF vars, dbVars
<1>2. ~SyncStep
  BY DEF SyncStep, SyncBegins, MigrateOverrides, ReadsPage, TakesItem, SyncStores, Stores,
         DeletesUnseen, Enriches, Enriched, SyncFails, dbVars
<1>3. ASSUME NEW c \in Calls, CallStep(c) PROVE SetCorrection(c)
  BY <1>3 DEF CallStep, AddRecord, RemoveRecord, LendRecord, ReturnRecord, AddsCopy, Files,
              AddStores, Stores, Fetches, RemovesCopy, LastCopy, CopiesLeft, Forgets,
              RefileAlbums, CallFails, dbVars
<1>4. ~((\E j \in Jobs : BundleStep(j)) \/ Starts \/ Crash \/ WebChange)
  BY DEF BundleStep, ReadsRows, WritesIndex, WritesDetails, JobReturns, LockTimesOut,
         Starts, MigrateOverrides, Crash, WebChange, dbVars
<1> QED BY <1>1, <1>2, <1>3, <1>4 DEF Next

\* Once the rules file was imported only vinyl_set_sort_name, vinyl_set_section
\* and their like change a correction: no restart and no sync brings one back.
THEOREM CorrectionsStay == Spec => CorrectionsByHand
<1>1. Typed /\ [Next]_vars
         => [imported /\ overrides' # overrides =>
                \E c \in Calls : pc[c] = "idle" /\ arg'[c].op = "correct"]_vars
  <2> SUFFICES ASSUME Typed, [Next]_vars, imported, overrides' # overrides
               PROVE  \E c \in Calls : pc[c] = "idle" /\ arg'[c].op = "correct"
    OBVIOUS
  <2>1. PICK c \in Calls : SetCorrection(c)
    BY OverridesStep
  <2>2. PICK rels \in SUBSET Releases : Called(c, "correct", rels, FALSE, "refile")
    BY <2>1 DEF SetCorrection
  <2> QED BY <2>2, CalledArg
<1> QED BY <1>1, AlwaysTyped, PTL DEF Spec, CorrectionsByHand

-----------------------------------------------------------------------------
(* The stages of a job, and a job that runs alone. *)

BundleStages == {"reads", "index", "details", "done"}
Scans == [overrides : Overrides, page : Nat \ {0}, more : BOOLEAN,
          todo : Seq(Releases), seen : Seq(Releases), left : Seq(Releases)]

Columns ==
    /\ discogs \in Seq(Releases)
    /\ overrides \in Overrides
    /\ scan \in Scans
    /\ pc[Sync] = "art" => scan.todo # <<>>
    /\ view = [j \in Jobs |-> view[j]]

\* A job runs while the addon is up; while one is alone the others are idle.
AloneInv ==
    /\ alone \in [Jobs -> BOOLEAN]
    /\ \A j \in Jobs : pc[j] # "idle" => serving
    /\ \A j \in Jobs : alone[j] => pc[j] # "idle" /\ \A k \in Jobs \ {j} : pc[k] = "idle"

\* A call goes through the stages of what it was called for.
StageInv ==
    /\ pc[Sync] \in {"idle", "list", "art", "enrich"} \cup BundleStages
    /\ \A c \in Calls :
        /\ pc[c] \notin {"list", "enrich"}
        /\ pc[c] \in {"adding", "file", "art", "fetch"} => arg[c].op = "add"
        /\ pc[c] = "refile" => arg[c].op = "correct"
        /\ pc[c] # "idle" /\ arg[c].op # "correct" => \E r \in Releases : arg[c].rels = {r}

SyncMoves == {<<"list", "list">>, <<"list", "art">>, <<"art", "list">>, <<"list", "enrich">>,
              <<"enrich", "reads">>}
CallMoves == {<<"adding", "file">>, <<"file", "art">>, <<"art", "fetch">>, <<"fetch", "reads">>,
              <<"removing", "counts">>, <<"counts", "forget">>, <<"forget", "reads">>,
              <<"refile", "reads">>}
BundleMoves == {<<"reads", "index">>, <<"index", "details">>, <<"details", "done">>}
Moves(j) == BundleMoves \cup (IF j = Sync THEN SyncMoves ELSE CallMoves)
FirstStages == {<<"add", "adding">>, <<"remove", "removing">>, <<"lend", "reads">>,
                <<"return", "reads">>}

MovesOn ==
    \E j \in Jobs : \E m \in Moves(j) :
        Goes(j, m[1], m[2]) /\ UNCHANGED <<arg, alone, serving>>
OneEnds == \E j \in Jobs : pc[j] # "idle" /\ Ends(j) /\ UNCHANGED serving
SyncComes == serving /\ Begins(Sync, "list") /\ UNCHANGED <<arg, serving>>
CallComes ==
    \E c \in Calls : \E op \in CallOps, rels \in SUBSET Releases, note \in BOOLEAN,
       stage \in Stages :
        /\ Called(c, op, rels, note, stage)
        /\ \/ <<op, stage>> \in FirstStages /\ \E r \in Releases : rels = {r}
           \/ op = "correct" /\ stage = "refile"
Stays == UNCHANGED <<pc, arg, alone>> /\ (serving' = serving \/ serving')
NobodyAlone == alone' = [j \in Jobs |-> FALSE] /\ (AllStop \/ UNCHANGED <<pc, arg, serving>>)

StageStep == MovesOn \/ OneEnds \/ SyncComes \/ CallComes \/ Stays \/ NobodyAlone

LEMMA SyncStageStep == ASSUME SyncStep PROVE StageStep
<1> USE DEF StageStep
<1>0. Sync \in Jobs /\ SyncMoves \subseteq Moves(Sync)
  BY DEF Jobs, Moves
<1>1. ASSUME NEW from, NEW to, <<from, to>> \in SyncMoves, Goes(Sync, from, to),
             UNCHANGED <<arg, alone, serving>>
      PROVE  MovesOn
  <2>1. <<from, to>>[1] = from /\ <<from, to>>[2] = to
    OBVIOUS
  <2> QED BY <1>0, <1>1, <2>1 DEF MovesOn
<1>2. CASE SyncBegins
  BY <1>2 DEF SyncBegins, SyncComes
<1>3. CASE ReadsPage \/ TakesItem \/ SyncStores \/ DeletesUnseen \/ Enriched
  <2>1. PICK m \in SyncMoves : Goes(Sync, m[1], m[2]) /\ m = <<m[1], m[2]>>
    BY <1>3 DEF ReadsPage, TakesItem, SyncStores, Stores, DeletesUnseen, Enriched, SyncMoves
  <2>2. UNCHANGED <<arg, alone, serving>>
    BY <1>3 DEF ReadsPage, TakesItem, SyncStores, Stores, DeletesUnseen, Enriched
  <2> QED BY <1>1, <2>1, <2>2
<1>4. CASE Enriches
  BY <1>4 DEF Enriches, Stays
<1>5. CASE SyncFails
  BY <1>0, <1>5 DEF SyncFails, OneEnds
<1> QED BY <1>2, <1>3, <1>4, <1>5 DEF SyncStep

LEMMA BundleStageStep == ASSUME NEW j \in Jobs, BundleStep(j) PROVE StageStep
<1> USE DEF StageStep
<1>0. BundleMoves \subseteq Moves(j)
  BY DEF Moves
<1>1. ASSUME NEW from, NEW to, <<from, to>> \in BundleMoves, Goes(j, from, to),
             UNCHANGED <<arg, alone, serving>>
      PROVE  MovesOn
  <2>1. <<from, to>>[1] = from /\ <<from, to>>[2] = to
    OBVIOUS
  <2> QED BY <1>0, <1>1, <2>1 DEF MovesOn
<1>2. CASE ReadsRows(j) \/ WritesIndex(j) \/ WritesDetails(j)
  BY <1>1, <1>2 DEF ReadsRows, WritesIndex, WritesDetails, BundleMoves
<1>3. CASE JobReturns(j) \/ LockTimesOut(j)
  BY <1>3 DEF JobReturns, LockTimesOut, OneEnds
<1> QED BY <1>2, <1>3 DEF BundleStep

LEMMA CallComesOf ==
    ASSUME NEW c \in Calls, NEW op, NEW r \in Releases, NEW note \in BOOLEAN, NEW stage,
           Called(c, op, {r}, note, stage), <<op, stage>> \in FirstStages
    PROVE  CallComes
<1>1. op \in CallOps /\ stage \in Stages /\ {r} \in SUBSET Releases
  BY DEF FirstStages, CallOps, Stages
<1> QED BY <1>1 DEF CallComes

LEMMA CallStageStep == ASSUME NEW c \in Calls, CallStep(c) PROVE StageStep
<1> USE DEF StageStep
<1>0. c \in Jobs /\ CallMoves \subseteq Moves(c)
  BY VinylAssumption DEF Jobs, Moves
<1>1. ASSUME NEW from, NEW to, <<from, to>> \in CallMoves, Goes(c, from, to),
             UNCHANGED <<arg, alone, serving>>
      PROVE  MovesOn
  <2>1. <<from, to>>[1] = from /\ <<from, to>>[2] = to
    OBVIOUS
  <2> QED BY <1>0, <1>1, <2>1 DEF MovesOn
<1>2. ASSUME NEW r \in Releases, NEW note \in Notes, NEW d \in BOOLEAN, AddRecord(c, r, note, d)
      PROVE  CallComes
  <2>1. Called(c, "add", {r}, note, "adding") /\ note \in BOOLEAN
    BY <1>2, VinylAssumption DEF AddRecord
  <2>2. <<"add", "adding">> \in FirstStages
    BY DEF FirstStages
  <2> QED BY <2>1, <2>2, CallComesOf
<1>3. ASSUME NEW r \in Releases, RemoveRecord(c, r) \/ LendRecord(c, r) \/ ReturnRecord(c, r)
      PROVE  CallComes
  <2>1. \/ Called(c, "remove", {r}, FALSE, "removing")
        \/ Called(c, "lend", {r}, FALSE, "reads")
        \/ Called(c, "return", {r}, FALSE, "reads")
    BY <1>3 DEF RemoveRecord, LendRecord, ReturnRecord
  <2>2. {<<"remove", "removing">>, <<"lend", "reads">>, <<"return", "reads">>} \subseteq FirstStages
    BY DEF FirstStages
  <2> QED BY <2>1, <2>2, CallComesOf
<1>4. CASE SetCorrection(c)
  <2>1. PICK rels \in SUBSET Releases : Called(c, "correct", rels, FALSE, "refile")
    BY <1>4 DEF SetCorrection
  <2>2. "correct" \in CallOps /\ "refile" \in Stages /\ FALSE \in BOOLEAN
    BY DEF CallOps, Stages
  <2> QED BY <2>1, <2>2 DEF CallComes
<1>5. CASE AddsCopy(c) \/ Files(c) \/ AddStores(c) \/ Fetches(c)
  BY <1>1, <1>5 DEF AddsCopy, Files, AddStores, Stores, Fetches, CallMoves
<1>6. CASE RemovesCopy(c) \/ LastCopy(c) \/ Forgets(c) \/ RefileAlbums(c)
  BY <1>1, <1>6 DEF RemovesCopy, LastCopy, Forgets, RefileAlbums, CallMoves
<1>7. CASE CopiesLeft(c) \/ CallFails(c)
  BY <1>0, <1>7 DEF CopiesLeft, CallFails, OneEnds
<1> QED BY <1>2, <1>3, <1>4, <1>5, <1>6, <1>7 DEF CallStep

LEMMA NextStageStep == ASSUME [Next]_vars PROVE StageStep
<1>1. CASE UNCHANGED vars
  BY <1>1 DEF vars, jobVars, StageStep, Stays
<1>2. CASE Starts \/ Crash \/ WebChange
  BY <1>2 DEF Starts, Crash, WebChange, jobVars, StageStep, Stays, NobodyAlone, AllStop
<1> QED BY <1>1, <1>2, SyncStageStep, CallStageStep, BundleStageStep DEF Next

LEMMA InitStage == Init => AloneInv /\ StageInv
<1> SUFFICES ASSUME Init PROVE AloneInv /\ StageInv
  OBVIOUS
<1>1. (\A j \in Jobs : pc[j] = "idle" /\ ~alone[j]) /\ alone \in [Jobs -> BOOLEAN]
  BY DEF Init
<1>2. Calls \subseteq Jobs /\ Sync \in Jobs
  BY DEF Jobs
<1> QED BY <1>1, <1>2 DEF AloneInv, StageInv

\* A job that goes on leaves the others where they are, and so does one that ends.
LEMMA StageKeeps ==
    ASSUME Typed, AloneInv, StageInv, StageStep
    PROVE  AloneInv' /\ StageInv'
<1>0. Calls \subseteq Jobs /\ Sync \in Jobs /\ Sync \notin Calls
  BY VinylAssumption DEF Jobs
<1>1. CASE MovesOn
  <2>0. PICK j \in Jobs : \E m \in Moves(j) :
            Goes(j, m[1], m[2]) /\ UNCHANGED <<arg, alone, serving>>
    BY <1>1 DEF MovesOn
  <2>1. PICK m \in Moves(j) : Goes(j, m[1], m[2]) /\ UNCHANGED <<arg, alone, serving>>
    BY <2>0
  <2>2. pc[j] = m[1] /\ pc' = [pc EXCEPT ![j] = m[2]] /\ pc \in [Jobs -> Stages]
    BY <2>1 DEF Goes, Typed
  <2>3. m[1] # "idle" /\ m[2] # "idle"
    BY DEF Moves, BundleMoves, SyncMoves, CallMoves
  <2>4. AloneInv'
    BY <2>1, <2>2, <2>3 DEF AloneInv
  <2>5. CASE j = Sync
    <3>1. m[2] \in {"list", "art", "enrich"} \cup BundleStages
      BY <2>5 DEF Moves, BundleMoves, SyncMoves, BundleStages
    <3>2. pc'[Sync] = m[2] /\ \A c \in Calls : pc'[c] = pc[c]
      BY <1>0, <2>2, <2>5
    <3> QED BY <2>1, <2>4, <3>1, <3>2 DEF StageInv
  <2>6. CASE j \in Calls
    <3>1. j # Sync /\ pc'[j] = m[2] /\ \A k \in Jobs \ {j} : pc'[k] = pc[k]
      BY <1>0, <2>2, <2>6
    <3>2. /\ m[2] \notin {"list", "enrich", "refile"}
          /\ m[2] \in {"adding", "file", "art", "fetch"} => m[1] \in {"adding", "file", "art"}
      BY <3>1 DEF Moves, BundleMoves, CallMoves
    <3> QED BY <1>0, <2>1, <2>2, <2>3, <2>4, <2>6, <3>1, <3>2 DEF StageInv
  <2> QED BY <2>5, <2>6 DEF Jobs
<1>2. CASE OneEnds
  <2>1. PICK j \in Jobs : pc[j] # "idle" /\ Ends(j) /\ UNCHANGED serving
    BY <1>2 DEF OneEnds
  <2>2. pc' = [pc EXCEPT ![j] = "idle"] /\ alone' = [alone EXCEPT ![j] = FALSE]
    BY <2>1 DEF Ends
  <2>3. /\ pc'[j] = "idle" /\ ~alone'[j] /\ alone' \in [Jobs -> BOOLEAN]
        /\ \A k \in Jobs \ {j} : pc'[k] = pc[k] /\ alone'[k] = alone[k]
    BY <2>2 DEF Typed, AloneInv
  <2>4. AloneInv'
    BY <2>1, <2>3 DEF AloneInv
  <2>5. \A c \in Calls \ {j} : arg'[c] = arg[c]
    BY <2>1 DEF Ends, Typed
  <2>6. StageInv'
    BY <1>0, <2>3, <2>5 DEF StageInv
  <2> QED BY <2>4, <2>6
<1>3. ASSUME NEW j \in Jobs, NEW stage \in Stages \ {"idle"}, Begins(j, stage), serving, serving'
      PROVE  /\ AloneInv' /\ pc'[j] = stage
             /\ \A k \in Jobs \ {j} : pc'[k] = pc[k]
  <2>1. pc' = [pc EXCEPT ![j] = stage] /\ pc \in [Jobs -> Stages]
    BY <1>3 DEF Begins, Typed
  <2>2. alone' = [k \in Jobs |-> k = j /\ \A i \in Jobs \ {j} : pc[i] = "idle"]
    BY <1>3 DEF Begins
  <2>3. alone' \in [Jobs -> BOOLEAN]
    BY <2>2
  <2>4. \A k \in Jobs : alone'[k] => k = j /\ \A i \in Jobs \ {j} : pc[i] = "idle"
    BY <2>2
  <2>5. pc'[j] = stage /\ \A k \in Jobs \ {j} : pc'[k] = pc[k]
    BY <2>1
  <2>6. AloneInv'
    BY <1>3, <2>3, <2>4, <2>5 DEF AloneInv
  <2> QED BY <2>5, <2>6
<1>4. CASE SyncComes
  <2>1. /\ AloneInv' /\ pc'[Sync] = "list"
        /\ \A k \in Jobs \ {Sync} : pc'[k] = pc[k]
    BY <1>0, <1>3, <1>4 DEF SyncComes, Stages
  <2> QED BY <1>0, <1>4, <2>1 DEF SyncComes, StageInv
<1>5. CASE CallComes
  <2>1. PICK c \in Calls, op \in CallOps, rels \in SUBSET Releases, note \in BOOLEAN,
              stage \in Stages :
            /\ Called(c, op, rels, note, stage)
            /\ \/ <<op, stage>> \in FirstStages /\ \E r \in Releases : rels = {r}
               \/ op = "correct" /\ stage = "refile"
    BY <1>5 DEF CallComes
  <2>2. stage \in {"adding", "removing", "reads", "refile"}
    BY <2>1 DEF FirstStages
  <2>3. /\ AloneInv' /\ pc'[c] = stage
        /\ \A k \in Jobs \ {c} : pc'[k] = pc[k]
    BY <1>0, <1>3, <2>1, <2>2 DEF Called
  <2>4. /\ arg'[c] = [op |-> op, rels |-> rels, note |-> note]
        /\ \A k \in Calls \ {c} : arg'[k] = arg[k]
    BY <2>1 DEF Called, Typed
  <2>5. stage = "adding" => op = "add"
    BY <2>1 DEF FirstStages
  <2>6. stage = "refile" => op = "correct"
    BY <2>1 DEF FirstStages
  <2>7. op # "correct" => \E r \in Releases : rels = {r}
    BY <2>1
  <2>8. arg'[c].op = op /\ arg'[c].rels = rels
    BY <2>4
  <2>9. StageInv'
    <3>1. ASSUME NEW k \in Calls \ {c} PROVE
              /\ pc'[k] \notin {"list", "enrich"}
              /\ pc'[k] \in {"adding", "file", "art", "fetch"} => arg'[k].op = "add"
              /\ pc'[k] = "refile" => arg'[k].op = "correct"
              /\ pc'[k] # "idle" /\ arg'[k].op # "correct" => \E r \in Releases : arg'[k].rels = {r}
      BY <1>0, <2>3, <2>4 DEF StageInv
    <3>2. pc'[Sync] \in {"idle", "list", "art", "enrich"} \cup BundleStages
      BY <1>0, <2>3 DEF StageInv
    <3> QED BY <2>2, <2>3, <2>5, <2>6, <2>7, <2>8, <3>1, <3>2 DEF StageInv
  <2> QED BY <2>3, <2>9
<1>6. CASE Stays
  BY <1>6 DEF Stays, AloneInv, StageInv
<1>7. CASE NobodyAlone
  <2>1. (\A j \in Jobs : ~alone'[j]) /\ alone' \in [Jobs -> BOOLEAN]
    BY <1>7 DEF NobodyAlone
  <2>2. CASE AllStop
    <3>1. \A j \in Jobs : pc'[j] = "idle"
      BY <2>2 DEF AllStop
    <3> QED BY <1>0, <2>1, <3>1 DEF AloneInv, StageInv
  <2>3. CASE UNCHANGED <<pc, arg, serving>>
    BY <2>1, <2>3 DEF AloneInv, StageInv
  <2> QED BY <1>7, <2>2, <2>3 DEF NobodyAlone
<1> QED BY <1>1, <1>2, <1>4, <1>5, <1>6, <1>7 DEF StageStep

\* A job begins, goes on, or comes to its end.
Acts(j) ==
    \/ \E stage \in Stages : Begins(j, stage)
    \/ pc[j] # "idle" /\ (UNCHANGED alone \/ Ends(j))

LEMMA SyncActs == ASSUME SyncStep PROVE Acts(Sync)
<1> USE DEF Acts
<1>1. CASE SyncBegins
  BY <1>1 DEF SyncBegins, Stages
<1>2. CASE ReadsPage \/ TakesItem \/ DeletesUnseen \/ Enriches \/ Enriched \/ SyncFails
  BY <1>2 DEF ReadsPage, TakesItem, DeletesUnseen, Enriches, Enriched, SyncFails, Goes
<1>3. CASE SyncStores
  BY <1>3 DEF SyncStores, Stores, Goes
<1> QED BY <1>1, <1>2, <1>3 DEF SyncStep

LEMMA CallActs == ASSUME NEW c \in Calls, CallStep(c) PROVE Acts(c)
<1> USE DEF Acts
<1>1. CASE CallBegins(c)
  <2>1. \E stage \in {"adding", "removing", "reads", "refile"} : Begins(c, stage)
    BY <1>1 DEF CallBegins, AddRecord, RemoveRecord, LendRecord, ReturnRecord, SetCorrection, Called
  <2> QED BY <2>1 DEF Stages
<1>2. CASE AddsCopy(c) \/ Files(c) \/ AddStores(c) \/ Fetches(c)
  BY <1>2 DEF AddsCopy, Files, AddStores, Stores, Fetches, Goes
<1>3. CASE \/ RemovesCopy(c) \/ CopiesLeft(c) \/ LastCopy(c) \/ Forgets(c) \/ RefileAlbums(c)
           \/ CallFails(c)
  BY <1>3 DEF RemovesCopy, CopiesLeft, LastCopy, Forgets, RefileAlbums, CallFails, Goes
<1> QED BY <1>1, <1>2, <1>3 DEF CallStep, CallBegins

LEMMA BundleActs == ASSUME NEW j \in Jobs, BundleStep(j) PROVE Acts(j)
BY DEF Acts, BundleStep, ReadsRows, WritesIndex, WritesDetails, JobReturns, LockTimesOut, Goes

\* What a job that stays alone does: it begins while the others are idle, or goes
\* on, and nothing else happens.
OwnStep(j) ==
    \/ UNCHANGED vars
    \/ j = Sync /\ SyncStep
    \/ j \in Calls /\ CallStep(j)
    \/ BundleStep(j)

LEMMA OnlyOwn ==
    ASSUME AloneInv, NEW j \in Jobs, alone'[j], NEW k \in Jobs, Acts(k)
    PROVE  /\ k = j /\ \A i \in Jobs \ {j} : pc[i] = "idle"
           /\ pc[j] # "idle" => alone[j]
           /\ ~Ends(j)
<1>1. ASSUME NEW stage \in Stages, Begins(k, stage)
      PROVE  k = j /\ pc[k] = "idle" /\ \A i \in Jobs \ {k} : pc[i] = "idle"
  BY <1>1 DEF Begins
<1>2. ASSUME pc[k] # "idle", UNCHANGED alone
      PROVE  k = j /\ alone[j] /\ \A i \in Jobs \ {j} : pc[i] = "idle"
  BY <1>2 DEF AloneInv
<1>3. ASSUME pc[k] # "idle", Ends(k) PROVE FALSE
  <2>1. alone' = [alone EXCEPT ![k] = FALSE]
    BY <1>3 DEF Ends
  <2>2. k # j /\ alone[j]
    BY <2>1 DEF AloneInv
  <2> QED BY <1>3, <2>2 DEF AloneInv
<1>4. k = j /\ (\A i \in Jobs \ {j} : pc[i] = "idle") /\ (pc[j] # "idle" => alone[j])
  BY <1>1, <1>2, <1>3 DEF Acts
<1>5. ~Ends(j)
  BY DEF Ends, AloneInv
<1> QED BY <1>4, <1>5

LEMMA AloneStep ==
    ASSUME AloneInv, [Next]_vars, NEW j \in Jobs, alone'[j]
    PROVE  /\ OwnStep(j)
           /\ \A k \in Jobs \ {j} : pc[k] = "idle"
           /\ pc[j] # "idle" => alone[j]
           /\ ~Ends(j)
<1>0. Calls \subseteq Jobs /\ Sync \in Jobs
  BY DEF Jobs
<1>1. CASE UNCHANGED vars
  <2>1. alone[j] /\ alone' = alone
    BY <1>1 DEF vars, jobVars
  <2>2. ~Ends(j)
    BY <2>1 DEF Ends, AloneInv
  <2> QED BY <1>1, <2>1, <2>2 DEF OwnStep, AloneInv
<1>2. CASE SyncStep
  BY <1>0, <1>2, SyncActs, OnlyOwn DEF OwnStep
<1>3. ASSUME NEW c \in Calls, CallStep(c) PROVE c = j
  BY <1>0, <1>3, CallActs, OnlyOwn
<1>4. ASSUME NEW c \in Calls, CallStep(c)
      PROVE  /\ OwnStep(j)
             /\ \A k \in Jobs \ {j} : pc[k] = "idle"
             /\ pc[j] # "idle" => alone[j]
             /\ ~Ends(j)
  BY <1>0, <1>3, <1>4, CallActs, OnlyOwn DEF OwnStep
<1>5. ASSUME NEW k \in Jobs, BundleStep(k)
      PROVE  /\ OwnStep(j)
             /\ \A i \in Jobs \ {j} : pc[i] = "idle"
             /\ pc[j] # "idle" => alone[j]
             /\ ~Ends(j)
  <2>1. k = j
    BY <1>5, BundleActs, OnlyOwn
  <2> QED BY <1>5, <2>1, BundleActs, OnlyOwn DEF OwnStep
<1>6. ~Starts
  BY DEF Starts, jobVars, AloneInv
<1>7. ~(Crash \/ WebChange)
  BY DEF Crash, WebChange
<1> QED BY <1>1, <1>2, <1>4, <1>5, <1>6, <1>7 DEF Next

LEMMA SyncGoesTo ==
    ASSUME Typed, SyncStep, ~Ends(Sync)
    PROVE  pc'[Sync] \in {"list", "art", "enrich", "reads"}
<1>0. Sync \in Jobs
  BY DEF Jobs
<1>1. CASE SyncBegins
  BY <1>0, <1>1 DEF SyncBegins, Begins, Typed
<1>2. CASE ReadsPage \/ TakesItem \/ DeletesUnseen \/ Enriches \/ Enriched
  BY <1>0, <1>2 DEF ReadsPage, TakesItem, DeletesUnseen, Enriches, Enriched, Goes, Typed
<1>3. CASE SyncStores
  BY <1>0, <1>3 DEF SyncStores, Stores, Goes, Typed
<1> QED BY <1>1, <1>2, <1>3 DEF SyncStep, SyncFails

LEMMA CallGoesTo ==
    ASSUME Typed, NEW c \in Calls, CallStep(c), ~Ends(c)
    PROVE  pc'[c] \in {"adding", "file", "art", "fetch", "refile", "reads"} \cup Removal
<1>0. c \in Jobs
  BY DEF Jobs
<1>1. CASE CallBegins(c)
  <2>1. PICK stage \in {"adding", "removing", "reads", "refile"} : Begins(c, stage)
    BY <1>1 DEF CallBegins, AddRecord, RemoveRecord, LendRecord, ReturnRecord, SetCorrection, Called
  <2> QED BY <1>0, <2>1 DEF Begins, Typed, Removal
<1>2. CASE AddsCopy(c) \/ Files(c) \/ AddStores(c) \/ Fetches(c)
  BY <1>0, <1>2 DEF AddsCopy, Files, AddStores, Stores, Fetches, Goes, Typed
<1>3. CASE RemovesCopy(c) \/ LastCopy(c) \/ Forgets(c) \/ RefileAlbums(c)
  BY <1>0, <1>3 DEF RemovesCopy, LastCopy, Forgets, RefileAlbums, Goes, Typed, Removal
<1> QED BY <1>1, <1>2, <1>3 DEF CallStep, CallBegins, CopiesLeft, CallFails

-----------------------------------------------------------------------------
(* The page of a job that runs alone. *)

DetailView == [r \in Shelved |-> Detail(r, IndexView[r])]

\* What it read of the shelf is what is there, and what it wrote of it is what it read.
PageInv ==
    \A j \in Jobs : alone[j] =>
        /\ pc[j] \in {"index", "details"} => view[j] = IndexView
        /\ pc[j] \in {"details", "done"} => index = IndexView
        /\ pc[j] = "done" => details = DetailView

LEMMA ViewsStay ==
    ASSUME UNCHANGED <<albums, loans>>
    PROVE  IndexView' = IndexView /\ DetailView' = DetailView
BY DEF IndexView, DetailView, Detail, Shelved

LEMMA NextPage ==
    ASSUME Typed, Columns, AloneInv, PageInv, [Next]_vars
    PROVE  PageInv'
<1> SUFFICES ASSUME NEW j \in Jobs, alone'[j]
             PROVE  /\ pc'[j] \in {"index", "details"} => view'[j] = IndexView'
                    /\ pc'[j] \in {"details", "done"} => index' = IndexView'
                    /\ pc'[j] = "done" => details' = DetailView'
  BY DEF PageInv
<1>1. OwnStep(j) /\ (pc[j] # "idle" => alone[j]) /\ ~Ends(j)
  BY AloneStep
<1>2. CASE UNCHANGED vars
  <2>1. UNCHANGED <<albums, loans, index, details, pc, view, alone>>
    BY <1>2 DEF vars, dbVars, fileVars, jobVars
  <2> QED BY <2>1, ViewsStay DEF PageInv
<1>3. CASE (j = Sync /\ SyncStep) \/ (j \in Calls /\ CallStep(j))
  <2>1. pc'[j] \notin {"index", "details", "done"}
    BY <1>1, <1>3, SyncGoesTo, CallGoesTo DEF Removal
  <2> QED BY <2>1
<1>4. CASE BundleStep(j)
  <2>1. CASE ReadsRows(j)
    <3>1. /\ pc'[j] = "index" /\ view'[j] = IndexView
          /\ UNCHANGED <<albums, loans>>
      BY <2>1 DEF ReadsRows, Goes, Typed, Columns, dbVars
    <3> QED BY <3>1, ViewsStay
  <2>2. CASE WritesIndex(j)
    <3>1. pc[j] = "index" /\ pc'[j] = "details" /\ index' = view[j]
          /\ UNCHANGED <<view, albums, loans>>
      BY <2>2 DEF WritesIndex, Goes, Typed, dbVars
    <3>2. view[j] = IndexView
      BY <1>1, <3>1 DEF PageInv
    <3> QED BY <3>1, <3>2, ViewsStay
  <2>3. CASE WritesDetails(j)
    <3>1. /\ pc[j] = "details" /\ pc'[j] = "done"
          /\ details' = [r \in DOMAIN view[j] |-> Detail(r, view[j][r])]
          /\ UNCHANGED <<index, albums, loans>>
      BY <2>3 DEF WritesDetails, Goes, Typed, dbVars
    <3>2. view[j] = IndexView /\ index = IndexView
      BY <1>1, <3>1 DEF PageInv
    <3>3. DOMAIN IndexView = Shelved
      BY DEF IndexView
    <3>4. details' = DetailView
      BY <3>1, <3>2, <3>3 DEF DetailView
    <3> QED BY <3>1, <3>2, <3>4, ViewsStay
  <2> QED BY <1>1, <1>4, <2>1, <2>2, <2>3 DEF BundleStep, JobReturns, LockTimesOut
<1> QED BY <1>1, <1>2, <1>3, <1>4 DEF OwnStep

-----------------------------------------------------------------------------
(* What a call that runs alone has done. *)

Answered(c) ==
    /\ arg[c].op = "add" => The(c) \in Shelved
    /\ arg[c].op = "remove" => The(c) \notin Shelved
    /\ arg[c].op = "lend" => The(c) \in loans
    /\ arg[c].op = "return" => The(c) \notin loans

AnswerInv ==
    \A c \in Calls : alone[c] =>
        /\ pc[c] = "art" => pend[c].rel = {The(c)}
        /\ pc[c] = "forget" => The(c) \notin Owned
        /\ pc[c] \in {"fetch"} \cup BundleStages => Answered(c)

LEMMA TheOne == \A r : (CHOOSE x \in {r} : TRUE) = r
OBVIOUS

LEMMA AnswerStays ==
    ASSUME NEW c \in Calls, UNCHANGED <<albums, loans, arg>>
    PROVE  Answered(c)' = Answered(c)
BY DEF Answered, The, Shelved

LEMMA LoanAnswered ==
    ASSUME Typed, NEW c \in Calls, NEW r \in Releases, LendRecord(c, r) \/ ReturnRecord(c, r)
    PROVE  Answered(c)' /\ pc'[c] = "reads"
<1>0. c \in Jobs
  BY DEF Jobs
<1>1. CASE LendRecord(c, r)
  <2>1. Called(c, "lend", {r}, FALSE, "reads") /\ loans' = loans \cup {r}
    BY <1>1 DEF LendRecord
  <2>2. arg'[c].op = "lend" /\ arg'[c].rels = {r}
    BY <2>1, CalledArg
  <2>3. (CHOOSE x \in arg'[c].rels : TRUE) = r
    BY <2>2, TheOne
  <2>4. pc'[c] = "reads"
    BY <1>0, <2>1 DEF Called, Begins, Typed
  <2> QED BY <2>1, <2>2, <2>3, <2>4 DEF Answered, The
<1>2. CASE ReturnRecord(c, r)
  <2>1. Called(c, "return", {r}, FALSE, "reads") /\ loans' = loans \ {r}
    BY <1>2 DEF ReturnRecord
  <2>2. arg'[c].op = "return" /\ arg'[c].rels = {r}
    BY <2>1, CalledArg
  <2>3. (CHOOSE x \in arg'[c].rels : TRUE) = r
    BY <2>2, TheOne
  <2>4. pc'[c] = "reads"
    BY <1>0, <2>1 DEF Called, Begins, Typed
  <2> QED BY <2>1, <2>2, <2>3, <2>4 DEF Answered, The
<1> QED BY <1>1, <1>2

LEMMA NextAnswer ==
    ASSUME Typed, Columns, AloneInv, StageInv, AnswerInv, [Next]_vars
    PROVE  AnswerInv'
<1> SUFFICES ASSUME NEW c \in Calls, alone'[c]
             PROVE  /\ pc'[c] = "art" => pend'[c].rel = {The(c)'}
                    /\ pc'[c] = "forget" => The(c)' \notin Owned'
                    /\ pc'[c] \in {"fetch"} \cup BundleStages => Answered(c)'
  BY DEF AnswerInv
<1>0. c \in Jobs /\ c # Sync
  BY VinylAssumption DEF Jobs
<1>1. OwnStep(c) /\ (pc[c] # "idle" => alone[c]) /\ ~Ends(c)
  BY <1>0, AloneStep
<1>2. UNCHANGED arg => The(c)' = The(c)
  BY DEF The
<1>3. CASE UNCHANGED vars
  <2>1. UNCHANGED <<discogs, albums, loans, arg, pc, pend, alone>>
    BY <1>3 DEF vars, dbVars, jobVars
  <2>2. alone[c] /\ Owned' = Owned
    BY <2>1 DEF Owned
  <2> QED BY <1>2, <2>1, <2>2, AnswerStays DEF AnswerInv
<1>4. CASE BundleStep(c)
  <2>1. /\ pc[c] \in BundleStages /\ pc'[c] \in BundleStages
        /\ UNCHANGED <<albums, loans, arg>>
    BY <1>0, <1>1, <1>4
       DEF BundleStep, ReadsRows, WritesIndex, WritesDetails, JobReturns, LockTimesOut, Goes, Typed,
           BundleStages, dbVars
  <2>2. pc[c] # "idle"
    BY <2>1 DEF BundleStages
  <2>3. Answered(c)
    BY <1>1, <2>1, <2>2 DEF AnswerInv
  <2> QED BY <2>1, <2>3, AnswerStays DEF BundleStages
<1>5. CASE CallStep(c)
  <2>1. CASE CallBegins(c)
    <3>1. ASSUME NEW r \in Releases, LendRecord(c, r) \/ ReturnRecord(c, r)
          PROVE  Answered(c)' /\ pc'[c] = "reads"
      BY <3>1, LoanAnswered
    <3>2. ASSUME ~\E r \in Releases : LendRecord(c, r) \/ ReturnRecord(c, r)
          PROVE  pc'[c] \in {"adding", "removing", "refile"}
      <4>1. PICK stage \in {"adding", "removing", "refile"} : Begins(c, stage)
        BY <2>1, <3>2 DEF CallBegins, AddRecord, RemoveRecord, SetCorrection, Called
      <4> QED BY <1>0, <4>1 DEF Begins, Typed
    <3> QED BY <3>1, <3>2 DEF BundleStages
  <2>2. CASE AddsCopy(c) \/ RemovesCopy(c)
    <3>1. pc'[c] \in {"file", "counts"}
      BY <1>0, <2>2 DEF AddsCopy, RemovesCopy, Goes, Typed
    <3> QED BY <3>1 DEF BundleStages
  <2>3. CASE Files(c)
    <3>1. pc'[c] = "art" /\ UNCHANGED arg
      BY <1>0, <2>3 DEF Files, Goes, Typed
    <3>2. PICK row \in Rows(overrides, The(c), arg[c].note) : pend' = [pend EXCEPT ![c] = row]
      BY <2>3 DEF Files
    <3>3. row.rel = {The(c)}
      BY DEF Rows
    <3>4. pend'[c] = row
      BY <1>0, <3>2 DEF Typed
    <3> QED BY <1>2, <3>1, <3>3, <3>4 DEF BundleStages
  <2>4. CASE AddStores(c)
    <3>1. pc[c] = "art" /\ pc'[c] = "fetch" /\ UNCHANGED arg
      BY <1>0, <2>4 DEF AddStores, Stores, Goes, Typed
    <3>2. PICK r \in pend[c].rel : albums' = Upserted(r, pend[c].album)
      BY <2>4 DEF AddStores, Stores
    <3>3. r = The(c)
      BY <1>1, <3>1 DEF AnswerInv
    <3>4. r \in Shelved'
      BY <3>2 DEF Upserted, Shelved
    <3>5. arg'[c].op = "add"
      BY <3>1 DEF StageInv
    <3> QED BY <1>2, <3>1, <3>3, <3>4, <3>5 DEF Answered
  <2>5. CASE Fetches(c)
    <3>1. pc[c] = "fetch" /\ pc'[c] = "reads" /\ UNCHANGED <<albums, loans, arg>>
      BY <1>0, <2>5 DEF Fetches, Goes, Typed
    <3>2. Answered(c)
      BY <1>1, <3>1 DEF AnswerInv
    <3> QED BY <3>1, <3>2, AnswerStays
  <2>6. CASE LastCopy(c)
    <3>1. pc'[c] = "forget" /\ The(c) \notin Owned /\ UNCHANGED <<discogs, arg>>
      BY <1>0, <2>6 DEF LastCopy, Goes, Typed
    <3>2. Owned' = Owned
      BY <3>1 DEF Owned
    <3> QED BY <1>2, <3>1, <3>2 DEF BundleStages
  <2>7. CASE Forgets(c)
    <3>1. /\ pc[c] = "forget" /\ pc'[c] = "reads" /\ UNCHANGED arg
          /\ albums' = [r \in Shelved \ {The(c)} |-> albums[r]]
      BY <1>0, <2>7 DEF Forgets, Goes, Typed
    <3>2. The(c)' \notin Shelved'
      BY <1>2, <3>1 DEF Shelved
    <3>3. arg'[c].op = "remove"
      BY <3>1 DEF Typed, Removal
    <3> QED BY <3>1, <3>2, <3>3 DEF Answered
  <2>8. CASE RefileAlbums(c)
    <3>1. pc[c] = "refile" /\ pc'[c] = "reads" /\ UNCHANGED arg
      BY <1>0, <2>8 DEF RefileAlbums, Goes, Typed
    <3>2. arg'[c].op = "correct"
      BY <3>1 DEF StageInv
    <3> QED BY <3>1, <3>2 DEF Answered
  <2>9. ~(CopiesLeft(c) \/ CallFails(c))
    BY <1>1 DEF CopiesLeft, CallFails
  <2> QED BY <1>5, <2>1, <2>2, <2>3, <2>4, <2>5, <2>6, <2>7, <2>8, <2>9 DEF CallStep, CallBegins
<1> QED BY <1>0, <1>1, <1>3, <1>4, <1>5 DEF OwnStep

-----------------------------------------------------------------------------
(* The types of the collection, the corrections, the scan and the views. *)

LEMMA DiscogsStep ==
    ASSUME [Next]_vars
    PROVE  UNCHANGED discogs \/ WebChange \/ \E c \in Calls : AddsCopy(c) \/ RemovesCopy(c)
<1>1. CASE UNCHANGED vars
  BY <1>1 DEF vars
<1>2. CASE SyncStep
  BY <1>2 DEF SyncStep, SyncBegins, ReadsPage, TakesItem, SyncStores, Stores, DeletesUnseen,
              Enriches, Enriched, SyncFails
<1>3. ASSUME NEW c \in Calls, CallStep(c) PROVE UNCHANGED discogs \/ AddsCopy(c) \/ RemovesCopy(c)
  <2>1. CASE CallBegins(c)
    BY <2>1 DEF CallBegins, AddRecord, RemoveRecord, LendRecord, ReturnRecord, SetCorrection, Called
  <2>2. CASE \/ Files(c) \/ AddStores(c) \/ Fetches(c) \/ CopiesLeft(c) \/ LastCopy(c)
             \/ Forgets(c) \/ RefileAlbums(c) \/ CallFails(c)
    BY <2>2 DEF Files, AddStores, Stores, Fetches, CopiesLeft, LastCopy, Forgets, RefileAlbums,
                CallFails
  <2> QED BY <1>3, <2>1, <2>2 DEF CallStep, CallBegins
<1>4. CASE (\E j \in Jobs : BundleStep(j)) \/ Starts \/ Crash
  BY <1>4 DEF BundleStep, ReadsRows, WritesIndex, WritesDetails, JobReturns, LockTimesOut,
              Starts, Crash
<1> QED BY <1>1, <1>2, <1>3, <1>4 DEF Next

LEMMA OneRemoved ==
    ASSUME NEW s \in Seq(Releases), NEW i \in DOMAIN s
    PROVE  RemoveAt(s, i) \in Seq(Releases)
<1>1. i \in 1..Len(s)
  OBVIOUS
<1>2. SubSeq(s, 1, i - 1) \in Seq(Releases) /\ SubSeq(s, i + 1, Len(s)) \in Seq(Releases)
  BY <1>1
<1> QED BY <1>2 DEF RemoveAt

LEMMA TheIsReleased ==
    ASSUME NEW c \in Calls, NEW r \in Releases, arg[c].rels = {r}
    PROVE  The(c) = r
BY TheOne DEF The

LEMMA DiscogsTyped ==
    ASSUME Typed, Columns, StageInv, [Next]_vars
    PROVE  discogs' \in Seq(Releases)
<1>1. CASE UNCHANGED discogs
  BY <1>1 DEF Columns
<1>2. ASSUME NEW c \in Calls, AddsCopy(c) PROVE discogs' \in Seq(Releases)
  <2>1. pc[c] = "adding" /\ discogs' = <<The(c)>> \o discogs
    BY <1>2 DEF AddsCopy, Goes
  <2>2. \E r \in Releases : arg[c].rels = {r}
    BY <2>1 DEF StageInv
  <2>3. The(c) \in Releases
    BY <2>2, TheIsReleased
  <2> QED BY <2>1, <2>3 DEF Columns
<1>3. ASSUME NEW c \in Calls, RemovesCopy(c) PROVE discogs' \in Seq(Releases)
  BY <1>3, OneRemoved DEF RemovesCopy, Columns
<1>4. CASE WebChange
  <2>1. ASSUME NEW r \in Releases, discogs' = <<r>> \o discogs PROVE discogs' \in Seq(Releases)
    BY <2>1 DEF Columns
  <2> QED BY <1>4, <2>1, OneRemoved DEF WebChange, Columns
<1> QED BY <1>1, <1>2, <1>3, <1>4, DiscogsStep

LEMMA ImportTyped == ASSUME NEW o \in Overrides PROVE Import(o) \in Overrides
BY VinylAssumption DEF Import, Overrides

LEMMA OverridesTyped ==
    ASSUME Columns, [Next]_vars
    PROVE  overrides' \in Overrides
<1>0. overrides \in Overrides
  BY DEF Columns
<1>1. CASE MigrateOverrides
  BY <1>0, <1>1, ImportTyped DEF MigrateOverrides
<1>2. CASE UNCHANGED vars
  BY <1>0, <1>2 DEF vars, dbVars
<1>3. CASE SyncStep
  BY <1>0, <1>1, <1>3 DEF SyncStep, SyncBegins, ReadsPage, TakesItem, SyncStores, Stores,
        DeletesUnseen, Enriches, Enriched, SyncFails, dbVars
<1>4. ASSUME NEW c \in Calls, CallStep(c) PROVE overrides' \in Overrides
  <2>1. CASE SetCorrection(c)
    <3>1. ASSUME NEW a \in Artists, NEW s \in {overrides.sort \cup {a}, overrides.sort \ {a}},
                 overrides' = [overrides EXCEPT !.sort = s]
          PROVE  overrides' \in Overrides
      BY <1>0, <3>1 DEF Overrides
    <3>2. ASSUME NEW r \in Releases,
                 NEW s \in {overrides.section \cup {r}, overrides.section \ {r}},
                 overrides' = [overrides EXCEPT !.section = s]
          PROVE  overrides' \in Overrides
      BY <1>0, <3>2 DEF Overrides
    <3> QED BY <2>1, <3>1, <3>2 DEF SetCorrection
  <2>2. CASE CallBegins(c) /\ ~SetCorrection(c)
    BY <1>0, <2>2 DEF CallBegins, AddRecord, RemoveRecord, LendRecord, ReturnRecord, dbVars
  <2>3. CASE \/ AddsCopy(c) \/ Files(c) \/ AddStores(c) \/ Fetches(c) \/ RemovesCopy(c)
             \/ CopiesLeft(c) \/ LastCopy(c) \/ Forgets(c) \/ RefileAlbums(c) \/ CallFails(c)
    BY <1>0, <2>3 DEF AddsCopy, Files, AddStores, Stores, Fetches, RemovesCopy, CopiesLeft,
          LastCopy, Forgets, RefileAlbums, CallFails, dbVars
  <2> QED BY <1>4, <2>1, <2>2, <2>3 DEF CallStep, CallBegins
<1>5. CASE (\E j \in Jobs : BundleStep(j)) \/ Starts \/ Crash \/ WebChange
  BY <1>0, <1>1, <1>5 DEF BundleStep, ReadsRows, WritesIndex, WritesDetails, JobReturns,
        LockTimesOut, Starts, Crash, WebChange, dbVars
<1> QED BY <1>2, <1>3, <1>4, <1>5 DEF Next

\* The views: a job reads one, or has none any more.
LEMMA ViewTyped ==
    ASSUME Columns, [Next]_vars
    PROVE  view' = [j \in Jobs |-> view'[j]]
<1>0. view = [j \in Jobs |-> view[j]]
  BY DEF Columns
<1>1. ASSUME NEW j, NEW v, view' = [view EXCEPT ![j] = v] PROVE view' = [k \in Jobs |-> view'[k]]
  BY <1>0, <1>1
<1>2. ASSUME NEW j, Ends(j) PROVE view' = [k \in Jobs |-> view'[k]]
  BY <1>1, <1>2 DEF Ends
<1>3. CASE UNCHANGED view
  BY <1>0, <1>3
<1>4. CASE UNCHANGED vars
  BY <1>3, <1>4 DEF vars, jobVars
<1>5. CASE SyncStep
  BY <1>2, <1>3, <1>5 DEF SyncStep, SyncBegins, ReadsPage, TakesItem, SyncStores, Stores,
        DeletesUnseen, Enriches, Enriched, SyncFails
<1>6. ASSUME NEW c \in Calls, CallStep(c) PROVE view' = [k \in Jobs |-> view'[k]]
  <2>1. CASE CallBegins(c)
    BY <1>3, <2>1 DEF CallBegins, AddRecord, RemoveRecord, LendRecord, ReturnRecord,
          SetCorrection, Called
  <2>2. CASE \/ AddsCopy(c) \/ Files(c) \/ AddStores(c) \/ Fetches(c) \/ RemovesCopy(c)
             \/ CopiesLeft(c) \/ LastCopy(c) \/ Forgets(c) \/ RefileAlbums(c) \/ CallFails(c)
    BY <1>2, <1>3, <2>2 DEF AddsCopy, Files, AddStores, Stores, Fetches, RemovesCopy, CopiesLeft,
          LastCopy, Forgets, RefileAlbums, CallFails
  <2> QED BY <1>6, <2>1, <2>2 DEF CallStep, CallBegins
<1>7. ASSUME NEW j \in Jobs, BundleStep(j) PROVE view' = [k \in Jobs |-> view'[k]]
  BY <1>1, <1>2, <1>3, <1>7 DEF BundleStep, ReadsRows, WritesIndex, WritesDetails, JobReturns,
        LockTimesOut
<1>8. CASE Crash
  BY <1>8 DEF Crash
<1>9. CASE Starts \/ WebChange
  BY <1>3, <1>9 DEF Starts, WebChange, jobVars
<1> QED BY <1>4, <1>5, <1>6, <1>7, <1>8, <1>9 DEF Next

\* The scan: it begins, reads a page, goes over an item, or is over.
ScanStep ==
    \/ UNCHANGED scan /\ (pc'[Sync] = "art" => pc[Sync] = "art" \/ scan.todo # <<>>)
    \/ scan' = NoScan /\ pc'[Sync] # "art"
    \/ SyncBegins \/ ReadsPage \/ SyncStores \/ DeletesUnseen \/ Enriches

LEMMA NextScanStep == ASSUME Typed, [Next]_vars PROVE ScanStep
<1> USE DEF ScanStep
<1>0. Sync \in Jobs /\ Sync \notin Calls
  BY VinylAssumption DEF Jobs
<1>1. CASE UNCHANGED vars
  BY <1>1 DEF vars, jobVars
<1>2. ASSUME NEW j \in Jobs, Ends(j) PROVE ScanStep
  <2>1. pc' = [pc EXCEPT ![j] = "idle"]
    BY <1>2 DEF Ends
  <2>2. pc'[j] = "idle" /\ (j # Sync => pc'[Sync] = pc[Sync])
    BY <1>0, <2>1 DEF Typed
  <2> QED BY <1>2, <2>2 DEF Ends
<1>3. ASSUME NEW c \in Calls, NEW from, NEW to, Goes(c, from, to), UNCHANGED scan PROVE ScanStep
  <2>1. pc'[Sync] = pc[Sync]
    BY <1>0, <1>3 DEF Goes, Typed
  <2> QED BY <1>3, <2>1
<1>4. CASE SyncStep
  <2>1. CASE TakesItem
    BY <2>1 DEF TakesItem
  <2>2. CASE Enriched
    BY <1>0, <2>2 DEF Enriched, Goes, Typed
  <2> QED BY <1>0, <1>2, <1>4, <2>1, <2>2 DEF SyncStep, SyncFails
<1>5. ASSUME NEW c \in Calls, CallStep(c) PROVE ScanStep
  <2>1. CASE CallBegins(c)
    <3>1. UNCHANGED scan /\ \E stage : pc' = [pc EXCEPT ![c] = stage]
      BY <2>1 DEF CallBegins, AddRecord, RemoveRecord, LendRecord, ReturnRecord, SetCorrection,
            Called, Begins
    <3>2. pc'[Sync] = pc[Sync]
      BY <1>0, <3>1 DEF Typed
    <3> QED BY <3>1, <3>2
  <2>2. CASE \/ AddsCopy(c) \/ Files(c) \/ AddStores(c) \/ Fetches(c) \/ RemovesCopy(c)
             \/ LastCopy(c) \/ Forgets(c) \/ RefileAlbums(c)
    BY <1>3, <2>2 DEF AddsCopy, Files, AddStores, Stores, Fetches, RemovesCopy, LastCopy, Forgets,
          RefileAlbums
  <2>3. CASE CopiesLeft(c) \/ CallFails(c)
    BY <1>2, <2>3 DEF CopiesLeft, CallFails, Jobs
  <2> QED BY <1>5, <2>1, <2>2, <2>3 DEF CallStep, CallBegins
<1>6. ASSUME NEW j \in Jobs, BundleStep(j) PROVE ScanStep
  <2>1. CASE ReadsRows(j) \/ WritesIndex(j) \/ WritesDetails(j)
    <3>1. (\E from, to : Goes(j, from, to) /\ to # "art") /\ UNCHANGED scan
      BY <2>1 DEF ReadsRows, WritesIndex, WritesDetails
    <3>2. pc'[Sync] = "art" => pc[Sync] = "art"
      BY <1>0, <3>1 DEF Goes, Typed
    <3> QED BY <3>1, <3>2
  <2>2. CASE JobReturns(j) \/ LockTimesOut(j)
    BY <1>2, <2>2 DEF JobReturns, LockTimesOut
  <2> QED BY <1>6, <2>1, <2>2 DEF BundleStep
<1>7. CASE Starts \/ WebChange
  BY <1>7 DEF Starts, WebChange, jobVars
<1>8. CASE Crash
  BY <1>0, <1>8 DEF Crash
<1> QED BY <1>1, <1>4, <1>5, <1>6, <1>7, <1>8 DEF Next

LEMMA NoScanTyped == NoScan \in Scans
<1>1. [sort |-> {}, section |-> {}] \in Overrides
  BY DEF Overrides
<1> QED BY <1>1 DEF NoScan, Scans

\* The items of a page: those of the collection from first to last.
LEMMA PageItems ==
    ASSUME NEW s \in Seq(Releases), NEW first \in Nat \ {0}, NEW last \in Nat, last <= Len(s)
    PROVE  /\ SubSeq(s, first, last) \in Seq(Releases)
           /\ Range(SubSeq(s, first, last)) = {s[i] : i \in first..last}
<1>1. \A i \in first..last : s[i] \in Releases
  OBVIOUS
<1>2. /\ SubSeq(s, first, last) \in Seq(Releases)
      /\ Len(SubSeq(s, first, last)) = IF first <= last THEN last - first + 1 ELSE 0
      /\ \A i \in 1..last - first + 1 : SubSeq(s, first, last)[i] = s[first + i - 1]
  BY <1>1, SubSeqProperties
<1> DEFINE page == SubSeq(s, first, last)
<1> HIDE DEF page
<1>3. Range(page) = {page[i] : i \in 1..Len(page)}
  BY <1>2, RangeEquality DEF page
<1>4. \A i \in 1..Len(page) : first + i - 1 \in first..last /\ page[i] = s[first + i - 1]
  BY <1>2 DEF page
<1>5. ASSUME NEW i \in first..last PROVE s[i] \in Range(page)
  <2>1. i - first + 1 \in 1..Len(page)
    BY <1>2 DEF page
  <2>2. page[i - first + 1] = s[i]
    BY <1>4, <2>1
  <2> QED BY <1>3, <2>1, <2>2
<1>6. Range(page) = {s[i] : i \in first..last}
  BY <1>3, <1>4, <1>5
<1> QED BY <1>2, <1>6 DEF page

\* The items of the pages that were not read yet.
Rest ==
    IF scan.more THEN {discogs[i] : i \in ((scan.page - 1) * PageSize + 1)..Len(discogs)} ELSE {}

LEMMA PageBounds ==
    ASSUME NEW n \in Nat \ {0}
    PROVE  /\ (n - 1) * PageSize + 1 \in Nat \ {0} /\ n * PageSize \in Nat
           /\ (n - 1) * PageSize + 1 <= n * PageSize
<1>0. PageSize \in Nat /\ PageSize >= 1
  BY VinylAssumption
<1>1. n - 1 \in Nat
  OBVIOUS
<1>2. \A a, b \in Nat : a * b \in Nat
  OBVIOUS
<1>3. n * PageSize = (n - 1) * PageSize + PageSize
  BY <1>0
<1>4. (n - 1) * PageSize \in Nat /\ n * PageSize \in Nat
  BY <1>0, <1>1, <1>2
<1> DEFINE a == (n - 1) * PageSize
           b == n * PageSize
<1> HIDE DEF a, b
<1>5. b = a + PageSize /\ a \in Nat /\ b \in Nat
  BY <1>3, <1>4 DEF a, b
<1>6. a + 1 \in Nat \ {0} /\ a + 1 <= b
  BY <1>0, <1>5
<1> QED BY <1>5, <1>6 DEF a, b

\* A page takes its items from those that were left.
LEMMA PageIsRead ==
    ASSUME Columns, ReadsPage
    PROVE  /\ scan' \in Scans
           /\ Range(scan'.todo) \cup Rest' = Rest
           /\ scan'.overrides = scan.overrides /\ scan'.seen = scan.seen
<1>0. discogs \in Seq(Releases) /\ scan \in Scans /\ scan.page \in Nat \ {0} /\ Len(discogs) \in Nat
  BY DEF Columns, Scans
<1> DEFINE first == (scan.page - 1) * PageSize + 1
           last == scan.page * PageSize
           end == IF last < Len(discogs) THEN last ELSE Len(discogs)
           items == SubSeq(discogs, first, end)
<1>1. first \in Nat \ {0} /\ last \in Nat /\ first <= last
  BY <1>0, PageBounds
<1>2. scan' = [scan EXCEPT !.todo = items, !.more = last < Len(discogs), !.page = @ + 1]
  BY DEF ReadsPage
<1>3. scan.more /\ discogs' = discogs
  BY DEF ReadsPage
<1> HIDE DEF first
<1>4. end \in Nat /\ end <= Len(discogs)
  BY <1>0, <1>1
<1>5. items \in Seq(Releases) /\ Range(items) = {discogs[i] : i \in first..end}
  BY <1>0, <1>1, <1>4, PageItems
<1> HIDE DEF items
<1>6. scan' \in Scans
  <2> DEFINE more == last < Len(discogs)
             page == scan.page + 1
  <2>1. more \in BOOLEAN /\ page \in Nat \ {0}
    BY <1>0
  <2>2. scan' = [scan EXCEPT !.todo = items, !.more = more, !.page = page]
    BY <1>2
  <2> HIDE DEF more, page
  <2> QED BY <1>0, <1>5, <2>1, <2>2 DEF Scans
<1>7. /\ scan'.todo = items /\ scan'.more = (last < Len(discogs)) /\ scan'.page = scan.page + 1
      /\ scan'.overrides = scan.overrides /\ scan'.seen = scan.seen
  BY <1>0, <1>2 DEF Scans
<1>8. Rest = {discogs[i] : i \in first..Len(discogs)}
  BY <1>3 DEF Rest, first
<1>9. (scan'.page - 1) * PageSize + 1 = last + 1
  BY <1>0, <1>7
<1>10. Rest' = IF last < Len(discogs) THEN {discogs[i] : i \in (last + 1)..Len(discogs)} ELSE {}
  BY <1>3, <1>7, <1>9 DEF Rest
<1> HIDE DEF last
<1>11. Range(scan'.todo) \cup Rest' = Rest
  BY <1>0, <1>1, <1>5, <1>7, <1>8, <1>10
<1> QED BY <1>6, <1>7, <1>11

LEMMA OneItem == ASSUME NEW r \in Releases PROVE Range(<<r>>) = {r} /\ <<r>> \in Seq(Releases)
<1>1. <<r>> \in Seq(Releases) /\ Len(<<r>>) = 1 /\ <<r>>[1] = r
  OBVIOUS
<1>2. Range(<<r>>) = {<<r>>[i] : i \in 1..Len(<<r>>)}
  BY <1>1, RangeEquality
<1> QED BY <1>1, <1>2

LEMMA HeadFirst ==
    ASSUME NEW s \in Seq(Releases), s # <<>>
    PROVE  Range(s) = {Head(s)} \cup Range(Tail(s))
<1>1. /\ Tail(s) \in Seq(Releases) /\ Len(Tail(s)) = Len(s) - 1 /\ Len(s) \in Nat \ {0}
      /\ \A i \in 1..Len(Tail(s)) : Tail(s)[i] = s[i + 1]
  BY HeadTailProperties
<1>2. Range(s) = {s[i] : i \in 1..Len(s)} /\ Range(Tail(s)) = {Tail(s)[i] : i \in 1..Len(Tail(s))}
  BY <1>1, RangeEquality
<1>3. Head(s) = s[1] /\ 1 \in 1..Len(s)
  BY <1>1
<1>4. ASSUME NEW i \in 1..Len(s), i # 1 PROVE s[i] \in Range(Tail(s))
  <2>1. i - 1 \in 1..Len(Tail(s)) /\ Tail(s)[i - 1] = s[i]
    BY <1>1, <1>4
  <2> QED BY <1>2, <2>1
<1>5. \A i \in 1..Len(Tail(s)) : i + 1 \in 1..Len(s)
  BY <1>1
<1>6. Range(Tail(s)) \subseteq Range(s)
  BY <1>1, <1>2, <1>5
<1> QED BY <1>2, <1>3, <1>4, <1>6

\* An item that is stored goes from those to do to those seen.
LEMMA ItemIsSeen ==
    ASSUME Columns, SyncStores
    PROVE  /\ scan' \in Scans
           /\ Range(scan'.seen) = Range(scan.seen) \cup {Head(scan.todo)}
           /\ Range(scan'.seen) \cup Range(scan'.todo) = Range(scan.seen) \cup Range(scan.todo)
           /\ scan'.overrides = scan.overrides /\ Rest' = Rest
<1> DEFINE r == Head(scan.todo)
           seen == IF Contains(scan.seen, r) THEN scan.seen ELSE Append(scan.seen, r)
<1>0. /\ scan \in Scans /\ scan.todo \in Seq(Releases) /\ scan.seen \in Seq(Releases)
      /\ discogs' = discogs
  BY DEF Columns, Scans, SyncStores, Stores
<1>1. scan.todo # <<>>
  BY DEF Columns, SyncStores, Stores, Goes
<1>2. scan' = [scan EXCEPT !.todo = Tail(@), !.seen = seen]
  BY DEF SyncStores
<1>3. r \in Releases /\ Tail(scan.todo) \in Seq(Releases)
  BY <1>0, <1>1, HeadTailProperties
<1> HIDE DEF r
<1>4. seen \in Seq(Releases) /\ Range(seen) = Range(scan.seen) \cup {r}
  <2>1. CASE Contains(scan.seen, r)
    <3>1. r \in Range(scan.seen)
      BY <1>0, <2>1 DEF Contains, Range
    <3> QED BY <1>0, <2>1, <3>1
  <2>2. CASE ~Contains(scan.seen, r)
    <3>1. <<r>> \in Seq(Releases) /\ Append(scan.seen, r) = scan.seen \o <<r>>
      BY <1>0, <1>3
    <3>2. Range(<<r>>) = {r}
      BY <1>3, OneItem
    <3>3. Range(scan.seen \o <<r>>) = Range(scan.seen) \cup Range(<<r>>)
      BY <1>0, <3>1, RangeConcatenation
    <3>4. seen = Append(scan.seen, r) /\ Append(scan.seen, r) \in Seq(Releases)
      BY <1>0, <1>3, <2>2, AppendProperties
    <3> QED BY <3>1, <3>2, <3>3, <3>4
  <2> QED BY <2>1, <2>2
<1>5. Range(scan.todo) = {r} \cup Range(Tail(scan.todo))
  BY <1>0, <1>1, HeadFirst DEF r
<1> HIDE DEF seen
<1>6. scan' \in Scans
  BY <1>0, <1>2, <1>3, <1>4 DEF Scans
<1>7. /\ scan'.seen = seen /\ scan'.todo = Tail(scan.todo) /\ scan'.overrides = scan.overrides
      /\ scan'.more = scan.more /\ scan'.page = scan.page
  BY <1>0, <1>2 DEF Scans
<1>8. Rest' = Rest
  BY <1>0, <1>7 DEF Rest
<1> QED BY <1>4, <1>5, <1>6, <1>7, <1>8 DEF r

LEMMA NextColumns ==
    ASSUME Typed, Columns, StageInv, [Next]_vars
    PROVE  Columns'
<1>0. Sync \in Jobs /\ scan \in Scans
  BY DEF Jobs, Columns
<1>1. scan' \in Scans /\ (pc'[Sync] = "art" => scan'.todo # <<>>)
  <2>1. CASE UNCHANGED scan /\ (pc'[Sync] = "art" => pc[Sync] = "art" \/ scan.todo # <<>>)
    BY <2>1 DEF Columns
  <2>2. CASE scan' = NoScan /\ pc'[Sync] # "art"
    BY <2>2, NoScanTyped
  <2>3. CASE SyncBegins
    <3>1. overrides' \in Overrides
      BY OverridesTyped
    <3>2. scan' = [NoScan EXCEPT !.overrides = overrides', !.more = TRUE]
      BY <2>3 DEF SyncBegins
    <3>3. scan' \in Scans
      BY <3>1, <3>2, NoScanTyped DEF Scans
    <3>4. pc'[Sync] = "list"
      BY <1>0, <2>3 DEF SyncBegins, Begins, Typed
    <3> QED BY <3>3, <3>4
  <2>4. CASE ReadsPage
    <3>1. pc'[Sync] = "list"
      BY <1>0, <2>4 DEF ReadsPage, Goes, Typed
    <3> QED BY <2>4, <3>1, PageIsRead
  <2>5. CASE SyncStores
    <3>1. pc'[Sync] = "list"
      BY <1>0, <2>5 DEF SyncStores, Stores, Goes, Typed
    <3> QED BY <2>5, <3>1, ItemIsSeen
  <2>6. CASE DeletesUnseen
    <3>1. pc'[Sync] = "enrich" /\ scan' = [scan EXCEPT !.left = scan.seen]
      BY <1>0, <2>6 DEF DeletesUnseen, Goes, Typed
    <3> QED BY <1>0, <3>1 DEF Scans
  <2>7. CASE Enriches
    <3>1. /\ pc'[Sync] = "enrich" /\ scan' = [scan EXCEPT !.left = Tail(@)] /\ scan.left # <<>>
      BY <2>7 DEF Enriches
    <3>2. Tail(scan.left) \in Seq(Releases)
      BY <1>0, <3>1, HeadTailProperties DEF Scans
    <3> QED BY <1>0, <3>1, <3>2 DEF Scans
  <2> QED BY <2>1, <2>2, <2>3, <2>4, <2>5, <2>6, <2>7, NextScanStep DEF ScanStep
<1> QED BY <1>1, DiscogsTyped, OverridesTyped, ViewTyped DEF Columns

-----------------------------------------------------------------------------
(* The rows of a sync that runs alone. *)

\* A row is filed by the corrections, and by the answers that are known.
FiledBy(r, album, known) ==
    /\ album.sort = "manual" <=> CreditOf[r] \in overrides.sort
    /\ album.sort = "musicbrainz" => CreditOf[r] \in known
    /\ album.section = SectionOf(overrides, r, album.sort)
Filed(r) == FiledBy(r, albums[r], artists)

\* The answers that are known once the row is stored.
KnownWith(r, row) == artists \cup (IF row.fresh THEN {CreditOf[r]} ELSE {})
Fits(r, row) == row.rel = {r} /\ FiledBy(r, row.album, KnownWith(r, row))

\* While the collection is read, each release of it was seen, is to do, or is on
\* a page that comes; those that were seen have their rows.
ScanInv ==
    alone[Sync] /\ pc[Sync] \in {"list", "art"} =>
        /\ Owned = Range(scan.seen) \cup Range(scan.todo) \cup Rest
        /\ scan.overrides = overrides
        /\ \A r \in Range(scan.seen) : r \in Shelved /\ Filed(r)
        /\ pc[Sync] = "art" => Fits(Head(scan.todo), pend[Sync])

\* Then the shelf is as the collection is.
SettledInv ==
    alone[Sync] /\ pc[Sync] \in {"enrich"} \cup BundleStages =>
        Shelved = Owned /\ \A r \in Shelved : Filed(r)

LEMMA RowFits ==
    ASSUME NEW r, NEW note, NEW row \in Rows(overrides, r, note)
    PROVE  Fits(r, row)
<1>1. PICK s \in Resolutions(overrides, CreditOf[r]) :
          row = [rel |-> {r},
                 album |-> [sort |-> s.sort, section |-> SectionOf(overrides, r, s.sort),
                            note |-> note],
                 fresh |-> s.fresh]
  BY DEF Rows
<1>2. /\ row.rel = {r} /\ row.fresh = s.fresh
      /\ row.album.sort = s.sort /\ row.album.section = SectionOf(overrides, r, s.sort)
  BY <1>1
<1>3. /\ s.sort = "manual" <=> CreditOf[r] \in overrides.sort
      /\ s.sort = "musicbrainz" => CreditOf[r] \in artists \/ s.fresh
  BY DEF Resolutions
<1> QED BY <1>2, <1>3 DEF Fits, FiledBy, KnownWith

LEMMA FiledStays ==
    ASSUME UNCHANGED <<albums, artists, overrides>>
    PROVE  \A r : Filed(r)' = Filed(r)
BY DEF Filed, FiledBy, SectionOf

\* A sync begins with the whole collection before it.
LEMMA ScanBegins ==
    ASSUME Columns, Typed, SyncBegins
    PROVE  /\ Owned' = Range(scan'.seen) \cup Range(scan'.todo) \cup Rest'
           /\ scan'.overrides = overrides'
           /\ Range(scan'.seen) = {} /\ pc'[Sync] = "list"
<1>1. scan' = [NoScan EXCEPT !.overrides = overrides', !.more = TRUE] /\ discogs' = discogs
  BY DEF SyncBegins
<1>2. /\ scan'.overrides = overrides' /\ scan'.more /\ scan'.page = 1
      /\ scan'.todo = <<>> /\ scan'.seen = <<>>
  BY <1>1 DEF NoScan
<1>3. Range(<<>>) = {}
  BY DEF Range
<1>4. discogs \in Seq(Releases) /\ PageSize \in Nat
  BY VinylAssumption DEF Columns
<1>5. Rest' = {discogs[i] : i \in 1..Len(discogs)}
  <2>1. (1 - 1) * PageSize + 1 = 1
    BY <1>4
  <2> QED BY <1>1, <1>2, <2>1 DEF Rest
<1>6. Owned' = {discogs[i] : i \in 1..Len(discogs)}
  BY <1>1, <1>4, RangeEquality DEF Owned
<1>7. pc'[Sync] = "list"
  BY DEF SyncBegins, Begins, Typed, Jobs
<1> QED BY <1>2, <1>3, <1>5, <1>6, <1>7

\* The row that is stored is filed as it was looked up, and the others stay.
LEMMA RowIsFiled ==
    ASSUME Typed, SyncStores, NEW r, Fits(r, pend[Sync])
    PROVE  /\ r \in Shelved' /\ Filed(r)'
           /\ \A x \in Shelved : Filed(x) => x \in Shelved' /\ Filed(x)'
<1>1. pend[Sync].rel = {r} /\ FiledBy(r, pend[Sync].album, KnownWith(r, pend[Sync]))
  BY DEF Fits
<1>2. /\ albums' = Upserted(r, pend[Sync].album)
      /\ artists' = KnownWith(r, pend[Sync])
      /\ overrides' = overrides
  BY <1>1 DEF SyncStores, Stores, KnownWith
<1>3. pend[Sync].album \in Filing
  BY DEF SyncStores, Stores, Goes, Typed, Jobs
<1> DEFINE album == pend[Sync].album
           new == [album EXCEPT !.note = @ \/ (r \in Shelved /\ albums[r].note)]
<1>4. new.sort = album.sort /\ new.section = album.section
  BY <1>3 DEF Filing
<1>5. albums' = [x \in Shelved \cup {r} |-> IF x # r THEN albums[x] ELSE new]
  BY <1>2 DEF Upserted
<1> HIDE DEF new
<1>6. Shelved' = Shelved \cup {r}
  BY <1>5 DEF Shelved
<1>7. albums'[r] = new /\ \A x \in Shelved \ {r} : albums'[x] = albums[x]
  BY <1>5
<1>8. Filed(r)'
  BY <1>1, <1>2, <1>4, <1>7 DEF Filed, FiledBy, SectionOf
<1>9. artists \subseteq artists'
  BY <1>2 DEF KnownWith
<1>10. ASSUME NEW x \in Shelved, x # r, Filed(x) PROVE Filed(x)'
  BY <1>2, <1>7, <1>9, <1>10 DEF Filed, FiledBy, SectionOf
<1> QED BY <1>6, <1>8, <1>10

LEMMA NextScan ==
    ASSUME Typed, Columns, AloneInv, ScanInv, [Next]_vars
    PROVE  ScanInv'
<1> SUFFICES ASSUME alone'[Sync], pc'[Sync] \in {"list", "art"}
             PROVE  /\ Owned' = Range(scan'.seen) \cup Range(scan'.todo) \cup Rest'
                    /\ scan'.overrides = overrides'
                    /\ \A r \in Range(scan'.seen) : r \in Shelved' /\ Filed(r)'
                    /\ pc'[Sync] = "art" => Fits(Head(scan.todo), pend[Sync])'
  BY DEF ScanInv
<1>0. Sync \in Jobs /\ Sync \notin Calls
  BY VinylAssumption DEF Jobs
<1>1. OwnStep(Sync) /\ (pc[Sync] # "idle" => alone[Sync]) /\ ~Ends(Sync)
  BY <1>0, AloneStep
<1>2. CASE UNCHANGED vars
  <2>1. UNCHANGED <<discogs, albums, artists, overrides, scan, pc, pend, alone>>
    BY <1>2 DEF vars, dbVars, jobVars
  <2>2. /\ Owned' = Owned /\ Rest' = Rest /\ Shelved' = Shelved
        /\ (Fits(Head(scan.todo), pend[Sync]))' = Fits(Head(scan.todo), pend[Sync])
    BY <2>1 DEF Owned, Rest, Shelved, Fits, FiledBy, KnownWith, SectionOf
  <2> QED BY <2>1, <2>2, FiledStays DEF ScanInv
<1>3. CASE BundleStep(Sync)
  <2>1. pc'[Sync] \in {"index", "details", "done"}
    BY <1>0, <1>1, <1>3
       DEF BundleStep, ReadsRows, WritesIndex, WritesDetails, JobReturns, LockTimesOut, Goes, Typed
  <2> QED BY <2>1
<1>4. CASE SyncStep
  <2>1. CASE SyncBegins
    BY <2>1, ScanBegins
  <2>2. CASE ReadsPage
    <3>1. /\ pc[Sync] = "list" /\ pc'[Sync] = "list" /\ scan.todo = <<>>
          /\ UNCHANGED <<discogs, albums, artists, overrides>>
      BY <1>0, <2>2 DEF ReadsPage, Goes, Typed, dbVars
    <3>2. /\ Owned = Range(scan.seen) \cup Range(scan.todo) \cup Rest
          /\ scan.overrides = overrides
          /\ \A r \in Range(scan.seen) : r \in Shelved /\ Filed(r)
      BY <1>1, <3>1 DEF ScanInv
    <3>3. Range(<<>>) = {}
      BY DEF Range
    <3>4. Owned' = Owned /\ Shelved' = Shelved
      BY <3>1 DEF Owned, Shelved
    <3>5. /\ Range(scan'.todo) \cup Rest' = Rest
          /\ scan'.overrides = scan.overrides /\ scan'.seen = scan.seen
      BY <2>2, PageIsRead
    <3> QED BY <3>1, <3>2, <3>3, <3>4, <3>5, FiledStays
  <2>3. CASE TakesItem
    <3>1. /\ pc[Sync] = "list" /\ pc'[Sync] = "art"
          /\ UNCHANGED <<discogs, albums, artists, overrides, scan>>
      BY <1>0, <2>3 DEF TakesItem, Goes, Typed, dbVars
    <3>2. /\ Owned = Range(scan.seen) \cup Range(scan.todo) \cup Rest
          /\ scan.overrides = overrides
          /\ \A r \in Range(scan.seen) : r \in Shelved /\ Filed(r)
      BY <1>1, <3>1 DEF ScanInv
    <3>3. PICK row \in Rows(scan.overrides, Head(scan.todo), FALSE) :
              pend' = [pend EXCEPT ![Sync] = row]
      BY <2>3 DEF TakesItem
    <3>4. pend'[Sync] = row
      BY <1>0, <3>3 DEF Typed
    <3>5. Fits(Head(scan.todo), row)
      BY <3>2, RowFits
    <3>6. Fits(Head(scan.todo), pend[Sync])'
      BY <3>1, <3>4, <3>5 DEF Fits, FiledBy, KnownWith, SectionOf
    <3>7. Owned' = Owned /\ Shelved' = Shelved /\ Rest' = Rest
      BY <3>1 DEF Owned, Shelved, Rest
    <3> QED BY <3>1, <3>2, <3>6, <3>7, FiledStays
  <2>4. CASE SyncStores
    <3>1. /\ pc[Sync] = "art" /\ pc'[Sync] = "list"
          /\ UNCHANGED <<discogs, overrides>>
      BY <1>0, <2>4 DEF SyncStores, Stores, Goes, Typed
    <3>2. /\ Owned = Range(scan.seen) \cup Range(scan.todo) \cup Rest
          /\ scan.overrides = overrides
          /\ \A r \in Range(scan.seen) : r \in Shelved /\ Filed(r)
          /\ Fits(Head(scan.todo), pend[Sync])
      BY <1>1, <3>1 DEF ScanInv
    <3>3. /\ Range(scan'.seen) = Range(scan.seen) \cup {Head(scan.todo)}
          /\ Range(scan'.seen) \cup Range(scan'.todo) = Range(scan.seen) \cup Range(scan.todo)
          /\ scan'.overrides = scan.overrides /\ Rest' = Rest
      BY <2>4, ItemIsSeen
    <3>h. PICK h : h = Head(scan.todo)
      OBVIOUS
    <3>4. /\ h \in Shelved' /\ Filed(h)'
          /\ \A x \in Shelved : Filed(x) => x \in Shelved' /\ Filed(x)'
      BY <2>4, <3>2, <3>h, RowIsFiled
    <3>5. Owned' = Owned
      BY <3>1 DEF Owned
    <3> QED BY <3>1, <3>2, <3>3, <3>h, <3>4, <3>5
  <2>5. CASE DeletesUnseen \/ Enriches \/ Enriched
    <3>1. pc'[Sync] \in {"enrich", "reads"}
      BY <1>0, <2>5 DEF DeletesUnseen, Enriches, Enriched, Goes, Typed
    <3> QED BY <3>1
  <2> QED BY <1>1, <1>4, <2>1, <2>2, <2>3, <2>4, <2>5 DEF SyncStep, SyncFails
<1> QED BY <1>0, <1>1, <1>2, <1>3, <1>4 DEF OwnStep

LEMMA NextSettled ==
    ASSUME Typed, Columns, AloneInv, StageInv, ScanInv, SettledInv, [Next]_vars
    PROVE  SettledInv'
<1> SUFFICES ASSUME alone'[Sync], pc'[Sync] \in {"enrich"} \cup BundleStages
             PROVE  Shelved' = Owned' /\ \A r \in Shelved' : Filed(r)'
  BY DEF SettledInv
<1>0. Sync \in Jobs /\ Sync \notin Calls
  BY VinylAssumption DEF Jobs
<1>1. OwnStep(Sync) /\ (pc[Sync] # "idle" => alone[Sync]) /\ ~Ends(Sync)
  BY <1>0, AloneStep
<1>2. ASSUME pc[Sync] \in {"enrich"} \cup BundleStages,
             UNCHANGED <<discogs, albums, artists, overrides>>
      PROVE  Shelved' = Owned' /\ \A r \in Shelved' : Filed(r)'
  <2>1. pc[Sync] # "idle"
    BY <1>2 DEF BundleStages
  <2>2. Shelved = Owned /\ \A r \in Shelved : Filed(r)
    BY <1>1, <1>2, <2>1 DEF SettledInv
  <2>3. Shelved' = Shelved /\ Owned' = Owned
    BY <1>2 DEF Shelved, Owned
  <2> QED BY <1>2, <2>2, <2>3, FiledStays
<1>3. CASE UNCHANGED vars
  BY <1>2, <1>3 DEF vars, dbVars, jobVars
<1>4. CASE BundleStep(Sync)
  <2>1. /\ pc[Sync] \in {"reads", "index", "details"}
        /\ UNCHANGED <<discogs, albums, artists, overrides>>
    BY <1>1, <1>4
       DEF BundleStep, ReadsRows, WritesIndex, WritesDetails, JobReturns, LockTimesOut, Goes, dbVars
  <2> QED BY <1>2, <2>1 DEF BundleStages
<1>5. CASE SyncStep
  <2>1. CASE SyncBegins \/ ReadsPage \/ TakesItem
    <3>1. pc'[Sync] \in {"list", "art"}
      BY <1>0, <2>1 DEF SyncBegins, Begins, ReadsPage, TakesItem, Goes, Typed
    <3> QED BY <3>1 DEF BundleStages
  <2>2. CASE SyncStores
    <3>1. pc'[Sync] = "list"
      BY <1>0, <2>2 DEF SyncStores, Stores, Goes, Typed
    <3> QED BY <3>1 DEF BundleStages
  <2>3. CASE DeletesUnseen
    <3>1. /\ pc[Sync] = "list" /\ scan.todo = <<>> /\ ~scan.more
          /\ albums' = [r \in Shelved \cap Range(scan.seen) |-> albums[r]]
          /\ UNCHANGED <<discogs, artists, overrides>>
      BY <2>3 DEF DeletesUnseen, Goes
    <3>2. /\ Owned = Range(scan.seen) \cup Range(scan.todo) \cup Rest
          /\ \A r \in Range(scan.seen) : r \in Shelved /\ Filed(r)
      BY <1>1, <3>1 DEF ScanInv
    <3>3. Rest = {} /\ Range(<<>>) = {}
      BY <3>1 DEF Rest, Range
    <3>4. Owned' = Owned /\ Owned = Range(scan.seen)
      BY <3>1, <3>2, <3>3 DEF Owned
    <3>5. Shelved' = Range(scan.seen) /\ \A r \in Range(scan.seen) : albums'[r] = albums[r]
      BY <3>1, <3>2 DEF Shelved
    <3>6. \A r \in Range(scan.seen) : Filed(r)'
      BY <3>1, <3>2, <3>5 DEF Filed, FiledBy, SectionOf
    <3> QED BY <3>4, <3>5, <3>6
  <2>4. CASE Enriches \/ Enriched
    <3>1. pc[Sync] = "enrich" /\ UNCHANGED <<discogs, albums, artists, overrides>>
      BY <2>4 DEF Enriches, Enriched, Goes, dbVars
    <3> QED BY <1>2, <3>1
  <2> QED BY <1>1, <1>5, <2>1, <2>2, <2>3, <2>4 DEF SyncStep, SyncFails
<1> QED BY <1>0, <1>1, <1>3, <1>4, <1>5 DEF OwnStep

-----------------------------------------------------------------------------
(* The inductive invariant. *)

QuietInv ==
    /\ Typed /\ Columns /\ AloneInv /\ StageInv
    /\ PageInv /\ AnswerInv /\ ScanInv /\ SettledInv

LEMMA InitColumns == Init => Columns
<1> SUFFICES ASSUME Init PROVE Columns
  OBVIOUS
<1>1. discogs \in Seq(Releases)
  <2>1. PICK S \in SUBSET Releases : discogs \in SetToSeqs(S)
    BY DEF Init, SetToAllKPermutations
  <2>2. discogs \in [1..Cardinality(S) -> S]
    BY <2>1 DEF SetToSeqs
  <2>3. Cardinality(S) \in Nat
    BY VinylAssumption, FS_Subset, FS_CardinalityType
  <2>4. discogs \in Seq(S)
    BY <2>2, <2>3, SeqDef
  <2> QED BY <2>4, SeqMonotonic
<1>2. overrides \in Overrides
  BY DEF Init, Overrides
<1>3. scan \in Scans /\ pc[Sync] # "art" /\ view = [j \in Jobs |-> view[j]]
  BY NoScanTyped DEF Init, Jobs
<1> QED BY <1>1, <1>2, <1>3 DEF Columns

LEMMA InitQuiet == Init => QuietInv
<1> SUFFICES ASSUME Init PROVE QuietInv
  OBVIOUS
<1>1. \A j \in Jobs : ~alone[j]
  BY DEF Init
<1>2. Calls \subseteq Jobs /\ Sync \in Jobs
  BY DEF Jobs
<1>3. PageInv /\ AnswerInv /\ ScanInv /\ SettledInv
  BY <1>1, <1>2 DEF PageInv, AnswerInv, ScanInv, SettledInv
<1> QED BY <1>3, InitTyped, InitColumns, InitStage DEF QuietInv

LEMMA NextQuiet == QuietInv /\ [Next]_vars => QuietInv'
<1> SUFFICES ASSUME QuietInv, [Next]_vars PROVE QuietInv'
  OBVIOUS
<1>1. Typed /\ Columns /\ AloneInv /\ StageInv /\ PageInv /\ AnswerInv /\ ScanInv /\ SettledInv
  BY DEF QuietInv
<1>2. Typed' /\ Columns' /\ AloneInv' /\ StageInv'
  BY <1>1, NextTyped, NextColumns, NextStageStep, StageKeeps
<1>3. PageInv' /\ AnswerInv' /\ ScanInv' /\ SettledInv'
  BY <1>1, NextPage, NextAnswer, NextScan, NextSettled
<1> QED BY <1>2, <1>3 DEF QuietInv

LEMMA AlwaysQuiet == Spec => []QuietInv
BY InitQuiet, NextQuiet, PTL DEF Spec

LEMMA PageIsRight ==
    ASSUME PageInv, NEW j \in Jobs, alone[j], pc[j] = "done"
    PROVE  PageRight
BY DEF PageInv, PageRight, DetailView

\* A sync that nothing overlaps leaves a row for every release of the collection
\* and no other, each filed by the corrections, and writes them to the page,
\* whatever the shelf was like when it began (sync.py, bundle.py).
THEOREM QuietSync == Spec => []QuietSyncSettles
<1>1. QuietInv => QuietSyncSettles
  <2> SUFFICES ASSUME QuietInv, pc[Sync] = "done", alone[Sync] PROVE
          /\ Shelved = Owned
          /\ \A r \in Shelved :
              /\ albums[r].sort = "manual" <=> CreditOf[r] \in overrides.sort
              /\ albums[r].sort = "musicbrainz" => CreditOf[r] \in artists
              /\ albums[r].section = SectionOf(overrides, r, albums[r].sort)
          /\ PageRight
    BY DEF QuietSyncSettles
  <2>1. PageRight
    BY PageIsRight DEF QuietInv, Jobs
  <2>2. Shelved = Owned /\ \A r \in Shelved : Filed(r)
    BY DEF QuietInv, SettledInv, BundleStages
  <2> QED BY <2>1, <2>2 DEF Filed, FiledBy
<1> QED BY <1>1, AlwaysQuiet, PTL

\* A tool that nothing overlaps answers when the page shows what it did
\* (intake.py, server.py, bundle.py).
THEOREM PageIsFollowed == Spec => []PageFollows
<1>1. QuietInv => PageFollows
  <2> SUFFICES ASSUME QuietInv, NEW c \in Calls, pc[c] = "done", alone[c]
               PROVE  PageRight /\ Answered(c)
    BY DEF PageFollows, Answered
  <2>1. PageRight
    BY PageIsRight DEF QuietInv, Jobs
  <2>2. Answered(c)
    BY DEF QuietInv, AnswerInv, BundleStages
  <2> QED BY <2>1, <2>2
<1> QED BY <1>1, AlwaysQuiet, PTL

LEMMA OwnedStays ==
    ASSUME QuietInv, [Next]_vars, NEW j \in Jobs, alone[j], NEW r \in Shelved, r \in Owned
    PROVE  r \in Shelved'
<1>0. Typed /\ Columns /\ AloneInv /\ ScanInv /\ AnswerInv /\ Calls \subseteq Jobs /\ Sync \in Jobs
  BY DEF QuietInv, Jobs
<1>1. \A k \in Jobs : pc[k] # "idle" => alone[k]
  BY <1>0 DEF AloneInv
<1>2. CASE UNCHANGED albums
  BY <1>2 DEF Shelved
<1>3. ASSUME NEW k \in Jobs, NEW to \in Stages, Stores(k, to) PROVE r \in Shelved'
  BY <1>3 DEF Stores, Upserted, Shelved
<1>4. CASE DeletesUnseen
  <2>1. /\ pc[Sync] = "list" /\ scan.todo = <<>> /\ ~scan.more
        /\ albums' = [x \in Shelved \cap Range(scan.seen) |-> albums[x]]
    BY <1>4 DEF DeletesUnseen, Goes
  <2>2. Owned = Range(scan.seen) \cup Range(scan.todo) \cup Rest
    BY <1>0, <1>1, <2>1 DEF ScanInv
  <2>3. Rest = {} /\ Range(<<>>) = {}
    BY <2>1 DEF Rest, Range
  <2> QED BY <2>1, <2>2, <2>3 DEF Shelved
<1>5. ASSUME NEW c \in Calls, Forgets(c) PROVE r \in Shelved'
  <2>1. pc[c] = "forget" /\ albums' = [x \in Shelved \ {The(c)} |-> albums[x]]
    BY <1>5 DEF Forgets, Goes
  <2>2. The(c) \notin Owned
    BY <1>0, <1>1, <2>1 DEF AnswerInv
  <2> QED BY <2>1, <2>2 DEF Shelved
<1>6. ASSUME NEW c \in Calls, RefileAlbums(c) PROVE r \in Shelved'
  BY <1>6 DEF RefileAlbums, Shelved
<1> QED BY <1>2, <1>3, <1>4, <1>5, <1>6, NextAlbumsStep DEF AlbumsStep

\* A job that nothing overlaps takes a row away only when the collection has no
\* copy: the sync has read every page by then (delete_albums_not_in), and a
\* removal has counted the copies (intake.py).
THEOREM OwnedStay == Spec => OwnedKeepsRow
<1>1. QuietInv /\ [Next]_vars
         => [(\E j \in Jobs : alone[j]) =>
                \A r \in Shelved : r \in Shelved' \/ r \notin Owned]_vars
  BY OwnedStays
<1> QED BY <1>1, AlwaysQuiet, PTL DEF Spec, OwnedKeepsRow

-----------------------------------------------------------------------------
(* The types of the tables, of the files, and of what a job has in hand. *)

PageStages == {"index", "details", "done"}

\* A job has a row in hand from its look-up to its commit, and a view from its
\* reading to its end.
Part(j) ==
    /\ IF pc[j] = "art" THEN \E r \in Releases : pend[j].rel = {r} ELSE pend[j] = NoRow
    /\ IF pc[j] \in PageStages THEN view[j] # NoFile /\ IsIndex(view[j]) ELSE view[j] = NoFile

Tables ==
    /\ Shelved \subseteq Releases /\ tracks \subseteq Releases /\ loans \subseteq Releases
    /\ artists \subseteq Artists
    /\ imported \in BOOLEAN /\ serving \in BOOLEAN
    /\ IsIndex(index) /\ IsIndex(details)
    /\ events \in 0..MaxEvents

PartStep ==
    \/ UNCHANGED <<pc, pend, view>>
    \/ Crash
    \/ \E j \in Jobs :
        \/ Ends(j) \/ ReadsRows(j)
        \/ \E to \in {"list", "fetch"} : Stores(j, to)
        \/ \E from \in {"list", "file"}, r \in Releases : \E row :
            /\ row.rel = {r} /\ pend' = [pend EXCEPT ![j] = row]
            /\ Goes(j, from, "art") /\ UNCHANGED view
        \/ \E from, to \in Stages \ {"art"} :
            /\ Goes(j, from, to) /\ UNCHANGED <<pend, view>>
            /\ from \in PageStages <=> to \in PageStages

LEMMA RowRel ==
    ASSUME NEW o, NEW r, NEW note, NEW row \in Rows(o, r, note)
    PROVE  row.rel = {r}
BY DEF Rows

LEMMA NextPartStep == ASSUME Columns, StageInv, [Next]_vars PROVE PartStep
<1> USE DEF PartStep
<1>0. Sync \in Jobs /\ Calls \subseteq Jobs
  BY DEF Jobs
<1>1. CASE UNCHANGED vars
  BY <1>1 DEF vars, jobVars
<1>2. ASSUME NEW j \in Jobs, NEW from \in Stages \ {"art"}, NEW to \in Stages \ {"art"},
             Goes(j, from, to), UNCHANGED <<pend, view>>, from \in PageStages <=> to \in PageStages
      PROVE  PartStep
  BY <1>2
<1>3. CASE SyncStep
  <2>0. {"idle", "list", "enrich", "reads"} \subseteq Stages \ {"art"}
        /\ \A s \in {"idle", "list", "enrich", "reads"} : s \notin PageStages
    BY DEF Stages, PageStages
  <2>1. CASE SyncBegins
    <3>1. Goes(Sync, "idle", "list") /\ UNCHANGED <<pend, view>>
      BY <2>1 DEF SyncBegins, Begins, Goes
    <3> QED BY <1>0, <1>2, <2>0, <3>1
  <2>2. CASE ReadsPage \/ DeletesUnseen \/ Enriched
    <3>1. \E from, to \in {"idle", "list", "enrich", "reads"} : Goes(Sync, from, to)
      BY <2>2 DEF ReadsPage, DeletesUnseen, Enriched
    <3>2. UNCHANGED <<pend, view>>
      BY <2>2 DEF ReadsPage, DeletesUnseen, Enriched
    <3> QED BY <1>0, <1>2, <2>0, <3>1, <3>2
  <2>3. CASE TakesItem
    <3>1. Head(scan.todo) \in Releases
      BY <2>3, HeadTailProperties DEF TakesItem, Columns, Scans
    <3>2. PICK row \in Rows(scan.overrides, Head(scan.todo), FALSE) :
              pend' = [pend EXCEPT ![Sync] = row]
      BY <2>3 DEF TakesItem
    <3>3. row.rel = {Head(scan.todo)}
      BY <3>2, RowRel
    <3>4. Goes(Sync, "list", "art") /\ UNCHANGED view
      BY <2>3 DEF TakesItem
    <3> QED BY <1>0, <3>1, <3>2, <3>3, <3>4
  <2>4. CASE SyncStores
    BY <1>0, <2>4 DEF SyncStores
  <2>5. CASE Enriches
    BY <2>5 DEF Enriches
  <2>6. CASE SyncFails
    BY <1>0, <2>6 DEF SyncFails
  <2> QED BY <1>3, <2>1, <2>2, <2>3, <2>4, <2>5, <2>6 DEF SyncStep
<1>4. ASSUME NEW c \in Calls, CallStep(c) PROVE PartStep
  <2> DEFINE S == {"idle", "adding", "file", "fetch", "removing", "counts", "forget", "refile",
                   "reads"}
  <2>0. S \subseteq Stages \ {"art"} /\ \A s \in S : s \notin PageStages
    BY DEF Stages, PageStages
  <2>1. CASE CallBegins(c)
    <3>1. \E to \in S : Goes(c, "idle", to)
      BY <2>1 DEF CallBegins, AddRecord, RemoveRecord, LendRecord, ReturnRecord, SetCorrection,
            Called, Begins, Goes
    <3>2. UNCHANGED <<pend, view>>
      BY <2>1 DEF CallBegins, AddRecord, RemoveRecord, LendRecord, ReturnRecord, SetCorrection,
            Called
    <3> QED BY <1>0, <1>2, <2>0, <3>1, <3>2
  <2>2. CASE \/ AddsCopy(c) \/ Fetches(c) \/ RemovesCopy(c) \/ LastCopy(c) \/ Forgets(c)
             \/ RefileAlbums(c)
    <3>1. \E from, to \in S : Goes(c, from, to)
      BY <2>2 DEF AddsCopy, Fetches, RemovesCopy, LastCopy, Forgets, RefileAlbums
    <3>2. UNCHANGED <<pend, view>>
      BY <2>2 DEF AddsCopy, Fetches, RemovesCopy, LastCopy, Forgets, RefileAlbums
    <3> HIDE DEF S
    <3> QED BY <1>0, <1>2, <2>0, <3>1, <3>2
  <2>3. CASE Files(c)
    <3>1. pc[c] = "file"
      BY <2>3 DEF Files, Goes
    <3>2. \E r \in Releases : arg[c].rels = {r}
      BY <3>1 DEF StageInv
    <3>3. The(c) \in Releases
      BY <3>2, TheIsReleased
    <3>4. PICK row \in Rows(overrides, The(c), arg[c].note) : pend' = [pend EXCEPT ![c] = row]
      BY <2>3 DEF Files
    <3>5. row.rel = {The(c)}
      BY <3>4, RowRel
    <3>6. Goes(c, "file", "art") /\ UNCHANGED view
      BY <2>3 DEF Files
    <3> QED BY <1>0, <3>3, <3>4, <3>5, <3>6
  <2>4. CASE AddStores(c)
    BY <1>0, <2>4 DEF AddStores
  <2>5. CASE CopiesLeft(c) \/ CallFails(c)
    BY <1>0, <2>5 DEF CopiesLeft, CallFails
  <2> QED BY <1>4, <2>1, <2>2, <2>3, <2>4, <2>5 DEF CallStep, CallBegins
<1>5. ASSUME NEW j \in Jobs, BundleStep(j) PROVE PartStep
  <2>1. PageStages \subseteq Stages \ {"art"}
    BY DEF PageStages, Stages
  <2>2. CASE WritesIndex(j) \/ WritesDetails(j)
    <3>1. \E from, to \in PageStages : Goes(j, from, to)
      BY <2>2 DEF WritesIndex, WritesDetails, PageStages
    <3>2. UNCHANGED <<pend, view>>
      BY <2>2 DEF WritesIndex, WritesDetails
    <3> QED BY <1>2, <2>1, <3>1, <3>2
  <2>3. CASE JobReturns(j) \/ LockTimesOut(j)
    BY <2>3 DEF JobReturns, LockTimesOut
  <2> QED BY <1>5, <2>2, <2>3 DEF BundleStep
<1>6. CASE Starts \/ WebChange
  BY <1>6 DEF Starts, WebChange, jobVars
<1> QED BY <1>1, <1>3, <1>4, <1>5, <1>6 DEF Next

\* What is read for the page is an index.
LEMMA ViewIsIndex ==
    ASSUME Typed, Tables
    PROVE  IsIndex(IndexView) /\ IndexView # NoFile
<1>1. \A r \in Shelved : [section |-> albums[r].section, lent |-> r \in loans] \in Entry
  BY DEF Typed, Filing, Entry
<1>2. IndexView \in [Shelved -> Entry]
  BY <1>1 DEF IndexView
<1>3. Shelved \in SUBSET Releases
  BY DEF Tables
<1> HIDE DEF Entry
<1> QED BY <1>2, <1>3, NoFileAssumption DEF IsIndex

LEMMA PartKeeps ==
    ASSUME Typed, Columns, Tables, PartStep, \A j \in Jobs : Part(j), NEW k \in Jobs
    PROVE  Part(k)'
<1>0. /\ pc \in [Jobs -> Stages] /\ pend = [j \in Jobs |-> pend[j]]
      /\ view = [j \in Jobs |-> view[j]] /\ Part(k)
  BY DEF Typed, Columns
<1>1. CASE UNCHANGED <<pc, pend, view>>
  BY <1>0, <1>1 DEF Part, IsIndex
<1>2. CASE Crash
  BY <1>2 DEF Crash, Part, PageStages
<1>3. ASSUME NEW j \in Jobs, NEW s, pc' = [pc EXCEPT ![j] = s], k # j,
             \/ UNCHANGED pend \/ \E row : pend' = [pend EXCEPT ![j] = row],
             \/ UNCHANGED view \/ \E v : view' = [view EXCEPT ![j] = v]
      PROVE  Part(k)'
  <2>1. pc'[k] = pc[k] /\ pend'[k] = pend[k] /\ view'[k] = view[k]
    BY <1>0, <1>3
  <2> QED BY <1>0, <2>1 DEF Part, IsIndex
<1>4. ASSUME NEW j \in Jobs, Ends(j) PROVE Part(k)'
  <2>1. /\ pc' = [pc EXCEPT ![j] = "idle"] /\ pend' = [pend EXCEPT ![j] = NoRow]
        /\ view' = [view EXCEPT ![j] = NoFile]
    BY <1>4 DEF Ends
  <2>2. CASE k = j
    <3>1. pc'[k] = "idle" /\ pend'[k] = NoRow /\ view'[k] = NoFile
      BY <1>0, <2>1, <2>2
    <3> QED BY <3>1 DEF Part, PageStages
  <2> QED BY <1>3, <2>1, <2>2
<1>5. ASSUME NEW j \in Jobs, ReadsRows(j) PROVE Part(k)'
  <2>1. /\ pc[j] = "reads" /\ pc' = [pc EXCEPT ![j] = "index"] /\ UNCHANGED pend
        /\ view' = [view EXCEPT ![j] = IndexView]
    BY <1>5 DEF ReadsRows, Goes
  <2>2. CASE k = j
    <3>1. pc[k] = "reads" /\ pc'[k] = "index" /\ pend'[k] = pend[k] /\ view'[k] = IndexView
      BY <1>0, <2>1, <2>2
    <3>2. pend[k] = NoRow
      BY <1>0, <3>1 DEF Part
    <3> QED BY <3>1, <3>2, ViewIsIndex DEF Part, PageStages, IsIndex
  <2> QED BY <1>3, <2>1, <2>2
<1>6. ASSUME NEW j \in Jobs, NEW to \in {"list", "fetch"}, Stores(j, to) PROVE Part(k)'
  <2>1. /\ pc[j] = "art" /\ pc' = [pc EXCEPT ![j] = to]
        /\ pend' = [pend EXCEPT ![j] = NoRow] /\ UNCHANGED view
    BY <1>6 DEF Stores, Goes
  <2>2. CASE k = j
    <3>1. pc[k] = "art" /\ pc'[k] = to /\ pend'[k] = NoRow /\ view'[k] = view[k]
      BY <1>0, <2>1, <2>2
    <3>2. view[k] = NoFile
      BY <1>0, <3>1 DEF Part, PageStages
    <3> QED BY <3>1, <3>2 DEF Part, PageStages
  <2> QED BY <1>3, <2>1, <2>2
<1>7. ASSUME NEW j \in Jobs, NEW from \in {"list", "file"}, NEW r \in Releases, NEW row,
             row.rel = {r}, pend' = [pend EXCEPT ![j] = row], Goes(j, from, "art"), UNCHANGED view
      PROVE  Part(k)'
  <2>1. pc[j] = from /\ pc' = [pc EXCEPT ![j] = "art"]
    BY <1>7 DEF Goes
  <2>2. CASE k = j
    <3>1. pc[k] = from /\ pc'[k] = "art" /\ pend'[k] = row /\ view'[k] = view[k]
      BY <1>0, <1>7, <2>1, <2>2
    <3>2. view[k] = NoFile
      BY <1>0, <3>1 DEF Part, PageStages
    <3> QED BY <1>7, <3>1, <3>2 DEF Part, PageStages
  <2> QED BY <1>3, <1>7, <2>1, <2>2
<1>8. ASSUME NEW j \in Jobs, NEW from \in Stages \ {"art"}, NEW to \in Stages \ {"art"},
             Goes(j, from, to), UNCHANGED <<pend, view>>, from \in PageStages <=> to \in PageStages
      PROVE  Part(k)'
  <2>1. pc[j] = from /\ pc' = [pc EXCEPT ![j] = to]
    BY <1>8 DEF Goes
  <2>2. CASE k = j
    <3>1. pc[k] = from /\ pc'[k] = to /\ pend'[k] = pend[k] /\ view'[k] = view[k]
      BY <1>0, <1>8, <2>1, <2>2
    <3> QED BY <1>0, <1>8, <3>1 DEF Part, IsIndex
  <2> QED BY <1>3, <1>8, <2>1, <2>2
<1> QED BY <1>1, <1>2, <1>4, <1>5, <1>6, <1>7, <1>8 DEF PartStep

\* The rows are of releases, through the four ways in which they change.
LEMMA ShelfTyped ==
    ASSUME Typed, Tables, StageInv, \A j \in Jobs : Part(j), [Next]_vars
    PROVE  Shelved' \subseteq Releases
<1>0. Shelved \subseteq Releases
  BY DEF Tables
<1>1. CASE UNCHANGED albums
  BY <1>0, <1>1 DEF Shelved
<1>2. ASSUME NEW j \in Jobs, NEW to \in Stages, Stores(j, to) PROVE Shelved' \subseteq Releases
  <2>1. PICK r \in pend[j].rel : albums' = Upserted(r, pend[j].album)
    BY <1>2 DEF Stores
  <2>2. r \in Releases
    BY <1>2, <2>1 DEF Stores, Goes, Part
  <2> QED BY <1>0, <2>1, <2>2 DEF Upserted, Shelved
<1>3. CASE DeletesUnseen
  BY <1>0, <1>3 DEF DeletesUnseen, Shelved
<1>4. ASSUME NEW c \in Calls, Forgets(c) \/ RefileAlbums(c) PROVE Shelved' \subseteq Releases
  BY <1>0, <1>4 DEF Forgets, RefileAlbums, Shelved
<1> QED BY <1>1, <1>2, <1>3, <1>4, NextAlbumsStep DEF AlbumsStep

LEMMA SetsTyped ==
    ASSUME Typed, Columns, Tables, StageInv, \A j \in Jobs : Part(j), [Next]_vars
    PROVE  /\ tracks' \subseteq Releases /\ loans' \subseteq Releases
           /\ artists' \subseteq Artists
           /\ imported' \in BOOLEAN /\ serving' \in BOOLEAN
           /\ events' \in 0..MaxEvents
<1> DEFINE Goal == /\ tracks' \subseteq Releases /\ loans' \subseteq Releases
                   /\ artists' \subseteq Artists
                   /\ imported' \in BOOLEAN /\ serving' \in BOOLEAN
                   /\ events' \in 0..MaxEvents
<1>0. /\ tracks \subseteq Releases /\ loans \subseteq Releases /\ artists \subseteq Artists
      /\ imported \in BOOLEAN /\ serving \in BOOLEAN /\ events \in 0..MaxEvents
  BY DEF Tables
<1>1. CASE UNCHANGED vars
  BY <1>0, <1>1 DEF vars, dbVars
<1>2. ASSUME NEW j \in Jobs, NEW to, Stores(j, to) PROVE Goal
  <2>1. PICK r \in pend[j].rel : artists' = artists \cup (IF pend[j].fresh THEN {CreditOf[r]} ELSE {})
    BY <1>2 DEF Stores
  <2>2. r \in Releases
    BY <1>2, <2>1 DEF Stores, Goes, Part
  <2>3. CreditOf[r] \in Artists
    BY <2>2, VinylAssumption
  <2>4. UNCHANGED <<tracks, loans, imported, serving, events>>
    BY <1>2 DEF Stores
  <2> QED BY <1>0, <2>1, <2>3, <2>4
<1>3. CASE SyncStep
  <2>1. CASE SyncBegins
    BY <1>0, <2>1 DEF SyncBegins, MigrateOverrides
  <2>2. CASE ReadsPage \/ TakesItem \/ Enriched \/ SyncFails
    BY <1>0, <2>2 DEF ReadsPage, TakesItem, Enriched, SyncFails, dbVars
  <2>3. CASE SyncStores
    BY <1>2, <2>3 DEF SyncStores, Jobs
  <2>4. CASE DeletesUnseen
    BY <1>0, <2>4 DEF DeletesUnseen
  <2>5. CASE Enriches
    <3>1. Head(scan.left) \in Releases
      BY <2>5, HeadTailProperties DEF Enriches, Columns, Scans
    <3> QED BY <1>0, <2>5, <3>1 DEF Enriches
  <2> QED BY <1>3, <2>1, <2>2, <2>3, <2>4, <2>5 DEF SyncStep
<1>4. ASSUME NEW c \in Calls, CallStep(c) PROVE Goal
  <2>1. ASSUME NEW op, NEW rels, NEW note, NEW stage, Called(c, op, rels, note, stage)
        PROVE  events' \in 0..MaxEvents /\ serving' = serving
    BY <1>0, <2>1, VinylAssumption DEF Called
  <2>2. ASSUME NEW r \in Releases, NEW note \in Notes, NEW d \in BOOLEAN, AddRecord(c, r, note, d)
        PROVE  Goal
    BY <1>0, <2>1, <2>2 DEF AddRecord, dbVars
  <2>3. ASSUME NEW r \in Releases, RemoveRecord(c, r) PROVE Goal
    BY <1>0, <2>1, <2>3 DEF RemoveRecord, dbVars
  <2>4. ASSUME NEW r \in Releases, LendRecord(c, r) PROVE Goal
    BY <1>0, <2>1, <2>4 DEF LendRecord
  <2>5. ASSUME NEW r \in Releases, ReturnRecord(c, r) PROVE Goal
    BY <1>0, <2>1, <2>5 DEF ReturnRecord
  <2>6. CASE SetCorrection(c)
    BY <1>0, <2>1, <2>6 DEF SetCorrection
  <2>7. CASE Fetches(c)
    <3>1. pc[c] = "fetch"
      BY <2>7 DEF Fetches, Goes
    <3>2. \E r \in Releases : arg[c].rels = {r}
      BY <3>1 DEF StageInv
    <3>3. The(c) \in Releases
      BY <3>2, TheIsReleased
    <3> QED BY <1>0, <2>7, <3>3 DEF Fetches
  <2>8. CASE AddStores(c)
    BY <1>2, <2>8 DEF AddStores, Jobs
  <2>9. CASE \/ AddsCopy(c) \/ Files(c) \/ RemovesCopy(c) \/ CopiesLeft(c) \/ LastCopy(c)
             \/ RefileAlbums(c) \/ CallFails(c)
    BY <1>0, <2>9 DEF AddsCopy, Files, RemovesCopy, CopiesLeft, LastCopy, RefileAlbums, CallFails,
          dbVars
  <2>10. CASE Forgets(c)
    BY <1>0, <2>10 DEF Forgets
  <2> HIDE DEF Goal
  <2> QED BY <1>4, <2>2, <2>3, <2>4, <2>5, <2>6, <2>7, <2>8, <2>9, <2>10 DEF CallStep
<1>5. ASSUME NEW j \in Jobs, BundleStep(j) PROVE Goal
  BY <1>0, <1>5 DEF BundleStep, ReadsRows, WritesIndex, WritesDetails, JobReturns, LockTimesOut,
        dbVars
<1>6. CASE Starts
  BY <1>0, <1>6 DEF Starts, MigrateOverrides
<1>7. CASE Crash \/ WebChange
  <2>1. /\ events < MaxEvents /\ events' = events + 1
        /\ UNCHANGED <<tracks, loans, artists, imported>>
        /\ serving' = FALSE \/ serving' = serving
    BY <1>7 DEF Crash, WebChange, dbVars
  <2>2. events' \in 0..MaxEvents
    BY <1>0, <2>1, VinylAssumption
  <2> QED BY <1>0, <2>1, <2>2
<1> QED BY <1>1, <1>3, <1>4, <1>5, <1>6, <1>7 DEF Next

\* The files are written from a view.
LEMMA FilesTyped ==
    ASSUME Tables, \A j \in Jobs : Part(j), [Next]_vars
    PROVE  IsIndex(index') /\ IsIndex(details')
<1>0. IsIndex(index) /\ IsIndex(details)
  BY DEF Tables
<1>1. CASE UNCHANGED fileVars
  BY <1>0, <1>1 DEF fileVars
<1>2. ASSUME NEW j \in Jobs, WritesIndex(j) PROVE IsIndex(index') /\ IsIndex(details')
  <2>1. pc[j] = "index" /\ index' = view[j] /\ details' = details
    BY <1>2 DEF WritesIndex, Goes
  <2>2. IsIndex(view[j])
    BY <2>1 DEF Part, PageStages
  <2> QED BY <1>0, <2>1, <2>2
<1>3. ASSUME NEW j \in Jobs, WritesDetails(j) PROVE IsIndex(index') /\ IsIndex(details')
  <2>1. /\ pc[j] = "details" /\ index' = index
        /\ details' = [r \in DOMAIN view[j] |-> Detail(r, view[j][r])]
    BY <1>3 DEF WritesDetails, Goes
  <2>2. DOMAIN view[j] \subseteq Releases /\ \A r \in DOMAIN view[j] : view[j][r] \in Entry
    BY <2>1 DEF Part, PageStages, IsIndex
  <2>3. ASSUME NEW r \in DOMAIN view[j] PROVE Detail(r, view[j][r]) \in Entry
    <3>1. view[j][r] \in Entry
      BY <2>2
    <3>2. ASSUME NEW entry \in Entry, NEW out \in BOOLEAN
          PROVE  [entry EXCEPT !.lent = out] \in Entry
      BY DEF Entry
    <3>3. (r \in loans) \in BOOLEAN
      OBVIOUS
    <3> QED BY <3>1, <3>2, <3>3 DEF Detail
  <2>4. IsIndex(details')
    BY <2>1, <2>2, <2>3 DEF IsIndex
  <2> QED BY <1>0, <2>1, <2>4
<1>4. CASE UNCHANGED vars
  BY <1>1, <1>4 DEF vars
<1>5. CASE SyncStep
  BY <1>1, <1>5 DEF SyncStep, SyncBegins, ReadsPage, TakesItem, SyncStores, Stores,
        DeletesUnseen, Enriches, Enriched, SyncFails
<1>6. ASSUME NEW c \in Calls, CallStep(c) PROVE UNCHANGED fileVars
  <2>1. CASE CallBegins(c)
    BY <2>1 DEF CallBegins, AddRecord, RemoveRecord, LendRecord, ReturnRecord, SetCorrection, Called
  <2>2. CASE \/ AddsCopy(c) \/ Files(c) \/ AddStores(c) \/ Fetches(c) \/ RemovesCopy(c)
             \/ CopiesLeft(c) \/ LastCopy(c) \/ Forgets(c) \/ RefileAlbums(c) \/ CallFails(c)
    BY <2>2 DEF AddsCopy, Files, AddStores, Stores, Fetches, RemovesCopy, CopiesLeft, LastCopy,
          Forgets, RefileAlbums, CallFails
  <2> QED BY <1>6, <2>1, <2>2 DEF CallStep, CallBegins
<1>7. ASSUME NEW j \in Jobs, BundleStep(j) PROVE IsIndex(index') /\ IsIndex(details')
  BY <1>1, <1>2, <1>3, <1>7 DEF BundleStep, ReadsRows, JobReturns, LockTimesOut
<1>8. CASE Starts \/ Crash \/ WebChange
  BY <1>1, <1>8 DEF Starts, Crash, WebChange
<1> QED BY <1>1, <1>4, <1>5, <1>6, <1>7, <1>8 DEF Next

TypeInv == QuietInv /\ Tables /\ \A j \in Jobs : Part(j)

LEMMA InitTypes == Init => TypeInv
<1> SUFFICES ASSUME Init PROVE Tables /\ \A j \in Jobs : Part(j)
  BY InitQuiet DEF TypeInv
<1>1. Shelved = {} /\ DOMAIN details = {} /\ IsIndex(index)
  BY DEF Init, Shelved, IsIndex
<1>2. Tables
  <2>1. /\ tracks = {} /\ loans = {} /\ artists = {}
        /\ imported = FALSE /\ serving = FALSE /\ events = 0
    BY DEF Init
  <2>2. IsIndex(details)
    BY <1>1 DEF IsIndex
  <2>3. events \in 0..MaxEvents
    BY <2>1, VinylAssumption
  <2> QED BY <1>1, <2>1, <2>2, <2>3 DEF Tables
<1>3. \A j \in Jobs : Part(j)
  BY DEF Init, Part, PageStages
<1> QED BY <1>2, <1>3

LEMMA NextTypes == TypeInv /\ [Next]_vars => TypeInv'
<1> SUFFICES ASSUME TypeInv, [Next]_vars PROVE TypeInv'
  OBVIOUS
<1>1. QuietInv /\ Tables /\ Typed /\ Columns /\ StageInv /\ \A j \in Jobs : Part(j)
  BY DEF TypeInv, QuietInv
<1>2. QuietInv'
  BY <1>1, NextQuiet
<1>3. Tables'
  BY <1>1, ShelfTyped, SetsTyped, FilesTyped DEF Tables, IsIndex
<1>4. \A j \in Jobs : Part(j)'
  BY <1>1, NextPartStep, PartKeeps
<1> QED BY <1>2, <1>3, <1>4 DEF TypeInv, Jobs

\* Tables, files and jobs have their types; a file that is written was read by its
\* job, and only rows that are about to be stored wait (db.py, bundle.py).
THEOREM TypeCorrect == Spec => []TypeOK
<1>1. TypeInv => TypeOK
  <2> SUFFICES ASSUME TypeInv PROVE TypeOK
    OBVIOUS
  <2>1. Typed /\ Columns /\ Tables /\ \A j \in Jobs : Part(j)
    BY DEF TypeInv, QuietInv
  <2>2. \A r \in Shelved : albums[r] \in Filing
    BY <2>1 DEF Typed
  <2>3. ASSUME NEW j \in Jobs
        PROVE  /\ view[j] # NoFile <=> pc[j] \in {"index", "details", "done"}
               /\ pend[j].rel # {} <=> pc[j] = "art"
    BY <2>1 DEF Part, PageStages, NoRow
  <2>4. \A c \in Calls : arg[c].rels \subseteq Releases
    BY <2>1 DEF Typed, CallArgs
  <2>5. \A s \in Seq(Releases) : Range(s) \in SUBSET Releases
    BY DEF Range
  <2>6. {Range(scan.todo), Range(scan.seen), Range(scan.left)} \subseteq SUBSET Releases
    BY <2>1, <2>5 DEF Columns, Scans
  <2> QED BY <2>1, <2>2, <2>3, <2>4, <2>6 DEF TypeOK, Typed, Columns, Tables
<1> QED BY <1>1, InitTypes, NextTypes, PTL DEF Spec

=============================================================================
