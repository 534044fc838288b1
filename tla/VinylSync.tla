----------------------------- MODULE VinylSync -----------------------------
(***************************************************************************)
(* The shelf of the vinyl addon: the collection that Discogs keeps, the    *)
(* tables and the files made from it, the nightly sync that makes them     *)
(* (sync.py, scheduler.py), and the tools that change one record or one    *)
(* correction meanwhile (intake.py, server.py, db.py, bundle.py).          *)
(*                                                                         *)
(* The sync runs in a thread and a tool in its call, each with its own     *)
(* connection.  An action is what a job does from one request, commit or   *)
(* file to the next.                                                       *)
(***************************************************************************)
EXTENDS Integers, SequencesExt

CONSTANTS
    Releases,   \* releases of Discogs
    Artists,    \* credits that a release files under
    CreditOf,   \* the credit of each release
    FileOverrides,  \* the corrections in the rules file
    Notes,      \* whether an add writes a note: a subset of BOOLEAN
    Calls,      \* slots of tool calls that may run at one time
    NoFile,     \* a file that is not there
    PageSize,   \* items on a page of the collection
    MaxCopies,  \* bound: copies in the collection
    MaxEvents   \* bound: tool calls, changes on the web site and crashes

Sync == "sync"
Jobs == Calls \cup {Sync}
Overrides == [sort : SUBSET Artists, section : SUBSET Releases]

ASSUME VinylAssumption ==
    /\ IsFiniteSet(Releases)
    /\ CreditOf \in [Releases -> Artists]
    /\ FileOverrides \in Overrides /\ Notes \subseteq BOOLEAN
    /\ Sync \notin Calls
    /\ PageSize \in Nat \ {0}
    /\ MaxCopies \in Nat /\ MaxEvents \in Nat

VARIABLES
    discogs,    \* the collection, the newest copy first
    albums,     \* the rows, by release
    tracks,     \* releases with a stored tracklist and price
    loans,      \* releases that are out with somebody
    overrides,  \* the corrections
    artists,    \* credits whose sort-name is cached
    imported,   \* the mark of the import from the rules file
    index,      \* index.json
    details,    \* detail/<id>.json, by release
    serving,    \* the addon is up
    pc,         \* the stage of each job
    arg,        \* what a tool was called with
    pend,       \* the row a job is about to store
    view,       \* the index a job is about to write
    scan,       \* the sync's place in the collection
    alone,      \* history: nothing else ran or changed since the job began
    events      \* how many calls, changes and crashes there were

dbVars == <<albums, tracks, loans, overrides, artists, imported>>
fileVars == <<index, details>>
jobVars == <<pc, arg, pend, view, scan, alone>>
vars == <<discogs, dbVars, fileVars, serving, jobVars, events>>

Sorts == {"credit", "musicbrainz", "manual"}
Filing == [sort : Sorts, section : Sorts \cup {"moved"}, note : BOOLEAN]
NoRow == [rel |-> {}, album |-> {}, fresh |-> FALSE]
NoArg == [op |-> "none", rels |-> {}, note |-> FALSE]
NoScan == [overrides |-> [sort |-> {}, section |-> {}], page |-> 1, more |-> FALSE,
           todo |-> <<>>, seen |-> <<>>, left |-> <<>>]

Owned == Range(discogs)
Shelved == DOMAIN albums
The(c) == CHOOSE r \in arg[c].rels : TRUE

-----------------------------------------------------------------------------
(* Rows and files.                                                         *)

\* The section follows the sort-name, unless the record has a section of its own.
SectionOf(o, r, sort) == IF r \in o.section THEN "moved" ELSE sort

\* The sort-name: the correction, then the cache, then MusicBrainz, which may
\* have no answer.  A fresh one is to be cached with the row.
Resolutions(o, a) ==
    IF a \in o.sort THEN {[sort |-> "manual", fresh |-> FALSE]}
    ELSE IF a \in artists THEN {[sort |-> "musicbrainz", fresh |-> FALSE]}
    ELSE {[sort |-> "musicbrainz", fresh |-> TRUE], [sort |-> "credit", fresh |-> FALSE]}

\* The row of a release, from its item and the corrections that the job knows.
Rows(o, r, note) ==
    {[rel |-> {r},
      album |-> [sort |-> s.sort, section |-> SectionOf(o, r, s.sort), note |-> note],
      fresh |-> s.fresh] : s \in Resolutions(o, CreditOf[r])}

\* Mutated: a release that has a row is left as it is.
InsertedOnly(r, album) ==
    [x \in Shelved \cup {r} |-> IF x \in Shelved THEN albums[x] ELSE album]

\* Mutated: a plain replace, which empties the note.
Replaced(r, album) == [x \in Shelved \cup {r} |-> IF x # r THEN albums[x] ELSE album]

\* An upsert keeps the note that the new row does not have.
Upserted(r, album) ==
    [x \in Shelved \cup {r} |->
        IF x # r THEN albums[x]
        ELSE [album EXCEPT !.note = @ \/ (r \in Shelved /\ albums[r].note)]]

\* The row filed again from what is stored, without the network.
Refiled(r) ==
    LET a == CreditOf[r]
        sort == IF a \in overrides.sort THEN "manual"
                ELSE IF a \in artists THEN "musicbrainz"
                ELSE albums[r].sort
    IN  [albums[r] EXCEPT !.sort = sort, !.section = SectionOf(overrides, r, sort)]

IndexView == [r \in Shelved |-> [section |-> albums[r].section, lent |-> r \in loans]]
Detail(r, entry) == [entry EXCEPT !.lent = r \in loans]

\* The corrections with those of the rules file that the database does not have.
Import(o) ==
    [sort |-> o.sort \cup FileOverrides.sort, section |-> o.section \cup FileOverrides.section]

\* Mutated: the import leaves no mark.
MigrateAgain == overrides' = Import(overrides) /\ imported' = TRUE

MigrateOverrides ==
    /\ overrides' = IF imported THEN overrides ELSE Import(overrides)
    /\ imported' = TRUE

-----------------------------------------------------------------------------
(* Jobs.                                                                   *)

\* A job that has cached a sort-name holds the write lock of the database until
\* it commits the row, through the downloads in between.
Locked(j) == \E k \in Jobs \ {j} : pc[k] = "art" /\ pend[k].fresh

Begins(j, stage) ==
    /\ pc[j] = "idle"
    /\ pc' = [pc EXCEPT ![j] = stage]
    /\ alone' = [k \in Jobs |-> k = j /\ \A i \in Jobs \ {j} : pc[i] = "idle"]

Goes(j, from, to) == pc[j] = from /\ pc' = [pc EXCEPT ![j] = to]

Ends(j) ==
    /\ pc' = [pc EXCEPT ![j] = "idle"]
    /\ pend' = [pend EXCEPT ![j] = NoRow]
    /\ view' = [view EXCEPT ![j] = NoFile]
    /\ alone' = [alone EXCEPT ![j] = FALSE]
    /\ IF j = Sync THEN scan' = NoScan /\ UNCHANGED arg
       ELSE arg' = [arg EXCEPT ![j] = NoArg] /\ UNCHANGED scan

\* The upsert and its commit, with the sort-name that the job looked up.
Stores(j, to) ==
    /\ Goes(j, "art", to)
    /\ ~Locked(j)
    /\ \E r \in pend[j].rel :
        /\ albums' = Upserted(r, pend[j].album)
        /\ artists' = artists \cup (IF pend[j].fresh THEN {CreditOf[r]} ELSE {})
    /\ pend' = [pend EXCEPT ![j] = NoRow]
    /\ UNCHANGED <<discogs, tracks, loans, overrides, imported, fileVars, serving, arg, view,
                   alone, events>>

-----------------------------------------------------------------------------
(* The sync.                                                               *)

\* Only the first sync, which imports the corrections, writes here.
SyncBegins ==
    /\ serving
    /\ imported \/ ~Locked(Sync)
    /\ Begins(Sync, "list")
    /\ MigrateOverrides
    /\ scan' = [NoScan EXCEPT !.overrides = overrides', !.more = TRUE]
    /\ UNCHANGED <<discogs, albums, tracks, loans, artists, fileVars, serving, arg, pend, view,
                   events>>

\* The next page of the collection, as it stands when it is asked for.
ReadsPage ==
    /\ Goes(Sync, "list", "list")
    /\ scan.todo = <<>> /\ scan.more
    /\ LET first == (scan.page - 1) * PageSize + 1
           last == scan.page * PageSize
       IN  scan' = [scan EXCEPT
                !.todo = SubSeq(discogs, first, IF last < Len(discogs) THEN last ELSE Len(discogs)),
                !.more = last < Len(discogs),
                !.page = @ + 1]
    /\ UNCHANGED <<discogs, dbVars, fileVars, serving, arg, pend, view, alone, events>>

TakesItem ==
    /\ Goes(Sync, "list", "art")
    /\ scan.todo # <<>>
    /\ \E row \in Rows(scan.overrides, Head(scan.todo), FALSE) :
        /\ row.fresh => ~Locked(Sync)
        /\ pend' = [pend EXCEPT ![Sync] = row]
    /\ UNCHANGED <<discogs, dbVars, fileVars, serving, arg, view, scan, alone, events>>

\* The releases that were stored, each once.
SyncStores ==
    /\ Stores(Sync, "list")
    /\ LET r == Head(scan.todo)
       IN  scan' = [scan EXCEPT
                !.todo = Tail(@),
                !.seen = IF Contains(@, r) THEN @ ELSE Append(@, r)]

\* Mutated: a loan goes with the album, as with delete_album.
DeletesUnseenWithLoans ==
    /\ Goes(Sync, "list", "enrich")
    /\ scan.todo = <<>> /\ ~scan.more
    /\ ~Locked(Sync)
    /\ albums' = [r \in Shelved \cap Range(scan.seen) |-> albums[r]]
    /\ tracks' = tracks \ (Shelved \ Range(scan.seen))
    /\ loans' = loans \ (Shelved \ Range(scan.seen))
    /\ scan' = [scan EXCEPT !.left = scan.seen]
    /\ UNCHANGED <<discogs, overrides, artists, imported, fileVars, serving, arg, pend, view, alone,
                   events>>

\* Every album that the collection no longer had goes, with its tracks.
DeletesUnseen ==
    /\ Goes(Sync, "list", "enrich")
    /\ scan.todo = <<>> /\ ~scan.more
    /\ ~Locked(Sync)
    /\ albums' = [r \in Shelved \cap Range(scan.seen) |-> albums[r]]
    /\ tracks' = tracks \ (Shelved \ Range(scan.seen))
    /\ scan' = [scan EXCEPT !.left = scan.seen]
    /\ UNCHANGED <<discogs, loans, overrides, artists, imported, fileVars, serving, arg, pend, view,
                   alone, events>>

\* One release is fetched for its tracks and its price; a fetch may fail.
Enriches ==
    /\ pc[Sync] = "enrich" /\ scan.left # <<>>
    /\ scan' = [scan EXCEPT !.left = Tail(@)]
    /\ \/ UNCHANGED tracks
       \/ ~Locked(Sync) /\ tracks' = tracks \cup {Head(scan.left)}
    /\ UNCHANGED <<discogs, albums, loans, overrides, artists, imported, fileVars, serving, pc, arg,
                   pend, view, alone, events>>

Enriched ==
    /\ Goes(Sync, "enrich", "reads")
    /\ scan.left = <<>>
    /\ ~Locked(Sync)
    /\ UNCHANGED <<discogs, dbVars, fileVars, serving, arg, pend, view, scan, alone, events>>

\* A page that Discogs does not give ends the run.
SyncFails ==
    /\ pc[Sync] = "list" /\ scan.todo = <<>> /\ scan.more
    /\ Ends(Sync)
    /\ UNCHANGED <<discogs, dbVars, fileVars, serving, events>>

-----------------------------------------------------------------------------
(* The tools.                                                              *)

Called(c, op, rels, note, stage) ==
    /\ serving /\ events < MaxEvents
    /\ Begins(c, stage)
    /\ arg' = [arg EXCEPT ![c] = [op |-> op, rels |-> rels, note |-> note]]
    /\ events' = events + 1
    /\ UNCHANGED <<discogs, fileVars, serving, pend, view, scan>>

\* A confirmed add; one that is on the shelf already needs allow_duplicate.
AddRecord(c, r, note, allowDuplicate) ==
    /\ r \in Shelved => allowDuplicate
    /\ Called(c, "add", {r}, note, "adding")
    /\ UNCHANGED dbVars

AddsCopy(c) ==
    /\ Goes(c, "adding", "file")
    /\ Len(discogs) < MaxCopies
    /\ discogs' = <<The(c)>> \o discogs
    /\ UNCHANGED <<dbVars, fileVars, serving, arg, pend, view, scan, alone, events>>

Files(c) ==
    /\ Goes(c, "file", "art")
    /\ \E row \in Rows(overrides, The(c), arg[c].note) :
        /\ row.fresh => ~Locked(c)
        /\ pend' = [pend EXCEPT ![c] = row]
    /\ UNCHANGED <<discogs, dbVars, fileVars, serving, arg, view, scan, alone, events>>

AddStores(c) == Stores(c, "fetch") /\ UNCHANGED scan

Fetches(c) ==
    /\ Goes(c, "fetch", "reads")
    /\ \/ UNCHANGED tracks
       \/ ~Locked(c) /\ tracks' = tracks \cup {The(c)}
    /\ UNCHANGED <<discogs, albums, loans, overrides, artists, imported, fileVars, serving, arg,
                   pend, view, scan, alone, events>>

\* A confirmed removal of one copy.
RemoveRecord(c, r) ==
    /\ r \in Owned
    /\ Called(c, "remove", {r}, FALSE, "removing")
    /\ UNCHANGED dbVars

RemovesCopy(c) ==
    /\ Goes(c, "removing", "counts")
    /\ \E i \in DOMAIN discogs : discogs[i] = The(c) /\ discogs' = RemoveAt(discogs, i)
    /\ UNCHANGED <<dbVars, fileVars, serving, arg, pend, view, scan, alone, events>>

\* With another copy left the record stays where it is.
CopiesLeft(c) ==
    /\ pc[c] = "counts" /\ The(c) \in Owned
    /\ Ends(c)
    /\ UNCHANGED <<discogs, dbVars, fileVars, serving, events>>

\* Mutated: the rows are deleted without a look at the copies that are left.
ForgetsAnyway(c) ==
    /\ Goes(c, "counts", "forget")
    /\ UNCHANGED <<discogs, dbVars, fileVars, serving, arg, pend, view, scan, alone, events>>

LastCopy(c) ==
    /\ Goes(c, "counts", "forget")
    /\ The(c) \notin Owned
    /\ UNCHANGED <<discogs, dbVars, fileVars, serving, arg, pend, view, scan, alone, events>>

Forgets(c) ==
    /\ Goes(c, "forget", "reads")
    /\ ~Locked(c)
    /\ albums' = [r \in Shelved \ {The(c)} |-> albums[r]]
    /\ tracks' = tracks \ {The(c)}
    /\ loans' = loans \ {The(c)}
    /\ UNCHANGED <<discogs, overrides, artists, imported, fileVars, serving, arg, pend, view, scan,
                   alone, events>>

LendRecord(c, r) ==
    /\ r \in Shelved /\ ~Locked(c)
    /\ Called(c, "lend", {r}, FALSE, "reads")
    /\ loans' = loans \cup {r}
    /\ UNCHANGED <<albums, tracks, overrides, artists, imported>>

ReturnRecord(c, r) ==
    /\ r \in loans /\ ~Locked(c)
    /\ Called(c, "return", {r}, FALSE, "reads")
    /\ loans' = loans \ {r}
    /\ UNCHANGED <<albums, tracks, overrides, artists, imported>>

\* A correction is written or dropped: of a credit, after which every record is
\* filed again, or of one record.
SetCorrection(c) ==
    /\ ~Locked(c)
    /\ \/ \E a \in Artists :
            /\ Called(c, "correct", Releases, FALSE, "refile")
            /\ \E s \in {overrides.sort \cup {a}, overrides.sort \ {a}} :
                  overrides' = [overrides EXCEPT !.sort = s]
       \/ \E r \in Releases :
            /\ Called(c, "correct", {r}, FALSE, "refile")
            /\ \E s \in {overrides.section \cup {r}, overrides.section \ {r}} :
                  overrides' = [overrides EXCEPT !.section = s]
    /\ UNCHANGED <<albums, tracks, loans, artists, imported>>

RefileAlbums(c) ==
    /\ Goes(c, "refile", "reads")
    /\ ~Locked(c)
    /\ albums' = [r \in Shelved |-> IF r \in arg[c].rels THEN Refiled(r) ELSE albums[r]]
    /\ UNCHANGED <<discogs, tracks, loans, overrides, artists, imported, fileVars, serving, arg,
                   pend, view, scan, alone, events>>

\* A request to Discogs raises: before its effect, or in the look-up of the
\* Notes field after the copy was added.
CallFails(c) ==
    /\ \/ pc[c] \in {"adding", "removing", "counts"}
       \/ pc[c] = "file" /\ arg[c].note
    /\ Ends(c)
    /\ UNCHANGED <<discogs, dbVars, fileVars, serving, events>>

-----------------------------------------------------------------------------
(* The bundle, which every job writes last.                                *)

ReadsRows(j) ==
    /\ Goes(j, "reads", "index")
    /\ view' = [view EXCEPT ![j] = IndexView]
    /\ UNCHANGED <<discogs, dbVars, fileVars, serving, arg, pend, scan, alone, events>>

\* The file takes the place of the old one at once.
WritesIndex(j) ==
    /\ Goes(j, "index", "details")
    /\ index' = view[j]
    /\ UNCHANGED <<discogs, dbVars, details, serving, arg, pend, view, scan, alone, events>>

\* Mutated: the files of records that have gone stay.
LeavesStale(j) ==
    /\ Goes(j, "details", "done")
    /\ details' = [r \in DOMAIN view[j] \cup DOMAIN details |->
            IF r \in DOMAIN view[j] THEN Detail(r, view[j][r]) ELSE details[r]]
    /\ UNCHANGED <<discogs, dbVars, index, serving, arg, pend, view, scan, alone, events>>

\* A file for each row that was read, what goes into it as it is now; others go.
WritesDetails(j) ==
    /\ Goes(j, "details", "done")
    /\ details' = [r \in DOMAIN view[j] |-> Detail(r, view[j][r])]
    /\ UNCHANGED <<discogs, dbVars, index, serving, arg, pend, view, scan, alone, events>>

JobReturns(j) ==
    /\ pc[j] = "done"
    /\ Ends(j)
    /\ UNCHANGED <<discogs, dbVars, fileVars, serving, events>>

\* A write waits for the lock only so long.  One of a sort-name that fails is as
\* one of its row: neither has changed anything.
LockTimesOut(j) ==
    /\ Locked(j)
    /\ \/ pc[j] \in {"forget", "refile", "art"}
       \/ pc[j] = "list" /\ scan.todo = <<>> /\ ~scan.more
       \/ pc[j] = "enrich" /\ scan.left = <<>>
    /\ Ends(j)
    /\ UNCHANGED <<discogs, dbVars, fileVars, serving, events>>

-----------------------------------------------------------------------------
(* The addon and the web site.                                             *)

\* The rules file is read.
Starts ==
    /\ ~serving
    /\ serving' = TRUE
    /\ MigrateOverrides
    /\ UNCHANGED <<discogs, albums, tracks, loans, artists, fileVars, jobVars, events>>

Crash ==
    /\ serving /\ events < MaxEvents
    /\ serving' = FALSE
    /\ events' = events + 1
    /\ pc' = [j \in Jobs |-> "idle"]
    /\ arg' = [c \in Calls |-> NoArg]
    /\ pend' = [j \in Jobs |-> NoRow]
    /\ view' = [j \in Jobs |-> NoFile]
    /\ scan' = NoScan
    /\ alone' = [j \in Jobs |-> FALSE]
    /\ UNCHANGED <<discogs, dbVars, fileVars>>

\* The owner adds or removes a copy on the web site.
WebChange ==
    /\ events < MaxEvents
    /\ \/ \E r \in Releases : Len(discogs) < MaxCopies /\ discogs' = <<r>> \o discogs
       \/ \E i \in DOMAIN discogs : discogs' = RemoveAt(discogs, i)
    /\ events' = events + 1
    /\ alone' = [j \in Jobs |-> FALSE]
    /\ UNCHANGED <<dbVars, fileVars, serving, pc, arg, pend, view, scan>>

Init ==
    /\ discogs \in SetToAllKPermutations(Releases)
    /\ albums = <<>> /\ tracks = {} /\ loans = {} /\ artists = {}
    /\ overrides = [sort |-> {}, section |-> {}]
    /\ imported = FALSE
    /\ index = NoFile /\ details = <<>>
    /\ serving = FALSE
    /\ pc = [j \in Jobs |-> "idle"]
    /\ arg = [c \in Calls |-> NoArg]
    /\ pend = [j \in Jobs |-> NoRow]
    /\ view = [j \in Jobs |-> NoFile]
    /\ scan = NoScan
    /\ alone = [j \in Jobs |-> FALSE]
    /\ events = 0

SyncStep ==
    \/ SyncBegins \/ ReadsPage \/ TakesItem \/ SyncStores \/ DeletesUnseen
    \/ Enriches \/ Enriched \/ SyncFails

CallStep(c) ==
    \/ \E r \in Releases :
        \/ \E note \in Notes, allowDuplicate \in BOOLEAN : AddRecord(c, r, note, allowDuplicate)
        \/ RemoveRecord(c, r) \/ LendRecord(c, r) \/ ReturnRecord(c, r)
    \/ AddsCopy(c) \/ Files(c) \/ AddStores(c) \/ Fetches(c)
    \/ RemovesCopy(c) \/ CopiesLeft(c) \/ LastCopy(c) \/ Forgets(c)
    \/ SetCorrection(c) \/ RefileAlbums(c) \/ CallFails(c)

BundleStep(j) ==
    \/ ReadsRows(j) \/ WritesIndex(j) \/ WritesDetails(j) \/ JobReturns(j) \/ LockTimesOut(j)

Next ==
    \/ SyncStep
    \/ \E c \in Calls : CallStep(c)
    \/ \E j \in Jobs : BundleStep(j)
    \/ Starts \/ Crash \/ WebChange

Spec == Init /\ [][Next]_vars

-----------------------------------------------------------------------------
(* Properties.                                                             *)

Entry == [section : Sorts \cup {"moved"}, lent : BOOLEAN]
\* A file that is not there is not taken for one that is.
ASSUME NoFileAssumption == \A S \in SUBSET Releases : NoFile \notin [S -> Entry]
IsIndex(f) == f = NoFile \/ (DOMAIN f \subseteq Releases /\ \A r \in DOMAIN f : f[r] \in Entry)
Stages == {"idle", "list", "art", "enrich", "adding", "file", "fetch", "removing", "counts",
           "forget", "refile", "reads", "index", "details", "done"}

\* The types of the tables, the files and the jobs; a file that is written has
\* a job that read it, and only rows that are about to be stored wait.
TypeOK ==
    /\ discogs \in Seq(Releases)
    /\ Shelved \subseteq Releases /\ \A r \in Shelved : albums[r] \in Filing
    /\ tracks \subseteq Releases /\ loans \subseteq Releases
    /\ overrides \in Overrides /\ artists \subseteq Artists
    /\ {imported, serving} \subseteq BOOLEAN
    /\ IsIndex(index) /\ IsIndex(details)
    /\ pc \in [Jobs -> Stages]
    /\ \A j \in Jobs :
        /\ view[j] # NoFile <=> pc[j] \in {"index", "details", "done"}
        /\ pend[j].rel # {} <=> pc[j] = "art"
    /\ \A c \in Calls : arg[c].rels \subseteq Releases
    /\ {Range(scan.todo), Range(scan.seen), Range(scan.left)} \subseteq SUBSET Releases
    /\ events \in 0..MaxEvents

\* The page shows the rows and the loans, and each detail file its own record.
PageRight ==
    /\ index = IndexView
    /\ details = [r \in Shelved |-> Detail(r, IndexView[r])]

\* A sync that ran alone leaves the shelf as the collection is: a row for every
\* release and no other, each filed by the corrections, and the page with it,
\* whatever earlier crashes, failed calls and overlapping jobs left behind.
QuietSyncSettles ==
    pc[Sync] = "done" /\ alone[Sync] =>
        /\ Shelved = Owned
        /\ \A r \in Shelved :
            /\ albums[r].sort = "manual" <=> CreditOf[r] \in overrides.sort
            /\ albums[r].sort = "musicbrainz" => CreditOf[r] \in artists
            /\ albums[r].section = SectionOf(overrides, r, albums[r].sort)
        /\ PageRight

\* A tool that ran alone answers when the page shows what it did: the new record
\* is on it, the one that left is not, a loan and a correction are seen.
PageFollows ==
    \A c \in Calls :
        pc[c] = "done" /\ alone[c] =>
            /\ PageRight
            /\ arg[c].op = "add" => The(c) \in Shelved
            /\ arg[c].op = "remove" => The(c) \notin Shelved
            /\ arg[c].op = "lend" => The(c) \in loans
            /\ arg[c].op = "return" => The(c) \notin loans

\* A dropped correction of a credit gives the derived answer back at once
\* (the addon's README.md:103, server.py:519): no record stays filed by it.
DropGivesBack ==
    \A c \in Calls :
        pc[c] = "reads" /\ alone[c] /\ arg[c].op = "correct" =>
            \A r \in arg[c].rels \cap Shelved :
                albums[r].sort = "manual" => CreditOf[r] \in overrides.sort

\* A job that runs alone takes a row away only when the collection has no copy
\* of the record: one page that is missed, or one copy of two, must not do it.
OwnedKeepsRow ==
    [][(\E j \in Jobs : alone[j]) => \A r \in Shelved : r \in Shelved' \/ r \notin Owned]_vars

\* While a record stays on the shelf its note and its tracklist stay, also when
\* the release cannot be fetched again and whatever jobs overlap.
KnownStaysKnown ==
    [][\A r \in Shelved \cap Shelved' :
        /\ albums[r].note => albums'[r].note
        /\ r \in tracks => r \in tracks']_vars

\* Only its return, or the removal of the last copy, ends a loan: no sync does,
\* not even one that finds the record gone from the collection.
LoanStays ==
    [][\A r \in loans \ loans' : \E c \in Calls :
        \/ arg'[c].op = "return" /\ r \in arg'[c].rels /\ pc[c] = "idle"
        \/ arg[c].op = "remove" /\ r \in arg[c].rels /\ pc[c] = "forget"]_vars

\* Corrections come from the rules file once; later only a tool writes or drops
\* one, so a dropped one does not come back with a restart or a sync.
CorrectionsByHand ==
    [][imported /\ overrides' # overrides =>
        \E c \in Calls : pc[c] = "idle" /\ arg'[c].op = "correct"]_vars

=============================================================================
