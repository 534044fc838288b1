----------------------------- MODULE WikiWrites -----------------------------
(***************************************************************************)
(* The mcp addon: the tools that write a page or a journal entry and       *)
(* commit it, and the search that reads the wiki again before it answers   *)
(* (server.py, wiki.py, search.py).                                        *)
(*                                                                         *)
(* Each call runs in a thread, so an action is what a call does from one   *)
(* operation on the disk to the next.  Core, its nightly run and people    *)
(* change the same files.  Git is outside this repository and is what      *)
(* wiki.py makes of it: a commit takes the lock of the repository or       *)
(* fails, and takes the page as it is on the disk by then.                 *)
(*                                                                         *)
(* Each path is in a folder of its own, since a folder is listed at once.  *)
(* A file is named by its version, the number of changes of its path so    *)
(* far.  The stamp of a version (time of change and size) is its own: the  *)
(* model has no two versions of one path with the same stamp.              *)
(***************************************************************************)
EXTENDS Integers, Sequences, FiniteSets, Functions

CONSTANTS
    Paths,        \* the visible pages, in the order of iter_pages
    KindOf,       \* of each: "page", "entry" of the journal, or "kept" by core
    Calls,        \* calls that may run at one time
    ReadOnly,     \* those of a read-only caller
    Nobody,       \* the owner of a free lock
    Core,         \* the nightly run, as an owner of the lock of git
    Stale,        \* a git that was stopped and left its lock, as an owner
    MaxVersions,  \* bound: changes of each path
    MaxEdits,     \* bound: changes of the wiki by core and people
    MaxStops      \* bound: stops of the addon

Pages == Range(Paths)

ASSUME WikiAssumption ==
    /\ Paths \in Seq(Pages) /\ Paths # <<>>
    /\ \A i, j \in DOMAIN Paths : Paths[i] = Paths[j] => i = j
    /\ KindOf \in [Pages -> {"page", "entry", "kept"}]
    /\ ReadOnly \subseteq Calls
    /\ {Nobody, Core, Stale} \cap Calls = {} /\ Nobody # Core /\ Stale \notin {Nobody, Core}
    /\ MaxVersions \in [Pages -> Nat] /\ MaxEdits \in Nat /\ MaxStops \in Nat

VARIABLES
    file,     \* the file of each path: its version and its state
    head,     \* the version of each path in the last commit
    git,      \* the owner of the lock of the repository
    docs,     \* Index._docs: the version of each page and its stamp
    lock,     \* the owner of Index._lock
    pc,       \* where each call is
    target,   \* the path a call writes
    wrote,    \* the version it made, 0 when none
    says,     \* "committed" in its reply
    at,       \* how many paths the search has begun with
    seen,     \* refresh: the paths the walk has met
    stamp,    \* refresh: the stamp of the path it is at
    during,   \* history: what each path held since the search began
    skipped,  \* history: paths that went between the walk and their stat
    edits, stops

diskVars == <<file, during>>
gitVars == <<head, git>>
callVars == <<target, wrote, says>>
searchVars == <<lock, at, seen, stamp, skipped>>
bounds == <<edits, stops>>
vars == <<diskVars, gitVars, docs, pc, callVars, searchVars, bounds>>

\* "odd" is no UTF-8; "bad" has a block between --- that raises no YAMLError
\* and still cannot be parsed (a date such as 2026-13-45).
States == {"none", "text", "odd", "bad"}
NoDoc == [version |-> 0, stamp |-> 0]

\* What a search should make of a file: its version, or 0 for no entry.
Holds(f) == IF f.state = "text" THEN f.version ELSE 0

\* A bound: the writes under way still fit below the bound.
Room(p) ==
    file[p].version + Cardinality({c \in Calls : pc[c] \in {"temp", "replace"} /\ target[c] = p})
        < MaxVersions[p]

Changed(p, state) ==
    LET f == [version |-> file[p].version + 1, state |-> state] IN
    /\ file' = [file EXCEPT ![p] = f]
    /\ during' = IF lock = Nobody THEN during ELSE [during EXCEPT ![p] = @ \cup {Holds(f)}]

Goes(c, next) == pc' = [pc EXCEPT ![c] = next]

-----------------------------------------------------------------------------
(* write_page and write_journal_entry. *)

\* A call that _writer or a check of the path refuses changes nothing.
Writes(c, p, kind) ==
    /\ pc[c] = "idle" /\ c \notin ReadOnly
    /\ KindOf[p] = kind /\ Room(p)
    /\ Goes(c, "temp")
    /\ target' = [target EXCEPT ![c] = p]
    /\ UNCHANGED <<diskVars, gitVars, docs, searchVars, wrote, says, bounds>>

WritePage(c, p) == Writes(c, p, "page")
WriteJournalEntry(c, p) == Writes(c, p, "entry")

\* The text goes into a hidden file beside the page.
WritesTemp(c) ==
    /\ pc[c] = "temp"
    /\ Goes(c, "replace")
    /\ UNCHANGED <<diskVars, gitVars, docs, searchVars, callVars, bounds>>

\* The except branch of _atomic_write removes the hidden file.
DiskFails(c) ==
    /\ pc[c] \in {"temp", "replace"}
    /\ Goes(c, "idle")
    /\ target' = [target EXCEPT ![c] = Paths[1]]
    /\ UNCHANGED <<diskVars, gitVars, docs, searchVars, wrote, says, bounds>>

Replaces(c) ==
    /\ pc[c] = "replace"
    /\ Changed(target[c], "text")
    /\ wrote' = [wrote EXCEPT ![c] = file[target[c]].version + 1]
    /\ Goes(c, "commit")
    /\ UNCHANGED <<gitVars, docs, searchVars, target, says, bounds>>

\* Mutated: the reply does not ask what became of the commit.
CommitRefusedUnseen(c) ==
    /\ pc[c] = "commit"
    /\ says' = [says EXCEPT ![c] = TRUE]
    /\ Goes(c, "done")
    /\ UNCHANGED <<diskVars, gitVars, docs, searchVars, target, wrote, bounds>>

\* Mutated: the commit waits for the lock of the repository.
CommitRefusedOnlyIfFree(c) ==
    /\ pc[c] = "commit" /\ git = Nobody
    /\ Goes(c, "done")
    /\ UNCHANGED <<diskVars, gitVars, docs, searchVars, callVars, bounds>>

\* No repository, another commit under way, a lock that was left, or git fails.
CommitRefused(c) ==
    /\ pc[c] = "commit"
    /\ Goes(c, "done")
    /\ UNCHANGED <<diskVars, gitVars, docs, searchVars, callVars, bounds>>

CommitBegins(c) ==
    /\ pc[c] = "commit" /\ git = Nobody
    /\ git' = c
    /\ Goes(c, "committing")
    /\ UNCHANGED <<diskVars, head, docs, searchVars, callVars, bounds>>

CommitEnds(c) ==
    /\ pc[c] = "committing"
    /\ \E ok \in BOOLEAN :
        /\ says' = [says EXCEPT ![c] = ok]
        /\ head' = IF ok THEN [head EXCEPT ![target[c]] = file[target[c]].version] ELSE head
    /\ git' = Nobody
    /\ Goes(c, "done")
    /\ UNCHANGED <<diskVars, docs, searchVars, target, wrote, bounds>>

Replies(c) ==
    /\ pc[c] = "done"
    /\ Goes(c, "idle")
    /\ wrote' = [wrote EXCEPT ![c] = 0]
    /\ says' = [says EXCEPT ![c] = FALSE]
    /\ target' = [target EXCEPT ![c] = Paths[1]]
    /\ UNCHANGED <<diskVars, gitVars, docs, searchVars, bounds>>

-----------------------------------------------------------------------------
(* search: under the lock of the index it refreshes every entry, then ranks *)
(* them.                                                                    *)

Search(c) ==
    /\ pc[c] = "idle"
    /\ Goes(c, "waiting")
    /\ UNCHANGED <<diskVars, gitVars, docs, searchVars, callVars, bounds>>

TakesIndex(c) ==
    /\ pc[c] = "waiting" /\ lock = Nobody
    /\ lock' = c
    /\ during' = [p \in Pages |-> {Holds(file[p])}]
    /\ Goes(c, "walk")
    /\ UNCHANGED <<file, gitVars, docs, at, seen, stamp, skipped, callVars, bounds>>

Here == Paths[at]

\* iter_pages comes to the next path, which it yields when a file is there.
Walks(c) ==
    /\ pc[c] = "walk" /\ at < Len(Paths)
    /\ at' = at + 1
    /\ \/ file[Paths[at + 1]].state = "none" /\ Goes(c, "walk") /\ UNCHANGED seen
       \/ /\ file[Paths[at + 1]].state # "none" /\ Goes(c, "stat")
          /\ seen' = seen \cup {Paths[at + 1]}
    /\ UNCHANGED <<diskVars, gitVars, docs, lock, stamp, skipped, callVars, bounds>>

\* A path that went since is skipped, and keeps the entry it has.
Stats(c) ==
    /\ pc[c] = "stat"
    /\ \/ /\ file[Here].state = "none"
          /\ skipped' = skipped \cup {Here}
          /\ Goes(c, "walk") /\ UNCHANGED stamp
       \/ /\ file[Here].state # "none" /\ docs[Here].stamp = file[Here].version
          /\ Goes(c, "walk") /\ UNCHANGED <<stamp, skipped>>
       \/ /\ file[Here].state # "none" /\ docs[Here].stamp # file[Here].version
          /\ stamp' = file[Here].version
          /\ Goes(c, "read") /\ UNCHANGED skipped
    /\ UNCHANGED <<diskVars, gitVars, docs, lock, at, seen, callVars, bounds>>

\* Mutated: the stamp is the one the file has when it has been read.
ReadsThenStats(c) ==
    LET f == file[Here] IN
    /\ pc[c] = "read" /\ f.state # "bad"
    /\ Goes(c, "walk")
    /\ \E later \in (IF Holds(f) = 0 THEN {0} ELSE f.version .. MaxVersions[Here]) :
        docs' = [docs EXCEPT ![Here] = [version |-> Holds(f), stamp |-> later]]
    /\ stamp' = 0
    /\ UNCHANGED <<diskVars, gitVars, lock, at, seen, skipped, callVars, bounds>>

\* The entry has the text that is there now under the stamp of before; a file
\* that is gone or no text loses its entry.
Reads(c) ==
    LET f == file[Here] IN
    /\ pc[c] = "read" /\ f.state # "bad"
    /\ Goes(c, "walk")
    /\ docs' = [docs EXCEPT ![Here] =
                    IF Holds(f) = 0 THEN NoDoc ELSE [version |-> f.version, stamp |-> stamp]]
    /\ stamp' = 0
    /\ UNCHANGED <<diskVars, gitVars, lock, at, seen, skipped, callVars, bounds>>

\* The end of a search: the with statement gives the lock back.
Leaves(c) ==
    /\ lock' = Nobody /\ at' = 0 /\ seen' = {} /\ stamp' = 0 /\ skipped' = {}
    /\ during' = [p \in Pages |-> {}]
    /\ Goes(c, "idle")

\* Mutated: an error leaves the index taken.
RaisesHolding(c) ==
    /\ pc[c] = "read" /\ file[Here].state = "bad"
    /\ Goes(c, "idle")
    /\ UNCHANGED <<diskVars, gitVars, docs, searchVars, callVars, bounds>>

\* split_frontmatter_loose takes no error of this page, and search raises it.
Raises(c) ==
    /\ pc[c] = "read" /\ file[Here].state = "bad"
    /\ Leaves(c)
    /\ UNCHANGED <<file, gitVars, docs, callVars, bounds>>

Prunes(c) ==
    /\ pc[c] = "walk" /\ at = Len(Paths)
    /\ docs' = [p \in Pages |-> IF p \in seen THEN docs[p] ELSE NoDoc]
    /\ Goes(c, "rank")
    /\ UNCHANGED <<diskVars, gitVars, searchVars, callVars, bounds>>

Answers(c) ==
    /\ pc[c] = "rank"
    /\ Leaves(c)
    /\ UNCHANGED <<file, gitVars, docs, callVars, bounds>>

-----------------------------------------------------------------------------
(* Core and people change pages; the addon stops and starts again. *)

Edited(p, state) ==
    /\ Room(p) /\ edits < MaxEdits
    /\ edits' = edits + 1
    /\ state = "none" => file[p].state # "none"
    /\ Changed(p, state)
    /\ UNCHANGED <<gitVars, docs, pc, searchVars, callVars, stops>>

NightlyBegins ==
    /\ git = Nobody
    /\ git' = Core
    /\ UNCHANGED <<diskVars, head, docs, pc, searchVars, callVars, bounds>>

NightlyEnds ==
    /\ git = Core
    /\ git' = Nobody
    /\ head' = [p \in Pages |-> file[p].version]
    /\ UNCHANGED <<diskVars, docs, pc, searchVars, callVars, bounds>>

\* A person removes the lock that a stopped git has left.
LockRemoved ==
    /\ git = Stale
    /\ git' = Nobody
    /\ UNCHANGED <<diskVars, head, docs, pc, searchVars, callVars, bounds>>

\* Only the files outlive the process; the index is built again.  A git that the
\* addon had started may have made its commit, and may leave its lock.
Stop ==
    /\ stops < MaxStops
    /\ stops' = stops + 1
    /\ \/ UNCHANGED head
       \/ git \in Calls /\ head' = [head EXCEPT ![target[git]] = file[target[git]].version]
    /\ git' \in IF git \in Calls THEN {Nobody, Stale} ELSE {git}
    /\ docs' = [p \in Pages |-> NoDoc]
    /\ pc' = [c \in Calls |-> "idle"]
    /\ wrote' = [c \in Calls |-> 0] /\ says' = [c \in Calls |-> FALSE]
    /\ lock' = Nobody /\ at' = 0 /\ seen' = {} /\ stamp' = 0 /\ skipped' = {}
    /\ during' = [p \in Pages |-> {}]
    /\ target' = [c \in Calls |-> Paths[1]]
    /\ UNCHANGED <<file, head, edits>>

Init ==
    /\ file = [p \in Pages |-> [version |-> 0, state |-> "none"]]
    /\ edits = 0 /\ stops = 0
    /\ head = [p \in Pages |-> 0] /\ git = Nobody
    /\ docs = [p \in Pages |-> NoDoc]
    /\ pc = [c \in Calls |-> "idle"] /\ target = [c \in Calls |-> Paths[1]]
    /\ wrote = [c \in Calls |-> 0] /\ says = [c \in Calls |-> FALSE]
    /\ lock = Nobody /\ at = 0 /\ seen = {} /\ stamp = 0 /\ skipped = {}
    /\ during = [p \in Pages |-> {}]

\* What a call does once it has begun.
Step(c) ==
    \/ WritesTemp(c) \/ Replaces(c) \/ DiskFails(c)
    \/ CommitRefused(c) \/ CommitBegins(c) \/ CommitEnds(c) \/ Replies(c)
    \/ TakesIndex(c) \/ Walks(c) \/ Stats(c) \/ Reads(c) \/ Raises(c) \/ Prunes(c) \/ Answers(c)

Next ==
    \/ \E c \in Calls : Step(c) \/ Search(c)
    \/ \E c \in Calls, p \in Pages : WritePage(c, p) \/ WriteJournalEntry(c, p)
    \/ \E p \in Pages, state \in States : Edited(p, state)
    \/ NightlyBegins \/ NightlyEnds \/ LockRemoved \/ Stop

Spec == Init /\ [][Next]_vars

\* A thread goes on: a call that has a step to take takes it.  Nothing makes the
\* nightly run end or a person remove a lock, and of the searches that wait for
\* the index none need be the one that gets it.
Fairness == \A c \in Calls : WF_vars(Step(c))

FairSpec == Spec /\ Fairness

-----------------------------------------------------------------------------
\* Type invariant.
TypeOK ==
    /\ file \in [Pages -> [version : Nat, state : States]]
    /\ edits \in 0..MaxEdits /\ stops \in 0..MaxStops
    /\ head \in [Pages -> Nat] /\ git \in Calls \cup {Nobody, Core, Stale}
    /\ docs \in [Pages -> [version : Nat, stamp : Nat]]
    /\ pc \in [Calls -> {"idle", "temp", "replace", "commit", "committing", "done",
                         "waiting", "walk", "stat", "read", "rank"}]
    /\ target \in [Calls -> Pages] /\ wrote \in [Calls -> Nat]
    /\ says \in [Calls -> BOOLEAN]
    /\ lock \in Calls \cup {Nobody} /\ at \in 0..Len(Paths)
    /\ seen \subseteq Pages /\ skipped \subseteq Pages
    /\ stamp \in Nat /\ during \in [Pages -> SUBSET Nat]

\* A search ranks, of every page, a text the page had while the search ran,
\* and no page that was absent all that time.  Only a page deleted between
\* the walk and its stat may show once more (search.py, Index.refresh).
SearchIsCurrent ==
    \A c \in Calls : pc[c] = "rank" =>
        \A p \in Pages \ skipped : docs[p].version \in during[p]

\* When the reply of a write says "committed", the last commit has what the
\* call wrote or something newer of that page, whoever else commits
\* (wiki.py, write_page and write_journal_entry).
CommittedIsKept ==
    \A c \in Calls : pc[c] = "done" /\ says[c] => head[target[c]] >= wrote[c]

\* A call that is over, by an answer or by an error, holds neither the index
\* nor the repository: no later search waits for ever (search.py, Index.search).
NothingHeldAtRest ==
    \A c \in Calls : pc[c] \in {"idle", "waiting"} => lock # c /\ git # c

\* A write under way always comes to its reply, and a search that has the index
\* to its answer or its error, whatever changes the pages and whoever has the
\* repository: also a nightly run that hangs, or a lock that a stop of the addon
\* left (wiki.py, _commit; search.py, Index.search).
CallsEnd ==
    \A c \in Calls : pc[c] \notin {"idle", "waiting"} ~> pc[c] = "idle"

=============================================================================
