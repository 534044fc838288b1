-------------------------- MODULE WikiWritesProofs --------------------------
(***************************************************************************)
(* What holds of the pages and of the search for every wiki, any number of *)
(* calls, changes and stops.                                               *)
(*                                                                         *)
(* The argument for the search: a version of a page is never made twice,   *)
(* and the stamp of an entry was taken before its text was read, so an     *)
(* entry whose stamp is still the one of the file has the text of the      *)
(* file.  Every other entry is read again while the search runs.           *)
(***************************************************************************)
EXTENDS WikiWrites, TLAPS

Searching == {"walk", "stat", "read", "rank"}

\* A call holds the index exactly while it searches, and the repository
\* exactly while it commits.
Held ==
    \A c \in Calls :
        /\ lock = c <=> pc[c] \in Searching
        /\ git = c <=> pc[c] = "committing"

LEMMA PathsFacts ==
    /\ Len(Paths) \in Nat \ {0} /\ DOMAIN Paths = 1..Len(Paths)
    /\ \A i \in 1..Len(Paths) : Paths[i] \in Pages
    /\ Paths[1] \in Pages
    /\ \A p \in Pages : \E i \in 1..Len(Paths) : Paths[i] = p
<1>1. Len(Paths) \in Nat \ {0} /\ DOMAIN Paths = 1..Len(Paths)
  BY WikiAssumption
<1>2. Pages = {Paths[i] : i \in 1..Len(Paths)}
  BY <1>1 DEF Pages, Range
<1> QED BY <1>1, <1>2

-----------------------------------------------------------------------------
(* Types, by the part of the state they are of. *)

FileTypes ==
    /\ file \in [Pages -> [version : Nat, state : States]]
    /\ during \in [Pages -> SUBSET Nat]

DiskTypes ==
    /\ edits \in 0..MaxEdits /\ stops \in 0..MaxStops
    /\ head \in [Pages -> Nat] /\ git \in Calls \cup {Nobody, Core, Stale}

CallTypes ==
    /\ pc \in [Calls -> {"idle", "temp", "replace", "commit", "committing", "done",
                         "waiting", "walk", "stat", "read", "rank"}]
    /\ target \in [Calls -> Pages] /\ wrote \in [Calls -> Nat]
    /\ says \in [Calls -> BOOLEAN]

SearchTypes ==
    /\ docs \in [Pages -> [version : Nat, stamp : Nat]]
    /\ lock \in Calls \cup {Nobody} /\ at \in 0..Len(Paths)
    /\ seen \subseteq Pages /\ skipped \subseteq Pages
    /\ stamp \in Nat

LEMMA TypeParts == TypeOK <=> FileTypes /\ DiskTypes /\ CallTypes /\ SearchTypes
BY DEF TypeOK, FileTypes, DiskTypes, CallTypes, SearchTypes

LEMMA HoldsType == ASSUME NEW f \in [version : Nat, state : States] PROVE Holds(f) \in Nat
BY DEF Holds

LEMMA TypeInit == Init => TypeOK
<1> SUFFICES ASSUME Init PROVE FileTypes /\ DiskTypes /\ CallTypes /\ SearchTypes
  BY TypeParts
<1>1. FileTypes
  BY DEF Init, FileTypes, States
<1>2. DiskTypes
  <2>1. MaxEdits \in Nat /\ MaxStops \in Nat
    BY WikiAssumption
  <2>3. edits \in 0..MaxEdits /\ stops \in 0..MaxStops
    BY <2>1 DEF Init
  <2>4. head \in [Pages -> Nat] /\ git \in Calls \cup {Nobody, Core, Stale}
    BY DEF Init
  <2> QED BY <2>3, <2>4 DEF DiskTypes
<1>3. CallTypes
  <2>1. Paths[1] \in Pages
    BY PathsFacts
  <2> QED BY <2>1 DEF Init, CallTypes
<1>4. SearchTypes
  BY PathsFacts DEF Init, SearchTypes, NoDoc
<1> QED BY <1>1, <1>2, <1>3, <1>4

\* A change of a file keeps the types.
LEMMA ChangedType ==
    ASSUME FileTypes, NEW p \in Pages, NEW state \in States, Changed(p, state)
    PROVE  FileTypes'
<1> DEFINE f == [version |-> file[p].version + 1, state |-> state]
<1>1. f \in [version : Nat, state : States]
  BY DEF FileTypes
<1>2. file' = [file EXCEPT ![p] = f]
      /\ during' = IF lock = Nobody THEN during ELSE [during EXCEPT ![p] = @ \cup {Holds(f)}]
  BY DEF Changed
<1>3. Holds(f) \in Nat
  BY <1>1, HoldsType
<1> HIDE DEF f
<1> QED BY <1>1, <1>2, <1>3 DEF FileTypes

LEMMA FileTypeNext == ASSUME TypeOK, [Next]_vars PROVE FileTypes'
<1> USE TypeParts DEF diskVars
<1>1. CASE \E c \in Calls, p \in Pages : WritePage(c, p) \/ WriteJournalEntry(c, p)
  BY <1>1 DEF WritePage, WriteJournalEntry, Writes, FileTypes
<1>2. ASSUME NEW c \in Calls, Step(c) \/ Search(c) PROVE FileTypes'
  <2>1. CASE Replaces(c)
    BY <2>1, ChangedType DEF Replaces, CallTypes, States
  <2>2. CASE TakesIndex(c)
    BY <2>2, HoldsType DEF TakesIndex, FileTypes
  <2>3. CASE Raises(c) \/ Answers(c)
    BY <2>3 DEF Raises, Answers, Leaves, FileTypes
  <2> QED BY <1>2, <2>1, <2>2, <2>3 DEF Step, WritesTemp, DiskFails, CommitRefused, CommitBegins,
             CommitEnds, Replies, Walks, Stats, Reads, Prunes, Search, FileTypes
<1>3. CASE \E p \in Pages, state \in States : Edited(p, state)
  BY <1>3, ChangedType DEF Edited
<1>4. CASE NightlyBegins \/ NightlyEnds \/ LockRemoved
  BY <1>4 DEF NightlyBegins, NightlyEnds, LockRemoved, FileTypes
<1>5. CASE Stop
  BY <1>5 DEF Stop, FileTypes
<1>6. CASE UNCHANGED vars
  BY <1>6 DEF vars, FileTypes
<1> QED BY <1>1, <1>2, <1>3, <1>4, <1>5, <1>6 DEF Next

LEMMA DiskTypeNext == ASSUME TypeOK, [Next]_vars PROVE DiskTypes'
<1> USE TypeParts DEF gitVars, bounds
<1>1. ASSUME NEW c \in Calls, CommitBegins(c) PROVE DiskTypes'
  BY <1>1 DEF CommitBegins, diskVars, DiskTypes
<1>2. ASSUME NEW c \in Calls, CommitEnds(c) PROVE DiskTypes'
  <2>1. target[c] \in Pages /\ file[target[c]].version \in Nat
    BY DEF CallTypes, FileTypes
  <2> QED BY <1>2, <2>1 DEF CommitEnds, diskVars, DiskTypes
<1>3. ASSUME UNCHANGED <<edits, stops, head, git>> PROVE DiskTypes'
  BY <1>3 DEF DiskTypes
<1>4. ASSUME NEW c \in Calls, Step(c) \/ Search(c), ~CommitBegins(c), ~CommitEnds(c)
      PROVE  DiskTypes'
  BY <1>3, <1>4 DEF Step, WritesTemp, Replaces, DiskFails, CommitRefused, Replies, TakesIndex, Walks,
     Stats, Reads, Raises, Prunes, Answers, Search, diskVars
<1>5. CASE \E c \in Calls, p \in Pages : WritePage(c, p) \/ WriteJournalEntry(c, p)
  BY <1>3, <1>5 DEF WritePage, WriteJournalEntry, Writes, diskVars
<1>6. CASE \E p \in Pages, state \in States : Edited(p, state)
  BY <1>6, WikiAssumption DEF Edited, DiskTypes
<1>7. CASE NightlyBegins \/ LockRemoved
  BY <1>7 DEF NightlyBegins, LockRemoved, DiskTypes, diskVars
<1>8. CASE NightlyEnds
  <2>1. \A p \in Pages : file[p].version \in Nat
    BY DEF FileTypes
  <2> QED BY <1>8, <2>1 DEF NightlyEnds, DiskTypes, diskVars
<1>9. CASE Stop
  <2>1. head' \in [Pages -> Nat] /\ edits' \in 0..MaxEdits
    <3>1. git \in Calls => target[git] \in Pages /\ file[target[git]].version \in Nat
      BY DEF CallTypes, FileTypes
    <3> QED BY <1>9, <3>1 DEF Stop, DiskTypes
  <2>2. stops' \in 0..MaxStops
    BY <1>9, WikiAssumption DEF Stop, DiskTypes
  <2>3. git' \in Calls \cup {Nobody, Core, Stale}
    BY <1>9 DEF Stop, DiskTypes
  <2> QED BY <2>1, <2>2, <2>3 DEF DiskTypes
<1>10. CASE UNCHANGED vars
  BY <1>3, <1>10 DEF vars, diskVars
<1> QED BY <1>1, <1>2, <1>4, <1>5, <1>6, <1>7, <1>8, <1>9, <1>10 DEF Next

LEMMA CallTypeNext == ASSUME TypeOK, [Next]_vars PROVE CallTypes'
<1> USE TypeParts, PathsFacts DEF callVars, Goes
<1>1. ASSUME NEW c \in Calls, NEW p \in Pages, WritePage(c, p) \/ WriteJournalEntry(c, p)
      PROVE  CallTypes'
  <2>1. /\ pc' = [pc EXCEPT ![c] = "temp"] /\ target' = [target EXCEPT ![c] = p]
        /\ UNCHANGED <<wrote, says>>
    BY <1>1 DEF WritePage, WriteJournalEntry, Writes
  <2> QED BY <2>1 DEF CallTypes
<1>2. ASSUME NEW c \in Calls, UNCHANGED callVars,
             pc' = pc \/ \E s \in {"idle", "temp", "replace", "commit", "committing", "done",
                         "waiting", "walk", "stat", "read", "rank"} : Goes(c, s)
      PROVE  CallTypes'
  BY <1>2 DEF CallTypes
<1>3. ASSUME NEW c \in Calls, Step(c) \/ Search(c) PROVE CallTypes'
  <2>1. CASE DiskFails(c)
    BY <2>1 DEF DiskFails, CallTypes
  <2>2. CASE Replaces(c)
    <3>1. file[target[c]].version + 1 \in Nat
      BY DEF CallTypes, FileTypes
    <3> QED BY <2>2, <3>1 DEF Replaces, CallTypes
  <2>3. CASE CommitEnds(c)
    BY <2>3 DEF CommitEnds, CallTypes
  <2>4. CASE Replies(c)
    BY <2>4 DEF Replies, CallTypes
  <2>5. CASE WritesTemp(c) \/ CommitRefused(c) \/ CommitBegins(c)
    BY <1>2, <2>5 DEF WritesTemp, CommitRefused, CommitBegins
  <2>6. CASE TakesIndex(c) \/ Walks(c) \/ Stats(c) \/ Reads(c) \/ Prunes(c) \/ Search(c)
    BY <1>2, <2>6 DEF TakesIndex, Walks, Stats, Reads, Prunes, Search
  <2>7. CASE Raises(c) \/ Answers(c)
    BY <1>2, <2>7 DEF Raises, Answers, Leaves
  <2> QED BY <1>3, <2>1, <2>2, <2>3, <2>4, <2>5, <2>6, <2>7 DEF Step
<1>4. CASE \E p \in Pages, state \in States : Edited(p, state)
  BY <1>4 DEF Edited, CallTypes
<1>5. CASE NightlyBegins \/ NightlyEnds \/ LockRemoved \/ UNCHANGED vars
  BY <1>5 DEF NightlyBegins, NightlyEnds, LockRemoved, vars, CallTypes
<1>6. CASE Stop
  BY <1>6 DEF Stop, CallTypes
<1> QED BY <1>1, <1>3, <1>4, <1>5, <1>6 DEF Next

\* The call that is at a page holds the index, and the page is one of the wiki.
AtAPage == \A c \in Calls : pc[c] \in {"stat", "read"} => at \in 1..Len(Paths)

\* Without a change of pc[c], of the locks and of at, Held and AtAPage stay.
LEMMA HeldNext ==
    ASSUME TypeOK, Held, AtAPage, [Next]_vars
    PROVE  Held' /\ AtAPage'
<1> USE TypeParts DEF gitVars, searchVars, Goes, Searching
<1>0. /\ {Nobody, Core, Stale} \cap Calls = {} /\ Nobody # Core
      /\ Nobody \notin Calls /\ Core \notin Calls /\ Stale \notin Calls
  BY WikiAssumption
<1>1. ASSUME NEW c \in Calls,
             \E s : Goes(c, s) /\ s \notin Searching \cup {"committing"},
             pc[c] \notin Searching \cup {"committing"},
             UNCHANGED <<lock, git, at>>
      PROVE  Held' /\ AtAPage'
  BY <1>1 DEF CallTypes, Held, AtAPage
<1>2. ASSUME NEW c \in Calls, Step(c) \/ Search(c) PROVE Held' /\ AtAPage'
  <2>1. CASE WritesTemp(c) \/ Replaces(c) \/ DiskFails(c) \/ CommitRefused(c) \/ Replies(c) \/ Search(c)
    BY <1>1, <2>1 DEF WritesTemp, Replaces, DiskFails, CommitRefused, Replies, Search
  <2>2. CASE CommitBegins(c)
    BY <1>0, <2>2 DEF CommitBegins, CallTypes, Held, AtAPage
  <2>3. CASE CommitEnds(c)
    BY <1>0, <2>3 DEF CommitEnds, CallTypes, Held, AtAPage
  <2>4. CASE TakesIndex(c)
    BY <1>0, <2>4 DEF TakesIndex, CallTypes, Held, AtAPage
  <2>5. CASE Walks(c)
    <3>1. at + 1 \in 1..Len(Paths)
      BY <2>5, PathsFacts DEF Walks, SearchTypes
    <3>2. lock = c /\ at' = at + 1 /\ UNCHANGED <<lock, git>>
      BY <2>5 DEF Walks, Held
    <3>3. pc' = [pc EXCEPT ![c] = "walk"] \/ pc' = [pc EXCEPT ![c] = "stat"]
      BY <2>5 DEF Walks
    <3>4. Held'
      BY <2>5, <3>2, <3>3 DEF Walks, CallTypes, Held
    <3>5. AtAPage'
      BY <3>1, <3>2 DEF AtAPage
    <3> QED BY <3>4, <3>5
  <2>6. CASE Stats(c) \/ Reads(c) \/ Prunes(c)
    BY <2>6 DEF Stats, Reads, Prunes, CallTypes, Held, AtAPage
  <2>7. CASE Raises(c) \/ Answers(c)
    BY <1>0, <2>7 DEF Raises, Answers, Leaves, CallTypes, Held, AtAPage
  <2> QED BY <1>2, <2>1, <2>2, <2>3, <2>4, <2>5, <2>6, <2>7 DEF Step
<1>3. CASE \E c \in Calls, p \in Pages : WritePage(c, p) \/ WriteJournalEntry(c, p)
  BY <1>1, <1>3 DEF WritePage, WriteJournalEntry, Writes
<1>4. CASE \E p \in Pages, state \in States : Edited(p, state)
  BY <1>4 DEF Edited, Held, AtAPage
<1>5. CASE NightlyBegins \/ NightlyEnds \/ LockRemoved
  BY <1>0, <1>5 DEF NightlyBegins, NightlyEnds, LockRemoved, Held, AtAPage
<1>6. CASE Stop
  BY <1>0, <1>6 DEF Stop, Held, AtAPage
<1>7. CASE UNCHANGED vars
  BY <1>7 DEF vars, Held, AtAPage
<1> QED BY <1>2, <1>3, <1>4, <1>5, <1>6, <1>7 DEF Next

LEMMA SearchTypeNext == ASSUME TypeOK, AtAPage, [Next]_vars PROVE SearchTypes'
<1> USE TypeParts DEF searchVars, Goes
<1>1. ASSUME UNCHANGED <<docs, searchVars>> PROVE SearchTypes'
  BY <1>1 DEF SearchTypes
<1>2. ASSUME NEW c \in Calls, Step(c) \/ Search(c) PROVE SearchTypes'
  <2>1. CASE WritesTemp(c) \/ Replaces(c) \/ DiskFails(c) \/ CommitRefused(c) \/ CommitBegins(c)
             \/ CommitEnds(c) \/ Replies(c) \/ Search(c)
    BY <1>1, <2>1 DEF WritesTemp, Replaces, DiskFails, CommitRefused, CommitBegins, CommitEnds,
       Replies, Search
  <2>2. CASE TakesIndex(c)
    BY <2>2 DEF TakesIndex, SearchTypes
  <2>3. CASE Walks(c)
    <3>1. at + 1 \in 1..Len(Paths) /\ Paths[at + 1] \in Pages
      BY <2>3, PathsFacts DEF Walks, SearchTypes
    <3> QED BY <2>3, <3>1 DEF Walks, SearchTypes
  <2>4. CASE Stats(c) \/ Reads(c)
    <3>1. Here \in Pages /\ file[Here] \in [version : Nat, state : States]
      BY <2>4, PathsFacts DEF Stats, Reads, AtAPage, Here, FileTypes
    <3>2. /\ UNCHANGED <<lock, at, seen>> /\ stamp' \in Nat /\ skipped' \subseteq Pages
          /\ docs' \in [Pages -> [version : Nat, stamp : Nat]]
      <4>1. CASE Stats(c)
        BY <4>1, <3>1 DEF Stats, SearchTypes
      <4>2. CASE Reads(c)
        BY <4>2, <3>1 DEF Reads, SearchTypes, NoDoc
      <4> QED BY <2>4, <4>1, <4>2
    <3> QED BY <3>2 DEF SearchTypes
  <2>5. CASE Prunes(c)
    BY <2>5 DEF Prunes, SearchTypes, NoDoc
  <2>6. CASE Raises(c) \/ Answers(c)
    BY <2>6, PathsFacts DEF Raises, Answers, Leaves, SearchTypes
  <2> QED BY <1>2, <2>1, <2>2, <2>3, <2>4, <2>5, <2>6 DEF Step
<1>3. CASE \E c \in Calls, p \in Pages : WritePage(c, p) \/ WriteJournalEntry(c, p)
  BY <1>1, <1>3 DEF WritePage, WriteJournalEntry, Writes
<1>4. CASE \E p \in Pages, state \in States : Edited(p, state)
  BY <1>1, <1>4 DEF Edited
<1>5. CASE NightlyBegins \/ NightlyEnds \/ LockRemoved
  BY <1>1, <1>5 DEF NightlyBegins, NightlyEnds, LockRemoved
<1>6. CASE Stop
  BY <1>6, PathsFacts DEF Stop, SearchTypes, NoDoc
<1>7. CASE UNCHANGED vars
  BY <1>1, <1>7 DEF vars
<1> QED BY <1>2, <1>3, <1>4, <1>5, <1>6, <1>7 DEF Next

Base == TypeOK /\ Held /\ AtAPage

LEMMA BaseInit == Init => Base
<1> SUFFICES ASSUME Init PROVE Held /\ AtAPage
  BY TypeInit DEF Base
<1> QED BY WikiAssumption DEF Init, Held, AtAPage, Searching

LEMMA BaseNext == ASSUME Base, [Next]_vars PROVE Base'
<1>1. FileTypes' /\ DiskTypes' /\ CallTypes' /\ SearchTypes'
  BY FileTypeNext, DiskTypeNext, CallTypeNext, SearchTypeNext DEF Base
<1>2. TypeOK'
  BY <1>1 DEF TypeOK, FileTypes, DiskTypes, CallTypes, SearchTypes
<1>3. Held' /\ AtAPage'
  BY HeldNext DEF Base
<1> QED BY <1>2, <1>3 DEF Base

\* The types of every variable, for every number of versions.
THEOREM TypeCorrect == Spec => []TypeOK
<1>1. Base => TypeOK
  BY DEF Base
<1> QED BY <1>1, BaseInit, BaseNext, PTL DEF Spec

\* A call that has ended, by an answer or by an error, holds neither the index
\* nor the repository.
THEOREM NothingHeld == Spec => []NothingHeldAtRest
<1>1. Base => NothingHeldAtRest
  BY DEF Base, Held, Searching, NothingHeldAtRest
<1> QED BY <1>1, BaseInit, BaseNext, PTL DEF Spec

-----------------------------------------------------------------------------
(* How files change: a new version each time. *)

FileStep ==
    \A p \in Pages :
        \/ file'[p] = file[p]
        \/ file'[p].version = file[p].version + 1

\* A running search is told of every change.
DuringStep ==
    lock # Nobody =>
        \A p \in Pages :
            /\ during[p] \subseteq during'[p]
            /\ file'[p] = file[p] \/ Holds(file'[p]) \in during'[p]

LEMMA ChangedSteps ==
    ASSUME TypeOK, NEW p \in Pages, NEW state \in States, Changed(p, state)
    PROVE  FileStep /\ DuringStep
<1> DEFINE f == [version |-> file[p].version + 1, state |-> state]
<1>1. file' = [file EXCEPT ![p] = f]
      /\ during' = IF lock = Nobody THEN during ELSE [during EXCEPT ![p] = @ \cup {Holds(f)}]
  BY DEF Changed
<1>2. file \in [Pages -> [version : Nat, state : States]] /\ during \in [Pages -> SUBSET Nat]
  BY DEF TypeOK
<1>3. f.version = file[p].version + 1 /\ f.state = state
  OBVIOUS
<1> HIDE DEF f
<1> QED BY <1>1, <1>2, <1>3 DEF FileStep, DuringStep

\* Only Replaces and a change from outside give a path a new file.
LEMMA FileNext == ASSUME TypeOK, [Next]_vars PROVE FileStep
<1> USE DEF diskVars
<1>1. ASSUME UNCHANGED file PROVE FileStep
  BY <1>1 DEF FileStep
<1>2. CASE \E c \in Calls, p \in Pages : WritePage(c, p) \/ WriteJournalEntry(c, p)
  BY <1>1, <1>2 DEF WritePage, WriteJournalEntry, Writes
<1>3. ASSUME NEW c \in Calls, Step(c) \/ Search(c) PROVE FileStep
  <2>1. CASE Replaces(c)
    BY <2>1, ChangedSteps, TypeParts DEF Replaces, CallTypes, States
  <2>2. CASE Raises(c) \/ Answers(c)
    BY <1>1, <2>2 DEF Raises, Answers
  <2> QED BY <1>1, <1>3, <2>1, <2>2 DEF Step, WritesTemp, DiskFails, CommitRefused, CommitBegins,
             CommitEnds, Replies, TakesIndex, Walks, Stats, Reads, Prunes, Search
<1>4. CASE \E p \in Pages, state \in States : Edited(p, state)
  BY <1>4, ChangedSteps DEF Edited
<1>5. CASE NightlyBegins \/ NightlyEnds \/ LockRemoved \/ Stop \/ UNCHANGED vars
  BY <1>1, <1>5 DEF NightlyBegins, NightlyEnds, LockRemoved, Stop, vars
<1> QED BY <1>2, <1>3, <1>4, <1>5 DEF Next

-----------------------------------------------------------------------------
(* Commits. *)

\* Nothing is committed that is not on the disk, and a call that waits for its
\* commit finds what it wrote there, or something newer.
CommitInv ==
    /\ \A p \in Pages : head[p] <= file[p].version
    /\ \A c \in Calls :
        /\ says[c] => pc[c] = "done"
        /\ pc[c] \in {"commit", "committing"} => wrote[c] <= file[target[c]].version
    /\ CommittedIsKept

LEMMA CommitNext == ASSUME Base, CommitInv, [Next]_vars PROVE CommitInv'
<1> USE TypeParts DEF Base, callVars, gitVars, Goes
<1>1. FileStep
  BY FileNext
<1>2. \A p \in Pages : /\ file'[p].version >= file[p].version
                      /\ file[p].version \in Nat /\ file'[p].version \in Nat
  BY <1>1, FileTypeNext DEF FileStep, FileTypes
<1>3. CallTypes /\ CallTypes'
  BY CallTypeNext
<1>4. head \in [Pages -> Nat] /\ (\A p \in Pages : head[p] \in Nat)
  BY DEF DiskTypes
<1>5. \A c \in Calls : wrote[c] \in Nat /\ target[c] \in Pages
  BY DEF CallTypes
\* A step that leaves commits and replies alone.
<1>6. ASSUME UNCHANGED <<head, wrote, says, target>>,
             \A c \in Calls : \/ pc'[c] = pc[c]
                              \/ ~says[c] /\ pc'[c] \notin {"commit", "committing"}
      PROVE  CommitInv'
  <2>1. \A p \in Pages : head'[p] <= file'[p].version
    BY <1>2, <1>4, <1>6 DEF CommitInv
  <2>2. \A c \in Calls : says'[c] => pc'[c] = "done"
    BY <1>6 DEF CommitInv
  <2>3. \A c \in Calls : pc'[c] \in {"commit", "committing"} => wrote'[c] <= file'[target'[c]].version
    BY <1>2, <1>5, <1>6 DEF CommitInv
  <2>4. CommittedIsKept'
    BY <1>6 DEF CommitInv, CommittedIsKept
  <2> QED BY <2>1, <2>2, <2>3, <2>4 DEF CommitInv
<1>7. ASSUME NEW c \in Calls, Step(c) \/ Search(c) PROVE CommitInv'
  <2>1. CASE WritesTemp(c) \/ CommitRefused(c) \/ Search(c)
    BY <1>3, <1>6, <2>1 DEF WritesTemp, CommitRefused, Search, CallTypes, CommitInv
  <2>2. CASE DiskFails(c)
    <3>1. UNCHANGED <<head, wrote, says>> /\ pc' = [pc EXCEPT ![c] = "idle"] /\ ~says[c]
          /\ \A d \in Calls \ {c} : target'[d] = target[d]
      BY <2>2, <1>3 DEF DiskFails, CallTypes, CommitInv
    <3>2. UNCHANGED file /\ pc'[c] = "idle" /\ \A d \in Calls \ {c} : pc'[d] = pc[d]
      BY <2>2, <1>3, <3>1 DEF DiskFails, CallTypes, diskVars
    <3> QED BY <3>1, <3>2 DEF CommitInv, CommittedIsKept
  <2>3. CASE Replaces(c)
    <3>1. /\ UNCHANGED <<head, says, target>> /\ pc' = [pc EXCEPT ![c] = "commit"] /\ ~says[c]
          /\ wrote' = [wrote EXCEPT ![c] = file[target[c]].version + 1]
      BY <2>3 DEF Replaces, CommitInv
    <3>2. file'[target[c]].version = file[target[c]].version + 1
      BY <2>3, <1>5 DEF Replaces, Changed, FileTypes
    <3>3. wrote'[c] <= file'[target[c]].version
      BY <3>1, <3>2, <1>2, <1>5, <1>3 DEF CallTypes
    <3>4. \A d \in Calls \ {c} : wrote'[d] = wrote[d] /\ pc'[d] = pc[d]
      BY <3>1, <1>3 DEF CallTypes
    <3>5. pc'[c] = "commit"
      BY <3>1, <1>3 DEF CallTypes
    <3>6. \A p \in Pages : head'[p] <= file'[p].version
      BY <1>2, <1>4, <3>1 DEF CommitInv
    <3>7. \A d \in Calls : says'[d] => d # c /\ pc'[d] = "done"
      BY <3>1, <3>4 DEF CommitInv
    <3>8. \A d \in Calls : pc'[d] \in {"commit", "committing"} => wrote'[d] <= file'[target'[d]].version
      BY <1>2, <1>5, <3>1, <3>3, <3>4 DEF CommitInv
    <3>9. CommittedIsKept'
      BY <3>1, <3>4, <3>7 DEF CommitInv, CommittedIsKept
    <3> QED BY <3>6, <3>7, <3>8, <3>9 DEF CommitInv
  <2>4. CASE CommitBegins(c)
    <3>1. UNCHANGED <<head, wrote, says, target, file>> /\ pc' = [pc EXCEPT ![c] = "committing"]
          /\ pc[c] = "commit"
      BY <2>4 DEF CommitBegins, diskVars
    <3> QED BY <3>1, <1>3 DEF CommitInv, CommittedIsKept, CallTypes
  <2>5. CASE CommitEnds(c)
    <3>1. PICK ok \in BOOLEAN :
            /\ says' = [says EXCEPT ![c] = ok]
            /\ head' = IF ok THEN [head EXCEPT ![target[c]] = file[target[c]].version] ELSE head
      BY <2>5 DEF CommitEnds
    <3>2. UNCHANGED <<wrote, target, file>> /\ pc' = [pc EXCEPT ![c] = "done"] /\ pc[c] = "committing"
      BY <2>5 DEF CommitEnds, diskVars
    <3>3. \A p \in Pages : head'[p] >= head[p] /\ head'[p] <= file'[p].version
      BY <1>2, <1>4, <1>5, <3>1, <3>2 DEF CommitInv
    <3>4. says'[c] => head'[target[c]] = file[target[c]].version
      BY <1>3, <1>4, <1>5, <3>1 DEF CallTypes
    <3>5. \A d \in Calls \ {c} : says'[d] = says[d] /\ pc'[d] = pc[d]
      BY <1>3, <3>1, <3>2 DEF CallTypes
    <3>6. pc'[c] = "done"
      BY <1>3, <3>2 DEF CallTypes
    <3>7. \A p \in Pages : head'[p] \in Nat
      BY DiskTypeNext DEF DiskTypes
    <3> QED BY <1>2, <1>4, <1>5, <3>2, <3>3, <3>4, <3>5, <3>6, <3>7 DEF CommitInv, CommittedIsKept
  <2>6. CASE Replies(c)
    <3>1. UNCHANGED <<head, file>> /\ pc'[c] = "idle" /\ says'[c] = FALSE
          /\ \A d \in Calls \ {c} : /\ target'[d] = target[d] /\ wrote'[d] = wrote[d]
                                    /\ says'[d] = says[d] /\ pc'[d] = pc[d]
      BY <2>6, <1>3 DEF Replies, CallTypes, diskVars
    <3> QED BY <3>1 DEF CommitInv, CommittedIsKept
  <2>7. CASE TakesIndex(c) \/ Walks(c) \/ Stats(c) \/ Reads(c) \/ Prunes(c)
    BY <1>3, <1>6, <2>7 DEF TakesIndex, Walks, Stats, Reads, Prunes, CallTypes, CommitInv
  <2>8. CASE Raises(c) \/ Answers(c)
    BY <1>3, <1>6, <2>8 DEF Raises, Answers, Leaves, CallTypes, CommitInv
  <2> QED BY <1>7, <2>1, <2>2, <2>3, <2>4, <2>5, <2>6, <2>7, <2>8 DEF Step
<1>8. ASSUME NEW c \in Calls, NEW p \in Pages, WritePage(c, p) \/ WriteJournalEntry(c, p)
      PROVE  CommitInv'
  <2>1. /\ UNCHANGED <<head, file>> /\ pc'[c] = "temp" /\ says'[c] = says[c] /\ pc[c] = "idle"
        /\ \A d \in Calls \ {c} : /\ target'[d] = target[d] /\ wrote'[d] = wrote[d]
                                  /\ says'[d] = says[d] /\ pc'[d] = pc[d]
    BY <1>8, <1>3 DEF WritePage, WriteJournalEntry, Writes, CallTypes, diskVars
  <2> QED BY <2>1 DEF CommitInv, CommittedIsKept
<1>9. CASE (\E p \in Pages, state \in States : Edited(p, state)) \/ NightlyBegins \/ LockRemoved \/ UNCHANGED vars
  BY <1>6, <1>9 DEF Edited, NightlyBegins, LockRemoved, vars
<1>10. CASE NightlyEnds
  <2>1. UNCHANGED <<wrote, says, target, pc, file>> /\ head' = [p \in Pages |-> file[p].version]
    BY <1>10 DEF NightlyEnds, diskVars
  <2> QED BY <2>1, <1>2, <1>4, <1>5 DEF CommitInv, CommittedIsKept
<1>11. CASE Stop
  <2>1. file' = file /\ \A p \in Pages : head'[p] <= file[p].version
    <3>1. head' = head \/ \E p \in Pages : head' = [head EXCEPT ![p] = file[p].version]
      BY <1>11, <1>5 DEF Stop
    <3> QED BY <1>2, <1>4, <1>11, <3>1 DEF Stop, CommitInv
  <2>2. \A c \in Calls : pc'[c] = "idle" /\ ~says'[c]
    BY <1>11 DEF Stop
  <2> QED BY <2>1, <2>2 DEF CommitInv, CommittedIsKept
<1> QED BY <1>7, <1>8, <1>9, <1>10, <1>11 DEF Next

\* A reply that says committed is true, whoever else commits.
THEOREM CommittedKept == Spec => []CommittedIsKept
<1>1. Init => CommitInv
  BY DEF Init, CommitInv, CommittedIsKept
<1>2. CommitInv => CommittedIsKept
  BY DEF CommitInv
<1> QED BY <1>1, <1>2, BaseInit, BaseNext, CommitNext, PTL DEF Spec

-----------------------------------------------------------------------------
(* The search. *)

\* An entry is never newer than its file, its stamp never newer than its text,
\* and an entry of the version on the disk has what is on the disk.
EntryInv ==
    \A p \in Pages :
        /\ docs[p].stamp <= docs[p].version /\ docs[p].version <= file[p].version
        /\ docs[p].version = file[p].version => Holds(file[p]) = docs[p].version
        /\ file[p].version = 0 => file[p].state = "none"

\* The pages that the search under way has done with.
Done(i) == i < at \/ (i = at /\ \E c \in Calls : pc[c] = "walk")

\* A search knows what each page held since it began, the stamp it took is no
\* newer than the file, and a page it has done with is listed as it was at some
\* time of the search.
Listed(i) ==
    /\ Paths[i] \in seen => i <= at
    /\ Done(i) /\ Paths[i] \in seen \ skipped => docs[Paths[i]].version \in during[Paths[i]]
    /\ Done(i) /\ Paths[i] \notin seen => 0 \in during[Paths[i]]

SearchOf(c) ==
    /\ pc[c] \in Searching => \A p \in Pages : Holds(file[p]) \in during[p]
    /\ pc[c] = "read" => stamp <= file[Here].version
    /\ pc[c] \in {"stat", "read"} => Here \in seen
    /\ pc[c] \in Searching \ {"rank"} => \A i \in 1..Len(Paths) : Listed(i)
    /\ pc[c] = "rank" => \A p \in Pages \ skipped : docs[p].version \in during[p]

SearchInv == \A c \in Calls : SearchOf(c)

\* A call that does not search, or the only one that does.
LEMMA OneSearch ==
    ASSUME NEW c \in Calls, \A d \in Calls \ {c} : pc'[d] \notin Searching, SearchOf(c)'
    PROVE  SearchInv'
<1>1. \A d \in Calls \ {c} : SearchOf(d)'
  BY DEF SearchOf, Searching
<1> QED BY <1>1 DEF SearchInv

\* A free index has no search under way.
Rest == lock = Nobody => at = 0 /\ seen = {} /\ skipped = {}

LEMMA EntryStays ==
    ASSUME TypeOK, EntryInv, FileStep, UNCHANGED docs
    PROVE  EntryInv'
<1> SUFFICES ASSUME NEW p \in Pages
    PROVE  /\ docs[p].stamp <= docs[p].version /\ docs[p].version <= file'[p].version
           /\ docs[p].version = file'[p].version => Holds(file'[p]) = docs[p].version
           /\ file'[p].version = 0 => file'[p].state = "none"
  BY DEF EntryInv
<1>1. /\ docs[p].stamp \in Nat /\ docs[p].version \in Nat /\ file[p].version \in Nat
      /\ docs[p].stamp <= docs[p].version /\ docs[p].version <= file[p].version
  BY DEF TypeOK, EntryInv
<1>2. CASE file'[p] = file[p]
  BY <1>1, <1>2 DEF EntryInv
<1>3. CASE file'[p].version = file[p].version + 1
  BY <1>1, <1>3
<1> QED BY <1>2, <1>3 DEF FileStep

\* A step beside a search: files change, and the search is told.
LEMMA SearchStays ==
    ASSUME Base, SearchInv, FileStep, DuringStep,
           UNCHANGED <<docs, searchVars>>,
           \A c \in Calls : pc'[c] = pc[c] \/ (pc[c] \notin Searching /\ pc'[c] \notin Searching)
    PROVE  SearchInv'
<1> USE DEF searchVars
<1>1. \A c \in Calls : pc'[c] \in Searching => pc'[c] = pc[c] /\ lock = c /\ lock # Nobody
  BY WikiAssumption DEF Base, Held
<1>2. \A c \in Calls : pc'[c] = "walk" <=> pc[c] = "walk"
  BY DEF Searching
<1>3. \A i \in 1..Len(Paths) : Done(i)' <=> Done(i)
  BY <1>2 DEF Done
<1>4. ASSUME NEW c \in Calls, pc'[c] \in Searching
      PROVE  \A p \in Pages : during[p] \subseteq during'[p] /\ Holds(file'[p]) \in during'[p]
  BY <1>1, <1>4 DEF DuringStep, SearchInv, SearchOf
<1>5. \A p \in Pages : /\ file[p].version \in Nat /\ file'[p].version \in Nat
                      /\ file[p].version <= file'[p].version
  <2> TAKE p \in Pages
  <2>1. file[p].version \in Nat
    BY DEF Base, TypeOK
  <2> QED BY <2>1 DEF FileStep
<1>6. \A c \in Calls : pc[c] \in {"stat", "read"} => Here \in Pages
  BY PathsFacts DEF Base, AtAPage, Here
<1>7. stamp \in Nat /\ Here' = Here
  BY DEF Base, TypeOK, Here
<1>8. ASSUME NEW c \in Calls, pc'[c] \in Searching
      PROVE  /\ pc'[c] = "read" => stamp' <= file'[Here'].version
             /\ pc'[c] \in {"stat", "read"} => Here' \in seen'
  <2>1. pc'[c] = pc[c]
    BY <1>1, <1>8
  <2>2. pc[c] = "read" => stamp <= file[Here].version /\ Here \in Pages
    BY <1>6 DEF SearchInv, SearchOf
  <2>3. pc[c] = "read" => stamp <= file'[Here].version
    BY <1>5, <1>7, <2>2
  <2>4. pc[c] \in {"stat", "read"} => Here \in seen
    BY DEF SearchInv, SearchOf
  <2> QED BY <1>7, <2>1, <2>3, <2>4
<1>9. ASSUME NEW c \in Calls, pc'[c] \in Searching \ {"rank"}, NEW i \in 1..Len(Paths)
      PROVE  Listed(i)'
  <2>1. Listed(i) /\ during[Paths[i]] \subseteq during'[Paths[i]]
    BY <1>1, <1>4, <1>9, PathsFacts DEF SearchInv, SearchOf
  <2> QED BY <1>3, <2>1 DEF Listed
<1>10. ASSUME NEW c \in Calls, pc'[c] = "rank"
       PROVE  \A p \in Pages \ skipped' : docs'[p].version \in during'[p]
  BY <1>1, <1>4, <1>10 DEF SearchInv, SearchOf, Searching
<1>11. \A c \in Calls : SearchOf(c)'
  BY <1>4, <1>8, <1>9, <1>10 DEF SearchOf, Searching
<1> QED BY <1>11 DEF SearchInv

\* After a step that ends every search there is nothing to show.
LEMMA NoSearch == ASSUME \A c \in Calls : pc'[c] \notin Searching PROVE SearchInv'
BY DEF SearchInv, SearchOf, Searching

LEMMA SearchSteps ==
    ASSUME Base, EntryInv, SearchInv, Rest, NEW c \in Calls,
           TakesIndex(c) \/ Walks(c) \/ Stats(c) \/ Reads(c) \/ Raises(c) \/ Prunes(c) \/ Answers(c)
    PROVE  EntryInv' /\ SearchInv' /\ Rest'
<1> USE TypeParts DEF diskVars, searchVars, Goes
<1>1. \A d \in Calls \ {c} : pc[d] \in Searching => lock # c
  BY DEF Base, Held
<1>2. pc \in [Calls -> {"idle", "temp", "replace", "commit", "committing", "done",
                         "waiting", "walk", "stat", "read", "rank"}]
  BY DEF Base, CallTypes
<1>3. Nobody \notin Calls
  BY WikiAssumption
<1>4. pc[c] \in Searching => \A d \in Calls \ {c} : pc[d] \notin Searching
  BY DEF Base, Held
<1>5. FileTypes /\ SearchTypes
  BY DEF Base
\* What is to be shown when the step leaves only c at a search.
<1>6. ASSUME NEW s, pc' = [pc EXCEPT ![c] = s], \A d \in Calls \ {c} : pc[d] \notin Searching
      PROVE  /\ pc'[c] = s /\ \A d \in Calls \ {c} : pc'[d] \notin Searching
             /\ s # "walk" => \A i : Done(i)' <=> i < at'
             /\ s = "walk" => \A i : Done(i)' <=> i < at' \/ i = at'
  BY <1>2, <1>6 DEF Done, Searching
<1>7. CASE TakesIndex(c)
  <2>1. /\ lock = Nobody /\ pc' = [pc EXCEPT ![c] = "walk"]
        /\ UNCHANGED <<file, docs, at, seen, stamp, skipped>>
        /\ during' = [p \in Pages |-> {Holds(file[p])}]
    BY <1>7 DEF TakesIndex
  <2>2. \A d \in Calls : pc[d] \notin Searching
    BY <2>1, <1>3 DEF Base, Held
  <2>3. pc'[c] = "walk" /\ (\A d \in Calls \ {c} : pc'[d] \notin Searching)
        /\ \A i : Done(i)' <=> i < at' \/ i = at'
    BY <1>6, <2>1, <2>2
  <2>4. at' = 0 /\ seen' = {}
    BY <2>1 DEF Rest
  <2>5. \A p \in Pages : Holds(file'[p]) \in during'[p]
    BY <2>1
  <2>6. \A i \in 1..Len(Paths) : ~Done(i)'
    BY <2>3, <2>4
  <2>7. SearchOf(c)'
    BY <2>3, <2>4, <2>5, <2>6 DEF SearchOf, Listed, Searching
  <2>8. lock' # Nobody
    BY <1>3, <1>7 DEF TakesIndex
  <2> QED BY <2>1, <2>3, <2>7, <2>8, OneSearch DEF EntryInv, Rest
<1>8. CASE Walks(c)
  <2> DEFINE p == Paths[at + 1]
  <2>1. /\ pc[c] = "walk" /\ at < Len(Paths) /\ at' = at + 1
        /\ UNCHANGED <<file, during, docs, lock, stamp, skipped>>
        /\ \/ file[p].state = "none" /\ pc' = [pc EXCEPT ![c] = "walk"] /\ seen' = seen
           \/ file[p].state # "none" /\ pc' = [pc EXCEPT ![c] = "stat"] /\ seen' = seen \cup {p}
    BY <1>8 DEF Walks
  <2>2. at \in Nat /\ at + 1 \in 1..Len(Paths) /\ p \in Pages /\ Here' = p
    BY <2>1, <1>5, PathsFacts DEF SearchTypes, Here
  <2>3. \A i \in 1..Len(Paths) : Done(i) <=> i < at \/ i = at
    BY <2>1, <2>2 DEF Done
  <2>4. /\ \A q \in Pages : Holds(file[q]) \in during[q]
        /\ \A i \in 1..Len(Paths) :
                /\ Paths[i] \in seen => i <= at
                /\ i <= at /\ Paths[i] \in seen \ skipped => docs[Paths[i]].version \in during[Paths[i]]
                /\ i <= at /\ Paths[i] \notin seen => 0 \in during[Paths[i]]
    <3>1. pc[c] \in Searching /\ pc[c] \in Searching \ {"rank"}
      BY <2>1 DEF Searching
    <3> QED BY <2>2, <2>3, <3>1 DEF SearchInv, SearchOf, Listed
  <2>5. \A i \in 1..Len(Paths) : i # at + 1 => Paths[i] # p
    BY <2>2, PathsFacts, WikiAssumption
  <2>6. ASSUME file[p].state = "none", pc' = [pc EXCEPT ![c] = "walk"], seen' = seen
        PROVE  SearchInv'
    <3>1. pc'[c] = "walk" /\ (\A d \in Calls \ {c} : pc'[d] \notin Searching)
          /\ \A i : Done(i)' <=> i < at' \/ i = at'
      BY <1>4, <1>6, <2>1, <2>6 DEF Searching
    <3>2. Holds(file[p]) = 0 /\ 0 \in during[p]
      BY <2>2, <2>4, <2>6 DEF Holds
    <3>3. p \notin seen
      BY <2>2, <2>4
    <3>4. ASSUME NEW i \in 1..Len(Paths) PROVE Listed(i)'
      <4>1. CASE i = at + 1
        BY <4>1, <2>1, <2>2, <2>6, <3>2, <3>3 DEF Listed
      <4>2. CASE i # at + 1
        <5>1. Done(i)' => i <= at
          BY <4>2, <2>1, <2>2, <3>1
        <5> QED BY <4>2, <5>1, <2>1, <2>2, <2>4, <2>6 DEF Listed
      <4> QED BY <4>1, <4>2
    <3>5. SearchOf(c)'
      <4>1. \A q \in Pages : Holds(file'[q]) \in during'[q]
        BY <2>1, <2>4
      <4>2. pc'[c] \notin {"stat", "read", "rank"}
        BY <3>1
      <4> QED BY <3>4, <4>1, <4>2 DEF SearchOf
    <3> QED BY <3>1, <3>5, OneSearch
  <2>7. ASSUME file[p].state # "none", pc' = [pc EXCEPT ![c] = "stat"], seen' = seen \cup {p}
        PROVE  SearchInv'
    <3>1. pc'[c] = "stat" /\ (\A d \in Calls \ {c} : pc'[d] \notin Searching)
          /\ \A i : Done(i)' <=> i < at'
      BY <1>4, <1>6, <2>1, <2>7 DEF Searching
    <3>2. ASSUME NEW i \in 1..Len(Paths) PROVE Listed(i)'
      <4>1. CASE i = at + 1
        BY <4>1, <2>1, <2>2, <2>7, <3>1 DEF Listed
      <4>2. CASE i # at + 1
        <5>1. Done(i)' => i <= at
          BY <4>2, <2>1, <2>2, <3>1
        <5>2. Paths[i] \in seen' <=> Paths[i] \in seen
          BY <4>2, <2>5, <2>7
        <5> QED BY <5>1, <5>2, <2>1, <2>2, <2>4 DEF Listed
      <4> QED BY <4>1, <4>2
    <3>3. Here' \in seen'
      BY <2>2, <2>7
    <3>4. SearchOf(c)'
      <4>1. \A q \in Pages : Holds(file'[q]) \in during'[q]
        BY <2>1, <2>4
      <4>2. pc'[c] \notin {"read", "rank"}
        BY <3>1
      <4> QED BY <3>2, <3>3, <4>1, <4>2 DEF SearchOf
    <3> QED BY <3>1, <3>4, OneSearch
  <2>8. EntryInv'
    BY <2>1 DEF EntryInv
  <2>9. lock' # Nobody
    BY <2>1, <1>3 DEF Base, Held, Searching
  <2> QED BY <2>1, <2>6, <2>7, <2>8, <2>9 DEF Rest
<1>9. CASE Stats(c)
  <2>1. /\ pc[c] = "stat" /\ UNCHANGED <<file, during, docs, lock, at, seen>>
        /\ \/ file[Here].state = "none" /\ skipped' = skipped \cup {Here}
              /\ pc' = [pc EXCEPT ![c] = "walk"] /\ stamp' = stamp
           \/ file[Here].state # "none" /\ docs[Here].stamp = file[Here].version
              /\ pc' = [pc EXCEPT ![c] = "walk"] /\ stamp' = stamp /\ skipped' = skipped
           \/ file[Here].state # "none" /\ stamp' = file[Here].version
              /\ pc' = [pc EXCEPT ![c] = "read"] /\ skipped' = skipped
    BY <1>9 DEF Stats
  <2>2. at \in 1..Len(Paths) /\ Here \in Pages /\ Here = Paths[at] /\ Here' = Here
    BY <2>1, PathsFacts DEF Base, AtAPage, Here
  <2>3. (\A i \in 1..Len(Paths) : Done(i) <=> i < at) /\ pc[c] \in Searching
    BY <1>2, <1>4, <2>1, <2>2 DEF Done, Searching
  <2>4. (\A q \in Pages : Holds(file[q]) \in during[q]) /\ Here \in seen
        /\ \A i \in 1..Len(Paths) : Listed(i)
    BY <2>1, <2>3 DEF SearchInv, SearchOf, Searching
  <2>5. \A d \in Calls \ {c} : pc[d] \notin Searching
    BY <1>4, <2>3
  <2>6. ASSUME pc' = [pc EXCEPT ![c] = "walk"],
               Here \in skipped' \/ docs[Here].version \in during[Here], skipped \subseteq skipped'
        PROVE  SearchInv'
    <3>1. pc'[c] = "walk" /\ (\A d \in Calls \ {c} : pc'[d] \notin Searching)
          /\ \A i : Done(i)' <=> i < at \/ i = at
      BY <1>6, <2>1, <2>5, <2>6
    <3>2. ASSUME NEW i \in 1..Len(Paths) PROVE Listed(i)'
      <4>1. CASE i = at
        BY <4>1, <2>1, <2>2, <2>4, <2>6 DEF Listed
      <4>2. CASE i # at
        BY <4>2, <2>1, <2>2, <2>3, <2>4, <2>6, <3>1 DEF Listed
      <4> QED BY <4>1, <4>2
    <3>3. SearchOf(c)'
      <4>1. \A q \in Pages : Holds(file'[q]) \in during'[q]
        BY <2>1, <2>4
      <4>2. pc'[c] \notin {"stat", "read", "rank"}
        BY <3>1
      <4> QED BY <3>2, <4>1, <4>2 DEF SearchOf
    <3> QED BY <3>1, <3>3, OneSearch
  <2>7. ASSUME file[Here].state = "none", skipped' = skipped \cup {Here},
               pc' = [pc EXCEPT ![c] = "walk"]
        PROVE  SearchInv'
    BY <2>6, <2>7
  <2>8. ASSUME file[Here].state # "none", docs[Here].stamp = file[Here].version,
               pc' = [pc EXCEPT ![c] = "walk"], skipped' = skipped
        PROVE  SearchInv'
    <3>1. docs[Here].stamp \in Nat /\ docs[Here].version \in Nat /\ file[Here].version \in Nat
      BY <1>5, <2>2 DEF FileTypes, SearchTypes
    <3>2. docs[Here].version = file[Here].version
      BY <2>2, <2>8, <3>1 DEF EntryInv
    <3>3. docs[Here].version = Holds(file[Here])
      BY <2>2, <3>2 DEF EntryInv
    <3> QED BY <2>2, <2>4, <2>6, <2>8, <3>3
  <2>9. ASSUME stamp' = file[Here].version, pc' = [pc EXCEPT ![c] = "read"], skipped' = skipped
        PROVE  SearchInv'
    <3>1. pc'[c] = "read" /\ (\A d \in Calls \ {c} : pc'[d] \notin Searching)
          /\ \A i : Done(i)' <=> i < at
      BY <1>6, <2>1, <2>5, <2>9
    <3>2. \A i \in 1..Len(Paths) : Listed(i)'
      BY <2>1, <2>3, <2>4, <2>9, <3>1 DEF Listed
    <3>3. stamp' <= file'[Here'].version /\ Here' \in seen'
      BY <1>5, <2>1, <2>2, <2>4, <2>9 DEF FileTypes
    <3>4. SearchOf(c)'
      <4>1. \A q \in Pages : Holds(file'[q]) \in during'[q]
        BY <2>1, <2>4
      <4> QED BY <3>1, <3>2, <3>3, <4>1 DEF SearchOf
    <3> QED BY <3>1, <3>4, OneSearch
  <2>10. EntryInv' /\ lock' # Nobody
    BY <2>1, <2>3, <1>3 DEF EntryInv, Base, Held
  <2> QED BY <2>1, <2>7, <2>8, <2>9, <2>10 DEF Rest
<1>10. CASE Reads(c)
  <2> DEFINE f == file[Here]
             doc == IF Holds(f) = 0 THEN NoDoc ELSE [version |-> f.version, stamp |-> stamp]
  <2>1. /\ pc[c] = "read" /\ UNCHANGED <<file, during, lock, at, seen, skipped>>
        /\ pc' = [pc EXCEPT ![c] = "walk"] /\ docs' = [docs EXCEPT ![Here] = doc]
    BY <1>10 DEF Reads
  <2>2. at \in 1..Len(Paths) /\ Here \in Pages /\ Here = Paths[at]
    BY <2>1, PathsFacts DEF Base, AtAPage, Here
  <2>3. (\A i \in 1..Len(Paths) : Done(i) <=> i < at) /\ pc[c] \in Searching
    BY <1>2, <1>4, <2>1, <2>2 DEF Done, Searching
  <2>4. (\A q \in Pages : Holds(file[q]) \in during[q]) /\ Here \in seen
        /\ stamp <= f.version /\ \A i \in 1..Len(Paths) : Listed(i)
    BY <2>1, <2>3 DEF SearchInv, SearchOf, Searching
  <2>5. pc'[c] = "walk" /\ (\A d \in Calls \ {c} : pc'[d] \notin Searching)
        /\ \A i : Done(i)' <=> i < at \/ i = at
    BY <1>4, <1>6, <2>1, <2>3
  <2>6. f.version \in Nat /\ stamp \in Nat /\ docs \in [Pages -> [version : Nat, stamp : Nat]]
    BY <1>5, <2>2 DEF FileTypes, SearchTypes
  <2>7. doc.version = Holds(f) /\ doc.stamp <= doc.version /\ doc.version <= f.version
    BY <2>4, <2>6 DEF Holds, NoDoc
  <2>8. docs'[Here] = doc /\ \A q \in Pages \ {Here} : docs'[q] = docs[q]
    BY <2>1, <2>2, <2>6
  <2> HIDE DEF doc
  <2>9. EntryInv'
    BY <2>1, <2>2, <2>7, <2>8 DEF EntryInv
  <2>10. ASSUME NEW i \in 1..Len(Paths) PROVE Listed(i)'
    <3>1. CASE Paths[i] = Here
      <4>1. docs'[Paths[i]].version \in during'[Paths[i]]
        BY <3>1, <2>1, <2>2, <2>4, <2>7, <2>8
      <4> QED BY <3>1, <4>1, <2>1, <2>4 DEF Listed
    <3>2. CASE Paths[i] # Here
      <4>1. i # at /\ docs'[Paths[i]] = docs[Paths[i]]
        BY <3>2, <2>2, <2>8, PathsFacts
      <4> QED BY <4>1, <2>1, <2>2, <2>3, <2>4, <2>5 DEF Listed
    <3> QED BY <3>1, <3>2
  <2>11. SearchOf(c)'
    <3>1. \A q \in Pages : Holds(file'[q]) \in during'[q]
      BY <2>1, <2>4
    <3>2. pc'[c] \notin {"stat", "read", "rank"}
      BY <2>5
    <3> QED BY <2>10, <3>1, <3>2 DEF SearchOf
  <2>12. lock' # Nobody
    BY <2>1, <2>3, <1>3 DEF Base, Held
  <2> QED BY <2>5, <2>9, <2>11, <2>12, OneSearch DEF Rest
<1>11. CASE Raises(c) \/ Answers(c)
  <2>1. /\ pc[c] \in Searching /\ pc' = [pc EXCEPT ![c] = "idle"] /\ UNCHANGED <<file, docs>>
        /\ at' = 0 /\ seen' = {} /\ skipped' = {}
    BY <1>11 DEF Raises, Answers, Leaves, Searching
  <2>2. \A d \in Calls : pc'[d] \notin Searching
    BY <1>2, <1>4, <2>1 DEF Searching
  <2> QED BY <2>1, <2>2, NoSearch DEF EntryInv, Rest
<1>12. CASE Prunes(c)
  <2>1. /\ pc[c] = "walk" /\ at = Len(Paths)
        /\ pc' = [pc EXCEPT ![c] = "rank"]
        /\ UNCHANGED <<file, during, lock, at, seen, stamp, skipped>>
        /\ docs' = [p \in Pages |-> IF p \in seen THEN docs[p] ELSE NoDoc]
    BY <1>12 DEF Prunes
  <2>2. (\A i \in 1..Len(Paths) : Done(i)) /\ pc[c] \in Searching
    BY <2>1, PathsFacts DEF Done, Searching
  <2>3. (\A q \in Pages : Holds(file[q]) \in during[q]) /\ \A i \in 1..Len(Paths) : Listed(i)
    BY <2>1, <2>2 DEF SearchInv, SearchOf, Searching
  <2>4. pc'[c] = "rank" /\ (\A d \in Calls \ {c} : pc'[d] \notin Searching)
    BY <1>4, <1>6, <2>1, <2>2
  <2>5. ASSUME NEW p \in Pages \ skipped' PROVE docs'[p].version \in during'[p]
    <3>1. PICK i \in 1..Len(Paths) : Paths[i] = p
      BY PathsFacts
    <3>2. CASE p \in seen
      BY <3>1, <3>2, <2>1, <2>2, <2>3 DEF Listed
    <3>3. CASE p \notin seen
      BY <3>1, <3>3, <2>1, <2>2, <2>3 DEF Listed, NoDoc
    <3> QED BY <3>2, <3>3
  <2>6. SearchOf(c)'
    <3>1. \A q \in Pages : Holds(file'[q]) \in during'[q]
      BY <2>1, <2>3
    <3> QED BY <2>4, <2>5, <3>1 DEF SearchOf
  <2>7. EntryInv'
    <3>1. \A p \in Pages : file[p].version \in Nat /\ (file[p].version = 0 => file[p].state = "none")
      BY <1>5 DEF FileTypes, EntryInv
    <3>2. \A p \in Pages : docs'[p] = docs[p] \/ docs'[p] = NoDoc
      BY <2>1
    <3> QED BY <2>1, <3>1, <3>2 DEF EntryInv, NoDoc, Holds
  <2>8. lock' # Nobody
    BY <2>1, <2>2, <1>3 DEF Base, Held
  <2> QED BY <2>4, <2>6, <2>7, <2>8, OneSearch DEF Rest
<1> QED BY <1>7, <1>8, <1>9, <1>10, <1>11, <1>12

LEMMA SearchNext ==
    ASSUME Base, EntryInv, SearchInv, Rest, [Next]_vars
    PROVE  EntryInv' /\ SearchInv' /\ Rest'
<1> USE TypeParts DEF diskVars, searchVars, Goes
<1>1. FileStep
  BY FileNext DEF Base
<1>2. pc \in [Calls -> {"idle", "temp", "replace", "commit", "committing", "done",
                         "waiting", "walk", "stat", "read", "rank"}]
  BY DEF Base, CallTypes
<1>3. ASSUME DuringStep, UNCHANGED <<docs, searchVars>>,
             \A c \in Calls : pc'[c] = pc[c] \/ (pc[c] \notin Searching /\ pc'[c] \notin Searching)
      PROVE  EntryInv' /\ SearchInv' /\ Rest'
  BY <1>1, <1>3, EntryStays, SearchStays DEF Base, Rest
<1>4. ASSUME UNCHANGED <<file, during>> PROVE DuringStep
  BY <1>4 DEF DuringStep
<1>5. ASSUME NEW c \in Calls, Step(c) \/ Search(c) PROVE EntryInv' /\ SearchInv' /\ Rest'
  <2>1. CASE WritesTemp(c) \/ DiskFails(c) \/ CommitRefused(c) \/ CommitBegins(c) \/ CommitEnds(c)
             \/ Replies(c) \/ Search(c)
    <3>1. UNCHANGED <<file, during, docs, searchVars>>
          /\ \E s : s \notin Searching /\ pc' = [pc EXCEPT ![c] = s] /\ pc[c] \notin Searching
      BY <2>1 DEF WritesTemp, DiskFails, CommitRefused, CommitBegins, CommitEnds, Replies, Search,
         Searching
    <3>2. \A d \in Calls : pc'[d] = pc[d] \/ (pc[d] \notin Searching /\ pc'[d] \notin Searching)
      BY <1>2, <3>1
    <3>3. DuringStep
      BY <1>4, <3>1
    <3> QED BY <1>3, <3>1, <3>2, <3>3
  <2>2. CASE Replaces(c)
    <3>1. DuringStep
      BY <2>2, ChangedSteps DEF Replaces, CallTypes, States, Base
    <3>2. UNCHANGED <<docs, searchVars>> /\ pc' = [pc EXCEPT ![c] = "commit"] /\ pc[c] \notin Searching
      BY <2>2 DEF Replaces, Searching
    <3>3. \A d \in Calls : pc'[d] = pc[d] \/ (pc[d] \notin Searching /\ pc'[d] \notin Searching)
      BY <1>2, <3>2 DEF Searching
    <3> QED BY <1>3, <3>1, <3>2, <3>3
  <2> QED BY <1>5, <2>1, <2>2, SearchSteps DEF Step
<1>6. ASSUME NEW c \in Calls, NEW p \in Pages, WritePage(c, p) \/ WriteJournalEntry(c, p)
      PROVE  EntryInv' /\ SearchInv' /\ Rest'
  <2>1. UNCHANGED <<file, during, docs, searchVars>>
        /\ pc' = [pc EXCEPT ![c] = "temp"] /\ pc[c] \notin Searching
    BY <1>6 DEF WritePage, WriteJournalEntry, Writes, Searching
  <2>2. \A d \in Calls : pc'[d] = pc[d] \/ (pc[d] \notin Searching /\ pc'[d] \notin Searching)
    BY <1>2, <2>1 DEF Searching
  <2>3. DuringStep
    BY <1>4, <2>1
  <2> QED BY <1>3, <2>1, <2>2, <2>3
<1>7. CASE \E p \in Pages, state \in States : Edited(p, state)
  <2>1. DuringStep
    BY <1>7, ChangedSteps DEF Edited, Base
  <2>2. UNCHANGED <<docs, searchVars, pc>>
    BY <1>7 DEF Edited
  <2> QED BY <1>3, <2>1, <2>2
<1>8. CASE NightlyBegins \/ NightlyEnds \/ LockRemoved \/ UNCHANGED vars
  <2>1. UNCHANGED <<file, during, docs, searchVars, pc>>
    BY <1>8 DEF NightlyBegins, NightlyEnds, LockRemoved, vars
  <2>2. DuringStep
    BY <1>4, <2>1
  <2> QED BY <1>3, <2>1, <2>2
<1>9. CASE Stop
  <2>1. \A c \in Calls : pc'[c] \notin Searching
    BY <1>9 DEF Stop, Searching
  <2>2. UNCHANGED file /\ docs' = [p \in Pages |-> NoDoc]
        /\ at' = 0 /\ seen' = {} /\ skipped' = {}
    BY <1>9 DEF Stop
  <2>3. \A p \in Pages : file[p].version \in Nat /\ (file[p].version = 0 => file[p].state = "none")
    BY DEF Base, FileTypes, EntryInv
  <2>4. EntryInv'
    BY <2>2, <2>3 DEF EntryInv, NoDoc, Holds
  <2> QED BY <2>1, <2>2, <2>4, NoSearch DEF Rest
<1> QED BY <1>5, <1>6, <1>7, <1>8, <1>9 DEF Next

\* Whatever changes while a search runs, it ranks what the pages held by then.
THEOREM SearchCurrent == Spec => []SearchIsCurrent
<1>1. Init => EntryInv /\ SearchInv /\ Rest
  BY DEF Init, EntryInv, SearchInv, SearchOf, Rest, NoDoc, Holds, Searching
<1>2. SearchInv => SearchIsCurrent
  BY DEF SearchInv, SearchOf, SearchIsCurrent
<1> QED BY <1>1, <1>2, BaseInit, BaseNext, SearchNext, PTL DEF Spec

=============================================================================
