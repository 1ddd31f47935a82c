---------------------------- MODULE ArtifactStore ----------------------------
(***************************************************************************)
(* The file store both halves of the workbench persist their evidence in:  *)
(* FoundryArtifactStore (briefs, plans, suites, work orders, decisions)    *)
(* and FileArtifactStore (agent runs, evaluations, promotions).  One       *)
(* artifact is one JSON file, created with flag "wx" and never reopened    *)
(* for writing.                                                            *)
(*                                                                         *)
(* A save is not atomic: the file exists, empty, from the exclusive open   *)
(* until its last byte is written, and stays torn if the process dies in   *)
(* between.  A listing is not atomic either: it reads the directory once   *)
(* and then one file after the other, while other callers save.            *)
(***************************************************************************)
EXTENDS Naturals, FiniteSets

CONSTANTS
  Names,        \* file names, as numbers in the order in which they sort
  Writers,      \* concurrent callers of the save operations
  Readers,      \* concurrent callers of list
  Limit,        \* the limit of a listing, at least 1 after clamping
  MaxTime,      \* bound: last instant of the clock
  MaxFailures   \* bound: saves lost to a crash or an I/O error

ASSUME NamesAssumption == Names \subseteq Nat /\ IsFiniteSet(Names)
ASSUME LimitAssumption == Limit \in Nat \ {0}

VARIABLES
  files,       \* files[n]: what the directory holds under name n
  writer,      \* the save each writer has in flight
  reader,      \* the listing each reader has in flight, and its last result
  saved,       \* saves whose reference was returned: their name and content
  now,         \* the clock, in milliseconds
  failures     \* saves lost so far

vars == <<files, writer, reader, saved, now, failures>>

-----------------------------------------------------------------------------
\* An artifact's content, reduced to who wrote it, to the createdAt (or
\* completedAt) the listing sorts by, and to whether it fits in
\* MAXIMUM_ARTIFACT_BYTES, which only the reads check.
Content == [by : Writers, createdAt : Nat, fits : BOOLEAN]

Absent == [state |-> "absent", content |-> {}]

\* The content of a file whose bytes are not all written does not parse.
Torn == [state |-> "torn", content |-> {}]

Whole(content) == [state |-> "whole", content |-> {content}]

File == [state : {"absent", "torn", "whole"}, content : SUBSET Content]

Writer == [pc : {"idle", "open", "write"}, name : SUBSET Names, content : SUBSET Content]
NoSave == [pc |-> "idle", name |-> {}, content |-> {}]

\* todo: names not read yet; found and rejected: names read; result: the
\* names returned.  The other two are auxiliary: listed are the names the
\* directory held, and known the names whose save had returned, when the
\* listing began.
Reader == [pc : {"idle", "reading", "returned"},
           todo : SUBSET Names, found : SUBSET Names, rejected : SUBSET Names,
           result : SUBSET Names, listed : SUBSET Names, known : SUBSET Names]
NoListing == [pc |-> "idle", todo |-> {}, found |-> {}, rejected |-> {},
              result |-> {}, listed |-> {}, known |-> {}]

Present == {n \in Names : files[n] # Absent}
Readable == {n \in Names : \E content \in files[n].content : content.fits}

\* Mutation of NameFree, in no specification: the file is opened with flag "w".
AnyNameFree(n) == TRUE

\* The exclusive open succeeds.
NameFree(n) == files[n] = Absent

CreatedAt(n) == (CHOOSE content \in files[n].content : TRUE).createdAt

\* Mutation of Before, in no specification: the oldest artifacts come first.
OldestBefore(m, n) == CreatedAt(m) < CreatedAt(n) \/ (CreatedAt(m) = CreatedAt(n) /\ m < n)

\* The order of a listing: newest first, equal instants in name order.
Before(m, n) == CreatedAt(m) > CreatedAt(n) \/ (CreatedAt(m) = CreatedAt(n) /\ m < n)

\* The first Limit names in the order of a listing.
Newest(found) == {n \in found : Cardinality({m \in found : Before(m, n)}) < Limit}

\* The names are read in their sort order.
NextName(todo) == {n \in todo : \A m \in todo : n <= m}

-----------------------------------------------------------------------------
Init ==
  /\ files = [n \in Names |-> Absent]
  /\ writer = [w \in Writers |-> NoSave]
  /\ reader = [r \in Readers |-> NoListing]
  /\ saved = {}
  /\ now = 0
  /\ failures = 0

Tick ==
  /\ now < MaxTime
  /\ now' = now + 1
  /\ UNCHANGED <<files, writer, reader, saved, failures>>

\* A service stamps an artifact and validates it against its schema; the name
\* may be one that another caller saves at the same time.
Prepare(w) ==
  /\ writer[w].pc = "idle"
  /\ \E n \in Names, fits \in BOOLEAN :
       writer' = [writer EXCEPT ![w] =
         [pc |-> "open", name |-> {n},
          content |-> {[by |-> w, createdAt |-> now, fits |-> fits]}]]
  /\ UNCHANGED <<files, reader, saved, now, failures>>

\* The exclusive open of #write creates an empty file.
Create(w) ==
  /\ writer[w].pc = "open"
  /\ \E n \in writer[w].name :
       /\ NameFree(n)
       /\ files' = [files EXCEPT ![n] = Torn]
  /\ writer' = [writer EXCEPT ![w].pc = "write"]
  /\ UNCHANGED <<reader, saved, now, failures>>

\* The open fails with EEXIST: the save throws and nothing is written.
AlreadyExists(w) ==
  /\ writer[w].pc = "open"
  /\ \E n \in writer[w].name : ~NameFree(n)
  /\ writer' = [writer EXCEPT ![w] = NoSave]
  /\ UNCHANGED <<files, reader, saved, now, failures>>

\* The last byte is written, and the reference is returned.
Finish(w) ==
  /\ writer[w].pc = "write"
  /\ \E n \in writer[w].name, content \in writer[w].content :
       /\ files' = [files EXCEPT ![n] = Whole(content)]
       /\ saved' = saved \cup {[name |-> n, content |-> content]}
  /\ writer' = [writer EXCEPT ![w] = NoSave]
  /\ UNCHANGED <<reader, now, failures>>

\* The process dies, or the disk is full: a file that was created stays torn.
Fail(w) ==
  /\ writer[w].pc # "idle"
  /\ failures < MaxFailures
  /\ failures' = failures + 1
  /\ writer' = [writer EXCEPT ![w] = NoSave]
  /\ UNCHANGED <<files, reader, saved, now>>

\* list reads the directory.
BeginList(r) ==
  /\ reader[r].pc = "idle"
  /\ reader' = [reader EXCEPT ![r] =
       [NoListing EXCEPT !.pc = "reading", !.todo = Present, !.listed = Present,
                         !.known = {s.name : s \in saved}]]
  /\ UNCHANGED <<files, writer, saved, now, failures>>

\* Mutation of ReadNext, in no specification: the size limit is not applied.
ReadNextUnsized(r) ==
  /\ reader[r].pc = "reading"
  /\ \E n \in NextName(reader[r].todo) :
       LET parsed == {n} \cap {m \in Names : files[m].content # {}} IN
       reader' = [reader EXCEPT ![r].todo = @ \ {n},
                                ![r].found = @ \cup parsed,
                                ![r].rejected = @ \cup ({n} \ parsed)]
  /\ UNCHANGED <<files, writer, saved, now, failures>>

\* list reads the next file: it is found if it fits and parses, and rejected
\* if not.
ReadNext(r) ==
  /\ reader[r].pc = "reading"
  /\ \E n \in NextName(reader[r].todo) :
       reader' = [reader EXCEPT ![r].todo = @ \ {n},
                                ![r].found = @ \cup ({n} \cap Readable),
                                ![r].rejected = @ \cup ({n} \ Readable)]
  /\ UNCHANGED <<files, writer, saved, now, failures>>

\* list sorts what it found and returns the first Limit artifacts.
Return(r) ==
  /\ reader[r].pc = "reading"
  /\ reader[r].todo = {}
  /\ reader' = [reader EXCEPT ![r].pc = "returned", ![r].result = Newest(reader[r].found)]
  /\ UNCHANGED <<files, writer, saved, now, failures>>

\* The caller has used the result.
Forget(r) ==
  /\ reader[r].pc = "returned"
  /\ reader' = [reader EXCEPT ![r] = NoListing]
  /\ UNCHANGED <<files, writer, saved, now, failures>>

Save(w) == Prepare(w) \/ Create(w) \/ AlreadyExists(w) \/ Finish(w) \/ Fail(w)
List(r) == BeginList(r) \/ ReadNext(r) \/ Return(r) \/ Forget(r)

Next ==
  \/ Tick
  \/ \E w \in Writers : Save(w)
  \/ \E r \in Readers : List(r)

Spec == Init /\ [][Next]_vars

-----------------------------------------------------------------------------
\* Every variable holds a value of its kind.
TypeOK ==
  /\ files \in [Names -> File]
  /\ writer \in [Writers -> Writer]
  /\ reader \in [Readers -> Reader]
  /\ saved \subseteq [name : Names, content : Content]
  /\ now \in Nat
  /\ failures \in Nat

\* A save that returned a reference is durable: whatever saves under the same
\* name were racing with it, the file holds exactly what it wrote, for ever.
SavedIsDurable ==
  \A s \in saved : files[s.name] = Whole(s.content)

\* What list returns can be loaded from then on, by name: no file that is
\* being written, or was abandoned torn, is ever returned.
ListedIsLoadable ==
  \A r \in Readers : reader[r].result \subseteq Readable

\* A listing misses no readable save that had returned before it began, unless
\* the limit is used up by artifacts that are at least as new.
ListIsComplete ==
  \A r \in Readers :
    reader[r].pc = "returned" =>
      \A n \in reader[r].known \cap Readable :
        \/ n \in reader[r].result
        \/ Cardinality({m \in reader[r].result : CreatedAt(m) >= CreatedAt(n)}) = Limit

\* A file that was there when the listing began is never passed over in
\* silence: a listing that does not exhaust its limit returns or rejects it.
NothingIsPassedOver ==
  \A r \in Readers :
    reader[r].pc = "returned" /\ Cardinality(reader[r].result) < Limit =>
      reader[r].listed \subseteq reader[r].result \cup reader[r].rejected

\* Nothing half-written is taken for an artifact: what a save returned a
\* reference to is whole on disk for good, and what a listing returned loads.
NothingHalfWritten == SavedIsDurable /\ ListedIsLoadable

\* A listing misses nothing: neither a save that had returned, nor, in silence,
\* a file that cannot be read.
NothingIsMissed == ListIsComplete /\ NothingIsPassedOver

\* The readable artifacts under their names.
Artifacts == {[key |-> n, value |-> files[n].content] : n \in Readable}

Ledger == INSTANCE ArtifactLedger WITH ledger <- Artifacts

\* The store implements the ledger the services rely on: an artifact becomes
\* readable once, complete, and is never replaced or removed.
ImplementsLedger == Ledger!Spec
=============================================================================
