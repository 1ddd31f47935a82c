-------------------------- MODULE ArtifactStoreProofs --------------------------
(***************************************************************************)
(* Saved artifacts are durable, listed artifacts can be loaded and the     *)
(* store is a ledger, for any number of names, writers, readers and        *)
(* crashes.  The argument is about the life of one file: it is created     *)
(* torn by the one writer whose exclusive open succeeded, and only that    *)
(* writer can complete it, once.                                           *)
(***************************************************************************)
EXTENDS ArtifactStore, FunctionTheorems, FiniteSetTheorems, TLAPS

FileStates == {Absent, Torn} \cup {Whole(content) : content \in Content}

FileSound == \A n \in Names : files[n] \in FileStates

\* A save in flight has one name and one content; once it has created its
\* file, the file is torn.
WriterSound ==
  \A w \in Writers : writer[w].pc # "idle" =>
    \E n \in Names, content \in Content :
      /\ writer[w].name = {n}
      /\ writer[w].content = {content}
      /\ writer[w].pc = "write" => files[n] = Torn

\* Two saves in flight never write the same file.
OwnFile ==
  \A v, w \in Writers :
    v # w /\ writer[v].pc = "write" /\ writer[w].pc = "write" =>
      writer[v].name \cap writer[w].name = {}

ReaderSound ==
  \A r \in Readers : reader[r].found \cup reader[r].result \subseteq Readable

IInv == TypeOK /\ FileSound /\ WriterSound /\ OwnFile /\ SavedIsDurable /\ ReaderSound

-----------------------------------------------------------------------------
LEMMA StatesDiffer ==
  /\ Absent # Torn
  /\ \A content \in Content : Whole(content) # Absent /\ Whole(content) # Torn
BY DEF Absent, Torn, Whole

LEMMA FileTypes == FileStates \subseteq File
BY DEF FileStates, File, Absent, Torn, Whole

LEMMA NewestIsFound == \A found : Newest(found) \subseteq found
BY DEF Newest

LEMMA InitSound == Init => IInv
<1> SUFFICES ASSUME Init PROVE IInv
  OBVIOUS
<1>1. TypeOK
  BY DEF Init, TypeOK, File, Absent, Writer, NoSave, Reader, NoListing
<1>2. FileSound
  BY DEF Init, FileSound, FileStates
<1>3. WriterSound /\ OwnFile /\ SavedIsDurable
  BY DEF Init, WriterSound, OwnFile, SavedIsDurable, NoSave
<1>4. ReaderSound
  BY DEF Init, ReaderSound, NoListing
<1> QED BY <1>1, <1>2, <1>3, <1>4 DEF IInv

-----------------------------------------------------------------------------
\* The three steps of a file's life.
Advanced(n) ==
  \/ files'[n] = files[n]
  \/ files[n] = Absent /\ files'[n] = Torn
  \/ files[n] = Torn /\ \E content \in Content : files'[n] = Whole(content)

\* What every step that does not touch the files or the writers leaves true.
LEMMA ReaderStep ==
  ASSUME IInv, UNCHANGED <<files, writer, saved>>,
         reader' \in [Readers -> Reader], now' \in Nat, failures' \in Nat,
         ReaderSound'
  PROVE  IInv'
<1>1. TypeOK'
  BY DEF IInv, TypeOK
<1>2. FileSound' /\ WriterSound' /\ OwnFile' /\ SavedIsDurable'
  BY DEF IInv, FileSound, WriterSound, OwnFile, SavedIsDurable
<1> QED BY <1>1, <1>2 DEF IInv

\* A file that can be read can be read for ever.
LEMMA ReadableGrows ==
  ASSUME IInv, \A n \in Names : Advanced(n)
  PROVE  Readable \subseteq Readable'
<1> SUFFICES ASSUME NEW n \in Readable PROVE n \in Readable'
  OBVIOUS
<1>1. n \in Names /\ files[n].content # {}
  BY DEF Readable
<1>2. files[n] # Absent /\ files[n] # Torn
  BY <1>1 DEF Absent, Torn
<1>3. files'[n] = files[n]
  BY <1>1, <1>2 DEF Advanced
<1> QED BY <1>1, <1>3 DEF Readable

LEMMA ReadersKept ==
  ASSUME IInv, \A n \in Names : Advanced(n), reader' = reader
  PROVE  ReaderSound'
BY ReadableGrows DEF IInv, ReaderSound

LEMMA PrepareStep == ASSUME IInv, NEW w \in Writers, Prepare(w) PROVE IInv'
<1>1. PICK n \in Names, fits \in BOOLEAN :
        writer' = [writer EXCEPT ![w] =
          [pc |-> "open", name |-> {n},
           content |-> {[by |-> w, createdAt |-> now, fits |-> fits]}]]
  BY DEF Prepare
<1> DEFINE content == [by |-> w, createdAt |-> now, fits |-> fits]
<1>2. content \in Content
  BY DEF IInv, TypeOK, Content
<1> HIDE DEF content
<1>3. writer' = [writer EXCEPT ![w] = [pc |-> "open", name |-> {n}, content |-> {content}]]
  BY <1>1 DEF content
<1>4. UNCHANGED <<files, reader, saved, now, failures>>
  BY DEF Prepare
<1>5. TypeOK'
  BY <1>2, <1>3, <1>4 DEF IInv, TypeOK, Writer
<1>6. FileSound' /\ SavedIsDurable' /\ ReaderSound'
  BY <1>4 DEF IInv, FileSound, SavedIsDurable, ReaderSound, Readable
<1>7. WriterSound'
  BY <1>2, <1>3, <1>4 DEF IInv, TypeOK, WriterSound
<1>8. OwnFile'
  BY <1>3 DEF IInv, TypeOK, OwnFile
<1> QED BY <1>5, <1>6, <1>7, <1>8 DEF IInv

LEMMA CreateStep == ASSUME IInv, NEW w \in Writers, Create(w) PROVE IInv' /\ \A n \in Names : Advanced(n)
<1>1. PICK n \in writer[w].name : NameFree(n) /\ files' = [files EXCEPT ![n] = Torn]
  BY DEF Create
<1>2. /\ writer[w].pc = "open"
      /\ writer' = [writer EXCEPT ![w].pc = "write"]
      /\ UNCHANGED <<reader, saved, now, failures>>
  BY DEF Create
<1>3. n \in Names /\ files[n] = Absent
  BY <1>1 DEF NameFree, IInv, TypeOK, Writer
<1>4. \A m \in Names : Advanced(m)
  BY <1>1, <1>3 DEF Advanced, IInv, TypeOK
<1>5. TypeOK'
  <2>1. files' \in [Names -> File]
    BY <1>1, FileTypes DEF IInv, TypeOK, FileStates
  <2>2. writer' \in [Writers -> Writer]
    BY <1>2 DEF IInv, TypeOK, Writer
  <2> QED BY <1>2, <2>1, <2>2 DEF IInv, TypeOK
<1>6. FileSound'
  BY <1>1 DEF IInv, TypeOK, FileSound, FileStates
<1>7. WriterSound'
  <2> SUFFICES ASSUME NEW v \in Writers, writer'[v].pc # "idle"
               PROVE  \E m \in Names, content \in Content :
                        /\ writer'[v].name = {m}
                        /\ writer'[v].content = {content}
                        /\ writer'[v].pc = "write" => files'[m] = Torn
    BY DEF WriterSound
  <2>1. writer[v].pc # "idle"
    BY <1>2 DEF IInv, TypeOK
  <2>2. PICK m \in Names, content \in Content :
          /\ writer[v].name = {m}
          /\ writer[v].content = {content}
          /\ writer[v].pc = "write" => files[m] = Torn
    BY <2>1 DEF IInv, WriterSound
  <2>3. writer'[v].name = {m} /\ writer'[v].content = {content}
    BY <1>2, <2>2 DEF IInv, TypeOK, Writer
  <2>4. writer'[v].pc = "write" => files'[m] = Torn
    BY <1>1, <1>2, <1>3, <2>2 DEF IInv, TypeOK
  <2> QED BY <2>3, <2>4
<1>8. OwnFile'
  <2>1. ASSUME NEW v \in Writers, v # w, writer[v].pc = "write"
        PROVE  n \notin writer[v].name
    BY <1>3, <2>1, StatesDiffer DEF IInv, WriterSound
  <2>2. writer[w].name = {n}
    BY <1>1, <1>2 DEF IInv, WriterSound
  <2>3. \A v \in Writers : writer'[v].name = writer[v].name
    BY <1>2 DEF IInv, TypeOK, Writer
  <2>4. \A v \in Writers : v # w => writer'[v].pc = writer[v].pc
    BY <1>2 DEF IInv, TypeOK
  <2> QED BY <2>1, <2>2, <2>3, <2>4 DEF IInv, OwnFile
<1>9. SavedIsDurable'
  BY <1>1, <1>2, <1>3, StatesDiffer DEF IInv, TypeOK, SavedIsDurable
<1>10. ReaderSound'
  BY <1>2, <1>4, ReadersKept
<1> QED BY <1>4, <1>5, <1>6, <1>7, <1>8, <1>9, <1>10 DEF IInv

\* A save that ends without having written leaves everyone else as they were.
LEMMA GiveUpStep ==
  ASSUME IInv, NEW w \in Writers, writer' = [writer EXCEPT ![w] = NoSave],
         UNCHANGED <<files, reader, saved, now>>, failures' \in Nat
  PROVE  IInv'
<1>1. TypeOK'
  BY DEF IInv, TypeOK, Writer, NoSave
<1>2. FileSound' /\ SavedIsDurable' /\ ReaderSound'
  BY DEF IInv, FileSound, SavedIsDurable, ReaderSound, Readable
<1>3. WriterSound' /\ OwnFile'
  BY DEF IInv, TypeOK, WriterSound, OwnFile, NoSave
<1> QED BY <1>1, <1>2, <1>3 DEF IInv

\* What Finish does, with the name and the content of its save.
LEMMA Finishing ==
  ASSUME IInv, NEW w \in Writers, Finish(w)
  PROVE  \E n \in Names, content \in Content :
           /\ writer[w].name = {n}
           /\ writer[w].pc = "write"
           /\ files[n] = Torn
           /\ files' = [files EXCEPT ![n] = Whole(content)]
           /\ saved' = saved \cup {[name |-> n, content |-> content]}
           /\ writer' = [writer EXCEPT ![w] = NoSave]
           /\ UNCHANGED <<reader, now, failures>>
<1>1. PICK n \in Names, content \in Content :
        /\ writer[w].name = {n}
        /\ writer[w].content = {content}
        /\ files[n] = Torn
  BY DEF IInv, WriterSound, Finish
<1> QED BY <1>1 DEF Finish

LEMMA FinishStep == ASSUME IInv, NEW w \in Writers, Finish(w) PROVE IInv' /\ \A n \in Names : Advanced(n)
<1>1. PICK n \in Names, content \in Content :
        /\ writer[w].name = {n}
        /\ writer[w].pc = "write"
        /\ files[n] = Torn
        /\ files' = [files EXCEPT ![n] = Whole(content)]
        /\ saved' = saved \cup {[name |-> n, content |-> content]}
        /\ writer' = [writer EXCEPT ![w] = NoSave]
        /\ UNCHANGED <<reader, now, failures>>
  BY Finishing
<1>2. \A m \in Names : Advanced(m)
  BY <1>1 DEF Advanced, IInv, TypeOK
<1>3. TypeOK'
  <2>1. files' \in [Names -> File]
    BY <1>1, FileTypes DEF IInv, TypeOK, FileStates
  <2>2. writer' \in [Writers -> Writer]
    BY <1>1 DEF IInv, TypeOK, Writer, NoSave
  <2> QED BY <1>1, <2>1, <2>2 DEF IInv, TypeOK
<1>4. FileSound'
  BY <1>1 DEF IInv, TypeOK, FileSound, FileStates
<1>5. WriterSound'
  <2> SUFFICES ASSUME NEW v \in Writers, v # w, writer[v].pc # "idle"
               PROVE  \E m \in Names, other \in Content :
                        /\ writer[v].name = {m}
                        /\ writer[v].content = {other}
                        /\ writer[v].pc = "write" => files'[m] = Torn
    BY <1>1 DEF WriterSound, IInv, TypeOK, NoSave
  <2>1. PICK m \in Names, other \in Content :
          /\ writer[v].name = {m}
          /\ writer[v].content = {other}
          /\ writer[v].pc = "write" => files[m] = Torn
    BY DEF IInv, WriterSound
  <2>2. writer[v].pc = "write" => m # n
    BY <1>1, <2>1 DEF IInv, OwnFile
  <2> QED BY <1>1, <2>1, <2>2 DEF IInv, TypeOK
<1>6. OwnFile'
  BY <1>1 DEF IInv, TypeOK, OwnFile, NoSave
<1>7. SavedIsDurable'
  <2> SUFFICES ASSUME NEW s \in saved' PROVE files'[s.name] = Whole(s.content)
    BY DEF SavedIsDurable
  <2>1. CASE s \in saved
    <3>1. files[s.name] = Whole(s.content) /\ s.name \in Names /\ s.content \in Content
      BY <2>1 DEF IInv, TypeOK, SavedIsDurable
    <3> QED BY <1>1, <3>1, StatesDiffer DEF IInv, TypeOK
  <2>2. CASE s = [name |-> n, content |-> content]
    BY <1>1, <2>2 DEF IInv, TypeOK
  <2> QED BY <1>1, <2>1, <2>2
<1>8. ReaderSound'
  BY <1>1, <1>2, ReadersKept
<1> QED BY <1>2, <1>3, <1>4, <1>5, <1>6, <1>7, <1>8 DEF IInv

\* A listing only finds what can be read, and returns only what it found.
LEMMA ListStep == ASSUME IInv, NEW r \in Readers, List(r) PROVE IInv'
<1>1. UNCHANGED <<files, writer, saved, now, failures>>
  BY DEF List, BeginList, ReadNext, Return, Forget
<1>2. Readable' = Readable
  BY <1>1 DEF Readable
<1>3. now' \in Nat /\ failures' \in Nat
  BY <1>1 DEF IInv, TypeOK
<1>4. SUFFICES \E new \in Reader :
                 /\ reader' = [reader EXCEPT ![r] = new]
                 /\ new.found \cup new.result \subseteq Readable
  <2>1. PICK new \in Reader : /\ reader' = [reader EXCEPT ![r] = new]
                              /\ new.found \cup new.result \subseteq Readable
    BY <1>4
  <2>2. reader' \in [Readers -> Reader]
    BY <2>1 DEF IInv, TypeOK
  <2>3. ReaderSound'
    BY <1>2, <2>1 DEF ReaderSound, IInv, TypeOK
  <2> QED BY <1>1, <1>3, <2>2, <2>3, ReaderStep
<1>5. /\ reader \in [Readers -> Reader]
      /\ reader[r] \in Reader
      /\ reader[r].found \cup reader[r].result \subseteq Readable
  BY DEF IInv, TypeOK, ReaderSound
<1>6. CASE BeginList(r)
  <2> DEFINE new == [NoListing EXCEPT !.pc = "reading", !.todo = Present, !.listed = Present,
                                      !.known = {s.name : s \in saved}]
  <2>1. Present \subseteq Names /\ {s.name : s \in saved} \subseteq Names
    BY DEF Present, IInv, TypeOK
  <2>2. new \in Reader /\ new.found \cup new.result \subseteq Readable
    BY <2>1 DEF Reader, NoListing
  <2> QED BY <1>6, <2>2 DEF BeginList
<1>7. CASE ReadNext(r)
  <2>1. PICK n \in NextName(reader[r].todo) :
          reader' = [reader EXCEPT ![r].todo = @ \ {n},
                                   ![r].found = @ \cup ({n} \cap Readable),
                                   ![r].rejected = @ \cup ({n} \ Readable)]
    BY <1>7 DEF ReadNext
  <2>2. n \in Names
    BY <1>5, <2>1 DEF NextName, Reader
  <2> DEFINE new == [reader[r] EXCEPT !.todo = @ \ {n},
                                      !.found = @ \cup ({n} \cap Readable),
                                      !.rejected = @ \cup ({n} \ Readable)]
  <2>3. reader' = [reader EXCEPT ![r] = new]
    BY <1>5, <2>1
  <2>4. new \in Reader
    BY <1>5, <2>2 DEF Reader
  <2>5. new.found \cup new.result \subseteq Readable
    BY <1>5 DEF Reader
  <2> QED BY <2>3, <2>4, <2>5
<1>8. CASE Return(r)
  <2> DEFINE new == [reader[r] EXCEPT !.pc = "returned", !.result = Newest(reader[r].found)]
  <2>1. Newest(reader[r].found) \subseteq reader[r].found
    BY NewestIsFound
  <2>2. new \in Reader
    BY <1>5, <2>1 DEF Reader
  <2>3. new.found \cup new.result \subseteq Readable
    BY <1>5, <2>1 DEF Reader
  <2>4. reader' = [reader EXCEPT ![r] = new]
    BY <1>5, <1>8 DEF Return
  <2> QED BY <2>2, <2>3, <2>4
<1>9. CASE Forget(r)
  <2>1. NoListing \in Reader /\ NoListing.found \cup NoListing.result \subseteq Readable
    BY DEF NoListing, Reader
  <2>2. reader' = [reader EXCEPT ![r] = NoListing]
    BY <1>9 DEF Forget
  <2> QED BY <2>1, <2>2
<1> QED BY <1>6, <1>7, <1>8, <1>9 DEF List

-----------------------------------------------------------------------------
LEMMA StepSound == IInv /\ [Next]_vars => IInv'
<1> SUFFICES ASSUME IInv, [Next]_vars PROVE IInv'
  OBVIOUS
<1>1. CASE Tick
  BY <1>1, ReaderStep DEF Tick, IInv, TypeOK, ReaderSound, Readable
<1>2. ASSUME NEW w \in Writers, Save(w) PROVE IInv'
  <2>1. CASE Prepare(w)
    BY <2>1, PrepareStep
  <2>2. CASE Create(w)
    BY <2>2, CreateStep
  <2>3. CASE AlreadyExists(w)
    BY <2>3, GiveUpStep DEF AlreadyExists, IInv, TypeOK
  <2>4. CASE Finish(w)
    BY <2>4, FinishStep
  <2>5. CASE Fail(w)
    <3>1. failures' \in Nat
      BY <2>5 DEF Fail, IInv, TypeOK
    <3> QED BY <2>5, <3>1, GiveUpStep DEF Fail
  <2> QED BY <1>2, <2>1, <2>2, <2>3, <2>4, <2>5 DEF Save
<1>3. ASSUME NEW r \in Readers, List(r) PROVE IInv'
  BY <1>3, ListStep
<1>4. CASE UNCHANGED vars
  BY <1>4, ReaderStep DEF vars, IInv, TypeOK, ReaderSound, Readable
<1> QED BY <1>1, <1>2, <1>3, <1>4 DEF Next

\* The inductive invariant: a save in flight owns its file, and what was read
\* or returned stays readable.
THEOREM StoreSound == Spec => []IInv
<1> QED BY InitSound, StepSound, PTL DEF Spec

\* Every variable of the store holds a value of its kind.
THEOREM StoreTyped == Spec => []TypeOK
<1>1. IInv => TypeOK
  BY DEF IInv
<1> QED BY <1>1, StoreSound, PTL

\* What a save returned a reference to stays on disk exactly as it was
\* written: writeFile with flag "wx" opens a name for one caller only.
THEOREM SavesAreDurable == Spec => []SavedIsDurable
<1>1. IInv => SavedIsDurable
  BY DEF IInv
<1> QED BY <1>1, StoreSound, PTL

\* An artifact that list returned can be loaded from then on.
THEOREM ListingsAreLoadable == Spec => []ListedIsLoadable
<1>1. IInv => ListedIsLoadable
  BY DEF IInv, ReaderSound, ListedIsLoadable
<1> QED BY <1>1, StoreSound, PTL

\* Nothing half-written is taken for an artifact, by a save or by a listing.
THEOREM WholeArtifactsOnly == Spec => []NothingHalfWritten
<1>1. SavedIsDurable /\ ListedIsLoadable => NothingHalfWritten
  BY DEF NothingHalfWritten
<1> QED BY <1>1, SavesAreDurable, ListingsAreLoadable, PTL

-----------------------------------------------------------------------------
\* Steps that complete no file publish nothing.
LEMMA NothingPublished ==
  ASSUME \A n \in Names : files'[n].content = files[n].content
  PROVE  Artifacts' = Artifacts
<1>1. Readable' = Readable
  BY DEF Readable
<1>2. \A n \in Readable : n \in Names
  BY DEF Readable
<1> QED BY <1>1, <1>2 DEF Artifacts

LEMMA FinishPublishes ==
  ASSUME IInv, NEW w \in Writers, Finish(w)
  PROVE  Ledger!Publish \/ Artifacts' = Artifacts
<1>1. PICK n \in Names, content \in Content :
        /\ files[n] = Torn
        /\ files' = [files EXCEPT ![n] = Whole(content)]
  BY Finishing
<1>2. n \notin Readable /\ files'[n].content = {content}
  BY <1>1 DEF Readable, Torn, Whole, IInv, TypeOK
<1>3. \A m \in Names : m # n => files'[m] = files[m]
  BY <1>1 DEF IInv, TypeOK
<1>4. \A m \in Readable : m \in Names /\ m # n
  BY <1>2 DEF Readable
<1>5. CASE ~content.fits
  <2>1. Readable' = Readable
    BY <1>2, <1>3, <1>5 DEF Readable
  <2> QED BY <1>3, <1>4, <2>1 DEF Artifacts
<1>6. CASE content.fits
  <2> DEFINE new == [key |-> n, value |-> {content}]
  <2>1. Readable' = Readable \cup {n}
    BY <1>2, <1>3, <1>6 DEF Readable
  <2>2. Artifacts' = Artifacts \cup {new}
    BY <1>2, <1>3, <1>4, <2>1 DEF Artifacts
  <2>3. \A other \in Artifacts : other.key # n
    BY <1>4 DEF Artifacts
  <2>4. new \in Artifacts' \ Artifacts /\ \A other \in Artifacts : other.key # new.key
    BY <2>2, <2>3
  <2> QED BY <2>2, <2>4 DEF Ledger!Publish
<1> QED BY <1>5, <1>6

LEMMA StepImplements ==
  ASSUME IInv, [Next]_vars
  PROVE  Ledger!Publish \/ Artifacts' = Artifacts
<1>1. ASSUME UNCHANGED files PROVE Artifacts' = Artifacts
  BY <1>1, NothingPublished
<1>2. ASSUME NEW w \in Writers, Create(w) PROVE Artifacts' = Artifacts
  <2>1. PICK n \in writer[w].name : files[n] = Absent /\ files' = [files EXCEPT ![n] = Torn]
    BY <1>2 DEF Create, NameFree
  <2>2. Absent.content = {} /\ Torn.content = {}
    BY DEF Absent, Torn
  <2>3. \A m \in Names : files'[m].content = files[m].content
    BY <2>1, <2>2 DEF IInv, TypeOK
  <2> QED BY <2>3, NothingPublished
<1>3. ASSUME NEW w \in Writers, Finish(w) PROVE Ledger!Publish \/ Artifacts' = Artifacts
  BY <1>3, FinishPublishes
<1>4. ASSUME NEW w \in Writers, Prepare(w) \/ AlreadyExists(w) \/ Fail(w) PROVE UNCHANGED files
  BY <1>4 DEF Prepare, AlreadyExists, Fail
<1>5. ASSUME NEW r \in Readers, List(r) PROVE UNCHANGED files
  BY <1>5 DEF List, BeginList, ReadNext, Return, Forget
<1>6. CASE Tick \/ UNCHANGED vars
  BY <1>1, <1>6 DEF Tick, vars
<1> QED BY <1>1, <1>2, <1>3, <1>4, <1>5, <1>6 DEF Next, Save

\* The store implements the ledger: an artifact becomes readable once, whole,
\* under a name of its own, and never changes.
THEOREM StoreIsLedger == Spec => ImplementsLedger
<1>1. Init => Ledger!Init
  BY DEF Init, Ledger!Init, Artifacts, Readable, Absent
<1>2. IInv /\ [Next]_vars => [Ledger!Publish]_Artifacts
  BY StepImplements
<1> QED BY <1>1, <1>2, StoreSound, PTL DEF Spec, ImplementsLedger, Ledger!Spec
-----------------------------------------------------------------------------
\* The listings.  The names found and rejected so far, and those still to be
\* read, are together what the directory held, and nothing whose save had
\* returned is rejected, unless it is too large.
ListingSound ==
  \A r \in Readers :
    /\ reader[r].known \subseteq {s.name : s \in saved}
    /\ reader[r].known \cap Readable \cap reader[r].rejected = {}
    /\ reader[r].pc = "reading" =>
         /\ reader[r].listed = reader[r].todo \cup reader[r].found \cup reader[r].rejected
         /\ reader[r].known \subseteq reader[r].listed

LInv == IInv /\ ListingSound /\ NothingIsMissed

\* A readable artifact has an instant.
LEMMA InstantOf == ASSUME IInv, NEW n \in Readable PROVE CreatedAt(n) \in Nat
<1>1. n \in Names /\ files[n].content # {} /\ files[n] \in File
  BY DEF Readable, IInv, TypeOK
<1>2. \A content \in files[n].content : content \in Content
  BY <1>1 DEF File
<1>3. (CHOOSE content \in files[n].content : TRUE) \in Content
  BY <1>1, <1>2
<1> QED BY <1>3 DEF CreatedAt, Content

\* Where a name stands in a listing: how many come before it.
Place(found, n) == Cardinality({m \in found : Before(m, n)})

\* If a listing leaves a name out, its limit is used up by names before it: the
\* places of the names found are the numbers below their count, so one name is
\* at each place below the limit.
LEMMA NewestFill ==
  ASSUME NEW found \in SUBSET Names, \A n \in found : CreatedAt(n) \in Nat,
         NEW n \in found, n \notin Newest(found)
  PROVE  /\ Cardinality(Newest(found)) = Limit
         /\ \A m \in Newest(found) : CreatedAt(m) >= CreatedAt(n)
<1> DEFINE K == Cardinality(found)
           place == [m \in found |-> Place(found, m)]
           top == Newest(found)
<1>1. /\ IsFiniteSet(found) /\ K \in Nat /\ Limit \in Nat \ {0}
      /\ \A m \in found : m \in Nat
  BY NamesAssumption, LimitAssumption, FS_Subset, FS_CardinalityType
<1>2. \A m \in found : IsFiniteSet({x \in found : Before(x, m)})
  BY <1>1, FS_Subset
<1>3. place \in [found -> Nat]
  <2>1. \A m \in found : Place(found, m) \in Nat
    BY <1>2, FS_CardinalityType DEF Place
  <2> QED BY <2>1
<1>4. \A a, b \in found : a # b => Before(a, b) \/ Before(b, a)
  BY <1>1 DEF Before
<1>5. \A m \in found : ~Before(m, m)
  BY <1>1 DEF Before
<1>6. /\ top \subseteq found
      /\ \A m \in found : m \in top <=> place[m] < Limit
  BY DEF Newest, Place
<1> HIDE DEF K, top
<1>7. ASSUME NEW a \in found, NEW b \in found, Before(a, b) PROVE place[a] < place[b]
  <2> DEFINE A == {x \in found : Before(x, a)}
             B == {x \in found : Before(x, b)}
  <2>1. A \subseteq B /\ a \notin A /\ a \in B
    BY <1>1, <1>7 DEF Before
  <2>2. IsFiniteSet(A) /\ IsFiniteSet(B)
    BY <1>2
  <2>3. place[a] = Cardinality(A) /\ place[b] = Cardinality(B)
    BY DEF Place
  <2> HIDE DEF A, B, place
  <2>4. Cardinality(A) <= Cardinality(B) /\ Cardinality(A) # Cardinality(B)
    BY <2>1, <2>2, FS_Subset
  <2>5. Cardinality(A) \in Nat /\ Cardinality(B) \in Nat
    BY <2>2, FS_CardinalityType
  <2> QED BY <2>3, <2>4, <2>5
<1>8. ASSUME NEW m \in found PROVE place[m] < K
  <2> DEFINE A == {x \in found : Before(x, m)}
  <2>1. A \subseteq found /\ A # found
    BY <1>5
  <2>2. place[m] = Cardinality(A)
    BY DEF Place
  <2> HIDE DEF A, place
  <2>3. Cardinality(A) <= K /\ Cardinality(A) # K
    BY <1>1, <2>1, FS_Subset DEF K
  <2> QED BY <1>1, <1>3, <2>2, <2>3
<1> HIDE DEF place
<1>9. \A a, b \in found : place[a] = place[b] => a = b
  BY <1>3, <1>4, <1>7
<1>10. place \in Surjection(found, 0..(K - 1))
  <2>1. \A m \in found : place[m] \in 0..(K - 1)
    BY <1>1, <1>3, <1>8
  <2>2. place \in Injection(found, 0..(K - 1))
    BY <1>3, <1>9, <2>1 DEF Injection, IsInjective
  <2>3. IsFiniteSet(0..(K - 1)) /\ Cardinality(0..(K - 1)) = K
    <3>1. 0 \in Int /\ K - 1 \in Int /\ (0 > K - 1 => K = 0)
      BY <1>1
    <3> QED BY <1>1, <3>1, FS_Interval
  <2> QED BY <2>2, <2>3, FS_Injection DEF K
<1>11. place[n] >= Limit /\ Limit <= K
  <2>1. ~(place[n] < Limit)
    BY <1>6 DEF top
  <2> QED BY <1>1, <1>3, <1>8, <2>1
<1>12. Cardinality(top) = Limit
  <2> DEFINE up == [m \in top |-> place[m]]
  <2>1. \A m \in top : place[m] \in 0..(Limit - 1)
    BY <1>1, <1>3, <1>6
  <2>2. up \in [top -> 0..(Limit - 1)]
    BY <2>1
  <2>3. \A a, b \in top : up[a] = up[b] => a = b
    BY <1>6, <1>9
  <2>4. ASSUME NEW k \in 0..(Limit - 1) PROVE \E m \in top : up[m] = k
    <3>1. k \in 0..(K - 1) /\ k < Limit
      BY <1>1, <1>11
    <3>2. PICK m \in found : place[m] = k
      BY <1>10, <3>1 DEF Surjection
    <3>3. m \in top
      BY <1>6, <3>1, <3>2
    <3> QED BY <3>2, <3>3
  <2> HIDE DEF up
  <2>5. up \in Injection(top, 0..(Limit - 1)) /\ up \in Surjection(top, 0..(Limit - 1))
    BY <2>2, <2>3, <2>4 DEF Injection, IsInjective, Surjection
  <2>6. IsFiniteSet(0..(Limit - 1)) /\ Cardinality(0..(Limit - 1)) = Limit
    <3>1. 0 \in Int /\ Limit - 1 \in Int /\ ~(0 > Limit - 1)
      BY <1>1
    <3> QED BY <1>1, <3>1, FS_Interval
  <2> QED BY <2>5, <2>6, FS_Injection
<1>13. ASSUME NEW m \in top PROVE CreatedAt(m) >= CreatedAt(n)
  <2>1. m \in found /\ place[m] < place[n]
    BY <1>1, <1>3, <1>6, <1>11
  <2>2. ~Before(n, m) /\ m # n
    BY <1>3, <1>7, <2>1
  <2>3. Before(m, n)
    BY <1>4, <2>1, <2>2
  <2>4. CreatedAt(m) \in Nat /\ CreatedAt(n) \in Nat
    BY <2>1
  <2> QED BY <2>3, <2>4 DEF Before
<1> QED BY <1>12, <1>13 DEF top

\* What was saved or can be read is never touched again.
LEMMA FileKept ==
  ASSUME IInv, IInv', saved \subseteq saved', \A n \in Names : Advanced(n)
  PROVE  /\ \A n \in Readable : files'[n] = files[n] /\ n \in Names /\ n \in Readable'
         /\ \A n \in Readable : CreatedAt(n)' = CreatedAt(n)
         /\ \A s \in saved : files'[s.name] = files[s.name]
<1>1. \A n \in Readable : n \in Names /\ files[n].content # {}
  BY DEF Readable
<1>2. \A n \in Readable : files[n] # Absent /\ files[n] # Torn
  BY <1>1 DEF Absent, Torn
<1>3. \A n \in Readable : files'[n] = files[n]
  BY <1>1, <1>2 DEF Advanced
<1>4. \A n \in Readable : n \in Readable'
  BY <1>1, <1>3 DEF Readable
<1>5. \A n \in Readable : CreatedAt(n)' = CreatedAt(n)
  BY <1>3 DEF CreatedAt
<1>6. \A s \in saved : files'[s.name] = files[s.name]
  BY DEF IInv, SavedIsDurable
<1> QED BY <1>1, <1>3, <1>4, <1>5, <1>6

\* Steps of others disturb no listing.
LEMMA ListingKept ==
  ASSUME LInv, IInv', saved \subseteq saved', reader' = reader, \A n \in Names : Advanced(n)
  PROVE  LInv'
<1>1. IInv /\ ListingSound /\ ListIsComplete /\ NothingIsPassedOver
  BY DEF LInv, NothingIsMissed
<1>2. /\ \A n \in Readable : files'[n] = files[n] /\ n \in Names /\ n \in Readable'
      /\ \A n \in Readable : CreatedAt(n)' = CreatedAt(n)
      /\ \A s \in saved : files'[s.name] = files[s.name]
  BY <1>1, FileKept
<1>3. ASSUME NEW r \in Readers
      PROVE  reader[r].known \cap Readable' = reader[r].known \cap Readable
  <2> SUFFICES ASSUME NEW n \in reader[r].known, n \in Readable' PROVE n \in Readable
    BY <1>2
  <2>1. PICK s \in saved : s.name = n
    BY <1>1 DEF ListingSound
  <2>2. n \in Names /\ files'[n] = files[n]
    BY <1>2, <2>1 DEF Readable
  <2> QED BY <2>2 DEF Readable
<1>4. ListingSound'
  BY <1>1, <1>3 DEF ListingSound
<1>5. ListIsComplete'
  <2> SUFFICES ASSUME NEW r \in Readers, reader[r].pc = "returned",
                      NEW n \in reader[r].known, n \in Readable', n \notin reader[r].result
               PROVE  Cardinality({m \in reader[r].result : CreatedAt(m) >= CreatedAt(n)})' = Limit
    BY DEF ListIsComplete
  <2>1. n \in Readable
    BY <1>3
  <2>2. reader[r].result \subseteq Readable
    BY <1>1 DEF IInv, ReaderSound
  <2>3. {m \in reader[r].result : CreatedAt(m) >= CreatedAt(n)}'
          = {m \in reader[r].result : CreatedAt(m) >= CreatedAt(n)}
    BY <1>2, <2>1, <2>2
  <2>4. Cardinality({m \in reader[r].result : CreatedAt(m) >= CreatedAt(n)}) = Limit
    BY <1>1, <2>1 DEF ListIsComplete
  <2> QED BY <2>3, <2>4
<1>6. NothingIsPassedOver'
  BY <1>1 DEF NothingIsPassedOver
<1> QED BY <1>4, <1>5, <1>6 DEF LInv, NothingIsMissed

\* A step of one listing: it is enough to look at that listing.
LEMMA ListingStep ==
  ASSUME LInv, IInv', UNCHANGED <<files, saved>>,
         NEW r \in Readers, NEW new \in Reader, reader' = [reader EXCEPT ![r] = new],
         new.known \subseteq {s.name : s \in saved},
         new.known \cap Readable \cap new.rejected = {},
         new.pc = "reading" =>
           /\ new.listed = new.todo \cup new.found \cup new.rejected
           /\ new.known \subseteq new.listed,
         new.pc = "returned" =>
           /\ \A n \in new.known \cap Readable :
                \/ n \in new.result
                \/ Cardinality({m \in new.result : CreatedAt(m) >= CreatedAt(n)}) = Limit
           /\ Cardinality(new.result) < Limit => new.listed \subseteq new.result \cup new.rejected
  PROVE  LInv'
<1>1. ListingSound /\ ListIsComplete /\ NothingIsPassedOver
  BY DEF LInv, NothingIsMissed
<1>2. /\ \A q \in Readers : reader'[q] = IF q = r THEN new ELSE reader[q]
      /\ Readable' = Readable
      /\ \A n : CreatedAt(n)' = CreatedAt(n)
  BY DEF LInv, IInv, TypeOK, Readable, CreatedAt
<1>3. ListingSound'
  BY <1>1, <1>2 DEF ListingSound
<1>4. ListIsComplete'
  <2> SUFFICES ASSUME NEW q \in Readers, reader'[q].pc = "returned",
                      NEW n \in reader'[q].known \cap Readable
               PROVE  \/ n \in reader'[q].result
                      \/ Cardinality({m \in reader'[q].result : CreatedAt(m) >= CreatedAt(n)}) = Limit
    BY <1>2 DEF ListIsComplete
  <2> QED BY <1>1, <1>2 DEF ListIsComplete
<1>5. NothingIsPassedOver'
  BY <1>1, <1>2 DEF NothingIsPassedOver
<1> QED BY <1>3, <1>4, <1>5 DEF LInv, NothingIsMissed

LEMMA BeginListSound ==
  ASSUME LInv, IInv', NEW r \in Readers, BeginList(r)
  PROVE  LInv'
<1> DEFINE new == [NoListing EXCEPT !.pc = "reading", !.todo = Present, !.listed = Present,
                                    !.known = {s.name : s \in saved}]
<1>1. /\ reader' = [reader EXCEPT ![r] = new]
      /\ UNCHANGED <<files, saved>>
  BY DEF BeginList
<1>2. {s.name : s \in saved} \subseteq Names
  BY DEF LInv, IInv, TypeOK
<1>3. {s.name : s \in saved} \subseteq Present
  <2> SUFFICES ASSUME NEW s \in saved PROVE s.name \in Present
    OBVIOUS
  <2>1. files[s.name] = Whole(s.content) /\ s.content \in Content /\ s.name \in Names
    BY DEF LInv, IInv, TypeOK, SavedIsDurable
  <2> QED BY <2>1, StatesDiffer DEF Present
<1>4. /\ new.pc = "reading" /\ new.todo = Present /\ new.listed = Present
      /\ new.known = {s.name : s \in saved} /\ new.found = {} /\ new.rejected = {}
  BY DEF NoListing
<1>5. new \in Reader
  BY <1>2 DEF Reader, NoListing, Present
<1> HIDE DEF new
<1> QED BY <1>1, <1>3, <1>4, <1>5, ListingStep

LEMMA ReadNextSound ==
  ASSUME LInv, IInv', NEW r \in Readers, ReadNext(r)
  PROVE  LInv'
<1>1. PICK n \in NextName(reader[r].todo) :
        reader' = [reader EXCEPT ![r].todo = @ \ {n},
                                 ![r].found = @ \cup ({n} \cap Readable),
                                 ![r].rejected = @ \cup ({n} \ Readable)]
  BY DEF ReadNext
<1>2. /\ UNCHANGED <<files, saved>> /\ reader[r].pc = "reading"
      /\ reader \in [Readers -> Reader] /\ reader[r] \in Reader
      /\ n \in reader[r].todo
  BY <1>1 DEF ReadNext, LInv, IInv, TypeOK, NextName
<1> DEFINE new == [reader[r] EXCEPT !.todo = @ \ {n},
                                    !.found = @ \cup ({n} \cap Readable),
                                    !.rejected = @ \cup ({n} \ Readable)]
<1>3. reader' = [reader EXCEPT ![r] = new]
  BY <1>1, <1>2
<1>4. /\ new.pc = "reading" /\ new.listed = reader[r].listed /\ new.known = reader[r].known
      /\ new.todo = reader[r].todo \ {n}
      /\ new.found = reader[r].found \cup ({n} \cap Readable)
      /\ new.rejected = reader[r].rejected \cup ({n} \ Readable)
  BY <1>2 DEF Reader
<1>5. new \in Reader
  BY <1>2 DEF Reader
<1>6. /\ reader[r].known \subseteq {s.name : s \in saved}
      /\ reader[r].known \cap Readable \cap reader[r].rejected = {}
      /\ reader[r].listed = reader[r].todo \cup reader[r].found \cup reader[r].rejected
      /\ reader[r].known \subseteq reader[r].listed
  BY <1>2 DEF LInv, ListingSound
<1> HIDE DEF new
<1>7. /\ new.known \cap Readable \cap new.rejected = {}
      /\ new.listed = new.todo \cup new.found \cup new.rejected
  BY <1>2, <1>4, <1>6
<1> QED BY <1>2, <1>3, <1>4, <1>5, <1>6, <1>7, ListingStep

LEMMA ReturnSound ==
  ASSUME LInv, IInv', NEW r \in Readers, Return(r)
  PROVE  LInv'
<1> DEFINE found == reader[r].found
           new == [reader[r] EXCEPT !.pc = "returned", !.result = Newest(found)]
<1>1. /\ UNCHANGED <<files, saved>> /\ reader[r].pc = "reading" /\ reader[r].todo = {}
      /\ reader \in [Readers -> Reader] /\ reader[r] \in Reader
  BY DEF Return, LInv, IInv, TypeOK
<1>2. reader' = [reader EXCEPT ![r] = new]
  BY <1>1 DEF Return
<1>3. /\ new.pc = "returned" /\ new.listed = reader[r].listed /\ new.known = reader[r].known
      /\ new.rejected = reader[r].rejected /\ new.result = Newest(found)
  BY <1>1 DEF Reader
<1>4. Newest(found) \subseteq found /\ found \in SUBSET Names
  BY <1>1, NewestIsFound DEF Reader
<1>5. new \in Reader
  BY <1>1, <1>4 DEF Reader
<1>6. /\ reader[r].known \subseteq {s.name : s \in saved}
      /\ reader[r].known \cap Readable \cap reader[r].rejected = {}
      /\ reader[r].listed = found \cup reader[r].rejected
      /\ reader[r].known \subseteq reader[r].listed
  BY <1>1 DEF LInv, ListingSound
<1>7. \A n \in found : CreatedAt(n) \in Nat
  <2>1. found \subseteq Readable
    BY DEF LInv, IInv, ReaderSound
  <2> QED BY <2>1, InstantOf DEF LInv
<1> HIDE DEF new, found
<1>8. ASSUME NEW n \in found, n \notin Newest(found)
      PROVE  /\ Cardinality(Newest(found)) = Limit
             /\ Cardinality({m \in Newest(found) : CreatedAt(m) >= CreatedAt(n)}) = Limit
  <2>1. /\ Cardinality(Newest(found)) = Limit
        /\ \A m \in Newest(found) : CreatedAt(m) >= CreatedAt(n)
    BY <1>4, <1>7, <1>8, NewestFill
  <2>2. {m \in Newest(found) : CreatedAt(m) >= CreatedAt(n)} = Newest(found)
    BY <2>1
  <2> QED BY <2>1, <2>2
<1>9. \A n \in new.known \cap Readable :
        \/ n \in new.result
        \/ Cardinality({m \in new.result : CreatedAt(m) >= CreatedAt(n)}) = Limit
  <2> SUFFICES ASSUME NEW n \in new.known \cap Readable, n \notin Newest(found)
               PROVE  Cardinality({m \in Newest(found) : CreatedAt(m) >= CreatedAt(n)}) = Limit
    BY <1>3
  <2>1. n \in found
    BY <1>3, <1>6
  <2> QED BY <1>8, <2>1
<1>10. Cardinality(new.result) < Limit => new.listed \subseteq new.result \cup new.rejected
  <2> SUFFICES ASSUME Cardinality(Newest(found)) < Limit,
                      NEW n \in reader[r].listed, n \notin reader[r].rejected
               PROVE  n \in Newest(found)
    BY <1>3
  <2>1. n \in found
    BY <1>6
  <2>2. ~(Limit < Limit)
    BY LimitAssumption
  <2> QED BY <1>8, <2>1, <2>2
<1> QED BY <1>1, <1>2, <1>3, <1>5, <1>6, <1>9, <1>10, ListingStep

LEMMA ForgetSound ==
  ASSUME LInv, IInv', NEW r \in Readers, Forget(r)
  PROVE  LInv'
<1>1. reader' = [reader EXCEPT ![r] = NoListing] /\ UNCHANGED <<files, saved>>
  BY DEF Forget
<1>2. /\ NoListing \in Reader /\ NoListing.pc = "idle" /\ NoListing.known = {}
  BY DEF NoListing, Reader
<1> QED BY <1>1, <1>2, ListingStep

LEMMA ListingsSound == LInv /\ [Next]_vars => LInv'
<1> SUFFICES ASSUME LInv, [Next]_vars PROVE LInv'
  OBVIOUS
<1>1. IInv /\ IInv'
  BY StepSound DEF LInv
<1>2. ASSUME UNCHANGED <<files, saved, reader>> PROVE LInv'
  BY <1>1, <1>2, ListingKept DEF Advanced
<1>3. ASSUME NEW w \in Writers, Save(w) PROVE LInv'
  <2>1. CASE Prepare(w) \/ AlreadyExists(w) \/ Fail(w)
    BY <1>2, <2>1 DEF Prepare, AlreadyExists, Fail
  <2>2. CASE Create(w)
    <3>1. \A n \in Names : Advanced(n)
      BY <1>1, <2>2, CreateStep
    <3> QED BY <1>1, <2>2, <3>1, ListingKept DEF Create
  <2>3. CASE Finish(w)
    <3>1. \A n \in Names : Advanced(n)
      BY <1>1, <2>3, FinishStep
    <3>2. saved \subseteq saved' /\ reader' = reader
      BY <1>1, <2>3, Finishing
    <3> QED BY <1>1, <3>1, <3>2, ListingKept
  <2> QED BY <1>3, <2>1, <2>2, <2>3 DEF Save
<1>4. ASSUME NEW r \in Readers, List(r) PROVE LInv'
  BY <1>1, <1>4, BeginListSound, ReadNextSound, ReturnSound, ForgetSound DEF List
<1>5. CASE Tick \/ UNCHANGED vars
  BY <1>2, <1>5 DEF Tick, vars
<1> QED BY <1>3, <1>4, <1>5 DEF Next

\* A listing misses nothing: not a save that had returned before it began, and
\* not, in silence, a file it cannot read, for any number of names and any
\* limit (list).
THEOREM ListingsMissNothing == Spec => []NothingIsMissed
<1>1. Init => LInv
  <2> SUFFICES ASSUME Init PROVE LInv
    OBVIOUS
  <2>1. \A r \in Readers : reader[r].pc = "idle" /\ reader[r].known = {}
    BY DEF Init, NoListing
  <2>2. ListingSound /\ ListIsComplete /\ NothingIsPassedOver
    BY <2>1 DEF ListingSound, ListIsComplete, NothingIsPassedOver
  <2> QED BY <2>2, InitSound DEF LInv, NothingIsMissed
<1>2. LInv => NothingIsMissed
  BY DEF LInv
<1> QED BY <1>1, <1>2, ListingsSound, PTL DEF Spec
=============================================================================
