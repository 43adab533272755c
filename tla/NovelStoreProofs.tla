-------------------------- MODULE NovelStoreProofs --------------------------
(***************************************************************************)
(* What the library promises for any number of operations and chapters.    *)
(* The row ids a refresh remembers were given out before (KnownIds), so    *)
(* storing them again keeps ids below nextId; what has no row has nothing  *)
(* to remember (Unkept), so LookUpHash and WriteHash leave no hashless     *)
(* novel in the library when the row has gone.                             *)
(***************************************************************************)
EXTENDS NovelStore, TLAPS

KnownIds == \A r \in Clients, c \in Chapters : client[r].known[c].id < nextId
Unkept   == /\ ~novel.present => novel = NoNovel
            /\ \A c \in Chapters : chapter[c].id = 0 => ~chapter[c].read

StoreInv == TypeOK /\ KnownIds /\ Unkept /\ LibraryHashed

LEMMA IdleType == Idle \in Client /\ NoNovel \in NovelRow /\ NoChapter \in ChapterRow
BY DEF Idle, Client, Pc, Ended, NovelRow, NoNovel, ChapterRow, NoChapter

LEMMA IdleFields ==
  /\ NoChapter.id = 0
  /\ Idle.known = [c \in Chapters |-> NoChapter]
  /\ \A pc \in Pc :
            /\ [Idle EXCEPT !.pc = pc] \in Client
            /\ [Idle EXCEPT !.pc = pc].pc = pc
            /\ [Idle EXCEPT !.pc = pc].known = Idle.known
<1>1. NoChapter.id = 0 /\ Idle.known = [c \in Chapters |-> NoChapter]
  BY DEF NoChapter, Idle
<1>2. ASSUME NEW pc \in Pc
      PROVE  /\ [Idle EXCEPT !.pc = pc] \in Client
             /\ [Idle EXCEPT !.pc = pc].pc = pc
             /\ [Idle EXCEPT !.pc = pc].known = Idle.known
  <2>1. [Idle EXCEPT !.pc = pc] \in Client
    BY IdleType DEF Client
  <2>2. /\ [Idle EXCEPT !.pc = pc].pc = pc
        /\ [Idle EXCEPT !.pc = pc].known = Idle.known
    BY DEF Idle
  <2> QED
    BY <2>1, <2>2
<1> QED
  BY <1>1, <1>2

(* Overtake touches nothing but the history field.                         *)
LEMMA OvertakeKeeps ==
  ASSUME NEW cl \in [Clients -> Client], NEW keep \in BOOLEAN
  PROVE  /\ Overtake(cl, keep) \in [Clients -> Client]
         /\ \A r \in Clients : /\ Overtake(cl, keep)[r].pc = cl[r].pc
                               /\ Overtake(cl, keep)[r].known = cl[r].known
BY DEF Overtake, Client

(* What every step of one operation does to the operations: its own record *)
(* moves to pc, the others stay where they are, and known ids stay known.  *)
Moved(r, pc) ==
  /\ client' \in [Clients -> Client]
  /\ KnownIds'
  /\ client'[r].pc = pc
  /\ \A q \in Clients : q # r => client'[q].pc = client[q].pc

(* A record remembers nothing, what it did, or the rows as they are.       *)
Remembers(r, v) ==
  \/ v.known = client[r].known
  \/ v.known = Idle.known
  \/ \A c \in Chapters : v.known[c] \in {chapter[c], NoChapter}

LEMMA RemembersIds ==
  ASSUME TypeOK, KnownIds, nextId' \in Nat, nextId <= nextId',
         NEW r \in Clients, NEW v \in Client, Remembers(r, v), NEW c \in Chapters
  PROVE  v.known[c].id < nextId'
<1>1. chapter[c].id \in Nat /\ chapter[c].id < nextId /\ nextId \in Nat
  BY DEF TypeOK, ChapterRow
<1>2. CASE v.known = client[r].known
  <2>1. client[r].known[c].id \in Nat /\ client[r].known[c].id < nextId
    BY DEF TypeOK, Client, ChapterRow, KnownIds
  <2> QED
    BY <1>1, <1>2, <2>1
<1>3. CASE v.known = Idle.known
  <2>1. v.known[c].id = 0
    BY <1>3, IdleFields
  <2> QED
    BY <1>1, <2>1
<1>4. CASE \A d \in Chapters : v.known[d] \in {chapter[d], NoChapter}
  <2>1. v.known[c].id = chapter[c].id \/ v.known[c].id = 0
    BY <1>4, IdleFields
  <2> QED
    BY <1>1, <2>1
<1> QED
  BY <1>2, <1>3, <1>4 DEF Remembers

LEMMA OneMoved ==
  ASSUME TypeOK, KnownIds, nextId' \in Nat, nextId <= nextId',
         NEW r \in Clients, NEW v \in Client, Remembers(r, v),
         NEW keep \in BOOLEAN,
         \/ client' = [client EXCEPT ![r] = v]
         \/ client' = Overtake([client EXCEPT ![r] = v], keep)
  PROVE  Moved(r, v.pc)
<1> DEFINE cl == [client EXCEPT ![r] = v]
<1>1. /\ cl \in [Clients -> Client]
      /\ cl[r] = v
      /\ \A q \in Clients : q # r => cl[q] = client[q]
  BY DEF TypeOK
<1>2. /\ client' \in [Clients -> Client]
      /\ \A q \in Clients : client'[q].pc = cl[q].pc /\ client'[q].known = cl[q].known
  <2> HIDE DEF cl
  <2>1. client' = cl \/ client' = Overtake(cl, keep)
    BY DEF cl
  <2> QED
    BY <2>1, <1>1, OvertakeKeeps
<1>3. ASSUME NEW q \in Clients, NEW c \in Chapters PROVE cl[q].known[c].id < nextId'
  <2>1. CASE q = r
    BY <2>1, <1>1, RemembersIds
  <2>2. CASE q # r
    <3>1. cl[q].known[c].id = client[q].known[c].id
      BY <2>2, <1>1
    <3>2. client[q].known[c].id \in Nat /\ nextId \in Nat
      BY DEF TypeOK, Client, ChapterRow
    <3> QED
      BY <3>1, <3>2 DEF KnownIds
  <2> QED
    BY <2>1, <2>2
<1> HIDE DEF cl
<1>4. KnownIds'
  BY <1>2, <1>3 DEF KnownIds
<1> QED
  BY <1>1, <1>2, <1>4 DEF Moved

LEMMA EndMoved ==
  ASSUME TypeOK, KnownIds, nextId' \in Nat, nextId <= nextId',
         NEW r \in Clients, NEW pc \in Pc, End(r, pc)
  PROVE  Moved(r, pc)
<1> DEFINE v == [Idle EXCEPT !.pc = pc]
<1>1. v \in Client /\ v.pc = pc /\ Remembers(r, v)
  BY IdleFields DEF Remembers
<1>2. client' = [client EXCEPT ![r] = v]
  BY DEF End
<1> HIDE DEF v
<1> QED
  BY <1>1, <1>2, OneMoved

LEMMA GotoMoved ==
  ASSUME TypeOK, KnownIds, nextId' \in Nat, nextId <= nextId',
         NEW r \in Clients, NEW pc \in Pc, Goto(r, pc)
  PROVE  Moved(r, pc)
<1> DEFINE v == [client[r] EXCEPT !.pc = pc]
<1>1. v \in Client /\ v.pc = pc /\ v.known = client[r].known
  BY DEF TypeOK, Client
<1>2. client' = [client EXCEPT ![r] = v]
  BY DEF Goto
<1> HIDE DEF v
<1> QED
  BY <1>1, <1>2, OneMoved DEF Remembers

-----------------------------------------------------------------------------
HashPc == {"hash", "writeHash"}

(* An operation that has still to write the hash either goes on to do so,  *)
(* or leaves no row of the library without one.                            *)
LEMMA HashKept ==
  ASSUME LibraryHashed, interrupted => interrupted',
         NEW r \in Clients, NEW pc, Moved(r, pc),
         client[r].pc \notin HashPc \/ pc \in HashPc,
         novel'.inLibrary => novel'.hashed \/ (novel.inLibrary /\ ~novel.hashed)
  PROVE  LibraryHashed'
BY DEF LibraryHashed, HashPc, Moved

(* A step that only reads the tables.                                      *)
LEMMA ReadingStep ==
  ASSUME StoreInv, UNCHANGED tables, UNCHANGED interrupted,
         operations' \in 0..MaxOperations,
         NEW r \in Clients, NEW pc, Moved(r, pc),
         client[r].pc \notin HashPc \/ pc \in HashPc
  PROVE  StoreInv'
<1>1. TypeOK'
  BY DEF StoreInv, TypeOK, tables, Moved
<1>2. Unkept' /\ KnownIds'
  BY DEF StoreInv, Unkept, tables, Moved
<1>3. LibraryHashed'
  BY HashKept DEF StoreInv, LibraryHashed, tables
<1> QED
  BY <1>1, <1>2, <1>3 DEF StoreInv

LEMMA NextIdKept == TypeOK /\ UNCHANGED nextId => nextId' \in Nat /\ nextId <= nextId'
BY DEF TypeOK

LEMMA BeginStep ==
  ASSUME StoreInv, NEW r \in Clients, NEW pc \in Pc, Begin(r, pc)
  PROVE  StoreInv'
<1>1. Moved(r, pc)
  BY EndMoved, NextIdKept DEF Begin, End, StoreInv, tables
<1>2. operations' \in 0..MaxOperations
  BY MaxOperationsAssumption DEF Begin, StoreInv, TypeOK
<1> QED
  BY <1>1, <1>2, ReadingStep DEF Begin, Ended, HashPc

(* Steps that end, go on, or take over a new record v, and only read.      *)
LEMMA EndStep ==
  ASSUME StoreInv, NEW r \in Clients, NEW pc \in Pc, End(r, pc),
         UNCHANGED <<tables, others>>, client[r].pc \notin HashPc
  PROVE  StoreInv'
<1>1. Moved(r, pc)
  BY EndMoved, NextIdKept DEF StoreInv, tables
<1> QED
  BY <1>1, ReadingStep DEF StoreInv, TypeOK, others

LEMMA GotoStep ==
  ASSUME StoreInv, NEW r \in Clients, NEW pc \in Pc, Goto(r, pc),
         UNCHANGED <<tables, others>>, client[r].pc \notin HashPc \/ pc \in HashPc
  PROVE  StoreInv'
<1>1. Moved(r, pc)
  BY GotoMoved, NextIdKept DEF StoreInv, tables
<1> QED
  BY <1>1, ReadingStep DEF StoreInv, TypeOK, others

LEMMA RecordStep ==
  ASSUME StoreInv, NEW r \in Clients, NEW v \in Client, Remembers(r, v),
         client' = [client EXCEPT ![r] = v],
         UNCHANGED <<tables, others>>, client[r].pc \notin HashPc
  PROVE  StoreInv'
<1>1. Moved(r, v.pc)
  BY OneMoved, NextIdKept DEF StoreInv, tables
<1> QED
  BY <1>1, ReadingStep DEF StoreInv, TypeOK, others

-----------------------------------------------------------------------------
LEMMA FetchStep ==
  ASSUME StoreInv, NEW r \in Clients, Fetch(r)
  PROVE  StoreInv'
<1>1. client[r].pc \notin HashPc /\ UNCHANGED <<tables, others>>
  BY DEF Fetch, HashPc
<1>2. CASE End(r, "failure")
  BY <1>1, <1>2, EndStep DEF Pc, Ended
<1>3. ASSUME NEW list \in SUBSET Chapters,
             client' = [client EXCEPT ![r].pc = "snapshot", ![r].list = list]
      PROVE  StoreInv'
  <2> DEFINE v == [client[r] EXCEPT !.pc = "snapshot", !.list = list]
  <2>1. v \in Client /\ v.known = client[r].known
    BY DEF StoreInv, TypeOK, Client, Pc
  <2>2. client' = [client EXCEPT ![r] = v]
    BY <1>3
  <2> HIDE DEF v
  <2> QED
    BY <1>1, <2>1, <2>2, RecordStep DEF Remembers
<1> QED
  BY <1>2, <1>3 DEF Fetch

LEMMA SnapshotStep ==
  ASSUME StoreInv, NEW r \in Clients, SnapshotChapters(r)
  PROVE  StoreInv'
<1> DEFINE known == [c \in Chapters |-> IF c \in client[r].list
                                        THEN chapter[c] ELSE NoChapter]
           v == [client[r] EXCEPT !.pc = "look", !.known = known]
<1>1. known \in [Chapters -> ChapterRow]
  BY IdleType DEF StoreInv, TypeOK
<1>2. \A c \in Chapters : known[c] \in {chapter[c], NoChapter}
  OBVIOUS
<1>3. client' = [client EXCEPT ![r] = v]
  BY DEF SnapshotChapters
<1> HIDE DEF known
<1>4. v \in Client /\ v.known = known
  BY <1>1 DEF StoreInv, TypeOK, Client, Pc
<1> HIDE DEF v
<1> QED
  BY <1>2, <1>3, <1>4, RecordStep DEF Remembers, SnapshotChapters, HashPc

LEMMA LookUpStep ==
  ASSUME StoreInv, NEW r \in Clients, LookUpNovel(r)
  PROVE  StoreInv'
<1> DEFINE v == [client[r] EXCEPT !.pc = "save", !.seen = novel]
<1>1. v \in Client /\ v.known = client[r].known
  BY DEF StoreInv, TypeOK, Client, Pc
<1>2. client' = [client EXCEPT ![r] = v]
  BY DEF LookUpNovel
<1> HIDE DEF v
<1> QED
  BY <1>1, <1>2, RecordStep DEF Remembers, LookUpNovel, HashPc

LEMMA ReadRowStep ==
  ASSUME StoreInv, NEW r \in Clients, NEW from \in Pc \ HashPc, NEW to \in Pc,
         ReadRow(r, from, to)
  PROVE  StoreInv'
<1> DEFINE v == [client[r] EXCEPT !.pc = to, !.existing = novel]
<1>1. v \in Client /\ v.known = client[r].known
  BY DEF StoreInv, TypeOK, Client
<1>2. client' = [client EXCEPT ![r] = v]
  BY DEF ReadRow
<1> HIDE DEF v
<1> QED
  BY <1>1, <1>2, RecordStep DEF Remembers, ReadRow

(* saveNovel's row: present, and with a hash if it is of the library.      *)
LEMMA SavedRowType ==
  ASSUME NEW existing \in NovelRow, NEW given \in NovelRow
  PROVE  /\ savedRow(existing, given) \in NovelRow
         /\ savedRow(existing, given).present
         /\ savedRow(existing, given).inLibrary
              <=> existing.inLibrary \/ given.inLibrary
         /\ savedRow(existing, given).inLibrary
              => savedRow(existing, given).hashed
BY DEF savedRow, NovelRow

LEMMA UpsertRowStep ==
  ASSUME StoreInv, NEW r \in Clients, NEW from \in Pc \ HashPc, NEW to \in Pc,
         UpsertRow(r, from, to)
  PROVE  StoreInv'
<1> DEFINE row == savedRow(client[r].existing, client[r].seen)
           v   == [client[r] EXCEPT !.pc = to]
<1>1. /\ row \in NovelRow /\ row.present
      /\ row.inLibrary => row.hashed
      /\ row.inLibrary \in BOOLEAN
  <2>1. client[r].existing \in NovelRow /\ client[r].seen \in NovelRow
    BY DEF StoreInv, TypeOK, Client
  <2>2. row \in NovelRow /\ row.present /\ (row.inLibrary => row.hashed)
    BY <2>1, SavedRowType
  <2> QED
    BY <2>2 DEF NovelRow
<1>2. /\ novel' = row
      /\ UNCHANGED <<chapter, nextId, downloaded, others>>
      /\ client' = Overtake([client EXCEPT ![r] = v], row.inLibrary)
  BY DEF UpsertRow, upsertNovel
<1>3. v \in Client /\ v.known = client[r].known /\ v.pc = to
  BY DEF StoreInv, TypeOK, Client
<1> HIDE DEF row, v
<1>4. Moved(r, to)
  BY <1>1, <1>2, <1>3, OneMoved, NextIdKept DEF StoreInv, Remembers
<1>5. TypeOK'
  BY <1>1, <1>2, <1>4 DEF StoreInv, TypeOK, Moved, others
<1>6. LibraryHashed'
  BY <1>1, <1>2 DEF LibraryHashed
<1>7. Unkept' /\ KnownIds'
  BY <1>1, <1>2, <1>4 DEF StoreInv, Unkept, Moved
<1> QED
  BY <1>5, <1>6, <1>7 DEF StoreInv

-----------------------------------------------------------------------------
(* Room's @Upsert: a row keeps its id, and a new one gets its own or the   *)
(* next.                                                                   *)
LEMMA UpsertType ==
  ASSUME NEW row \in ChapterRow, NEW new \in ChapterRow, nextId \in Nat
  PROVE  /\ upsertChapter(row, new) \in ChapterRow
         /\ row.id # 0 => upsertChapter(row, new).id = row.id
         /\ row.id = 0 => upsertChapter(row, new).id =
                            IF new.id = 0 THEN nextId ELSE new.id
<1>1. CASE row.id = 0
  BY <1>1 DEF upsertChapter, ChapterRow
<1>2. CASE row.id # 0 /\ row.id = new.id
  BY <1>2 DEF upsertChapter, ChapterRow
<1>3. CASE row.id # 0 /\ row.id # new.id
  BY <1>3 DEF upsertChapter, ChapterRow
<1> QED
  BY <1>1, <1>2, <1>3

LEMMA MergedType ==
  ASSUME NEW known \in ChapterRow
  PROVE  merged(known) \in ChapterRow /\ merged(known).id = known.id
                                      /\ merged(known).read = known.read
BY DEF merged, ChapterRow

(* The rows that StoreChapters leaves when the foreign key holds.          *)
LEMMA StoredRows ==
  ASSUME StoreInv, NEW r \in Clients, StoreChapters(r), ~keyFails(client[r].list)
  PROVE  /\ chapter' \in [Chapters -> ChapterRow]
         /\ nextId' \in Nat /\ nextId <= nextId'
         /\ \A c \in Chapters : chapter'[c].id < nextId'
         /\ \A c \in Chapters : chapter[c].id # 0 => chapter'[c].id = chapter[c].id
         /\ \A c \in Chapters :
              chapter'[c] = IF c \in client[r].list
                            THEN upsertChapter(chapter[c], merged(client[r].known[c]))
                            ELSE chapter[c]
         /\ \A c \in client[r].list : chapter'[c].id # 0
<1> DEFINE known == client[r].known
           list  == client[r].list
<1>1. list \subseteq Chapters /\ known \in [Chapters -> ChapterRow]
  BY DEF StoreInv, TypeOK, Client
<1>2. chapter \in [Chapters -> ChapterRow] /\ nextId \in Nat
  BY DEF StoreInv, TypeOK
<1>3. chapter' = [c \in Chapters |-> IF c \in list
                    THEN upsertChapter(chapter[c], merged(known[c])) ELSE chapter[c]]
  BY DEF StoreChapters
<1>4. nextId' = IF \E c \in list : chapter[c].id = 0 /\ known[c].id = 0
                THEN nextId + 1 ELSE nextId
  BY DEF StoreChapters
<1>5. \A c \in Chapters : chapter[c].id < nextId /\ known[c].id < nextId
  BY DEF StoreInv, TypeOK, KnownIds
<1> HIDE DEF known, list
<1>6. nextId' \in Nat /\ nextId <= nextId'
  BY <1>2, <1>4
<1>7. ASSUME NEW c \in Chapters
      PROVE  /\ chapter'[c] \in ChapterRow /\ chapter'[c].id < nextId'
             /\ chapter[c].id # 0 => chapter'[c].id = chapter[c].id
             /\ c \in list => chapter'[c].id # 0
  <2>1. CASE c \notin list
    BY <1>2, <1>3, <1>5, <1>6, <2>1 DEF ChapterRow
  <2>2. CASE c \in list
    <3> DEFINE new == merged(known[c])
    <3>1. new \in ChapterRow /\ new.id = known[c].id
      BY <1>1, MergedType
    <3>2. chapter'[c] = upsertChapter(chapter[c], new)
      BY <1>3, <2>2
    <3> HIDE DEF new
    <3>3. /\ chapter'[c] \in ChapterRow
          /\ chapter[c].id # 0 => chapter'[c].id = chapter[c].id
          /\ chapter[c].id = 0 => chapter'[c].id = IF known[c].id = 0
                                                   THEN nextId ELSE known[c].id
      BY <1>2, <3>1, <3>2, UpsertType
    <3>4. chapter[c].id \in Nat /\ known[c].id \in Nat
      BY <1>1, <1>2 DEF ChapterRow
    <3>5. chapter'[c].id < nextId'
      <4>1. CASE chapter[c].id # 0
        BY <4>1, <1>2, <1>5, <1>6, <3>3, <3>4
      <4>2. CASE chapter[c].id = 0 /\ known[c].id # 0
        BY <4>2, <1>2, <1>5, <1>6, <3>3, <3>4
      <4>3. CASE chapter[c].id = 0 /\ known[c].id = 0
        <5>1. nextId' = nextId + 1
          BY <1>4, <2>2, <4>3
        <5> QED
          BY <5>1, <4>3, <1>2, <3>3
      <4> QED
        BY <4>1, <4>2, <4>3
    <3>6. chapter'[c].id # 0
      <4>1. nextId # 0
        BY <1>2, <1>5, <3>4
      <4> QED
        BY <3>3, <4>1
    <3> QED
      BY <3>3, <3>5, <3>6
  <2> QED
    BY <2>1, <2>2
<1>8. chapter' \in [Chapters -> ChapterRow]
  BY <1>3, <1>7
<1> QED
  BY <1>1, <1>3, <1>6, <1>7, <1>8 DEF list, known

LEMMA StoreChaptersStep ==
  ASSUME StoreInv, NEW r \in Clients, StoreChapters(r)
  PROVE  StoreInv'
<1>1. client[r].pc \notin HashPc /\ UNCHANGED <<novel, downloaded, others>>
  BY DEF StoreChapters, HashPc
<1>2. CASE keyFails(client[r].list)
  BY <1>1, <1>2, EndStep DEF StoreChapters, Pc, Ended, tables
<1>3. CASE ~keyFails(client[r].list)
  <2>1. Moved(r, "success")
    BY <1>3, StoredRows, EndMoved DEF StoreInv, StoreChapters, Pc, Ended
  <2>2. \A c \in Chapters : chapter'[c].id # 0 => novel'.present
    <3> SUFFICES ASSUME NEW c \in Chapters, chapter'[c].id # 0, ~novel.present
                 PROVE  FALSE
      BY <1>1
    <3>1. c \notin client[r].list
      BY <1>3 DEF keyFails
    <3>2. chapter'[c] = chapter[c]
      BY <1>3, <3>1, StoredRows
    <3> QED
      BY <3>2 DEF StoreInv, TypeOK
  <2>3. TypeOK'
    BY <1>1, <1>3, <2>1, <2>2, StoredRows DEF StoreInv, TypeOK, others, Moved
  <2>4. LibraryHashed'
    BY <1>1, <2>1, HashKept DEF StoreInv, others
  <2>5. \A c \in Chapters : chapter'[c].id = 0 => ~chapter'[c].read
    <3> SUFFICES ASSUME NEW c \in Chapters, chapter'[c].id = 0
                 PROVE  ~chapter'[c].read
      OBVIOUS
    <3>1. chapter'[c] = chapter[c]
      BY <1>3, StoredRows
    <3> QED
      BY <3>1 DEF StoreInv, Unkept
  <2> QED
    BY <1>1, <2>1, <2>3, <2>4, <2>5 DEF StoreInv, Unkept, Moved
<1> QED
  BY <1>2, <1>3

LEMMA StubLookStep ==
  ASSUME StoreInv, NEW r \in Clients, StubLook(r)
  PROVE  StoreInv'
BY EndStep, GotoStep DEF StubLook, Pc, Ended, HashPc

-----------------------------------------------------------------------------
LEMMA ToggleStep ==
  ASSUME StoreInv, NEW r \in Clients, NEW add \in BOOLEAN, ToggleLibrary(r, add)
  PROVE  StoreInv'
<1> DEFINE pc == IF add THEN "hash" ELSE "idle"
           v  == [Idle EXCEPT !.pc = pc]
<1>1. v \in Client /\ v.known = Idle.known /\ v.pc = pc
  BY IdleFields DEF Pc, Ended
<1>2. client' = Overtake([client EXCEPT ![r] = v], add)
  BY DEF ToggleLibrary
<1> HIDE DEF v
<1>3. Moved(r, pc)
  BY <1>1, <1>2, OneMoved, NextIdKept DEF ToggleLibrary, StoreInv, Remembers
<1>4. /\ novel' \in NovelRow /\ novel'.present = novel.present
      /\ novel'.inLibrary => add \/ novel' = novel
      /\ ~novel.present => novel' = novel
  BY DEF ToggleLibrary, StoreInv, TypeOK, NovelRow
<1>5. operations' \in 0..MaxOperations
  BY MaxOperationsAssumption DEF ToggleLibrary, StoreInv, TypeOK
<1>6. TypeOK'
  BY <1>3, <1>4, <1>5 DEF StoreInv, TypeOK, ToggleLibrary, Moved
<1>7. LibraryHashed'
  <2>1. CASE add
    BY <1>3, <2>1 DEF LibraryHashed, Moved
  <2>2. CASE ~add
    <3>1. client[r].pc \notin HashPc
      BY DEF ToggleLibrary, Ended, HashPc
    <3>2. novel'.inLibrary => novel'.hashed \/ (novel.inLibrary /\ ~novel.hashed)
      BY <1>4, <2>2 DEF StoreInv, TypeOK, NovelRow
    <3> QED
      BY <1>3, <3>1, <3>2, HashKept DEF StoreInv, ToggleLibrary
  <2> QED
    BY <2>1, <2>2
<1> QED
  BY <1>3, <1>4, <1>6, <1>7 DEF StoreInv, Unkept, Moved, ToggleLibrary

LEMMA LookUpHashStep ==
  ASSUME StoreInv, NEW r \in Clients, LookUpHash(r)
  PROVE  StoreInv'
<1>1. CASE novel.present /\ ~novel.hashed
  BY <1>1, GotoStep DEF LookUpHash, Pc, HashPc
<1>2. CASE ~(novel.present /\ ~novel.hashed)
  <2>1. UNCHANGED <<tables, others>> /\ End(r, "idle")
    BY <1>2 DEF LookUpHash
  <2>2. Moved(r, "idle")
    BY <2>1, EndMoved, NextIdKept DEF StoreInv, tables, Pc, Ended
  <2>3. novel'.inLibrary => novel'.hashed
    BY <1>2, <2>1 DEF StoreInv, Unkept, NoNovel, tables
  <2>4. TypeOK'
    BY <2>1, <2>2 DEF StoreInv, TypeOK, Moved, tables, others
  <2> QED
    BY <2>1, <2>2, <2>3, <2>4 DEF StoreInv, Unkept, LibraryHashed, Moved, tables
<1> QED
  BY <1>1, <1>2

LEMMA WriteHashStep ==
  ASSUME StoreInv, NEW r \in Clients, WriteHash(r)
  PROVE  StoreInv'
<1>1. UNCHANGED <<chapter, nextId, downloaded, others>> /\ End(r, "idle")
  BY DEF WriteHash
<1>2. Moved(r, "idle")
  BY <1>1, EndMoved, NextIdKept DEF StoreInv, Pc, Ended
<1>3. /\ novel' \in NovelRow /\ novel'.present = novel.present
      /\ ~novel.present => novel' = novel
      /\ novel'.inLibrary => novel'.hashed
  <2>1. CASE novel.present
    <3>1. novel' = [novel EXCEPT !.hashed = TRUE]
      BY <2>1 DEF WriteHash
    <3> QED
      BY <2>1, <3>1 DEF StoreInv, TypeOK, NovelRow
  <2>2. CASE ~novel.present
    <3>1. novel' = novel /\ novel = NoNovel
      BY <2>2 DEF WriteHash, StoreInv, Unkept
    <3> QED
      BY <2>2, <3>1, IdleType DEF NoNovel
  <2> QED
    BY <2>1, <2>2
<1> QED
  BY <1>1, <1>2, <1>3 DEF StoreInv, TypeOK, Unkept, LibraryHashed, Moved, others

(* Steps that leave the novel and the operations alone, or empty the rows. *)
LEMMA MarkStep ==
  ASSUME StoreInv, NEW c \in Chapters, Mark(c)
  PROVE  StoreInv'
<1>1. UNCHANGED <<novel, nextId, downloaded, client, others>>
  BY DEF Mark, MarkRead, ToggleBookmark
<1>2. /\ chapter' \in [Chapters -> ChapterRow]
      /\ \A d \in Chapters : chapter'[d].id = chapter[d].id
  <2>1. ASSUME NEW b \in BOOLEAN,
               \/ chapter' = [chapter EXCEPT ![c].read = b]
               \/ chapter' = [chapter EXCEPT ![c].bookmarked = b]
        PROVE  /\ chapter' \in [Chapters -> ChapterRow]
               /\ \A d \in Chapters : chapter'[d].id = chapter[d].id
    BY <2>1 DEF StoreInv, TypeOK, ChapterRow
  <2>2. CASE \E read \in BOOLEAN : MarkRead(c, read)
    BY <2>1, <2>2 DEF MarkRead
  <2>3. CASE ToggleBookmark(c)
    <3>1. (~chapter[c].bookmarked) \in BOOLEAN
      OBVIOUS
    <3>2. chapter' = [chapter EXCEPT ![c].bookmarked = ~chapter[c].bookmarked]
      BY <2>3 DEF ToggleBookmark
    <3> QED
      BY <2>1, <3>1, <3>2
  <2> QED
    BY <2>2, <2>3 DEF Mark
<1>3. TypeOK'
  BY <1>1, <1>2 DEF StoreInv, TypeOK, others
<1>4. \A d \in Chapters : chapter'[d].id = 0 => ~chapter'[d].read
  <2>1. chapter[c].id # 0 /\ \A d \in Chapters \ {c} : chapter'[d] = chapter[d]
    BY DEF Mark, MarkRead, ToggleBookmark, StoreInv, TypeOK
  <2> QED
    BY <1>2, <2>1 DEF StoreInv, Unkept
<1>5. KnownIds' /\ Unkept' /\ LibraryHashed'
  BY <1>1, <1>4 DEF StoreInv, KnownIds, Unkept, LibraryHashed, others
<1> QED
  BY <1>3, <1>5 DEF StoreInv

LEMMA EmptyType ==
  ASSUME TypeOK, DropRows, UNCHANGED nextId
  PROVE  /\ novel' \in NovelRow /\ ~novel'.inLibrary /\ novel' = NoNovel
         /\ chapter' \in [Chapters -> ChapterRow]
         /\ \A c \in Chapters : /\ chapter'[c].id < nextId'
                                /\ chapter'[c].id = 0 /\ ~chapter'[c].read
<1>1. novel' \in NovelRow /\ ~novel'.inLibrary /\ novel' = NoNovel
  BY IdleType DEF DropRows, NoNovel
<1>2. ASSUME NEW c \in Chapters
      PROVE  /\ chapter'[c] \in ChapterRow /\ chapter'[c].id < nextId'
             /\ chapter'[c].id = 0 /\ ~chapter'[c].read
  <2>1. chapter'[c] = NoChapter
    BY DEF DropRows
  <2>2. chapter[c].id \in Nat /\ chapter[c].id < nextId /\ nextId \in Nat
    BY DEF TypeOK, ChapterRow
  <2> QED
    BY <2>1, <2>2, IdleType DEF NoChapter
<1> QED
  BY <1>1, <1>2 DEF DropRows

LEMMA DeleteNovelStep ==
  ASSUME StoreInv, DeleteNovel
  PROVE  StoreInv'
<1>1. UNCHANGED <<nextId, downloaded, client, others>> /\ DropRows
  BY DEF DeleteNovel
<1>2. TypeOK'
  BY <1>1, EmptyType DEF StoreInv, TypeOK, others
<1>3. Unkept' /\ LibraryHashed'
  BY <1>1, EmptyType DEF StoreInv, Unkept, LibraryHashed
<1>4. KnownIds'
  BY <1>1 DEF StoreInv, KnownIds
<1> QED
  BY <1>2, <1>3, <1>4 DEF StoreInv

LEMMA PruneStep ==
  ASSUME StoreInv, NEW r \in Clients, Prune(r)
  PROVE  StoreInv'
<1>1. UNCHANGED <<nextId, downloaded, others>> /\ DropRows /\ End(r, "idle")
  BY DEF Prune
<1>2. Moved(r, "idle")
  BY <1>1, EndMoved, NextIdKept DEF StoreInv, Pc, Ended
<1>3. TypeOK'
  BY <1>1, <1>2, EmptyType DEF StoreInv, TypeOK, others, Moved
<1>4. Unkept' /\ LibraryHashed'
  BY <1>1, EmptyType DEF StoreInv, Unkept, LibraryHashed
<1> QED
  BY <1>2, <1>3, <1>4 DEF StoreInv, Moved

LEMMA DownloadsStep ==
  ASSUME StoreInv, DownloadsChange
  PROVE  StoreInv'
<1>1. downloaded' \in BOOLEAN
  BY DEF DownloadsChange, StoreInv, TypeOK
<1>2. /\ client' \in [Clients -> Client]
      /\ \A r \in Clients : client'[r].pc = client[r].pc /\ client'[r].known = client[r].known
  BY <1>1, OvertakeKeeps DEF DownloadsChange, StoreInv, TypeOK
<1> QED
  BY <1>1, <1>2 DEF DownloadsChange, StoreInv, TypeOK, KnownIds, Unkept, LibraryHashed, others

LEMMA QueryStep ==
  ASSUME StoreInv, NEW r \in Clients, QueryPrunable(r)
  PROVE  StoreInv'
BY EndStep, GotoStep DEF QueryPrunable, Pc, Ended, HashPc

LEMMA DieStep ==
  ASSUME StoreInv, Die
  PROVE  StoreInv'
<1>1. UNCHANGED <<tables, operations>> /\ client' = [r \in Clients |-> Idle]
  BY DEF Die
<1>2. client' \in [Clients -> Client] /\ interrupted' \in BOOLEAN
  BY IdleType DEF Die, StoreInv, TypeOK
<1>3. KnownIds'
  <2>1. ASSUME NEW r \in Clients, NEW c \in Chapters
        PROVE  client'[r].known[c].id < nextId'
    <3>1. client'[r].known[c].id = 0
      BY <1>1, IdleFields
    <3>2. chapter[c].id \in Nat /\ chapter[c].id < nextId /\ nextId \in Nat
      BY DEF StoreInv, TypeOK, ChapterRow
    <3> QED
      BY <1>1, <3>1, <3>2 DEF tables
  <2> QED
    BY <2>1 DEF KnownIds
<1>4. LibraryHashed'
  BY <1>1 DEF Die, StoreInv, LibraryHashed, tables
<1> QED
  BY <1>1, <1>2, <1>3, <1>4 DEF StoreInv, TypeOK, Unkept, tables

-----------------------------------------------------------------------------
LEMMA InitInv == Init => StoreInv
<1> SUFFICES ASSUME Init PROVE StoreInv
  OBVIOUS
<1>1. \A c \in Chapters : chapter[c] = NoChapter /\ chapter[c].id = 0 /\ ~chapter[c].read
  BY DEF Init, NoChapter
<1>2. \A r \in Clients, c \in Chapters : client[r].known[c].id = 0
  BY IdleFields DEF Init
<1>3. TypeOK
  <2>1. novel \in NovelRow /\ chapter \in [Chapters -> ChapterRow]
        /\ client \in [Clients -> Client]
    BY IdleType DEF Init
  <2>2. operations \in 0..MaxOperations /\ nextId = 1
    BY MaxOperationsAssumption DEF Init
  <2>3. downloaded \in BOOLEAN /\ interrupted \in BOOLEAN
    BY Zenon DEF Init
  <2> QED
    BY <1>1, <2>1, <2>2, <2>3 DEF TypeOK
<1>4. KnownIds
  BY <1>2 DEF Init, KnownIds
<1>5. Unkept /\ LibraryHashed
  BY <1>1 DEF Init, Unkept, LibraryHashed, NoNovel
<1> QED
  BY <1>3, <1>4, <1>5 DEF StoreInv

LEMMA ClientStep ==
  ASSUME StoreInv, NEW r \in Clients,
         Refresh(r) \/ Stub(r) \/ Toggle(r) \/ Pruning(r)
  PROVE  StoreInv'
<1> USE DEF Pc, Ended, HashPc
<1>1. CASE Refresh(r)
  <2>1. CASE StartRefresh(r)
    BY <2>1, BeginStep DEF StartRefresh
  <2>2. CASE SaveRead(r)
    BY <2>2, ReadRowStep DEF SaveRead
  <2>3. CASE SaveUpsert(r)
    BY <2>3, UpsertRowStep DEF SaveUpsert
  <2> QED
    BY <1>1, <2>1, <2>2, <2>3, FetchStep, SnapshotStep, LookUpStep,
       StoreChaptersStep DEF Refresh
<1>2. CASE Stub(r)
  <2>1. CASE StartStub(r)
    BY <2>1, BeginStep DEF StartStub
  <2>2. CASE StubRead(r)
    BY <2>2, ReadRowStep DEF StubRead
  <2>3. CASE StubUpsert(r)
    BY <2>3, UpsertRowStep DEF StubUpsert
  <2> QED
    BY <1>2, <2>1, <2>2, <2>3, StubLookStep DEF Stub
<1>3. CASE Toggle(r)
  BY <1>3, ToggleStep, LookUpHashStep, WriteHashStep DEF Toggle
<1>4. CASE Pruning(r)
  <2>1. CASE StartPrune(r)
    BY <2>1, BeginStep DEF StartPrune
  <2> QED
    BY <1>4, <2>1, QueryStep, PruneStep DEF Pruning
<1> QED
  BY <1>1, <1>2, <1>3, <1>4

LEMMA StutterStep == StoreInv /\ UNCHANGED vars => StoreInv'
BY DEF StoreInv, TypeOK, KnownIds, Unkept, LibraryHashed, vars

LEMMA StoreStep == StoreInv /\ [Next]_vars => StoreInv'
BY ClientStep, MarkStep, DeleteNovelStep, DownloadsStep, DieStep, StutterStep DEF Next

LEMMA StoreInvariant == Spec => []StoreInv
BY InitInv, StoreStep, PTL DEF Spec

(* The tables and the operations keep their types; ids lie below the next  *)
(* one, and no chapter is stored without its novel (NovelDao, ChapterDao). *)
THEOREM StoreTyped == Spec => []TypeOK
BY StoreInvariant, PTL DEF StoreInv

(* A novel of the library has its hash, or toggleLibrary is still about to *)
(* write it, or died: no save ever drops or misses it (saveNovel).         *)
THEOREM LibraryStaysHashed == Spec => []LibraryHashed
BY StoreInvariant, PTL DEF StoreInv

-----------------------------------------------------------------------------
(* What one step can do to the tables.                                     *)

LEMMA SavingStep ==
  ASSUME StoreInv, NEW r \in Clients, NEW from, NEW to, UpsertRow(r, from, to)
  PROVE  /\ client[r].pc = from /\ UNCHANGED chapter
         /\ novel.inLibrary /\ ~novel'.inLibrary => ~client[r].existing.inLibrary
<1>1. client[r].existing \in NovelRow /\ client[r].seen \in NovelRow
  BY DEF StoreInv, TypeOK, Client
<1> QED
  BY <1>1, SavedRowType DEF UpsertRow, upsertNovel

(* The steps that write chapters: StoreChapters, the user's marks and the  *)
(* deletions.                                                              *)
LEMMA ChapterWriters ==
  ASSUME StoreInv, Next
  PROVE  \/ UNCHANGED chapter
         \/ \E r \in Clients : StoreChapters(r) /\ ~keyFails(client[r].list)
         \/ \E c \in Chapters : Mark(c)
         \/ DeleteNovel
         \/ DropRows /\ \E r \in Clients : Prune(r)
<1>1. CASE \E r \in Clients : Refresh(r)
  <2> PICK r \in Clients : Refresh(r)
    BY <1>1
  <2>1. CASE StoreChapters(r) /\ keyFails(client[r].list)
    BY <2>1 DEF StoreChapters
  <2>2. CASE StartRefresh(r) \/ Fetch(r) \/ SnapshotChapters(r) \/ LookUpNovel(r)
             \/ SaveRead(r) \/ SaveUpsert(r)
    BY <2>2 DEF StartRefresh, Begin, Fetch, SnapshotChapters, LookUpNovel,
                SaveRead, ReadRow, SaveUpsert, UpsertRow, upsertNovel, tables
  <2> QED
    BY <2>1, <2>2 DEF Refresh
<1>2. CASE \E r \in Clients : Stub(r)
  BY <1>2 DEF Stub, StartStub, Begin, StubLook, StubRead, StubUpsert, ReadRow,
              UpsertRow, upsertNovel, tables
<1>3. CASE \E r \in Clients : Toggle(r)
  BY <1>3 DEF Toggle, ToggleLibrary, LookUpHash, WriteHash, tables
<1>4. CASE \E r \in Clients : Pruning(r)
  BY <1>4 DEF Pruning, StartPrune, Begin, QueryPrunable, Prune, tables
<1>5. CASE DownloadsChange \/ Die
  BY <1>5 DEF DownloadsChange, Die, tables
<1> QED
  BY <1>1, <1>2, <1>3, <1>4, <1>5 DEF Next

LEMMA MarksKeepIds ==
  ASSUME StoreInv, NEW c \in Chapters, Mark(c)
  PROVE  /\ UNCHANGED client
         /\ \A d \in Chapters : chapter'[d].id = chapter[d].id
<1>1. chapter \in [Chapters -> ChapterRow]
  BY DEF StoreInv, TypeOK
<1>2. CASE \E read \in BOOLEAN : MarkRead(c, read)
  BY <1>1, <1>2 DEF MarkRead, ChapterRow
<1>3. CASE ToggleBookmark(c)
  BY <1>1, <1>3 DEF ToggleBookmark, ChapterRow
<1> QED
  BY <1>2, <1>3 DEF Mark

(* Queued jobs and the reader name chapters by id: whatever is saved over  *)
(* them, rows keep their ids until the novel is deleted (@Upsert).         *)
THEOREM ChapterIdsSurvive == Spec => ChaptersSurvive
<1> DEFINE Survive == \A c \in Chapters :
             chapter[c].id # 0 /\ chapter'[c].id # chapter[c].id => ~novel'.present
<1>1. StoreInv /\ Next => Survive
  <2> SUFFICES ASSUME StoreInv, Next PROVE Survive
    OBVIOUS
  <2>1. CASE UNCHANGED chapter
    BY <2>1
  <2>2. CASE \E r \in Clients : StoreChapters(r) /\ ~keyFails(client[r].list)
    BY <2>2, StoredRows
  <2>3. CASE \E c \in Chapters : Mark(c)
    BY <2>3, MarksKeepIds
  <2>4. CASE DropRows
    BY <2>4 DEF DropRows, NoNovel
  <2> QED
    BY <2>1, <2>2, <2>3, <2>4, ChapterWriters DEF DeleteNovel
<1>2. StoreInv /\ [Next]_vars => [Survive]_vars
  BY <1>1
<1> QED
  BY <1>2, StoreInvariant, PTL DEF Spec, ChaptersSurvive

(* A chapter the user has read becomes unread only by the user's mark, or  *)
(* by a refresh that had read the rows before it (NovelMetadataHandler).   *)
THEOREM ReadMarksKept == Spec => ReadKept
<1> DEFINE Kept == \A c \in Chapters :
             /\ chapter[c].read
             /\ chapter'[c].id = chapter[c].id /\ ~chapter'[c].read
             => \/ client' = client
                \/ \E r \in Clients : /\ client[r].pc = "chapters"
                                      /\ ~client[r].known[c].read
<1>1. StoreInv /\ Next => Kept
  <2> SUFFICES ASSUME StoreInv, Next, NEW c \in Chapters, chapter[c].read,
                      chapter'[c].id = chapter[c].id, ~chapter'[c].read
               PROVE  \/ client' = client
                      \/ \E r \in Clients : /\ client[r].pc = "chapters"
                                            /\ ~client[r].known[c].read
    OBVIOUS
  <2>1. chapter[c].id # 0 /\ chapter[c] \in ChapterRow
    BY DEF StoreInv, Unkept, TypeOK
  <2>2. ASSUME NEW r \in Clients, StoreChapters(r), ~keyFails(client[r].list)
        PROVE  client[r].pc = "chapters" /\ ~client[r].known[c].read
    <3> DEFINE new == merged(client[r].known[c])
    <3>1. new \in ChapterRow /\ new.read = client[r].known[c].read
      BY MergedType DEF StoreInv, TypeOK, Client
    <3>2. c \in client[r].list /\ chapter'[c] = upsertChapter(chapter[c], new)
      BY <2>2, StoredRows
    <3> HIDE DEF new
    <3>3. chapter'[c] = new \/ chapter'[c] = chapter[c]
      BY <2>1, <3>2 DEF upsertChapter
    <3> QED
      BY <2>2, <3>1, <3>3 DEF StoreChapters
  <2>3. CASE \E d \in Chapters : Mark(d)
    BY <2>3, MarksKeepIds
  <2>4. CASE DropRows
    BY <2>1, <2>4, IdleFields DEF DropRows
  <2> QED
    BY <2>2, <2>3, <2>4, ChapterWriters DEF DeleteNovel
<1>2. StoreInv /\ [Next]_vars => [Kept]_vars
  BY <1>1
<1> QED
  BY <1>2, StoreInvariant, PTL DEF Spec, ReadKept

(* Only the user takes a novel out of the library, except that a save may  *)
(* write back a row it had read before the user added the novel.           *)
THEOREM LibraryFlagKept == Spec => LibraryKept
<1> DEFINE Kept == novel.inLibrary /\ novel'.present /\ ~novel'.inLibrary =>
             \/ operations' = operations + 1
             \/ \E r \in Clients : /\ client[r].pc \in {"upsert", "stubUpsert"}
                                   /\ ~client[r].existing.inLibrary
<1>1. StoreInv /\ Next => Kept
  <2> SUFFICES ASSUME StoreInv, Next, novel.inLibrary, novel'.present, ~novel'.inLibrary
               PROVE  Kept
    OBVIOUS
  <2>1. novel' # novel /\ novel' # NoNovel
    BY DEF NoNovel
  <2>2. ASSUME NEW r \in Clients, SaveUpsert(r) \/ StubUpsert(r)
        PROVE  Kept
    BY <2>2, SavingStep DEF SaveUpsert, StubUpsert
  <2>3. ASSUME NEW r \in Clients, Refresh(r) \/ Stub(r)
        PROVE  Kept
    BY <2>1, <2>2, <2>3 DEF Refresh, Stub, StartRefresh, StartStub, Begin, Fetch,
       SnapshotChapters, LookUpNovel, SaveRead, StubRead, ReadRow, StoreChapters,
       StubLook, tables
  <2>4. ASSUME NEW r \in Clients, Toggle(r)
        PROVE  Kept
    <3>1. CASE WriteHash(r)
      BY <2>1, <3>1 DEF WriteHash, StoreInv, TypeOK, NovelRow
    <3>2. CASE LookUpHash(r) \/ \E add \in BOOLEAN : ToggleLibrary(r, add)
      BY <2>1, <3>2 DEF LookUpHash, ToggleLibrary, tables
    <3> QED
      BY <2>4, <3>1, <3>2 DEF Toggle
  <2>5. ASSUME NEW r \in Clients, Pruning(r)
        PROVE  Kept
    BY <2>1, <2>5 DEF Pruning, StartPrune, Begin, QueryPrunable, Prune, DropRows, tables
  <2>6. CASE DeleteNovel \/ DownloadsChange \/ Die \/ \E c \in Chapters : Mark(c)
    BY <2>1, <2>6 DEF DeleteNovel, DropRows, DownloadsChange, Die, Mark, MarkRead,
                      ToggleBookmark, tables
  <2> QED
    BY <2>3, <2>4, <2>5, <2>6 DEF Next
<1>2. StoreInv /\ [Next]_vars => [Kept]_vars
  BY <1>1
<1> QED
  BY <1>2, StoreInvariant, PTL DEF Spec, LibraryKept

(* Where a save and a toggle leave the operations.                         *)
LEMMA SavePc ==
  ASSUME StoreInv, NEW q \in Clients, NEW from \in Pc, NEW to \in Pc,
         UpsertRow(q, from, to), NEW r \in Clients
  PROVE  /\ client[q].pc = from
         /\ client'[r].pc = IF r = q THEN to ELSE client[r].pc
<1> DEFINE cl == [client EXCEPT ![q].pc = to]
           row == savedRow(client[q].existing, client[q].seen)
<1>1. client \in [Clients -> Client]
  BY DEF StoreInv, TypeOK
<1>2. client[q].existing \in NovelRow /\ client[q].seen \in NovelRow
  BY <1>1 DEF Client
<1>3. cl \in [Clients -> Client] /\ cl[r].pc = IF r = q THEN to ELSE client[r].pc
  BY <1>1 DEF Client
<1>4. row.inLibrary \in BOOLEAN
  BY <1>2, SavedRowType DEF NovelRow
<1>5. client[q].pc = from /\ client' = Overtake(cl, row.inLibrary)
  BY DEF UpsertRow
<1> HIDE DEF cl, row
<1> QED
  BY <1>3, <1>4, <1>5, OvertakeKeeps

LEMMA TogglePc ==
  ASSUME StoreInv, NEW q \in Clients, NEW add \in BOOLEAN, ToggleLibrary(q, add),
         NEW r \in Clients
  PROVE  r # q => client'[r].pc = client[r].pc
<1> DEFINE v  == [Idle EXCEPT !.pc = IF add THEN "hash" ELSE "idle"]
           cl == [client EXCEPT ![q] = v]
<1>1. v \in Client
  BY IdleFields DEF Pc, Ended
<1>2. client' = Overtake(cl, add)
  BY DEF ToggleLibrary
<1> HIDE DEF v
<1>3. cl \in [Clients -> Client] /\ (r # q => cl[r] = client[r])
  BY <1>1 DEF StoreInv, TypeOK
<1> HIDE DEF cl
<1> QED
  BY <1>2, <1>3, OvertakeKeeps

(* Only the refresh itself goes on from storing chapters to success.       *)
LEMMA SuccessIsStored ==
  ASSUME StoreInv, Next, NEW r \in Clients,
         client[r].pc = "chapters", client'[r].pc = "success"
  PROVE  StoreChapters(r) /\ ~keyFails(client[r].list)
<1>1. client \in [Clients -> Client]
  BY DEF StoreInv, TypeOK
<1>2. ASSUME NEW q \in Clients, NEW pc, End(q, pc) \/ Goto(q, pc)
      PROVE  q = r
  BY <1>1, <1>2 DEF End, Goto
<1>3. ASSUME NEW q \in Clients, NEW pc PROVE ~Begin(q, pc)
  BY <1>1 DEF Begin, Ended
<1>4. ASSUME NEW q \in Clients, Refresh(q)
      PROVE  StoreChapters(r) /\ ~keyFails(client[r].list)
  <2>1. ~SaveUpsert(q)
    BY SavePc DEF SaveUpsert, Pc
  <2>2. ~Fetch(q)
    <3>1. CASE Fetch(q)
      <4>1. q # r
        BY <3>1 DEF Fetch
      <4> QED
        BY <1>1, <1>2, <3>1, <4>1 DEF Fetch
    <3> QED
      BY <3>1
  <2>3. ~StartRefresh(q) /\ ~SnapshotChapters(q) /\ ~LookUpNovel(q) /\ ~SaveRead(q)
    BY <1>1, <1>3 DEF StartRefresh, SnapshotChapters, LookUpNovel, SaveRead, ReadRow
  <2>4. StoreChapters(q)
    BY <1>4, <2>1, <2>2, <2>3 DEF Refresh
  <2>5. q = r
    BY <1>2, <2>4 DEF StoreChapters
  <2>6. ~keyFails(client[r].list)
    BY <1>1, <2>4, <2>5 DEF StoreChapters, End, Idle
  <2> QED
    BY <2>4, <2>5, <2>6
<1>5. ASSUME NEW q \in Clients PROVE ~Stub(q)
  <2>1. ~StubUpsert(q)
    BY SavePc DEF StubUpsert, Pc, Ended
  <2>2. ~StubLook(q)
    BY <1>2 DEF StubLook
  <2>3. ~StubRead(q) /\ ~StartStub(q)
    BY <1>1, <1>3 DEF StubRead, ReadRow, StartStub
  <2> QED
    BY <2>1, <2>2, <2>3 DEF Stub
<1>6. ASSUME NEW q \in Clients PROVE ~Toggle(q)
  <2>1. ASSUME NEW add \in BOOLEAN PROVE ~ToggleLibrary(q, add)
    BY TogglePc DEF ToggleLibrary, Ended
  <2>2. ~LookUpHash(q) /\ ~WriteHash(q)
    BY <1>2 DEF LookUpHash, WriteHash
  <2> QED
    BY <2>1, <2>2 DEF Toggle
<1>7. ASSUME NEW q \in Clients PROVE ~Pruning(q)
  BY <1>2, <1>3 DEF Pruning, StartPrune, QueryPrunable, Prune
<1>8. ~DownloadsChange
  <2>1. CASE DownloadsChange
    <3>1. downloaded' \in BOOLEAN
      BY <2>1 DEF DownloadsChange, StoreInv, TypeOK
    <3> QED
      BY <1>1, <2>1, <3>1, OvertakeKeeps DEF DownloadsChange
  <2> QED
    BY <2>1
<1>9. ~DeleteNovel /\ ~Die /\ \A c \in Chapters : ~Mark(c)
  BY DEF DeleteNovel, Die, Idle, Mark, MarkRead, ToggleBookmark
<1> QED
  BY <1>4, <1>5, <1>6, <1>7, <1>8, <1>9 DEF Next

(* A metadata job that reports success has left a row for every chapter    *)
(* the source listed, whoever pruned, deleted or refreshed meanwhile.      *)
THEOREM RefreshesComplete == Spec => RefreshComplete
<1> DEFINE Complete == \A r \in Clients :
             client[r].pc = "chapters" /\ client'[r].pc = "success"
             => \A c \in client[r].list : chapter'[c].id # 0
<1>1. StoreInv /\ Next => Complete
  BY SuccessIsStored, StoredRows
<1>2. StoreInv /\ [Next]_vars => [Complete]_vars
  BY <1>1
<1> QED
  BY <1>2, StoreInvariant, PTL DEF Spec, RefreshComplete

-----------------------------------------------------------------------------
(* What the pruner relies on: unless it has been overtaken, the novel it   *)
(* listed is still neither of the library nor downloaded.                  *)
Spares ==
  \A r \in Clients :
    client[r].pc = "prune" /\ ~client[r].overtaken => ~novel.inLibrary /\ ~downloaded

LEMMA OvertakeMarks ==
  ASSUME NEW cl \in [Clients -> Client], NEW keep \in BOOLEAN, NEW r \in Clients
  PROVE  /\ keep /\ cl[r].pc = "prune" => Overtake(cl, keep)[r].overtaken
         /\ ~keep => Overtake(cl, keep)[r] = cl[r]
         /\ Overtake(cl, keep)[r].pc = cl[r].pc
BY DEF Overtake, Client

(* A step that marks the pruners it overtakes.                             *)
LEMMA OvertakingStep ==
  ASSUME StoreInv, Spares, NEW q \in Clients, NEW v \in Client, v.pc # "prune",
         NEW keep \in BOOLEAN, client' = Overtake([client EXCEPT ![q] = v], keep),
         UNCHANGED downloaded, ~keep => ~novel'.inLibrary
  PROVE  Spares'
<1> DEFINE cl == [client EXCEPT ![q] = v]
<1>1. cl \in [Clients -> Client] /\ cl[q] = v
      /\ \A r \in Clients : r # q => cl[r] = client[r]
  BY DEF StoreInv, TypeOK
<1>2. client' = Overtake(cl, keep)
  OBVIOUS
<1> HIDE DEF cl
<1> SUFFICES ASSUME NEW r \in Clients, client'[r].pc = "prune", ~client'[r].overtaken
             PROVE  ~novel'.inLibrary /\ ~downloaded'
  BY DEF Spares
<1>3. cl[r].pc = "prune" /\ ~keep /\ client'[r] = cl[r]
  BY <1>1, <1>2, OvertakeMarks
<1>4. cl[r] = client[r]
  BY <1>1, <1>3
<1> QED
  BY <1>3, <1>4 DEF Spares

(* A step of one operation that does not begin to prune, nor adds anything *)
(* worth keeping.                                                          *)
LEMMA PlainStep ==
  ASSUME StoreInv, Spares, NEW q \in Clients, NEW v, v.pc # "prune",
         client' = [client EXCEPT ![q] = v],
         UNCHANGED downloaded, novel'.inLibrary => novel.inLibrary
  PROVE  Spares'
<1>1. \A r \in Clients : client'[r].pc = "prune" => client'[r] = client[r]
  BY DEF StoreInv, TypeOK
<1> QED
  BY <1>1 DEF Spares

LEMMA SparesUpsert ==
  ASSUME StoreInv, Spares, NEW q \in Clients, NEW from \in Pc, NEW to \in Pc \ {"prune"},
         UpsertRow(q, from, to)
  PROVE  Spares'
<1> DEFINE row == savedRow(client[q].existing, client[q].seen)
           v   == [client[q] EXCEPT !.pc = to]
<1>1. client[q] \in Client /\ client[q].existing \in NovelRow /\ client[q].seen \in NovelRow
  BY DEF StoreInv, TypeOK, Client
<1>2. row.inLibrary \in BOOLEAN
  BY <1>1, SavedRowType DEF NovelRow
<1>3. v \in Client /\ v.pc # "prune"
  BY <1>1 DEF Client
<1>4. novel' = row /\ client' = Overtake([client EXCEPT ![q] = v], row.inLibrary)
      /\ UNCHANGED downloaded
  BY DEF UpsertRow, upsertNovel
<1> HIDE DEF row, v
<1> QED
  BY <1>2, <1>3, <1>4, OvertakingStep

LEMMA SparesToggle ==
  ASSUME StoreInv, Spares, NEW q \in Clients, NEW add \in BOOLEAN, ToggleLibrary(q, add)
  PROVE  Spares'
<1> DEFINE pc == IF add THEN "hash" ELSE "idle"
           v  == [Idle EXCEPT !.pc = pc]
<1>1. v \in Client /\ v.pc # "prune"
  BY IdleFields DEF Pc, Ended
<1>2. client' = Overtake([client EXCEPT ![q] = v], add) /\ UNCHANGED downloaded
  BY DEF ToggleLibrary
<1>3. ~add => ~novel'.inLibrary
  BY DEF ToggleLibrary, StoreInv, TypeOK, NovelRow, Unkept, NoNovel
<1> HIDE DEF v
<1> QED
  BY <1>1, <1>2, <1>3, OvertakingStep

LEMMA SparesStep == StoreInv /\ Spares /\ [Next]_vars => Spares'
<1> SUFFICES ASSUME StoreInv, Spares, [Next]_vars PROVE Spares'
  OBVIOUS
<1>1. ASSUME NEW q \in Clients, NEW pc \in Pc \ {"prune"},
             End(q, pc) \/ Goto(q, pc),
             UNCHANGED downloaded, novel'.inLibrary => novel.inLibrary
      PROVE  Spares'
  <2>1. CASE End(q, pc)
    BY <1>1, <2>1, PlainStep, IdleFields DEF End
  <2>2. CASE Goto(q, pc)
    <3> DEFINE v == [client[q] EXCEPT !.pc = pc]
    <3>1. v.pc # "prune" /\ client' = [client EXCEPT ![q] = v]
      BY <1>1, <2>2 DEF Goto, StoreInv, TypeOK, Client
    <3> HIDE DEF v
    <3> QED
      BY <1>1, <3>1, PlainStep
  <2> QED
    BY <1>1, <2>1, <2>2
<1>2. ASSUME NEW q \in Clients, NEW pc \in Pc \ {"prune"}, Begin(q, pc)
      PROVE  Spares'
  BY <1>1, <1>2 DEF Begin, End, tables
<1> USE DEF Pc, Ended
<1>3. ASSUME NEW q \in Clients, Refresh(q) PROVE Spares'
  <2>1. CASE StartRefresh(q)
    BY <1>2, <2>1 DEF StartRefresh
  <2>2. CASE Fetch(q) \/ SnapshotChapters(q) \/ LookUpNovel(q) \/ SaveRead(q)
    <3>1. UNCHANGED tables /\ \A r \in Clients : client'[r].pc = "prune" => client'[r] = client[r]
      BY <2>2 DEF Fetch, SnapshotChapters, LookUpNovel, SaveRead, ReadRow, End,
                  Idle, StoreInv, TypeOK, Client
    <3> QED
      BY <3>1 DEF Spares, tables
  <2>3. CASE SaveUpsert(q)
    BY <2>3, SparesUpsert DEF SaveUpsert
  <2>4. CASE StoreChapters(q)
    BY <1>1, <2>4 DEF StoreChapters
  <2> QED
    BY <1>3, <2>1, <2>2, <2>3, <2>4 DEF Refresh
<1>4. ASSUME NEW q \in Clients, Stub(q) PROVE Spares'
  <2>1. CASE StartStub(q)
    BY <1>2, <2>1 DEF StartStub
  <2>2. CASE StubLook(q)
    BY <1>1, <2>2 DEF StubLook, tables
  <2>3. CASE StubRead(q)
    <3>1. UNCHANGED tables /\ \A r \in Clients : client'[r].pc = "prune" => client'[r] = client[r]
      BY <2>3 DEF StubRead, ReadRow, StoreInv, TypeOK, Client
    <3> QED
      BY <3>1 DEF Spares, tables
  <2>4. CASE StubUpsert(q)
    BY <2>4, SparesUpsert DEF StubUpsert
  <2> QED
    BY <1>4, <2>1, <2>2, <2>3, <2>4 DEF Stub
<1>5. ASSUME NEW q \in Clients, Toggle(q) PROVE Spares'
  <2>1. CASE LookUpHash(q)
    BY <1>1, <2>1 DEF LookUpHash, tables
  <2>2. CASE WriteHash(q)
    <3>1. novel'.inLibrary = novel.inLibrary
      BY <2>2 DEF WriteHash, StoreInv, TypeOK, NovelRow
    <3> QED
      BY <1>1, <2>2, <3>1 DEF WriteHash
  <2> QED
    BY <1>5, <2>1, <2>2, SparesToggle DEF Toggle
<1>6. ASSUME NEW q \in Clients, Pruning(q) PROVE Spares'
  <2>1. CASE StartPrune(q)
    BY <1>2, <2>1 DEF StartPrune
  <2>2. CASE QueryPrunable(q) /\ prunable
    <3>1. UNCHANGED tables /\ ~novel.inLibrary /\ ~downloaded
      BY <2>2 DEF QueryPrunable, prunable
    <3> QED
      BY <3>1 DEF Spares, tables
  <2>3. CASE QueryPrunable(q) /\ ~prunable
    BY <1>1, <2>3 DEF QueryPrunable, tables
  <2>4. CASE Prune(q)
    BY <1>1, <2>4 DEF Prune, DropRows, NoNovel
  <2> QED
    BY <1>6, <2>1, <2>2, <2>3, <2>4 DEF Pruning
<1>7. CASE DownloadsChange
  <2>1. downloaded' \in BOOLEAN /\ client \in [Clients -> Client]
    BY <1>7 DEF DownloadsChange, StoreInv, TypeOK
  <2>2. UNCHANGED novel /\ client' = Overtake(client, downloaded')
    BY <1>7 DEF DownloadsChange
  <2> QED
    BY <2>1, <2>2, OvertakeMarks DEF Spares
<1>8. CASE DeleteNovel \/ Die \/ (\E c \in Chapters : Mark(c)) \/ UNCHANGED vars
  BY <1>8 DEF DeleteNovel, DropRows, NoNovel, Die, Idle, Mark, MarkRead,
              ToggleBookmark, Spares, tables, vars
<1> QED
  BY <1>3, <1>4, <1>5, <1>6, <1>7, <1>8 DEF Next

LEMMA SparesInvariant == Spec => []Spares
<1>1. Init => Spares
  BY DEF Init, Spares, Idle
<1> QED
  BY <1>1, SparesStep, StoreInvariant, PTL DEF Spec

(* The pruner deletes a novel of the library, or one with downloads, only  *)
(* if it became one after the pruner's query (NovelPruningWorker).         *)
THEOREM PrunerSpares == Spec => PruneSpares
<1> DEFINE Spared == \A r \in Clients :
             /\ client[r].pc = "prune" /\ client'[r].pc = "idle"
             /\ novel.present /\ ~novel'.present
             /\ novel.inLibrary \/ downloaded
             => client[r].overtaken
<1>1. Spares => [Spared]_vars
  BY DEF Spares
<1> QED
  BY <1>1, SparesInvariant, PTL DEF Spec, PruneSpares
=============================================================================
