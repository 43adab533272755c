---------------------------- MODULE NovelStore ------------------------------
(***************************************************************************)
(* The library: the row of one novel, the rows of its chapters, and the    *)
(* operations that work on them - metadata jobs, the user's screens, the   *)
(* pruner.  Rows of different novels never meet (every statement names one *)
(* url), so one novel is enough.  A statement of a DAO is atomic; an       *)
(* operation made of several is a client that takes one step for each,     *)
(* because nothing here runs in a transaction or under a lock.             *)
(*                                                                         *)
(* Of a novel the model keeps whether the row exists, the library flag and *)
(* whether there is a titleHash; of a chapter its id and the two flags the *)
(* user sets.  Ids of different chapters are never compared, so an id is   *)
(* the number of the insertion that made the row; 0 is no row.             *)
(***************************************************************************)
EXTENDS Integers, FiniteSets

CONSTANTS
  Clients,         (* the operations that may be under way at once         *)
  Chapters,        (* the chapters the source may list, by url             *)
  MaxOperations    (* bound: operations started                            *)

ASSUME MaxOperationsAssumption == MaxOperations \in Nat

VARIABLES
  novel,        (* the row of the table novels                             *)
  chapter,      (* the rows of the table chapters                          *)
  nextId,       (* AUTOINCREMENT of chapters                               *)
  downloaded,   (* the novel has a row in downloads with isCache = 0       *)
  client,       (* of each operation under way: where it is, what it holds *)
  operations,   (* the bound's counter                                     *)
  interrupted   (* history: the app died between the steps of toggleLibrary*)

vars == <<novel, chapter, nextId, downloaded, client, operations, interrupted>>

NovelRow   == [present : BOOLEAN, inLibrary : BOOLEAN, hashed : BOOLEAN]
ChapterRow == [id : Nat, read : BOOLEAN, bookmarked : BOOLEAN]

NoNovel   == [present |-> FALSE, inLibrary |-> FALSE, hashed |-> FALSE]
NoChapter == [id |-> 0, read |-> FALSE, bookmarked |-> FALSE]

Ended == {"idle", "success", "failure"}
Pc == Ended \cup {"fetch", "snapshot", "look", "save", "upsert", "chapters",
                  "stub", "stubSave", "stubUpsert", "hash", "writeHash",
                  "query", "prune"}

(* list: the chapters the source answered; known: existingChapters;        *)
(* seen: existingNovel; existing: what saveNovel read; overtaken: history, *)
(* the novel became worth keeping after the pruner listed it.              *)
Client == [pc : Pc, list : SUBSET Chapters, known : [Chapters -> ChapterRow],
           seen : NovelRow, existing : NovelRow, overtaken : BOOLEAN]

Idle == [pc |-> "idle", list |-> {}, known |-> [c \in Chapters |-> NoChapter],
         seen |-> NoNovel, existing |-> NoNovel, overtaken |-> FALSE]

TypeOK ==
  /\ novel \in NovelRow
  /\ chapter \in [Chapters -> ChapterRow]
  /\ \A c \in Chapters : /\ chapter[c].id < nextId
                         /\ chapter[c].id # 0 => novel.present
  /\ nextId \in Nat /\ operations \in 0..MaxOperations
  /\ downloaded \in BOOLEAN /\ interrupted \in BOOLEAN
  /\ client \in [Clients -> Client]

Init ==
  /\ novel = NoNovel
  /\ chapter = [c \in Chapters |-> NoChapter]
  /\ nextId = 1 /\ operations = 0
  /\ downloaded = FALSE /\ interrupted = FALSE
  /\ client = [r \in Clients |-> Idle]

tables == <<novel, chapter, nextId, downloaded>>
others == <<operations, interrupted>>

End(r, pc) == client' = [client EXCEPT ![r] = [Idle EXCEPT !.pc = pc]]
Goto(r, pc) == client' = [client EXCEPT ![r].pc = pc]

(* A new operation of client r begins at pc.                               *)
Begin(r, pc) ==
  /\ client[r].pc \in Ended /\ operations < MaxOperations
  /\ client' = [client EXCEPT ![r] = [Idle EXCEPT !.pc = pc]]
  /\ operations' = operations + 1
  /\ UNCHANGED <<tables, interrupted>>

-----------------------------------------------------------------------------
(* NovelRepository.saveNovel                                               *)

(* Changed: the caller's library flag wins over the row's.                 *)
savedRowAsGiven(existing, given) ==
  [present |-> TRUE, inLibrary |-> given.inLibrary, hashed |-> given.inLibrary]

(* Changed: the hash is only carried over, never made.                     *)
savedRowUnhashed(existing, given) ==
  LET lib == existing.inLibrary \/ given.inLibrary
  IN  [present |-> TRUE, inLibrary |-> lib,
       hashed |-> lib /\ (existing.hashed \/ given.hashed)]

(* The row saveNovel writes, from the row it read and the novel it got.    *)
savedRow(existing, given) ==
  LET lib == existing.inLibrary \/ given.inLibrary
  IN  [present |-> TRUE, inLibrary |-> lib, hashed |-> lib]

(* A pruner that already listed the novel is overtaken by this row.        *)
Overtake(cl, keep) ==
  [r \in Clients |-> IF cl[r].pc = "prune" /\ keep
                     THEN [cl[r] EXCEPT !.overtaken = TRUE] ELSE cl[r]]

(* Changed: NovelDao.insertNovel, whose REPLACE deletes the row first; the *)
(* foreign key of chapters then deletes them.                              *)
insertNovel(row) ==
  /\ novel' = row
  /\ chapter' = [c \in Chapters |-> NoChapter]

(* NovelDao.upsertNovel updates the row in place: chapters are untouched.  *)
upsertNovel(row) == novel' = row /\ UNCHANGED chapter

ReadRow(r, from, to) ==
  /\ client[r].pc = from
  /\ client' = [client EXCEPT ![r].pc = to, ![r].existing = novel]
  /\ UNCHANGED <<tables, others>>

UpsertRow(r, from, to) ==
  /\ client[r].pc = from
  /\ LET row == savedRow(client[r].existing, client[r].seen)
     IN  /\ upsertNovel(row)
         /\ client' = Overtake([client EXCEPT ![r].pc = to], row.inLibrary)
  /\ UNCHANGED <<nextId, downloaded, others>>

-----------------------------------------------------------------------------
(* NovelMetadataHandler.handle                                             *)

StartRefresh(r) == Begin(r, "fetch")

(* getNovelDetails throws, or answers some list of chapters.               *)
Fetch(r) ==
  /\ client[r].pc = "fetch"
  /\ \/ End(r, "failure")
     \/ \E list \in SUBSET Chapters :
          client' = [client EXCEPT ![r].pc = "snapshot", ![r].list = list]
  /\ UNCHANGED <<tables, others>>

(* getChaptersByNovelUrl; only the rows of listed chapters are used.       *)
SnapshotChapters(r) ==
  /\ client[r].pc = "snapshot"
  /\ client' = [client EXCEPT
       ![r].pc = "look",
       ![r].known = [c \in Chapters |-> IF c \in client[r].list
                                        THEN chapter[c] ELSE NoChapter]]
  /\ UNCHANGED <<tables, others>>

LookUpNovel(r) ==
  /\ client[r].pc = "look"
  /\ client' = [client EXCEPT ![r].pc = "save", ![r].seen = novel]
  /\ UNCHANGED <<tables, others>>

SaveRead(r)   == ReadRow(r, "save", "upsert")
SaveUpsert(r) == UpsertRow(r, "upsert", "chapters")

(* Changed: "read" is not carried over either.                             *)
mergedFresh(known) == [id |-> known.id, read |-> FALSE, bookmarked |-> FALSE]

(* The merged chapter: the source's, with the id and "read" of the known   *)
(* row.  The bookmark is the source's too: none.                           *)
merged(known) ==
  [id |-> known.id, read |-> known.read, bookmarked |-> FALSE]

(* Changed: @Update in place of @Upsert, so new chapters are not stored.   *)
updateChapter(row, new) == IF row.id # 0 /\ row.id = new.id THEN new ELSE row

(* Room's @Upsert: INSERT, and when the id or (novelUrl, url) is taken,    *)
(* UPDATE by id - which finds no row if the id is 0 or another's.          *)
upsertChapter(row, new) ==
  CASE row.id = 0               -> [new EXCEPT !.id = IF new.id = 0 THEN nextId
                                                      ELSE new.id]
    [] row.id # 0 /\ row.id = new.id -> new
    [] OTHER                    -> row

(* The foreign key makes the statement throw when the novel is gone.       *)
keyFails(list) == list # {} /\ ~novel.present

StoreChapters(r) ==
  /\ client[r].pc = "chapters"
  /\ IF keyFails(client[r].list)
     THEN End(r, "failure") /\ UNCHANGED <<chapter, nextId>>
     ELSE /\ chapter' = [c \in Chapters |->
                IF c \in client[r].list
                THEN upsertChapter(chapter[c], merged(client[r].known[c]))
                ELSE chapter[c]]
          /\ nextId' = IF \E c \in client[r].list :
                            chapter[c].id = 0 /\ client[r].known[c].id = 0
                       THEN nextId + 1 ELSE nextId
          /\ End(r, "success")
  /\ UNCHANGED <<novel, downloaded, others>>

(* BrowseViewModel.saveNovelStub: only a novel without a row is saved; its *)
(* metadata job is a StartRefresh.                                         *)
StartStub(r) == Begin(r, "stub")

StubLook(r) ==
  /\ client[r].pc = "stub"
  /\ IF novel.present THEN End(r, "success") ELSE Goto(r, "stubSave")
  /\ UNCHANGED <<tables, others>>

StubRead(r)   == ReadRow(r, "stubSave", "stubUpsert")
StubUpsert(r) == UpsertRow(r, "stubUpsert", "idle")

-----------------------------------------------------------------------------
(* The user                                                                *)

(* toggleLibrary's first statement; adding goes on to the hash.            *)
ToggleLibrary(r, add) ==
  /\ client[r].pc \in Ended /\ operations < MaxOperations
  /\ operations' = operations + 1
  /\ novel' = IF novel.present THEN [novel EXCEPT !.inLibrary = add] ELSE novel
  /\ client' = Overtake([client EXCEPT
                  ![r] = [Idle EXCEPT !.pc = IF add THEN "hash" ELSE "idle"]],
                  add)
  /\ UNCHANGED <<chapter, nextId, downloaded, interrupted>>

LookUpHash(r) ==
  /\ client[r].pc = "hash"
  /\ IF novel.present /\ ~novel.hashed THEN Goto(r, "writeHash")
                                       ELSE End(r, "idle")
  /\ UNCHANGED <<tables, others>>

WriteHash(r) ==
  /\ client[r].pc = "writeHash"
  /\ novel' = IF novel.present THEN [novel EXCEPT !.hashed = TRUE] ELSE novel
  /\ End(r, "idle")
  /\ UNCHANGED <<chapter, nextId, downloaded, others>>

MarkRead(c, read) ==
  /\ chapter[c].id # 0
  /\ chapter' = [chapter EXCEPT ![c].read = read]
  /\ UNCHANGED <<novel, nextId, downloaded, client, others>>

ToggleBookmark(c) ==
  /\ chapter[c].id # 0
  /\ chapter' = [chapter EXCEPT ![c].bookmarked = ~@]
  /\ UNCHANGED <<novel, nextId, downloaded, client, others>>

DropRows ==
  /\ novel' = NoNovel
  /\ chapter' = [c \in Chapters |-> NoChapter]

DeleteNovel ==
  /\ novel.present
  /\ DropRows
  /\ UNCHANGED <<nextId, downloaded, client, others>>

(* A download job saves the novel's first chapter; the user deletes the    *)
(* last one.  DownloadStore has the details.                               *)
DownloadsChange ==
  /\ downloaded' = ~downloaded
  /\ client' = Overtake(client, downloaded')
  /\ UNCHANGED <<novel, chapter, nextId, others>>

-----------------------------------------------------------------------------
(* NovelPruningWorker and SettingsViewModel.pruneNovelsNow                 *)

StartPrune(r) == Begin(r, "query")

(* Changed: without AND url NOT IN (SELECT DISTINCT novelUrl ...).         *)
prunableUnread == novel.present /\ ~novel.inLibrary

prunable == novel.present /\ ~novel.inLibrary /\ ~downloaded

QueryPrunable(r) ==
  /\ client[r].pc = "query"
  /\ IF prunable THEN Goto(r, "prune") ELSE End(r, "idle")
  /\ UNCHANGED <<tables, others>>

Prune(r) ==
  /\ client[r].pc = "prune"
  /\ DropRows
  /\ End(r, "idle")
  /\ UNCHANGED <<nextId, downloaded, others>>

(* The process dies: the tables survive, the operations do not.            *)
Die ==
  /\ \E r \in Clients : client[r].pc \notin Ended
  /\ client' = [r \in Clients |-> Idle]
  /\ interrupted' = (interrupted \/ \E r \in Clients :
                       client[r].pc \in {"hash", "writeHash"})
  /\ UNCHANGED <<tables, operations>>

-----------------------------------------------------------------------------
Refresh(r) == \/ StartRefresh(r) \/ Fetch(r) \/ SnapshotChapters(r)
              \/ LookUpNovel(r) \/ SaveRead(r) \/ SaveUpsert(r)
              \/ StoreChapters(r)
Stub(r) == StartStub(r) \/ StubLook(r) \/ StubRead(r) \/ StubUpsert(r)
Toggle(r) == \/ \E add \in BOOLEAN : ToggleLibrary(r, add)
             \/ LookUpHash(r) \/ WriteHash(r)
Pruning(r) == StartPrune(r) \/ QueryPrunable(r) \/ Prune(r)
Mark(c) == (\E read \in BOOLEAN : MarkRead(c, read)) \/ ToggleBookmark(c)

Next ==
  \/ \E r \in Clients : Refresh(r) \/ Stub(r) \/ Toggle(r) \/ Pruning(r)
  \/ \E c \in Chapters : Mark(c)
  \/ DeleteNovel \/ DownloadsChange \/ Die

Spec == Init /\ [][Next]_vars

-----------------------------------------------------------------------------
(* A novel of the library has the hash by which similar novels are found,  *)
(* unless toggleLibrary has still to write it or died before it could: the *)
(* saves that run between its two statements never lose it.                *)
LibraryHashed ==
  novel.inLibrary => \/ novel.hashed
                     \/ interrupted
                     \/ \E r \in Clients : client[r].pc \in {"hash", "writeHash"}

(* Only the user takes a novel out of the library; a save does so only if  *)
(* the user added the novel after saveNovel had read its row.              *)
LibraryKept ==
  [][novel.inLibrary /\ novel'.present /\ ~novel'.inLibrary =>
       \/ operations' = operations + 1
       \/ \E r \in Clients : /\ client[r].pc \in {"upsert", "stubUpsert"}
                             /\ ~client[r].existing.inLibrary]_vars

(* A chapter the user has read becomes unread only by the user's own mark, *)
(* or when a refresh that read the rows before the mark writes them back.  *)
ReadKept ==
  [][\A c \in Chapters :
       /\ chapter[c].read
       /\ chapter'[c].id = chapter[c].id /\ ~chapter'[c].read
       => \/ client' = client
          \/ \E r \in Clients : /\ client[r].pc = "chapters"
                                /\ ~client[r].known[c].read]_vars

(* NovelMetadataHandler.kt:56 says that the existing chapters are fetched  *)
(* to preserve local state: a bookmark goes only by the user's toggle, or  *)
(* when a refresh that read the rows before it was set writes them back.   *)
BookmarksKept ==
  [][\A c \in Chapters :
       /\ chapter[c].bookmarked
       /\ chapter'[c].id = chapter[c].id /\ ~chapter'[c].bookmarked
       => \/ client' = client
          \/ \E r \in Clients : /\ client[r].pc = "chapters"
                                /\ ~client[r].known[c].bookmarked]_vars

(* Queued download jobs and the reader name chapters by id: a row keeps    *)
(* its id until the novel is deleted, whatever is saved over it.           *)
ChaptersSurvive ==
  [][\A c \in Chapters :
       chapter[c].id # 0 /\ chapter'[c].id # chapter[c].id
       => ~novel'.present]_vars

(* A metadata job that reports success has left a row for every chapter    *)
(* the source listed, even if the novel was pruned or refreshed meanwhile. *)
RefreshComplete ==
  [][\A r \in Clients :
       client[r].pc = "chapters" /\ client'[r].pc = "success"
       => \A c \in client[r].list : chapter'[c].id # 0]_vars

(* The pruner deletes a novel of the library, or one with downloads, only  *)
(* if it became one after the pruner had listed it.                        *)
PruneSpares ==
  [][\A r \in Clients :
       /\ client[r].pc = "prune" /\ client'[r].pc = "idle"
       /\ novel.present /\ ~novel'.present
       /\ novel.inLibrary \/ downloaded
       => client[r].overtaken]_vars
=============================================================================
