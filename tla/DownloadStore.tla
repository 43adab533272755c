---------------------------- MODULE DownloadStore ---------------------------
(***************************************************************************)
(* The row of one chapter in the table downloads, the files it may point   *)
(* to, and everything that reads or writes them: download jobs, the        *)
(* reader's cache, the cache-clearing worker, the user, Android.  (Rows of *)
(* different chapters are never compared, and files carry the chapter's    *)
(* id in their names, so one chapter is enough.)  A row is either a        *)
(* download, in the user's folder under a fixed name, or a cache entry,    *)
(* in the app's cache folder under a name with the time in it.             *)
(***************************************************************************)
EXTENDS Integers, FiniteSets

CONSTANTS
  Clients,         (* the operations that may be under way at once         *)
  MaxOperations    (* bound: operations started                            *)

ASSUME MaxOperationsAssumption == MaxOperations \in Nat

VARIABLES
  row,          (* the row of downloads                                    *)
  nextId,       (* AUTOINCREMENT of downloads                              *)
  target,       (* the file under the download's name                      *)
  cacheFiles,   (* the files of chapter_cache                              *)
  nextFile,     (* the clock that names cache files                        *)
  client,       (* of each operation under way: where it is, what it holds *)
  operations,   (* the bound's counter                                     *)
  writeFailed,  (* history: the folder's provider failed a write           *)
  wiped         (* history: cache files were deleted wholesale             *)

vars == <<row, nextId, target, cacheFiles, nextFile, client, operations,
          writeFailed, wiped>>

(* file is fileLocation: the number of a cache file, 0 for the download's  *)
(* name.                                                                   *)
Row == [id : Nat, cache : BOOLEAN, file : Nat, expired : BOOLEAN]
NoRow == [id |-> 0, cache |-> FALSE, file |-> 0, expired |-> FALSE]

present(r) == r.id # 0
kept(r)    == r.id # 0 /\ ~r.cache
cached(r)  == r.id # 0 /\ r.cache

Ended == {"idle", "success", "failure"}
Pc == Ended \cup {"job", "promote", "jobFetch", "create", "saveDownload",
                  "savePromoted", "look", "dropFile", "dropRow", "readerFetch",
                  "writeCache", "saveCache", "wipe", "dropCached"}

(* seen: the row getDownload returned; file: the cache file written.       *)
Client == [pc : Pc, seen : Row, file : Nat]
Idle == [pc |-> "idle", seen |-> NoRow, file |-> 0]

TypeOK ==
  /\ row \in Row /\ nextId \in Nat \ {0} /\ row.id < nextId
  /\ kept(row) => row.file = 0 /\ ~row.expired
  /\ target \in {"none", "whole", "broken"}
  /\ cacheFiles \subseteq Nat /\ nextFile \in Nat \ {0}
  /\ client \in [Clients -> Client]
  /\ operations \in 0..MaxOperations
  /\ writeFailed \in BOOLEAN /\ wiped \in BOOLEAN

Init ==
  /\ row = NoRow /\ nextId = 1
  /\ target = "none" /\ cacheFiles = {} /\ nextFile = 1
  /\ client = [c \in Clients |-> Idle]
  /\ operations = 0 /\ writeFailed = FALSE /\ wiped = FALSE

files == <<target, cacheFiles, nextFile>>
others == <<operations, writeFailed, wiped>>

End(c, pc)  == client' = [client EXCEPT ![c] = [Idle EXCEPT !.pc = pc]]
Goto(c, pc) == client' = [client EXCEPT ![c].pc = pc]
At(c, pc)   == client[c].pc = pc

Begin(c, pc) ==
  /\ client[c].pc \in Ended /\ operations < MaxOperations
  /\ End(c, pc)
  /\ operations' = operations + 1
  /\ UNCHANGED <<row, nextId, files, writeFailed, wiped>>

(* Changed: the update goes by (novelUrl, chapterUrl).                     *)
upsertByKey(old, new) ==
  IF ~present(old) THEN [new EXCEPT !.id = IF new.id = 0 THEN nextId ELSE new.id]
                   ELSE [new EXCEPT !.id = old.id]

-----------------------------------------------------------------------------
(* DownloadDao.upsertDownload: INSERT; when the id or (novelUrl,           *)
(* chapterUrl) is taken, UPDATE by id, which finds no row if the id is 0   *)
(* or another's.                                                           *)
upsertDownload(old, new) ==
  IF ~present(old) THEN [new EXCEPT !.id = IF new.id = 0 THEN nextId ELSE new.id]
                   ELSE IF old.id = new.id THEN new ELSE old

Save(new) ==
  /\ row' = upsertDownload(row, new)
  /\ nextId' = IF ~present(row) /\ new.id = 0 THEN nextId + 1 ELSE nextId

(* Changed: the copy loses the id of the row it is made from.              *)
promotedAnew(seen) == [id |-> 0, cache |-> FALSE, file |-> 0, expired |-> FALSE]

(* The rows that are saved: a copy of the cache entry, a new download, a   *)
(* new cache entry.                                                        *)
promoted(seen) == [seen EXCEPT !.cache = FALSE, !.file = 0]
download       == [id |-> 0, cache |-> FALSE, file |-> 0, expired |-> FALSE]
cacheEntry(f) == [id |-> 0, cache |-> TRUE, file |-> f, expired |-> FALSE]

-----------------------------------------------------------------------------
(* ChapterHandler.handle                                                   *)

StartJob(c) == Begin(c, "job")

(* The chapter's row is gone, or no extension serves it: failure.  A       *)
(* download: success.  A cache entry that has not expired: promoted if its *)
(* file can be read.  Anything else is fetched.                            *)
LookForDownload(c) ==
  /\ At(c, "job")
  /\ \/ End(c, "failure")
     \/ kept(row) /\ End(c, "success")
     \/ /\ ~kept(row)
        /\ client' = [client EXCEPT
             ![c].pc = IF cached(row) /\ ~row.expired THEN "promote"
                                                      ELSE "jobFetch",
             ![c].seen = row]
  /\ UNCHANGED <<row, nextId, files, others>>

(* Changed: the file is not written before the row.                        *)
createNoFile == UNCHANGED <<target, writeFailed>>

(* createDocument makes a file of that name, or "name (1)" beside one that *)
(* exists; createFile does not look at what write answered.                *)
createFile ==
  \/ target' = (IF target = "none" THEN "whole" ELSE target) /\ UNCHANGED writeFailed
  \/ target' = (IF target = "none" THEN "broken" ELSE target) /\ writeFailed' = TRUE

(* StorageRepository.read of the cache file, then createFile.  A text too  *)
(* short to be a chapter (an extracted page may be) is fetched anew.       *)
Promote(c) ==
  /\ At(c, "promote")
  /\ \/ Goto(c, "jobFetch") /\ UNCHANGED <<target, writeFailed>>
     \/ /\ client[c].seen.file \in cacheFiles
        /\ \/ End(c, "failure") /\ UNCHANGED <<target, writeFailed>>
           \/ Goto(c, "savePromoted") /\ createFile
  /\ UNCHANGED <<row, nextId, cacheFiles, nextFile, operations, wiped>>

SavePromoted(c) ==
  /\ At(c, "savePromoted")
  /\ Save(promoted(client[c].seen))
  /\ End(c, "success")
  /\ UNCHANGED <<files, others>>

(* Crawler.getChapterContent: an exception, a challenge, or the chapter.   *)
JobFetch(c) ==
  /\ At(c, "jobFetch")
  /\ End(c, "failure") \/ Goto(c, "create")
  /\ UNCHANGED <<row, nextId, files, others>>

CreateDownload(c) ==
  /\ At(c, "create")
  /\ \/ End(c, "failure") /\ UNCHANGED <<target, writeFailed>>
     \/ Goto(c, "saveDownload") /\ createFile
  /\ UNCHANGED <<row, nextId, cacheFiles, nextFile, operations, wiped>>

SaveDownload(c) ==
  /\ At(c, "saveDownload")
  /\ Save(download)
  /\ End(c, "success")
  /\ UNCHANGED <<files, others>>

-----------------------------------------------------------------------------
(* ReaderRepository                                                        *)

StartReader(c) == Begin(c, "look")

(* readDownloaded: null, and so a fetch, only if the download's file is    *)
(* gone; a cache file that is gone, or a broken file, is an exception.     *)
readable(r) == IF r.cache THEN r.file \in cacheFiles ELSE target = "whole"

(* getChapterContent                                                       *)
ReaderLook(c) ==
  /\ At(c, "look")
  /\ CASE cached(row) /\ row.expired ->
            client' = [client EXCEPT ![c].pc = "dropFile", ![c].seen = row]
       [] ~present(row) \/ (kept(row) /\ target = "none") -> Goto(c, "readerFetch")
       [] OTHER -> End(c, IF readable(row) THEN "success" ELSE "failure")
  /\ UNCHANGED <<row, nextId, files, others>>

DropExpiredFile(c) ==
  /\ At(c, "dropFile")
  /\ cacheFiles' = cacheFiles \ {client[c].seen.file}
  /\ Goto(c, "dropRow")
  /\ UNCHANGED <<row, nextId, target, nextFile, others>>

(* deleteDownload names the chapter, not the row that was found expired.   *)
DropExpiredRow(c) ==
  /\ At(c, "dropRow")
  /\ row' = NoRow
  /\ Goto(c, "readerFetch")
  /\ UNCHANGED <<nextId, files, others>>

(* fetchAndCache: no chapter, one too short to cache, or one to cache.     *)
ReaderFetch(c) ==
  /\ At(c, "readerFetch")
  /\ End(c, "failure") \/ End(c, "success") \/ Goto(c, "writeCache")
  /\ UNCHANGED <<row, nextId, files, others>>

(* saveExtractedChapter: the page the user extracted, cached the same way. *)
StartExtract(c) == Begin(c, "writeCache")

(* Changed: the name is made of the novel and the chapter only.            *)
sameCacheFile == 1

(* The time makes the name of the cache file a new one.                    *)
newCacheFile == nextFile

WriteCache(c) ==
  /\ At(c, "writeCache")
  /\ cacheFiles' = cacheFiles \cup {newCacheFile}
  /\ nextFile' = nextFile + 1
  /\ client' = [client EXCEPT ![c].pc = "saveCache", ![c].file = newCacheFile]
  /\ UNCHANGED <<row, nextId, target, others>>

(* An exception here is ignored by fetchAndCache: the text is shown.       *)
SaveCache(c) ==
  /\ At(c, "saveCache")
  /\ Save(cacheEntry(client[c].file)) \/ UNCHANGED <<row, nextId>>
  /\ End(c, "success")
  /\ UNCHANGED <<files, others>>

-----------------------------------------------------------------------------
(* CacheClearWorker and SettingsViewModel.clearCacheNow                    *)

StartClear(c) == Begin(c, "wipe")

(* The files of the listed rows lie in chapter_cache, which is emptied.    *)
Wipe(c) ==
  /\ At(c, "wipe")
  /\ cacheFiles' = {} /\ wiped' = TRUE
  /\ Goto(c, "dropCached")
  /\ UNCHANGED <<row, nextId, target, nextFile, operations, writeFailed>>

(* Changed: without WHERE isCache = 1.                                     *)
deleteAll(r) == NoRow

(* deleteAllCachedDownloads: the rows that are cache entries by now.       *)
deleteAllCached(r) == IF cached(r) THEN NoRow ELSE r

DropCached(c) ==
  /\ At(c, "dropCached")
  /\ row' = deleteAllCached(row)
  /\ End(c, "idle")
  /\ UNCHANGED <<nextId, files, others>>

-----------------------------------------------------------------------------
(* NovelViewModel.deleteChapter, deleteSelectedChapters, replayChapter:    *)
(* the row goes, the file stays.                                           *)
DeleteDownload ==
  /\ row' = NoRow
  /\ UNCHANGED <<nextId, files, client, others>>

(* expirationTime passes.                                                  *)
Expire ==
  /\ cached(row) /\ ~row.expired
  /\ row' = [row EXCEPT !.expired = TRUE]
  /\ UNCHANGED <<nextId, files, client, others>>

(* Android reclaims the cache folder.                                      *)
Reclaim ==
  /\ cacheFiles # {}
  /\ cacheFiles' = {} /\ wiped' = TRUE
  /\ UNCHANGED <<row, nextId, target, nextFile, client, operations, writeFailed>>

(* The process dies: rows and files survive, the operations do not.        *)
Die ==
  /\ \E c \in Clients : client[c].pc \notin Ended
  /\ client' = [c \in Clients |-> Idle]
  /\ UNCHANGED <<row, nextId, files, others>>

-----------------------------------------------------------------------------
Job(c) == \/ StartJob(c) \/ LookForDownload(c) \/ Promote(c) \/ SavePromoted(c)
          \/ JobFetch(c) \/ CreateDownload(c) \/ SaveDownload(c)
Reader(c) == \/ StartReader(c) \/ ReaderLook(c) \/ DropExpiredFile(c)
             \/ DropExpiredRow(c) \/ ReaderFetch(c) \/ StartExtract(c)
             \/ WriteCache(c) \/ SaveCache(c)
Clear(c) == StartClear(c) \/ Wipe(c) \/ DropCached(c)

Next == \/ \E c \in Clients : Job(c) \/ Reader(c) \/ Clear(c)
        \/ DeleteDownload \/ Expire \/ Reclaim \/ Die

Spec == Init /\ [][Next]_vars

-----------------------------------------------------------------------------
(* A chapter recorded as downloaded has its file, and the file is whole    *)
(* unless the folder's provider failed a write (createFile ignores that).  *)
DownloadHasFile ==
  kept(row) => target # "none" /\ (target = "whole" \/ writeFailed)

(* A cache entry in force points to a file that exists, unless the cache   *)
(* was wiped behind its back: a reader that drops the file of an expired   *)
(* entry never drops the one another reader has just written.              *)
CachedReadable ==
  cached(row) /\ ~row.expired => row.file \in cacheFiles \/ wiped

(* A download is unrecorded only by the user, or by a reader that found an *)
(* expired cache entry before the job promoted it: readers that cache what *)
(* they fetched and the clearing of the cache leave it alone.              *)
DownloadKept ==
  [][kept(row) /\ ~kept(row')
     => \/ UNCHANGED client
        \/ \E c \in Clients : At(c, "dropRow") /\ client'[c].pc = "readerFetch"]_vars

(* A job that reports success leaves the chapter recorded as downloaded,   *)
(* except where the chapter has a cache entry that the job did not promote.*)
SuccessRecordedUnlessCached ==
  [][\A c \in Clients :
       client[c].pc \in {"job", "saveDownload", "savePromoted"}
       /\ client'[c].pc = "success"
       => \/ kept(row')
          \/ cached(row) /\ (At(c, "savePromoted") => row.id # client[c].seen.id)]_vars
=============================================================================
