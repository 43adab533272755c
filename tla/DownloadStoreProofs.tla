------------------------- MODULE DownloadStoreProofs ------------------------
(***************************************************************************)
(* What is promised of a chapter's download and cache entry, for any       *)
(* number of operations.  Three facts carry the proofs: a client that is   *)
(* about to record a download has seen its file created (ClientOK); the    *)
(* file a reader is about to record is in nobody else's hands (Pairs); and *)
(* the entry a reader drops is expired, or replaced by one with another    *)
(* file (ClientOK, "dropFile").                                            *)
(***************************************************************************)
EXTENDS DownloadStore, TLAPS

ClientOK(v) ==
  /\ v.seen.id < nextId /\ v.seen.file < nextFile /\ v.file < nextFile
  /\ v.pc \in {"promote", "savePromoted"} => cached(v.seen) /\ ~v.seen.expired
  /\ v.pc \in {"saveDownload", "savePromoted"} => target # "none"
  /\ v.pc = "dropFile" =>
       /\ cached(v.seen)
       /\ cached(row) /\ row.file = v.seen.file => row.expired
  /\ v.pc = "saveCache" =>
       /\ v.file \in cacheFiles \/ wiped
       /\ cached(row) => row.file # v.file

ClientsOK == \A c \in Clients : ClientOK(client[c])

Pairs ==
  \A c, d \in Clients :
    client[c].pc = "saveCache" =>
      /\ client[d].pc = "saveCache" /\ d # c => client[d].file # client[c].file
      /\ cached(client[d].seen) => client[d].seen.file # client[c].file

TablesOK ==
  /\ target = "broken" => writeFailed
  /\ row.file < nextFile
  /\ DownloadHasFile
  /\ CachedReadable

DownloadInv == TypeOK /\ ClientsOK /\ Pairs /\ TablesOK

LEMMA IdleType ==
  /\ NoRow \in Row /\ Idle \in Client
  /\ NoRow.id = 0 /\ NoRow.file = 0 /\ ~cached(NoRow) /\ ~kept(NoRow)
  /\ Idle.seen = NoRow /\ Idle.file = 0
BY DEF NoRow, Row, Idle, Client, Pc, Ended, cached, kept

LEMMA EndedRecord ==
  ASSUME NEW pc \in Pc
  PROVE  /\ [Idle EXCEPT !.pc = pc] \in Client
         /\ [Idle EXCEPT !.pc = pc].pc = pc
         /\ [Idle EXCEPT !.pc = pc].seen = NoRow
         /\ [Idle EXCEPT !.pc = pc].file = 0
<1>1. [Idle EXCEPT !.pc = pc] \in Client
  BY IdleType DEF Client
<1> QED
  BY <1>1 DEF Idle

LEMMA GoneRecord ==
  ASSUME TypeOK, NEW c \in Clients, NEW pc \in Pc
  PROVE  /\ [client[c] EXCEPT !.pc = pc] \in Client
         /\ [client[c] EXCEPT !.pc = pc].pc = pc
         /\ [client[c] EXCEPT !.pc = pc].seen = client[c].seen
         /\ [client[c] EXCEPT !.pc = pc].file = client[c].file
BY DEF TypeOK, Client

(* A client that takes over the record v, and does not hold a new file.    *)
Takes(c, v) ==
  /\ client' = [client EXCEPT ![c] = v]
  /\ v \in Client /\ v.pc # "saveCache"
  /\ v.seen \in {client[c].seen, NoRow, row}

LEMMA TakesStep ==
  ASSUME DownloadInv, NEW c \in Clients, NEW v, Takes(c, v)
  PROVE  /\ client' \in [Clients -> Client]
         /\ client'[c] = v
         /\ \A q \in Clients : q # c => client'[q] = client[q]
         /\ Pairs'
<1>1. /\ client' \in [Clients -> Client]
      /\ client'[c] = v
      /\ \A q \in Clients : q # c => client'[q] = client[q]
  BY DEF Takes, DownloadInv, TypeOK
<1>2. ASSUME NEW a \in Clients, NEW d \in Clients, client'[a].pc = "saveCache"
      PROVE  /\ client'[d].pc = "saveCache" /\ d # a => client'[d].file # client'[a].file
             /\ cached(client'[d].seen) => client'[d].seen.file # client'[a].file
  <2>1. a # c /\ client'[a] = client[a]
    BY <1>1, <1>2 DEF Takes
  <2>2. CASE d # c
    BY <1>1, <1>2, <2>1, <2>2 DEF DownloadInv, Pairs
  <2>3. CASE d = c
    <3>1. client'[d] = v /\ v.pc # "saveCache"
      BY <1>1, <2>3 DEF Takes
    <3>2. CASE v.seen = client[c].seen
      BY <1>2, <2>1, <2>3, <3>1, <3>2 DEF DownloadInv, Pairs
    <3>3. CASE v.seen = NoRow
      BY <3>1, <3>3, IdleType
    <3>4. CASE v.seen = row
      BY <1>2, <2>1, <3>1, <3>4 DEF DownloadInv, ClientsOK, ClientOK
    <3> QED
      BY <3>1, <3>2, <3>3, <3>4 DEF Takes
  <2> QED
    BY <2>2, <2>3
<1> QED
  BY <1>1, <1>2 DEF Pairs

(* A step of one client that leaves rows and files alone.                  *)
LEMMA ReadingStep ==
  ASSUME DownloadInv, NEW c \in Clients, NEW v, Takes(c, v), ClientOK(v),
         UNCHANGED <<row, nextId, files, writeFailed, wiped>>,
         operations' \in 0..MaxOperations
  PROVE  DownloadInv'
<1>1. TypeOK'
  BY TakesStep DEF DownloadInv, TypeOK, files
<1>2. ASSUME NEW q \in Clients PROVE ClientOK(client[q])'
  <2>1. ClientOK(client'[q])
    BY TakesStep DEF DownloadInv, ClientsOK
  <2> QED
    BY <2>1 DEF ClientOK, files
<1>3. TablesOK'
  BY DEF DownloadInv, TablesOK, DownloadHasFile, CachedReadable, files
<1> QED
  BY <1>1, <1>2, <1>3, TakesStep DEF DownloadInv, ClientsOK

(* A record without a claim on anything.                                   *)
LEMMA EndTakes ==
  ASSUME DownloadInv, NEW c \in Clients, NEW pc \in Pc, End(c, pc),
         pc \notin {"promote", "savePromoted", "saveDownload", "dropFile", "saveCache"}
  PROVE  \E v : /\ Takes(c, v) /\ v.pc = pc /\ v.seen = NoRow /\ v.file = 0
                /\ ClientOK(v)
<1> DEFINE v == [Idle EXCEPT !.pc = pc]
<1>1. v \in Client /\ v.pc = pc /\ v.seen = NoRow /\ v.file = 0
  BY EndedRecord
<1>2. client' = [client EXCEPT ![c] = v]
  BY DEF End
<1> HIDE DEF v
<1>3. 0 < nextId /\ 0 < nextFile
  BY DEF DownloadInv, TypeOK
<1>4. ClientOK(v)
  BY <1>1, <1>3, IdleType DEF ClientOK
<1>5. Takes(c, v)
  BY <1>1, <1>2 DEF Takes
<1> QED
  BY <1>1, <1>4, <1>5

LEMMA GotoTakes ==
  ASSUME DownloadInv, NEW c \in Clients, NEW pc \in Pc, Goto(c, pc),
         pc # "saveCache"
  PROVE  \E v : /\ Takes(c, v) /\ v.pc = pc /\ v.seen = client[c].seen
                /\ v.file = client[c].file
<1> DEFINE v == [client[c] EXCEPT !.pc = pc]
<1>1. v \in Client /\ v.pc = pc /\ v.seen = client[c].seen /\ v.file = client[c].file
  BY GoneRecord DEF DownloadInv
<1>2. client' = [client EXCEPT ![c] = v]
  BY DEF Goto
<1> HIDE DEF v
<1>4. Takes(c, v)
  BY <1>1, <1>2 DEF Takes
<1> QED
  BY <1>1, <1>4

(* The two lemmas above, with ReadingStep: a step that ends an operation,  *)
(* or takes it to a place where it holds no claim, and does nothing else.  *)
LEMMA EndOrGotoStep ==
  ASSUME DownloadInv, NEW c \in Clients, NEW pc \in Pc,
         End(c, pc) \/ Goto(c, pc),
         pc \notin {"promote", "savePromoted", "saveDownload", "dropFile", "saveCache"},
         UNCHANGED <<row, nextId, files, writeFailed, wiped>>,
         operations' \in 0..MaxOperations
  PROVE  DownloadInv'
<1>1. CASE End(c, pc)
  <2>1. PICK v : Takes(c, v) /\ ClientOK(v)
    BY <1>1, EndTakes
  <2> QED
    BY <2>1, ReadingStep
<1>2. CASE Goto(c, pc)
  <2>1. PICK v : /\ Takes(c, v) /\ v.pc = pc /\ v.seen = client[c].seen
                 /\ v.file = client[c].file
    BY <1>2, GotoTakes
  <2>2. ClientOK(v)
    BY <2>1 DEF ClientOK, DownloadInv, ClientsOK
  <2> QED
    BY <2>1, <2>2, ReadingStep
<1> QED
  BY <1>1, <1>2

LEMMA BeginInv ==
  ASSUME DownloadInv, NEW c \in Clients,
         NEW pc \in {"job", "look", "writeCache", "wipe"}, Begin(c, pc)
  PROVE  DownloadInv'
<1>1. operations' \in 0..MaxOperations
  BY MaxOperationsAssumption DEF Begin, DownloadInv, TypeOK
<1>2. pc \in Pc
  BY DEF Pc
<1> QED
  BY <1>1, <1>2, EndOrGotoStep DEF Begin, files

LEMMA SameOperations ==
  ASSUME DownloadInv, UNCHANGED operations
  PROVE  operations' \in 0..MaxOperations
BY DEF DownloadInv, TypeOK

LEMMA PcFacts ==
  /\ Ended \subseteq Pc
  /\ {"job", "promote", "jobFetch", "create", "saveDownload", "savePromoted",
      "look", "dropFile", "dropRow", "readerFetch", "writeCache", "saveCache",
      "wipe", "dropCached", "idle", "success", "failure"} \subseteq Pc
BY DEF Pc, Ended

(* A client that has just looked at the row.                               *)
LEMMA SeenTakes ==
  ASSUME DownloadInv, NEW c \in Clients, NEW pc \in Pc, pc # "saveCache",
         client' = [client EXCEPT ![c].pc = pc, ![c].seen = row]
  PROVE  \E v : /\ Takes(c, v) /\ v.pc = pc /\ v.seen = row
                /\ v.file = client[c].file
<1> DEFINE v == [[client[c] EXCEPT !.pc = pc] EXCEPT !.seen = row]
<1>1. v \in Client /\ v.pc = pc /\ v.seen = row /\ v.file = client[c].file
  BY DEF DownloadInv, TypeOK, Client
<1>2. client' = [client EXCEPT ![c] = v]
  BY DEF DownloadInv, TypeOK, Client
<1> HIDE DEF v
<1>3. Takes(c, v)
  BY <1>1, <1>2 DEF Takes
<1> QED
  BY <1>1, <1>3

LEMMA LookForDownloadInv ==
  ASSUME DownloadInv, NEW c \in Clients, LookForDownload(c)
  PROVE  DownloadInv'
<1>1. /\ UNCHANGED <<row, nextId, files, writeFailed, wiped>>
      /\ operations' \in 0..MaxOperations
  BY SameOperations DEF LookForDownload, others
<1>2. CASE End(c, "failure") \/ End(c, "success")
  BY <1>1, <1>2, PcFacts, EndOrGotoStep
<1>3. ASSUME ~kept(row), NEW pc, pc = IF cached(row) /\ ~row.expired THEN "promote" ELSE "jobFetch",
             client' = [client EXCEPT ![c].pc = pc, ![c].seen = row]
      PROVE  DownloadInv'
  <2>1. pc \in Pc /\ pc # "saveCache"
    BY <1>3, PcFacts
  <2>2. PICK v : /\ Takes(c, v) /\ v.pc = pc /\ v.seen = row
                 /\ v.file = client[c].file
    BY <1>3, <2>1, SeenTakes
  <2>3. ClientOK(v)
    BY <1>3, <2>2 DEF ClientOK, DownloadInv, ClientsOK, TypeOK, TablesOK
  <2> QED
    BY <1>1, <2>2, <2>3, ReadingStep
<1> QED
  BY <1>2, <1>3 DEF LookForDownload

LEMMA ReaderLookInv ==
  ASSUME DownloadInv, NEW c \in Clients, ReaderLook(c)
  PROVE  DownloadInv'
<1>1. /\ UNCHANGED <<row, nextId, files, writeFailed, wiped>>
      /\ operations' \in 0..MaxOperations
  BY SameOperations DEF ReaderLook, others
<1>2. CASE End(c, "failure") \/ End(c, "success") \/ Goto(c, "readerFetch")
  BY <1>1, <1>2, PcFacts, EndOrGotoStep
<1>3. CASE /\ cached(row) /\ row.expired
           /\ client' = [client EXCEPT ![c].pc = "dropFile", ![c].seen = row]
  <2>2. PICK v : /\ Takes(c, v) /\ v.pc = "dropFile" /\ v.seen = row
                 /\ v.file = client[c].file
    BY <1>3, PcFacts, SeenTakes
  <2>3. ClientOK(v)
    BY <1>3, <2>2 DEF ClientOK, DownloadInv, ClientsOK, TypeOK, TablesOK
  <2> QED
    BY <1>1, <2>2, <2>3, ReadingStep
<1>4. \/ /\ cached(row) /\ row.expired
         /\ client' = [client EXCEPT ![c].pc = "dropFile", ![c].seen = row]
      \/ Goto(c, "readerFetch")
      \/ End(c, IF readable(row) THEN "success" ELSE "failure")
  BY DEF ReaderLook
<1> QED
  BY <1>2, <1>3, <1>4

LEMMA FetchInv ==
  ASSUME DownloadInv, NEW c \in Clients, JobFetch(c) \/ ReaderFetch(c)
  PROVE  DownloadInv'
<1>1. /\ UNCHANGED <<row, nextId, files, writeFailed, wiped>>
      /\ operations' \in 0..MaxOperations
  BY SameOperations DEF JobFetch, ReaderFetch, others
<1>2. \E pc \in {"failure", "success", "create", "writeCache"} : End(c, pc) \/ Goto(c, pc)
  BY DEF JobFetch, ReaderFetch
<1> QED
  BY <1>1, <1>2, PcFacts, EndOrGotoStep

-----------------------------------------------------------------------------
(* A file is created under the download's name.                            *)
LEMMA CreateFileStep ==
  ASSUME DownloadInv, NEW c \in Clients,
         NEW pc \in {"saveDownload", "savePromoted"}, Goto(c, pc),
         pc = "savePromoted" => cached(client[c].seen) /\ ~client[c].seen.expired,
         createFile,
         UNCHANGED <<row, nextId, cacheFiles, nextFile, operations, wiped>>
  PROVE  DownloadInv'
<1>1. PICK v : /\ Takes(c, v) /\ v.pc = pc /\ v.seen = client[c].seen
               /\ v.file = client[c].file
  BY PcFacts, GotoTakes
<1>2. /\ target' \in {"whole", "broken"} /\ writeFailed' \in BOOLEAN
      /\ target # "none" => target' = target
      /\ target' = "broken" => writeFailed'
      /\ writeFailed => writeFailed'
  BY DEF createFile, DownloadInv, TypeOK, TablesOK
<1>3. TypeOK'
  BY <1>1, <1>2, TakesStep DEF DownloadInv, TypeOK
<1>4. ASSUME NEW q \in Clients PROVE ClientOK(client[q])'
  <2>1. CASE q = c
    <3>1. client'[q] = v
      BY <1>1, <2>1, TakesStep
    <3> QED
      BY <1>1, <1>2, <3>1 DEF ClientOK, DownloadInv, ClientsOK
  <2>2. CASE q # c
    <3>1. client'[q] = client[q]
      BY <1>1, <2>2, TakesStep
    <3> QED
      BY <1>2, <3>1 DEF ClientOK, DownloadInv, ClientsOK
  <2> QED
    BY <2>1, <2>2
<1>5. TablesOK'
  BY <1>2 DEF DownloadInv, TablesOK, DownloadHasFile, CachedReadable, TypeOK
<1> QED
  BY <1>1, <1>3, <1>4, <1>5, TakesStep DEF DownloadInv, ClientsOK

LEMMA PromoteInv ==
  ASSUME DownloadInv, NEW c \in Clients, Promote(c)
  PROVE  DownloadInv'
<1>1. /\ operations' \in 0..MaxOperations
      /\ UNCHANGED <<row, nextId, cacheFiles, nextFile, operations, wiped>>
  BY SameOperations DEF Promote
<1>2. CASE (End(c, "failure") \/ Goto(c, "jobFetch")) /\ UNCHANGED <<target, writeFailed>>
  BY <1>1, <1>2, PcFacts, EndOrGotoStep DEF files
<1>3. CASE Goto(c, "savePromoted") /\ createFile
  <2>1. cached(client[c].seen) /\ ~client[c].seen.expired
    BY DEF Promote, At, DownloadInv, ClientsOK, ClientOK
  <2> QED
    BY <1>1, <1>3, <2>1, CreateFileStep
<1> QED
  BY <1>2, <1>3 DEF Promote

LEMMA CreateDownloadInv ==
  ASSUME DownloadInv, NEW c \in Clients, CreateDownload(c)
  PROVE  DownloadInv'
<1>1. /\ operations' \in 0..MaxOperations
      /\ UNCHANGED <<row, nextId, cacheFiles, nextFile, operations, wiped>>
  BY SameOperations DEF CreateDownload
<1>2. CASE End(c, "failure") /\ UNCHANGED <<target, writeFailed>>
  BY <1>1, <1>2, PcFacts, EndOrGotoStep DEF files
<1>3. CASE Goto(c, "saveDownload") /\ createFile
  BY <1>1, <1>3, CreateFileStep
<1> QED
  BY <1>2, <1>3 DEF CreateDownload

-----------------------------------------------------------------------------
(* What saving leaves: the row there was, the saved row over the row of    *)
(* its id, or a row inserted where there was none.                         *)
LEMMA SaveOutcome ==
  ASSUME DownloadInv, NEW new \in Row, new.id < nextId, Save(new)
  PROVE  /\ \/ row' = row
            \/ /\ row'.cache = new.cache /\ row'.file = new.file
               /\ row'.expired = new.expired
               /\ row'.id # 0 /\ row.id \in {0, row'.id}
         /\ row' \in Row /\ row'.id < nextId'
         /\ nextId' \in Nat \ {0} /\ nextId <= nextId'
         /\ row'.id = new.id \/ row'.id = row.id \/ new.id = 0
         /\ row'.id # 0
<1>1. row \in Row /\ nextId \in Nat \ {0} /\ row.id < nextId
  BY DEF DownloadInv, TypeOK
<1>2. CASE row.id = 0 /\ new.id = 0
  <2>1. row' = [new EXCEPT !.id = nextId] /\ nextId' = nextId + 1
    BY <1>2 DEF Save, upsertDownload, present
  <2> QED
    BY <1>1, <1>2, <2>1 DEF Row
<1>3. CASE row.id = 0 /\ new.id # 0
  <2>1. row' = [new EXCEPT !.id = new.id] /\ nextId' = nextId
    BY <1>3 DEF Save, upsertDownload, present
  <2> QED
    BY <1>1, <1>3, <2>1 DEF Row
<1>4. CASE row.id # 0 /\ row.id = new.id
  <2>1. row' = new /\ nextId' = nextId
    BY <1>4 DEF Save, upsertDownload, present
  <2> QED
    BY <1>1, <1>4, <2>1 DEF Row
<1>5. CASE row.id # 0 /\ row.id # new.id
  <2>1. row' = row /\ nextId' = nextId
    BY <1>5 DEF Save, upsertDownload, present
  <2> QED
    BY <1>1, <1>5, <2>1 DEF Row
<1> QED
  BY <1>2, <1>3, <1>4, <1>5

(* A row that is a download in the user's folder, its file written.        *)
LEMMA SaveDownloadStep ==
  ASSUME DownloadInv, NEW c \in Clients, NEW new \in Row, new.id < nextId,
         ~new.cache, new.file = 0, ~new.expired, target # "none",
         Save(new), End(c, "success"), UNCHANGED <<files, others>>
  PROVE  DownloadInv'
<1>1. PICK v : /\ Takes(c, v) /\ v.pc = "success" /\ v.seen = NoRow /\ v.file = 0
               /\ ClientOK(v)
  BY PcFacts, EndTakes
<1>2. /\ row' \in Row /\ row'.id < nextId' /\ nextId' \in Nat \ {0} /\ nextId <= nextId'
      /\ \/ row' = row
         \/ ~row'.cache /\ row'.file = 0 /\ ~row'.expired
  BY SaveOutcome
<1>3. nextId \in Nat
  BY DEF DownloadInv, TypeOK
<1>4. TypeOK'
  BY <1>1, <1>2, TakesStep DEF DownloadInv, TypeOK, files, others, kept
<1>5. ASSUME NEW q \in Clients PROVE ClientOK(client[q])'
  <2>1. client' \in [Clients -> Client] /\ ClientOK(client'[q])
    BY <1>1, TakesStep DEF DownloadInv, ClientsOK
  <2>2. client'[q].seen.id \in Nat
    BY <2>1 DEF Client, Row
  <2> QED
    BY <1>2, <1>3, <2>1, <2>2 DEF ClientOK, files, others, cached
<1>6. TablesOK'
  <2>1. 0 < nextFile /\ TablesOK /\ target \in {"none", "whole", "broken"}
    BY DEF DownloadInv, TypeOK
  <2> QED
    BY <1>2, <2>1 DEF TablesOK, DownloadHasFile, CachedReadable, files, others, cached, kept
<1> QED
  BY <1>1, <1>4, <1>5, <1>6, TakesStep DEF DownloadInv, ClientsOK

LEMMA SavePromotedInv ==
  ASSUME DownloadInv, NEW c \in Clients, SavePromoted(c)
  PROVE  DownloadInv'
<1>1. /\ cached(client[c].seen) /\ ~client[c].seen.expired
      /\ client[c].seen.id < nextId /\ target # "none" /\ client[c].seen \in Row
  BY DEF SavePromoted, At, DownloadInv, ClientsOK, ClientOK, TypeOK, Client
<1> DEFINE new == promoted(client[c].seen)
<1>2. /\ new \in Row /\ new.id < nextId /\ ~new.cache /\ new.file = 0
      /\ ~new.expired
  BY <1>1 DEF promoted, Row
<1>3. Save(new) /\ End(c, "success") /\ UNCHANGED <<files, others>>
  BY DEF SavePromoted
<1> HIDE DEF new
<1> QED
  BY <1>1, <1>2, <1>3, SaveDownloadStep

LEMMA SaveDownloadInv ==
  ASSUME DownloadInv, NEW c \in Clients, SaveDownload(c)
  PROVE  DownloadInv'
<1>1. target # "none" /\ 0 < nextId
  BY DEF SaveDownload, At, DownloadInv, ClientsOK, ClientOK, TypeOK
<1>2. /\ download \in Row /\ download.id < nextId /\ ~download.cache
      /\ download.file = 0 /\ ~download.expired
  BY <1>1 DEF download, Row
<1>3. Save(download) /\ End(c, "success") /\ UNCHANGED <<files, others>>
  BY DEF SaveDownload
<1> QED
  BY <1>1, <1>2, <1>3, SaveDownloadStep

(* The file of the new entry is in no other reader's hands.                *)
LEMMA SaveCacheInv ==
  ASSUME DownloadInv, NEW c \in Clients, SaveCache(c)
  PROVE  DownloadInv'
<1>0. End(c, "success") /\ UNCHANGED <<files, others>>
  BY DEF SaveCache
<1>1. PICK v : /\ Takes(c, v) /\ v.pc = "success" /\ v.seen = NoRow /\ v.file = 0
               /\ ClientOK(v)
  BY <1>0, PcFacts, EndTakes
<1>2. CASE UNCHANGED <<row, nextId>>
  <2>1. operations' \in 0..MaxOperations
    BY <1>0, SameOperations DEF others
  <2> QED
    BY <1>0, <1>1, <1>2, <2>1, ReadingStep DEF others
<1>3. CASE Save(cacheEntry(client[c].file))
  <2> DEFINE f == client[c].file
  <2>1. /\ client[c].pc = "saveCache" /\ f \in Nat /\ f < nextFile
        /\ f \in cacheFiles \/ wiped
    BY DEF SaveCache, At, DownloadInv, ClientsOK, ClientOK, TypeOK, Client
  <2>2. /\ cacheEntry(f) \in Row /\ cacheEntry(f).id < nextId
        /\ cacheEntry(f).cache /\ cacheEntry(f).file = f
        /\ ~cacheEntry(f).expired /\ cacheEntry(f).id = 0
    BY <2>1 DEF cacheEntry, Row, DownloadInv, TypeOK
  <2>3. /\ row' \in Row /\ row'.id < nextId' /\ nextId' \in Nat \ {0} /\ nextId <= nextId'
        /\ \/ row' = row
           \/ row'.cache = TRUE /\ row'.file = f /\ row'.expired = FALSE
    BY <1>3, <2>2, SaveOutcome
  <2> HIDE DEF f
  <2>4. nextId \in Nat
    BY DEF DownloadInv, TypeOK
  <2>5. TypeOK'
    BY <1>0, <1>1, <2>3, TakesStep DEF DownloadInv, TypeOK, files, others, kept
  <2>6. ASSUME NEW q \in Clients PROVE ClientOK(client[q])'
    <3>1. client' \in [Clients -> Client] /\ ClientOK(client'[q])
      BY <1>1, TakesStep DEF DownloadInv, ClientsOK
    <3>2. client'[q].seen.id \in Nat
      BY <3>1 DEF Client, Row
    <3>3. CASE row' = row
      BY <1>0, <2>3, <2>4, <3>1, <3>2, <3>3 DEF ClientOK, files, others
    <3>4. CASE row'.cache = TRUE /\ row'.file = f /\ row'.expired = FALSE
      <4>1. CASE q = c
        <5>1. client'[q] = v
          BY <1>1, <4>1, TakesStep
        <5>2. 0 < nextFile /\ 0 < nextId
          BY DEF DownloadInv, TypeOK
        <5> QED
          BY <1>0, <1>1, <2>3, <2>4, <5>1, <5>2, IdleType DEF ClientOK, files, others
      <4>2. CASE q # c
        <5>1. client'[q] = client[q]
          BY <1>1, <4>2, TakesStep
        <5>2. /\ client[q].pc = "saveCache" => client[q].file # f
              /\ cached(client[q].seen) => client[q].seen.file # f
          BY <2>1, <4>2 DEF DownloadInv, Pairs, f
        <5> QED
          BY <1>0, <2>3, <2>4, <3>1, <3>2, <3>4, <5>1, <5>2 DEF ClientOK, files, others, cached
      <4> QED
        BY <4>1, <4>2
    <3> QED
      BY <2>3, <3>3, <3>4
  <2>7. TablesOK'
    BY <1>0, <2>1, <2>3 DEF DownloadInv, TablesOK, DownloadHasFile, CachedReadable, files, others, cached, kept
  <2> QED
    BY <1>1, <2>5, <2>6, <2>7, TakesStep DEF DownloadInv, ClientsOK
<1> QED
  BY <1>2, <1>3 DEF SaveCache

-----------------------------------------------------------------------------
(* A step that adds nothing: the row stays, expires or goes; cache files   *)
(* go wholesale, or only those that nothing in force points to.            *)
Shrinks ==
  /\ row' \in Row /\ row'.file \in {0, row.file}
  /\ \/ row'.id = 0 /\ ~cached(row') /\ ~kept(row')
     \/ /\ row'.id = row.id /\ row'.cache = row.cache /\ row'.file = row.file
        /\ row.expired => row'.expired
        /\ kept(row) => ~row'.expired
  /\ UNCHANGED <<nextId, target, nextFile, operations, writeFailed>>
  /\ cacheFiles' \subseteq cacheFiles
  /\ wiped' \in BOOLEAN /\ (wiped => wiped')
  /\ \/ wiped'
     \/ \A f \in cacheFiles \ cacheFiles' :
          /\ cached(row) /\ row.file = f => row.expired
          /\ \A c \in Clients : client[c].pc = "saveCache" => client[c].file # f

LEMMA ShrinkTables ==
  ASSUME DownloadInv, Shrinks
  PROVE  /\ TablesOK'
         /\ client' \in [Clients -> Client] => TypeOK'
         /\ \A c \in Clients : client'[c] = client[c] => ClientOK(client[c])'
<1>1. TablesOK'
  BY DEF Shrinks, DownloadInv, TypeOK, TablesOK, DownloadHasFile, CachedReadable, cached, kept, Row
<1>2. ASSUME client' \in [Clients -> Client] PROVE TypeOK'
  BY <1>2 DEF Shrinks, DownloadInv, TypeOK, cached, kept, Row
<1>3. ASSUME NEW c \in Clients, client'[c] = client[c] PROVE ClientOK(client[c])'
  <2>1. ClientOK(client[c])
    BY DEF DownloadInv, ClientsOK
  <2> QED
    BY <1>3, <2>1 DEF Shrinks, ClientOK, cached, kept
<1> QED
  BY <1>1, <1>2, <1>3

LEMMA ShrinkStep ==
  ASSUME DownloadInv, Shrinks, UNCHANGED client
  PROVE  DownloadInv'
<1>1. client' \in [Clients -> Client] /\ Pairs'
  BY DEF DownloadInv, TypeOK, Pairs
<1> QED
  BY <1>1, ShrinkTables DEF DownloadInv, ClientsOK

LEMMA ClientShrinkStep ==
  ASSUME DownloadInv, Shrinks, NEW c \in Clients, NEW v, Takes(c, v), ClientOK(v),
         v.pc \notin {"dropFile", "saveCache"}
  PROVE  DownloadInv'
<1>1. ASSUME NEW q \in Clients PROVE ClientOK(client[q])'
  <2>1. CASE q # c
    BY <2>1, TakesStep, ShrinkTables
  <2>2. CASE q = c
    <3>1. client'[q] = v
      BY <2>2, TakesStep
    <3> QED
      BY <3>1 DEF ClientOK, Shrinks
  <2> QED
    BY <2>1, <2>2
<1> QED
  BY <1>1, TakesStep, ShrinkTables DEF DownloadInv, ClientsOK

LEMMA GotoShrinks ==
  ASSUME DownloadInv, Shrinks, NEW c \in Clients,
         NEW pc \in {"dropRow", "readerFetch", "dropCached", "idle"},
         End(c, pc) \/ Goto(c, pc)
  PROVE  DownloadInv'
<1>1. CASE End(c, pc)
  <2>1. PICK v : Takes(c, v) /\ ClientOK(v) /\ v.pc = pc
    BY <1>1, PcFacts, EndTakes
  <2> QED
    BY <2>1, ClientShrinkStep
<1>2. CASE Goto(c, pc)
  <2>1. PICK v : /\ Takes(c, v) /\ v.pc = pc /\ v.seen = client[c].seen
                 /\ v.file = client[c].file
    BY <1>2, PcFacts, GotoTakes
  <2>2. ClientOK(v)
    BY <2>1 DEF ClientOK, DownloadInv, ClientsOK
  <2> QED
    BY <2>1, <2>2, ClientShrinkStep
<1> QED
  BY <1>1, <1>2

LEMMA DropExpiredFileInv ==
  ASSUME DownloadInv, NEW c \in Clients, DropExpiredFile(c)
  PROVE  DownloadInv'
<1> DEFINE f == client[c].seen.file
<1>1. /\ cacheFiles' = cacheFiles \ {f} /\ Goto(c, "dropRow")
      /\ UNCHANGED <<row, nextId, target, nextFile, others>>
  BY DEF DropExpiredFile
<1>2. /\ cached(client[c].seen)
      /\ cached(row) /\ row.file = f => row.expired
  BY DEF DropExpiredFile, At, DownloadInv, ClientsOK, ClientOK
<1>3. \A q \in Clients : client[q].pc = "saveCache" => client[q].file # f
  BY <1>2 DEF DownloadInv, Pairs
<1> HIDE DEF f
<1>4. row \in Row /\ wiped \in BOOLEAN /\ (kept(row) => ~row.expired)
  BY DEF DownloadInv, TypeOK
<1>5. Shrinks
  BY <1>1, <1>2, <1>3, <1>4 DEF Shrinks, others
<1> QED
  BY <1>1, <1>5, GotoShrinks

LEMMA RowOnlyShrinks ==
  ASSUME DownloadInv, UNCHANGED <<nextId, files, others>>,
         \/ row' = NoRow
         \/ row' = row
         \/ cached(row) /\ row' = [row EXCEPT !.expired = TRUE]
  PROVE  Shrinks
<1>1. row \in Row /\ wiped \in BOOLEAN /\ (kept(row) => ~row.expired)
  BY DEF DownloadInv, TypeOK
<1>2. /\ row' \in Row /\ row'.file \in {0, row.file}
      /\ \/ row'.id = 0 /\ ~cached(row') /\ ~kept(row')
         \/ /\ row'.id = row.id /\ row'.cache = row.cache /\ row'.file = row.file
            /\ row.expired => row'.expired
            /\ kept(row) => ~row'.expired
  BY <1>1, IdleType DEF Row, cached, kept
<1> QED
  BY <1>1, <1>2 DEF Shrinks, files, others

LEMMA DropExpiredRowInv ==
  ASSUME DownloadInv, NEW c \in Clients, DropExpiredRow(c)
  PROVE  DownloadInv'
BY RowOnlyShrinks, GotoShrinks DEF DropExpiredRow

LEMMA DropCachedInv ==
  ASSUME DownloadInv, NEW c \in Clients, DropCached(c)
  PROVE  DownloadInv'
BY RowOnlyShrinks, GotoShrinks DEF DropCached, deleteAllCached

LEMMA DeleteDownloadInv ==
  ASSUME DownloadInv, DeleteDownload
  PROVE  DownloadInv'
BY RowOnlyShrinks, ShrinkStep DEF DeleteDownload

LEMMA ExpireInv ==
  ASSUME DownloadInv, Expire
  PROVE  DownloadInv'
BY RowOnlyShrinks, ShrinkStep DEF Expire

LEMMA WipeShrinks ==
  ASSUME DownloadInv, cacheFiles' = {}, wiped' = TRUE,
         UNCHANGED <<row, nextId, target, nextFile, operations, writeFailed>>
  PROVE  Shrinks
BY DEF Shrinks, DownloadInv, TypeOK

LEMMA WipeInv ==
  ASSUME DownloadInv, NEW c \in Clients, Wipe(c)
  PROVE  DownloadInv'
BY WipeShrinks, GotoShrinks DEF Wipe

LEMMA ReclaimInv ==
  ASSUME DownloadInv, Reclaim
  PROVE  DownloadInv'
BY WipeShrinks, ShrinkStep DEF Reclaim

LEMMA DieInv ==
  ASSUME DownloadInv, Die
  PROVE  DownloadInv'
<1>1. Shrinks
  BY RowOnlyShrinks DEF Die
<1>2. client' \in [Clients -> Client] /\ \A c \in Clients : client'[c] = Idle
  BY IdleType DEF Die
<1>3. Idle.pc = "idle"
  BY DEF Idle
<1>4. Pairs'
  BY <1>2, <1>3 DEF Pairs
<1>5. ASSUME NEW c \in Clients PROVE ClientOK(client[c])'
  <2>1. 0 < nextId /\ 0 < nextFile /\ nextId' = nextId /\ nextFile' = nextFile
    BY <1>1 DEF Shrinks, DownloadInv, TypeOK
  <2> QED
    BY <1>2, <1>3, <2>1, IdleType DEF ClientOK
<1> QED
  BY <1>1, <1>2, <1>4, <1>5, ShrinkTables DEF DownloadInv, ClientsOK

-----------------------------------------------------------------------------
(* The cache file is new: nobody holds it, no row points to it.            *)
LEMMA WriteCacheInv ==
  ASSUME DownloadInv, NEW c \in Clients, WriteCache(c)
  PROVE  DownloadInv'
<1> DEFINE v == [[client[c] EXCEPT !.pc = "saveCache"] EXCEPT !.file = nextFile]
<1>1. /\ cacheFiles' = cacheFiles \cup {nextFile} /\ nextFile' = nextFile + 1
      /\ UNCHANGED <<row, nextId, target, others>>
  BY DEF WriteCache, newCacheFile
<1>2. client \in [Clients -> Client] /\ nextFile \in Nat \ {0} /\ client[c] \in Client
  BY DEF DownloadInv, TypeOK
<1>3. client' = [client EXCEPT ![c] = v]
  BY <1>2 DEF WriteCache, newCacheFile, Client
<1>4. /\ v \in Client /\ v.pc = "saveCache" /\ v.file = nextFile
      /\ v.seen = client[c].seen
  BY <1>2, PcFacts DEF Client
<1> HIDE DEF v
<1>5. /\ client' \in [Clients -> Client] /\ client'[c] = v
      /\ \A q \in Clients : q # c => client'[q] = client[q]
  BY <1>2, <1>3, <1>4
<1>6. \A q \in Clients :
         /\ client[q].seen.file \in Nat /\ client[q].seen.file < nextFile
         /\ client[q].file \in Nat /\ client[q].file < nextFile
  BY <1>2 DEF DownloadInv, ClientsOK, ClientOK, Client, Row
<1>7. row \in Row /\ row.file \in Nat /\ row.file < nextFile
  BY DEF DownloadInv, TypeOK, TablesOK, Row
<1>8. TypeOK'
  BY <1>1, <1>2, <1>5 DEF DownloadInv, TypeOK, others
<1>9. Pairs'
  <2>1. ASSUME NEW a \in Clients, NEW d \in Clients, client'[a].pc = "saveCache"
        PROVE  /\ client'[d].pc = "saveCache" /\ d # a => client'[d].file # client'[a].file
               /\ cached(client'[d].seen) => client'[d].seen.file # client'[a].file
    <3>1. client'[d].seen = client[d].seen
      BY <1>4, <1>5
    <3>2. CASE a = c
      BY <1>2, <1>4, <1>5, <1>6, <3>1, <3>2
    <3>3. CASE a # c
      <4>1. client'[a] = client[a]
        BY <1>5, <3>3
      <4>2. CASE d = c
        BY <1>2, <1>4, <1>5, <1>6, <2>1, <3>1, <4>1, <4>2 DEF DownloadInv, Pairs
      <4>3. CASE d # c
        BY <1>5, <2>1, <4>1, <4>3 DEF DownloadInv, Pairs
      <4> QED
        BY <4>2, <4>3
    <3> QED
      BY <3>2, <3>3
  <2> QED
    BY <2>1 DEF Pairs
<1>10. ASSUME NEW q \in Clients PROVE ClientOK(client[q])'
  <2>1. ClientOK(client[q]) /\ ClientOK(client[c])
    BY DEF DownloadInv, ClientsOK
  <2>2. CASE q = c
    BY <1>1, <1>2, <1>4, <1>5, <1>6, <1>7, <2>1, <2>2 DEF ClientOK, others
  <2>3. CASE q # c
    <3>1. client'[q] = client[q]
      BY <1>5, <2>3
    <3> QED
      BY <1>1, <1>2, <1>6, <2>1, <3>1 DEF ClientOK, others
  <2> QED
    BY <2>2, <2>3
<1>11. TablesOK'
  BY <1>1, <1>2, <1>7 DEF DownloadInv, TablesOK, DownloadHasFile, CachedReadable, others
<1> QED
  BY <1>8, <1>9, <1>10, <1>11 DEF DownloadInv, ClientsOK

-----------------------------------------------------------------------------
LEMMA InitInv ==
  Init => DownloadInv
<1> SUFFICES ASSUME Init PROVE DownloadInv
  OBVIOUS
<1>1. /\ row = NoRow /\ nextId = 1 /\ target = "none" /\ nextFile = 1
      /\ \A c \in Clients : client[c] = Idle
  BY DEF Init
<1>2. TypeOK
  <2>1. client \in [Clients -> Client]
    BY IdleType DEF Init
  <2>2. writeFailed \in BOOLEAN /\ wiped \in BOOLEAN
    BY DEF Init
  <2>3. operations \in 0..MaxOperations
    BY MaxOperationsAssumption DEF Init
  <2> QED
    BY <1>1, <2>1, <2>2, <2>3, IdleType DEF Init, TypeOK
<1>3. Idle.pc = "idle"
  BY DEF Idle
<1>4. ClientsOK /\ Pairs
  BY <1>1, <1>3, IdleType DEF ClientsOK, ClientOK, Pairs
<1>5. TablesOK
  BY <1>1, IdleType DEF TablesOK, DownloadHasFile, CachedReadable
<1> QED
  BY <1>2, <1>4, <1>5 DEF DownloadInv

LEMMA Step ==
  DownloadInv /\ [Next]_vars => DownloadInv'
<1> SUFFICES ASSUME DownloadInv, [Next]_vars PROVE DownloadInv'
  OBVIOUS
<1>1. ASSUME NEW c \in Clients, Job(c) PROVE DownloadInv'
  <2>1. CASE StartJob(c)
    BY <2>1, BeginInv DEF StartJob
  <2> QED
    BY <1>1, <2>1, LookForDownloadInv, PromoteInv, SavePromotedInv, FetchInv,
       CreateDownloadInv, SaveDownloadInv DEF Job
<1>2. ASSUME NEW c \in Clients, Reader(c) PROVE DownloadInv'
  <2>1. CASE StartReader(c) \/ StartExtract(c)
    BY <2>1, BeginInv DEF StartReader, StartExtract
  <2> QED
    BY <1>2, <2>1, ReaderLookInv, DropExpiredFileInv, DropExpiredRowInv, FetchInv,
       WriteCacheInv, SaveCacheInv DEF Reader
<1>3. ASSUME NEW c \in Clients, Clear(c) PROVE DownloadInv'
  <2>1. CASE StartClear(c)
    BY <2>1, BeginInv DEF StartClear
  <2> QED
    BY <1>3, <2>1, WipeInv, DropCachedInv DEF Clear
<1>4. CASE UNCHANGED vars
  BY <1>4 DEF vars, DownloadInv, TypeOK, ClientsOK, ClientOK, Pairs, TablesOK,
              DownloadHasFile, CachedReadable
<1> QED
  BY <1>1, <1>2, <1>3, <1>4, DeleteDownloadInv, ExpireInv, ReclaimInv, DieInv DEF Next

THEOREM DownloadInvariant == Spec => []DownloadInv
BY InitInv, Step, PTL DEF Spec

(* Rows, files and operations keep their types: a download is never        *)
(* expired and always at its fixed name.                                   *)
THEOREM DownloadTyped == Spec => []TypeOK
BY DownloadInvariant, PTL DEF DownloadInv

(* A chapter recorded as downloaded has its file, whole unless the         *)
(* folder's provider failed a write.                                       *)
THEOREM RecordedHasFile == Spec => []DownloadHasFile
BY DownloadInvariant, PTL DEF DownloadInv, TablesOK

(* A cache entry in force points to a file that exists, unless the cache   *)
(* was wiped.                                                              *)
THEOREM EntryReadable == Spec => []CachedReadable
BY DownloadInvariant, PTL DEF DownloadInv, TablesOK

-----------------------------------------------------------------------------
(* Saving puts no cache entry over a download, and a copy over no other    *)
(* row than its own.                                                       *)
LEMMA SaveKeeps ==
  ASSUME NEW new, Save(new), kept(row), new.cache => new.id = 0
  PROVE  kept(row')
BY DEF Save, upsertDownload, present, kept

LEMMA KeptStep ==
  ASSUME DownloadInv, [Next]_vars, kept(row), ~kept(row')
  PROVE  \/ UNCHANGED client
         \/ \E c \in Clients : At(c, "dropRow") /\ client'[c].pc = "readerFetch"
<1>1. ASSUME NEW c \in Clients, Job(c) PROVE FALSE
  <2>1. CASE SavePromoted(c)
    <3>1. ~promoted(client[c].seen).cache
      BY <2>1 DEF SavePromoted, At, DownloadInv, ClientsOK, ClientOK, TypeOK,
                  Client, Row, promoted
    <3> QED
      BY <2>1, <3>1, SaveKeeps DEF SavePromoted
  <2>2. CASE SaveDownload(c)
    <3>1. ~download.cache
      BY DEF download
    <3> QED
      BY <2>2, <3>1, SaveKeeps DEF SaveDownload
  <2> QED
    BY <1>1, <2>1, <2>2 DEF Job, StartJob, Begin, LookForDownload, Promote, JobFetch,
                            CreateDownload
<1>2. ASSUME NEW c \in Clients, Reader(c)
      PROVE  At(c, "dropRow") /\ client'[c].pc = "readerFetch"
  <2>1. CASE DropExpiredRow(c)
    BY <2>1 DEF DropExpiredRow, At, Goto, DownloadInv, TypeOK, Client
  <2>2. CASE SaveCache(c)
    <3>1. cacheEntry(client[c].file).id = 0
      BY DEF cacheEntry
    <3> QED
      BY <2>2, <3>1, SaveKeeps DEF SaveCache
  <2> QED
    BY <1>2, <2>1, <2>2 DEF Reader, StartReader, StartExtract, Begin, ReaderLook,
                            DropExpiredFile, ReaderFetch, WriteCache
<1>3. ASSUME NEW c \in Clients, Clear(c) PROVE FALSE
  BY <1>3 DEF Clear, StartClear, Begin, Wipe, DropCached, deleteAllCached, cached, kept
<1>4. CASE UNCHANGED vars
  BY <1>4 DEF vars
<1>5. CASE Expire
  BY <1>5 DEF Expire, cached, kept
<1> QED
  BY <1>1, <1>2, <1>3, <1>4, <1>5 DEF Next, DeleteDownload, Reclaim, Die

(* A download is unrecorded only by the user, or by a reader that found an *)
(* expired cache entry before the job promoted it.                         *)
THEOREM DownloadStays == Spec => DownloadKept
<1>1. DownloadInv /\ [Next]_vars
      => (kept(row) /\ ~kept(row')
          => \/ UNCHANGED client
             \/ \E c \in Clients : At(c, "dropRow") /\ client'[c].pc = "readerFetch")
  BY KeptStep
<1> QED
  BY <1>1, DownloadInvariant, PTL DEF Spec, DownloadKept

(* One operation's step leaves the others where they are.                  *)
LEMMA OthersStay ==
  ASSUME DownloadInv, NEW c \in Clients, Job(c) \/ Reader(c) \/ Clear(c),
         NEW q \in Clients, q # c
  PROVE  client'[q] = client[q]
<1>1. client \in [Clients -> Client]
  BY DEF DownloadInv, TypeOK
<1>2. CASE Job(c)
  BY <1>1, <1>2 DEF Job, StartJob, Begin, LookForDownload, Promote, SavePromoted,
     JobFetch, CreateDownload, SaveDownload, End, Goto
<1>3. CASE Reader(c)
  BY <1>1, <1>3 DEF Reader, StartReader, StartExtract, Begin, ReaderLook,
     DropExpiredFile, DropExpiredRow, ReaderFetch, WriteCache, SaveCache, End, Goto
<1>4. CASE Clear(c)
  BY <1>1, <1>4 DEF Clear, StartClear, Begin, Wipe, DropCached, End, Goto
<1> QED
  BY <1>2, <1>3, <1>4

LEMMA SuccessStep ==
  ASSUME DownloadInv, [Next]_vars, NEW c \in Clients,
         client[c].pc \in {"job", "saveDownload", "savePromoted"},
         client'[c].pc = "success"
  PROVE  \/ kept(row')
         \/ cached(row) /\ (At(c, "savePromoted") => row.id # client[c].seen.id)
<1>1. client \in [Clients -> Client] /\ client[c] \in Client /\ client[c].seen \in Row
      /\ row \in Row /\ nextId # 0
  BY DEF DownloadInv, TypeOK, Client
<1>2. CASE LookForDownload(c)
  <2>1. CASE End(c, "success") /\ kept(row)
    BY <1>2, <2>1 DEF LookForDownload
  <2>2. CASE End(c, "failure")
    BY <1>1, <2>2 DEF End, Idle
  <2>3. CASE client' = [client EXCEPT
                 ![c].pc = IF cached(row) /\ ~row.expired THEN "promote"
                                                          ELSE "jobFetch",
                 ![c].seen = row]
    BY <1>1, <2>3 DEF Client
  <2> QED
    BY <1>2, <2>1, <2>2, <2>3 DEF LookForDownload
<1>3. CASE SavePromoted(c)
  <2> DEFINE new == promoted(client[c].seen)
  <2>1. /\ new.id = client[c].seen.id /\ ~new.cache /\ new.id # 0 /\ new \in Row
    BY <1>1, <1>3 DEF SavePromoted, At, DownloadInv, ClientsOK, ClientOK, promoted,
                      cached, Row
  <2>2. row' = upsertDownload(row, new)
    BY <1>3 DEF SavePromoted, Save
  <2> HIDE DEF new
  <2>3. CASE row.id = 0
    <3>1. row' = [new EXCEPT !.id = new.id]
      BY <2>1, <2>2, <2>3 DEF upsertDownload, present
    <3> QED
      BY <2>1, <3>1 DEF Row, kept
  <2>4. CASE row.id # 0 /\ row.id = new.id
    BY <2>1, <2>2, <2>4 DEF upsertDownload, present, kept
  <2>5. CASE row.id # 0 /\ row.id # new.id
    BY <2>1, <2>2, <2>5 DEF upsertDownload, present, kept, cached
  <2> QED
    BY <2>3, <2>4, <2>5
<1>4. CASE SaveDownload(c)
  <2>1. /\ download.id = 0 /\ ~download.cache /\ download \in Row
        /\ row' = upsertDownload(row, download)
    BY <1>4 DEF SaveDownload, Save, download, Row
  <2>2. CASE row.id = 0
    <3>1. row' = [download EXCEPT !.id = nextId]
      BY <2>1, <2>2 DEF upsertDownload, present
    <3> QED
      BY <1>1, <2>1, <3>1 DEF Row, kept
  <2>3. CASE row.id # 0
    BY <1>4, <2>1, <2>3 DEF upsertDownload, present, kept, cached, SaveDownload, At
  <2> QED
    BY <2>2, <2>3
<1>5. ASSUME NEW d \in Clients, Job(d) \/ Reader(d) \/ Clear(d)
      PROVE  LookForDownload(c) \/ SavePromoted(c) \/ SaveDownload(c)
  <2>1. d = c
    BY <1>5, OthersStay
  <2>2. Job(c)
    BY <1>5, <2>1 DEF Reader, StartReader, StartExtract, Begin, Ended, ReaderLook,
       DropExpiredFile, DropExpiredRow, ReaderFetch, WriteCache, SaveCache,
       Clear, StartClear, Wipe, DropCached, At
  <2> QED
    BY <2>2 DEF Job, StartJob, Begin, Ended, Promote, JobFetch, CreateDownload, At
<1>6. CASE Die
  BY <1>6 DEF Die, Idle
<1>7. CASE DeleteDownload \/ Expire \/ Reclaim \/ UNCHANGED vars
  BY <1>7 DEF DeleteDownload, Expire, Reclaim, vars
<1> QED
  BY <1>2, <1>3, <1>4, <1>5, <1>6, <1>7 DEF Next

(* A job that reports success leaves the chapter recorded as downloaded,   *)
(* except over a cache entry that it did not promote.                      *)
THEOREM SuccessIsRecorded == Spec => SuccessRecordedUnlessCached
<1>1. DownloadInv /\ [Next]_vars
      => (\A c \in Clients :
            client[c].pc \in {"job", "saveDownload", "savePromoted"}
            /\ client'[c].pc = "success"
            => \/ kept(row')
               \/ cached(row) /\ (At(c, "savePromoted") => row.id # client[c].seen.id))
  BY SuccessStep
<1> QED
  BY <1>1, DownloadInvariant, PTL DEF Spec, SuccessRecordedUnlessCached
=============================================================================
