------------------------ MODULE StorageServiceProofs ------------------------
(***************************************************************************)
(* Proofs about StorageService, for any set of names and any bounds.       *)
(*                                                                         *)
(* The inductive invariant has three parts.  HandlerInv says what the      *)
(* locals of the running handler and the file at its path are at each      *)
(* label, and that memory matches the disk.  ResidueOK says which          *)
(* temporary files and which files exist while nothing has been lost.      *)
(* DurableInv relates every content a directory may come back with after a *)
(* loss of power to every content of the metadata file.                    *)
(***************************************************************************)
EXTENDS StorageService, TLAPS

PersistPcs == {"persist", "persist_write", "persist_rename", "persist_undo",
               "sync_meta", "swap"}
StoragePcs == {"persist_write", "persist_rename", "persist_undo"}
LinkedPcs == {"unlink", "unlink_final", "sync", "stat", "undo_stat", "undo"}
               \cup PersistPcs
UploadPcs == {"temp", "write", "guard", "link", "sync_undo"} \cup LinkedPcs
DeletePcs == {"temp", "clear", "move", "restore", "purge", "guard"} \cup PersistPcs
FreePcs == {"idle", "temp", "clear", "move", "sync", "stat", "undo_stat", "undo",
            "sync_undo"}

Uploading == req # None /\ req.kind = "upload"
Deleting == req # None /\ req.kind = "delete"

\* Which handler runs, and what it holds.
ShapeOK ==
  /\ server # "up" => pc = "idle"
  /\ pc \in FreePcs => held = None
  /\ Uploading => pc \in UploadPcs /\ req.id = uploads
  /\ Uploading /\ pc \in PersistPcs => held = None
  /\ Deleting => pc \in DeletePcs
  /\ req # None /\ req.kind = "download" => pc \in {"temp", "write", "guard"}
  /\ held # None => req # None /\ held = Mine(held.id)
  /\ Deleting /\ held # None => held.id \in Ids
  /\ pc \in {"write", "link", "unlink", "unlink_final", "guard"} => held # None

\* What the running server takes for the metadata between two commits.
View == IF blind THEN EmptyTable ELSE snapshot

\* What the handler knows of the tables.
TableOK ==
  /\ MemoryMatchesDisk
  /\ blind => server = "up" /\ ~Deleting /\ pc \notin {"sync_meta", "swap"}
  /\ pc \in {"sync_meta", "swap"} => snapshot = next
  /\ Uploading => table[req.name] = None
  /\ Deleting /\ pc \notin {"purge", "guard"} =>
       table[req.name] # None /\ table[req.name].type = req.type
  /\ Deleting /\ pc \in {"purge", "guard"} => table[req.name] = None
  /\ pc \in PersistPcs =>
       next = [table EXCEPT ![req.name] =
                 IF req.kind = "upload" THEN [type |-> req.type, id |-> req.id]
                 ELSE None]

\* The file at the path of the request.
FinalOK ==
  /\ Uploading /\ pc \in LinkedPcs => Final = req.id
  /\ Deleting /\ pc \in {"temp", "clear", "move"} => Final # None
  /\ Deleting /\ pc \in {"restore", "purge", "guard"} \cup PersistPcs => Final = None

\* What a directory may come back with has the type of what it holds.
VersionsOK ==
  /\ \A m \in versions["meta"] : m.files \in Tables
  /\ \A t \in Types : \A v \in versions[t] :
       /\ v.files \in [Names -> Ids \cup {None}]
       /\ v.trash \subseteq {x \in Temps : x.kind = "delete" /\ x.dir = t}

HandlerInv == TypeOK /\ VersionsOK /\ ShapeOK /\ TableOK /\ FinalOK

-----------------------------------------------------------------------------
\* The path of the running request is neither what the metadata says nor yet
\* given up.
Busy(t, n) ==
  /\ req # None /\ t = req.type /\ n = req.name
  /\ \/ req.kind = "upload" /\ pc \in LinkedPcs
     \/ req.kind = "delete" /\ pc \in {"restore"} \cup PersistPcs

ByEntry(t, n) ==
  IF snapshot[n] # None /\ snapshot[n].type = t THEN snapshot[n].id ELSE None

Residue ==
  (IF held = None THEN {} ELSE {held})
    \cup (IF pc \in StoragePcs THEN {Storage} ELSE {})
    \cup (IF pc = "clear" THEN {Mine(0)} ELSE {})

\* The temporary files are those of the running handler.
TempsMatch ==
  /\ pc = "move" => temps \subseteq {Mine(0)}
  /\ pc # "move" => temps = Residue

\* The files are those of the entries.
FilesMatch ==
  \A t \in Types, n \in Names : ~Busy(t, n) => files[t][n] = ByEntry(t, n)

\* A Delete has found its file.
TrashMatch ==
  Deleting /\ pc \in {"restore"} \cup PersistPcs =>
    held # None /\ held.id = table[req.name].id

Clean == TempsMatch /\ FilesMatch /\ TrashMatch

\* The metadata lists no file where an upload has linked its own, even if the
\* server has not read it.
PathFree ==
  Uploading /\ pc \in LinkedPcs \ {"sync_meta", "swap"} =>
    ByEntry(req.type, req.name) = None

ResidueOK == crashes = 0 /\ ~littered => Clean /\ PathFree

-----------------------------------------------------------------------------
\* The bytes of upload i, of name n, are in the content v of directory t.
Has(v, t, n, i) == v.files[n] = i \/ Temp("delete", t, i) \in v.trash

\* An upload has one name.
Owned(own) ==
  /\ \A t \in Types : \A v \in versions[t], n \in Names : v.files[n] # None =>
       v.files[n] <= uploads /\ own[v.files[n]] = n
  /\ \A m \in versions["meta"], n \in Names : m.files[n] # None =>
       m.files[n].id <= uploads /\ own[m.files[n].id] = n
  /\ Uploading => own[req.id] = req.name
  /\ Deleting /\ held # None => held.id <= uploads /\ own[held.id] = req.name

OwnedOK == \E own \in [Ids -> Names \cup {None}] : Owned(own)

\* The entry of an upload is in no snapshot before the rename.
FreshOK ==
  Uploading /\ pc \notin {"sync_meta", "swap"} =>
    \A m \in versions["meta"], n \in Names : m.files[n] # None => m.files[n].id # req.id

\* The directory of an upload is synced before its entry is written, and the
\* metadata file before its trash is removed.
SyncedOK ==
  trust = "synced" =>
    /\ Uploading /\ pc \in {"stat"} \cup PersistPcs =>
         \A v \in versions[req.type] : v.files[req.name] = req.id
    /\ pc \in {"swap", "purge"} \/ (Deleting /\ pc = "guard") =>
         \A m \in versions["meta"] : m.files = snapshot

\* Whatever a loss of power leaves of the metadata and of the storage
\* directories, the bytes of every entry exist.
CrossOK ==
  trust = "synced" =>
    \A m \in versions["meta"], n \in Names : m.files[n] # None =>
      \A v \in versions[m.files[n].type] :
        Has(v, m.files[n].type, n, m.files[n].id)

\* What is owed is in all of it.
OwedOK ==
  trust = "synced" =>
    \A n \in Names : owed[n] # None =>
      /\ \A m \in versions["meta"] : m.files[n] = owed[n]
      /\ <<owed[n].type, n>> \notin moved =>
           \A v \in versions[owed[n].type] : v.files[n] = owed[n].id

\* The trash of a Delete is what is owed.
TrashOK ==
  trust # "lost" /\ Deleting /\ held # None /\ owed[req.name] # None =>
    held.id = owed[req.name].id

DurableInv ==
  /\ OwnedOK /\ FreshOK /\ SyncedOK /\ CrossOK /\ OwedOK /\ TrashOK
  /\ BytesOfEntriesExist /\ DurableUploads

IndInv == HandlerInv /\ ResidueOK /\ DurableInv

-----------------------------------------------------------------------------
(* The parts of TypeOK.                                                    *)

DiskTyped ==
  /\ files \in [Types -> [Names -> Ids \cup {None}]]
  /\ temps \subseteq Temps
  /\ snapshot \in Tables

LocalsTyped ==
  /\ table \in Tables /\ next \in Tables
  /\ server \in {"up", "down", "failed"}
  /\ pc \in Labels /\ req \in Requests \cup {None}
  /\ (pc = "idle") <=> (req = None)
  /\ held \in Temps \cup {None}

CountsTyped ==
  /\ uploads \in 0 .. MaxUploads /\ faults \in 0 .. MaxFaults
  /\ crashes \in 0 .. MaxCrashes

HistoryTyped ==
  /\ littered \in BOOLEAN /\ blind \in BOOLEAN
  /\ owed \in Tables
  /\ moved \subseteq Types \X Names
  /\ trust \in {"synced", "failed", "lost"}

VersionsTyped ==
  /\ DOMAIN versions = Dirs /\ \A d \in Dirs : Content(d) \in versions[d]
  /\ VersionsOK

\* TypeOK and VersionsOK are these parts.
LEMMA TypeParts ==
  TypeOK /\ VersionsOK <=>
    DiskTyped /\ LocalsTyped /\ CountsTyped /\ HistoryTyped /\ VersionsTyped
  BY Zenon DEF TypeOK, DiskTyped, LocalsTyped, CountsTyped, HistoryTyped, VersionsTyped

\* What a directory holds.
LEMMA ContentOf ==
  /\ Content("meta").files = snapshot
  /\ \A t \in Types : /\ Content(t).files = files[t]
                      /\ Content(t).trash = {x \in temps : x.kind = "delete" /\ x.dir = t}
  BY DEF Content, Types

\* The contents remembered have their type.
LEMMA RememberTyped ==
  ASSUME VersionsTyped, DiskTyped', Remember
  PROVE  VersionsTyped'
<1>1. /\ DOMAIN versions' = Dirs
      /\ \A d \in Dirs : versions'[d] = versions[d] \cup {Content(d)'}
  BY DEF Remember
<1>2. /\ Content("meta")'.files = snapshot'
      /\ \A t \in Types : /\ Content(t)'.files = files'[t]
                          /\ Content(t)'.trash = {x \in temps' : x.kind = "delete" /\ x.dir = t}
  BY DEF Content, Types
<1>3. \A m \in versions'["meta"] : m.files \in Tables
  BY <1>1, <1>2 DEF VersionsTyped, VersionsOK, DiskTyped, Dirs
<1>4. ASSUME NEW t \in Types, NEW v \in versions'[t]
      PROVE  /\ v.files \in [Names -> Ids \cup {None}]
             /\ v.trash \subseteq {x \in Temps : x.kind = "delete" /\ x.dir = t}
  <2>1. v \in versions[t] \/ v = Content(t)'
    BY <1>1, <1>4 DEF Dirs
  <2>2. CASE v \in versions[t]
    BY <2>2 DEF VersionsTyped, VersionsOK
  <2>3. CASE v = Content(t)'
    <3>1. /\ v.files = files'[t]
          /\ v.trash = {x \in temps' : x.kind = "delete" /\ x.dir = t}
      BY <1>2, <2>3
    <3> QED
      BY <3>1 DEF DiskTyped
  <2> QED
    BY <2>1, <2>2, <2>3
<1> QED
  BY <1>1, <1>3, <1>4 DEF VersionsTyped, VersionsOK

\* So have those a sync leaves.
LEMMA SyncTyped ==
  ASSUME VersionsTyped, DiskTyped, HistoryTyped, CountsTyped, UNCHANGED disk,
         NEW d \in Dirs, SyncDirectory(d)
  PROVE  /\ VersionsTyped' /\ faults' \in 0 .. MaxFaults
         /\ moved' \subseteq moved /\ trust' \in {"synced", "failed", "lost"}
         /\ \A e \in Dirs : versions'[e] \subseteq versions[e]
         /\ \A e \in Dirs : Content(e)' = Content(e)
         /\ trust' = "synced" => trust = "synced" /\ versions'[d] = {Content(d)}
         /\ trust' # "lost" => trust # "lost"
         /\ \A t \in Types, n \in Names :
              trust' = "synced" /\ <<t, n>> \notin moved' => <<t, n>> \notin moved \/ d = t
<1>1. \A e \in Dirs : Content(e)' = Content(e)
  BY DEF Content, disk
<1>2. CASE /\ NoFault /\ versions' = [versions EXCEPT ![d] = {Content(d)}]
           /\ moved' = {m \in moved : m[1] # d} /\ UNCHANGED trust
  <2>1. /\ DOMAIN versions' = Dirs
        /\ \A e \in Dirs : versions'[e] = IF e = d THEN {Content(d)} ELSE versions[e]
    BY <1>2 DEF VersionsTyped
  <2>2. \A e \in Dirs : Content(e)' \in versions'[e] /\ versions'[e] \subseteq versions[e]
    BY <1>1, <2>1 DEF VersionsTyped
  <2>3. VersionsOK'
    BY <2>2 DEF VersionsTyped, VersionsOK, Dirs
  <2>4. VersionsTyped' /\ faults' \in 0 .. MaxFaults
    BY <1>2, <2>1, <2>2, <2>3 DEF VersionsTyped, NoFault, CountsTyped
  <2>5. \A t \in Types, n \in Names : <<t, n>> \notin moved' => <<t, n>> \notin moved \/ d = t
    BY <1>2
  <2> QED
    BY <1>1, <1>2, <2>1, <2>2, <2>4, <2>5 DEF HistoryTyped
<1>3. CASE /\ Fault /\ trust' = IF trust = "lost" THEN "lost" ELSE "failed"
           /\ UNCHANGED <<versions, moved>>
  <2>1. VersionsTyped'
    BY <1>1, <1>3 DEF VersionsTyped, VersionsOK
  <2>2. faults' \in 0 .. MaxFaults
    BY <1>3, ConstantsAssumption DEF Fault, CountsTyped
  <2> QED
    BY <1>1, <1>3, <2>1, <2>2
<1> QED
  BY <1>2, <1>3 DEF SyncDirectory

-----------------------------------------------------------------------------
(* The fields of a request, and the file at its path.                      *)

\* A running handler has a request.
LEMMA ReqTyped ==
  ASSUME LocalsTyped, req # None
  PROVE  /\ req.kind \in {"upload", "delete", "download"}
         /\ req.name \in Names /\ req.type \in Types /\ req.id \in Ids
  BY DEF LocalsTyped, Requests

\* The fields of a new one.
LEMMA NewRequest ==
  ASSUME NEW k \in {"upload", "delete", "download"}, NEW n \in Names,
         NEW t \in Types, NEW i \in Ids
  PROVE  LET q == Request(k, n, t, i)
         IN  /\ q \in Requests /\ q # None
             /\ q.kind = k /\ q.name = n /\ q.type = t /\ q.id = i
  BY NoneAssumption DEF Request, Requests

\* The entry of a name.
LEMMA EntryTyped ==
  ASSUME NEW T \in Tables, NEW n \in Names
  PROVE  /\ T[n] # None => T[n] \in Entries /\ T[n].type \in Types /\ T[n].id \in Ids
         /\ \A m \in Names : T[m] \in Entries \cup {None}
  BY DEF Tables, Entries

\* The entry of an upload.
LEMMA NewEntry ==
  ASSUME NEW t \in Types, NEW i \in Ids
  PROVE  /\ [type |-> t, id |-> i] \in Entries /\ [type |-> t, id |-> i] # None
         /\ [type |-> t, id |-> i].type = t /\ [type |-> t, id |-> i].id = i
  BY NoneAssumption DEF Entries

\* A table with one entry replaced.
LEMMA SetEntry ==
  ASSUME NEW T \in Tables, NEW n \in Names, NEW e \in Entries \cup {None}
  PROVE  /\ [T EXCEPT ![n] = e] \in Tables
         /\ [T EXCEPT ![n] = e][n] = e
         /\ \A m \in Names : m # n => [T EXCEPT ![n] = e][m] = T[m]
  BY DEF Tables

\* The fields of a temporary file.
LEMMA TempFields ==
  ASSUME NEW k \in TempKinds, NEW d \in Dirs \cup {"temp"}, NEW i \in {0} \cup Ids
  PROVE  /\ Temp(k, d, i) \in Temps /\ Temp(k, d, i) # None
         /\ Temp(k, d, i).kind = k /\ Temp(k, d, i).dir = d /\ Temp(k, d, i).id = i
  BY NoneAssumption DEF Temp, Temps

\* The temporary file of the running handler.
LEMMA MineFields ==
  ASSUME LocalsTyped, req # None, NEW i \in {0} \cup Ids
  PROVE  /\ Mine(i) \in Temps /\ Mine(i) # None
         /\ Mine(i).kind = req.kind /\ Mine(i).id = i
         /\ req.kind # "download" => Mine(i).dir = req.type
         /\ Mine(i) # Storage
<1>1. PICK d : d = IF req.kind = "download" THEN "temp" ELSE req.type
  OBVIOUS
<1>2. req.kind \in TempKinds /\ req.kind # "storage" /\ d \in Dirs \cup {"temp"}
  BY <1>1, ReqTyped DEF TempKinds, Dirs
<1>3. Mine(i) = Temp(req.kind, d, i)
  BY <1>1 DEF Mine
<1>4. Storage.kind = "storage"
  BY DEF Storage, Temp
<1> QED
  BY <1>1, <1>2, <1>3, <1>4, TempFields

\* Setting the file at the path of the request.
LEMMA FinalSet ==
  ASSUME DiskTyped, LocalsTyped, req # None, NEW i \in Ids \cup {None}, SetFinal(i)
  PROVE  /\ files' \in [Types -> [Names -> Ids \cup {None}]]
         /\ files'[req.type][req.name] = i
         /\ \A t \in Types, n \in Names :
              t # req.type \/ n # req.name => files'[t][n] = files[t][n]
<1>1. req.type \in Types /\ req.name \in Names
  BY ReqTyped
<1> QED
  BY <1>1 DEF SetFinal, DiskTyped

\* A failed call.
LEMMA FaultTyped ==
  ASSUME CountsTyped, Fault \/ NoFault
  PROVE  faults' \in 0 .. MaxFaults
  BY ConstantsAssumption DEF CountsTyped, Fault, NoFault

-----------------------------------------------------------------------------
(* The handlers, one step at a time.                                       *)

\* What a step must keep; the rest of HandlerInv is about versions.
HandlerPart ==
  /\ DiskTyped /\ LocalsTyped /\ CountsTyped
  /\ littered \in BOOLEAN /\ blind \in BOOLEAN /\ owed \in Tables
  /\ ShapeOK /\ TableOK /\ FinalOK

\* A handler that returns leaves what it must if memory matches the disk.
LEMMA ReturnHandler ==
  ASSUME HandlerPart, Return, table' = View', table' \in Tables, DiskTyped',
         CountsTyped', littered' \in BOOLEAN, owed' \in Tables, UNCHANGED <<server, blind>>
  PROVE  HandlerPart'
<1>0. LocalsTyped /\ ShapeOK /\ (blind => server = "up")
  BY DEF HandlerPart, TableOK
<1>1. EmptyTable \in Tables
  BY DEF EmptyTable, Tables
<1>2. LocalsTyped'
  BY <1>0, <1>1 DEF LocalsTyped, Return, Labels
<1>3. ShapeOK'
  BY <1>0 DEF ShapeOK, Return, Uploading, Deleting, FreePcs, PersistPcs
<1>4. TableOK' /\ FinalOK'
  BY <1>0 DEF Return, TableOK, MemoryMatchesDisk, View, FinalOK, Uploading, Deleting, PersistPcs
<1> QED
  BY <1>2, <1>3, <1>4 DEF HandlerPart

\* Which handler is at a label.
LEMMA HandlerAt ==
  ASSUME LocalsTyped, ShapeOK, pc # "idle"
  PROVE  /\ req # None
         /\ pc \in {"link", "unlink", "unlink_final", "sync", "stat", "undo_stat", "undo",
                    "sync_undo"} => Uploading
         /\ pc \in {"clear", "move", "restore", "purge"} => Deleting
         /\ pc \in PersistPcs => Uploading \/ Deleting
<1>1. req # None
  BY DEF LocalsTyped
<1>2. req.kind \in {"upload", "delete", "download"}
  BY <1>1, ReqTyped
<1> QED
  BY <1>1, <1>2 DEF ShapeOK, Uploading, Deleting, UploadPcs, DeletePcs, LinkedPcs, PersistPcs

\* The temporary file is created.
LEMMA CreateTempFileHandler ==
  ASSUME HandlerPart, CreateTempFile, UNCHANGED blind
  PROVE  HandlerPart'
<1>0. DiskTyped /\ LocalsTyped /\ CountsTyped /\ ShapeOK /\ TableOK /\ FinalOK
  BY DEF HandlerPart
<1>1. /\ server = "up" /\ pc = "temp" /\ req # None /\ held = None
      /\ UNCHANGED <<files, snapshot, table, server, uploads, crashes, littered, owed>>
  BY <1>0 DEF CreateTempFile, At, LocalsTyped, ShapeOK, FreePcs
<1>2. faults' \in 0 .. MaxFaults
  BY <1>0, FaultTyped DEF CreateTempFile
<1>3. CountsTyped' /\ littered' \in BOOLEAN /\ owed' \in Tables
  BY <1>0, <1>1, <1>2 DEF CountsTyped, HandlerPart
<1>4. CASE /\ temps' = temps \cup {Mine(0)}
           /\ held' = (IF req.kind = "delete" THEN None ELSE Mine(0))
           /\ pc' = (IF req.kind = "delete" THEN "clear" ELSE "write")
           /\ UNCHANGED <<req, next>>
  <2>1. Mine(0) \in Temps /\ Mine(0) # None /\ Mine(0).kind = req.kind /\ Mine(0).id = 0
    BY <1>0, <1>1, MineFields
  <2>2. DiskTyped' /\ LocalsTyped'
    BY <1>0, <1>1, <1>4, <2>1 DEF DiskTyped, LocalsTyped, Labels
  <2>3. ShapeOK'
    BY <1>0, <1>1, <1>4, <2>1 DEF ShapeOK, LocalsTyped, Uploading, Deleting, FreePcs,
      UploadPcs, DeletePcs, LinkedPcs, PersistPcs, Mine
  <2>4. TableOK'
    BY <1>0, <1>1, <1>4 DEF TableOK, MemoryMatchesDisk, Uploading, Deleting, PersistPcs
  <2>5. FinalOK'
    BY <1>0, <1>1, <1>4 DEF FinalOK, Final, Uploading, Deleting, PersistPcs, LinkedPcs
  <2> QED
    BY <1>3, <2>2, <2>3, <2>4, <2>5 DEF HandlerPart
<1>5. CASE Return /\ UNCHANGED temps
  <2>1. table' = View' /\ table' \in Tables
    BY <1>0, <1>1 DEF TableOK, MemoryMatchesDisk, LocalsTyped, View
  <2>2. DiskTyped'
    BY <1>0, <1>1, <1>5 DEF DiskTyped
  <2> QED
    BY <1>1, <1>3, <1>5, <2>1, <2>2, ReturnHandler
<1> QED
  BY <1>4, <1>5 DEF CreateTempFile

\* The temporary file is written.
LEMMA WriteTempHandler ==
  ASSUME HandlerPart, WriteTemp, UNCHANGED blind
  PROVE  HandlerPart'
<1>0. DiskTyped /\ LocalsTyped /\ CountsTyped /\ ShapeOK /\ TableOK /\ FinalOK
  BY DEF HandlerPart
<1>1. /\ server = "up" /\ pc = "write" /\ req # None /\ held # None
      /\ UNCHANGED <<files, snapshot, table, server, uploads, crashes, littered, owed>>
      /\ UNCHANGED <<req, next>>
  BY <1>0 DEF WriteTemp, At, LocalsTyped, ShapeOK, Goto
<1>2. faults' \in 0 .. MaxFaults
  BY <1>0, FaultTyped DEF WriteTemp
<1>3. CountsTyped' /\ littered' \in BOOLEAN /\ owed' \in Tables
  BY <1>0, <1>1, <1>2 DEF CountsTyped, HandlerPart
<1>4. CASE /\ req.kind = "upload" /\ held' = Mine(req.id)
           /\ temps' = (temps \ {held}) \cup {held'} /\ pc' = "link"
  <2>1. Mine(req.id) \in Temps /\ Mine(req.id) # None /\ Mine(req.id).id = req.id
    BY <1>0, <1>1, MineFields, ReqTyped
  <2>2. DiskTyped' /\ LocalsTyped'
    BY <1>0, <1>1, <1>4, <2>1 DEF DiskTyped, LocalsTyped, Labels
  <2>3. ShapeOK' /\ TableOK' /\ FinalOK'
    BY <1>0, <1>1, <1>4, <2>1 DEF ShapeOK, LocalsTyped, Uploading, Deleting, FreePcs,
      UploadPcs, DeletePcs, LinkedPcs, PersistPcs, Mine, TableOK, MemoryMatchesDisk, FinalOK, Final
  <2> QED
    BY <1>3, <2>2, <2>3 DEF HandlerPart
<1>5. CASE Goto("guard") /\ UNCHANGED temps
  <2>2. DiskTyped' /\ LocalsTyped'
    BY <1>0, <1>1, <1>5 DEF DiskTyped, LocalsTyped, Labels, Goto
  <2>3. ShapeOK' /\ TableOK' /\ FinalOK'
    BY <1>0, <1>1, <1>5 DEF ShapeOK, LocalsTyped, Uploading, Deleting, FreePcs, Goto,
      UploadPcs, DeletePcs, LinkedPcs, PersistPcs, Mine, TableOK, MemoryMatchesDisk, FinalOK, Final
  <2> QED
    BY <1>3, <2>2, <2>3 DEF HandlerPart
<1> QED
  BY <1>4, <1>5 DEF WriteTemp

\* The guard removes the temporary file.
LEMMA GuardRemoveHandler ==
  ASSUME HandlerPart, GuardRemove, UNCHANGED blind
  PROVE  HandlerPart'
<1>0. DiskTyped /\ LocalsTyped /\ CountsTyped /\ ShapeOK /\ TableOK /\ FinalOK
  BY DEF HandlerPart
<1>1. /\ server = "up" /\ pc = "guard" /\ req # None
      /\ Return
      /\ UNCHANGED <<files, snapshot, table, server, uploads, crashes, owed>>
  BY <1>0, HandlerAt DEF GuardRemove, At, LocalsTyped, ShapeOK, FreePcs, PersistPcs, Uploading, Deleting, UploadPcs,
    LinkedPcs, DeletePcs, Goto
<1>2. faults' \in 0 .. MaxFaults
  BY <1>0, FaultTyped DEF GuardRemove, Litter
<1>3. CountsTyped' /\ littered' \in BOOLEAN /\ owed' \in Tables
  BY <1>0, <1>1, <1>2 DEF CountsTyped, HandlerPart, GuardRemove, Litter
<1>4. table' = View' /\ table' \in Tables
  BY <1>0, <1>1 DEF TableOK, MemoryMatchesDisk, LocalsTyped, View
<1>5. DiskTyped'
  BY <1>0, <1>1 DEF DiskTyped, GuardRemove
<1> QED
  BY <1>1, <1>3, <1>4, <1>5, ReturnHandler

\* The file is linked to its path.
LEMMA LinkHandler ==
  ASSUME HandlerPart, Link, UNCHANGED blind
  PROVE  HandlerPart'
<1>0. DiskTyped /\ LocalsTyped /\ CountsTyped /\ ShapeOK /\ TableOK /\ FinalOK
  BY DEF HandlerPart
<1>1. /\ server = "up" /\ pc = "link" /\ req # None
      /\ Uploading /\ held # None
      /\ UNCHANGED <<req, held, next>>
      /\ UNCHANGED <<temps, snapshot, table, server, uploads, crashes, littered, owed>>
  BY <1>0, HandlerAt DEF Link, At, LocalsTyped, ShapeOK, FreePcs, PersistPcs, Uploading, Deleting, UploadPcs,
    LinkedPcs, DeletePcs, Goto
<1>2. faults' \in 0 .. MaxFaults
  BY <1>0, FaultTyped DEF Link
<1>3. CountsTyped' /\ littered' \in BOOLEAN /\ owed' \in Tables
  BY <1>0, <1>1, <1>2 DEF CountsTyped, HandlerPart
<1>4. CASE SetFinal(req.id) /\ Goto("unlink")
  <2>1. /\ files' \in [Types -> [Names -> Ids \cup {None}]] /\ files'[req.type][req.name] = req.id
    BY <1>0, <1>1, <1>4, FinalSet, ReqTyped
  <2>2. DiskTyped' /\ LocalsTyped'
    BY <1>0, <1>1, <1>4, <2>1 DEF DiskTyped, LocalsTyped, Labels, Goto
  <2>3. ShapeOK' /\ TableOK' /\ FinalOK'
    BY <1>0, <1>1, <1>4, <2>1 DEF ShapeOK, TableOK, FinalOK, LocalsTyped, MemoryMatchesDisk,
      Uploading, Deleting, FreePcs, UploadPcs, DeletePcs, LinkedPcs, PersistPcs, Mine, Final, Goto
  <2> QED
    BY <1>3, <2>2, <2>3 DEF HandlerPart
<1>5. CASE Goto("guard") /\ UNCHANGED files
  <2>2. DiskTyped' /\ LocalsTyped'
    BY <1>0, <1>1, <1>5 DEF DiskTyped, LocalsTyped, Labels, Goto
  <2>3. ShapeOK' /\ TableOK' /\ FinalOK'
    BY <1>0, <1>1, <1>5 DEF ShapeOK, TableOK, FinalOK, LocalsTyped, MemoryMatchesDisk,
      Uploading, Deleting, FreePcs, UploadPcs, DeletePcs, LinkedPcs, PersistPcs, Mine, Final, Goto
  <2> QED
    BY <1>3, <2>2, <2>3 DEF HandlerPart
<1> QED
  BY <1>4, <1>5 DEF Link

\* The temporary name is removed.
LEMMA UnlinkHandler ==
  ASSUME HandlerPart, Unlink, UNCHANGED blind
  PROVE  HandlerPart'
<1>0. DiskTyped /\ LocalsTyped /\ CountsTyped /\ ShapeOK /\ TableOK /\ FinalOK
  BY DEF HandlerPart
<1>1. /\ server = "up" /\ pc = "unlink" /\ req # None
      /\ Uploading
      /\ UNCHANGED <<req, next>>
      /\ UNCHANGED <<files, snapshot, table, server, uploads, crashes, littered, owed>>
  BY <1>0, HandlerAt DEF Unlink, At, LocalsTyped, ShapeOK, FreePcs, PersistPcs, Uploading, Deleting, UploadPcs,
    LinkedPcs, DeletePcs, Goto
<1>2. faults' \in 0 .. MaxFaults
  BY <1>0, FaultTyped DEF Unlink
<1>3. CountsTyped' /\ littered' \in BOOLEAN /\ owed' \in Tables
  BY <1>0, <1>1, <1>2 DEF CountsTyped, HandlerPart
<1>4. CASE temps' = temps \ {held} /\ held' = None /\ pc' = "sync"
  <2>2. DiskTyped' /\ LocalsTyped'
    BY <1>0, <1>1, <1>4 DEF DiskTyped, LocalsTyped, Labels, Goto
  <2>3. ShapeOK' /\ TableOK' /\ FinalOK'
    BY <1>0, <1>1, <1>4 DEF ShapeOK, TableOK, FinalOK, LocalsTyped, MemoryMatchesDisk,
      Uploading, Deleting, FreePcs, UploadPcs, DeletePcs, LinkedPcs, PersistPcs, Mine, Final, Goto
  <2> QED
    BY <1>3, <2>2, <2>3 DEF HandlerPart
<1>5. CASE Goto("unlink_final") /\ UNCHANGED temps
  <2>2. DiskTyped' /\ LocalsTyped'
    BY <1>0, <1>1, <1>5 DEF DiskTyped, LocalsTyped, Labels, Goto
  <2>3. ShapeOK' /\ TableOK' /\ FinalOK'
    BY <1>0, <1>1, <1>5 DEF ShapeOK, TableOK, FinalOK, LocalsTyped, MemoryMatchesDisk,
      Uploading, Deleting, FreePcs, UploadPcs, DeletePcs, LinkedPcs, PersistPcs, Mine, Final, Goto
  <2> QED
    BY <1>3, <2>2, <2>3 DEF HandlerPart
<1> QED
  BY <1>4, <1>5 DEF Unlink

\* The hard link is taken back.
LEMMA UnlinkFinalHandler ==
  ASSUME HandlerPart, UnlinkFinal, UNCHANGED blind
  PROVE  HandlerPart'
<1>0. DiskTyped /\ LocalsTyped /\ CountsTyped /\ ShapeOK /\ TableOK /\ FinalOK
  BY DEF HandlerPart
<1>1. /\ server = "up" /\ pc = "unlink_final" /\ req # None
      /\ Uploading /\ Goto("guard")
      /\ UNCHANGED <<temps, snapshot, table, server, uploads, crashes, owed>>
  BY <1>0, HandlerAt DEF UnlinkFinal, At, LocalsTyped, ShapeOK, FreePcs, PersistPcs, Uploading, Deleting, UploadPcs,
    LinkedPcs, DeletePcs, Goto
<1>2. faults' \in 0 .. MaxFaults
  BY <1>0, FaultTyped DEF UnlinkFinal, Litter
<1>3. CountsTyped' /\ littered' \in BOOLEAN /\ owed' \in Tables
  BY <1>0, <1>1, <1>2 DEF CountsTyped, HandlerPart, UnlinkFinal, Litter
<1>4. CASE SetFinal(None)
  <2>1. /\ files' \in [Types -> [Names -> Ids \cup {None}]] /\ files'[req.type][req.name] = None
    BY <1>0, <1>1, <1>4, FinalSet, ReqTyped
  <2>2. DiskTyped' /\ LocalsTyped'
    BY <1>0, <1>1, <1>4, <2>1 DEF DiskTyped, LocalsTyped, Labels, Goto
  <2>3. ShapeOK' /\ TableOK' /\ FinalOK'
    BY <1>0, <1>1, <1>4, <2>1 DEF ShapeOK, TableOK, FinalOK, LocalsTyped, MemoryMatchesDisk,
      Uploading, Deleting, FreePcs, UploadPcs, DeletePcs, LinkedPcs, PersistPcs, Mine, Final, Goto
  <2> QED
    BY <1>3, <2>2, <2>3 DEF HandlerPart
<1>5. CASE UNCHANGED files
  <2>2. DiskTyped' /\ LocalsTyped'
    BY <1>0, <1>1, <1>5 DEF DiskTyped, LocalsTyped, Labels, Goto
  <2>3. ShapeOK' /\ TableOK' /\ FinalOK'
    BY <1>0, <1>1, <1>5 DEF ShapeOK, TableOK, FinalOK, LocalsTyped, MemoryMatchesDisk,
      Uploading, Deleting, FreePcs, UploadPcs, DeletePcs, LinkedPcs, PersistPcs, Mine, Final, Goto
  <2> QED
    BY <1>3, <2>2, <2>3 DEF HandlerPart
<1> QED
  BY <1>4, <1>5 DEF UnlinkFinal

\* NewStorageInfo.
LEMMA StatHandler ==
  ASSUME HandlerPart, Stat, UNCHANGED blind
  PROVE  HandlerPart'
<1>0. DiskTyped /\ LocalsTyped /\ CountsTyped /\ ShapeOK /\ TableOK /\ FinalOK
  BY DEF HandlerPart
<1>1. /\ server = "up" /\ pc = "stat" /\ req # None
      /\ Uploading /\ Final = req.id
      /\ UNCHANGED <<req, held>>
      /\ UNCHANGED <<files, temps, snapshot, table, server, uploads, crashes, littered, owed>>
  BY <1>0, HandlerAt DEF Stat, At, LocalsTyped, ShapeOK, FreePcs, PersistPcs, Uploading, Deleting, UploadPcs,
    LinkedPcs, DeletePcs, Goto, disk, FinalOK
<1>2. faults' \in 0 .. MaxFaults
  BY <1>0, FaultTyped DEF Stat
<1>3. CountsTyped' /\ littered' \in BOOLEAN /\ owed' \in Tables
  BY <1>0, <1>1, <1>2 DEF CountsTyped, HandlerPart
<1>4. CASE GotoPersist([table EXCEPT ![req.name] = [type |-> req.type, id |-> Final]])
  <2>1. /\ pc' = "persist"
        /\ next' = [table EXCEPT ![req.name] = [type |-> req.type, id |-> req.id]]
    BY <1>1, <1>4 DEF GotoPersist
  <2>2. next' \in Tables
    <3>1. req.name \in Names /\ [type |-> req.type, id |-> req.id] \in Entries
      BY <1>0, <1>1, ReqTyped, NewEntry
    <3> QED
      BY <1>0, <2>1, <3>1, SetEntry DEF LocalsTyped
  <2>3. DiskTyped' /\ LocalsTyped'
    BY <1>0, <1>1, <2>1, <2>2 DEF DiskTyped, LocalsTyped, Labels
  <2>4. ShapeOK' /\ TableOK' /\ FinalOK'
    BY <1>0, <1>1, <2>1 DEF ShapeOK, TableOK, FinalOK, LocalsTyped, MemoryMatchesDisk,
      Uploading, Deleting, FreePcs, UploadPcs, DeletePcs, LinkedPcs, PersistPcs, Mine, Final, Goto
  <2> QED
    BY <1>3, <2>3, <2>4 DEF HandlerPart
<1>5. CASE Goto("undo_stat")
  <2>2. DiskTyped' /\ LocalsTyped'
    BY <1>0, <1>1, <1>5 DEF DiskTyped, LocalsTyped, Labels, Goto
  <2>3. ShapeOK' /\ TableOK' /\ FinalOK'
    BY <1>0, <1>1, <1>5 DEF ShapeOK, TableOK, FinalOK, LocalsTyped, MemoryMatchesDisk,
      Uploading, Deleting, FreePcs, UploadPcs, DeletePcs, LinkedPcs, PersistPcs, Mine, Final, Goto
  <2> QED
    BY <1>3, <2>2, <2>3 DEF HandlerPart
<1> QED
  BY <1>4, <1>5 DEF Stat

\* The file of an upload without an entry is removed.
LEMMA UndoHandler ==
  ASSUME HandlerPart, Undo, UNCHANGED blind
  PROVE  HandlerPart'
<1>0. DiskTyped /\ LocalsTyped /\ CountsTyped /\ ShapeOK /\ TableOK /\ FinalOK
  BY DEF HandlerPart
<1>1. /\ server = "up" /\ pc \in {"undo_stat", "undo"} /\ req # None
      /\ Uploading
      /\ IF pc = "undo" THEN Goto("sync_undo") ELSE Return
      /\ UNCHANGED <<temps, snapshot, table, server, uploads, crashes, owed>>
  BY <1>0, HandlerAt DEF Undo, At, LocalsTyped, ShapeOK, FreePcs, PersistPcs, Uploading, Deleting, UploadPcs,
    LinkedPcs, DeletePcs, Goto
<1>2. faults' \in 0 .. MaxFaults
  BY <1>0, FaultTyped DEF Undo, Litter
<1>3. CountsTyped' /\ littered' \in BOOLEAN /\ owed' \in Tables
  BY <1>0, <1>1, <1>2 DEF CountsTyped, HandlerPart, Undo, Litter
<1>4. files' \in [Types -> [Names -> Ids \cup {None}]]
  BY <1>0, <1>1, FinalSet DEF Undo, DiskTyped
<1>5. DiskTyped'
  BY <1>0, <1>1, <1>4 DEF DiskTyped
<1>6. CASE Goto("sync_undo")
  <2>2. LocalsTyped'
    BY <1>0, <1>1, <1>6 DEF LocalsTyped, Labels, Goto
  <2>3. ShapeOK' /\ TableOK' /\ FinalOK'
    BY <1>0, <1>1, <1>6 DEF ShapeOK, TableOK, FinalOK, LocalsTyped, MemoryMatchesDisk,
      Uploading, Deleting, FreePcs, UploadPcs, DeletePcs, LinkedPcs, PersistPcs, Mine, Final, Goto
  <2> QED
    BY <1>3, <1>5, <2>2, <2>3 DEF HandlerPart
<1>7. CASE Return
  <2>1. table' = View' /\ table' \in Tables
    BY <1>0, <1>1 DEF TableOK, MemoryMatchesDisk, LocalsTyped, View
  <2> QED
    BY <1>1, <1>3, <1>5, <1>7, <2>1, ReturnHandler
<1> QED
  BY <1>1, <1>6, <1>7

\* Persist creates its temporary file.
LEMMA PersistTempHandler ==
  ASSUME HandlerPart, PersistTemp, UNCHANGED blind
  PROVE  HandlerPart'
<1>0. DiskTyped /\ LocalsTyped /\ CountsTyped /\ ShapeOK /\ TableOK /\ FinalOK
  BY DEF HandlerPart
<1>1. /\ server = "up" /\ pc = "persist" /\ req # None
      /\ Uploading \/ Deleting
      /\ UNCHANGED <<req, held, next>>
      /\ UNCHANGED <<files, snapshot, table, server, uploads, crashes, littered, owed>>
  BY <1>0, HandlerAt DEF PersistTemp, At, LocalsTyped, ShapeOK, FreePcs, PersistPcs, Uploading, Deleting, UploadPcs,
    LinkedPcs, DeletePcs, Goto
<1>2. faults' \in 0 .. MaxFaults
  BY <1>0, FaultTyped DEF PersistTemp
<1>3. CountsTyped' /\ littered' \in BOOLEAN /\ owed' \in Tables
  BY <1>0, <1>1, <1>2 DEF CountsTyped, HandlerPart
<1>4. CASE Goto("persist_write") /\ temps' = temps \cup {Storage}
  <2>1. Storage \in Temps
    BY TempFields DEF Storage, TempKinds, Dirs
  <2>2. DiskTyped' /\ LocalsTyped'
    BY <1>0, <1>1, <1>4, <2>1 DEF DiskTyped, LocalsTyped, Labels, Goto
  <2>3. ShapeOK' /\ TableOK' /\ FinalOK'
    BY <1>0, <1>1, <1>4, <2>1 DEF ShapeOK, TableOK, FinalOK, LocalsTyped, MemoryMatchesDisk,
      Uploading, Deleting, FreePcs, UploadPcs, DeletePcs, LinkedPcs, PersistPcs, Mine, Final, Goto
  <2> QED
    BY <1>3, <2>2, <2>3 DEF HandlerPart
<1>5. CASE Goto(FailedPersist) /\ UNCHANGED temps
  <2>1. FailedPersist \in {"undo", "restore"} /\ (req.kind = "upload" <=> FailedPersist = "undo")
    BY DEF FailedPersist
  <2>2. DiskTyped' /\ LocalsTyped'
    BY <1>0, <1>1, <1>5, <2>1 DEF DiskTyped, LocalsTyped, Labels, Goto
  <2>3. ShapeOK' /\ TableOK' /\ FinalOK'
    BY <1>0, <1>1, <1>5, <2>1 DEF ShapeOK, TableOK, FinalOK, LocalsTyped, MemoryMatchesDisk,
      Uploading, Deleting, FreePcs, UploadPcs, DeletePcs, LinkedPcs, PersistPcs, Mine, Final, Goto
  <2> QED
    BY <1>3, <2>2, <2>3 DEF HandlerPart
<1> QED
  BY <1>4, <1>5 DEF PersistTemp

\* Persist writes it.
LEMMA PersistWriteHandler ==
  ASSUME HandlerPart, PersistWrite, UNCHANGED blind
  PROVE  HandlerPart'
<1>0. DiskTyped /\ LocalsTyped /\ CountsTyped /\ ShapeOK /\ TableOK /\ FinalOK
  BY DEF HandlerPart
<1>1. /\ server = "up" /\ pc = "persist_write" /\ req # None
      /\ Uploading \/ Deleting
      /\ UNCHANGED <<files, temps, snapshot, table, server, uploads, crashes, littered, owed>>
  BY <1>0, HandlerAt DEF PersistWrite, At, LocalsTyped, ShapeOK, FreePcs, PersistPcs, Uploading, Deleting, UploadPcs,
    LinkedPcs, DeletePcs, Goto, disk
<1>2. faults' \in 0 .. MaxFaults
  BY <1>0, FaultTyped DEF PersistWrite
<1>3. CountsTyped' /\ littered' \in BOOLEAN /\ owed' \in Tables
  BY <1>0, <1>1, <1>2 DEF CountsTyped, HandlerPart
<1>4. CASE Goto("persist_rename")
  <2>2. DiskTyped' /\ LocalsTyped'
    BY <1>0, <1>1, <1>4 DEF DiskTyped, LocalsTyped, Labels, Goto
  <2>3. ShapeOK' /\ TableOK' /\ FinalOK'
    BY <1>0, <1>1, <1>4 DEF ShapeOK, TableOK, FinalOK, LocalsTyped, MemoryMatchesDisk,
      Uploading, Deleting, FreePcs, UploadPcs, DeletePcs, LinkedPcs, PersistPcs, Mine, Final, Goto
  <2> QED
    BY <1>3, <2>2, <2>3 DEF HandlerPart
<1>5. CASE Goto("persist_undo")
  <2>2. DiskTyped' /\ LocalsTyped'
    BY <1>0, <1>1, <1>5 DEF DiskTyped, LocalsTyped, Labels, Goto
  <2>3. ShapeOK' /\ TableOK' /\ FinalOK'
    BY <1>0, <1>1, <1>5 DEF ShapeOK, TableOK, FinalOK, LocalsTyped, MemoryMatchesDisk,
      Uploading, Deleting, FreePcs, UploadPcs, DeletePcs, LinkedPcs, PersistPcs, Mine, Final, Goto
  <2> QED
    BY <1>3, <2>2, <2>3 DEF HandlerPart
<1> QED
  BY <1>4, <1>5 DEF PersistWrite

\* Persist replaces the metadata file.
LEMMA PersistRenameHandler ==
  ASSUME HandlerPart, PersistRename
  PROVE  HandlerPart'
<1>0. DiskTyped /\ LocalsTyped /\ CountsTyped /\ ShapeOK /\ TableOK /\ FinalOK
  BY DEF HandlerPart
<1>1. /\ server = "up" /\ pc = "persist_rename" /\ req # None
      /\ Uploading \/ Deleting
      /\ UNCHANGED <<req, held, next>>
      /\ UNCHANGED <<files, table, server, uploads, crashes>>
  BY <1>0, HandlerAt DEF PersistRename, At, LocalsTyped, ShapeOK, FreePcs, PersistPcs, Uploading, Deleting, UploadPcs,
    LinkedPcs, DeletePcs, Goto
<1>2. faults' \in 0 .. MaxFaults
  BY <1>0, FaultTyped DEF PersistRename
<1>3. CountsTyped' /\ littered' \in BOOLEAN /\ blind' \in BOOLEAN /\ owed' \in Tables
  <2>1. littered \in BOOLEAN /\ blind \in BOOLEAN /\ owed \in Tables
    BY DEF HandlerPart
  <2>2. littered' \in BOOLEAN /\ blind' \in BOOLEAN
    BY <2>1 DEF PersistRename
  <2>3. owed' \in Tables
    <3>1. \A n \in Names : owed[n] \in Entries \cup {None}
      BY <2>1 DEF Tables
    <3> QED
      BY <2>1, <3>1 DEF PersistRename, Tables
  <2> QED
    BY <1>0, <1>1, <1>2, <2>2, <2>3 DEF CountsTyped
<1>4. CASE /\ Goto("sync_meta") /\ snapshot' = next
           /\ temps' = temps \ {Storage} /\ blind' = FALSE
  <2>2. DiskTyped' /\ LocalsTyped'
    BY <1>0, <1>1, <1>4 DEF DiskTyped, LocalsTyped, Labels, Goto
  <2>3. ShapeOK' /\ TableOK' /\ FinalOK'
    BY <1>0, <1>1, <1>4 DEF ShapeOK, TableOK, FinalOK, LocalsTyped, MemoryMatchesDisk,
      Uploading, Deleting, FreePcs, UploadPcs, DeletePcs, LinkedPcs, PersistPcs, Mine, Final, Goto
  <2> QED
    BY <1>3, <2>2, <2>3 DEF HandlerPart
<1>5. CASE Goto("persist_undo") /\ UNCHANGED <<snapshot, temps, owed, littered, blind>>
  <2>2. DiskTyped' /\ LocalsTyped'
    BY <1>0, <1>1, <1>5 DEF DiskTyped, LocalsTyped, Labels, Goto
  <2>3. ShapeOK' /\ TableOK' /\ FinalOK'
    BY <1>0, <1>1, <1>5 DEF ShapeOK, TableOK, FinalOK, LocalsTyped, MemoryMatchesDisk,
      Uploading, Deleting, FreePcs, UploadPcs, DeletePcs, LinkedPcs, PersistPcs, Mine, Final, Goto
  <2> QED
    BY <1>3, <2>2, <2>3 DEF HandlerPart
<1> QED
  BY <1>4, <1>5 DEF PersistRename

\* Persist removes its temporary file.
LEMMA PersistUndoHandler ==
  ASSUME HandlerPart, PersistUndo, UNCHANGED blind
  PROVE  HandlerPart'
<1>0. DiskTyped /\ LocalsTyped /\ CountsTyped /\ ShapeOK /\ TableOK /\ FinalOK
  BY DEF HandlerPart
<1>1. /\ server = "up" /\ pc = "persist_undo" /\ req # None
      /\ Uploading \/ Deleting
      /\ Goto(FailedPersist)
      /\ UNCHANGED <<files, snapshot, table, server, uploads, crashes, owed>>
  BY <1>0, HandlerAt DEF PersistUndo, At, LocalsTyped, ShapeOK, FreePcs, PersistPcs, Uploading, Deleting, UploadPcs,
    LinkedPcs, DeletePcs, Goto
<1>2. faults' \in 0 .. MaxFaults
  BY <1>0, FaultTyped DEF PersistUndo, Litter
<1>3. CountsTyped' /\ littered' \in BOOLEAN /\ owed' \in Tables
  BY <1>0, <1>1, <1>2 DEF CountsTyped, HandlerPart, PersistUndo, Litter
<1>4. FailedPersist \in {"undo", "restore"} /\ (req.kind = "upload" <=> FailedPersist = "undo")
  BY DEF FailedPersist
<1>5. DiskTyped' /\ LocalsTyped'
  BY <1>0, <1>1, <1>4 DEF DiskTyped, LocalsTyped, Labels, Goto, PersistUndo
<1>6. ShapeOK' /\ TableOK' /\ FinalOK'
  BY <1>0, <1>1, <1>4 DEF ShapeOK, TableOK, FinalOK, LocalsTyped, MemoryMatchesDisk,
      Uploading, Deleting, FreePcs, UploadPcs, DeletePcs, LinkedPcs, PersistPcs, Mine, Final, Goto
<1> QED
  BY <1>3, <1>5, <1>6 DEF HandlerPart

\* The new table takes the place of the old one.
LEMMA SwapHandler ==
  ASSUME HandlerPart, Swap, UNCHANGED blind
  PROVE  HandlerPart'
<1>0. DiskTyped /\ LocalsTyped /\ CountsTyped /\ ShapeOK /\ TableOK /\ FinalOK
  BY DEF HandlerPart
<1>1. /\ server = "up" /\ pc = "swap" /\ req # None
      /\ Uploading \/ Deleting
      /\ UNCHANGED <<files, temps, snapshot, server, uploads, faults, crashes, littered>>
  BY <1>0, HandlerAt DEF Swap, At, LocalsTyped, ShapeOK, FreePcs, PersistPcs, Uploading, Deleting, UploadPcs,
    LinkedPcs, DeletePcs, Goto, disk, bounds
<1>2. /\ table' = next /\ next \in Tables /\ snapshot' = next
      /\ next = [table EXCEPT ![req.name] =
                   IF req.kind = "upload" THEN [type |-> req.type, id |-> req.id] ELSE None]
  BY <1>0, <1>1 DEF Swap, LocalsTyped, TableOK, PersistPcs
<1>3. req.name \in Names /\ next[req.name] \in Entries \cup {None}
  BY <1>0, <1>1, <1>2, ReqTyped, EntryTyped
<1>4. CountsTyped' /\ DiskTyped' /\ littered' \in BOOLEAN
  BY <1>0, <1>1 DEF CountsTyped, DiskTyped, HandlerPart
<1>5. ~blind /\ View' = snapshot'
  BY <1>0, <1>1 DEF TableOK, View
<1>6. CASE owed' = [owed EXCEPT ![req.name] = next[req.name]] /\ Return
  <2>1. owed' \in Tables
    BY <1>3, <1>6, SetEntry DEF HandlerPart
  <2> QED
    BY <1>1, <1>2, <1>4, <1>6, <1>5, <2>1, ReturnHandler
<1>7. CASE req.kind = "delete" /\ Goto("purge") /\ UNCHANGED owed
  <2>1. next[req.name] = None
    BY <1>0, <1>2, <1>3, <1>7, SetEntry DEF LocalsTyped
  <2>2. LocalsTyped' /\ owed' \in Tables
    BY <1>0, <1>1, <1>2, <1>7 DEF LocalsTyped, Labels, Goto, HandlerPart
  <2>3. ShapeOK' /\ FinalOK'
    BY <1>0, <1>1, <1>7 DEF ShapeOK, FinalOK, Uploading, Deleting, FreePcs, UploadPcs,
      DeletePcs, LinkedPcs, PersistPcs, Mine, Final, Goto
  <2>4. TableOK'
    BY <1>1, <1>2, <1>7, <1>5, <2>1 DEF TableOK, MemoryMatchesDisk, View, Uploading, Deleting, PersistPcs, Goto
  <2> QED
    BY <1>4, <2>2, <2>3, <2>4 DEF HandlerPart
<1> QED
  BY <1>6, <1>7 DEF Swap

\* The name reserved is freed.
LEMMA ClearHandler ==
  ASSUME HandlerPart, Clear, UNCHANGED blind
  PROVE  HandlerPart'
<1>0. DiskTyped /\ LocalsTyped /\ CountsTyped /\ ShapeOK /\ TableOK /\ FinalOK
  BY DEF HandlerPart
<1>1. /\ server = "up" /\ pc = "clear" /\ req # None
      /\ Deleting /\ Goto("move")
      /\ UNCHANGED <<files, snapshot, table, server, uploads, crashes, littered, owed>>
  BY <1>0, HandlerAt DEF Clear, At, LocalsTyped, ShapeOK, FreePcs, PersistPcs, Uploading, Deleting, UploadPcs,
    LinkedPcs, DeletePcs, Goto
<1>2. faults' \in 0 .. MaxFaults
  BY <1>0, FaultTyped DEF Clear
<1>3. CountsTyped' /\ littered' \in BOOLEAN /\ owed' \in Tables
  BY <1>0, <1>1, <1>2 DEF CountsTyped, HandlerPart
<1>4. DiskTyped' /\ LocalsTyped'
  BY <1>0, <1>1 DEF DiskTyped, LocalsTyped, Labels, Goto, Clear
<1>5. ShapeOK' /\ TableOK' /\ FinalOK'
  BY <1>0, <1>1 DEF ShapeOK, TableOK, FinalOK, LocalsTyped, MemoryMatchesDisk,
      Uploading, Deleting, FreePcs, UploadPcs, DeletePcs, LinkedPcs, PersistPcs, Mine, Final, Goto
<1> QED
  BY <1>3, <1>4, <1>5 DEF HandlerPart

\* The file is moved to the trash.
LEMMA MoveHandler ==
  ASSUME HandlerPart, Move, UNCHANGED blind
  PROVE  HandlerPart'
<1>0. DiskTyped /\ LocalsTyped /\ CountsTyped /\ ShapeOK /\ TableOK /\ FinalOK
  BY DEF HandlerPart
<1>1. /\ server = "up" /\ pc = "move" /\ req # None
      /\ Deleting /\ held = None
      /\ UNCHANGED <<snapshot, table, server, uploads, crashes, owed>>
  BY <1>0, HandlerAt DEF Move, At, LocalsTyped, ShapeOK, FreePcs, PersistPcs, Uploading, Deleting, UploadPcs,
    LinkedPcs, DeletePcs, Goto
<1>2. faults' \in 0 .. MaxFaults
  BY <1>0, FaultTyped DEF Move
<1>3. CountsTyped' /\ littered' \in BOOLEAN /\ owed' \in Tables
  <2>1. littered \in BOOLEAN /\ (Mine(0) \in temps) \in BOOLEAN
    BY DEF HandlerPart
  <2>2. littered' \in BOOLEAN
    BY <2>1 DEF Move
  <2> QED
    BY <1>0, <1>1, <1>2, <2>2 DEF CountsTyped, HandlerPart
<1>4. CASE /\ SetFinal(None) /\ held' = Mine(Final)
           /\ temps' = (temps \ {Mine(0)}) \cup {held'}
           /\ GotoPersist([table EXCEPT ![req.name] = None]) /\ UNCHANGED <<req, littered>>
  <2>1. files' \in [Types -> [Names -> Ids \cup {None}]] /\ files'[req.type][req.name] = None
    BY <1>0, <1>1, <1>4, FinalSet
  <2>2. req.name \in Names /\ req.type \in Types
    BY <1>0, <1>1, ReqTyped
  <2>3. Final \in Ids
    <3>1. Final \in Ids \cup {None}
      BY <1>0, <2>2 DEF DiskTyped, Final
    <3>2. Final # None
      BY <1>0, <1>1 DEF FinalOK
    <3> QED
      BY <3>1, <3>2
  <2>4. Mine(Final) \in Temps /\ Mine(Final) # None /\ Mine(Final).id = Final
    BY <1>0, <1>1, <2>3, MineFields
  <2>5. /\ pc' = "persist" /\ next' = [table EXCEPT ![req.name] = None]
        /\ next' \in Tables
    BY <1>0, <1>4, <2>2, SetEntry DEF GotoPersist, LocalsTyped
  <2>6. DiskTyped' /\ LocalsTyped'
    BY <1>0, <1>1, <1>4, <2>1, <2>4, <2>5 DEF DiskTyped, LocalsTyped, Labels
  <2>7. held' = Mine(held.id)' /\ held'.id \in Ids /\ held' # None
    <3>1. held'.id = Final
      BY <1>4, <2>4
    <3>2. held' = Temp(req.kind, IF req.kind = "download" THEN "temp" ELSE req.type, held'.id)
      BY <1>4, <3>1 DEF Mine
    <3> QED
      BY <1>4, <2>3, <2>4, <3>1, <3>2 DEF Mine
  <2>8. ShapeOK'
    BY <1>0, <1>1, <1>4, <2>5, <2>7 DEF ShapeOK, Uploading, Deleting, FreePcs, UploadPcs,
      DeletePcs, LinkedPcs, PersistPcs
  <2>9. TableOK' /\ FinalOK'
    BY <1>0, <1>1, <1>4, <2>1, <2>5 DEF TableOK, FinalOK, MemoryMatchesDisk, Uploading, Deleting,
      LinkedPcs, PersistPcs, Final
  <2> QED
    BY <1>3, <2>6, <2>8, <2>9 DEF HandlerPart
<1>5. CASE Return /\ UNCHANGED <<files, temps, moved>>
  <2>1. table' = View' /\ table' \in Tables
    BY <1>0, <1>1 DEF TableOK, MemoryMatchesDisk, LocalsTyped, View
  <2>2. DiskTyped'
    BY <1>0, <1>1, <1>5 DEF DiskTyped
  <2> QED
    BY <1>1, <1>3, <1>5, <2>1, <2>2, ReturnHandler
<1> QED
  BY <1>4, <1>5 DEF Move

\* The file is moved back.
LEMMA RestoreHandler ==
  ASSUME HandlerPart, Restore, UNCHANGED blind
  PROVE  HandlerPart'
<1>0. DiskTyped /\ LocalsTyped /\ CountsTyped /\ ShapeOK /\ TableOK /\ FinalOK
  BY DEF HandlerPart
<1>1. /\ server = "up" /\ pc = "restore" /\ req # None
      /\ Deleting /\ Return
      /\ UNCHANGED <<snapshot, table, server, uploads, crashes>>
  BY <1>0, HandlerAt DEF Restore, At, LocalsTyped, ShapeOK, FreePcs, PersistPcs, Uploading, Deleting, UploadPcs,
    LinkedPcs, DeletePcs, Goto
<1>2. faults' \in 0 .. MaxFaults
  BY <1>0, FaultTyped DEF Restore, Litter
<1>3. CountsTyped' /\ littered' \in BOOLEAN /\ owed' \in Tables
  <2>1. \A n \in Names : [owed EXCEPT ![n] = None] \in Tables
    BY SetEntry DEF HandlerPart
  <2>2. req.name \in Names
    BY <1>0, <1>1, ReqTyped
  <2> QED
    BY <1>0, <1>1, <1>2, <2>1, <2>2 DEF CountsTyped, HandlerPart, Restore, Litter
<1>4. table' = View' /\ table' \in Tables
  BY <1>0, <1>1 DEF TableOK, MemoryMatchesDisk, LocalsTyped, View
<1>5. held # None => held.id \in Ids
  BY <1>0, <1>1 DEF ShapeOK
<1>6. files' \in [Types -> [Names -> Ids \cup {None}]]
  BY <1>0, <1>1, <1>5, FinalSet DEF Restore, DiskTyped
<1>7. DiskTyped'
  BY <1>0, <1>1, <1>6 DEF DiskTyped, Restore
<1> QED
  BY <1>1, <1>3, <1>4, <1>7, ReturnHandler

\* The trash is removed.
LEMMA PurgeHandler ==
  ASSUME HandlerPart, Purge, UNCHANGED blind
  PROVE  HandlerPart'
<1>0. DiskTyped /\ LocalsTyped /\ CountsTyped /\ ShapeOK /\ TableOK /\ FinalOK
  BY DEF HandlerPart
<1>1. /\ server = "up" /\ pc = "purge" /\ req # None
      /\ Deleting
      /\ UNCHANGED <<files, snapshot, table, server, uploads, crashes, littered, owed>>
  BY <1>0, HandlerAt DEF Purge, At, LocalsTyped, ShapeOK, FreePcs, PersistPcs, Uploading, Deleting, UploadPcs,
    LinkedPcs, DeletePcs, Goto
<1>2. faults' \in 0 .. MaxFaults
  BY <1>0, FaultTyped DEF Purge
<1>3. CountsTyped' /\ littered' \in BOOLEAN /\ owed' \in Tables
  BY <1>0, <1>1, <1>2 DEF CountsTyped, HandlerPart
<1>4. CASE Return /\ temps' \subseteq temps
  <2>1. table' = View' /\ table' \in Tables
    BY <1>0, <1>1 DEF TableOK, MemoryMatchesDisk, LocalsTyped, View
  <2>2. DiskTyped'
    BY <1>0, <1>1, <1>4 DEF DiskTyped
  <2> QED
    BY <1>1, <1>3, <1>4, <2>1, <2>2, ReturnHandler
<1>5. CASE held # None /\ Goto("guard") /\ UNCHANGED temps
  <2>2. DiskTyped' /\ LocalsTyped'
    BY <1>0, <1>1, <1>5 DEF DiskTyped, LocalsTyped, Labels, Goto
  <2>3. ShapeOK' /\ TableOK' /\ FinalOK'
    BY <1>0, <1>1, <1>5 DEF ShapeOK, TableOK, FinalOK, LocalsTyped, MemoryMatchesDisk,
      Uploading, Deleting, FreePcs, UploadPcs, DeletePcs, LinkedPcs, PersistPcs, Mine, Final, Goto
  <2> QED
    BY <1>3, <2>2, <2>3 DEF HandlerPart
<1> QED
  BY <1>4, <1>5 DEF Purge

\* The directory of an upload is synced.
LEMMA SyncFileHandler ==
  ASSUME HandlerPart, SyncFile, UNCHANGED blind
  PROVE  HandlerPart'
<1>0. DiskTyped /\ LocalsTyped /\ CountsTyped /\ ShapeOK /\ TableOK /\ FinalOK
  BY DEF HandlerPart
<1>1. /\ server = "up" /\ pc = "sync" /\ req # None
      /\ Uploading
      /\ Goto("stat")
      /\ UNCHANGED <<files, temps, snapshot, table, server, uploads, crashes, littered, owed>>
  BY <1>0, HandlerAt DEF SyncFile, At, LocalsTyped, ShapeOK, FreePcs, PersistPcs, Uploading, Deleting, UploadPcs,
    LinkedPcs, DeletePcs, Goto, disk
<1>2. faults' \in 0 .. MaxFaults
  BY <1>0, FaultTyped DEF SyncFile, SyncDirectory
<1>3. CountsTyped' /\ littered' \in BOOLEAN /\ owed' \in Tables
  BY <1>0, <1>1, <1>2 DEF CountsTyped, HandlerPart
<1>4. DiskTyped' /\ LocalsTyped'
  BY <1>0, <1>1 DEF DiskTyped, LocalsTyped, Labels, Goto
<1>5. ShapeOK' /\ TableOK' /\ FinalOK'
  BY <1>0, <1>1 DEF ShapeOK, TableOK, FinalOK, LocalsTyped, MemoryMatchesDisk,
      Uploading, Deleting, FreePcs, UploadPcs, DeletePcs, LinkedPcs, PersistPcs, Mine, Final, Goto
<1> QED
  BY <1>3, <1>4, <1>5 DEF HandlerPart

\* The directory of the metadata file is synced.
LEMMA SyncMetaHandler ==
  ASSUME HandlerPart, SyncMeta, UNCHANGED blind
  PROVE  HandlerPart'
<1>0. DiskTyped /\ LocalsTyped /\ CountsTyped /\ ShapeOK /\ TableOK /\ FinalOK
  BY DEF HandlerPart
<1>1. /\ server = "up" /\ pc = "sync_meta" /\ req # None
      /\ Uploading \/ Deleting
      /\ Goto("swap")
      /\ UNCHANGED <<files, temps, snapshot, table, server, uploads, crashes, littered, owed>>
  BY <1>0, HandlerAt DEF SyncMeta, At, LocalsTyped, ShapeOK, FreePcs, PersistPcs, Uploading, Deleting, UploadPcs,
    LinkedPcs, DeletePcs, Goto, disk
<1>2. faults' \in 0 .. MaxFaults
  BY <1>0, FaultTyped DEF SyncMeta, SyncDirectory
<1>3. CountsTyped' /\ littered' \in BOOLEAN /\ owed' \in Tables
  BY <1>0, <1>1, <1>2 DEF CountsTyped, HandlerPart
<1>4. DiskTyped' /\ LocalsTyped'
  BY <1>0, <1>1 DEF DiskTyped, LocalsTyped, Labels, Goto
<1>5. ShapeOK' /\ TableOK' /\ FinalOK'
  BY <1>0, <1>1 DEF ShapeOK, TableOK, FinalOK, LocalsTyped, MemoryMatchesDisk,
      Uploading, Deleting, FreePcs, UploadPcs, DeletePcs, LinkedPcs, PersistPcs, Mine, Final, Goto
<1> QED
  BY <1>3, <1>4, <1>5 DEF HandlerPart

\* The directory is synced after an undone upload.
LEMMA SyncUndoHandler ==
  ASSUME HandlerPart, SyncUndo, UNCHANGED blind
  PROVE  HandlerPart'
<1>0. DiskTyped /\ LocalsTyped /\ CountsTyped /\ ShapeOK /\ TableOK /\ FinalOK
  BY DEF HandlerPart
<1>1. /\ server = "up" /\ pc = "sync_undo" /\ req # None
      /\ Return
      /\ UNCHANGED <<files, temps, snapshot, table, server, uploads, crashes, littered, owed>>
  BY <1>0, HandlerAt DEF SyncUndo, At, LocalsTyped, ShapeOK, FreePcs, PersistPcs, Uploading, Deleting, UploadPcs,
    LinkedPcs, DeletePcs, Goto, disk
<1>2. faults' \in 0 .. MaxFaults
  BY <1>0, FaultTyped DEF SyncUndo, SyncDirectory
<1>3. CountsTyped' /\ DiskTyped' /\ littered' \in BOOLEAN /\ owed' \in Tables
  BY <1>0, <1>1, <1>2 DEF CountsTyped, DiskTyped, HandlerPart
<1>4. table' = View' /\ table' \in Tables
  BY <1>0, <1>1 DEF TableOK, MemoryMatchesDisk, LocalsTyped, View
<1> QED
  BY <1>1, <1>3, <1>4, ReturnHandler

\* An upload begins.
LEMMA UploadStartHandler ==
  ASSUME HandlerPart, NEW n \in Names, NEW t \in Types, UploadStart(n, t),
         UNCHANGED blind
  PROVE  HandlerPart'
<1>0. DiskTyped /\ LocalsTyped /\ CountsTyped /\ ShapeOK /\ TableOK /\ FinalOK
  BY DEF HandlerPart
<1>1. /\ server = "up" /\ pc = "idle" /\ held = None /\ table[n] = None
      /\ req' = Request("upload", n, t, uploads + 1) /\ pc' = "temp"
      /\ uploads' = uploads + 1 /\ uploads < MaxUploads
      /\ UNCHANGED <<files, temps, snapshot, table, server, held, next, faults, crashes,
                     littered, owed>>
  BY <1>0 DEF UploadStart, At, disk, ShapeOK, FreePcs
<1>2. uploads + 1 \in Ids /\ CountsTyped'
  BY <1>0, <1>1, ConstantsAssumption DEF CountsTyped, Ids
<1>3. /\ req' \in Requests /\ req' # None
      /\ req'.kind = "upload" /\ req'.name = n /\ req'.type = t /\ req'.id = uploads'
  BY <1>1, <1>2, NewRequest
<1>4. DiskTyped' /\ LocalsTyped' /\ littered' \in BOOLEAN /\ owed' \in Tables
  BY <1>0, <1>1, <1>3 DEF DiskTyped, LocalsTyped, Labels, HandlerPart
<1>5. ShapeOK' /\ TableOK' /\ FinalOK'
  BY <1>0, <1>1, <1>3 DEF ShapeOK, TableOK, FinalOK, MemoryMatchesDisk, Uploading, Deleting,
    FreePcs, UploadPcs, DeletePcs, LinkedPcs, PersistPcs
<1> QED
  BY <1>2, <1>4, <1>5 DEF HandlerPart

\* A deletion begins.
LEMMA DeleteStartHandler ==
  ASSUME HandlerPart, NEW n \in Names, DeleteStart(n), UNCHANGED blind
  PROVE  HandlerPart'
<1>0. DiskTyped /\ LocalsTyped /\ CountsTyped /\ ShapeOK /\ TableOK /\ FinalOK
  BY DEF HandlerPart
<1>1. /\ server = "up" /\ pc = "idle" /\ held = None /\ table[n] # None
      /\ req' = Request("delete", n, table[n].type, table[n].id)
      /\ UNCHANGED <<files, temps, snapshot, table, server, held, uploads, faults, crashes,
                     littered, owed>>
  BY <1>0 DEF DeleteStart, At, disk, bounds, ShapeOK, FreePcs
<1>2. table[n].type \in Types /\ table[n].id \in Ids /\ table \in Tables
  BY <1>0, <1>1, EntryTyped DEF LocalsTyped
<1>3. /\ req' \in Requests /\ req' # None
      /\ req'.kind = "delete" /\ req'.name = n /\ req'.type = table[n].type
  BY <1>1, <1>2, NewRequest
<1>4. DiskTyped' /\ CountsTyped' /\ littered' \in BOOLEAN /\ owed' \in Tables
  BY <1>0, <1>1 DEF DiskTyped, CountsTyped, HandlerPart
<1>b. ~blind
  BY <1>0, <1>1 DEF TableOK, MemoryMatchesDisk, EmptyTable
<1>5. CASE files[table[n].type][n] # None /\ pc' = "temp" /\ UNCHANGED next
  <2>1. LocalsTyped'
    BY <1>0, <1>1, <1>3, <1>5 DEF LocalsTyped, Labels
  <2>2. ShapeOK' /\ TableOK' /\ FinalOK'
    BY <1>0, <1>1, <1>b, <1>3, <1>5 DEF ShapeOK, TableOK, FinalOK, MemoryMatchesDisk, Uploading,
      Deleting, FreePcs, UploadPcs, DeletePcs, LinkedPcs, PersistPcs, Final
  <2> QED
    BY <1>4, <2>1, <2>2 DEF HandlerPart
<1>6. CASE files[table[n].type][n] = None /\ GotoPersist([table EXCEPT ![n] = None])
  <2>1. pc' = "persist" /\ next' = [table EXCEPT ![n] = None] /\ next' \in Tables
    BY <1>2, <1>6, SetEntry DEF GotoPersist
  <2>2. LocalsTyped'
    BY <1>0, <1>1, <1>3, <2>1 DEF LocalsTyped, Labels
  <2>3. ShapeOK' /\ TableOK' /\ FinalOK'
    BY <1>0, <1>1, <1>b, <1>3, <1>6, <2>1 DEF ShapeOK, TableOK, FinalOK, MemoryMatchesDisk,
      Uploading, Deleting, FreePcs, UploadPcs, DeletePcs, LinkedPcs, PersistPcs, Final
  <2> QED
    BY <1>4, <2>2, <2>3 DEF HandlerPart
<1> QED
  BY <1>5, <1>6 DEF DeleteStart

\* A download that unpacks begins.
LEMMA DownloadStartHandler ==
  ASSUME HandlerPart, NEW n \in Names, DownloadStart(n), UNCHANGED blind
  PROVE  HandlerPart'
<1>0. DiskTyped /\ LocalsTyped /\ CountsTyped /\ ShapeOK /\ TableOK /\ FinalOK
  BY DEF HandlerPart
<1>1. /\ server = "up" /\ pc = "idle" /\ held = None /\ table[n] # None
      /\ req' = Request("download", n, "deep", table[n].id) /\ pc' = "temp"
      /\ UNCHANGED <<files, temps, snapshot, table, server, held, next, uploads, faults,
                     crashes, littered, owed>>
  BY <1>0 DEF DownloadStart, At, disk, bounds, ShapeOK, FreePcs
<1>2. table[n].id \in Ids
  BY <1>0, <1>1, EntryTyped DEF LocalsTyped
<1>3. req' \in Requests /\ req' # None /\ req'.kind = "download"
  BY <1>1, <1>2, NewRequest DEF Types
<1>4. /\ DiskTyped' /\ LocalsTyped' /\ CountsTyped'
      /\ littered' \in BOOLEAN /\ owed' \in Tables
  BY <1>0, <1>1, <1>3 DEF DiskTyped, LocalsTyped, CountsTyped, Labels, HandlerPart
<1>5. ShapeOK' /\ TableOK' /\ FinalOK'
  BY <1>0, <1>1, <1>3 DEF ShapeOK, TableOK, FinalOK, MemoryMatchesDisk, Uploading, Deleting,
    FreePcs, PersistPcs
<1> QED
  BY <1>4, <1>5 DEF HandlerPart

\* The server starts.
LEMMA StartHandler ==
  ASSUME HandlerPart, Start
  PROVE  HandlerPart'
<1>0. DiskTyped /\ LocalsTyped /\ CountsTyped /\ ShapeOK /\ TableOK /\ FinalOK
  BY DEF HandlerPart
<1>1. /\ pc = "idle" /\ req = None /\ held = None
      /\ UNCHANGED <<files, temps, snapshot, pc, req, held, next, uploads, crashes,
                     littered, owed>>
  BY <1>0 DEF Start, disk, ShapeOK, LocalsTyped, FreePcs
<1>2. table' \in Tables /\ server' \in {"up", "failed"}
  BY <1>0 DEF Start, DiskTyped, EmptyTable, Tables
<1>3. server' = "up" => table' = View'
  BY <1>1 DEF Start, View
<1>4. blind' \in BOOLEAN /\ (blind' => server' = "up")
  BY DEF Start
<1>5. faults' \in 0 .. MaxFaults
  BY <1>0, FaultTyped DEF Start
<1>6. /\ DiskTyped' /\ LocalsTyped' /\ CountsTyped'
      /\ littered' \in BOOLEAN /\ owed' \in Tables
  BY <1>0, <1>1, <1>2, <1>5 DEF DiskTyped, LocalsTyped, CountsTyped, HandlerPart
<1>7. ShapeOK' /\ TableOK' /\ FinalOK'
  BY <1>0, <1>1, <1>3, <1>4 DEF ShapeOK, TableOK, FinalOK, MemoryMatchesDisk, View, Uploading, Deleting,
    FreePcs, PersistPcs
<1> QED
  BY <1>4, <1>6, <1>7 DEF HandlerPart

\* It is shut down between two handlers.
LEMMA ShutdownHandler ==
  ASSUME HandlerPart, Shutdown
  PROVE  HandlerPart'
<1>0. DiskTyped /\ LocalsTyped /\ CountsTyped /\ ShapeOK /\ TableOK /\ FinalOK
  BY DEF HandlerPart
<1>1. /\ pc = "idle" /\ req = None /\ held = None /\ server' = "down"
      /\ UNCHANGED <<files, temps, snapshot, pc, req, held, next, uploads, faults, crashes,
                     littered, owed>>
  BY <1>0 DEF Shutdown, disk, bounds, ShapeOK, LocalsTyped, FreePcs
<1>2. table' \in Tables /\ blind' = FALSE
  BY DEF Shutdown, EmptyTable, Tables
<1>3. /\ DiskTyped' /\ LocalsTyped' /\ CountsTyped'
      /\ littered' \in BOOLEAN /\ owed' \in Tables
  BY <1>0, <1>1, <1>2 DEF DiskTyped, LocalsTyped, CountsTyped, HandlerPart
<1>4. ShapeOK' /\ TableOK' /\ FinalOK'
  BY <1>0, <1>1, <1>2 DEF ShapeOK, TableOK, FinalOK, MemoryMatchesDisk, Uploading, Deleting,
    FreePcs, PersistPcs
<1> QED
  BY <1>2, <1>3, <1>4 DEF HandlerPart

\* It dies.
LEMMA DieHandler ==
  ASSUME HandlerPart, Die, DiskTyped', owed' \in Tables
  PROVE  HandlerPart' /\ crashes' # 0
<1>1. /\ pc' = "idle" /\ req' = None /\ held' = None /\ server' = "down"
      /\ table' = EmptyTable /\ next' = EmptyTable /\ crashes' = crashes + 1
      /\ crashes < MaxCrashes /\ UNCHANGED <<uploads, faults, littered>> /\ blind' = FALSE
  BY DEF Die
<1>2. EmptyTable \in Tables
  BY DEF EmptyTable, Tables
<1>3. LocalsTyped' /\ littered' \in BOOLEAN
  BY <1>1, <1>2 DEF LocalsTyped, Labels, HandlerPart
<1>4. CountsTyped' /\ crashes' # 0
  BY <1>1, ConstantsAssumption DEF CountsTyped, HandlerPart
<1>5. ShapeOK' /\ TableOK' /\ FinalOK'
  BY <1>1 DEF ShapeOK, TableOK, FinalOK, MemoryMatchesDisk, Uploading, Deleting, FreePcs,
    PersistPcs
<1> QED
  BY <1>1, <1>3, <1>4, <1>5 DEF HandlerPart

\* What a loss of power leaves.
LEMMA PowerLossFrame ==
  ASSUME VersionsTyped, DiskTyped, PowerLoss
  PROVE  /\ DiskTyped' /\ VersionsTyped'
         /\ \A d \in Dirs : versions'[d] = {Content(d)'}
         /\ \E m \in versions["meta"] : snapshot' = m.files
         /\ \A t \in Types : \E v \in versions[t] :
              /\ files'[t] = v.files /\ Content(t)'.files = v.files
              /\ Content(t)'.trash = v.trash
<1>1. PICK low \in versions["low"], deep \in versions["deep"], meta \in versions["meta"] :
        /\ files' = [t \in Types |-> IF t = "low" THEN low.files ELSE deep.files]
        /\ snapshot' = meta.files
        /\ temps' = low.trash \cup deep.trash \cup {x \in temps : x.kind # "delete"}
  BY DEF PowerLoss
<1>2. /\ low.files \in [Names -> Ids \cup {None}] /\ deep.files \in [Names -> Ids \cup {None}]
      /\ meta.files \in Tables
      /\ low.trash \subseteq {x \in Temps : x.kind = "delete" /\ x.dir = "low"}
      /\ deep.trash \subseteq {x \in Temps : x.kind = "delete" /\ x.dir = "deep"}
  BY DEF VersionsTyped, VersionsOK, Types
<1>3. files'["low"] = low.files /\ files'["deep"] = deep.files
  BY <1>1 DEF Types
<1>4. DiskTyped'
  <2>1. files' \in [Types -> [Names -> Ids \cup {None}]]
    BY <1>1, <1>2
  <2>2. temps' \subseteq Temps /\ snapshot' \in Tables
    BY <1>1, <1>2 DEF DiskTyped
  <2> QED
    BY <2>1, <2>2 DEF DiskTyped
<1>5. DOMAIN versions' = Dirs /\ \A d \in Dirs : versions'[d] = {Content(d)'}
  BY DEF PowerLoss
<1>6. /\ Content("meta")'.files = snapshot'
      /\ \A t \in Types : /\ Content(t)'.files = files'[t]
                          /\ Content(t)'.trash = {x \in temps' : x.kind = "delete" /\ x.dir = t}
  BY DEF Content, Types
<1>7. /\ {x \in temps' : x.kind = "delete" /\ x.dir = "low"} = low.trash
      /\ {x \in temps' : x.kind = "delete" /\ x.dir = "deep"} = deep.trash
  BY <1>1, <1>2
<1>8. \A t \in Types : \E v \in versions[t] :
        /\ files'[t] = v.files /\ Content(t)'.files = v.files /\ Content(t)'.trash = v.trash
  BY <1>3, <1>6, <1>7 DEF Types
<1>9. VersionsOK'
  <2>1. \A m \in versions'["meta"] : m.files \in Tables
    BY <1>4, <1>5, <1>6 DEF DiskTyped, Dirs
  <2>2. ASSUME NEW t \in Types, NEW v \in versions'[t]
        PROVE  /\ v.files \in [Names -> Ids \cup {None}]
               /\ v.trash \subseteq {x \in Temps : x.kind = "delete" /\ x.dir = t}
    <3>1. v = Content(t)'
      BY <1>5, <2>2 DEF Dirs
    <3>2. PICK w \in versions[t] : Content(t)'.files = w.files /\ Content(t)'.trash = w.trash
      BY <1>8
    <3> QED
      BY <3>1, <3>2 DEF VersionsTyped, VersionsOK
  <2> QED
    BY <2>1, <2>2 DEF VersionsOK
<1>10. VersionsTyped'
  BY <1>5, <1>9 DEF VersionsTyped
<1> QED
  BY <1>1, <1>4, <1>5, <1>8, <1>10

\* The parts of HandlerInv.
LEMMA HandlerParts ==
  HandlerInv <=> /\ HandlerPart /\ VersionsTyped
                 /\ moved \subseteq Types \X Names
                 /\ trust \in {"synced", "failed", "lost"}
<1>1. HandlerInv <=> TypeOK /\ VersionsOK /\ ShapeOK /\ TableOK /\ FinalOK
  BY DEF HandlerInv
<1> HIDE DEF HandlerInv
<1>2. HandlerInv <=> /\ DiskTyped /\ LocalsTyped /\ CountsTyped /\ HistoryTyped /\ VersionsTyped
                     /\ ShapeOK /\ TableOK /\ FinalOK
  BY <1>1, TypeParts
<1> QED
  BY <1>2 DEF HandlerPart, HistoryTyped

\* Every step of a handler keeps its part.
LEMMA StepHandler ==
  ASSUME HandlerPart,
         \/ Start \/ Shutdown \/ PersistRename
         \/ (Begin \/ Step \/ Move \/ Sync) /\ UNCHANGED blind
  PROVE  HandlerPart'
<1>1. CASE Begin /\ UNCHANGED blind
  BY <1>1, UploadStartHandler, DeleteStartHandler, DownloadStartHandler DEF Begin
<1>2. CASE Step /\ UNCHANGED blind
  BY <1>2, CreateTempFileHandler, WriteTempHandler, GuardRemoveHandler, LinkHandler,
     UnlinkHandler, UnlinkFinalHandler, StatHandler, UndoHandler, PersistTempHandler,
     PersistWriteHandler, PersistUndoHandler, SwapHandler,
     ClearHandler, RestoreHandler, PurgeHandler DEF Step
<1>3. CASE Sync /\ UNCHANGED blind
  BY <1>3, SyncFileHandler, SyncMetaHandler, SyncUndoHandler DEF Sync
<1> QED
  BY <1>1, <1>2, <1>3, StartHandler, ShutdownHandler, MoveHandler, PersistRenameHandler

\* A step changes the bookkeeping of the syncs as its kind does.
LEMMA SyncStepFrame ==
  ASSUME HandlerInv, Sync
  PROVE  /\ UNCHANGED <<files, temps, snapshot, owed, littered, crashes, table, uploads>>
         /\ \E d \in Dirs : SyncDirectory(d)
<1>1. HandlerPart
  BY HandlerParts
<1>2. LocalsTyped /\ ShapeOK
  BY <1>1 DEF HandlerPart
<1>3. req # None => req.type \in Dirs
  BY <1>2, ReqTyped DEF Dirs
<1>4. req # None
  BY <1>2, HandlerAt DEF Sync, SyncFile, SyncMeta, SyncUndo, At
<1> QED
  BY <1>3, <1>4 DEF Sync, SyncFile, SyncMeta, SyncUndo, disk, Dirs

\* Every step keeps HandlerInv.
LEMMA HandlerStep ==
  ASSUME HandlerInv, [Next]_vars
  PROVE  HandlerInv'
<1>0. /\ HandlerPart /\ VersionsTyped /\ moved \subseteq Types \X Names
      /\ trust \in {"synced", "failed", "lost"}
  BY HandlerParts
<1>1. DiskTyped /\ CountsTyped /\ LocalsTyped /\ owed \in Tables
  BY <1>0 DEF HandlerPart
<1> SUFFICES /\ HandlerPart' /\ VersionsTyped' /\ moved' \subseteq Types \X Names
             /\ trust' \in {"synced", "failed", "lost"}
  BY Zenon DEF HandlerInv, HandlerPart, TypeOK, DiskTyped, LocalsTyped, CountsTyped, VersionsTyped
<1>2. CASE /\ \/ (Begin \/ Step) /\ UNCHANGED blind
              \/ Start \/ Shutdown \/ PersistRename
           /\ Remember /\ UNCHANGED <<moved, trust>>
  <2>1. HandlerPart'
    BY <1>0, <1>2, StepHandler
  <2>2. VersionsTyped'
    BY <1>0, <1>2, <2>1, RememberTyped DEF HandlerPart
  <2> QED
    BY <1>0, <1>2, <2>1, <2>2
<1>3. CASE Move /\ Remember /\ UNCHANGED <<trust, blind>>
  <2>1. HandlerPart'
    BY <1>0, <1>3, StepHandler
  <2>2. VersionsTyped'
    BY <1>0, <1>3, <2>1, RememberTyped DEF HandlerPart
  <2>3. req # None
    BY <1>1, <1>3 DEF Move, At, LocalsTyped
  <2>4. req.type \in Types /\ req.name \in Names
    BY <1>1, <2>3, ReqTyped
  <2>5. moved' \subseteq Types \X Names
    BY <1>0, <1>3, <2>4 DEF Move
  <2> QED
    BY <1>0, <1>3, <2>1, <2>2, <2>5
<1>4. CASE Crash /\ UNCHANGED versions
  <2>1. DiskTyped' /\ UNCHANGED <<files, temps, snapshot>> /\ UNCHANGED <<moved, trust>>
    BY <1>1, <1>4 DEF Crash, disk, DiskTyped
  <2>2. owed' \in Tables
    <3>1. \A n \in Names : owed[n] \in Entries \cup {None}
      BY <1>1 DEF Tables
    <3> QED
      BY <1>4, <3>1 DEF Crash, Tables
  <2>3. HandlerPart'
    BY <1>0, <1>4, <2>1, <2>2, DieHandler DEF Crash
  <2>4. VersionsTyped'
    BY <1>0, <1>4, <2>1 DEF VersionsTyped, VersionsOK, Content
  <2> QED
    BY <1>0, <2>1, <2>3, <2>4
<1>5. CASE Sync /\ UNCHANGED blind
  <2>1. HandlerPart'
    BY <1>0, <1>5, StepHandler
  <2>2. PICK d \in Dirs : SyncDirectory(d)
    BY <1>5, SyncStepFrame
  <2>3. UNCHANGED disk
    BY <1>5, SyncStepFrame DEF disk
  <2>4. HistoryTyped
    BY <1>0 DEF HistoryTyped, HandlerPart
  <2>5. /\ VersionsTyped' /\ moved' \subseteq moved
        /\ trust' \in {"synced", "failed", "lost"}
    BY <1>0, <1>1, <2>2, <2>3, <2>4, SyncTyped
  <2> QED
    BY <1>0, <2>1, <2>5
<1>6. CASE PowerLoss
  <2>1. DiskTyped' /\ VersionsTyped'
    BY <1>0, <1>1, <1>6, PowerLossFrame
  <2>2. owed' \in Tables
    <3>1. \A n \in Names : owed[n] \in Entries \cup {None}
      BY <1>1 DEF Tables
    <3> QED
      BY <1>6, <3>1 DEF PowerLoss, Tables
  <2>3. HandlerPart'
    BY <1>0, <1>6, <2>1, <2>2, DieHandler DEF PowerLoss
  <2> QED
    BY <1>6, <2>1, <2>3 DEF PowerLoss
<1>7. CASE UNCHANGED vars
  <2>1. /\ UNCHANGED <<files, temps, snapshot, table, server, pc, req, held, next, uploads>>
        /\ UNCHANGED <<faults, crashes, littered, owed, versions, moved, trust, blind>>
    BY <1>7 DEF vars
  <2>2. DiskTyped' /\ LocalsTyped' /\ CountsTyped' /\ VersionsTyped'
    BY <1>0, <1>1, <2>1 DEF DiskTyped, LocalsTyped, CountsTyped, VersionsTyped, VersionsOK, Content
  <2>3. ShapeOK' /\ TableOK' /\ FinalOK'
    BY <1>0, <2>1 DEF HandlerPart, ShapeOK, TableOK, FinalOK, MemoryMatchesDisk, Uploading,
      Deleting, Mine, Final
  <2> QED
    BY <1>0, <2>1, <2>2, <2>3 DEF HandlerPart
<1> QED
  BY <1>2, <1>3, <1>4, <1>5, <1>6, <1>7 DEF Next

-----------------------------------------------------------------------------
(* Nothing is left behind.                                                 *)

\* A server with an entry in memory has all those of the metadata.
LEMMA HandlerView ==
  ASSUME HandlerPart, server = "up", pc \notin {"sync_meta", "swap"}
  PROVE  /\ table = View
         /\ \A n \in Names : table[n] # None => ~blind /\ table = snapshot
<1>1. table = View
  BY DEF HandlerPart, TableOK, MemoryMatchesDisk, View
<1> QED
  BY <1>1 DEF View, EmptyTable

\* The file of a path whose name is in memory, when memory matches the disk.
LEMMA ByTable ==
  ASSUME HandlerPart, Clean, server = "up", pc \notin {"sync_meta", "swap"},
         NEW t \in Types, NEW n \in Names, ~Busy(t, n), table[n] # None
  PROVE  files[t][n] = IF table[n].type = t THEN table[n].id ELSE None
<1>1. table = snapshot
  BY HandlerView
<1> QED
  BY <1>1 DEF Clean, FilesMatch, ByEntry

\* A step that leaves files and metadata alone and no path gets ready.
LEMMA FilesKept ==
  ASSUME FilesMatch, UNCHANGED <<files, snapshot>>,
         \A t \in Types, n \in Names : Busy(t, n) => Busy(t, n)'
  PROVE  FilesMatch'
  BY DEF FilesMatch, ByEntry

\* A handler that returns leaves nothing if it has no temporary file.
LEMMA ReturnClean ==
  ASSUME HandlerPart, FilesMatch, Return, UNCHANGED <<files, snapshot>>, temps' = {},
         \A t \in Types, n \in Names : Busy(t, n) => files[t][n] = ByEntry(t, n)
  PROVE  Clean'
<1>1. pc' = "idle" /\ req' = None /\ held' = None
  BY DEF Return
<1>2. TempsMatch' /\ TrashMatch'
  BY <1>1 DEF TempsMatch, TrashMatch, Residue, StoragePcs, Deleting
<1>3. FilesMatch'
  BY DEF FilesMatch, ByEntry
<1> QED
  BY <1>2, <1>3 DEF Clean

\* The temporary file is created.
LEMMA CreateTempFileClean ==
  ASSUME HandlerPart, Clean, CreateTempFile
  PROVE  Clean'
<1>0. /\ LocalsTyped /\ ShapeOK /\ pc = "temp" /\ req # None /\ held = None
      /\ TempsMatch /\ FilesMatch /\ UNCHANGED <<files, snapshot, table>>
  BY DEF HandlerPart, Clean, CreateTempFile, At, LocalsTyped, ShapeOK, FreePcs
<1>1. temps = {}
  BY <1>0 DEF TempsMatch, Residue, StoragePcs
<1>2. \A t \in Types, n \in Names : ~Busy(t, n)
  BY <1>0 DEF Busy, LinkedPcs, PersistPcs
<1>3. CASE /\ temps' = temps \cup {Mine(0)}
           /\ held' = (IF req.kind = "delete" THEN None ELSE Mine(0))
           /\ pc' = (IF req.kind = "delete" THEN "clear" ELSE "write")
           /\ UNCHANGED <<req, next>>
  <2>1. Mine(0) # None /\ Mine(0)' = Mine(0)
    BY <1>0, <1>3, MineFields DEF Mine
  <2>2. TempsMatch' /\ TrashMatch'
    BY <1>1, <1>3, <2>1 DEF TempsMatch, TrashMatch, Residue, StoragePcs, PersistPcs
  <2>3. FilesMatch'
    BY <1>0, <1>2, FilesKept
  <2> QED
    BY <2>2, <2>3 DEF Clean
<1>4. CASE Return /\ UNCHANGED temps
  BY <1>0, <1>1, <1>2, <1>4, ReturnClean
<1> QED
  BY <1>3, <1>4 DEF CreateTempFile

\* It is written.
LEMMA WriteTempClean ==
  ASSUME HandlerPart, Clean, WriteTemp
  PROVE  Clean'
<1>0. /\ LocalsTyped /\ ShapeOK /\ pc = "write" /\ req # None /\ held # None
      /\ TempsMatch /\ FilesMatch /\ UNCHANGED <<files, snapshot, table, req>>
  BY DEF HandlerPart, Clean, WriteTemp, Goto, At, LocalsTyped, ShapeOK
<1>1. temps = {held}
  BY <1>0 DEF TempsMatch, Residue, StoragePcs
<1>2. \A t \in Types, n \in Names : ~Busy(t, n)
  BY <1>0 DEF Busy, LinkedPcs, PersistPcs
<1>3. FilesMatch'
  BY <1>0, <1>2, FilesKept
<1>4. held' # None /\ temps' = {held'} /\ pc' \in {"link", "guard"}
  <2>1. Mine(req.id) # None
    BY <1>0, MineFields, ReqTyped
  <2> QED
    BY <1>0, <1>1, <2>1 DEF WriteTemp, Goto
<1>5. TempsMatch' /\ TrashMatch'
  BY <1>4 DEF TempsMatch, TrashMatch, Residue, StoragePcs, PersistPcs
<1> QED
  BY <1>3, <1>5 DEF Clean

\* It is removed.
LEMMA GuardRemoveClean ==
  ASSUME HandlerPart, Clean, GuardRemove, ~littered'
  PROVE  Clean'
<1>0. /\ ShapeOK /\ pc = "guard" /\ held # None /\ TempsMatch /\ FilesMatch
      /\ UNCHANGED <<files, snapshot>> /\ Return /\ temps' = temps \ {held}
  BY DEF HandlerPart, Clean, GuardRemove, Litter, At, ShapeOK
<1>1. temps' = {}
  BY <1>0 DEF TempsMatch, Residue, StoragePcs
<1>2. \A t \in Types, n \in Names : ~Busy(t, n)
  BY <1>0 DEF Busy, LinkedPcs, PersistPcs
<1> QED
  BY <1>0, <1>1, <1>2, ReturnClean

\* The file is linked.
LEMMA LinkClean ==
  ASSUME HandlerPart, Clean, Link
  PROVE  Clean'
<1>0. /\ DiskTyped /\ LocalsTyped /\ ShapeOK /\ pc = "link" /\ held # None
      /\ TempsMatch /\ FilesMatch
      /\ UNCHANGED <<temps, snapshot, table, req, held>> /\ pc' \in {"unlink", "guard"}
  BY DEF HandlerPart, Clean, Link, Goto, At, ShapeOK
<1>a. Uploading
  BY <1>0, HandlerAt
<1>1. temps = {held}
  BY <1>0 DEF TempsMatch, Residue, StoragePcs
<1>2. \A t \in Types, n \in Names : ~Busy(t, n)
  BY <1>0 DEF Busy, LinkedPcs, PersistPcs
<1>3. TempsMatch' /\ TrashMatch'
  BY <1>0, <1>1 DEF TempsMatch, TrashMatch, Residue, StoragePcs, PersistPcs
<1>4. CASE SetFinal(req.id) /\ Goto("unlink")
  <2>1. \A t \in Types, n \in Names :
          t # req.type \/ n # req.name => files'[t][n] = files[t][n]
    BY <1>0, <1>4, <1>a, FinalSet, ReqTyped DEF Uploading
  <2>2. \A t \in Types, n \in Names : ~Busy(t, n)' => t # req.type \/ n # req.name
    BY <1>0, <1>4, <1>a DEF Busy, Uploading, LinkedPcs, Goto
  <2>3. FilesMatch'
    BY <1>0, <1>2, <2>1, <2>2 DEF FilesMatch, ByEntry
  <2> QED
    BY <1>3, <2>3 DEF Clean
<1>5. CASE UNCHANGED files
  BY <1>0, <1>2, <1>3, <1>5, FilesKept DEF Clean
<1> QED
  BY <1>4, <1>5 DEF Link

\* The temporary name is removed.
LEMMA UnlinkClean ==
  ASSUME HandlerPart, Clean, Unlink
  PROVE  Clean'
<1>0. /\ LocalsTyped /\ ShapeOK /\ pc = "unlink" /\ held # None /\ TempsMatch /\ FilesMatch
      /\ UNCHANGED <<files, snapshot, req>> /\ pc' \in {"sync", "unlink_final"}
  BY DEF HandlerPart, Clean, Unlink, Goto, At, ShapeOK
<1>1. temps = {held}
  BY <1>0 DEF TempsMatch, Residue, StoragePcs
<1>2. TempsMatch' /\ TrashMatch'
  BY <1>0, <1>1 DEF TempsMatch, TrashMatch, Residue, StoragePcs, PersistPcs, Unlink, Goto
<1>3. Uploading
  BY <1>0, HandlerAt
<1>4. \A t \in Types, n \in Names : Busy(t, n) => Busy(t, n)'
  BY <1>0, <1>3 DEF Busy, LinkedPcs, Uploading
<1> QED
  BY <1>0, <1>2, <1>4, FilesKept DEF Clean

\* An upload's file is removed again.
LEMMA UndoneFiles ==
  ASSUME HandlerPart, FilesMatch, PathFree, Uploading,
         pc \in LinkedPcs \ {"sync_meta", "swap"}, SetFinal(None), UNCHANGED snapshot
  PROVE  FilesMatch'
<1>0. DiskTyped /\ LocalsTyped /\ TableOK /\ req # None
  BY DEF HandlerPart, Uploading
<1>1. ByEntry(req.type, req.name) = None
  BY DEF PathFree
<1>2. /\ files'[req.type][req.name] = None
      /\ \A t \in Types, n \in Names :
           t # req.type \/ n # req.name => files'[t][n] = files[t][n]
  BY <1>0, FinalSet
<1>3. ASSUME NEW t \in Types, NEW n \in Names PROVE files'[t][n] = ByEntry(t, n)'
  <2>1. CASE t = req.type /\ n = req.name
    BY <1>1, <1>2, <2>1 DEF ByEntry
  <2>2. CASE t # req.type \/ n # req.name
    <3>1. ~Busy(t, n)
      BY <2>2 DEF Busy
    <3>2. files[t][n] = ByEntry(t, n)
      BY <3>1 DEF FilesMatch
    <3> QED
      BY <1>2, <2>2, <3>2 DEF ByEntry
  <2> QED
    BY <2>1, <2>2
<1> QED
  BY <1>3 DEF FilesMatch

\* The hard link is taken back.
LEMMA UnlinkFinalClean ==
  ASSUME HandlerPart, Clean, PathFree, UnlinkFinal, ~littered'
  PROVE  Clean'
<1>0. /\ LocalsTyped /\ ShapeOK /\ pc = "unlink_final" /\ server = "up" /\ held # None
      /\ TempsMatch /\ FilesMatch /\ SetFinal(None)
      /\ UNCHANGED <<temps, snapshot, req, held>> /\ pc' = "guard"
  BY DEF HandlerPart, Clean, UnlinkFinal, Litter, Goto, At, ShapeOK
<1>1. temps = {held}
  BY <1>0 DEF TempsMatch, Residue, StoragePcs
<1>2. TempsMatch' /\ TrashMatch'
  BY <1>0, <1>1 DEF TempsMatch, TrashMatch, Residue, StoragePcs, PersistPcs
<1>3. Uploading
  BY <1>0, HandlerAt
<1>4. pc \in LinkedPcs \ {"sync_meta", "swap"}
  BY <1>0 DEF LinkedPcs
<1> QED
  BY <1>0, <1>2, <1>3, <1>4, UndoneFiles DEF Clean

\* The entry is made.
LEMMA StatClean ==
  ASSUME HandlerPart, Clean, Stat
  PROVE  Clean'
<1>0. /\ LocalsTyped /\ ShapeOK /\ pc = "stat" /\ held = None /\ TempsMatch /\ FilesMatch
      /\ UNCHANGED <<files, temps, snapshot, req, held>> /\ pc' \in {"persist", "undo_stat"}
  BY DEF HandlerPart, Clean, Stat, GotoPersist, Goto, At, ShapeOK, FreePcs, disk
<1>3. Uploading
  BY <1>0, HandlerAt
<1>2. TempsMatch' /\ TrashMatch'
  BY <1>0, <1>3 DEF TempsMatch, TrashMatch, Residue, StoragePcs, Uploading, Deleting
<1>4. \A t \in Types, n \in Names : Busy(t, n) => Busy(t, n)'
  BY <1>0, <1>3 DEF Busy, LinkedPcs, PersistPcs, Uploading
<1> QED
  BY <1>0, <1>2, <1>4, FilesKept DEF Clean

\* An upload without an entry is undone.
LEMMA UndoClean ==
  ASSUME HandlerPart, Clean, PathFree, Undo, ~littered'
  PROVE  Clean'
<1>0. /\ LocalsTyped /\ ShapeOK /\ pc \in {"undo_stat", "undo"} /\ server = "up"
      /\ held = None /\ TempsMatch /\ FilesMatch /\ SetFinal(None)
      /\ UNCHANGED <<temps, snapshot>> /\ held' = None /\ pc' \in {"sync_undo", "idle"}
  BY DEF HandlerPart, Clean, Undo, Litter, Goto, Return, At, ShapeOK, FreePcs
<1>1. temps = {}
  BY <1>0 DEF TempsMatch, Residue, StoragePcs
<1>2. TempsMatch' /\ TrashMatch'
  BY <1>0, <1>1 DEF TempsMatch, TrashMatch, Residue, StoragePcs, PersistPcs
<1>3. Uploading
  BY <1>0, HandlerAt
<1>4. pc \in LinkedPcs \ {"sync_meta", "swap"}
  BY <1>0 DEF LinkedPcs
<1> QED
  BY <1>0, <1>2, <1>3, <1>4, UndoneFiles DEF Clean

\* Labels at which a handler is at Persist or undoes it.
LEMMA BusyKept ==
  ASSUME LocalsTyped, ShapeOK, pc \in PersistPcs, UNCHANGED req,
         pc' \in PersistPcs \/ pc' = FailedPersist
  PROVE  /\ \A t \in Types, n \in Names : Busy(t, n) => Busy(t, n)'
         /\ Deleting' = Deleting /\ (Deleting => held = None \/ held.kind = "delete")
         /\ Uploading => held = None
<1>1. req # None /\ (Uploading \/ Deleting)
  BY HandlerAt DEF PersistPcs
<1>2. \A t \in Types, n \in Names : Busy(t, n) => Busy(t, n)'
  BY <1>1 DEF Busy, LinkedPcs, PersistPcs, Uploading, Deleting, FailedPersist
<1>3. Deleting /\ held # None => held.kind = "delete"
  <2> SUFFICES ASSUME Deleting, held # None PROVE held.kind = "delete"
    OBVIOUS
  <2>1. held = Mine(held.id) /\ held.id \in Ids /\ req.kind = "delete"
    BY DEF ShapeOK, Deleting
  <2> QED
    BY <1>1, <2>1, MineFields
<1> QED
  BY <1>2, <1>3 DEF Deleting, ShapeOK

\* Persist creates its temporary file.
LEMMA PersistTempClean ==
  ASSUME HandlerPart, Clean, PersistTemp
  PROVE  Clean'
<1>0. /\ LocalsTyped /\ ShapeOK /\ pc = "persist" /\ TempsMatch /\ FilesMatch /\ TrashMatch
      /\ UNCHANGED <<files, snapshot, table, req, held>>
  BY DEF HandlerPart, Clean, PersistTemp, Goto, At, ShapeOK
<1>1. pc' = "persist_write" \/ pc' = FailedPersist
  BY DEF PersistTemp, Goto
<1>2. /\ \A t \in Types, n \in Names : Busy(t, n) => Busy(t, n)'
      /\ Deleting' = Deleting
  BY <1>0, <1>1, BusyKept DEF PersistPcs
<1>3. FilesMatch' /\ TrashMatch'
  BY <1>0, <1>2, FilesKept DEF TrashMatch, PersistPcs
<1>4. TempsMatch'
  BY <1>0 DEF TempsMatch, Residue, StoragePcs, PersistTemp, Goto, FailedPersist
<1> QED
  BY <1>3, <1>4 DEF Clean

\* Persist writes it.
LEMMA PersistWriteClean ==
  ASSUME HandlerPart, Clean, PersistWrite
  PROVE  Clean'
<1>0. /\ LocalsTyped /\ ShapeOK /\ pc = "persist_write" /\ TempsMatch /\ FilesMatch /\ TrashMatch
      /\ UNCHANGED <<files, temps, snapshot, table, req, held>>
      /\ pc' \in {"persist_rename", "persist_undo"}
  BY DEF HandlerPart, Clean, PersistWrite, Goto, At, ShapeOK, disk
<1>1. /\ \A t \in Types, n \in Names : Busy(t, n) => Busy(t, n)'
      /\ Deleting' = Deleting
  BY <1>0, BusyKept DEF PersistPcs
<1>2. FilesMatch' /\ TrashMatch'
  BY <1>0, <1>1, FilesKept DEF TrashMatch, PersistPcs
<1>3. TempsMatch'
  BY <1>0 DEF TempsMatch, Residue, StoragePcs
<1> QED
  BY <1>2, <1>3 DEF Clean

\* Storage is not the temporary file of a handler.
LEMMA StorageNotHeld ==
  ASSUME LocalsTyped, ShapeOK, pc \in PersistPcs
  PROVE  held # Storage
<1>1. req # None /\ (Uploading \/ Deleting)
  BY HandlerAt DEF PersistPcs
<1>2. Storage.kind = "storage" /\ Storage # None
  BY TempFields DEF Storage, TempKinds, Dirs
<1>3. CASE held = None
  BY <1>2, <1>3
<1>4. CASE held # None
  <2>1. held = Mine(held.id) /\ held.id \in Ids
    BY <1>1, <1>4 DEF ShapeOK
  <2> QED
    BY <1>1, <2>1, MineFields
<1> QED
  BY <1>3, <1>4

\* Persist replaces the metadata file.
LEMMA PersistRenameClean ==
  ASSUME HandlerPart, Clean, PersistRename, ~littered'
  PROVE  Clean'
<1>0. /\ LocalsTyped /\ ShapeOK /\ TableOK /\ pc = "persist_rename" /\ server = "up"
      /\ TempsMatch /\ FilesMatch /\ TrashMatch
      /\ UNCHANGED <<files, table, req, held>> /\ pc' \in {"sync_meta", "persist_undo"}
  BY DEF HandlerPart, Clean, PersistRename, Goto, At, ShapeOK
<1>1. /\ \A t \in Types, n \in Names : Busy(t, n) => Busy(t, n)'
      /\ Deleting' = Deleting
  BY <1>0, BusyKept DEF PersistPcs
<1>2. TrashMatch'
  BY <1>0, <1>1 DEF TrashMatch, PersistPcs
<1>3. CASE UNCHANGED <<snapshot, temps>> /\ pc' = "persist_undo"
  <2>1. FilesMatch'
    BY <1>0, <1>1, <1>3, FilesKept
  <2>2. TempsMatch'
    BY <1>0, <1>3 DEF TempsMatch, Residue, StoragePcs
  <2> QED
    BY <1>2, <2>1, <2>2 DEF Clean
<1>4. CASE /\ snapshot' = next /\ temps' = temps \ {Storage} /\ pc' = "sync_meta"
           /\ littered' = (littered \/ blind)
  <2>1. held # Storage
    BY <1>0, StorageNotHeld DEF PersistPcs
  <2>2. TempsMatch'
    BY <1>0, <1>4, <2>1 DEF TempsMatch, Residue, StoragePcs
  <2>3. req # None /\ (Uploading \/ Deleting)
    BY <1>0, HandlerAt DEF PersistPcs
  <2>4. req.name \in Names /\ req.type \in Types /\ req.id \in Ids /\ table \in Tables
    BY <1>0, <2>3, ReqTyped DEF LocalsTyped
  <2>5. PICK e : e = IF req.kind = "upload" THEN [type |-> req.type, id |-> req.id] ELSE None
    OBVIOUS
  <2>6. /\ e \in Entries \cup {None} /\ (e # None => e.type = req.type)
        /\ next = [table EXCEPT ![req.name] = e]
    BY <1>0, <2>4, <2>5, NewEntry DEF TableOK, PersistPcs
  <2>7. next[req.name] = e /\ \A n \in Names : n # req.name => next[n] = table[n]
    BY <2>4, <2>6, SetEntry
  <2>8. table = snapshot /\ (table[req.name] # None => table[req.name].type = req.type)
    <3>1. ~blind
      BY <1>4
    <3> QED
      BY <1>0, <2>3, <3>1 DEF TableOK, MemoryMatchesDisk, Uploading, Deleting
  <2>9. ASSUME NEW t \in Types, NEW n \in Names, ~Busy(t, n)'
        PROVE  files'[t][n] = ByEntry(t, n)'
    <3>1. ~Busy(t, n) /\ files[t][n] = ByEntry(t, n)
      BY <1>0, <1>1, <2>9 DEF FilesMatch
    <3>2. CASE n # req.name
      BY <1>0, <1>4, <2>7, <2>8, <3>1, <3>2 DEF ByEntry
    <3>3. CASE n = req.name
      <4>1. t # req.type
        BY <1>0, <2>3, <3>1, <3>3 DEF Busy, LinkedPcs, PersistPcs, Uploading, Deleting
      <4> QED
        BY <1>0, <1>4, <2>6, <2>7, <2>8, <3>1, <3>3, <4>1 DEF ByEntry
    <3> QED
      BY <3>2, <3>3
  <2> QED
    BY <1>2, <2>2, <2>9 DEF Clean, FilesMatch
<1> QED
  BY <1>3, <1>4 DEF PersistRename, Goto

\* Persist removes its temporary file.
LEMMA PersistUndoClean ==
  ASSUME HandlerPart, Clean, PersistUndo, ~littered'
  PROVE  Clean'
<1>0. /\ LocalsTyped /\ ShapeOK /\ pc = "persist_undo" /\ TempsMatch /\ FilesMatch /\ TrashMatch
      /\ UNCHANGED <<files, snapshot, table, req, held>> /\ pc' = FailedPersist
      /\ temps' = temps \ {Storage}
  BY DEF HandlerPart, Clean, PersistUndo, Litter, Goto, At, ShapeOK
<1>1. /\ \A t \in Types, n \in Names : Busy(t, n) => Busy(t, n)'
      /\ Deleting' = Deleting
  BY <1>0, BusyKept DEF PersistPcs
<1>2. FilesMatch' /\ TrashMatch'
  BY <1>0, <1>1, FilesKept DEF TrashMatch, PersistPcs
<1>3. held # Storage
  BY <1>0, StorageNotHeld DEF PersistPcs
<1>4. TempsMatch'
  BY <1>0, <1>3 DEF TempsMatch, Residue, StoragePcs, FailedPersist
<1> QED
  BY <1>2, <1>4 DEF Clean

\* The new table takes the place of the old one.
LEMMA SwapClean ==
  ASSUME HandlerPart, Clean, Swap
  PROVE  Clean'
<1>0. /\ LocalsTyped /\ ShapeOK /\ TableOK /\ FinalOK /\ pc = "swap"
      /\ TempsMatch /\ FilesMatch /\ UNCHANGED <<files, temps, snapshot>>
  BY DEF HandlerPart, Clean, Swap, At, ShapeOK, disk
<1>1. req # None /\ (Uploading \/ Deleting)
  BY <1>0, HandlerAt DEF PersistPcs
<1>2. req.name \in Names /\ req.type \in Types /\ req.id \in Ids /\ table \in Tables
  BY <1>0, <1>1, ReqTyped DEF LocalsTyped
<1>3. /\ Uploading => held = None /\ Final = req.id
      /\ Deleting => Final = None
  BY <1>0 DEF ShapeOK, FinalOK, LinkedPcs, PersistPcs
<1>4. /\ Uploading => snapshot[req.name] # None /\ snapshot[req.name].type = req.type
                        /\ snapshot[req.name].id = req.id
      /\ Deleting => snapshot[req.name] = None
  <2>1. snapshot = [table EXCEPT ![req.name] =
                      IF req.kind = "upload" THEN [type |-> req.type, id |-> req.id] ELSE None]
    BY <1>0 DEF TableOK, PersistPcs
  <2>2. CASE Uploading
    <3>1. snapshot[req.name] = [type |-> req.type, id |-> req.id]
      BY <1>2, <2>1, <2>2, NewEntry, SetEntry DEF Uploading
    <3> QED
      BY <1>2, <2>2, <3>1, NewEntry DEF Uploading, Deleting
  <2>3. CASE Deleting
    BY <1>2, <2>1, <2>3, SetEntry DEF Uploading, Deleting
  <2> QED
    BY <1>1, <2>2, <2>3
<1>5. ASSUME NEW t \in Types, NEW n \in Names PROVE files[t][n] = ByEntry(t, n)
  <2>1. CASE t = req.type /\ n = req.name
    BY <1>1, <1>3, <1>4, <2>1 DEF ByEntry, Final
  <2>2. CASE t # req.type \/ n # req.name
    <3>1. ~Busy(t, n)
      BY <2>2 DEF Busy
    <3> QED
      BY <1>0, <3>1 DEF FilesMatch
  <2> QED
    BY <2>1, <2>2
<1>6. temps = IF held = None THEN {} ELSE {held}
  BY <1>0 DEF TempsMatch, Residue, StoragePcs
<1>7. FilesMatch'
  BY <1>0, <1>5 DEF FilesMatch, ByEntry
<1>8. TempsMatch' /\ TrashMatch'
  <2>1. CASE Uploading
    <3>1. pc' = "idle" /\ held' = None
      BY <2>1 DEF Swap, Return, Uploading
    <3> QED
      BY <1>0, <1>3, <1>6, <2>1, <3>1 DEF TempsMatch, TrashMatch, Residue, StoragePcs, PersistPcs
  <2>2. CASE Deleting
    <3>1. pc' = "purge" /\ held' = held
      BY <2>2 DEF Swap, Goto, Deleting
    <3> QED
      BY <1>0, <1>6, <3>1 DEF TempsMatch, TrashMatch, Residue, StoragePcs, PersistPcs
  <2> QED
    BY <1>1, <2>1, <2>2
<1> QED
  BY <1>7, <1>8 DEF Clean

\* The name reserved is freed.
LEMMA ClearClean ==
  ASSUME HandlerPart, Clean, Clear
  PROVE  Clean'
<1>0. /\ LocalsTyped /\ ShapeOK /\ pc = "clear" /\ held = None /\ TempsMatch /\ FilesMatch
      /\ UNCHANGED <<files, snapshot, req, held>> /\ pc' = "move"
  BY DEF HandlerPart, Clean, Clear, Goto, At, ShapeOK, FreePcs
<1>1. temps = {Mine(0)}
  BY <1>0 DEF TempsMatch, Residue, StoragePcs
<1>2. Mine(0)' = Mine(0)
  BY <1>0 DEF Mine
<1>3. TempsMatch' /\ TrashMatch'
  BY <1>0, <1>1, <1>2 DEF TempsMatch, TrashMatch, PersistPcs, Clear
<1>4. \A t \in Types, n \in Names : ~Busy(t, n)
  BY <1>0 DEF Busy, LinkedPcs, PersistPcs
<1> QED
  BY <1>0, <1>3, <1>4, FilesKept DEF Clean

\* The file is moved to the trash.
LEMMA MoveClean ==
  ASSUME HandlerPart, Clean, Move, ~littered'
  PROVE  Clean'
<1>0. /\ DiskTyped /\ LocalsTyped /\ ShapeOK /\ TableOK /\ FinalOK /\ pc = "move"
      /\ server = "up" /\ held = None /\ TempsMatch /\ FilesMatch /\ UNCHANGED <<snapshot, table>>
  BY DEF HandlerPart, Clean, Move, At, ShapeOK, FreePcs
<1>1. Deleting /\ req # None
  BY <1>0, HandlerAt DEF Deleting
<1>2. temps \subseteq {Mine(0)}
  BY <1>0 DEF TempsMatch
<1>3. \A t \in Types, n \in Names : ~Busy(t, n)
  BY <1>0 DEF Busy, LinkedPcs, PersistPcs
<1>4. req.name \in Names /\ req.type \in Types
  BY <1>0, <1>1, ReqTyped
<1>5. table[req.name] # None /\ table[req.name].type = req.type
  BY <1>0, <1>1 DEF TableOK
<1>6. Final = table[req.name].id /\ Final \in Ids
  <2>1. Final = table[req.name].id
    BY <1>0, <1>3, <1>4, <1>5, ByTable DEF Final
  <2>2. table[req.name].id \in Ids
    BY <1>0, <1>4, <1>5, EntryTyped DEF LocalsTyped
  <2> QED
    BY <2>1, <2>2
<1>7. CASE /\ SetFinal(None) /\ held' = Mine(Final)
           /\ temps' = (temps \ {Mine(0)}) \cup {held'} /\ pc' = "persist" /\ UNCHANGED req
  <2>1. Mine(Final) # None /\ Mine(Final).id = Final
    BY <1>0, <1>1, <1>6, MineFields
  <2>2. TempsMatch' /\ TrashMatch'
    BY <1>0, <1>2, <1>6, <1>7, <2>1 DEF TempsMatch, TrashMatch, Residue, StoragePcs
  <2>3. \A t \in Types, n \in Names :
          t # req.type \/ n # req.name => files'[t][n] = files[t][n]
    BY <1>0, <1>1, <1>7, FinalSet
  <2>4. \A t \in Types, n \in Names : ~Busy(t, n)' => t # req.type \/ n # req.name
    BY <1>1, <1>7 DEF Busy, Deleting, PersistPcs
  <2>5. FilesMatch'
    BY <1>0, <1>3, <2>3, <2>4 DEF FilesMatch, ByEntry
  <2> QED
    BY <2>2, <2>5 DEF Clean
<1>8. CASE Return /\ littered' = (littered \/ Mine(0) \in temps) /\ UNCHANGED <<files, temps>>
  <2>1. temps' = {}
    BY <1>2, <1>8
  <2> QED
    BY <1>0, <1>3, <1>8, <2>1, ReturnClean
<1> QED
  BY <1>7, <1>8 DEF Move, GotoPersist

\* The file is moved back.
LEMMA RestoreClean ==
  ASSUME HandlerPart, Clean, Restore, ~littered'
  PROVE  Clean'
<1>0. /\ DiskTyped /\ LocalsTyped /\ ShapeOK /\ TableOK /\ FinalOK /\ pc = "restore"
      /\ server = "up" /\ TempsMatch /\ FilesMatch /\ TrashMatch
      /\ UNCHANGED snapshot /\ Return
  BY DEF HandlerPart, Clean, Restore, At, ShapeOK
<1>1. Deleting /\ req # None
  BY <1>0, HandlerAt DEF Deleting
<1>2. held # None /\ held.id = table[req.name].id /\ held.id \in Ids
  BY <1>0, <1>1 DEF TrashMatch, ShapeOK
<1>3. SetFinal(held.id) /\ temps' = temps \ {held}
  BY <1>2 DEF Restore, Litter
<1>4. temps' = {}
  BY <1>0, <1>2, <1>3 DEF TempsMatch, Residue, StoragePcs
<1>5. /\ files'[req.type][req.name] = held.id
      /\ \A t \in Types, n \in Names :
           t # req.type \/ n # req.name => files'[t][n] = files[t][n]
  BY <1>0, <1>1, <1>2, <1>3, FinalSet
<1>6. /\ snapshot[req.name] = table[req.name]
      /\ snapshot[req.name] # None /\ snapshot[req.name].type = req.type
  <2>1. table[req.name] # None /\ table[req.name].type = req.type /\ req.name \in Names
    BY <1>0, <1>1, ReqTyped DEF TableOK
  <2>2. table = snapshot
    BY <1>0, <2>1, HandlerView
  <2> QED
    BY <2>1, <2>2
<1>7. ASSUME NEW t \in Types, NEW n \in Names PROVE files'[t][n] = ByEntry(t, n)'
  <2>1. CASE t = req.type /\ n = req.name
    BY <1>0, <1>2, <1>5, <1>6, <2>1 DEF ByEntry
  <2>2. CASE t # req.type \/ n # req.name
    <3>1. ~Busy(t, n)
      BY <2>2 DEF Busy
    <3>2. files[t][n] = ByEntry(t, n)
      BY <1>0, <3>1 DEF FilesMatch
    <3> QED
      BY <1>0, <1>5, <2>2, <3>2 DEF ByEntry
  <2> QED
    BY <2>1, <2>2
<1>8. TempsMatch' /\ TrashMatch'
  BY <1>0, <1>4 DEF TempsMatch, TrashMatch, Residue, StoragePcs, PersistPcs, Return
<1> QED
  BY <1>7, <1>8 DEF Clean, FilesMatch

\* The trash is removed.
LEMMA PurgeClean ==
  ASSUME HandlerPart, Clean, Purge
  PROVE  Clean'
<1>0. /\ ShapeOK /\ pc = "purge" /\ TempsMatch /\ FilesMatch /\ UNCHANGED <<files, snapshot>>
  BY DEF HandlerPart, Clean, Purge, At, ShapeOK
<1>1. temps = IF held = None THEN {} ELSE {held}
  BY <1>0 DEF TempsMatch, Residue, StoragePcs
<1>2. \A t \in Types, n \in Names : ~Busy(t, n)
  BY <1>0 DEF Busy, LinkedPcs, PersistPcs
<1>3. CASE Return
  <2>1. temps' = {}
    BY <1>0, <1>1, <1>3 DEF Purge, Return, Goto
  <2> QED
    BY <1>0, <1>2, <1>3, <2>1, ReturnClean
<1>4. CASE held # None /\ Goto("guard") /\ UNCHANGED temps
  <2>1. TempsMatch' /\ TrashMatch'
    BY <1>1, <1>4 DEF TempsMatch, TrashMatch, Residue, StoragePcs, PersistPcs, Goto
  <2>2. FilesMatch'
    BY <1>0, <1>2, FilesKept
  <2> QED
    BY <2>1, <2>2 DEF Clean
<1> QED
  BY <1>3, <1>4 DEF Purge

\* A sync.
LEMMA SyncClean ==
  ASSUME HandlerPart, Clean, Sync
  PROVE  Clean'
<1>0. /\ LocalsTyped /\ ShapeOK /\ TempsMatch /\ FilesMatch /\ TrashMatch
      /\ UNCHANGED <<files, temps, snapshot, table>>
  BY DEF HandlerPart, Clean, Sync, SyncFile, SyncMeta, SyncUndo, disk
<1>1. CASE pc = "sync" /\ Goto("stat")
  <2>1. Uploading
    BY <1>0, <1>1, HandlerAt
  <2>2. \A t \in Types, n \in Names : Busy(t, n) => Busy(t, n)'
    BY <1>1, <2>1 DEF Busy, LinkedPcs, Uploading, Goto
  <2>3. TempsMatch' /\ TrashMatch'
    BY <1>0, <1>1 DEF TempsMatch, TrashMatch, Residue, StoragePcs, PersistPcs, Goto
  <2> QED
    BY <1>0, <2>2, <2>3, FilesKept DEF Clean
<1>2. CASE pc = "sync_meta" /\ Goto("swap")
  <2>1. /\ \A t \in Types, n \in Names : Busy(t, n) => Busy(t, n)'
        /\ Deleting' = Deleting
    BY <1>0, <1>2, BusyKept DEF PersistPcs, Goto
  <2>2. TempsMatch' /\ TrashMatch'
    BY <1>0, <1>2, <2>1 DEF TempsMatch, TrashMatch, Residue, StoragePcs, PersistPcs, Goto
  <2> QED
    BY <1>0, <2>1, <2>2, FilesKept DEF Clean
<1>3. CASE pc = "sync_undo" /\ Return
  <2>1. temps' = {}
    BY <1>0, <1>3 DEF TempsMatch, Residue, StoragePcs, ShapeOK, FreePcs
  <2>2. \A t \in Types, n \in Names : ~Busy(t, n)
    BY <1>3 DEF Busy, LinkedPcs, PersistPcs
  <2> QED
    BY <1>0, <1>3, <2>1, <2>2, ReturnClean
<1> QED
  BY <1>1, <1>2, <1>3 DEF Sync, SyncFile, SyncMeta, SyncUndo, At

\* A request begins.
LEMMA BeginClean ==
  ASSUME HandlerPart, Clean, Begin
  PROVE  Clean'
<1>0. /\ LocalsTyped /\ ShapeOK /\ TableOK /\ TempsMatch /\ FilesMatch
      /\ pc = "idle" /\ server = "up" /\ held = None
      /\ UNCHANGED <<files, temps, snapshot, table, held>>
  BY DEF HandlerPart, Clean, Begin, UploadStart, DeleteStart, DownloadStart, At, disk, ShapeOK,
    FreePcs
<1>1. \A t \in Types, n \in Names : ~Busy(t, n)
  BY <1>0 DEF Busy, LinkedPcs, PersistPcs
<1>2. pc' = "temp"
  <2>1. ASSUME NEW n \in Names, DeleteStart(n) PROVE pc' = "temp"
    <3>1. table[n] # None /\ table[n].type \in Types /\ table[n].id \in Ids
      BY <1>0, <2>1, EntryTyped DEF DeleteStart, LocalsTyped
    <3>2. files[table[n].type][n] = table[n].id
      BY <1>0, <1>1, <3>1, ByTable
    <3>3. files[table[n].type][n] # None
      BY <3>1, <3>2, NoneAssumption
    <3> QED
      BY <2>1, <3>3 DEF DeleteStart
  <2> QED
    BY <2>1 DEF Begin, UploadStart, DownloadStart
<1>3. TempsMatch' /\ TrashMatch'
  BY <1>0, <1>2 DEF TempsMatch, TrashMatch, Residue, StoragePcs, PersistPcs
<1> QED
  BY <1>0, <1>1, <1>3, FilesKept DEF Clean

\* The server starts or is shut down.
LEMMA StartClean ==
  ASSUME HandlerPart, Clean, Start \/ Shutdown
  PROVE  Clean'
<1>0. /\ LocalsTyped /\ ShapeOK /\ TempsMatch /\ FilesMatch /\ pc = "idle"
      /\ UNCHANGED <<files, temps, snapshot, held, pc, req>>
  BY DEF HandlerPart, Clean, Start, Shutdown, disk, ShapeOK
<1>1. TempsMatch' /\ TrashMatch'
  BY <1>0 DEF TempsMatch, TrashMatch, Residue, StoragePcs, PersistPcs
<1>2. \A t \in Types, n \in Names : ~Busy(t, n)
  BY <1>0 DEF Busy, LinkedPcs, PersistPcs
<1> QED
  BY <1>0, <1>1, <1>2, FilesKept DEF Clean

\* The path of an upload is free when it is linked and stays so until its entry
\* is written.
LEMMA PathFreeStep ==
  ASSUME HandlerPart, Clean, PathFree,
         Start \/ Shutdown \/ Begin \/ Step \/ PersistRename \/ Move \/ Sync
  PROVE  PathFree'
<1>0. LocalsTyped /\ ShapeOK
  BY DEF HandlerPart
<1> DEFINE Linked == LinkedPcs \ {"sync_meta", "swap"}
<1> SUFFICES ASSUME Uploading', pc' \in Linked
             PROVE  ByEntry(req.type, req.name)' = None
  BY DEF PathFree
<1>1. CASE UNCHANGED <<req, snapshot>> /\ pc \in Linked
  BY <1>1 DEF PathFree, ByEntry, Uploading
<1>2. CASE Link
  <2>1. pc = "link" /\ UNCHANGED <<req, snapshot>> /\ Final = None
    BY <1>2 DEF Link, At, Goto, LinkedPcs, PersistPcs
  <2>2. req # None /\ req.type \in Types /\ req.name \in Names
    BY <1>0, <2>1, HandlerAt, ReqTyped
  <2>3. ~Busy(req.type, req.name)
    BY <2>1 DEF Busy, LinkedPcs, PersistPcs
  <2>4. ByEntry(req.type, req.name) = None
    BY <2>1, <2>2, <2>3 DEF Clean, FilesMatch, Final
  <2> QED
    BY <2>1, <2>4 DEF ByEntry
<1>3. CASE Start \/ Shutdown
  <2>1. pc' = "idle"
    BY <1>0, <1>3 DEF Start, Shutdown, ShapeOK
  <2> QED
    BY <2>1 DEF LinkedPcs, PersistPcs
<1>4. CASE Begin
  <2>1. ASSUME NEW n \in Names, DeleteStart(n) PROVE FALSE
    <3>1. table[n].type \in Types /\ table[n].id \in Ids
      BY <1>0, <2>1, EntryTyped DEF DeleteStart, LocalsTyped
    <3>2. req'.kind = "delete"
      BY <2>1, <3>1, NewRequest DEF DeleteStart
    <3> QED
      BY <3>2 DEF Uploading
  <2>2. pc' = "temp"
    BY <1>4, <2>1 DEF Begin, UploadStart, DownloadStart
  <2> QED
    BY <2>2 DEF LinkedPcs, PersistPcs
<1>5. CASE CreateTempFile \/ WriteTemp \/ GuardRemove \/ UnlinkFinal \/ Undo \/ Swap \/ Clear
           \/ Restore \/ Purge
  BY <1>5 DEF CreateTempFile, WriteTemp, GuardRemove, UnlinkFinal, Undo, Swap, Clear, Restore,
    Purge, Goto, Return, LinkedPcs, PersistPcs
<1>6. CASE Move
  <2>1. Deleting
    BY <1>0, <1>6, HandlerAt DEF Move, At
  <2> QED
    BY <1>6, <2>1 DEF Move, Return, Uploading, Deleting
<1>7. CASE Unlink \/ Stat
  BY <1>1, <1>7 DEF Unlink, Stat, At, Goto, GotoPersist, LinkedPcs, disk
<1>8. CASE PersistTemp \/ PersistWrite \/ PersistUndo
  BY <1>1, <1>8 DEF PersistTemp, PersistWrite, PersistUndo, At, Goto, LinkedPcs, PersistPcs, disk
<1>9. CASE PersistRename
  <2>1. UNCHANGED <<req, snapshot>> /\ pc = "persist_rename"
    BY <1>9 DEF PersistRename, At, Goto
  <2> QED
    BY <1>1, <2>1 DEF LinkedPcs, PersistPcs
<1>10. CASE Sync
  BY <1>1, <1>10 DEF Sync, SyncFile, SyncMeta, SyncUndo, At, Goto, Return, LinkedPcs, PersistPcs, disk
<1> QED
  BY <1>2, <1>3, <1>4, <1>5, <1>6, <1>7, <1>8, <1>9, <1>10 DEF Step

\* Every step leaves no more behind than it says.
LEMMA ResidueStep ==
  ASSUME HandlerInv, ResidueOK, [Next]_vars
  PROVE  ResidueOK'
<1>0. HandlerPart /\ LocalsTyped /\ CountsTyped /\ littered \in BOOLEAN /\ blind \in BOOLEAN
  BY HandlerParts DEF HandlerPart
<1> SUFFICES ASSUME crashes' = 0, ~littered' PROVE Clean' /\ PathFree'
  BY DEF ResidueOK
<1>1. CASE UNCHANGED vars
  <2>1. /\ UNCHANGED <<files, temps, snapshot, table, pc, req, held, crashes, littered>>
    BY <1>1 DEF vars
  <2>2. Clean /\ PathFree
    BY <2>1 DEF ResidueOK
  <2> QED
    BY <2>1, <2>2 DEF Clean, TempsMatch, FilesMatch, TrashMatch, Residue, Mine, Busy, ByEntry,
      Deleting, PathFree, Uploading
<1>2. CASE Crash \/ PowerLoss
  BY <1>0, <1>2 DEF Crash, PowerLoss, Die, CountsTyped
<1>3. CASE Start \/ Shutdown \/ Begin \/ Step \/ PersistRename \/ Move \/ Sync
  <2>1. crashes' = crashes /\ (littered => littered')
    BY <1>0, <1>3 DEF Start, Shutdown, Begin, UploadStart, DeleteStart, DownloadStart, Step,
      CreateTempFile, WriteTemp, GuardRemove, Link, Unlink, UnlinkFinal, Stat, Undo, PersistTemp,
      PersistWrite, PersistRename, PersistUndo, Swap, Clear, Restore, Purge, Move, Sync, SyncFile,
      SyncMeta, SyncUndo, bounds, Litter
  <2>2. Clean /\ PathFree
    BY <1>0, <2>1 DEF ResidueOK
  <2>3. CASE Step
    BY <1>0, <2>2, <2>3, CreateTempFileClean, WriteTempClean, GuardRemoveClean, LinkClean,
       UnlinkClean, UnlinkFinalClean, StatClean, UndoClean, PersistTempClean,
       PersistWriteClean, PersistUndoClean, SwapClean, ClearClean,
       RestoreClean, PurgeClean, PathFreeStep DEF Step
  <2> QED
    BY <1>0, <1>3, <2>2, <2>3, StartClean, BeginClean, PersistRenameClean, MoveClean, SyncClean,
       PathFreeStep
<1> QED
  BY <1>1, <1>2, <1>3 DEF Next

-----------------------------------------------------------------------------
(* What a loss of power may leave.                                         *)

\* A table lists upload i of type t for name n.
Lists(T, n, t, i) == T[n] # None /\ T[n].type = t /\ T[n].id = i

\* A metadata file that may be read at the next start lists it.
Listed(n, t, i) ==
  \/ Lists(snapshot, n, t, i)
  \/ trust = "synced" /\ \E m \in versions["meta"] : Lists(m.files, n, t, i)

\* Its bytes are in directory t now.
HasNow(t, n, i) == files[t][n] = i \/ Temp("delete", t, i) \in temps

\* The trash of a directory is the trash in it.
LEMMA TrashOf ==
  ASSUME NEW t \in Types, NEW i \in Ids
  PROVE  \A S : Temp("delete", t, i) \in {x \in S : x.kind = "delete" /\ x.dir = t}
                  <=> Temp("delete", t, i) \in S
<1>1. Temp("delete", t, i).kind = "delete" /\ Temp("delete", t, i).dir = t
  BY DEF Temp
<1> QED
  BY <1>1

\* What a directory holds now is what its content says.
LEMMA HasContent ==
  ASSUME NEW t \in Types, NEW n \in Names, NEW i \in Ids
  PROVE  /\ Has(Content(t), t, n, i) <=> HasNow(t, n, i)
         /\ Has(Content(t), t, n, i)' <=> HasNow(t, n, i)'
<1>1. /\ Content(t).files = files[t]
      /\ Content(t).trash = {x \in temps : x.kind = "delete" /\ x.dir = t}
      /\ Content(t)'.files = files'[t]
      /\ Content(t)'.trash = {x \in temps' : x.kind = "delete" /\ x.dir = t}
  BY DEF Content, Types
<1>2. /\ Temp("delete", t, i) \in Content(t).trash <=> Temp("delete", t, i) \in temps
      /\ Temp("delete", t, i) \in Content(t)'.trash <=> Temp("delete", t, i) \in temps'
  BY <1>1, TrashOf
<1> QED
  BY <1>1, <1>2 DEF Has, HasNow

\* The contents after a step that is remembered.
LEMMA Remembered ==
  ASSUME VersionsTyped, Remember
  PROVE  /\ \A t \in Types : \A v \in versions'[t] : v \in versions[t] \/ v = Content(t)'
         /\ \A m \in versions'["meta"] : m \in versions["meta"] \/ m.files = snapshot'
         /\ \E m \in versions["meta"] : m.files = snapshot
         /\ \A t \in Types : Content(t) \in versions[t]
<1>1. \A d \in Dirs : versions'[d] = versions[d] \cup {Content(d)'}
  BY DEF Remember
<1>2. Content("meta").files = snapshot /\ Content("meta")'.files = snapshot'
  BY DEF Content
<1> QED
  BY <1>1, <1>2 DEF VersionsTyped, Dirs

\* The bytes of every entry are kept by a step that keeps those of the entries
\* listed.
LEMMA CrossKept ==
  ASSUME HandlerInv, CrossOK, BytesOfEntriesExist, Remember, UNCHANGED <<snapshot, trust>>,
         \A t \in Types, n \in Names, i \in Ids :
           trust # "lost" /\ Listed(n, t, i) /\ HasNow(t, n, i) => HasNow(t, n, i)'
  PROVE  CrossOK' /\ BytesOfEntriesExist'
<1>0. VersionsTyped /\ snapshot \in Tables /\ \A m \in versions["meta"] : m.files \in Tables
  BY HandlerParts DEF HandlerPart, DiskTyped, VersionsTyped, VersionsOK
<1>1. BytesOfEntriesExist'
  <2> SUFFICES ASSUME trust # "lost", NEW n \in Names, snapshot[n] # None
               PROVE  HasNow(snapshot[n].type, n, snapshot[n].id)'
    BY DEF BytesOfEntriesExist, HasNow
  <2>1. snapshot[n].type \in Types /\ snapshot[n].id \in Ids
    BY <1>0, EntryTyped
  <2>2. Listed(n, snapshot[n].type, snapshot[n].id)
    BY DEF Listed, Lists
  <2>3. HasNow(snapshot[n].type, n, snapshot[n].id)
    BY DEF BytesOfEntriesExist, HasNow
  <2>4. PICK t \in Types, i \in Ids : t = snapshot[n].type /\ i = snapshot[n].id
    BY <2>1
  <2>5. HasNow(t, n, i)'
    BY <2>2, <2>3, <2>4
  <2> QED
    BY <2>4, <2>5 DEF HasNow
<1>2. CrossOK'
  <2> SUFFICES ASSUME trust = "synced", NEW m \in versions'["meta"], NEW n \in Names,
                      m.files[n] # None, NEW v \in versions'[m.files[n].type]
               PROVE  Has(v, m.files[n].type, n, m.files[n].id)
    BY DEF CrossOK
  <2>1. PICK k \in versions["meta"] : k.files = m.files
    BY <1>0, Remembered
  <2>2. k.files[n].type \in Types /\ k.files[n].id \in Ids
    BY <1>0, <2>1, EntryTyped
  <2>3. PICK t \in Types, i \in Ids : t = k.files[n].type /\ i = k.files[n].id
    BY <2>2
  <2>4. \A w \in versions[t] : Has(w, t, n, i)
    BY <2>1, <2>3 DEF CrossOK
  <2>5. v \in versions[t] \/ v = Content(t)'
    BY <1>0, <2>1, <2>3, Remembered
  <2>6. Has(Content(t), t, n, i)
    BY <1>0, <2>4, Remembered
  <2>7. Listed(n, t, i)
    BY <2>1, <2>3 DEF Listed, Lists
  <2>8. Has(Content(t), t, n, i)'
    BY <2>6, <2>7, HasContent
  <2>9. Has(v, t, n, i)
    <3>1. CASE v \in versions[t]
      BY <2>4, <3>1
    <3>2. CASE v = Content(t)'
      BY <2>8, <3>2 DEF Has
    <3> QED
      BY <2>5, <3>1, <3>2
  <2> QED
    BY <2>1, <2>3, <2>9
<1> QED
  BY <1>1, <1>2

\* What is owed is kept by a step that keeps its file or moves it.
LEMMA OwedKept ==
  ASSUME HandlerInv, OwedOK, Remember, UNCHANGED <<snapshot, trust>>, moved \subseteq moved',
         \A n \in Names : owed'[n] # None => owed'[n] = owed[n],
         \A n \in Names :
           /\ owed'[n] # None /\ trust = "synced" /\ <<owed[n].type, n>> \notin moved'
           /\ files[owed[n].type][n] = owed[n].id
           => files'[owed[n].type][n] = owed[n].id
  PROVE  OwedOK'
<1>0. VersionsTyped /\ owed \in Tables
  BY HandlerParts DEF HandlerPart
<1> SUFFICES ASSUME trust = "synced", NEW n \in Names, owed'[n] # None
             PROVE  /\ \A m \in versions'["meta"] : m.files[n] = owed[n]
                    /\ <<owed[n].type, n>> \notin moved' =>
                         \A v \in versions'[owed[n].type] : v.files[n] = owed[n].id
  BY DEF OwedOK
<1>1. owed[n] # None
  OBVIOUS
<1>2. /\ \A m \in versions["meta"] : m.files[n] = owed[n]
      /\ <<owed[n].type, n>> \notin moved =>
           \A v \in versions[owed[n].type] : v.files[n] = owed[n].id
  BY <1>1 DEF OwedOK
<1>3. \A m \in versions'["meta"] : m.files[n] = owed[n]
  BY <1>0, <1>2, Remembered
<1>4. PICK t \in Types : t = owed[n].type
  BY <1>0, <1>1, EntryTyped
<1>5. ASSUME <<t, n>> \notin moved', NEW v \in versions'[t]
      PROVE  v.files[n] = owed[n].id
  <2>1. \A w \in versions[t] : w.files[n] = owed[n].id
    BY <1>2, <1>4, <1>5
  <2>2. v \in versions[t] \/ v = Content(t)'
    BY <1>0, <1>5, Remembered
  <2>3. Content(t) \in versions[t] /\ Content(t).files = files[t] /\ Content(t)'.files = files'[t]
    BY <1>0, Remembered DEF Content, Types
  <2>4. files[t][n] = owed[n].id
    BY <2>1, <2>3
  <2>5. files'[t][n] = owed[n].id
    BY <1>4, <1>5, <2>4
  <2> QED
    BY <2>1, <2>2, <2>3, <2>5
<1> QED
  BY <1>3, <1>4, <1>5

\* A name keeps its uploads.
LEMMA OwnedKept ==
  ASSUME HandlerInv, NEW own, Owned(own), Remember, UNCHANGED <<snapshot, uploads>>,
         \A t \in Types, n \in Names : files'[t][n] # None =>
           \/ files'[t][n] = files[t][n]
           \/ files'[t][n] <= uploads /\ own[files'[t][n]] = n,
         Uploading' => Uploading /\ req' = req,
         Deleting' /\ held' # None => held'.id <= uploads /\ own[held'.id] = req'.name
  PROVE  Owned(own)'
<1>0. VersionsTyped
  BY HandlerParts
<1>1. ASSUME NEW t \in Types, NEW v \in versions'[t], NEW n \in Names, v.files[n] # None
      PROVE  v.files[n] <= uploads /\ own[v.files[n]] = n
  <2>1. v \in versions[t] \/ v = Content(t)'
    BY <1>0, <1>1, Remembered
  <2>2. Content(t) \in versions[t] /\ Content(t).files = files[t] /\ Content(t)'.files = files'[t]
    BY <1>0, Remembered DEF Content, Types
  <2>3. \A w \in versions[t] : w.files[n] # None =>
          w.files[n] <= uploads /\ own[w.files[n]] = n
    BY DEF Owned
  <2> QED
    BY <1>1, <2>1, <2>2, <2>3
<1>2. ASSUME NEW m \in versions'["meta"], NEW n \in Names, m.files[n] # None
      PROVE  m.files[n].id <= uploads /\ own[m.files[n].id] = n
  <2>1. PICK k \in versions["meta"] : k.files = m.files
    BY <1>0, Remembered
  <2> QED
    BY <1>2, <2>1 DEF Owned
<1>3. Uploading' => own[req'.id] = req'.name
  BY DEF Owned
<1> QED
  BY <1>1, <1>2, <1>3 DEF Owned

\* The labels decide what is fresh and what is synced.
LEMMA SyncedKept ==
  ASSUME HandlerInv, HandlerInv', FreshOK, SyncedOK, Remember, UNCHANGED <<snapshot, trust>>,
         Uploading' =>
           /\ Uploading /\ req' = req
           /\ pc' \notin {"sync_meta", "swap"} => pc \notin {"sync_meta", "swap"}
           /\ pc' \in {"stat"} \cup PersistPcs => pc \in {"stat"} \cup PersistPcs,
         pc' \in {"swap", "purge"} \/ (Deleting' /\ pc' = "guard") =>
           pc \in {"swap", "purge"} \/ (Deleting /\ pc = "guard")
  PROVE  FreshOK' /\ SyncedOK'
<1>0. VersionsTyped /\ LocalsTyped /\ FinalOK'
  BY HandlerParts DEF HandlerPart, HandlerInv
<1>1. \A m \in versions'["meta"] : \E k \in versions["meta"] : k.files = m.files
  BY <1>0, Remembered
<1>2. FreshOK'
  BY <1>1 DEF FreshOK
<1>3. ASSUME trust = "synced", Uploading', pc' \in {"stat"} \cup PersistPcs,
             NEW v \in versions'[req'.type]
      PROVE  v.files[req'.name] = req'.id
  <2>1. Uploading /\ req' = req /\ pc \in {"stat"} \cup PersistPcs
    BY <1>3
  <2>2. PICK t \in Types : t = req.type
    BY <1>0, <2>1, ReqTyped DEF Uploading
  <2>3. \A w \in versions[t] : w.files[req.name] = req.id
    BY <1>3, <2>1, <2>2 DEF SyncedOK
  <2>4. v \in versions[t] \/ v = Content(t)'
    BY <1>0, <1>3, <2>1, <2>2, Remembered
  <2>5. Content(t)'.files = files'[t]
    BY DEF Content, Types
  <2>6. files'[t][req.name] = req.id
    BY <1>0, <1>3, <2>1, <2>2 DEF FinalOK, Final, LinkedPcs
  <2> QED
    BY <2>1, <2>3, <2>4, <2>5, <2>6
<1>4. ASSUME trust = "synced",
             pc' \in {"swap", "purge"} \/ (Deleting' /\ pc' = "guard"),
             NEW m \in versions'["meta"]
      PROVE  m.files = snapshot
  <2>1. \A k \in versions["meta"] : k.files = snapshot
    BY <1>4 DEF SyncedOK
  <2> QED
    BY <1>1, <2>1
<1>5. SyncedOK'
  BY <1>3, <1>4 DEF SyncedOK
<1> QED
  BY <1>2, <1>5

\* What a handler may say of the state it is in.
LEMMA HandlerFacts ==
  ASSUME HandlerInv
  PROVE  /\ DiskTyped /\ LocalsTyped /\ CountsTyped /\ ShapeOK /\ TableOK /\ FinalOK
         /\ HandlerPart /\ VersionsTyped /\ owed \in Tables
         /\ server = "up" /\ pc \notin {"sync_meta", "swap"} =>
              /\ ~blind => table = snapshot
              /\ \A n \in Names : table[n] # None => ~blind
              /\ Deleting => table = snapshot
         /\ pc # "idle" => server = "up" /\ req # None
<1>1. HandlerPart /\ VersionsTyped
  BY HandlerParts
<1>2. server = "up" /\ pc \notin {"sync_meta", "swap"} =>
        /\ ~blind => table = snapshot
        /\ \A n \in Names : table[n] # None => ~blind
        /\ Deleting => table = snapshot
  BY <1>1, HandlerView DEF View, HandlerPart, TableOK
<1> QED
  BY <1>1, <1>2 DEF HandlerPart, ShapeOK, LocalsTyped

\* What the labels of a step must satisfy.
LabelsKept ==
  /\ Uploading' =>
       /\ Uploading /\ req' = req
       /\ pc' \notin {"sync_meta", "swap"} => pc \notin {"sync_meta", "swap"}
       /\ pc' \in {"stat"} \cup PersistPcs => pc \in {"stat"} \cup PersistPcs
  /\ pc' \in {"swap", "purge"} \/ (Deleting' /\ pc' = "guard") =>
       pc \in {"swap", "purge"} \/ (Deleting /\ pc = "guard")

\* A step that leaves the files alone and removes no trash.
LEMMA CalmDurable ==
  ASSUME HandlerInv, HandlerInv', DurableInv, Remember, LabelsKept,
         UNCHANGED <<files, snapshot, trust, moved, uploads>>,
         \A n \in Names : owed'[n] # None => owed'[n] = owed[n],
         \A t \in Types, i \in Ids : Temp("delete", t, i) \in temps => Temp("delete", t, i) \in temps',
         Deleting' => held' = None \/ (held' = held /\ req' = req),
         \A n \in Names : trust # "lost" /\ owed'[n] # None /\ InTrash(n) => InTrash(n)'
  PROVE  DurableInv'
<1>1. CrossOK' /\ BytesOfEntriesExist'
  <2>1. \A t \in Types, n \in Names, i \in Ids : HasNow(t, n, i) => HasNow(t, n, i)'
    BY DEF HasNow
  <2> QED
    BY <2>1, CrossKept DEF DurableInv
<1>2. OwedOK'
  BY OwedKept DEF DurableInv
<1>3. FreshOK' /\ SyncedOK'
  BY SyncedKept DEF DurableInv, LabelsKept
<1>4. OwnedOK'
  <2>1. PICK own \in [Ids -> Names \cup {None}] : Owned(own)
    BY DEF DurableInv, OwnedOK
  <2>2. Deleting' /\ held' # None => held'.id <= uploads /\ own[held'.id] = req'.name
    BY <2>1 DEF Owned, Deleting
  <2>3. Owned(own)'
    BY <2>1, <2>2, OwnedKept DEF LabelsKept
  <2> QED
    BY <2>3 DEF OwnedOK
<1>5. TrashOK'
  <2> SUFFICES ASSUME trust # "lost", Deleting', held' # None, owed'[req'.name] # None
               PROVE  held'.id = owed'[req'.name].id
    BY DEF TrashOK
  <2>1. held' = held /\ req' = req /\ Deleting /\ req.name \in Names
    BY HandlerFacts, ReqTyped DEF Deleting
  <2>2. owed'[req.name] = owed[req.name]
    BY <2>1
  <2> QED
    BY <2>1, <2>2 DEF DurableInv, TrashOK
<1>6. DurableUploads'
  BY DEF DurableInv, DurableUploads
<1> QED
  BY <1>1, <1>2, <1>3, <1>4, <1>5, <1>6 DEF DurableInv

\* Nor gives anything up.
LEMMA PlainDurable ==
  ASSUME HandlerInv, HandlerInv', DurableInv, Remember, LabelsKept,
         UNCHANGED <<files, snapshot, trust, moved, owed, uploads>>,
         \A t \in Types, i \in Ids : Temp("delete", t, i) \in temps => Temp("delete", t, i) \in temps',
         Deleting' => held' = None \/ (held' = held /\ req' = req),
         \A n \in Names : trust # "lost" /\ owed[n] # None /\ InTrash(n) => InTrash(n)'
  PROVE  DurableInv'
  BY CalmDurable

\* A temporary file other than trash with bytes.
LEMMA NotTrash ==
  ASSUME NEW t \in Types, NEW i \in Ids, NEW x, x.kind # "delete" \/ x.id = 0
  PROVE  Temp("delete", t, i) # x
<1>1. Temp("delete", t, i).kind = "delete" /\ Temp("delete", t, i).id = i
  BY DEF Temp
<1> QED
  BY <1>1, ConstantsAssumption DEF Ids

\* No InTrash but for a Delete that holds a file.
LEMMA TrashIsHeld ==
  ASSUME NEW n, InTrash(n)
  PROVE  Deleting /\ req.name = n /\ held # None /\ held \in temps
  BY DEF InTrash, Deleting

\* Creating a temporary file loses nothing.
LEMMA CreateTempFileDurable ==
  ASSUME HandlerInv, HandlerInv', DurableInv, CreateTempFile, Remember, UNCHANGED <<moved, trust>>
  PROVE  DurableInv'
<1>1. pc = "temp" /\ pc' \in {"clear", "write", "idle"} /\ held = None /\ LocalsTyped'
  BY HandlerFacts DEF CreateTempFile, At, Return, ShapeOK, FreePcs, HandlerInv, LocalsTyped, TypeOK
<1>2. req' = req \/ req' = None
  BY DEF CreateTempFile, Return
<1>3. LabelsKept
  BY <1>1, <1>2 DEF LabelsKept, Uploading, Deleting, PersistPcs
<1>4. Deleting' => held' = None
  BY <1>2 DEF CreateTempFile, Return, Deleting
<1>5. \A n : ~InTrash(n)
  BY <1>1 DEF InTrash
<1>6. \A t \in Types, i \in Ids :
        Temp("delete", t, i) \in temps => Temp("delete", t, i) \in temps'
  BY DEF CreateTempFile
<1>7. UNCHANGED <<files, snapshot, owed, uploads>>
  BY DEF CreateTempFile
<1> QED
  BY <1>3, <1>4, <1>5, <1>6, <1>7, PlainDurable

\* Nor does writing it.
LEMMA WriteTempDurable ==
  ASSUME HandlerInv, HandlerInv', DurableInv, WriteTemp, Remember, UNCHANGED <<moved, trust>>
  PROVE  DurableInv'
<1>0. LocalsTyped /\ ShapeOK /\ req # None
  BY HandlerFacts DEF WriteTemp, At
<1>1. pc = "write" /\ pc' \in {"link", "guard"} /\ held # None /\ req' = req
  BY <1>0 DEF WriteTemp, At, Goto, ShapeOK
<1>2. req.kind # "delete" /\ held = Mine(held.id) /\ held \in Temps
  BY <1>0, <1>1 DEF ShapeOK, Deleting, DeletePcs, PersistPcs, LocalsTyped
<1>3. held.kind # "delete"
  <2>1. held.id \in {0} \cup Ids
    BY <1>2 DEF Temps
  <2> QED
    BY <1>0, <1>2, <2>1, MineFields
<1>4. LabelsKept
  BY <1>1, <1>2 DEF LabelsKept, Uploading, Deleting, PersistPcs
<1>5. ~Deleting' /\ \A n : ~InTrash(n)
  BY <1>1, <1>2 DEF InTrash, Deleting
<1>6. \A t \in Types, i \in Ids :
        Temp("delete", t, i) \in temps => Temp("delete", t, i) \in temps'
  BY <1>3, NotTrash DEF WriteTemp
<1>7. UNCHANGED <<files, snapshot, owed, uploads>>
  BY DEF WriteTemp
<1> QED
  BY <1>4, <1>5, <1>6, <1>7, PlainDurable

\* A listed upload belongs to the name that lists it.
LEMMA ListedOwned ==
  ASSUME VersionsTyped, NEW own, Owned(own), NEW n \in Names, NEW t, NEW i, Listed(n, t, i)
  PROVE  /\ own[i] = n /\ i <= uploads
         /\ \E m \in versions["meta"] : m.files[n] # None /\ m.files[n].id = i
<1>1. Content("meta") \in versions["meta"] /\ Content("meta").files = snapshot
  BY ContentOf DEF VersionsTyped, Dirs
<1>2. PICK m \in versions["meta"] : Lists(m.files, n, t, i)
  BY <1>1 DEF Listed
<1> QED
  BY <1>2 DEF Lists, Owned

\* A Delete that has taken effect is listed nowhere.
LEMMA PurgedNotListed ==
  ASSUME HandlerInv, DurableInv, Deleting, pc \in {"purge", "guard"}
  PROVE  /\ snapshot[req.name] = None
         /\ trust # "lost" => owed[req.name] = None
         /\ \A t, i : ~Listed(req.name, t, i)
<1>0. /\ LocalsTyped /\ ShapeOK /\ TableOK /\ pc # "idle" /\ pc \notin {"sync_meta", "swap"}
      /\ table = snapshot
  BY HandlerFacts
<1>1. req.name \in Names /\ snapshot[req.name] = None
  BY <1>0, ReqTyped DEF TableOK, Deleting
<1>2. trust # "lost" => owed[req.name] = None
  BY <1>1 DEF DurableInv, DurableUploads
<1>3. trust = "synced" => \A m \in versions["meta"] : m.files = snapshot
  BY DEF DurableInv, SyncedOK
<1> QED
  BY <1>1, <1>2, <1>3 DEF Listed, Lists

\* Its trash can be removed.
LEMMA RemoveTrash ==
  ASSUME HandlerInv, HandlerInv', DurableInv, Remember, Deleting, pc \in {"purge", "guard"},
         held # None, temps' = temps \ {held}, Return,
         UNCHANGED <<files, snapshot, trust, moved, owed, uploads>>
  PROVE  DurableInv'
<1>0. LocalsTyped /\ ShapeOK /\ VersionsTyped
  BY HandlerFacts
<1>1. req' = None /\ held' = None /\ pc' = "idle" /\ ~Uploading' /\ ~Deleting'
  BY DEF Return, Uploading, Deleting
<1>2. LabelsKept
  BY <1>1 DEF LabelsKept
<1>3. PICK own \in [Ids -> Names \cup {None}] : Owned(own)
  BY DEF DurableInv, OwnedOK
<1>4. held.id \in Ids /\ own[held.id] = req.name
  BY <1>0, <1>3 DEF ShapeOK, Owned
<1>5. ASSUME NEW t \in Types, NEW n \in Names, NEW i \in Ids, Listed(n, t, i), HasNow(t, n, i)
      PROVE  HasNow(t, n, i)'
  <2>1. own[i] = n
    BY <1>0, <1>3, <1>5, ListedOwned
  <2>2. i # held.id
    BY <1>4, <1>5, <2>1, PurgedNotListed
  <2>3. Temp("delete", t, i).id = i
    BY DEF Temp
  <2>4. Temp("delete", t, i) # held
    BY <2>2, <2>3
  <2> QED
    BY <1>5, <2>4 DEF HasNow
<1>6. CrossOK' /\ BytesOfEntriesExist'
  BY <1>5, CrossKept DEF DurableInv
<1>7. OwedOK'
  BY OwedKept DEF DurableInv
<1>8. FreshOK' /\ SyncedOK'
  BY <1>1, <1>2, SyncedKept DEF DurableInv, LabelsKept
<1>9. Owned(own)'
  BY <1>1, <1>3, OwnedKept
<1>10. TrashOK'
  BY <1>1 DEF TrashOK
<1>11. DurableUploads'
  <2> SUFFICES ASSUME trust # "lost", NEW n \in Names, owed[n] # None
               PROVE  snapshot[n] = owed[n] /\ files[owed[n].type][n] = owed[n].id
    BY DEF DurableUploads
  <2>1. snapshot[n] = owed[n] /\ (files[owed[n].type][n] = owed[n].id \/ InTrash(n))
    BY DEF DurableInv, DurableUploads
  <2>2. ~InTrash(n)
    BY PurgedNotListed, TrashIsHeld
  <2> QED
    BY <2>1, <2>2
<1> QED
  BY <1>6, <1>7, <1>8, <1>9, <1>10, <1>11 DEF DurableInv, OwnedOK

\* The guard removes what nobody needs.
LEMMA GuardRemoveDurable ==
  ASSUME HandlerInv, HandlerInv', DurableInv, GuardRemove, Remember, UNCHANGED <<moved, trust>>
  PROVE  DurableInv'
<1>0. /\ LocalsTyped /\ ShapeOK /\ req # None /\ pc = "guard" /\ held # None /\ Return
      /\ UNCHANGED <<files, snapshot, owed, uploads>>
  BY HandlerFacts DEF GuardRemove, At, ShapeOK
<1>1. /\ req' = None /\ held' = None /\ pc' = "idle" /\ ~Uploading' /\ ~Deleting'
      /\ LabelsKept
  BY <1>0 DEF Return, Uploading, Deleting, LabelsKept
<1>2. CASE Deleting /\ temps' = temps \ {held}
  BY <1>0, <1>2, RemoveTrash
<1>3. CASE Deleting /\ UNCHANGED temps
  <2>1. \A n \in Names : trust # "lost" /\ owed[n] # None => ~InTrash(n)
    BY <1>0, <1>3, PurgedNotListed, TrashIsHeld
  <2> QED
    BY <1>0, <1>1, <1>3, <2>1, PlainDurable
<1>4. CASE ~Deleting
  <2>1. held.kind # "delete"
    <3>1. held = Mine(held.id) /\ held.id \in {0} \cup Ids
      BY <1>0 DEF ShapeOK, LocalsTyped, Temps
    <3> QED
      BY <1>0, <1>4, <3>1, MineFields DEF Deleting
  <2>2. \A t \in Types, i \in Ids :
          Temp("delete", t, i) \in temps => Temp("delete", t, i) \in temps'
    BY <2>1, NotTrash DEF GuardRemove
  <2>3. \A n : ~InTrash(n)
    BY <1>4 DEF InTrash, Deleting
  <2> QED
    BY <1>0, <1>1, <2>2, <2>3, PlainDurable
<1> QED
  BY <1>2, <1>3, <1>4 DEF GuardRemove

\* So does a Delete.
LEMMA PurgeDurable ==
  ASSUME HandlerInv, HandlerInv', DurableInv, Purge, Remember, UNCHANGED <<moved, trust>>
  PROVE  DurableInv'
<1>0. /\ LocalsTyped /\ ShapeOK /\ pc = "purge" /\ UNCHANGED <<files, snapshot, owed, uploads>>
  BY HandlerFacts DEF Purge, At
<1>a. Deleting
  BY <1>0, HandlerAt
<1>1. CASE held # None /\ temps' = temps \ {held} /\ Return
  BY <1>0, <1>1, <1>a, RemoveTrash
<1>2. CASE UNCHANGED temps /\ (Return \/ Goto("guard"))
  <2>1. \A n \in Names : trust # "lost" /\ owed[n] # None => ~InTrash(n)
    BY <1>0, <1>a, PurgedNotListed, TrashIsHeld
  <2>2. LabelsKept /\ (Deleting' => held' = held /\ req' = req)
    BY <1>0, <1>2, <1>a DEF LabelsKept, Return, Goto, Uploading, Deleting
  <2> QED
    BY <1>0, <1>2, <2>1, <2>2, PlainDurable
<1> QED
  BY <1>1, <1>2 DEF Purge

\* The temporary name is no trash.
LEMMA UnlinkDurable ==
  ASSUME HandlerInv, HandlerInv', DurableInv, Unlink, Remember, UNCHANGED <<moved, trust>>
  PROVE  DurableInv'
<1>0. /\ LocalsTyped /\ ShapeOK /\ pc = "unlink" /\ held # None /\ req' = req
      /\ UNCHANGED <<files, snapshot, owed, uploads>> /\ pc' \in {"sync", "unlink_final"}
  BY HandlerFacts DEF Unlink, At, ShapeOK, Goto
<1>1. Uploading
  BY <1>0, HandlerAt
<1>2. held.kind # "delete"
  <2>1. held = Mine(held.id) /\ held.id \in {0} \cup Ids
    BY <1>0 DEF ShapeOK, LocalsTyped, Temps
  <2> QED
    BY <1>0, <1>1, <2>1, MineFields DEF Uploading
<1>3. \A t \in Types, i \in Ids :
        Temp("delete", t, i) \in temps => Temp("delete", t, i) \in temps'
  BY <1>2, NotTrash DEF Unlink
<1>4. (\A n : ~InTrash(n)) /\ ~Deleting' /\ LabelsKept
  BY <1>0, <1>1 DEF InTrash, Uploading, Deleting, LabelsKept, PersistPcs
<1> QED
  BY <1>0, <1>3, <1>4, PlainDurable

\* Making an entry changes no file.
LEMMA StatDurable ==
  ASSUME HandlerInv, HandlerInv', DurableInv, Stat, Remember, UNCHANGED <<moved, trust>>
  PROVE  DurableInv'
<1>0. /\ LocalsTyped /\ ShapeOK /\ pc = "stat" /\ req' = req
      /\ UNCHANGED <<files, temps, snapshot, owed, uploads>> /\ pc' \in {"persist", "undo_stat"}
  BY HandlerFacts DEF Stat, At, Goto, GotoPersist, disk
<1>1. Uploading
  BY <1>0, HandlerAt
<1>2. (\A n : ~InTrash(n)) /\ ~Deleting' /\ LabelsKept
  BY <1>0, <1>1 DEF InTrash, Uploading, Deleting, LabelsKept, PersistPcs
<1> QED
  BY <1>0, <1>2, PlainDurable

\* Neither does Persist before the rename, and its temporary file is no trash.
LEMMA PersistDurable ==
  ASSUME HandlerInv, HandlerInv', DurableInv, Remember, UNCHANGED <<moved, trust>>,
         PersistTemp \/ PersistWrite \/ PersistUndo
           \/ (PersistRename /\ UNCHANGED <<snapshot, temps, owed>>)
  PROVE  DurableInv'
<1>0. /\ LocalsTyped /\ ShapeOK /\ pc \in PersistPcs \ {"sync_meta", "swap"}
      /\ UNCHANGED <<files, snapshot, owed, uploads, req, held>>
      /\ temps' = temps \/ temps' = temps \cup {Storage} \/ temps' = temps \ {Storage}
  BY HandlerFacts DEF PersistTemp, PersistWrite, PersistUndo, PersistRename, At, Goto, disk, PersistPcs
<1>1. pc' \in {"persist_write", "persist_rename", "persist_undo", "undo", "restore", "sync_meta"}
  BY DEF PersistTemp, PersistWrite, PersistUndo, PersistRename, Goto, FailedPersist
<1>2. LabelsKept
  BY <1>0, <1>1 DEF LabelsKept, Uploading, Deleting, PersistPcs
<1>3. Storage.kind = "storage"
  BY DEF Storage, Temp
<1>4. \A t \in Types, i \in Ids :
        Temp("delete", t, i) \in temps => Temp("delete", t, i) \in temps'
  BY <1>0, <1>3, NotTrash
<1>5. held # Storage
  BY <1>0, StorageNotHeld
<1>6. \A n : InTrash(n) => InTrash(n)'
  BY <1>0, <1>5 DEF InTrash
<1> QED
  BY <1>0, <1>2, <1>4, <1>6, PlainDurable

\* The reserved name holds nothing.
LEMMA ClearDurable ==
  ASSUME HandlerInv, HandlerInv', DurableInv, Clear, Remember, UNCHANGED <<moved, trust>>
  PROVE  DurableInv'
<1>0. /\ LocalsTyped /\ ShapeOK /\ pc = "clear" /\ pc' = "move" /\ held = None /\ req # None
      /\ UNCHANGED <<files, snapshot, owed, uploads, req, held>>
  BY HandlerFacts DEF Clear, At, Goto, ShapeOK, FreePcs
<1>1. Mine(0).id = 0
  BY <1>0, MineFields
<1>2. \A t \in Types, i \in Ids :
        Temp("delete", t, i) \in temps => Temp("delete", t, i) \in temps'
  BY <1>1, NotTrash DEF Clear
<1>3. (\A n : ~InTrash(n)) /\ LabelsKept
  BY <1>0 DEF InTrash, LabelsKept, Uploading, PersistPcs
<1> QED
  BY <1>0, <1>2, <1>3, PlainDurable

\* Starting and stopping the server touches no file.
LEMMA StartDurable ==
  ASSUME HandlerInv, HandlerInv', DurableInv, Start \/ Shutdown, Remember, UNCHANGED <<moved, trust>>
  PROVE  DurableInv'
<1>0. /\ UNCHANGED <<files, temps, snapshot, owed, uploads, pc, req, held>>
  BY DEF Start, Shutdown, disk, bounds
<1>1. LabelsKept /\ \A n : InTrash(n) => InTrash(n)'
  BY <1>0 DEF LabelsKept, Uploading, Deleting, InTrash
<1> QED
  BY <1>0, <1>1, PlainDurable

\* A Delete or a download begins.
LEMMA ReadStartDurable ==
  ASSUME HandlerInv, HandlerInv', DurableInv, NEW n \in Names, DeleteStart(n) \/ DownloadStart(n),
         Remember, UNCHANGED <<moved, trust>>
  PROVE  DurableInv'
<1>0. /\ LocalsTyped /\ ShapeOK /\ pc = "idle" /\ held = None /\ req = None /\ table[n] # None
      /\ UNCHANGED <<files, temps, snapshot, owed, uploads, held>>
      /\ pc' \in {"temp", "persist"}
  BY HandlerFacts DEF DeleteStart, DownloadStart, GotoPersist, At, disk, bounds, ShapeOK, FreePcs,
    LocalsTyped
<1>1. table[n].type \in Types /\ table[n].id \in Ids
  BY <1>0, EntryTyped DEF LocalsTyped
<1>2. req'.kind # "upload"
  BY <1>1, NewRequest DEF DeleteStart, DownloadStart, Types
<1>3. LabelsKept /\ \A k : ~InTrash(k)
  BY <1>0, <1>2 DEF LabelsKept, Uploading, InTrash
<1> QED
  BY <1>0, <1>3, PlainDurable

\* An upload begins with a new identity.
LEMMA UploadStartDurable ==
  ASSUME HandlerInv, HandlerInv', DurableInv, NEW n \in Names, NEW t \in Types, UploadStart(n, t),
         Remember, UNCHANGED <<moved, trust>>
  PROVE  DurableInv'
<1>0. /\ LocalsTyped /\ ShapeOK /\ CountsTyped /\ VersionsTyped /\ pc = "idle" /\ held = None
      /\ req = None /\ pc' = "temp" /\ uploads' = uploads + 1 /\ uploads < MaxUploads
      /\ UNCHANGED <<files, temps, snapshot, owed, held>>
  BY HandlerFacts DEF UploadStart, At, disk, ShapeOK, FreePcs, LocalsTyped
<1>1. uploads + 1 \in Ids /\ uploads \in Nat
  BY <1>0, ConstantsAssumption DEF CountsTyped, Ids
<1>2. /\ req'.kind = "upload" /\ req'.name = n /\ req'.id = uploads + 1
      /\ req' # None
  BY <1>1, NewRequest DEF UploadStart
<1>3. CrossOK' /\ BytesOfEntriesExist'
  <2>1. \A s \in Types, k \in Names, i \in Ids : HasNow(s, k, i) => HasNow(s, k, i)'
    BY <1>0 DEF HasNow
  <2> QED
    BY <1>0, <2>1, CrossKept DEF DurableInv
<1>4. OwedOK'
  BY <1>0, OwedKept DEF DurableInv
<1>5. PICK own \in [Ids -> Names \cup {None}] : Owned(own)
  BY DEF DurableInv, OwnedOK
<1>6. PICK new : new = [own EXCEPT ![uploads + 1] = n]
  OBVIOUS
<1>7. /\ new \in [Ids -> Names \cup {None}] /\ new[uploads + 1] = n
      /\ \A i \in Ids : i <= uploads => new[i] = own[i]
  BY <1>1, <1>5, <1>6 DEF Ids
<1>8. \A m \in versions'["meta"] : \E k \in versions["meta"] : k.files = m.files
  BY <1>0, Remembered
<1>9. \A m \in versions["meta"] : m.files \in Tables
  BY <1>0 DEF VersionsTyped, VersionsOK
<1>10. ASSUME NEW m \in versions'["meta"], NEW k \in Names, m.files[k] # None
       PROVE  /\ m.files[k].id <= uploads /\ m.files[k].id \in Ids
              /\ new[m.files[k].id] = k
  <2>1. PICK p \in versions["meta"] : p.files = m.files
    BY <1>8, <1>10
  <2>2. p.files[k].id \in Ids
    BY <1>9, <1>10, <2>1, EntryTyped
  <2>3. p.files[k].id <= uploads /\ own[p.files[k].id] = k
    BY <1>5, <1>10, <2>1 DEF Owned
  <2> QED
    BY <1>7, <2>1, <2>2, <2>3
<1>11. ASSUME NEW s \in Types, NEW v \in versions'[s], NEW k \in Names, v.files[k] # None
       PROVE  v.files[k] <= uploads /\ v.files[k] \in Ids /\ new[v.files[k]] = k
  <2>1. v \in versions[s] \/ v = Content(s)'
    BY <1>0, <1>11, Remembered
  <2>2. Content(s)' = Content(s) /\ Content(s) \in versions[s]
    BY <1>0, Remembered DEF Content
  <2>3. v \in versions[s]
    BY <2>1, <2>2
  <2>4. v.files \in [Names -> Ids \cup {None}]
    BY <1>0, <2>3 DEF VersionsTyped, VersionsOK
  <2>5. v.files[k] \in Ids
    BY <1>11, <2>4
  <2>6. v.files[k] <= uploads /\ own[v.files[k]] = k
    BY <1>5, <1>11, <2>3 DEF Owned
  <2> QED
    BY <1>7, <2>5, <2>6
<1>12. Owned(new)'
  <2>1. \A i \in Ids : i <= uploads => i <= uploads'
    BY <1>0, <1>1 DEF Ids
  <2> QED
    BY <1>0, <1>2, <1>7, <1>10, <1>11, <2>1 DEF Owned, Deleting
<1>13. FreshOK'
  <2>1. \A i \in Ids : i <= uploads => i # uploads + 1
    BY <1>1 DEF Ids
  <2> QED
    BY <1>2, <1>10, <2>1 DEF FreshOK
<1>14. SyncedOK' /\ TrashOK'
  BY <1>0, <1>2 DEF SyncedOK, TrashOK, PersistPcs, Deleting
<1>15. DurableUploads'
  <2>1. \A k : ~InTrash(k)
    BY <1>0 DEF InTrash
  <2> QED
    BY <1>0, <2>1 DEF DurableInv, DurableUploads
<1> QED
  BY <1>3, <1>4, <1>7, <1>12, <1>13, <1>14, <1>15 DEF DurableInv, OwnedOK

\* A step that sets the file at the path of the request.
LEMMA FinalFrame ==
  ASSUME HandlerInv, req # None, NEW i \in Ids \cup {None}, SetFinal(i)
  PROVE  /\ files'[req.type][req.name] = i
         /\ \A t \in Types, n \in Names :
              t # req.type \/ n # req.name => files'[t][n] = files[t][n]
         /\ req.type \in Types /\ req.name \in Names
  BY HandlerFacts, FinalSet, ReqTyped

\* Nothing is owed at the path of an upload that may link or has linked its
\* file, not even if the server has not read the metadata.
LEMMA UploadOwesNothing ==
  ASSUME HandlerInv, DurableInv, Uploading, pc \notin {"idle", "sync_meta", "swap"},
         trust # "lost", Final \in {None, req.id}, owed[req.name] # None
  PROVE  owed[req.name].type # req.type
<1>1. req.name \in Names /\ owed[req.name].id \in Ids
  BY HandlerFacts, ReqTyped, EntryTyped DEF Uploading
<1>2. /\ snapshot[req.name] = owed[req.name]
      /\ files[owed[req.name].type][req.name] = owed[req.name].id
  BY <1>1 DEF DurableInv, DurableUploads, InTrash, Uploading
<1>3. PICK m \in versions["meta"] : m.files = snapshot
  BY HandlerFacts, ContentOf DEF VersionsTyped, Dirs
<1>4. owed[req.name].id # req.id
  BY <1>1, <1>2, <1>3 DEF DurableInv, FreshOK
<1>5. owed[req.name].id # None
  BY <1>1, NoneAssumption
<1> QED
  BY <1>2, <1>4, <1>5 DEF Final

\* The file of an upload appears or disappears.
LEMMA UploadFileDurable ==
  ASSUME HandlerInv, HandlerInv', DurableInv, Remember, LabelsKept, Uploading,
         pc \notin {"idle", "sync_meta", "swap"}, NEW i \in Ids \cup {None}, SetFinal(i),
         \/ i = req.id /\ Final = None
         \/ i = None /\ Final = req.id,
         ~Deleting', UNCHANGED <<temps, snapshot, trust, moved, owed, uploads>>
  PROVE  DurableInv'
<1>0. LocalsTyped /\ ShapeOK /\ VersionsTyped /\ req # None
  BY HandlerFacts DEF Uploading
<1>1. /\ files'[req.type][req.name] = i /\ req.type \in Types /\ req.name \in Names
      /\ \A t \in Types, n \in Names :
           t # req.type \/ n # req.name => files'[t][n] = files[t][n]
  BY <1>0, FinalFrame
<1>2. PICK own \in [Ids -> Names \cup {None}] : Owned(own)
  BY DEF DurableInv, OwnedOK
<1>3. ASSUME NEW t \in Types, NEW n \in Names, NEW j \in Ids, Listed(n, t, j), HasNow(t, n, j)
      PROVE  HasNow(t, n, j)'
  <2>1. CASE t # req.type \/ n # req.name
    BY <1>1, <1>3, <2>1 DEF HasNow
  <2>2. CASE t = req.type /\ n = req.name
    <3>1. PICK m \in versions["meta"] : m.files[n] # None /\ m.files[n].id = j
      BY <1>0, <1>2, <1>3, ListedOwned
    <3>2. j # req.id
      BY <3>1 DEF DurableInv, FreshOK
    <3>3. j # None
      BY NoneAssumption
    <3>4. files[t][n] # j
      BY <2>2, <3>2, <3>3 DEF Final
    <3> QED
      BY <1>3, <3>4 DEF HasNow
  <2> QED
    BY <2>1, <2>2
<1>4. CrossOK' /\ BytesOfEntriesExist'
  BY <1>3, CrossKept DEF DurableInv
<1>5. \A n \in Names : trust # "lost" /\ owed[n] # None =>
        n # req.name \/ owed[n].type # req.type
  BY UploadOwesNothing
<1>6. ASSUME NEW n \in Names, trust # "lost", owed[n] # None
      PROVE  files'[owed[n].type][n] = files[owed[n].type][n]
  <2>1. owed[n].type \in Types
    BY <1>6, HandlerFacts, EntryTyped
  <2> QED
    BY <1>1, <1>5, <1>6, <2>1
<1>7. OwedOK'
  <2>1. \A n \in Names :
          /\ owed'[n] # None /\ trust = "synced" /\ <<owed[n].type, n>> \notin moved'
          /\ files[owed[n].type][n] = owed[n].id
          => files'[owed[n].type][n] = owed[n].id
    BY <1>6
  <2> QED
    BY <2>1, OwedKept DEF DurableInv
<1>8. FreshOK' /\ SyncedOK'
  BY SyncedKept DEF DurableInv, LabelsKept
<1>9. Owned(own)'
  <2>1. req.id <= uploads /\ own[req.id] = req.name
    <3>1. req.id = uploads /\ uploads \in Nat
      BY HandlerFacts DEF ShapeOK, CountsTyped
    <3> QED
      BY <1>2, <3>1 DEF Owned
  <2>2. \A t \in Types, n \in Names : files'[t][n] # None =>
           \/ files'[t][n] = files[t][n]
           \/ files'[t][n] <= uploads /\ own[files'[t][n]] = n
    BY <1>1, <2>1
  <2> QED
    BY <1>2, <2>2, OwnedKept DEF LabelsKept
<1>10. TrashOK'
  BY DEF TrashOK
<1>11. DurableUploads'
  <2>1. \A n : ~InTrash(n)
    BY DEF InTrash, Uploading
  <2> QED
    BY <1>6, <2>1 DEF DurableInv, DurableUploads
<1> QED
  BY <1>2, <1>4, <1>7, <1>8, <1>9, <1>10, <1>11 DEF DurableInv, OwnedOK

\* Linking a file, and removing it, harms no entry.
LEMMA LinkDurable ==
  ASSUME HandlerInv, HandlerInv', DurableInv, Remember, UNCHANGED <<moved, trust>>,
         Link \/ UnlinkFinal \/ Undo
  PROVE  DurableInv'
<1>0. /\ LocalsTyped /\ ShapeOK /\ FinalOK /\ pc \in {"link", "unlink_final", "undo_stat", "undo"}
      /\ UNCHANGED <<temps, snapshot, owed, uploads>>
      /\ pc' \in {"unlink", "guard", "sync_undo", "idle"}
      /\ req' = None \/ req' = req
  BY HandlerFacts DEF Link, UnlinkFinal, Undo, At, Goto, Return
<1>1. Uploading
  BY <1>0, HandlerAt
<1>2. ~Deleting' /\ LabelsKept /\ \A n : ~InTrash(n)
  BY <1>0, <1>1 DEF Deleting, Uploading, LabelsKept, PersistPcs, InTrash
<1>3. CASE UNCHANGED files
  BY <1>0, <1>2, <1>3, PlainDurable
<1>4. CASE Link /\ Final = None /\ SetFinal(req.id)
  BY <1>0, <1>1, <1>2, <1>4, ReqTyped, UploadFileDurable DEF Uploading
<1>5. CASE (UnlinkFinal \/ Undo) /\ SetFinal(None)
  <2>1. Final = req.id
    BY <1>0, <1>1, <1>5 DEF FinalOK, LinkedPcs, UnlinkFinal, Undo, At
  <2> QED
    BY <1>0, <1>1, <1>2, <1>5, <2>1, UploadFileDurable
<1> QED
  BY <1>3, <1>4, <1>5 DEF Link, UnlinkFinal, Undo

\* The trash of a Delete.
LEMMA MineIsTrash ==
  ASSUME Deleting, NEW i
  PROVE  Mine(i) = Temp("delete", req.type, i)
  BY DEF Deleting, Mine

\* Moving a file to the trash keeps its bytes.
LEMMA MoveDurable ==
  ASSUME HandlerInv, HandlerInv', DurableInv, Move, Remember, UNCHANGED trust
  PROVE  DurableInv'
<1>0. /\ DiskTyped /\ LocalsTyped /\ ShapeOK /\ TableOK /\ FinalOK /\ VersionsTyped
      /\ pc = "move" /\ held = None /\ server = "up"
      /\ UNCHANGED <<snapshot, owed, uploads>>
  BY HandlerFacts DEF Move, At, ShapeOK, FreePcs
<1>1. Deleting /\ req # None /\ table = snapshot /\ \A n : ~InTrash(n)
  BY <1>0, HandlerAt, HandlerFacts DEF Deleting, InTrash
<1>2. CASE Return /\ UNCHANGED <<files, temps, moved>>
  <2>1. LabelsKept /\ ~Deleting'
    BY <1>2 DEF LabelsKept, Return, Uploading, Deleting
  <2> QED
    BY <1>0, <1>1, <1>2, <2>1, PlainDurable
<1>3. CASE /\ SetFinal(None) /\ held' = Mine(Final) /\ pc' = "persist" /\ UNCHANGED req
           /\ temps' = (temps \ {Mine(0)}) \cup {held'}
           /\ moved' = moved \cup {<<req.type, req.name>>}
  <2>1. /\ files'[req.type][req.name] = None /\ req.type \in Types /\ req.name \in Names
        /\ \A t \in Types, n \in Names :
             t # req.type \/ n # req.name => files'[t][n] = files[t][n]
    BY <1>1, <1>3, FinalFrame
  <2>2. PICK f : f = Final
    OBVIOUS
  <2>3. f = files[req.type][req.name] /\ f \in Ids
    <3>1. f = files[req.type][req.name] /\ f # None
      BY <1>0, <1>1, <2>2 DEF FinalOK, Final
    <3>2. f \in Ids \cup {None}
      BY <1>0, <2>1, <3>1 DEF DiskTyped
    <3> QED
      BY <3>1, <3>2
  <2>4. /\ held' = Temp("delete", req.type, f) /\ held'.id = f /\ held' # None
        /\ Mine(0).id = 0
    <3>1. Mine(f) # None /\ Mine(f).id = f /\ Mine(0).id = 0
      BY <1>0, <1>1, <2>3, MineFields
    <3>2. held' = Mine(f) /\ Mine(f) = Temp("delete", req.type, f)
      BY <1>1, <1>3, <2>2, MineIsTrash
    <3> QED
      BY <3>1, <3>2
  <2>5. LabelsKept
    BY <1>1, <1>3 DEF LabelsKept, Uploading, Deleting
  <2>6. PICK own \in [Ids -> Names \cup {None}] : Owned(own)
    BY DEF DurableInv, OwnedOK
  <2>7. ASSUME NEW t \in Types, NEW n \in Names, NEW i \in Ids, HasNow(t, n, i)
        PROVE  HasNow(t, n, i)'
    <3>1. Temp("delete", t, i) \in temps => Temp("delete", t, i) \in temps'
      BY <1>3, <2>4, NotTrash
    <3>2. CASE t = req.type /\ n = req.name
      <4>1. files[t][n] = i => Temp("delete", t, i) \in temps'
        BY <1>3, <2>3, <2>4, <3>2
      <4> QED
        BY <2>7, <3>1, <4>1 DEF HasNow
    <3>3. CASE t # req.type \/ n # req.name
      BY <2>1, <2>7, <3>1, <3>3 DEF HasNow
    <3> QED
      BY <3>2, <3>3
  <2>8. CrossOK' /\ BytesOfEntriesExist'
    BY <1>0, <2>7, CrossKept DEF DurableInv
  <2>9. ASSUME NEW n \in Names, owed[n] # None,
               <<owed[n].type, n>> # <<req.type, req.name>>
        PROVE  files'[owed[n].type][n] = files[owed[n].type][n]
    <3>1. owed[n].type \in Types
      BY <2>9, HandlerFacts, EntryTyped
    <3> QED
      BY <2>1, <2>9, <3>1
  <2>10. OwedOK'
    <3>1. \A n \in Names :
            /\ owed'[n] # None /\ trust = "synced" /\ <<owed[n].type, n>> \notin moved'
            /\ files[owed[n].type][n] = owed[n].id
            => files'[owed[n].type][n] = owed[n].id
      BY <1>0, <1>3, <2>9
    <3>2. moved \subseteq moved'
      BY <1>3
    <3> QED
      BY <1>0, <3>1, <3>2, OwedKept DEF DurableInv
  <2>11. FreshOK' /\ SyncedOK'
    BY <1>0, <2>5, SyncedKept DEF DurableInv, LabelsKept
  <2>12. Owned(own)'
    <3>1. f <= uploads /\ own[f] = req.name
      <4>1. Content(req.type) \in versions[req.type] /\ Content(req.type).files = files[req.type]
        BY <1>0, <2>1, ContentOf DEF VersionsTyped, Dirs
      <4>2. f # None
        BY <2>3, NoneAssumption
      <4> QED
        BY <2>1, <2>3, <2>6, <4>1, <4>2 DEF Owned
    <3>2. \A t \in Types, n \in Names : files'[t][n] # None => files'[t][n] = files[t][n]
      BY <2>1
    <3> QED
      BY <1>0, <1>3, <2>4, <2>5, <2>6, <3>1, <3>2, OwnedKept DEF LabelsKept
  <2>13. ASSUME trust # "lost", owed[req.name] # None PROVE f = owed[req.name].id
    <3>1. /\ snapshot[req.name] = owed[req.name]
          /\ files[owed[req.name].type][req.name] = owed[req.name].id
      BY <1>1, <2>1, <2>13 DEF DurableInv, DurableUploads
    <3>2. snapshot[req.name].type = req.type
      BY <1>0, <1>1 DEF TableOK
    <3> QED
      BY <2>3, <3>1, <3>2
  <2>14. TrashOK'
    BY <1>0, <1>3, <2>4, <2>13 DEF TrashOK
  <2>15. \A n : n = req.name => InTrash(n)'
    BY <1>1, <1>3, <2>4 DEF InTrash, Deleting
  <2>16. DurableUploads'
    <3> SUFFICES ASSUME trust # "lost", NEW n \in Names, owed[n] # None
                 PROVE  /\ snapshot[n] = owed[n]
                        /\ files'[owed[n].type][n] = owed[n].id \/ InTrash(n)'
      BY <1>0 DEF DurableUploads
    <3>1. snapshot[n] = owed[n] /\ files[owed[n].type][n] = owed[n].id
      BY <1>1 DEF DurableInv, DurableUploads
    <3>2. CASE n = req.name
      BY <2>15, <3>1, <3>2
    <3>3. CASE n # req.name
      BY <2>9, <3>1, <3>3
    <3> QED
      BY <3>2, <3>3
  <2> QED
    BY <2>6, <2>8, <2>10, <2>11, <2>12, <2>14, <2>16 DEF DurableInv, OwnedOK
<1> QED
  BY <1>2, <1>3 DEF Move, GotoPersist

\* Moving it back does too.
LEMMA RestoreDurable ==
  ASSUME HandlerInv, HandlerInv', DurableInv, Restore, Remember, UNCHANGED <<moved, trust>>
  PROVE  DurableInv'
<1>0. /\ DiskTyped /\ LocalsTyped /\ ShapeOK /\ TableOK /\ FinalOK /\ VersionsTyped
      /\ pc = "restore" /\ server = "up"
      /\ UNCHANGED <<snapshot, uploads>> /\ Return /\ owed \in Tables
  BY HandlerFacts DEF Restore, At
<1>1. /\ Deleting /\ req # None /\ req.name \in Names /\ req.type \in Types
      /\ table = snapshot
  BY <1>0, HandlerAt, ReqTyped, HandlerFacts DEF Deleting
<1>2. LabelsKept /\ ~Deleting' /\ ~Uploading' /\ held' = None
  BY <1>0 DEF LabelsKept, Return, Uploading, Deleting
<1>3. CASE held = None /\ UNCHANGED <<files, temps, owed>>
  <2>1. \A n : ~InTrash(n)
    BY <1>3 DEF InTrash
  <2> QED
    BY <1>0, <1>2, <1>3, <2>1, PlainDurable
<1>4. CASE owed' = [owed EXCEPT ![req.name] = None] /\ UNCHANGED <<files, temps>>
  <2>1. owed'[req.name] = None /\ \A n \in Names : n # req.name => owed'[n] = owed[n]
    BY <1>0, <1>1, <1>4, SetEntry
  <2>2. \A n \in Names : owed'[n] # None => ~InTrash(n)
    BY <2>1 DEF InTrash
  <2> QED
    BY <1>0, <1>2, <1>4, <2>1, <2>2, CalmDurable
<1>5. CASE held # None /\ SetFinal(held.id) /\ temps' = temps \ {held} /\ UNCHANGED owed
  <2>1. PICK f : f = held.id
    OBVIOUS
  <2>2. f \in Ids /\ held = Temp("delete", req.type, f)
    BY <1>0, <1>1, <1>5, <2>1, MineIsTrash DEF ShapeOK
  <2>3. /\ files'[req.type][req.name] = f
        /\ \A t \in Types, n \in Names :
             t # req.type \/ n # req.name => files'[t][n] = files[t][n]
    BY <1>1, <1>5, <2>1, <2>2, FinalFrame
  <2>4. files[req.type][req.name] = None
    BY <1>0, <1>1 DEF FinalOK, Final
  <2>5. PICK own \in [Ids -> Names \cup {None}] : Owned(own)
    BY DEF DurableInv, OwnedOK
  <2>6. f <= uploads /\ own[f] = req.name
    BY <1>1, <1>5, <2>1, <2>5 DEF Owned
  <2>7. ASSUME NEW t \in Types, NEW n \in Names, NEW i \in Ids, Listed(n, t, i), HasNow(t, n, i)
        PROVE  HasNow(t, n, i)'
    <3>1. CASE i = f /\ n = req.name /\ t = req.type
      BY <2>3, <3>1 DEF HasNow
    <3>2. CASE i # f
      <4>1. Temp("delete", t, i) # held
        BY <2>2, <3>2 DEF Temp
      <4>2. i # None
        BY NoneAssumption
      <4>3. files[t][n] = i => files'[t][n] = i
        BY <2>3, <2>4, <4>2
      <4> QED
        BY <1>5, <2>7, <4>1, <4>3 DEF HasNow
    <3>3. CASE i = f /\ (n # req.name \/ t # req.type)
      <4>1. n = req.name
        BY <1>0, <2>5, <2>6, <2>7, <3>3, ListedOwned
      <4>2. t # req.type
        BY <3>3, <4>1
      <4>3. Temp("delete", t, i) # held
        BY <2>2, <4>2 DEF Temp
      <4> QED
        BY <1>5, <2>3, <2>7, <4>2, <4>3 DEF HasNow
    <3> QED
      BY <3>1, <3>2, <3>3
  <2>8. CrossOK' /\ BytesOfEntriesExist'
    BY <1>0, <2>7, CrossKept DEF DurableInv
  <2>9. ASSUME NEW n \in Names, owed[n] # None, files[owed[n].type][n] = owed[n].id
        PROVE  files'[owed[n].type][n] = owed[n].id
    <3>1. owed[n].type \in Types /\ owed[n].id # None
      BY <1>0, <2>9, EntryTyped, NoneAssumption
    <3> QED
      BY <2>3, <2>4, <2>9, <3>1
  <2>10. OwedOK'
    <3>1. \A n \in Names :
            /\ owed'[n] # None /\ trust = "synced" /\ <<owed[n].type, n>> \notin moved'
            /\ files[owed[n].type][n] = owed[n].id
            => files'[owed[n].type][n] = owed[n].id
      BY <1>5, <2>9
    <3> QED
      BY <1>0, <1>5, <3>1, OwedKept DEF DurableInv
  <2>11. FreshOK' /\ SyncedOK'
    BY <1>0, <1>2, SyncedKept DEF DurableInv, LabelsKept
  <2>12. Owned(own)'
    <3>1. \A t \in Types, n \in Names : files'[t][n] # None =>
            \/ files'[t][n] = files[t][n]
            \/ files'[t][n] <= uploads /\ own[files'[t][n]] = n
      BY <2>3, <2>6
    <3> QED
      BY <1>0, <1>2, <2>5, <3>1, OwnedKept
  <2>13. TrashOK'
    BY <1>2 DEF TrashOK
  <2>14. DurableUploads'
    <3> SUFFICES ASSUME trust # "lost", NEW n \in Names, owed[n] # None
                 PROVE  snapshot[n] = owed[n] /\ files'[owed[n].type][n] = owed[n].id
      BY <1>0, <1>5 DEF DurableUploads
    <3>1. /\ snapshot[n] = owed[n]
          /\ files[owed[n].type][n] = owed[n].id \/ InTrash(n)
      BY DEF DurableInv, DurableUploads
    <3>2. CASE files[owed[n].type][n] = owed[n].id
      BY <2>9, <3>1, <3>2
    <3>3. CASE InTrash(n)
      <4>1. n = req.name
        BY <3>3, TrashIsHeld
      <4>2. f = owed[n].id
        BY <1>1, <1>5, <2>1, <4>1 DEF DurableInv, TrashOK
      <4>3. owed[n].type = req.type
        BY <1>0, <1>1, <3>1, <4>1 DEF TableOK
      <4> QED
        BY <2>3, <3>1, <4>1, <4>2, <4>3
    <3> QED
      BY <3>1, <3>2, <3>3
  <2> QED
    BY <2>5, <2>8, <2>10, <2>11, <2>12, <2>13, <2>14 DEF DurableInv, OwnedOK
<1> QED
  BY <1>3, <1>4, <1>5 DEF Restore

\* The rename of the metadata file: the bytes of a new entry are there, and
\* synced.
LEMMA RenameDurable ==
  ASSUME HandlerInv, HandlerInv', DurableInv, PersistRename, Remember, UNCHANGED <<moved, trust>>,
         snapshot' = next, temps' = temps \ {Storage}, pc' = "sync_meta",
         owed' = [n \in Names |->
                    IF blind \/ (req.kind = "delete" /\ req.name = n) THEN None ELSE owed[n]]
  PROVE  DurableInv'
<1>0. /\ DiskTyped /\ LocalsTyped /\ CountsTyped /\ ShapeOK /\ TableOK /\ FinalOK /\ VersionsTyped
      /\ pc = "persist_rename" /\ server = "up" /\ owed \in Tables
      /\ UNCHANGED <<files, uploads, req, held>>
      /\ ~blind => table = snapshot
      /\ \A n \in Names : table[n] # None => ~blind
  BY HandlerFacts DEF PersistRename, At, Goto
<1>1. req # None /\ (Uploading \/ Deleting) /\ held # Storage
  BY <1>0, HandlerAt, StorageNotHeld DEF PersistPcs
<1>2. req.name \in Names /\ req.type \in Types /\ req.id \in Ids /\ table \in Tables
  BY <1>0, <1>1, ReqTyped DEF LocalsTyped
<1>3. /\ \A n \in Names : n # req.name => next[n] = table[n]
      /\ Deleting => next[req.name] = None
      /\ Uploading => next[req.name] = [type |-> req.type, id |-> req.id]
  <2>1. next = [table EXCEPT ![req.name] =
                  IF req.kind = "upload" THEN [type |-> req.type, id |-> req.id] ELSE None]
    BY <1>0 DEF TableOK, PersistPcs
  <2>2. [type |-> req.type, id |-> req.id] \in Entries
    BY <1>2, NewEntry
  <2> QED
    BY <1>0, <1>1, <1>2, <2>1, <2>2, SetEntry DEF Uploading, Deleting
<1>a. \A n \in Names : n # req.name /\ (next[n] # None \/ ~blind) => next[n] = snapshot[n]
  BY <1>0, <1>3
<1>4. Uploading => /\ next[req.name].type = req.type /\ next[req.name].id = req.id
                   /\ files[req.type][req.name] = req.id
  BY <1>0, <1>2, <1>3, NewEntry DEF FinalOK, Final, LinkedPcs, PersistPcs
<1>5. \A t \in Types : Content(t)' = Content(t)
  <2>1. {x \in temps \ {Storage} : x.kind = "delete"} = {x \in temps : x.kind = "delete"}
    BY DEF Storage, Temp
  <2>2. \A t : {x \in temps' : x.kind = "delete" /\ x.dir = t}
                 = {x \in temps : x.kind = "delete" /\ x.dir = t}
    BY <2>1
  <2> QED
    BY <1>0, <2>2 DEF Content, Types
<1>6. /\ \A t \in Types : \A v \in versions'[t] : v \in versions[t]
      /\ \A m \in versions'["meta"] : m \in versions["meta"] \/ m.files = next
      /\ \E m \in versions["meta"] : m.files = snapshot
      /\ \A t \in Types : Content(t) \in versions[t]
  BY <1>0, <1>5, Remembered
<1>7. ASSUME NEW n \in Names, next[n] # None, trust = "synced", NEW v \in versions[next[n].type]
      PROVE  Has(v, next[n].type, n, next[n].id)
  <2>1. CASE n # req.name
    <3>1. next[n] = snapshot[n]
      BY <1>7, <1>a, <2>1
    <3>2. PICK m \in versions["meta"] : m.files = snapshot
      BY <1>6
    <3> QED
      BY <1>7, <3>1, <3>2 DEF DurableInv, CrossOK
  <2>2. CASE n = req.name
    <3>1. Uploading
      BY <1>1, <1>3, <1>7, <2>2
    <3>2. \A w \in versions[req.type] : w.files[req.name] = req.id
      BY <1>0, <1>7, <3>1 DEF DurableInv, SyncedOK, PersistPcs
    <3> QED
      BY <1>4, <1>7, <2>2, <3>1, <3>2 DEF Has
  <2> QED
    BY <2>1, <2>2
<1>8. CrossOK'
  <2> SUFFICES ASSUME trust = "synced", NEW m \in versions'["meta"], NEW n \in Names,
                      m.files[n] # None, NEW v \in versions'[m.files[n].type]
               PROVE  Has(v, m.files[n].type, n, m.files[n].id)
    BY DEF CrossOK
  <2>0. m.files[n].type \in Types
    <3>1. m.files \in Tables
      BY <1>0, <1>6 DEF VersionsTyped, VersionsOK, LocalsTyped
    <3> QED
      BY <3>1, EntryTyped
  <2>1. v \in versions[m.files[n].type]
    BY <1>6, <2>0
  <2>2. CASE m \in versions["meta"]
    BY <2>1, <2>2 DEF DurableInv, CrossOK
  <2>3. CASE m.files = next
    BY <1>7, <2>1, <2>3
  <2> QED
    BY <1>6, <2>2, <2>3
<1>9. BytesOfEntriesExist'
  <2> SUFFICES ASSUME trust # "lost", NEW n \in Names, next[n] # None
               PROVE  \/ files[next[n].type][n] = next[n].id
                      \/ Temp("delete", next[n].type, next[n].id) \in temps'
    BY <1>0 DEF BytesOfEntriesExist
  <2>1. CASE n # req.name
    <3>1. next[n] = snapshot[n] /\ snapshot[n] # None
      BY <1>a, <2>1
    <3>2. snapshot[n].type \in Types /\ snapshot[n].id \in Ids
      BY <1>0, <3>1, EntryTyped DEF DiskTyped
    <3>3. HasNow(snapshot[n].type, n, snapshot[n].id)
      BY <3>1 DEF DurableInv, BytesOfEntriesExist, HasNow
    <3>4. Storage.kind = "storage"
      BY DEF Storage, Temp
    <3>5. Temp("delete", snapshot[n].type, snapshot[n].id) # Storage
      BY <3>2, <3>4, NotTrash
    <3>6. HasNow(snapshot[n].type, n, snapshot[n].id)
            => \/ files[snapshot[n].type][n] = snapshot[n].id
               \/ Temp("delete", snapshot[n].type, snapshot[n].id) \in temps'
      BY <3>5 DEF HasNow
    <3> QED
      BY <3>1, <3>3, <3>6
  <2>2. CASE n = req.name
    <3>1. Uploading
      BY <1>1, <1>3, <2>2
    <3> QED
      BY <1>4, <2>2, <3>1
  <2> QED
    BY <2>1, <2>2
<1>10. ASSUME NEW n \in Names, trust # "lost", owed'[n] # None
       PROVE  n # req.name /\ owed'[n] = owed[n] /\ next[n] = owed[n]
  <2>1. ~blind /\ owed'[n] = owed[n] /\ (Deleting => n # req.name)
    BY <1>10 DEF Deleting
  <2>2. snapshot[n] = owed[n]
    BY <1>10, <2>1 DEF DurableInv, DurableUploads
  <2>3. n # req.name
    <3>1. CASE Uploading
      BY <1>0, <1>10, <2>1, <2>2, <3>1 DEF TableOK
    <3> QED
      BY <1>1, <2>1, <3>1
  <2> QED
    BY <1>a, <2>1, <2>2, <2>3
<1>11. OwedOK'
  <2> SUFFICES ASSUME trust = "synced", NEW n \in Names, owed'[n] # None
               PROVE  /\ \A m \in versions'["meta"] : m.files[n] = owed[n]
                      /\ <<owed[n].type, n>> \notin moved =>
                           \A v \in versions'[owed[n].type] : v.files[n] = owed[n].id
    BY <1>10 DEF OwedOK
  <2>1. owed[n] # None /\ next[n] = owed[n]
    BY <1>10
  <2>2. owed[n].type \in Types
    BY <1>0, <2>1, EntryTyped
  <2>3. /\ \A m \in versions["meta"] : m.files[n] = owed[n]
        /\ <<owed[n].type, n>> \notin moved =>
             \A v \in versions[owed[n].type] : v.files[n] = owed[n].id
    BY <2>1 DEF DurableInv, OwedOK
  <2> QED
    BY <1>6, <2>1, <2>2, <2>3
<1>12. FreshOK'
  BY DEF FreshOK
<1>13. SyncedOK'
  <2> SUFFICES ASSUME trust = "synced", Uploading', NEW v \in versions'[req'.type]
               PROVE  v.files[req'.name] = req'.id
    BY DEF SyncedOK
  <2>1. v \in versions[req.type] /\ Uploading
    BY <1>0, <1>2, <1>6 DEF Uploading
  <2> QED
    BY <1>0, <2>1 DEF DurableInv, SyncedOK, PersistPcs
<1>14. PICK own \in [Ids -> Names \cup {None}] : Owned(own)
  BY DEF DurableInv, OwnedOK
<1>15. Owned(own)'
  <2>1. ASSUME NEW m \in versions'["meta"], NEW n \in Names, m.files[n] # None
        PROVE  m.files[n].id <= uploads /\ own[m.files[n].id] = n
    <3>1. CASE \E k \in versions["meta"] : k.files[n] = m.files[n]
      BY <1>14, <2>1, <3>1 DEF Owned
    <3>2. CASE m.files = next /\ n = req.name
      <4>1. Uploading
        BY <1>1, <1>3, <2>1, <3>2
      <4>2. req.id = uploads /\ uploads \in Nat
        BY <1>0, <4>1 DEF ShapeOK, CountsTyped
      <4> QED
        BY <1>4, <1>14, <3>2, <4>1, <4>2 DEF Owned
    <3>3. CASE m.files = next /\ n # req.name
      BY <1>6, <1>a, <2>1, <3>1, <3>3
    <3> QED
      BY <1>6, <3>1, <3>2, <3>3
  <2>2. \A t \in Types : \A v \in versions'[t], n \in Names : v.files[n] # None =>
          v.files[n] <= uploads /\ own[v.files[n]] = n
    BY <1>6, <1>14 DEF Owned
  <2>3. /\ Uploading' => own[req.id] = req.name
        /\ Deleting' /\ held # None => held.id <= uploads /\ own[held.id] = req.name
    BY <1>0, <1>14 DEF Owned, Uploading, Deleting
  <2> QED
    BY <1>0, <2>1, <2>2, <2>3 DEF Owned
<1>16. TrashOK'
  BY <1>0, <1>2, <1>10 DEF TrashOK
<1>17. DurableUploads'
  <2> SUFFICES ASSUME trust # "lost", NEW n \in Names, owed'[n] # None
               PROVE  next[n] = owed[n] /\ files[owed[n].type][n] = owed[n].id
    BY <1>0, <1>10 DEF DurableUploads
  <2>1. n # req.name /\ owed[n] # None /\ next[n] = owed[n]
    BY <1>10
  <2>2. ~InTrash(n)
    BY <2>1, TrashIsHeld
  <2> QED
    BY <2>1, <2>2 DEF DurableInv, DurableUploads
<1> QED
  BY <1>8, <1>9, <1>11, <1>12, <1>13, <1>14, <1>15, <1>16, <1>17 DEF DurableInv, OwnedOK

\* Replacing the metadata file, or failing to.
LEMMA PersistRenameDurable ==
  ASSUME HandlerInv, HandlerInv', DurableInv, PersistRename, Remember, UNCHANGED <<moved, trust>>
  PROVE  DurableInv'
<1>1. CASE UNCHANGED <<snapshot, temps, owed>>
  BY <1>1, PersistDurable
<1>2. CASE /\ snapshot' = next /\ temps' = temps \ {Storage} /\ pc' = "sync_meta"
           /\ owed' = [n \in Names |->
                         IF blind \/ (req.kind = "delete" /\ req.name = n) THEN None ELSE owed[n]]
  BY <1>2, RenameDurable
<1> QED
  BY <1>1, <1>2 DEF PersistRename, Goto

\* A finished upload is owed, and it is there.
LEMMA SwapDurable ==
  ASSUME HandlerInv, HandlerInv', DurableInv, Swap, Remember, UNCHANGED <<moved, trust>>
  PROVE  DurableInv'
<1>0. /\ DiskTyped /\ LocalsTyped /\ ShapeOK /\ TableOK /\ FinalOK /\ VersionsTyped
      /\ pc = "swap" /\ owed \in Tables /\ next \in Tables
      /\ UNCHANGED <<files, temps, snapshot, uploads>> /\ snapshot = next
  BY HandlerFacts DEF Swap, At, disk, bounds, LocalsTyped, TableOK
<1>1. req # None /\ (Uploading \/ Deleting)
  BY <1>0, HandlerAt DEF PersistPcs
<1>2. req.name \in Names /\ req.type \in Types /\ req.id \in Ids /\ table \in Tables
  BY <1>0, <1>1, ReqTyped DEF LocalsTyped
<1>3. CASE Deleting
  <2>1. pc' = "purge" /\ UNCHANGED <<req, held, owed>>
    BY <1>3 DEF Swap, Goto, Deleting
  <2>2. LabelsKept /\ \A n : InTrash(n) => InTrash(n)'
    BY <1>0, <1>3, <2>1 DEF LabelsKept, InTrash, Uploading, Deleting
  <2> QED
    BY <1>0, <2>1, <2>2, PlainDurable
<1>4. CASE Uploading
  <2>1. /\ owed' = [owed EXCEPT ![req.name] = next[req.name]]
        /\ req' = None /\ held' = None /\ pc' = "idle"
    BY <1>4 DEF Swap, Return, Uploading
  <2>2. /\ next[req.name].type = req.type /\ next[req.name].id = req.id
        /\ next[req.name] \in Entries
    <3>1. next = [table EXCEPT ![req.name] = [type |-> req.type, id |-> req.id]]
      BY <1>0, <1>4 DEF TableOK, PersistPcs, Uploading
    <3>2. [type |-> req.type, id |-> req.id] \in Entries
      BY <1>2, NewEntry
    <3>3. next[req.name] = [type |-> req.type, id |-> req.id]
      BY <1>2, <3>1, <3>2, SetEntry
    <3> QED
      BY <1>2, <3>3, NewEntry
  <2>3. /\ owed'[req.name] = next[req.name]
        /\ \A n \in Names : n # req.name => owed'[n] = owed[n]
    BY <1>0, <1>2, <2>1, <2>2, SetEntry
  <2>4. ~Uploading' /\ ~Deleting' /\ LabelsKept
    BY <2>1 DEF Uploading, Deleting, LabelsKept
  <2>5. CrossOK' /\ BytesOfEntriesExist'
    <3>1. \A t \in Types, n \in Names, i \in Ids : HasNow(t, n, i) => HasNow(t, n, i)'
      BY <1>0 DEF HasNow
    <3> QED
      BY <1>0, <3>1, CrossKept DEF DurableInv
  <2>6. FreshOK' /\ SyncedOK'
    BY <1>0, <2>4, SyncedKept DEF DurableInv, LabelsKept
  <2>7. PICK own \in [Ids -> Names \cup {None}] : Owned(own)
    BY DEF DurableInv, OwnedOK
  <2>8. Owned(own)'
    BY <1>0, <2>4, <2>7, OwnedKept
  <2>9. TrashOK'
    BY <2>4 DEF TrashOK
  <2>10. \A t \in Types : Content(t)' = Content(t)
    BY <1>0 DEF Content
  <2>11. /\ \A t \in Types : \A v \in versions'[t] : v \in versions[t]
         /\ \A m \in versions'["meta"] : m \in versions["meta"] \/ m.files = snapshot
         /\ \E m \in versions["meta"] : m.files = snapshot
    BY <1>0, <2>10, Remembered
  <2>12. OwedOK'
    <3> SUFFICES ASSUME trust = "synced", NEW n \in Names, owed'[n] # None
                 PROVE  /\ \A m \in versions'["meta"] : m.files[n] = owed'[n]
                        /\ <<owed'[n].type, n>> \notin moved =>
                             \A v \in versions'[owed'[n].type] : v.files[n] = owed'[n].id
      BY DEF OwedOK
    <3>1. CASE n = req.name
      <4>1. \A m \in versions["meta"] : m.files = snapshot
        BY <1>0 DEF DurableInv, SyncedOK
      <4>2. \A v \in versions[req.type] : v.files[req.name] = req.id
        BY <1>0, <1>4 DEF DurableInv, SyncedOK, PersistPcs
      <4> QED
        BY <1>0, <1>2, <2>2, <2>3, <2>11, <3>1, <4>1, <4>2
    <3>2. CASE n # req.name
      <4>1. owed'[n] = owed[n] /\ owed[n] # None /\ owed[n].type \in Types
        BY <1>0, <2>3, <3>2, EntryTyped
      <4>2. /\ \A m \in versions["meta"] : m.files[n] = owed[n]
            /\ <<owed[n].type, n>> \notin moved =>
                 \A v \in versions[owed[n].type] : v.files[n] = owed[n].id
        BY <4>1 DEF DurableInv, OwedOK
      <4> QED
        BY <2>11, <4>1, <4>2
    <3> QED
      BY <3>1, <3>2
  <2>13. DurableUploads'
    <3> SUFFICES ASSUME trust # "lost", NEW n \in Names, owed'[n] # None
                 PROVE  snapshot[n] = owed'[n] /\ files[owed'[n].type][n] = owed'[n].id
      BY <1>0 DEF DurableUploads
    <3>1. CASE n = req.name
      <4>1. files[req.type][req.name] = req.id
        BY <1>0, <1>4 DEF FinalOK, Final, LinkedPcs, PersistPcs
      <4> QED
        BY <1>0, <2>2, <2>3, <3>1, <4>1
    <3>2. CASE n # req.name
      <4>1. owed'[n] = owed[n] /\ ~InTrash(n)
        BY <2>3, <3>2, TrashIsHeld
      <4> QED
        BY <4>1 DEF DurableInv, DurableUploads
    <3> QED
      BY <3>1, <3>2
  <2> QED
    BY <2>5, <2>6, <2>7, <2>8, <2>9, <2>12, <2>13 DEF DurableInv, OwnedOK
<1> QED
  BY <1>1, <1>3, <1>4

\* A sync narrows what a loss of power may leave; a failed one ends the claims
\* about it.
LEMMA SyncDurable ==
  ASSUME HandlerInv, HandlerInv', DurableInv, Sync
  PROVE  DurableInv'
<1>0. /\ DiskTyped /\ LocalsTyped /\ CountsTyped /\ ShapeOK /\ FinalOK /\ VersionsTyped
      /\ owed \in Tables /\ pc \in {"sync", "sync_meta", "sync_undo"}
      /\ UNCHANGED <<files, temps, snapshot, owed, uploads>>
  BY HandlerFacts, SyncStepFrame DEF Sync, SyncFile, SyncMeta, SyncUndo, At
<1>1. /\ req # None /\ req.type \in Types /\ req.name \in Names
      /\ pc # "sync_meta" => Uploading
  BY <1>0, HandlerAt, ReqTyped
<1>2. PICK d \in Dirs : SyncDirectory(d) /\ d = IF pc = "sync_meta" THEN "meta" ELSE req.type
  BY <1>0, <1>1 DEF Sync, SyncFile, SyncMeta, SyncUndo, At, Dirs
<1>3. /\ \A e \in Dirs : versions'[e] \subseteq versions[e]
      /\ trust' = "synced" => trust = "synced" /\ versions'[d] = {Content(d)}
      /\ trust' # "lost" => trust # "lost"
      /\ \A t \in Types, n \in Names :
           trust' = "synced" /\ <<t, n>> \notin moved' => <<t, n>> \notin moved \/ d = t
  <2>1. HistoryTyped /\ UNCHANGED disk
    BY <1>0, HandlerParts DEF HistoryTyped, HandlerPart, disk
  <2> QED
    BY <1>0, <1>2, <2>1, SyncTyped
<1>4. /\ pc = "sync" => pc' = "stat" /\ UNCHANGED <<req, held>>
      /\ pc = "sync_meta" => pc' = "swap" /\ UNCHANGED <<req, held>>
      /\ pc = "sync_undo" => pc' = "idle" /\ req' = None /\ held' = None
  BY DEF Sync, SyncFile, SyncMeta, SyncUndo, At, Goto, Return
<1>5. /\ versions'["meta"] \subseteq versions["meta"]
      /\ \A t \in Types : versions'[t] \subseteq versions[t]
      /\ \A t \in Types : Content(t).files = files[t]
      /\ Content("meta").files = snapshot
  BY <1>3, ContentOf DEF Dirs
<1>6. CrossOK'
  <2> SUFFICES ASSUME trust' = "synced", NEW m \in versions'["meta"], NEW n \in Names,
                      m.files[n] # None, NEW v \in versions'[m.files[n].type]
               PROVE  Has(v, m.files[n].type, n, m.files[n].id)
    BY DEF CrossOK
  <2>1. m \in versions["meta"] /\ m.files[n].type \in Types
    <3>1. m \in versions["meta"] /\ m.files \in Tables
      BY <1>0, <1>5 DEF VersionsTyped, VersionsOK
    <3> QED
      BY <3>1, EntryTyped
  <2>2. v \in versions[m.files[n].type] /\ trust = "synced"
    BY <1>3, <1>5, <2>1
  <2> QED
    BY <2>1, <2>2 DEF DurableInv, CrossOK
<1>7. BytesOfEntriesExist'
  BY <1>0, <1>3 DEF DurableInv, BytesOfEntriesExist
<1>8. OwedOK'
  <2> SUFFICES ASSUME trust' = "synced", NEW n \in Names, owed[n] # None
               PROVE  /\ \A m \in versions'["meta"] : m.files[n] = owed[n]
                      /\ <<owed[n].type, n>> \notin moved' =>
                           \A v \in versions'[owed[n].type] : v.files[n] = owed[n].id
    BY <1>0 DEF OwedOK
  <2>1. trust = "synced" /\ owed[n].type \in Types
    BY <1>0, <1>3, EntryTyped
  <2>2. /\ \A m \in versions["meta"] : m.files[n] = owed[n]
        /\ <<owed[n].type, n>> \notin moved =>
             \A v \in versions[owed[n].type] : v.files[n] = owed[n].id
    BY <2>1 DEF DurableInv, OwedOK
  <2>3. CASE d # owed[n].type
    BY <1>3, <1>5, <2>1, <2>2, <2>3
  <2>4. CASE d = owed[n].type
    <3>1. pc # "sync_meta"
      BY <1>2, <2>1, <2>4 DEF Types
    <3>2. ~InTrash(n)
      BY <1>1, <3>1 DEF InTrash, Uploading
    <3>3. files[owed[n].type][n] = owed[n].id
      BY <2>1, <3>2 DEF DurableInv, DurableUploads
    <3>4. versions'[owed[n].type] = {Content(owed[n].type)}
      BY <1>3, <2>4
    <3> QED
      BY <1>5, <2>1, <2>2, <3>3, <3>4
  <2> QED
    BY <2>3, <2>4
<1>9. FreshOK'
  BY <1>0, <1>4, <1>5 DEF DurableInv, FreshOK, Uploading
<1>10. SyncedOK'
  <2>1. ASSUME trust' = "synced", Uploading', pc' \in {"stat"} \cup PersistPcs,
               NEW v \in versions'[req'.type]
        PROVE  v.files[req'.name] = req'.id
    <3>1. req' = req /\ Uploading /\ pc \in {"sync", "sync_meta"}
      BY <1>0, <1>4, <2>1 DEF Uploading
    <3>2. CASE pc = "sync"
      <4>1. v = Content(req.type)
        BY <1>2, <1>3, <2>1, <3>1, <3>2
      <4>2. files[req.type][req.name] = req.id
        BY <1>0, <3>1, <3>2 DEF FinalOK, Final, LinkedPcs
      <4> QED
        BY <1>1, <1>5, <3>1, <4>1, <4>2
    <3>3. CASE pc = "sync_meta"
      <4>1. v \in versions[req.type] /\ trust = "synced"
        BY <1>1, <1>3, <1>5, <2>1, <3>1
      <4> QED
        BY <3>1, <3>3, <4>1 DEF DurableInv, SyncedOK, PersistPcs
    <3> QED
      BY <3>1, <3>2, <3>3
  <2>2. ASSUME trust' = "synced",
               pc' \in {"swap", "purge"} \/ (Deleting' /\ pc' = "guard"),
               NEW m \in versions'["meta"]
        PROVE  m.files = snapshot
    <3>1. pc = "sync_meta"
      BY <1>0, <1>4, <2>2
    <3>2. m = Content("meta")
      BY <1>2, <1>3, <2>2, <3>1
    <3> QED
      BY <1>5, <3>2
  <2> QED
    BY <1>0, <2>1, <2>2 DEF SyncedOK
<1>11. PICK own \in [Ids -> Names \cup {None}] : Owned(own)
  BY DEF DurableInv, OwnedOK
<1>12. Owned(own)'
  <2>1. /\ Uploading' => Uploading /\ req' = req
        /\ Deleting' => Deleting /\ req' = req /\ held' = held
    BY <1>0, <1>4 DEF Uploading, Deleting
  <2>2. \A t \in Types : \A v \in versions'[t], n \in Names : v.files[n] # None =>
          v.files[n] <= uploads /\ own[v.files[n]] = n
    BY <1>5, <1>11 DEF Owned
  <2>3. \A m \in versions'["meta"], n \in Names : m.files[n] # None =>
          m.files[n].id <= uploads /\ own[m.files[n].id] = n
    BY <1>5, <1>11 DEF Owned
  <2>4. /\ Uploading => own[req.id] = req.name
        /\ Deleting /\ held # None => held.id <= uploads /\ own[held.id] = req.name
    BY <1>11 DEF Owned
  <2> QED
    BY <1>0, <2>1, <2>2, <2>3, <2>4 DEF Owned
<1>13. TrashOK'
  BY <1>0, <1>3, <1>4 DEF DurableInv, TrashOK, Deleting
<1>14. DurableUploads'
  <2>1. ASSUME NEW n, InTrash(n) PROVE InTrash(n)'
    <3>1. pc = "sync_meta"
      BY <1>0, <1>1, <2>1, TrashIsHeld DEF Uploading, Deleting
    <3> QED
      BY <1>0, <1>4, <2>1, <3>1 DEF InTrash
  <2> QED
    BY <1>0, <1>3, <2>1 DEF DurableInv, DurableUploads
<1> QED
  BY <1>6, <1>7, <1>8, <1>9, <1>10, <1>11, <1>12, <1>13, <1>14 DEF DurableInv, OwnedOK

\* A crash gives up a Delete that was under way and nothing else.
LEMMA CrashDurable ==
  ASSUME HandlerInv, HandlerInv', DurableInv, Crash, UNCHANGED versions
  PROVE  DurableInv'
<1>0. /\ UNCHANGED <<files, temps, snapshot, moved, trust, uploads, versions>>
      /\ req' = None /\ held' = None /\ pc' = "idle"
  BY DEF Crash, Die, disk
<1>1. \A n \in Names : owed'[n] = IF Interrupted(n) THEN None ELSE owed[n]
  BY DEF Crash
<1>2. ~Uploading' /\ ~Deleting'
  BY <1>0 DEF Uploading, Deleting
<1>3. \A n \in Names : owed'[n] # None => owed'[n] = owed[n] /\ ~InTrash(n)
  BY <1>1 DEF InTrash, Interrupted
<1>4. CrossOK' /\ BytesOfEntriesExist'
  BY <1>0 DEF DurableInv, CrossOK, BytesOfEntriesExist
<1>5. FreshOK' /\ SyncedOK' /\ TrashOK'
  BY <1>0, <1>2 DEF FreshOK, SyncedOK, TrashOK
<1>6. OwedOK'
  BY <1>0, <1>3 DEF DurableInv, OwedOK
<1>7. PICK own \in [Ids -> Names \cup {None}] : Owned(own)
  BY DEF DurableInv, OwnedOK
<1>8. Owned(own)'
  BY <1>0, <1>2, <1>7 DEF Owned
<1>9. DurableUploads'
  BY <1>0, <1>3 DEF DurableInv, DurableUploads
<1> QED
  BY <1>4, <1>5, <1>6, <1>7, <1>8, <1>9 DEF DurableInv, OwnedOK

\* Whatever each directory comes back with, what is owed is there.
LEMMA PowerLossDurable ==
  ASSUME HandlerInv, HandlerInv', DurableInv, PowerLoss
  PROVE  DurableInv'
<1>0. /\ VersionsTyped /\ DiskTyped /\ owed \in Tables /\ moved' = {} /\ uploads' = uploads
      /\ req' = None /\ held' = None /\ pc' = "idle"
      /\ trust' = (IF trust = "synced" THEN "synced" ELSE "lost")
      /\ DiskTyped' /\ VersionsTyped'
  BY HandlerFacts, PowerLossFrame DEF PowerLoss, Die
<1>1. \A d \in Dirs : versions'[d] = {Content(d)'}
  BY <1>0, PowerLossFrame
<1>2. PICK meta \in versions["meta"] : snapshot' = meta.files
  BY <1>0, PowerLossFrame
<1>3. \A t \in Types : \E v \in versions[t] :
        /\ files'[t] = v.files /\ Content(t)'.files = v.files /\ Content(t)'.trash = v.trash
  BY <1>0, PowerLossFrame
<1>4. \A n \in Names :
        owed'[n] = IF owed[n] # None /\ <<owed[n].type, n>> \in moved THEN None ELSE owed[n]
  BY DEF PowerLoss
<1>5. ~Uploading' /\ ~Deleting'
  BY <1>0 DEF Uploading, Deleting
<1>6. /\ \A m \in versions'["meta"] : m.files = meta.files
      /\ \A t \in Types : \A v \in versions'[t] : v = Content(t)'
  <2>1. Content("meta")'.files = snapshot'
    BY DEF Content
  <2> QED
    BY <1>1, <1>2, <2>1 DEF Dirs
<1>7. FreshOK' /\ SyncedOK' /\ TrashOK'
  BY <1>0, <1>5 DEF FreshOK, SyncedOK, TrashOK
<1>8. ASSUME trust = "synced", NEW n \in Names, NEW t \in Types, NEW i \in Ids,
             meta.files[n] # None, meta.files[n].type = t, meta.files[n].id = i
      PROVE  Content(t)'.files[n] = i \/ Temp("delete", t, i) \in Content(t)'.trash
  <2>1. PICK v \in versions[t] : Content(t)'.files = v.files /\ Content(t)'.trash = v.trash
    BY <1>3
  <2>2. Has(v, t, n, i)
    BY <1>8 DEF DurableInv, CrossOK
  <2> QED
    BY <2>1, <2>2 DEF Has
<1>a. \A n \in Names : meta.files[n] # None =>
        \E t \in Types, i \in Ids : meta.files[n].type = t /\ meta.files[n].id = i
  <2>1. meta.files \in Tables
    BY <1>0 DEF VersionsTyped, VersionsOK
  <2> QED
    BY <2>1, EntryTyped
<1>9. CrossOK'
  <2> SUFFICES ASSUME trust = "synced", NEW m \in versions'["meta"], NEW n \in Names,
                      m.files[n] # None, NEW v \in versions'[m.files[n].type]
               PROVE  Has(v, m.files[n].type, n, m.files[n].id)
    BY <1>0 DEF CrossOK
  <2>1. m.files = meta.files
    BY <1>6
  <2>2. PICK t \in Types, i \in Ids : meta.files[n].type = t /\ meta.files[n].id = i
    BY <1>a, <2>1
  <2>3. v = Content(t)'
    BY <1>6, <2>1, <2>2
  <2>4. v.files[n] = i \/ Temp("delete", t, i) \in v.trash
    BY <1>8, <2>1, <2>2, <2>3
  <2> QED
    BY <2>1, <2>2, <2>4 DEF Has
<1>10. BytesOfEntriesExist'
  <2> SUFFICES ASSUME trust = "synced", NEW n \in Names, meta.files[n] # None
               PROVE  \/ files'[meta.files[n].type][n] = meta.files[n].id
                      \/ Temp("delete", meta.files[n].type, meta.files[n].id) \in temps'
    BY <1>0, <1>2 DEF BytesOfEntriesExist
  <2>1. PICK t \in Types, i \in Ids : meta.files[n].type = t /\ meta.files[n].id = i
    BY <1>a
  <2>2. Content(t)'.files[n] = i \/ Temp("delete", t, i) \in Content(t)'.trash
    BY <1>8, <2>1
  <2>3. /\ Content(t)'.files = files'[t]
        /\ Content(t)'.trash = {x \in temps' : x.kind = "delete" /\ x.dir = t}
    BY DEF Content, Types
  <2>4. files'[t][n] = i \/ Temp("delete", t, i) \in temps'
    BY <2>2, <2>3
  <2> QED
    BY <2>1, <2>4
<1>11. ASSUME trust = "synced", NEW n \in Names, owed'[n] # None
       PROVE  /\ owed'[n] = owed[n] /\ meta.files[n] = owed[n]
              /\ owed[n].type \in Types /\ files'[owed[n].type][n] = owed[n].id
  <2>1. owed'[n] = owed[n] /\ owed[n] # None /\ <<owed[n].type, n>> \notin moved
    BY <1>4, <1>11
  <2>2. owed[n].type \in Types
    BY <1>0, <2>1, EntryTyped
  <2>3. /\ \A m \in versions["meta"] : m.files[n] = owed[n]
        /\ \A v \in versions[owed[n].type] : v.files[n] = owed[n].id
    BY <1>11, <2>1 DEF DurableInv, OwedOK
  <2>4. PICK v \in versions[owed[n].type] : files'[owed[n].type] = v.files
    BY <1>3, <2>2
  <2> QED
    BY <2>1, <2>2, <2>3, <2>4
<1>12. OwedOK'
  <2>1. \A t \in Types : Content(t)'.files = files'[t]
    BY DEF Content, Types
  <2> QED
    BY <1>0, <1>6, <1>11, <2>1 DEF OwedOK
<1>13. DurableUploads'
  BY <1>0, <1>2, <1>11 DEF DurableUploads
<1>14. PICK own \in [Ids -> Names \cup {None}] : Owned(own)
  BY DEF DurableInv, OwnedOK
<1>15. Owned(own)'
  <2>1. ASSUME NEW t \in Types, NEW v \in versions'[t], NEW n \in Names, v.files[n] # None
        PROVE  v.files[n] <= uploads /\ own[v.files[n]] = n
    <3>1. PICK w \in versions[t] : Content(t)'.files = w.files
      BY <1>3
    <3>2. v.files = w.files
      BY <1>6, <2>1, <3>1
    <3> QED
      BY <1>14, <2>1, <3>2 DEF Owned
  <2>2. ASSUME NEW m \in versions'["meta"], NEW n \in Names, m.files[n] # None
        PROVE  m.files[n].id <= uploads /\ own[m.files[n].id] = n
    BY <1>6, <1>14, <2>2 DEF Owned
  <2> QED
    BY <1>0, <1>5, <2>1, <2>2 DEF Owned
<1> QED
  BY <1>7, <1>9, <1>10, <1>12, <1>13, <1>14, <1>15 DEF DurableInv, OwnedOK

\* Every step keeps what is durable.
LEMMA DurableStep ==
  ASSUME HandlerInv, DurableInv, [Next]_vars
  PROVE  DurableInv'
<1>0. HandlerInv'
  BY HandlerStep
<1>1. CASE (Start \/ Shutdown \/ Begin \/ Step \/ PersistRename)
             /\ Remember /\ UNCHANGED <<moved, trust>>
  <2>1. CASE Begin
    BY <1>0, <1>1, <2>1, UploadStartDurable, ReadStartDurable DEF Begin
  <2>2. CASE Step
    BY <1>0, <1>1, <2>2, CreateTempFileDurable, WriteTempDurable, GuardRemoveDurable,
       LinkDurable, UnlinkDurable, StatDurable, PersistDurable,
       SwapDurable, ClearDurable, RestoreDurable, PurgeDurable DEF Step
  <2> QED
    BY <1>0, <1>1, <2>1, <2>2, StartDurable, PersistRenameDurable
<1>2. CASE Move /\ Remember /\ UNCHANGED trust
  BY <1>0, <1>2, MoveDurable
<1>3. CASE Crash /\ UNCHANGED versions
  BY <1>0, <1>3, CrashDurable
<1>4. CASE Sync
  BY <1>0, <1>4, SyncDurable
<1>5. CASE PowerLoss
  BY <1>0, <1>5, PowerLossDurable
<1>6. CASE UNCHANGED vars
  <2>1. UNCHANGED <<files, temps, snapshot, pc, req, held, uploads, owed, versions, moved, trust>>
    BY <1>6 DEF vars
  <2>2. OwnedOK'
    BY <2>1 DEF DurableInv, OwnedOK, Owned, Uploading, Deleting
  <2>3. CrossOK' /\ OwedOK' /\ BytesOfEntriesExist'
    BY <2>1 DEF DurableInv, CrossOK, OwedOK, BytesOfEntriesExist
  <2>4. FreshOK' /\ SyncedOK' /\ TrashOK'
    BY <2>1 DEF DurableInv, FreshOK, SyncedOK, TrashOK, Uploading, Deleting
  <2>5. DurableUploads'
    BY <2>1 DEF DurableInv, DurableUploads, InTrash
  <2> QED
    BY <2>2, <2>3, <2>4, <2>5 DEF DurableInv
<1> QED
  BY <1>1, <1>2, <1>3, <1>4, <1>5, <1>6 DEF Next

-----------------------------------------------------------------------------
(* The theorems.                                                           *)

\* The initial states satisfy the invariant.
LEMMA IndInit == Init => IndInv
<1> SUFFICES ASSUME Init PROVE IndInv
  OBVIOUS
<1>1. /\ EmptyTable \in Tables /\ (\A n \in Names : EmptyTable[n] = None)
      /\ EmptyTable \in [Names -> Ids \cup {None}]
  BY DEF EmptyTable, Tables
<1>2. /\ pc = "idle" /\ req = None /\ held = None /\ server = "down" /\ temps = {}
      /\ snapshot = EmptyTable /\ table = EmptyTable /\ next = EmptyTable /\ owed = EmptyTable
      /\ uploads = 0 /\ faults = 0 /\ crashes = 0 /\ littered = FALSE /\ moved = {}
      /\ trust = "synced" /\ DOMAIN versions = Dirs /\ blind = FALSE
      /\ \A t \in Types : files[t] = EmptyTable
      /\ \A d \in Dirs : versions[d] = {Content(d)}
      /\ files = [t \in Types |-> EmptyTable]
  BY DEF Init
<1>3. DiskTyped /\ LocalsTyped
  BY <1>1, <1>2 DEF DiskTyped, LocalsTyped, Labels
<1>4. CountsTyped
  BY <1>2, ConstantsAssumption DEF CountsTyped
<1>5. /\ \A m \in versions["meta"] : m.files = EmptyTable
      /\ \A t \in Types : \A v \in versions[t] : v.files = EmptyTable /\ v.trash = {}
  BY <1>2, ContentOf DEF Dirs
<1>6. VersionsTyped
  BY <1>1, <1>2, <1>5 DEF VersionsTyped, VersionsOK
<1>7. ~Uploading /\ ~Deleting
  BY <1>2 DEF Uploading, Deleting
<1>8. ShapeOK /\ TableOK /\ FinalOK
  BY <1>2, <1>7 DEF ShapeOK, TableOK, FinalOK, MemoryMatchesDisk, PersistPcs
<1>9. HandlerInv
  BY <1>1, <1>2, <1>3, <1>4, <1>6, <1>8, HandlerParts DEF HandlerPart
<1>10. ResidueOK
  <2>1. TempsMatch /\ TrashMatch
    BY <1>2, <1>7 DEF TempsMatch, TrashMatch, Residue, StoragePcs
  <2>2. FilesMatch /\ PathFree
    BY <1>1, <1>2, <1>7 DEF FilesMatch, ByEntry, PathFree
  <2> QED
    BY <2>1, <2>2 DEF ResidueOK, Clean
<1>11. DurableInv
  <2>1. OwnedOK
    <3>1. \A own : Owned(own)
      BY <1>1, <1>5, <1>7 DEF Owned
    <3>2. [i \in Ids |-> None] \in [Ids -> Names \cup {None}]
      OBVIOUS
    <3> QED
      BY <3>1, <3>2 DEF OwnedOK
  <2>2. FreshOK /\ SyncedOK /\ TrashOK
    BY <1>2, <1>7 DEF FreshOK, SyncedOK, TrashOK
  <2>3. CrossOK /\ OwedOK
    BY <1>1, <1>2, <1>5 DEF CrossOK, OwedOK
  <2>4. BytesOfEntriesExist /\ DurableUploads
    BY <1>1, <1>2 DEF BytesOfEntriesExist, DurableUploads
  <2> QED
    BY <2>1, <2>2, <2>3, <2>4 DEF DurableInv
<1> QED
  BY <1>9, <1>10, <1>11 DEF IndInv

\* Every step of the specification keeps the inductive invariant.
LEMMA IndNext == IndInv /\ [Next]_vars => IndInv'
<1> SUFFICES ASSUME IndInv, [Next]_vars PROVE IndInv'
  OBVIOUS
<1>1. HandlerInv /\ ResidueOK /\ DurableInv
  BY DEF IndInv
<1> QED
  BY <1>1, HandlerStep, ResidueStep, DurableStep DEF IndInv

-----------------------------------------------------------------------------
(* The theorems.                                                           *)

\* The inductive invariant holds whatever calls fail and whenever the process
\* dies or the machine loses power.
THEOREM Invariance == Spec => []IndInv
<1> QED
  BY IndInit, IndNext, PTL DEF Spec

\* Every variable of the storage server keeps its type, and the locals of a
\* handler exist exactly while it runs.
THEOREM TypeCorrect == Spec => []TypeOK
<1>1. IndInv => TypeOK
  BY DEF IndInv, HandlerInv
<1> QED
  BY <1>1, Invariance, PTL

\* An upload that Service::Upload answered with 201 is in the metadata file
\* and its bytes are at its path, or in the trash file of a running Delete.
THEOREM DurableCorrect == Spec => []DurableUploads
<1>1. IndInv => DurableUploads
  BY DEF IndInv, DurableInv
<1> QED
  BY <1>1, Invariance, PTL

\* Service::Delete destroys no bytes that the metadata file still lists.
THEOREM BytesCorrect == Spec => []BytesOfEntriesExist
<1>1. IndInv => BytesOfEntriesExist
  BY DEF IndInv, DurableInv
<1> QED
  BY <1>1, Invariance, PTL

\* table_ of the DataManager is what Persist committed.
THEOREM MemoryCorrect == Spec => []MemoryMatchesDisk
<1>1. IndInv => MemoryMatchesDisk
  BY DEF IndInv, HandlerInv, TableOK
<1> QED
  BY <1>1, Invariance, PTL

\* The handlers of the server leave no temporary file and no file without an
\* entry, unless a crash or a failed removal does.
THEOREM NoResidueCorrect == Spec => []NoResidue
<1>1. IndInv => NoResidue
  <2> SUFFICES ASSUME IndInv, pc = "idle", crashes = 0, ~littered
               PROVE  /\ temps = {}
                      /\ \A t \in Types, n \in Names : files[t][n] = ByEntry(t, n)
    BY DEF NoResidue, ByEntry
  <2>1. Clean /\ ShapeOK /\ TypeOK
    BY DEF IndInv, HandlerInv, ResidueOK
  <2>2. req = None /\ held = None
    BY <2>1 DEF TypeOK, ShapeOK, FreePcs
  <2>3. temps = {}
    BY <2>1, <2>2 DEF Clean, TempsMatch, Residue, StoragePcs
  <2>4. \A t \in Types, n \in Names : ~Busy(t, n)
    BY <2>2 DEF Busy
  <2> QED
    BY <2>1, <2>3, <2>4 DEF Clean, FilesMatch
<1> QED
  BY <1>1, Invariance, PTL

-----------------------------------------------------------------------------
\* The running request may remove the file of a path: a Delete of it, or the
\* upload that put it there.
MayRemove(t, n) ==
  /\ req # None /\ req.type = t /\ req.name = n
  /\ req.kind = "delete" \/ (req.kind = "upload" /\ req.id = files[t][n])

\* The running handler removes the file at its path only if it may.
LEMMA RemovalAllowed ==
  ASSUME HandlerInv, UnlinkFinal \/ Undo \/ Move,
         NEW t \in Types, NEW n \in Names, t = req.type, n = req.name
  PROVE  MayRemove(t, n)
<1>1. LocalsTyped /\ ShapeOK /\ FinalOK
  BY HandlerParts DEF HandlerPart
<1>2. CASE Move
  <2>1. Deleting
    BY <1>1, <1>2, HandlerAt DEF Move, At
  <2> QED
    BY <2>1 DEF MayRemove, Deleting
<1>3. CASE UnlinkFinal \/ Undo
  <2>1. pc \in {"unlink_final", "undo_stat", "undo"}
    BY <1>3 DEF UnlinkFinal, Undo, At
  <2>2. Uploading
    BY <1>1, <2>1, HandlerAt
  <2>3. Final = req.id
    BY <1>1, <2>1, <2>2 DEF FinalOK, LinkedPcs
  <2> QED
    BY <2>2, <2>3 DEF MayRemove, Uploading, Final
<1> QED
  BY <1>2, <1>3

\* A step that leaves the storage directories alone, or puts bytes only where
\* there are none, keeps every stored file or removes what it may.
LEMMA StoredFileStep ==
  ASSUME HandlerInv, [Next]_vars, crashes' = crashes,
         NEW t \in Types, NEW n \in Names, files[t][n] # None
  PROVE  files'[t][n] = files[t][n] \/ (files'[t][n] = None /\ MayRemove(t, n))
<1>1. CASE UNCHANGED files
  BY <1>1
<1>2. crashes \in 0 .. MaxCrashes /\ files \in [Types -> [Names -> Ids \cup {None}]]
  BY DEF HandlerInv, TypeOK
<1>3. ~Crash /\ ~PowerLoss
  BY <1>2 DEF Crash, PowerLoss, Die
<1>4. CASE SetFinal(None) /\ (UnlinkFinal \/ Undo \/ Move)
  <2>1. CASE t = req.type /\ n = req.name
    <3>1. MayRemove(t, n)
      BY <1>4, <2>1, RemovalAllowed
    <3>2. files'[t][n] = None
      BY <1>2, <1>4, <2>1 DEF SetFinal
    <3> QED
      BY <3>1, <3>2
  <2>2. CASE ~(t = req.type /\ n = req.name)
    BY <1>2, <1>4, <2>2 DEF SetFinal
  <2> QED
    BY <2>1, <2>2
<1>5. ASSUME NEW i, SetFinal(i), Final = None
      PROVE  files'[t][n] = files[t][n]
  <2>1. ~(t = req.type /\ n = req.name)
    BY <1>5 DEF Final
  <2> QED
    BY <1>2, <1>5, <2>1 DEF SetFinal
<1>6. CASE Start \/ Shutdown \/ Begin
  BY <1>1, <1>6 DEF Start, Shutdown, Begin, UploadStart, DeleteStart, DownloadStart, disk
<1>7. CASE Sync
  BY <1>1, <1>7 DEF Sync, SyncFile, SyncMeta, SyncUndo, disk
<1>8. CASE Link
  BY <1>1, <1>5, <1>8 DEF Link
<1>9. CASE UnlinkFinal \/ Undo \/ Move
  BY <1>1, <1>4, <1>9 DEF UnlinkFinal, Undo, Move
<1>10. CASE Restore
  <2>1. CASE held = None
    BY <1>1, <1>10, <2>1 DEF Restore
  <2>2. CASE held # None
    <3>1. pc = "restore" /\ req # None
      BY <1>10 DEF Restore, At, HandlerInv, TypeOK
    <3>2. Deleting
      BY <3>1 DEF HandlerInv, TypeOK, ShapeOK, Requests, Deleting, Uploading, UploadPcs,
                  LinkedPcs, PersistPcs
    <3>3. Final = None
      BY <3>1, <3>2 DEF HandlerInv, FinalOK
    <3> QED
      BY <1>1, <1>5, <1>10, <3>3 DEF Restore
  <2> QED
    BY <2>1, <2>2
<1>11. CASE CreateTempFile \/ WriteTemp \/ GuardRemove \/ Unlink
  BY <1>1, <1>11 DEF CreateTempFile, WriteTemp, GuardRemove, Unlink
<1>12. CASE Stat \/ PersistWrite \/ Swap
  BY <1>1, <1>12 DEF Stat, PersistWrite, Swap, disk
<1>13. CASE PersistTemp \/ PersistRename \/ PersistUndo \/ Clear \/ Purge
  BY <1>1, <1>13 DEF PersistTemp, PersistRename, PersistUndo, Clear, Purge
<1>14. CASE UNCHANGED vars
  BY <1>1, <1>14 DEF vars
<1> QED
  BY <1>3, <1>6, <1>7, <1>8, <1>9, <1>10, <1>11, <1>12, <1>13, <1>14 DEF Next, Step

\* link(2) refuses an existing path, and the path a Delete restores its file
\* to is free: no step of a handler puts other bytes in the place of a file.
THEOREM NoOverwriteCorrect == Spec => NoOverwrite
<1>1. IndInv /\ [Next]_vars =>
        [crashes' = crashes =>
           \A t \in Types, n \in Names :
             files[t][n] # None => files'[t][n] \in {files[t][n], None}]_vars
  BY StoredFileStep DEF IndInv
<1> QED
  BY <1>1, Invariance, PTL DEF Spec, NoOverwrite

\* What UnlinkFinal and Undo take away is the link their own upload made: a file
\* that a crash or an unread metadata file has orphaned stays where it is.
THEOREM OnlyOwnCorrect == Spec => OnlyOwnRemoved
<1>1. IndInv /\ [Next]_vars =>
        [crashes' = crashes =>
           \A t \in Types, n \in Names :
             files[t][n] # None /\ files'[t][n] = None =>
               /\ req # None /\ req.type = t /\ req.name = n
               /\ req.kind = "delete" \/ (req.kind = "upload" /\ req.id = files[t][n])]_vars
  <2> SUFFICES ASSUME IndInv, [Next]_vars, crashes' = crashes,
                      NEW t \in Types, NEW n \in Names,
                      files[t][n] # None, files'[t][n] = None
               PROVE  MayRemove(t, n)
    BY DEF MayRemove
  <2>1. HandlerInv
    BY DEF IndInv
  <2> QED
    BY <2>1, StoredFileStep
<1> QED
  BY <1>1, Invariance, PTL DEF Spec, OnlyOwnRemoved

-----------------------------------------------------------------------------
(* The server implements FileStore.                                        *)

\* What a loss of power may leave of the metadata file.
Lasting == {m.files : m \in versions["meta"]}

\* The part of the mapping that has nothing to do with the running request.
MapKept ==
  /\ UNCHANGED <<snapshot, uploads, blind>>
  /\ Lasting' = Lasting
  /\ (server = "up")' = (server = "up")

\* Remembering what an unchanged metadata directory holds adds nothing.
LEMMA RememberLasting ==
  ASSUME VersionsTyped, Remember
  PROVE  Lasting' = Lasting \cup {snapshot'}
<1>1. versions'["meta"] = versions["meta"] \cup {Content("meta")'}
  BY DEF Remember, Dirs
<1>2. Content("meta")'.files = snapshot'
  BY DEF Content
<1> QED
  BY <1>1, <1>2 DEF Lasting

\* What the metadata file holds now may be left of it.
LEMMA SnapshotLasts ==
  ASSUME VersionsTyped
  PROVE  snapshot \in Lasting
  BY ContentOf DEF VersionsTyped, Lasting, Dirs

\* The job that stands for an upload or a delete under way.
LEMMA JobFields ==
  ASSUME req # None, req.kind # "download"
  PROVE  /\ Job = [kind |-> req.kind, name |-> req.name, type |-> req.type,
                   done |-> Committed]
         /\ Job.kind = req.kind /\ Job.name = req.name /\ Job.type = req.type
         /\ Job.done = Committed
  BY DEF Job

\* None stands for no job only.
LEMMA JobTyped ==
  ASSUME LocalsTyped, req # None, req.kind # "download"
  PROVE  Job # None
<1>1. Committed \in BOOLEAN
  BY DEF Committed
<1>2. /\ req.kind \in {"upload", "delete"} /\ req.name \in Names /\ req.type \in Types
  BY ReqTyped
<1> QED
  BY <1>1, <1>2, JobFields, JobAssumption

\* A step that leaves the request and its progress alone is none of the store.
LEMMA StutterSimulates ==
  ASSUME MapKept, UNCHANGED trust, Job' = Job
  PROVE  UNCHANGED Store!vars
  BY DEF MapKept, Lasting, Store!vars

\* A handler that answers has changed nothing, or what it changed is synced.
LEMMA ReturnSimulates ==
  ASSUME IndInv, server = "up", MapKept, Return, pc # "sync_meta",
         trust' = trust \/ (trust' # "synced" /\ ~Committed)
  PROVE  Store!Next \/ UNCHANGED Store!vars
<1>1. Job' = None
  BY DEF Return, Job
<1>2. CASE Job = None /\ trust' = trust
  BY <1>1, <1>2, StutterSimulates
<1>3. CASE Job = None /\ trust' # trust
  BY <1>1, <1>3 DEF Store!Next, Store!SyncFails, MapKept, Lasting
<1>4. CASE Job # None
  <2>1. req # None /\ req.kind # "download"
    BY <1>4 DEF Job
  <2>2. Job.done = Committed
    BY <2>1, JobFields
  <2>3. CASE ~Committed
    <3>1. (trust = "synced")' \in {trust = "synced", FALSE}
      BY <2>3
    <3>2. Store!Fail
      BY <1>1, <1>4, <2>2, <2>3, <3>1 DEF Store!Fail, MapKept, Lasting
    <3> QED
      BY <3>2 DEF Store!Next
  <2>4. CASE Committed
    <3>1. trust = "synced" => Lasting = {snapshot}
      <4> SUFFICES ASSUME trust = "synced" PROVE Lasting = {snapshot}
        OBVIOUS
      <4>1. SyncedOK /\ VersionsTyped
        BY TypeParts DEF IndInv, DurableInv, HandlerInv
      <4>2. pc \in {"swap", "purge"} \/ (Deleting /\ pc = "guard")
        BY <2>1, <2>4 DEF Committed, Deleting
      <4>3. \A m \in versions["meta"] : m.files = snapshot
        BY <4>1, <4>2 DEF SyncedOK
      <4> QED
        BY <4>1, <4>3, SnapshotLasts DEF Lasting
    <3>2. trust' = trust
      BY <2>4
    <3>3. Store!Succeed
      BY <1>1, <1>4, <2>2, <2>4, <3>1, <3>2 DEF Store!Succeed, MapKept, Lasting
    <3> QED
      BY <3>3 DEF Store!Next
  <2> QED
    BY <2>3, <2>4
<1> QED
  BY <1>2, <1>3, <1>4

\* A step that keeps the request and whether it has taken effect keeps the job.
LEMMA JobKept ==
  ASSUME UNCHANGED req, req # None => Committed' = Committed
  PROVE  Job' = Job
  BY DEF Job

\* The steps of a handler but the one that replaces the metadata file go on
\* without a change of the map, or answer.
LEMMA StepShape ==
  ASSUME IndInv, Step
  PROVE  /\ server = "up" /\ pc # "sync_meta"
         /\ UNCHANGED <<snapshot, uploads, server>>
         /\ \/ UNCHANGED req /\ Committed' = Committed
            \/ Return
<1>1. /\ TypeOK /\ ShapeOK
  BY DEF IndInv, HandlerInv
<1>2. pc # "idle" => req # None /\ req.kind \in {"upload", "delete", "download"}
  BY <1>1 DEF TypeOK, Requests
<1>3. CASE CreateTempFile
  BY <1>3 DEF CreateTempFile, At, Committed
<1>4. CASE WriteTemp
  BY <1>1, <1>2, <1>4 DEF WriteTemp, At, Committed, Goto, ShapeOK, Deleting, DeletePcs, PersistPcs
<1>5. CASE GuardRemove
  BY <1>5 DEF GuardRemove, At
<1>6. CASE Link \/ Unlink \/ UnlinkFinal
  <2>1. req.kind # "delete"
    BY <1>1, <1>2, <1>6 DEF Link, Unlink, UnlinkFinal, At, ShapeOK, Deleting, DeletePcs, PersistPcs
  <2> QED
    BY <1>6, <2>1 DEF Link, Unlink, UnlinkFinal, At, Committed, Goto
<1>7. CASE Stat \/ Undo
  BY <1>7 DEF Stat, Undo, At, Committed, Goto, GotoPersist, disk
<1>8. CASE PersistTemp \/ PersistWrite \/ PersistUndo
  BY <1>8 DEF PersistTemp, PersistWrite, PersistUndo, At, Committed, Goto, FailedPersist, disk
<1>9. CASE Swap
  BY <1>9 DEF Swap, At, Committed, Goto, disk, bounds
<1>10. CASE Clear
  BY <1>10 DEF Clear, At, Committed, Goto
<1>11. CASE Restore
  BY <1>11 DEF Restore, At
<1>12. CASE Purge
  <2>1. req.kind = "delete"
    BY <1>1, <1>2, <1>12, HandlerAt, TypeParts DEF Purge, At, IndInv, HandlerInv, Deleting
  <2> QED
    BY <1>12, <2>1 DEF Purge, At, Committed, Goto
<1> QED
  BY <1>3, <1>4, <1>5, <1>6, <1>7, <1>8, <1>9, <1>10, <1>11, <1>12 DEF Step

\* A step of a handler before its commit and after it.
LEMMA StepSimulates ==
  ASSUME IndInv, Step, Remember, UNCHANGED <<trust, blind>>
  PROVE  Store!Next \/ UNCHANGED Store!vars
<1>1. VersionsTyped
  BY TypeParts DEF IndInv, HandlerInv
<1>2. /\ server = "up" /\ pc # "sync_meta"
      /\ UNCHANGED <<snapshot, uploads, server, blind>>
  BY StepShape
<1>3. MapKept
  BY <1>1, <1>2, RememberLasting, SnapshotLasts DEF MapKept
<1>4. CASE UNCHANGED req /\ Committed' = Committed
  BY <1>3, <1>4, JobKept, StutterSimulates
<1>5. CASE Return
  BY <1>2, <1>3, <1>5, ReturnSimulates
<1> QED
  BY <1>4, <1>5, StepShape

\* The rename that replaces the metadata file is where a request takes effect.
LEMMA RenameSimulates ==
  ASSUME IndInv, PersistRename, Remember, UNCHANGED trust
  PROVE  Store!Next \/ UNCHANGED Store!vars
<1>1. /\ VersionsTyped /\ LocalsTyped /\ ShapeOK /\ TableOK
  BY TypeParts DEF IndInv, HandlerInv
<1>2. /\ server = "up" /\ pc = "persist_rename" /\ req # None
      /\ UNCHANGED <<req, uploads, server>>
  BY <1>1 DEF PersistRename, At, Goto, LocalsTyped
<1>3. Uploading \/ Deleting
  BY <1>1, <1>2, HandlerAt DEF PersistPcs
<1>4. req.kind # "download" /\ ~Committed
  BY <1>2, <1>3 DEF Uploading, Deleting, Committed
<1>5. CASE snapshot' = next /\ pc' = "sync_meta" /\ blind' = FALSE
  <2>1. table = Store!View
    BY <1>1, <1>2 DEF TableOK, MemoryMatchesDisk, EmptyTable, Store!View, Store!Empty
  <2>2. next = [Store!View EXCEPT ![req.name] =
                  IF req.kind = "upload" THEN [type |-> req.type, id |-> uploads]
                  ELSE None]
    BY <1>1, <1>2, <1>3, <2>1 DEF TableOK, PersistPcs, ShapeOK, Uploading
  <2>3. /\ Job.kind = req.kind /\ Job.name = req.name /\ Job.type = req.type
        /\ Job.done = FALSE /\ Job # None
    BY <1>1, <1>2, <1>4, JobFields, JobTyped
  <2>4. Job' = Store!Job(Job.kind, Job.name, Job.type, TRUE)
    <3>1. Committed' = TRUE
      BY <1>5 DEF Committed
    <3> QED
      BY <1>2, <1>4, <2>3, <3>1 DEF Job, Store!Job
  <2>5. Lasting' = Lasting \cup {snapshot'}
    BY <1>1, RememberLasting
  <2>6. Store!Commit
    BY <1>2, <1>5, <2>2, <2>3, <2>4, <2>5 DEF Store!Commit, Lasting
  <2> QED
    BY <2>6 DEF Store!Next
<1>6. CASE UNCHANGED <<snapshot, blind>> /\ pc' = "persist_undo"
  <2>1. Committed' = Committed
    BY <1>2, <1>4, <1>6 DEF Committed
  <2>2. MapKept
    BY <1>1, <1>2, <1>6, RememberLasting, SnapshotLasts DEF MapKept
  <2> QED
    BY <1>2, <2>1, <2>2, JobKept, StutterSimulates
<1> QED
  BY <1>5, <1>6 DEF PersistRename, Goto

\* A new request begins from what the server takes for the metadata.
LEMMA BeginSimulates ==
  ASSUME IndInv, Begin, Remember, UNCHANGED <<trust, blind>>
  PROVE  Store!Next \/ UNCHANGED Store!vars
<1>1. /\ VersionsTyped /\ LocalsTyped /\ TableOK /\ CountsTyped
  BY TypeParts DEF IndInv, HandlerInv
<1>2. /\ server = "up" /\ pc = "idle" /\ req = None
      /\ UNCHANGED <<snapshot, server>>
  BY <1>1 DEF Begin, UploadStart, DeleteStart, DownloadStart, At, LocalsTyped, disk
<1>3. table = Store!View
  BY <1>1, <1>2 DEF TableOK, MemoryMatchesDisk, EmptyTable, Store!View, Store!Empty
<1>4. Job = None /\ Lasting' = Lasting
  BY <1>1, <1>2, RememberLasting, SnapshotLasts DEF Job
<1>5. CASE \E n \in Names, t \in Types : UploadStart(n, t)
  <2>1. PICK n \in Names, t \in Types : UploadStart(n, t)
    BY <1>5
  <2>2. /\ table[n] = None /\ uploads' = uploads + 1 /\ uploads + 1 \in Ids
        /\ req' = Request("upload", n, t, uploads + 1) /\ pc' = "temp"
    BY <1>1, <2>1, ConstantsAssumption DEF UploadStart, CountsTyped, Ids
  <2>3. Job' = Store!Job("upload", n, t, FALSE)
    <3>1. req' # None /\ req'.kind = "upload" /\ req'.name = n /\ req'.type = t
      BY <2>2, NewRequest
    <3>2. Committed' = FALSE
      BY <2>2, <3>1 DEF Committed
    <3> QED
      BY <3>1, <3>2 DEF Job, Store!Job
  <2>4. Store!BeginUpload(n, t)
    BY <1>2, <1>3, <1>4, <2>2, <2>3 DEF Store!BeginUpload, Lasting
  <2> QED
    BY <2>4 DEF Store!Next, Store!Types, Types
<1>6. CASE \E n \in Names : DeleteStart(n)
  <2>1. PICK n \in Names : DeleteStart(n)
    BY <1>6
  <2>2. /\ table[n] # None /\ table[n].type \in Types /\ table[n].id \in Ids
        /\ req' = Request("delete", n, table[n].type, table[n].id)
        /\ pc' \in {"temp", "persist"} /\ UNCHANGED uploads
    <3>1. table[n] # None /\ table \in Tables
      BY <1>1, <2>1 DEF DeleteStart, LocalsTyped
    <3>2. table[n].type \in Types /\ table[n].id \in Ids
      BY <3>1, EntryTyped
    <3> QED
      BY <2>1, <3>1, <3>2 DEF DeleteStart, GotoPersist, bounds
  <2>3. Job' = Store!Job("delete", n, Store!View[n].type, FALSE)
    <3>1. req' # None /\ req'.kind = "delete" /\ req'.name = n /\ req'.type = table[n].type
      BY <2>2, NewRequest
    <3>2. Committed' = FALSE
      BY <2>2, <3>1 DEF Committed
    <3> QED
      BY <1>3, <3>1, <3>2 DEF Job, Store!Job
  <2>4. Store!BeginDelete(n)
    BY <1>2, <1>3, <1>4, <2>2, <2>3 DEF Store!BeginDelete, Lasting
  <2> QED
    BY <2>4 DEF Store!Next
<1>7. CASE \E n \in Names : DownloadStart(n)
  <2>1. PICK n \in Names : DownloadStart(n)
    BY <1>7
  <2>2. /\ table[n].id \in Ids /\ UNCHANGED uploads
        /\ req' = Request("download", n, "deep", table[n].id)
    BY <1>1, <2>1, EntryTyped DEF DownloadStart, LocalsTyped, bounds
  <2>3. Job' = None
    BY <2>2, NewRequest DEF Job, Types
  <2> QED
    BY <1>2, <1>4, <2>2, <2>3, StutterSimulates DEF MapKept
<1> QED
  BY <1>5, <1>6, <1>7 DEF Begin

\* Starting and ending the server.
LEMMA ServerSimulates ==
  ASSUME IndInv, Start \/ Shutdown, Remember, UNCHANGED trust
  PROVE  Store!Next \/ UNCHANGED Store!vars
<1>1. /\ VersionsTyped /\ LocalsTyped /\ ShapeOK
      /\ blind \in BOOLEAN /\ (blind => server = "up")
  BY TypeParts DEF IndInv, HandlerInv, TypeOK, TableOK
<1>2. /\ pc = "idle" /\ UNCHANGED <<snapshot, req, pc, uploads>>
  BY <1>1 DEF Start, Shutdown, ShapeOK, disk, bounds
<1>3. req = None /\ Job = None /\ Job' = None
  BY <1>1, <1>2 DEF LocalsTyped, Job
<1>4. Lasting' = Lasting
  BY <1>1, <1>2, RememberLasting, SnapshotLasts
<1>5. CASE server # "up" /\ server' = "up" /\ blind' \in BOOLEAN
  <2>1. Store!Start
    BY <1>2, <1>3, <1>4, <1>5 DEF Store!Start, Lasting
  <2> QED
    BY <2>1 DEF Store!Next
<1>6. CASE server = "up" /\ server' = "down" /\ blind' = FALSE
  <2>1. Store!Stop
    BY <1>2, <1>3, <1>4, <1>6 DEF Store!Stop, Lasting
  <2> QED
    BY <2>1 DEF Store!Next
<1>7. CASE server # "up" /\ server' = "failed" /\ blind' = FALSE
  BY <1>1, <1>2, <1>3, <1>4, <1>7, StutterSimulates DEF MapKept
<1> QED
  BY <1>5, <1>6, <1>7 DEF Start, Shutdown

\* A Delete that moves its file away has not changed the map yet.
LEMMA MoveSimulates ==
  ASSUME IndInv, Move, Remember, UNCHANGED <<trust, blind>>
  PROVE  Store!Next \/ UNCHANGED Store!vars
<1>1. /\ VersionsTyped /\ LocalsTyped
  BY TypeParts DEF IndInv, HandlerInv
<1>2. /\ server = "up" /\ pc = "move"
      /\ UNCHANGED <<snapshot, uploads, server>>
  BY DEF Move, At
<1>3. MapKept
  BY <1>1, <1>2, RememberLasting, SnapshotLasts DEF MapKept
<1>4. CASE UNCHANGED req /\ pc' = "persist"
  <2>1. Committed' = Committed
    BY <1>2, <1>4 DEF Committed
  <2> QED
    BY <1>3, <1>4, <2>1, JobKept, StutterSimulates
<1>5. CASE Return
  BY <1>2, <1>3, <1>5, ReturnSimulates
<1> QED
  BY <1>4, <1>5 DEF Move, GotoPersist

\* The syncs, successful or not.
LEMMA SyncSimulates ==
  ASSUME IndInv, Sync, UNCHANGED blind
  PROVE  Store!Next \/ UNCHANGED Store!vars
<1>1. /\ VersionsTyped /\ LocalsTyped /\ ShapeOK
  BY TypeParts DEF IndInv, HandlerInv
<1>2. /\ server = "up" /\ pc \in {"sync", "sync_undo", "sync_meta"}
      /\ UNCHANGED <<snapshot, uploads, server>> /\ req # None
  BY <1>1 DEF Sync, SyncFile, SyncMeta, SyncUndo, At, disk, LocalsTyped
<1>3. req.type \in Types
  BY <1>1, <1>2, ReqTyped
<1>4. PICK d \in Dirs : /\ SyncDirectory(d)
                        /\ pc = "sync_meta" <=> d = "meta"
  BY <1>2, <1>3 DEF Sync, SyncFile, SyncMeta, SyncUndo, At, Dirs, Types
<1>5. Job' = Job \/ (pc = "sync_undo" /\ Return)
  <2>1. CASE SyncFile \/ SyncMeta
    <3>1. UNCHANGED req /\ Committed' = Committed
      BY <2>1 DEF SyncFile, SyncMeta, At, Goto, Committed
    <3> QED
      BY <3>1, JobKept
  <2>2. CASE SyncUndo
    BY <2>2 DEF SyncUndo, At
  <2> QED
    BY <2>1, <2>2 DEF Sync
<1>6. CASE /\ versions' = [versions EXCEPT ![d] = {Content(d)}]
           /\ UNCHANGED trust
  <2>1. CASE d = "meta"
    <3>1. Lasting' = {snapshot}
      BY <1>1, <1>6, <2>1, ContentOf DEF VersionsTyped, Lasting, Dirs
    <3>2. Job' = Job
      BY <1>4, <1>5, <2>1
    <3>3. Store!Sync
      BY <1>2, <1>6, <3>1, <3>2 DEF Store!Sync, Lasting
    <3> QED
      BY <3>3 DEF Store!Next
  <2>2. CASE d # "meta"
    <3>1. MapKept
      BY <1>1, <1>2, <1>6, <2>2 DEF VersionsTyped, Lasting, MapKept, Dirs
    <3> QED
      BY <1>2, <1>5, <1>6, <3>1, StutterSimulates, ReturnSimulates
  <2> QED
    BY <2>1, <2>2
<1>7. CASE /\ UNCHANGED versions
           /\ trust' # "synced"
  <2>1. MapKept
    BY <1>2, <1>7 DEF Lasting, MapKept
  <2>2. CASE Job' = Job
    BY <1>7, <2>1, <2>2 DEF Store!Next, Store!SyncFails, MapKept, Lasting
  <2>3. CASE pc = "sync_undo" /\ Return
    <3>1. ~Committed
      BY <2>3 DEF Committed
    <3> QED
      BY <1>2, <1>7, <2>1, <2>3, <3>1, ReturnSimulates
  <2> QED
    BY <1>5, <2>2, <2>3
<1> QED
  BY <1>4, <1>6, <1>7 DEF SyncDirectory

\* A crash, and a loss of power.
LEMMA DeathSimulates ==
  ASSUME IndInv, (Crash /\ UNCHANGED versions) \/ PowerLoss
  PROVE  Store!Next \/ UNCHANGED Store!vars
<1>1. VersionsTyped /\ HistoryTyped
  BY TypeParts DEF IndInv, HandlerInv
<1>2. /\ server' = "down" /\ blind' = FALSE /\ req' = None /\ UNCHANGED uploads
  BY DEF Crash, PowerLoss, Die
<1>3. Job' = None
  BY <1>2 DEF Job
<1>4. CASE Crash /\ UNCHANGED versions
  <2>1. Store!Stop
    BY <1>2, <1>3, <1>4 DEF Crash, disk, Store!Stop
  <2> QED
    BY <2>1 DEF Store!Next
<1>5. CASE PowerLoss
  <2>1. PICK meta \in versions["meta"] : snapshot' = meta.files
    BY <1>5 DEF PowerLoss
  <2>2. Lasting' = {snapshot'}
    <3>1. versions'["meta"] = {Content("meta")'}
      BY <1>5 DEF PowerLoss, Dirs
    <3>2. Content("meta")'.files = snapshot'
      BY DEF Content
    <3> QED
      BY <3>1, <3>2 DEF Lasting
  <2>3. (trust = "synced")' = (trust = "synced")
    BY <1>5 DEF PowerLoss
  <2>4. Store!PowerLoss
    BY <1>2, <1>3, <2>1, <2>2, <2>3 DEF Store!PowerLoss, Lasting
  <2> QED
    BY <2>4 DEF Store!Next
<1> QED
  BY <1>4, <1>5

\* Whatever system calls fail and whenever the process dies or power is lost,
\* Upload, Delete, Insert, Delete of the DataManager and Persist change the
\* listed files as the atomic, durable map of FileStore does.
THEOREM Refinement == Spec => ImplementsStore
<1>1. Init => Store!Init
  <2> SUFFICES ASSUME Init PROVE Store!Init
    OBVIOUS
  <2>1. versions["meta"] = {Content("meta")} /\ snapshot = Store!Empty
    BY DEF Init, Dirs, EmptyTable, Store!Empty
  <2>2. Lasting = {snapshot}
    BY <2>1, ContentOf DEF Lasting
  <2>3. Job = None
    BY DEF Init, Job
  <2> QED
    BY <2>1, <2>2, <2>3 DEF Init, Store!Init, Lasting
<1>2. IndInv /\ [Next]_vars => [Store!Next]_(Store!vars)
  <2> SUFFICES ASSUME IndInv, [Next]_vars PROVE Store!Next \/ UNCHANGED Store!vars
    OBVIOUS
  <2>1. CASE UNCHANGED vars
    BY <2>1 DEF vars, Store!vars, Job, Committed
  <2> QED
    BY <2>1, BeginSimulates, ServerSimulates, StepSimulates, RenameSimulates,
       MoveSimulates, SyncSimulates, DeathSimulates DEF Next
<1> QED
  BY <1>1, <1>2, Invariance, PTL DEF Spec, ImplementsStore, Store!Spec
=============================================================================
