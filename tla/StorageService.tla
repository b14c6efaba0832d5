--------------------------- MODULE StorageService ---------------------------
(***************************************************************************)
(* The storage server: Service::Upload, Delete and Download with the       *)
(* DataManager and the FileUtil operations they call, over the file        *)
(* system, with system calls that fail, a process that dies at any point,  *)
(* a machine that loses power, and a server that is started again.         *)
(*                                                                         *)
(* libevent runs one handler at a time, so there is one pc; a step is one  *)
(* system call, because that is where a call can fail and what a crash can *)
(* come between.  The kernel keeps what a system call has done when the    *)
(* process dies.  A loss of power leaves each directory as it was at its   *)
(* last sync or at any moment since, whatever the other ones keep; what    *)
(* SetContent wrote is synced before a name for it is committed.  Requests *)
(* that the handlers answer without changing anything (a bad header, an    *)
(* unknown name, a list, a low-storage download) are not steps.            *)
(*                                                                         *)
(* An operator named ...Mutant is a faulty variant of the one below it; it *)
(* is no part of the specification and only shows that a property can fail.*)
(***************************************************************************)
EXTENDS Naturals, Sequences

CONSTANTS
  Names,          \* file names; a url is the download prefix and a name
  None,           \* no entry, no file, no path
  DirForms,       \* how the configuration writes each storage directory
  MaxUploads,     \* bound: uploads begun
  MaxFaults,      \* bound: system calls that fail
  MaxCrashes      \* bound: crashes of the process and losses of power

Types == {"low", "deep"}

\* A directory is written plainly, with a trailing slash, or as the working
\* directory itself; Config only asks for two different ones.
ASSUME ConstantsAssumption ==
  /\ DirForms \in [Types -> {"plain", "slash", "dot"}]
  /\ \E t \in Types : DirForms[t] # "dot"
  /\ MaxUploads \in Nat /\ MaxFaults \in Nat /\ MaxCrashes \in Nat

VARIABLES
  files,     \* the storage directories: the upload whose bytes a path holds
  temps,     \* temporary files anywhere (equal ones counted once)
  snapshot,  \* the metadata file
  versions,  \* for each directory, the contents since its last sync
  table,     \* table_ of the DataManager
  blind,     \* history: the running server could not stat the metadata, took
             \* it for missing, and has not written it since
  server,    \* the process
  pc,        \* where the running handler is
  req,       \* its request
  held,      \* the file its TempFileGuard removes
  next,      \* the local of Insert and Delete
  uploads,   \* uploads begun; also the identity of the bytes uploaded
  faults,    \* system calls that failed
  crashes,   \* crashes and losses of power
  littered,  \* history: a removal or a restoring rename failed, or entries
             \* were replaced unread
  moved,     \* history: the files a Delete moved since the directory's sync
  trust,     \* history: whether a directory sync failed, and whether power
             \* was lost after that
  owed       \* history: the entry of every upload answered with 201 and
             \* not given up since

disk == <<files, temps, snapshot>>
bounds == <<uploads, faults, crashes>>
vars == <<files, temps, snapshot, table, server, pc, req, held, next, uploads,
          faults, crashes, littered, owed, versions, moved, trust, blind>>

Ids == 1 .. MaxUploads
Entries == [type : Types, id : Ids]
Tables == [Names -> Entries \cup {None}]
EmptyTable == [n \in Names |-> None]

\* The two storage directories and the one of the metadata file.  A download
\* is unpacked in yet another one.
Dirs == Types \cup {"meta"}

TempKinds == {"upload", "delete", "download", "storage"}
Temps == [kind : TempKinds, dir : Dirs \cup {"temp"}, id : {0} \cup Ids]
Temp(k, d, i) == [kind |-> k, dir |-> d, id |-> i]
Storage == Temp("storage", "meta", 0)

\* What the syncs of a directory are about.  Temporary files other than the
\* trash of a Delete are left out: they hold nothing the metadata may list.
Content(d) ==
  [files |-> IF d = "meta" THEN snapshot ELSE files[d],
   trash |-> {x \in temps : x.kind = "delete" /\ x.dir = d}]

Requests == [kind : {"upload", "delete", "download"}, name : Names,
             type : Types, id : Ids]
Request(k, n, t, i) == [kind |-> k, name |-> n, type |-> t, id |-> i]

ASSUME NoneAssumption ==
  None \notin Names \cup Ids \cup Entries \cup Temps \cup Requests

Init ==
  /\ files = [t \in Types |-> EmptyTable]
  /\ temps = {}
  /\ snapshot = EmptyTable
  /\ table = EmptyTable
  /\ blind = FALSE
  /\ server = "down"
  /\ pc = "idle"
  /\ req = None
  /\ held = None
  /\ next = EmptyTable
  /\ uploads = 0 /\ faults = 0 /\ crashes = 0
  /\ littered = FALSE
  /\ owed = EmptyTable
  /\ versions = [d \in Dirs |-> {Content(d)}]
  /\ moved = {}
  /\ trust = "synced"

-----------------------------------------------------------------------------
(* Starting and stopping *)

Fault == faults < MaxFaults /\ faults' = faults + 1
NoFault == UNCHANGED faults

\* std::filesystem: a normalised path is the sequence of its elements.  One
\* with a trailing slash ends in an empty element, and a leading dot is gone
\* once a name follows it.
DirPath(type) ==
  CASE DirForms[type] = "plain" -> <<type>>
    [] DirForms[type] = "slash" -> <<type, "">>
    [] DirForms[type] = "dot"   -> <<".">>
Parent(path) == SubSeq(path, 1, Len(path) - 1)
JoinPath(dir, name) ==
  IF dir[Len(dir)] \in {"", "."} THEN Append(Parent(dir), name)
  ELSE Append(dir, name)

\* ParseStorageInfo on what Persist wrote: the fields have their types and the
\* url ends in the name of the path, so only the comparison of the path's parent
\* with the configured directory can fail.
ParseStorageInfo(n, e) == Parent(JoinPath(DirPath(e.type), n)) = DirPath(e.type)

Loadable ==
  \A n \in Names : snapshot[n] # None => ParseStorageInfo(n, snapshot[n])

\* main: the DataManager loads the snapshot or its constructor throws, as it
\* also does when the file cannot be read.  A stat that fails is taken for a
\* file that is not there.
Start ==
  /\ server # "up"
  /\ \/ /\ NoFault
        /\ server' = IF Loadable THEN "up" ELSE "failed"
        /\ table' = IF Loadable THEN snapshot ELSE EmptyTable
        /\ blind' = FALSE
     \/ /\ Fault /\ server' = "failed"
        /\ table' = EmptyTable /\ blind' = FALSE
     \/ /\ Fault /\ server' = "up"
        /\ table' = EmptyTable /\ blind' = (snapshot # EmptyTable)
  /\ UNCHANGED <<disk, pc, req, held, next, uploads, crashes, littered, owed>>

\* SIGINT or SIGTERM breaks the loop between two handlers.
Shutdown ==
  /\ server = "up" /\ pc = "idle"
  /\ server' = "down"
  /\ table' = EmptyTable /\ blind' = FALSE
  /\ UNCHANGED <<disk, pc, req, held, next, bounds, littered, owed>>

\* A Delete that has moved the file away and is neither done nor undone.
Interrupted(n) ==
  req # None /\ req.kind = "delete" /\ req.name = n /\ held # None

\* No guard runs.
Die ==
  /\ server' = "down" /\ table' = EmptyTable /\ blind' = FALSE
  /\ pc' = "idle" /\ req' = None /\ held' = None /\ next' = EmptyTable
  /\ crashes < MaxCrashes /\ crashes' = crashes + 1
  /\ UNCHANGED <<uploads, faults, littered>>

Crash ==
  /\ server = "up" /\ Die
  /\ owed' = [n \in Names |-> IF Interrupted(n) THEN None ELSE owed[n]]
  /\ UNCHANGED <<disk, moved, trust>>

\* Each directory comes back as it was at some moment since its last sync.  A
\* file that a Delete moved, or moved and put back, may come back in the trash:
\* neither rename is synced.
PowerLoss ==
  /\ Die
  /\ \E low \in versions["low"], deep \in versions["deep"],
        meta \in versions["meta"] :
       /\ files' = [t \in Types |-> IF t = "low" THEN low.files ELSE deep.files]
       /\ snapshot' = meta.files
       /\ temps' = low.trash \cup deep.trash
                     \cup {x \in temps : x.kind # "delete"}
  /\ versions' = [d \in Dirs |-> {Content(d)'}]
  /\ moved' = {}
  /\ owed' = [n \in Names |->
                IF owed[n] # None /\ <<owed[n].type, n>> \in moved THEN None
                ELSE owed[n]]
  /\ trust' = IF trust = "synced" THEN "synced" ELSE "lost"

-----------------------------------------------------------------------------
(* Helpers for the steps of a handler *)

At(label) == server = "up" /\ pc = label

\* The handler answers and returns.
Return == pc' = "idle" /\ req' = None /\ held' = None /\ next' = EmptyTable

Goto(label) == pc' = label /\ UNCHANGED <<req, held, next>>

\* Insert and Delete copy the table and hand the copy to Persist.
GotoPersist(t) == pc' = "persist" /\ next' = t

Final == files[req.type][req.name]
SetFinal(i) == files' = [files EXCEPT ![req.type][req.name] = i]

\* The calls whose failure leaves something behind.
Litter == Fault /\ littered' = TRUE

\* The temporary file of the running handler.
Mine(i) ==
  Temp(req.kind, IF req.kind = "download" THEN "temp" ELSE req.type, i)

\* The sync is forgotten.
SyncMutant(d) ==
  /\ NoFault
  /\ versions' = [versions EXCEPT ![d] = @ \cup {Content(d)}]
  /\ UNCHANGED <<moved, trust>>

\* The result is not looked at.
SyncDirectory(d) ==
  \/ /\ NoFault
     /\ versions' = [versions EXCEPT ![d] = {Content(d)}]
     /\ moved' = {m \in moved : m[1] # d}
     /\ UNCHANGED trust
  \/ /\ Fault
     /\ trust' = IF trust = "lost" THEN "lost" ELSE "failed"
     /\ UNCHANGED <<versions, moved>>

-----------------------------------------------------------------------------
(* Entering a handler *)

UploadStart(n, t) ==
  /\ At("idle") /\ table[n] = None
  /\ uploads < MaxUploads
  /\ uploads' = uploads + 1
  /\ req' = Request("upload", n, t, uploads + 1)
  /\ pc' = "temp"
  /\ UNCHANGED <<disk, table, server, held, next, faults, crashes, littered,
                 owed>>

\* A file that is already gone goes straight to the metadata.
DeleteStart(n) ==
  /\ At("idle") /\ table[n] # None
  /\ req' = Request("delete", n, table[n].type, table[n].id)
  /\ IF files[table[n].type][n] # None
     THEN pc' = "temp" /\ UNCHANGED next
     ELSE GotoPersist([table EXCEPT ![n] = None])
  /\ UNCHANGED <<disk, table, server, held, bounds, littered, owed>>

\* Only deep storage is unpacked into a temporary file.
DownloadStart(n) ==
  /\ At("idle") /\ table[n] # None /\ table[n].type = "deep"
  /\ req' = Request("download", n, "deep", table[n].id)
  /\ pc' = "temp"
  /\ UNCHANGED <<disk, table, server, held, next, bounds, littered, owed>>

-----------------------------------------------------------------------------
(* Temporary files of the handlers *)

\* The path of a Delete is not guarded before it holds the file.  An upload makes
\* the directory first if it is missing, and answers alike if that fails.
CreateTempFile ==
  /\ At("temp")
  /\ \/ /\ NoFault
        /\ temps' = temps \cup {Mine(0)}
        /\ held' = IF req.kind = "delete" THEN None ELSE Mine(0)
        /\ pc' = IF req.kind = "delete" THEN "clear" ELSE "write"
        /\ UNCHANGED <<req, next>>
     \/ Fault /\ Return /\ UNCHANGED temps
  /\ UNCHANGED <<files, snapshot, table, server, uploads, crashes, littered,
                 owed>>

\* SetContent or Compress into the upload's file, UnCompress into the
\* download's; after a download's reply is queued its file is removed.
WriteTemp ==
  /\ At("write")
  /\ \/ /\ NoFault
        /\ req.kind = "upload"
        /\ held' = Mine(req.id)
        /\ temps' = (temps \ {held}) \cup {held'}
        /\ pc' = "link" /\ UNCHANGED <<req, next>>
     \/ NoFault /\ req.kind = "download" /\ Goto("guard") /\ UNCHANGED temps
     \/ Fault /\ Goto("guard") /\ UNCHANGED temps
  /\ UNCHANGED <<files, snapshot, table, server, uploads, crashes, littered,
                 owed>>

\* ~TempFileGuard, or a download's own removal, as the handler returns.
GuardRemove ==
  /\ At("guard")
  /\ \/ NoFault /\ temps' = temps \ {held} /\ UNCHANGED littered
     \/ Litter /\ UNCHANGED temps
  /\ Return
  /\ UNCHANGED <<files, snapshot, table, server, uploads, crashes, owed>>

-----------------------------------------------------------------------------
(* Upload *)

LinkMutant ==
  /\ At("link")
  /\ NoFault /\ SetFinal(req.id) /\ Goto("unlink")
  /\ UNCHANGED <<temps, snapshot, table, server, uploads, crashes, littered,
                 owed>>

\* The path is cleaned up although it is not the upload's.
LinkUndoMutant ==
  /\ At("link")
  /\ \/ NoFault /\ Final = None /\ SetFinal(req.id) /\ Goto("unlink")
     \/ NoFault /\ Final # None /\ Goto("unlink_final") /\ UNCHANGED files
  /\ UNCHANGED <<temps, snapshot, table, server, uploads, crashes, littered,
                 owed>>

\* CommitNoReplace: link(2) refuses an existing path.
Link ==
  /\ At("link")
  /\ \/ NoFault /\ Final = None /\ SetFinal(req.id) /\ Goto("unlink")
     \/ NoFault /\ Final # None /\ Goto("guard") /\ UNCHANGED files
     \/ Fault /\ Goto("guard") /\ UNCHANGED files
  /\ UNCHANGED <<temps, snapshot, table, server, uploads, crashes, littered,
                 owed>>

Unlink ==
  /\ At("unlink")
  /\ \/ /\ NoFault
        /\ temps' = temps \ {held} /\ held' = None
        /\ pc' = "sync" /\ UNCHANGED <<req, next>>
     \/ Fault /\ Goto("unlink_final") /\ UNCHANGED temps
  /\ UNCHANGED <<files, snapshot, table, server, uploads, crashes, littered,
                 owed>>

SyncFile ==
  /\ At("sync")
  /\ SyncDirectory(req.type)
  /\ Goto("stat")
  /\ UNCHANGED <<disk, table, server, uploads, crashes, littered, owed>>

\* Taking the hard link back.
UnlinkFinal ==
  /\ At("unlink_final")
  /\ \/ NoFault /\ SetFinal(None) /\ UNCHANGED littered
     \/ Litter /\ UNCHANGED files
  /\ Goto("guard")
  /\ UNCHANGED <<temps, snapshot, table, server, uploads, crashes, owed>>

\* NewStorageInfo stats the final path.
Stat ==
  /\ At("stat")
  /\ \/ /\ NoFault
        /\ GotoPersist([table EXCEPT ![req.name] =
                          [type |-> req.type, id |-> Final]])
        /\ UNCHANGED <<req, held>>
     \/ Fault /\ Goto("undo_stat")
  /\ UNCHANGED <<disk, table, server, uploads, crashes, littered, owed>>

UndoMutant ==
  /\ At("undo_stat") \/ At("undo")
  /\ Return
  /\ UNCHANGED <<disk, table, server, bounds, littered, owed>>

\* The file of an upload that gets no entry is removed; the directory is
\* synced if it was Insert that failed.
Undo ==
  /\ At("undo_stat") \/ At("undo")
  /\ \/ NoFault /\ SetFinal(None) /\ UNCHANGED littered
     \/ Litter /\ UNCHANGED files
  /\ IF pc = "undo" THEN Goto("sync_undo") ELSE Return
  /\ UNCHANGED <<temps, snapshot, table, server, uploads, crashes, owed>>

SyncUndo ==
  /\ At("sync_undo")
  /\ SyncDirectory(req.type)
  /\ Return
  /\ UNCHANGED <<disk, table, server, uploads, crashes, littered, owed>>

-----------------------------------------------------------------------------
(* Persist, and the swap of table_ after it *)

FailedPersist == IF req.kind = "upload" THEN "undo" ELSE "restore"

PersistTemp ==
  /\ At("persist")
  /\ \/ /\ NoFault /\ Goto("persist_write")
        /\ temps' = temps \cup {Storage}
     \/ Fault /\ Goto(FailedPersist) /\ UNCHANGED temps
  /\ UNCHANGED <<files, snapshot, table, server, uploads, crashes, littered,
                 owed>>

PersistWrite ==
  /\ At("persist_write")
  /\ \/ NoFault /\ Goto("persist_rename")
     \/ Fault /\ Goto("persist_undo")
  /\ UNCHANGED <<disk, table, server, uploads, crashes, littered, owed>>

RenameMutant ==
  /\ At("persist_rename")
  /\ \/ NoFault /\ Goto("sync_meta")
     \/ Fault /\ Goto(FailedPersist)
  /\ snapshot' = next
  /\ temps' = temps \ {Storage}
  /\ blind' = FALSE
  /\ UNCHANGED <<files, table, server, uploads, crashes, littered, owed>>

\* A Delete has taken effect once the snapshot is replaced.  Replacing one that
\* was never read gives up every entry it held.
PersistRename ==
  /\ At("persist_rename")
  /\ \/ /\ NoFault /\ Goto("sync_meta")
        /\ snapshot' = next
        /\ temps' = temps \ {Storage}
        /\ owed' = [n \in Names |->
                      IF blind \/ (req.kind = "delete" /\ req.name = n) THEN None
                      ELSE owed[n]]
        /\ littered' = (littered \/ blind)
        /\ blind' = FALSE
     \/ /\ Fault /\ Goto("persist_undo")
        /\ UNCHANGED <<snapshot, temps, owed, littered, blind>>
  /\ UNCHANGED <<files, table, server, uploads, crashes>>

\* Only the file is synced, not the directory of its new name.
SyncMetaMutant ==
  /\ At("sync_meta")
  /\ NoFault /\ UNCHANGED <<versions, moved, trust>>
  /\ Goto("swap")
  /\ UNCHANGED <<disk, table, server, uploads, crashes, littered, owed>>

SyncMeta ==
  /\ At("sync_meta")
  /\ SyncDirectory("meta")
  /\ Goto("swap")
  /\ UNCHANGED <<disk, table, server, uploads, crashes, littered, owed>>

PersistUndo ==
  /\ At("persist_undo")
  /\ \/ /\ NoFault /\ temps' = temps \ {Storage}
        /\ UNCHANGED littered
     \/ Litter /\ UNCHANGED temps
  /\ Goto(FailedPersist)
  /\ UNCHANGED <<files, snapshot, table, server, uploads, crashes, owed>>

\* An Upload answers 201 here.
Swap ==
  /\ At("swap")
  /\ table' = next
  /\ \/ /\ req.kind = "upload"
        /\ owed' = [owed EXCEPT ![req.name] = next[req.name]]
        /\ Return
     \/ req.kind = "delete" /\ Goto("purge") /\ UNCHANGED owed
  /\ UNCHANGED <<disk, server, bounds, littered>>

-----------------------------------------------------------------------------
(* Delete *)

\* The name CreateTempFile reserved is freed; the result is not looked at.
Clear ==
  /\ At("clear")
  /\ \/ NoFault /\ temps' = temps \ {Mine(0)}
     \/ Fault /\ UNCHANGED temps
  /\ Goto("move")
  /\ UNCHANGED <<files, snapshot, table, server, uploads, crashes, littered,
                 owed>>

\* The file moved is the one at the path, whatever upload it is from.
Move ==
  /\ At("move")
  /\ \/ /\ NoFault /\ SetFinal(None)
        /\ held' = Mine(Final)
        /\ temps' = (temps \ {Mine(0)}) \cup {held'}
        /\ GotoPersist([table EXCEPT ![req.name] = None])
        /\ moved' = moved \cup {<<req.type, req.name>>}
        /\ UNCHANGED <<req, littered>>
     \/ /\ Fault /\ Return
        /\ littered' = (littered \/ Mine(0) \in temps)
        /\ UNCHANGED <<files, temps, moved>>
  /\ UNCHANGED <<snapshot, table, server, uploads, crashes, owed>>

RestoreMutant ==
  /\ At("restore")
  /\ NoFault /\ temps' = temps \ {held} /\ Return
  /\ UNCHANGED <<files, snapshot, table, server, uploads, crashes, littered,
                 owed>>

\* The metadata could not be written: the file is moved back, or, if that
\* fails too, left in the trash file for manual recovery.
Restore ==
  /\ At("restore")
  /\ \/ NoFault /\ held = None /\ UNCHANGED <<files, temps, littered, owed>>
     \/ /\ NoFault /\ held # None
        /\ SetFinal(held.id) /\ temps' = temps \ {held}
        /\ UNCHANGED <<littered, owed>>
     \/ /\ Litter /\ held # None
        /\ owed' = [owed EXCEPT ![req.name] = None]
        /\ UNCHANGED <<files, temps>>
  /\ Return
  /\ UNCHANGED <<snapshot, table, server, uploads, crashes>>

\* If the removal fails the guard tries once more.
Purge ==
  /\ At("purge")
  /\ \/ NoFault /\ held = None /\ Return /\ UNCHANGED temps
     \/ NoFault /\ held # None /\ temps' = temps \ {held} /\ Return
     \/ Fault /\ held # None /\ Goto("guard") /\ UNCHANGED temps
  /\ UNCHANGED <<files, snapshot, table, server, uploads, crashes, littered,
                 owed>>

-----------------------------------------------------------------------------
Begin ==
  \/ \E n \in Names, t \in Types : UploadStart(n, t)
  \/ \E n \in Names : DeleteStart(n) \/ DownloadStart(n)

Step ==
  \/ CreateTempFile \/ WriteTemp \/ GuardRemove
  \/ Link \/ Unlink \/ UnlinkFinal \/ Stat \/ Undo
  \/ PersistTemp \/ PersistWrite \/ PersistUndo \/ Swap
  \/ Clear \/ Restore \/ Purge

Sync == SyncFile \/ SyncMeta \/ SyncUndo

\* What the directories now hold is not synced yet.
Remember == versions' = [d \in Dirs |-> versions[d] \cup {Content(d)'}]

Next ==
  \/ (Begin \/ Step) /\ Remember /\ UNCHANGED <<moved, trust, blind>>
  \/ (Start \/ Shutdown \/ PersistRename) /\ Remember /\ UNCHANGED <<moved, trust>>
  \/ Move /\ Remember /\ UNCHANGED <<trust, blind>>
  \/ Sync /\ UNCHANGED blind
  \/ Crash /\ UNCHANGED versions
  \/ PowerLoss

Spec == Init /\ [][Next]_vars
-----------------------------------------------------------------------------
(* Properties *)

Labels == {"idle", "temp", "write", "guard", "link", "unlink", "unlink_final",
           "sync", "stat", "undo_stat", "undo", "sync_undo", "persist", "persist_write", "persist_rename",
           "sync_meta", "persist_undo", "swap", "clear", "move", "restore", "purge"}

\* Every variable has its type, and a handler's locals exist exactly while it
\* runs.
TypeOK ==
  /\ files \in [Types -> [Names -> Ids \cup {None}]]
  /\ temps \subseteq Temps
  /\ snapshot \in Tables /\ table \in Tables /\ next \in Tables
  /\ server \in {"up", "down", "failed"}
  /\ pc \in Labels /\ req \in Requests \cup {None}
  /\ (pc = "idle") <=> (req = None)
  /\ held \in Temps \cup {None}
  /\ uploads \in 0 .. MaxUploads /\ faults \in 0 .. MaxFaults
  /\ crashes \in 0 .. MaxCrashes
  /\ littered \in BOOLEAN /\ blind \in BOOLEAN
  /\ owed \in Tables
  /\ DOMAIN versions = Dirs /\ \A d \in Dirs : Content(d) \in versions[d]
  /\ moved \subseteq Types \X Names
  /\ trust \in {"synced", "failed", "lost"}

\* The file of n is in the trash file of a running Delete.
InTrash(n) ==
  /\ req # None /\ req.kind = "delete" /\ req.name = n
  /\ held # None /\ held \in temps

\* An upload answered with 201 is in the metadata file and its bytes are at
\* its path, after any crash, loss of power, restart, failed call or failed
\* Delete, until a Delete takes effect, is interrupted or cannot be undone, or
\* until a server whose stat of the metadata failed writes it anew.  A loss of
\* power may also bring back the trash of a Delete that was undone, and nothing
\* is promised about one that follows a failed sync of a directory.
DurableUploads ==
  trust # "lost" => \A n \in Names : owed[n] # None =>
    /\ snapshot[n] = owed[n]
    /\ files[owed[n].type][n] = owed[n].id \/ InTrash(n)

\* Even then the bytes of a file that the metadata lists exist somewhere: a
\* Delete never destroys them before the snapshot without the file is both in
\* place and synced.
BytesOfEntriesExist ==
  trust # "lost" => \A n \in Names : snapshot[n] # None =>
    LET e == snapshot[n]
    IN  files[e.type][n] = e.id \/ Temp("delete", e.type, e.id) \in temps

\* Memory never lags behind the committed snapshot, whatever fails, but for
\* the moment between Persist's rename and the swap of table_.  A server whose
\* stat of the metadata failed has an empty table until it first writes it.
MemoryMatchesDisk ==
  server = "up" /\ pc \notin {"sync_meta", "swap"} =>
    table = IF blind THEN EmptyTable ELSE snapshot

\* Without a crash, with every removal successful and no metadata replaced
\* unread, failed requests leave nothing behind: between handlers there is no
\* temporary file, and the files are exactly those the metadata lists.
NoResidue ==
  pc = "idle" /\ crashes = 0 /\ ~littered =>
    /\ temps = {}
    /\ \A t \in Types, n \in Names :
         files[t][n] =
           IF snapshot[n] # None /\ snapshot[n].type = t THEN snapshot[n].id
           ELSE None

\* No step puts other bytes in the place of a stored file: an upload of an
\* existing name, an upload onto a file a crash left behind, and the restoring
\* rename of a Delete all keep what is there.  (A loss of power may bring an
\* earlier file back.)
NoOverwrite ==
  [][crashes' = crashes =>
     \A t \in Types, n \in Names :
       files[t][n] # None => files'[t][n] \in {files[t][n], None}]_vars

\* A stored file leaves its place only by a Delete of its name or by the undoing
\* of the very upload that put it there: a failed upload onto a file that a crash
\* left behind, or that a server with an empty table does not know, removes
\* nothing.
OnlyOwnRemoved ==
  [][crashes' = crashes =>
     \A t \in Types, n \in Names :
       files[t][n] # None /\ files'[t][n] = None =>
         /\ req # None /\ req.type = t /\ req.name = n
         /\ req.kind = "delete" \/ (req.kind = "upload" /\ req.id = files[t][n])]_vars

\* As long as no call fails, the server starts again from whatever metadata it
\* has written.
Restartable == faults = 0 => server # "failed"

\* An Upload or a Delete has taken effect once the snapshot is replaced; a
\* download is none of the store's business.
Committed ==
  pc \in {"sync_meta", "swap", "purge"} \/ (req.kind = "delete" /\ pc = "guard")

Job ==
  IF req = None \/ req.kind = "download" THEN None
  ELSE [kind |-> req.kind, name |-> req.name, type |-> req.type,
        done |-> Committed]

ASSUME JobAssumption ==
  None \notin [kind : {"upload", "delete"}, name : Names, type : Types, done : BOOLEAN]

Store == INSTANCE FileStore WITH
  store <- snapshot,
  durable <- {m.files : m \in versions["meta"]},
  reliable <- trust = "synced",
  issued <- uploads,
  up <- server = "up",
  blind <- blind,
  job <- Job

\* All the system calls of a request, the ones that fail and the ones that undo
\* what came before them, amount to one change of the listed files or to none:
\* memory, temporary files and residues of earlier requests never show, no
\* failed request has changed anything, and Upload and Delete report success
\* only once a loss of power cannot take it back.  The one way to lose what
\* other requests stored is a first commit after the metadata was not found.
ImplementsStore == Store!Spec
=============================================================================
