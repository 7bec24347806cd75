----------------------------- MODULE RecordStore -----------------------------
(***************************************************************************)
(* RecordStoreRegistry: record stores in memory and their files.           *)
(*                                                                         *)
(* A store is a sequence of generations, one for each change; its bytes    *)
(* are of no interest here.  A generation is written to a temporary file,  *)
(* the previous one is linked to a backup, and the temporary is renamed    *)
(* over the canonical file.  With write-through a change returns when that *)
(* is done; the machine turns it off, and changes wait for a flush.        *)
(*                                                                         *)
(* Every call holds mutex_, so one call is in progress at a time, "op".    *)
(* Each step of it ends with one operation on the directory; a crash, or   *)
(* a failure of the operation, may come at any step.                       *)
(***************************************************************************)
EXTENDS CrashDirectory, Integers

CONSTANTS
  Stores,         \* the names of stores
  NoStore,        \* no name
  MaxGeneration,  \* a bound on the changes to one store
  MaxOpens,       \* a bound on open_count
  MaxFaults,      \* a bound on the operations that fail
  MaxCrashes      \* a bound on the crashes

ASSUME StoresAssumption == NoStore \notin Stores
ASSUME FilesAssumption == Absent \notin Nat /\ Torn \notin Nat /\ Absent # Torn
ASSUME BoundsAssumption ==
  {MaxGeneration, MaxOpens, MaxFaults, MaxCrashes} \subseteq Nat

VARIABLES
  dir,          \* the files of each store
  loaded,       \* stores_: the generation in memory, or Absent
  opens,        \* open_count
  pending,      \* pending_persist
  anyPending,   \* any_pending_persist_
  writeThrough, \* write_through_
  fresh,        \* the last generation made of each store
  op,           \* the call in progress
  promised,     \* history: what a restart may find, by what calls reported
  faults, crashes

memory == <<loaded, opens, pending, anyPending>>
history == <<writeThrough, fresh, faults, crashes>>
vars == <<dir, memory, op, promised, history>>

Roles == {"rms", "tmp", "bak"}
NoFiles == [r \in Roles |-> Absent]

Idle == [call |-> "none", at |-> "idle", store |-> NoStore, gen |-> Absent,
         old |-> Absent, backup |-> FALSE, ok |-> TRUE, rest |-> {}, into |-> NoStore,
         moved |-> NoFiles, before |-> {}]
Call(name, s, place) ==
  [Idle EXCEPT !.call = name, !.at = place, !.store = s]
At(place) == op.at = place
Goto(place) == op' = [op EXCEPT !.at = place]
S == op.store

Init ==
  /\ dir = [s \in Stores |-> Settled(NoFiles)]
  /\ loaded = [s \in Stores |-> Absent]
  /\ opens = [s \in Stores |-> 0]
  /\ pending = [s \in Stores |-> FALSE]
  /\ anyPending = FALSE
  /\ writeThrough \in BOOLEAN
  /\ fresh = [s \in Stores |-> 0]
  /\ op = Idle
  /\ promised = [s \in Stores |-> {Absent}]
  /\ faults = 0 /\ crashes = 0

\* An operation on the files fails: a full disk, an I/O error.
Fault ==
  /\ faults < MaxFaults
  /\ faults' = faults + 1
  /\ UNCHANGED <<writeThrough, fresh, crashes>>

SetFiles(s, d) == dir' = [dir EXCEPT ![s] = d]
D == dir[S]
\* sync_directory_unlocked: all stores are in one directory.
SyncAll == dir' = [s \in Stores |-> Synced(dir[s])]
Fails == op' = Idle /\ UNCHANGED memory

-----------------------------------------------------------------------------
(***************************************************************************)
(* recover_file_unlocked: which file holds the store.                      *)
(***************************************************************************)
Selected(f) ==
  IF Whole(f["rms"]) THEN "rms" ELSE IF Whole(f["bak"]) THEN "bak"
  ELSE IF Whole(f["tmp"]) THEN "tmp" ELSE "none"
\* What a restart finds: a generation, no store, or files that none can read.
Recovered(f) ==
  IF Selected(f) # "none" THEN f[Selected(f)]
  ELSE IF f = NoFiles THEN Absent ELSE Torn

\* No canonical file may be on the disk: the store is new, or the directory could
\* not be synchronized when a recovery renamed its file, and the next load found
\* nothing left to do.  What is done to the other files then may be all that a
\* restart finds.
Unanchored == \E f \in D.disk : f["rms"] = Absent
\* Clean-ups that failed may have left older files on the disk.
LeftBehind(d) == {f[r] : f \in d.disk, r \in {"tmp", "bak"}}
Exposed == IF Unanchored THEN {Torn, Absent} \cup LeftBehind(D) ELSE {}

\* load_unlocked: first the canonical file is looked for.
FindNothing ==
  /\ At("recover") /\ Selected(D.now) = "none"
  /\ IF op.call = "create" /\ D.now = NoFiles
     THEN /\ fresh' = [fresh EXCEPT ![S] = @ + 1]
          /\ op' = [op EXCEPT !.at = "write", !.gen = fresh[S] + 1]
     ELSE /\ op' = Idle
          /\ UNCHANGED fresh
  /\ UNCHANGED <<dir, memory, promised, writeThrough, faults, crashes>>

Found == [op EXCEPT !.gen = Recovered(D.now)]

FindGeneration ==
  /\ At("recover") /\ Selected(D.now) # "none"
  /\ IF Selected(D.now) = "rms"
     THEN /\ op' = [Found EXCEPT !.at = "clean"]
          /\ UNCHANGED dir
     ELSE /\ op' = [Found EXCEPT !.at = "recover_sync"]
          /\ SetFiles(S, Rename(D, Selected(D.now), "rms"))
  /\ UNCHANGED <<memory, promised, history>>

RecoverSync ==
  /\ At("recover_sync") /\ SyncAll /\ Goto("clean")
  /\ UNCHANGED <<memory, promised, history>>

CleanUp ==
  /\ At("clean")
  /\ IF D.now["tmp"] = Absent /\ D.now["bak"] = Absent
     THEN Goto("recovered") /\ UNCHANGED <<dir, promised>>
     ELSE /\ SetFiles(S, Unlink(Unlink(D, "tmp"), "bak"))
          /\ promised' = [promised EXCEPT ![S] = @ \cup Exposed]
          /\ Goto("clean_sync")
  /\ UNCHANGED <<memory, history>>

CleanSync ==
  /\ At("clean_sync") /\ SyncAll /\ Goto("recovered")
  /\ UNCHANGED <<memory, promised, history>>

\* A failure of any of these steps is the failure of the call.
RecoverFails ==
  /\ op.at \in {"recover", "recover_sync", "clean", "clean_sync"}
  /\ Fault /\ Fails
  /\ UNCHANGED <<dir, promised>>

-----------------------------------------------------------------------------
(***************************************************************************)
(* persist_unlocked: the generation op.gen of the store goes to disk.      *)
(***************************************************************************)
\* Until the call reports, a restart may find the old state or the new one.
WriteTemporary ==
  /\ At("write")
  /\ SetFiles(S, Put(D, "tmp", Torn))
  /\ promised' = [promised EXCEPT ![S] =
       @ \cup {op.gen} \cup Exposed]
  /\ op' = [op EXCEPT !.at = "file_sync", !.before = promised[S]]
  /\ UNCHANGED <<memory, history>>

SyncTemporary ==
  /\ At("file_sync")
  /\ SetFiles(S, Put(D, "tmp", op.gen))
  /\ Goto("backup_link")
  /\ UNCHANGED <<memory, promised, history>>

PreservePrevious ==
  /\ At("backup_link")
  /\ LET d == Unlink(D, "bak") IN
       SetFiles(S, IF D.now["rms"] = Absent THEN d
                   ELSE Put(d, "bak", D.now["rms"]))
  /\ op' = [op EXCEPT !.at = "rename", !.backup = D.now["rms"] # Absent]
  /\ UNCHANGED <<memory, promised, history>>

Replace ==
  /\ At("rename")
  /\ SetFiles(S, Rename(D, "tmp", "rms"))
  /\ Goto("directory_sync")
  /\ UNCHANGED <<memory, promised, history>>

\* The synchronized directory is the point of no return.
\* wrong: success is reported without synchronizing the directory
NoSync == UNCHANGED dir
Committed == SyncAll
Commit ==
  /\ At("directory_sync")
  /\ Committed
  /\ promised' = [promised EXCEPT ![S] = {op.gen}]
  /\ Goto(IF op.backup THEN "drop" ELSE "return")
  /\ UNCHANGED <<memory, history>>

\* The backup has served; what fails here is not reported.
DropBackup ==
  /\ At("drop")
  /\ \/ SetFiles(S, Unlink(D, "bak")) /\ UNCHANGED history
     \/ Fault /\ UNCHANGED dir
  /\ Goto("drop_sync")
  /\ UNCHANGED <<memory, promised>>
DropSync ==
  /\ At("drop_sync")
  /\ \/ SyncAll /\ UNCHANGED history
     \/ Fault /\ UNCHANGED dir
  /\ Goto("return")
  /\ UNCHANGED <<memory, promised>>

Failed == op' = [op EXCEPT !.at = "return", !.ok = FALSE]

CreateFails ==
  /\ At("write") /\ Fault /\ Failed
  /\ UNCHANGED <<dir, memory, promised>>

\* A failure before the rename: the canonical file is still the old one, and a
\* restart finds what it might have found before the call.  Where there was none,
\* the files that are unlinked here may still be all it finds.
PersistFails ==
  /\ op.at \in {"file_sync", "backup_link", "rename"} /\ Fault
  /\ SetFiles(S, IF At("file_sync") THEN Unlink(D, "tmp")
                 ELSE Unlink(Unlink(D, "tmp"), "bak"))
  /\ promised' = [promised EXCEPT ![S] =
       IF Unanchored THEN @ ELSE op.before]
  /\ Failed
  /\ UNCHANGED memory

\* A failure after it, maybe when the directory has been synchronized.
CommitFails ==
  /\ At("directory_sync") /\ Fault
  /\ (UNCHANGED dir \/ SyncAll)
  /\ Goto("undo")
  /\ UNCHANGED <<memory, promised>>

\* rollback_disk
RolledBack(d) ==
  IF op.backup THEN Rename(d, "bak", "rms") ELSE Unlink(d, "rms")
Undo ==
  /\ At("undo")
  /\ \/ /\ SetFiles(S, RolledBack(D)) /\ Goto("undo_sync")
        /\ UNCHANGED history
     \/ /\ Fault /\ UNCHANGED dir
        /\ op' = [op EXCEPT !.at = "undo_sync", !.ok = FALSE]
  /\ UNCHANGED <<memory, promised>>
UndoSync ==
  /\ At("undo_sync") /\ Failed
  /\ \/ /\ SyncAll
        /\ promised' = [promised EXCEPT ![S] =
             IF op.ok THEN op.before \ {Torn} ELSE @]
        /\ UNCHANGED history
     \/ Fault /\ UNCHANGED <<dir, promised>>
  /\ UNCHANGED memory

-----------------------------------------------------------------------------
(***************************************************************************)
(* The calls on one store.                                                 *)
(***************************************************************************)
Begin(c) == At("idle") /\ op' = c
Counted(s) == opens' = [opens EXCEPT ![s] = @ + 1]

Open(s, create) ==
  /\ opens[s] < MaxOpens /\ (create => fresh[s] < MaxGeneration)
  /\ IF loaded[s] # Absent
     THEN At("idle") /\ Counted(s) /\ UNCHANGED op
     ELSE /\ Begin(Call(IF create THEN "create" ELSE "open", s, "recover"))
          /\ UNCHANGED opens
  /\ UNCHANGED <<dir, loaded, pending, anyPending, promised, history>>

\* The store is in memory, created or found.
Load ==
  /\ loaded' = [loaded EXCEPT ![S] = op.gen]
  /\ UNCHANGED <<pending, anyPending>>
Opened ==
  /\ op.call \in {"open", "create"}
  /\ At("recovered") \/ (At("return") /\ op.ok)
  /\ Load /\ Counted(S) /\ op' = Idle
  /\ UNCHANGED <<dir, promised, history>>
NotCreated ==
  /\ op.call = "create" /\ At("return") /\ ~op.ok /\ Fails
  /\ UNCHANGED <<dir, promised, history>>

\* wrong: the flush that polls the hint is not told
NoHint(s) == UNCHANGED anyPending
Hints(s) == anyPending' = (anyPending \/ ~pending[s])

\* set_record and delete_record, and what add_record does in the end.  With
\* write-through the change is taken back when it cannot be persisted.
Change(s) ==
  /\ opens[s] > 0 /\ fresh[s] < MaxGeneration
  /\ fresh' = [fresh EXCEPT ![s] = @ + 1]
  /\ loaded' = [loaded EXCEPT ![s] = fresh[s] + 1]
  /\ IF writeThrough
     THEN /\ op' = [Call("change", s, "write") EXCEPT
                      !.gen = fresh[s] + 1, !.old = loaded[s]]
          /\ UNCHANGED <<pending, anyPending>>
     ELSE /\ op' = Idle
          /\ pending' = [pending EXCEPT ![s] = TRUE]
          /\ Hints(s)
  /\ UNCHANGED <<dir, opens, promised, writeThrough, faults, crashes>>

SetRecord(s) == At("idle") /\ Change(s)

ChangeReturns ==
  /\ op.call = "change" /\ At("return")
  /\ loaded' = IF op.ok THEN loaded ELSE [loaded EXCEPT ![S] = op.old]
  /\ op' = Idle
  /\ UNCHANGED <<dir, opens, pending, anyPending, promised, history>>

\* The last close of a store with deferred changes persists it.  If that
\* fails, the store is closed all the same, and stays pending.
Close(s) ==
  /\ opens[s] > 0
  /\ opens' = [opens EXCEPT ![s] = @ - 1]
  /\ IF opens[s] = 1 /\ pending[s]
     THEN Begin([Call("close", s, "write") EXCEPT !.gen = loaded[s]])
     ELSE At("idle") /\ UNCHANGED op
  /\ UNCHANGED <<dir, loaded, pending, anyPending, promised, history>>

Cleared == pending' = [pending EXCEPT ![S] = FALSE]
CloseReturns ==
  /\ op.call = "close" /\ At("return")
  /\ IF op.ok THEN Cleared ELSE UNCHANGED pending
  /\ op' = Idle
  /\ UNCHANGED <<dir, loaded, opens, anyPending, promised, history>>

-----------------------------------------------------------------------------
(***************************************************************************)
(* delete_store.  The files are moved aside, under names that no recovery  *)
(* looks at, and come back when the directory cannot be synchronized.      *)
(***************************************************************************)
Delete(s) ==
  /\ opens[s] = 0
  /\ IF loaded[s] # Absent
     THEN Begin([Call("delete", s, "stage") EXCEPT !.gen = loaded[s]])
     ELSE Begin(Call("delete", s, "recover"))
  /\ UNCHANGED <<dir, memory, promised, history>>
DeleteLoads ==
  /\ op.call = "delete" /\ At("recovered")
  /\ Load /\ Goto("stage")
  /\ UNCHANGED <<dir, opens, promised, history>>

Stage ==
  /\ op.call = "delete" /\ At("stage")
  /\ D.now # NoFiles
  /\ SetFiles(S, Unlink(Unlink(Unlink(D, "rms"), "tmp"), "bak"))
  /\ promised' = [promised EXCEPT ![S] = @ \cup {Absent} \cup LeftBehind(D)]
  /\ op' = [op EXCEPT !.at = "delete_sync", !.moved = D.now, !.before = promised[S]]
  /\ UNCHANGED <<memory, history>>

\* What a deletion that could not be rolled back has moved aside is not there.
NothingToStage ==
  /\ At("stage") /\ D.now = NoFiles /\ op' = Idle
  /\ UNCHANGED <<dir, memory, promised, history>>

\* wrong: the store stays in stores_
Kept == UNCHANGED loaded
Erased == loaded' = [loaded EXCEPT ![S] = Absent]
Deleted ==
  /\ At("delete_sync") /\ SyncAll
  /\ promised' = [promised EXCEPT ![S] = {Absent}]
  /\ Erased /\ Cleared
  /\ op' = Idle
  /\ UNCHANGED <<opens, anyPending, history>>
DeleteFails ==
  /\ At("delete_sync") /\ Fault
  /\ (UNCHANGED dir \/ SyncAll)
  /\ Goto("restore")
  /\ UNCHANGED <<memory, promised>>

Returned(d, r) == IF op.moved[r] = Absent THEN d ELSE Put(d, r, op.moved[r])
PutBack(d) == Returned(Returned(Returned(d, "bak"), "tmp"), "rms")
Restore ==
  /\ At("restore")
  /\ \/ /\ SetFiles(S, PutBack(D)) /\ Goto("restore_sync")
        /\ UNCHANGED history
     \/ /\ Fault /\ UNCHANGED dir
        /\ op' = [op EXCEPT !.at = "restore_sync", !.ok = FALSE]
  /\ UNCHANGED <<memory, promised>>
RestoreSync ==
  /\ At("restore_sync") /\ op' = Idle
  /\ \/ /\ SyncAll
        /\ promised' = [promised EXCEPT ![S] =
             IF op.ok THEN op.before ELSE @]
        /\ UNCHANGED history
     \/ Fault /\ UNCHANGED <<dir, promised>>
  /\ UNCHANGED memory

-----------------------------------------------------------------------------
(***************************************************************************)
(* The calls on all stores.  "next" goes on with one that is left.         *)
(***************************************************************************)
Pending == {s \in Stores : pending[s]}
OnDisk == {s \in Stores : dir[s].now # NoFiles}
All(name, stores) == [Idle EXCEPT !.call = name, !.at = "next", !.rest = stores]

\* flush_pending: open stores whose changes have waited long enough.
FlushDue(due) ==
  /\ anyPending
  /\ Begin(All("flush_pending", due))
  /\ UNCHANGED <<dir, memory, promised, history>>
DueStores == {s \in Pending : opens[s] > 0}
FlushPending == \E due \in SUBSET DueStores : FlushDue(due)
FlushAll ==
  /\ anyPending
  /\ Begin(All("flush_all", Pending))
  /\ UNCHANGED <<dir, memory, promised, history>>

\* list_store_names, and the quota check of add_record: each store on disk
\* is recovered, whether it is in memory or not.
List ==
  /\ Begin(All("list", OnDisk))
  /\ UNCHANGED <<dir, memory, promised, history>>
AddRecord(s) ==
  /\ opens[s] > 0
  /\ Begin([All("add", OnDisk) EXCEPT !.into = s])
  /\ UNCHANGED <<dir, memory, promised, history>>

Scans == op.call \in {"list", "add"}
NextStore ==
  /\ At("next")
  /\ \E s \in op.rest :
       op' = [op EXCEPT !.store = s, !.rest = @ \ {s}, !.ok = TRUE,
                !.at = IF Scans THEN "recover" ELSE "write",
                !.gen = IF Scans THEN Absent ELSE loaded[s]]
  /\ UNCHANGED <<dir, memory, promised, history>>

Scanned ==
  /\ Scans /\ At("recovered") /\ Goto("next")
  /\ UNCHANGED <<dir, memory, promised, history>>

\* flush_pending passes over a store that cannot be persisted; flush_all
\* gives up, and leaves the stores after it as they are.
Flushed ==
  /\ op.call \in {"flush_pending", "flush_all"} /\ At("return")
  /\ IF op.ok THEN Cleared ELSE UNCHANGED pending
  /\ IF op.ok \/ op.call = "flush_pending" THEN Goto("next") ELSE op' = Idle
  /\ UNCHANGED <<dir, loaded, opens, anyPending, promised, history>>

StillPending == Pending # {}
\* The suite has no room for another record.
OverQuota ==
  /\ op.call = "add" /\ op' = Idle
  /\ UNCHANGED <<dir, memory, promised, history>>
Finish ==
  /\ At("next") /\ op.rest = {}
  /\ CASE op.call = "add" -> Change(op.into) \/ OverQuota
       [] op.call = "list" -> /\ op' = Idle
                              /\ UNCHANGED <<dir, memory, promised, history>>
       [] op.call = "flush_all" -> /\ op' = Idle /\ anyPending' = FALSE
                                   /\ UNCHANGED <<dir, loaded, opens, pending,
                                                  promised, history>>
       [] op.call = "flush_pending" ->
            /\ op' = Idle /\ anyPending' = StillPending
            /\ UNCHANGED <<dir, loaded, opens, pending, promised, history>>

-----------------------------------------------------------------------------
\* The process ends, in the middle of a call or between two, and a new one
\* configures the registry: scavenge_delete_tombstones_unlocked removes what
\* a deletion had moved aside.
Crash ==
  /\ crashes < MaxCrashes
  /\ crashes' = crashes + 1
  /\ \E f \in [Stores -> UNION {dir[s].disk : s \in Stores}] :
       /\ \A s \in Stores : f[s] \in dir[s].disk
       /\ dir' = [s \in Stores |-> Settled(f[s])]
       /\ promised' = [s \in Stores |-> {Recovered(f[s])}]
  /\ loaded' = [s \in Stores |-> Absent]
  /\ opens' = [s \in Stores |-> 0]
  /\ pending' = [s \in Stores |-> FALSE]
  /\ anyPending' = FALSE
  /\ op' = Idle
  /\ UNCHANGED <<writeThrough, fresh, faults>>

Recovery ==
  \/ FindNothing \/ FindGeneration \/ RecoverSync \/ CleanUp \/ CleanSync
  \/ RecoverFails
Persist ==
  \/ WriteTemporary \/ SyncTemporary \/ PreservePrevious \/ Replace \/ Commit
  \/ DropBackup \/ DropSync \/ CreateFails \/ PersistFails \/ CommitFails \/ Undo \/ UndoSync
Deletion ==
  Stage \/ NothingToStage \/ Deleted \/ DeleteFails \/ Restore \/ RestoreSync
Return ==
  \/ Opened \/ NotCreated \/ ChangeReturns \/ CloseReturns \/ DeleteLoads
  \/ Scanned \/ NextStore \/ Flushed \/ Finish
GoesOn == Recovery \/ Persist \/ Deletion \/ Return

Calls ==
  \/ \E s \in Stores :
       \/ \E create \in BOOLEAN : Open(s, create)
       \/ SetRecord(s) \/ AddRecord(s) \/ Close(s) \/ Delete(s)
  \/ FlushAll \/ List

Next == Calls \/ FlushPending \/ GoesOn \/ Crash
Spec == Init /\ [][Next]_vars

-----------------------------------------------------------------------------
Files == [Roles -> Nat \cup {Absent, Torn}]
TypeOK ==
  /\ dir \in [Stores -> [now : Files, disk : SUBSET Files]]
  /\ loaded \in [Stores -> Nat \cup {Absent}]
  /\ opens \in [Stores -> Nat]
  /\ pending \in [Stores -> BOOLEAN]
  /\ anyPending \in BOOLEAN /\ writeThrough \in BOOLEAN
  /\ fresh \in [Stores -> Nat]
  /\ promised \in [Stores -> SUBSET (Nat \cup {Absent, Torn})]
  /\ faults \in Nat /\ crashes \in Nat
  /\ S \in Stores \cup {NoStore} /\ op.rest \subseteq Stores

(***************************************************************************)
(* Whatever a crash leaves of the directory, recovery finds in it what the *)
(* calls reported: the last generation that was committed, or that of the  *)
(* call in progress.  A change whose call failed never comes back, nor     *)
(* does a deleted store; and no file is cut short that a committed         *)
(* generation depends on.                                                  *)
(***************************************************************************)
Durable ==
  \A s \in Stores : \A f \in dir[s].disk : Recovered(f) \in promised[s]

\* A store in memory with nothing to flush is what a restart would find: no
\* rollback in memory misses the rollback on disk, and no flush forgets one.
MemoryOnDisk ==
  \A s \in Stores :
    loaded[s] # Absent /\ ~pending[s] /\ S # s => loaded[s] \in promised[s]

\* A call that has begun ends, and the machine calls flush_pending again and
\* again, in the end when all the open stores are due.
FairSpec == Spec /\ WF_vars(GoesOn) /\ SF_vars(FlushDue(DueStores))

\* The deferred change of a store that is open is flushed, in spite of calls
\* that fail, of flushes that come too early and of those that stop half way.
PendingIsFlushed == \A s \in Stores : s \in DueStores ~> s \notin DueStores
=============================================================================
