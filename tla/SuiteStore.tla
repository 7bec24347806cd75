----------------------------- MODULE SuiteStore -----------------------------
(***************************************************************************)
(* SuiteStore and SuiteDatabase: installed suites, as directories and as   *)
(* records of one database file, changed together.                         *)
(*                                                                         *)
(* An installation stages the new directory, moves the old one to a        *)
(* backup, moves the new one into place, and commits the database.  Each   *)
(* step may fail, and is then undone; and the process may die, or the      *)
(* power fail, at any step.  The next configure reads the database, picks  *)
(* for each record the directory that matches it, and removes the rest.    *)
(*                                                                         *)
(* The directories are entries of suites/, the database is an entry of the *)
(* root, and each of the two is synchronized on its own.                   *)
(***************************************************************************)
EXTENDS CrashDirectory, Naturals

CONSTANTS
  Suites,     \* identities of suites, each with a stable number
  NoSuite,    \* no suite
  Versions,   \* what a suite may be installed with
  MaxCalls,   \* a bound on the calls that change something
  MaxFaults,  \* a bound on the operations that fail
  MaxCrashes  \* a bound on the crashes

ASSUME SuitesAssumption == NoSuite \notin Suites
ASSUME FilesAssumption == {Absent, Torn} \cap Versions = {} /\ Absent # Torn
ASSUME BoundsAssumption == {MaxCalls, MaxFaults, MaxCrashes} \subseteq Nat

VARIABLES
  trees,       \* suites/: the directories of each suite
  base,        \* the root: suites.db, suites.db.tmp, suites.db.bak
  suites,      \* suites_: what the store lists, or Absent
  configured,  \* configured_
  wiped,       \* suites whose RMS, files, permissions were removed
  op,          \* the call in progress
  promised,    \* history: what a restart may find, by what calls reported
  doubt,       \* history: suites whose last change was neither confirmed
               \* nor undone
  calls, faults, crashes

memory == <<suites, configured>>
history == <<calls, faults, crashes>>
vars == <<trees, base, memory, wiped, op, promised, doubt, history>>

\* suite_directory, stage_directory, backup_directory, delete_directory
Places == {"final", "stage", "backup", "tombstone"}
Records == [Suites -> Versions \cup {Absent}]
NoRecords == [s \in Suites |-> Absent]
\* The records are a file like any other: neither missing nor cut short.
ASSUME DatabaseAssumption == {Absent, Torn} \cap Records = {}

Idle == [call |-> "none", at |-> "idle", suite |-> NoSuite,
         old |-> Absent, new |-> Absent, kept |-> FALSE, active |-> FALSE,
         records |-> NoRecords, primary |-> FALSE, rest |-> {}, changed |-> FALSE]
Starting == [Idle EXCEPT !.call = "configure", !.at = "load"]
At(place) == op.at = place
Goto(place) == op' = [op EXCEPT !.at = place]
S == op.suite
Tree(place) == trees.now[<<S, place>>]

Init ==
  /\ trees = Settled([e \in Suites \X Places |-> Absent])
  /\ base = Settled([e \in {"db", "tmp", "bak"} |-> Absent])
  /\ suites = NoRecords /\ configured = FALSE
  /\ wiped = {}
  /\ op = Starting
  /\ promised = [s \in Suites |-> {Absent}] /\ doubt = {}
  /\ calls = 0 /\ faults = 0 /\ crashes = 0

\* n file operations fail.
Faults(n) ==
  /\ faults + n <= MaxFaults
  /\ faults' = faults + n /\ UNCHANGED <<calls, crashes>>
Fault == Faults(1)

\* remove_tree goes through the files of a directory one by one.
RemoveTree(d, e) ==
  IF d.now[e] = Absent THEN d ELSE Unlink(Put(d, e, Torn), e)
Removed(place) == RemoveTree(trees, <<S, place>>)
Moved(d, from, to) == Rename(d, <<S, from>>, <<S, to>>)

-----------------------------------------------------------------------------
(***************************************************************************)
(* What a restart makes of the files it finds.                             *)
(***************************************************************************)
\* SuiteDatabase::load; Torn: there is no database that can be read.
Loaded(f) ==
  CASE Whole(f["db"]) -> f["db"]
    [] ~Whole(f["db"]) /\ Whole(f["bak"]) -> f["bak"]
    [] f["db"] = Absent /\ f["bak"] = Absent -> NoRecords
    [] OTHER -> Torn

\* recover_transactions: the first of these directories that matches the record
Order == <<"final", "backup", "tombstone">>
Selected(g, s, version) ==
  LET found == {i \in DOMAIN Order : g[<<s, Order[i]>>] = version}
  IN  IF version = Absent \/ found = {} THEN "none"
      ELSE Order[CHOOSE i \in found : \A j \in found : i <= j]

Recovered(f, g, s) ==
  LET records == Loaded(f)
  IN  IF records = Torn THEN Torn
      ELSE IF Selected(g, s, records[s]) = "none" THEN Absent ELSE records[s]

-----------------------------------------------------------------------------
(***************************************************************************)
(* install_impl and uninstall, up to the commit.                           *)
(***************************************************************************)
Begin(call, s, v, place) ==
  /\ configured /\ At("idle") /\ calls < MaxCalls
  /\ calls' = calls + 1 /\ UNCHANGED <<faults, crashes>>
  /\ op' = [Idle EXCEPT !.call = call, !.at = place, !.suite = s,
                        !.old = suites[s], !.new = v]

\* The new directory is filled in.  What is left of an older one goes first.
Install(s, v) ==
  /\ v # suites[s] /\ Begin("install", s, v, "staging")
  /\ trees' = Put(RemoveTree(trees, <<s, "stage">>), <<s, "stage">>, Torn)
  /\ UNCHANGED <<base, memory, wiped, promised, doubt>>

Staged ==
  /\ At("staging")
  /\ trees' = Synced(Put(trees, <<S, "stage">>, op.new))
  /\ Goto("clear")
  /\ UNCHANGED <<base, memory, wiped, promised, doubt, history>>

StagingFails ==
  /\ At("staging") /\ Fault
  /\ trees' = Removed("stage") /\ op' = Idle
  /\ UNCHANGED <<base, memory, wiped, promised, doubt>>

\* What is removed here may be all that a restart finds of the suite, when its
\* last change was neither confirmed nor undone.
Exposed == IF S \in doubt THEN {Absent} ELSE {}
Expose == promised' = [promised EXCEPT ![S] = @ \cup Exposed]

ClearBackup ==
  /\ At("clear") /\ op.call = "install"
  /\ trees' = Removed("backup") /\ Expose
  /\ op' = [op EXCEPT !.kept = Tree("final") # Absent,
                      !.at = IF Tree("final") # Absent THEN "backup" ELSE "activate"]
  /\ UNCHANGED <<base, memory, wiped, doubt, history>>

BackUp ==
  /\ At("backup") /\ trees' = Moved(trees, "final", "backup")
  /\ Goto("backup_sync")
  /\ UNCHANGED <<base, memory, wiped, promised, doubt, history>>

\* A configure may have forgotten a suite without its directory, and its commit
\* not have been confirmed: a directory that matches the old record is found.
Matched ==
  IF \E f \in base.disk : Loaded(f) # Torn /\ Loaded(f)[S] = op.new THEN {op.new} ELSE {}
Activate ==
  /\ At("activate") /\ trees' = Moved(trees, "stage", "final")
  /\ op' = [op EXCEPT !.at = "activate_sync", !.active = TRUE]
  /\ promised' = [promised EXCEPT ![S] = @ \cup Matched]
  /\ UNCHANGED <<base, memory, wiped, doubt, history>>

Uninstall(s) ==
  /\ suites[s] # Absent
  /\ Begin("uninstall", s, Absent, "clear")
  /\ UNCHANGED <<trees, base, memory, wiped, promised, doubt>>

ClearTombstone ==
  /\ At("clear") /\ op.call = "uninstall"
  /\ trees' = Removed("tombstone") /\ Expose /\ Goto("bury")
  /\ UNCHANGED <<base, memory, wiped, doubt, history>>

\* The directory may be missing, after a change that could not be undone.
NothingToBury ==
  /\ At("bury") /\ Tree("final") = Absent /\ op' = Idle
  /\ UNCHANGED <<trees, base, memory, wiped, promised, doubt, history>>

Bury ==
  /\ At("bury") /\ Tree("final") # Absent
  /\ trees' = Moved(trees, "final", "tombstone")
  /\ op' = [op EXCEPT !.at = "bury_sync", !.kept = TRUE]
  /\ UNCHANGED <<base, memory, wiped, promised, doubt, history>>

\* The directories are as they shall be; then memory is, then the database.
SyncTrees ==
  /\ op.at \in {"backup_sync", "activate_sync", "bury_sync"}
  /\ trees' = Synced(trees)
  /\ IF At("backup_sync")
     THEN Goto("activate") /\ UNCHANGED suites
     ELSE LET after == [suites EXCEPT ![S] = op.new] IN
            /\ suites' = after
            /\ op' = [op EXCEPT !.at = "write", !.records = after]
  /\ UNCHANGED <<base, configured, wiped, promised, doubt, history>>

ClearFails ==
  /\ At("clear") /\ Fault
  /\ LET place == IF op.call = "install" THEN "backup" ELSE "tombstone" IN
       trees' = IF Tree(place) = Absent THEN trees ELSE Put(trees, <<S, place>>, Torn)
  /\ Expose
  /\ IF op.call = "install" THEN Goto("undo") ELSE op' = Idle
  /\ UNCHANGED <<base, memory, wiped, doubt>>

RenameFails ==
  /\ op.at \in {"backup", "activate", "bury"} /\ Fault
  /\ op' = IF At("bury") THEN Idle
           ELSE [op EXCEPT !.at = "undo", !.kept = @ /\ At("activate")]
  /\ UNCHANGED <<trees, base, memory, wiped, promised, doubt>>

SyncTreesFails ==
  /\ op.at \in {"backup_sync", "activate_sync", "bury_sync"} /\ Fault
  /\ UNCHANGED trees \/ trees' = Synced(trees)
  /\ Goto("undo")
  /\ UNCHANGED <<base, memory, wiped, promised, doubt>>

(***************************************************************************)
(* A failure is undone: the new directory goes, the old one comes back.    *)
(***************************************************************************)
Withdrawn(d) == IF op.active THEN RemoveTree(d, <<S, "final">>) ELSE d
Restored(d) ==
  IF ~op.kept THEN Withdrawn(d)
  ELSE Moved(Withdrawn(d), IF op.call = "install" THEN "backup" ELSE "tombstone",
             "final")
Undo ==
  /\ At("undo")
  /\ \/ /\ trees' = RemoveTree(Restored(trees), <<S, "stage">>)
        /\ IF op.kept \/ op.active THEN Goto("undo_sync") ELSE op' = Idle
        /\ UNCHANGED <<doubt, history>>
     \/ /\ Fault /\ op' = Idle
        /\ \E d \in {trees, Withdrawn(trees)} :
             trees' \in {d, RemoveTree(d, <<S, "stage">>)}
        /\ doubt' = IF op.kept \/ op.active THEN doubt \cup {S} ELSE doubt
  /\ UNCHANGED <<base, memory, wiped, promised>>
UndoSync ==
  /\ At("undo_sync") /\ op' = Idle
  /\ \/ /\ trees' = Synced(trees)
        /\ UNCHANGED history
     \/ Fault /\ UNCHANGED trees
  /\ UNCHANGED <<base, memory, wiped, promised, doubt>>

-----------------------------------------------------------------------------
(***************************************************************************)
(* SuiteDatabase::commit of op.records.                                    *)
(***************************************************************************)
WriteDatabase ==
  /\ At("write") /\ base' = Put(base, "tmp", Torn) /\ Goto("file_sync")
  /\ UNCHANGED <<trees, memory, wiped, promised, doubt, history>>

SyncDatabase ==
  /\ At("file_sync") /\ base' = Put(base, "tmp", op.records) /\ Goto("rotate")
  /\ UNCHANGED <<trees, memory, wiped, promised, doubt, history>>

\* The backup may be the only database on the disk: load has copied it over
\* the primary, or the last commit was not confirmed, or could not put the
\* primary back.  It is removed first.
Unanchored == \E f \in base.disk : ~Whole(f["db"]) /\ Whole(f["bak"])
Loses ==
  promised' = [s \in Suites |->
    IF Unanchored THEN promised[s] \cup {Absent, Torn} ELSE promised[s]]

Rotated(d) == IF d.now["db"] = Absent THEN d ELSE Rename(d, "db", "bak")
Rotate ==
  /\ At("rotate")
  /\ base' = Rotated(Unlink(base, "bak")) /\ Loses
  /\ op' = [op EXCEPT !.at = "replace", !.primary = base.now["db"] # Absent]
  /\ UNCHANGED <<trees, memory, wiped, doubt, history>>

Replace ==
  /\ At("replace") /\ base' = Rename(base, "tmp", "db") /\ Goto("db_sync")
  /\ promised' = [s \in Suites |-> promised[s] \cup {op.records[s]}]
  /\ wiped' = {s \in wiped : op.records[s] = Absent}
  /\ UNCHANGED <<trees, memory, doubt, history>>

\* wrong: the database is taken for durable as soon as it is replaced
NoSync(d) == d
Confirmed(d) == Synced(d)
\* durable: this database is the one a restart finds
Commit ==
  /\ At("db_sync") /\ base' = Confirmed(base)
  /\ promised' = [s \in Suites |->
       IF s \in doubt \ {S} THEN promised[s] ELSE {op.records[s]}]
  /\ doubt' = doubt \ {S}
  /\ Goto("mirror")
  /\ UNCHANGED <<trees, memory, wiped, history>>

Mirror ==
  /\ At("mirror")
  /\ \/ base' = Synced(Put(base, "bak", op.records)) /\ UNCHANGED history
     \/ Fault /\ base' \in {base, Put(base, "bak", Torn)}
  /\ Goto("cleanup")
  /\ UNCHANGED <<trees, memory, wiped, promised, doubt>>

Unconfirmed(o) ==
  IF o.call = "configure" THEN [o EXCEPT !.at = "sweep"] ELSE Idle
\* unknown: this database or the one before it
CommitUnknown ==
  /\ At("db_sync") /\ Fault
  /\ (UNCHANGED base \/ base' = Synced(base))
  /\ doubt' = IF S = NoSuite THEN doubt ELSE doubt \cup {S}
  /\ op' = Unconfirmed(op)
  /\ UNCHANGED <<trees, memory, wiped, promised>>

\* wrong: memory keeps what the database has refused
Kept(m) == m
Reverted(m) == [m EXCEPT ![S] = op.old]
PutBack == IF op.primary THEN Rename(base, "bak", "db") ELSE base
\* The database is as it was; memory and directories follow.  A primary that was
\* moved aside is moved back.  If that fails too, nobody hears of it, and there
\* is only the backup.
CommitFails ==
  /\ op.at \in {"write", "file_sync", "rotate", "replace"}
  /\ CASE op.at \in {"write", "file_sync"} ->
              Fault /\ base' = Unlink(base, "tmp") /\ UNCHANGED promised
       [] At("rotate") ->
              Fault /\ base' = Unlink(Unlink(base, "bak"), "tmp") /\ Loses
       [] At("replace") ->
            /\ \/ Fault /\ base' = Unlink(PutBack, "tmp")
               \/ op.primary /\ Faults(2) /\ base' = Unlink(base, "tmp")
            /\ UNCHANGED promised
  /\ CASE op.call = "configure" -> op' = Starting /\ UNCHANGED suites
       [] op.call = "update" -> op' = Idle /\ UNCHANGED suites
       [] op.call \in {"install", "uninstall"} ->
            Goto("undo") /\ suites' = Reverted(suites)
  /\ UNCHANGED <<trees, configured, wiped, doubt>>

-----------------------------------------------------------------------------
(***************************************************************************)
(* After a durable commit.  What fails here is not reported, but for the   *)
(* removal of the data of an uninstalled suite.                            *)
(***************************************************************************)
CleanUp ==
  /\ At("cleanup")
  /\ LET rest == CASE op.call = "install" -> "backup"
                   [] op.call = "uninstall" -> "tombstone"
                   [] OTHER -> "none" IN
       \/ rest = "none" /\ UNCHANGED <<trees, history>>
       \/ rest # "none" /\ trees' = Synced(Removed(rest)) /\ UNCHANGED history
       \/ rest # "none" /\ Fault /\ UNCHANGED trees
  /\ CASE op.call = "uninstall" -> Goto("data")
       [] op.call = "configure" -> Goto("sweep")
       [] OTHER -> op' = Idle
  /\ UNCHANGED <<base, memory, wiped, promised, doubt>>

\* remove_policy_data: some of it, all of it
RemovePolicyData ==
  /\ At("data") /\ op' = Idle
  /\ wiped' = wiped \cup {S}
  /\ UNCHANGED <<trees, base, memory, promised, doubt, history>>

\* update_verified_classes: the records change in a way that is data.
UpdateVerifiedClasses(s) ==
  /\ suites[s] # Absent
  /\ configured /\ At("idle") /\ calls < MaxCalls
  /\ calls' = calls + 1 /\ UNCHANGED <<faults, crashes>>
  /\ op' = [Idle EXCEPT !.call = "update", !.at = "write", !.records = suites]
  /\ UNCHANGED <<trees, base, memory, wiped, promised, doubt>>

-----------------------------------------------------------------------------
(***************************************************************************)
(* configure.                                                              *)
(***************************************************************************)
\* The backup is copied over a primary that is missing or unreadable.
Restorable == ~Whole(base.now["db"]) /\ Whole(base.now["bak"])
\* While it is copied a power failure may leave the copy without it: the renames
\* of a commit that could not put the primary back are not on the disk yet.
Overwrites ==
  LET older == {f["bak"] : f \in {g \in base.disk : g["bak"] # base.now["bak"]}}
      lists(s) == {r[s] : r \in {x \in older : Whole(x)}}
  IN  IF Restorable /\ older # {}
      THEN /\ promised' = [s \in Suites |-> promised[s] \cup {Absent, Torn} \cup lists(s)]
           /\ wiped' = {s \in wiped : lists(s) \subseteq {Absent}}
      ELSE UNCHANGED <<promised, wiped>>
Load ==
  /\ At("load") /\ Loaded(base.now) # Torn /\ Overwrites
  /\ base' = IF Restorable THEN Put(Put(base, "db", Torn), "db", base.now["bak"])
             ELSE base
  /\ LET records == Loaded(base.now) IN
       op' = [op EXCEPT !.at = "recover", !.records = records,
                        !.rest = {s \in Suites : records[s] # Absent}]
  /\ UNCHANGED <<trees, memory, doubt, history>>

\* recover_transactions, one record: its directory is moved into place.
\* wrong: what lies in the way of the backup is taken for the suite
NotMatched(g, s, version) ==
  IF g[<<s, "final">>] # Absent THEN "final" ELSE Selected(g, s, version)
Chosen(g, s, version) == Selected(g, s, version)
Placed(d, s, from) ==
  IF from = "final" THEN d
  ELSE Rename(RemoveTree(d, <<s, "final">>), <<s, from>>, <<s, "final">>)
Cleared(d, s) ==
  RemoveTree(RemoveTree(RemoveTree(d, <<s, "backup">>), <<s, "tombstone">>),
             <<s, "stage">>)
Forgotten(o, s) ==
  [o EXCEPT !.rest = @ \ {s}, !.records[s] = Absent, !.changed = TRUE]
RecoverSuite(s) ==
  /\ At("recover") /\ s \in op.rest
  /\ LET from == Chosen(trees.now, s, op.records[s]) IN
       IF from = "none"
       THEN op' = Forgotten(op, s) /\ UNCHANGED trees
       ELSE /\ op' = [op EXCEPT !.rest = @ \ {s}]
            /\ trees' = Cleared(Placed(trees, s, from), s)
  /\ UNCHANGED <<base, memory, wiped, promised, doubt, history>>

\* The database is committed when a record was forgotten, or when the stamps
\* of a directory had to be refreshed.
Recovering ==
  /\ At("recover") /\ op.rest = {}
  /\ \/ Goto("write")
     \/ ~op.changed /\ Goto("sweep")
  /\ UNCHANGED <<trees, base, memory, wiped, promised, doubt, history>>

\* Directories without a record are removed.
Unreferenced == {e \in Suites \X Places :
                   e[2] = "stage" \/ op.records[e[1]] = Absent}
Sweep ==
  /\ At("sweep")
  /\ \E e \in Unreferenced :
       trees.now[e] # Absent /\ trees' = RemoveTree(trees, e)
  /\ UNCHANGED <<base, memory, wiped, op, promised, doubt, history>>
Configured ==
  /\ At("sweep") /\ \A e \in Unreferenced : trees.now[e] = Absent
  /\ trees' \in {trees, Synced(trees)}
  /\ suites' = op.records /\ configured' = TRUE
  /\ op' = Idle
  /\ UNCHANGED <<base, wiped, promised, doubt, history>>

ConfigureFails ==
  /\ op.at \in {"load", "recover", "sweep"} /\ Fault
  /\ op' = Starting
  /\ \/ UNCHANGED <<base, promised, wiped>>
     \/ /\ At("load") /\ Restorable
        /\ base' = Put(base, "db", Torn) /\ Overwrites
  /\ UNCHANGED <<trees, memory, doubt>>

-----------------------------------------------------------------------------
\* The process dies or the power fails, and a new process configures.
Crash ==
  /\ crashes < MaxCrashes
  /\ crashes' = crashes + 1 /\ UNCHANGED <<calls, faults>>
  /\ \E f \in base.disk, g \in trees.disk :
       /\ base' = Settled(f) /\ trees' = Settled(g)
       /\ promised' = [s \in Suites |-> {Recovered(f, g, s)}]
  /\ suites' = NoRecords /\ configured' = FALSE
  /\ op' = Starting /\ doubt' = {}
  /\ UNCHANGED wiped

Calls ==
  \E s \in Suites :
    \/ \E v \in Versions : Install(s, v)
    \/ Uninstall(s) \/ UpdateVerifiedClasses(s)
Trees ==
  \/ Staged \/ StagingFails \/ ClearBackup \/ BackUp \/ Activate
  \/ ClearTombstone \/ NothingToBury \/ Bury \/ SyncTrees
  \/ ClearFails \/ RenameFails \/ SyncTreesFails \/ Undo \/ UndoSync
Database ==
  \/ WriteDatabase \/ SyncDatabase \/ Rotate \/ Replace \/ Commit \/ Mirror
  \/ CommitUnknown \/ CommitFails
Finish == CleanUp \/ RemovePolicyData
Configure ==
  \/ Load \/ Recovering \/ Sweep \/ Configured \/ ConfigureFails
  \/ \E s \in Suites : RecoverSuite(s)

GoesOn == Trees \/ Database \/ Finish \/ Configure
Next == Calls \/ GoesOn \/ Crash
Spec == Init /\ [][Next]_vars

-----------------------------------------------------------------------------
RootFiles == [{"db", "tmp", "bak"} -> Records \cup {Absent, Torn}]
Directories == [Suites \X Places -> Versions \cup {Absent, Torn}]
TypeOK ==
  /\ trees \in [now : Directories, disk : SUBSET Directories]
  /\ base \in [now : RootFiles, disk : SUBSET RootFiles]
  /\ suites \in Records /\ configured \in BOOLEAN
  /\ wiped \subseteq Suites /\ doubt \subseteq Suites
  /\ promised \in [Suites -> SUBSET (Versions \cup {Absent, Torn})]
  /\ calls \in Nat /\ faults \in Nat /\ crashes \in Nat

\* Whatever the disk holds when the power fails, the next configure finds of
\* each suite what the calls have reported: the version of the last change that
\* was confirmed or, of one that is in progress or was not confirmed, the one
\* before or after it (SuiteStore::install_impl, uninstall, SuiteDatabase::commit).
\* The data of a suite that it finds were never removed, not even by an uninstall
\* whose commit may have failed.
Durable ==
  \A f \in base.disk, g \in trees.disk, s \in Suites :
    /\ Recovered(f, g, s) \in promised[s]
    /\ Recovered(f, g, s) \in Versions => s \notin wiped

\* A commit has removed the only database, a backup that an earlier one could not
\* move back, and has not put another in its place.
Bare == base.now["db"] = Absent /\ base.now["bak"] = Absent

\* Of a suite that no call is changing, and whose last change was confirmed or
\* undone, memory has what a restart without a power failure would find: after
\* any failed step, database, directories and suites_ agree again.  Excepted is
\* the commit that removes the only database (SuiteDatabase.cpp:683).
MemoryOnDisk ==
  \A s \in Suites \ doubt :
    configured /\ S # s =>
      \/ Recovered(base.now, trees.now, s) = suites[s]
      \/ Bare /\ Torn \in promised[s]
=============================================================================
