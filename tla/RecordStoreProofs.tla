-------------------------- MODULE RecordStoreProofs --------------------------
(***************************************************************************)
(* Proofs about RecordStore, for any stores and any bounds on generations, *)
(* opens, faults and crashes: whatever operation fails or is cut off by a  *)
(* crash, recovery finds what the calls have reported.                     *)
(***************************************************************************)
EXTENDS RecordStore, TLAPS

Values == Nat \cup {Absent, Torn}
Promise == promised[S]

(***************************************************************************)
(* What a restart may find of a directory.  Only temporaries are cut short. *)
(***************************************************************************)
Lasting(d, P) ==
  /\ d.now \in d.disk
  /\ \A f \in d.disk : /\ f \in Files /\ f["rms"] # Torn /\ f["bak"] # Torn
                       /\ Recovered(f) \in P

\* The canonical file is there, or no file is.
InPlace(f) == f["rms"] # Absent \/ f = NoFiles

\* A temporary or a backup may be found, whatever is done to the others.
Left(d, P) == \A f \in d.disk : f["tmp"] \in P /\ f["bak"] \in P

(***************************************************************************)
(* A store that no call is about: a store in memory is in place on disk,   *)
(* and is what a restart may find unless its change is deferred.           *)
(***************************************************************************)
Rests(s) ==
  loaded[s] # Absent =>
    /\ InPlace(dir[s].now)
    /\ ~pending[s] => loaded[s] \in promised[s]

StoreInv ==
  \A s \in Stores :
    /\ Lasting(dir[s], promised[s])
    /\ opens[s] > 0 \/ pending[s] => loaded[s] # Absent
    /\ S # s => Rests(s)

(***************************************************************************)
(* The call in progress.                                                   *)
(***************************************************************************)
Recovering == {"recover", "recover_sync", "clean", "clean_sync", "recovered"}
Replacing == {"file_sync", "backup_link", "rename"}
Replaced == {"directory_sync", "undo"}
Writing == {"write", "undo_sync", "drop", "drop_sync", "return"} \cup Replacing \cup Replaced
Staged == {"delete_sync", "restore", "restore_sync"}
Flushes == {"flush_pending", "flush_all"}

Names ==
  {"none", "open", "create", "change", "close", "delete", "list", "add"} \cup Flushes
AllPlaces == {"idle", "next", "stage"} \cup Recovering \cup Writing \cup Staged
OpTypeOK ==
  op \in [call : Names, at : AllPlaces, store : Stores \cup {NoStore}, gen : Values, old : Values,
          backup : BOOLEAN, ok : BOOLEAN, rest : SUBSET Stores, into : Stores \cup {NoStore},
          moved : Files, before : SUBSET Values]

CallInv ==
  /\ At("idle") => S = NoStore
  /\ At("next") => op.call \in {"list", "add"} \cup Flushes
  /\ At("next") /\ S \in Stores => Rests(S)
  /\ op.call = "add" => op.into \in Stores
  /\ op.call = "delete" => S \in Stores /\ opens[S] = 0
  /\ op.call \in Flushes => S \notin op.rest /\ \A s \in op.rest : pending[s]

RecoverInv ==
  op.at \in Recovering =>
    /\ S \in Stores /\ op.call \in {"open", "create", "delete", "list", "add"}
    /\ Rests(S) /\ op.ok
    /\ op.call \in {"open", "create", "delete"} => loaded[S] = Absent
    /\ ~At("recover") => op.gen = D.now["rms"] /\ op.gen \in Nat

\* The call c writes its generation to the directory d, of the promise P.  A change
\* that fails goes back to its old generation.
Old(c, P) == c.call = "change" /\ ~pending[c.store] => c.old \in P

\* Before the rename nothing is lost of what was found before the call.  A store
\* without a canonical file, maybe, may be found in any state until it is replaced.
Prepared(c, d, P) ==
  /\ (\E f \in d.disk : f["rms"] = Absent) => {Torn, Absent} \subseteq P /\ Left(d, P)
  /\ \A f \in d.disk : f["rms"] # Absent => f["rms"] \in c.before
  /\ d.now["rms"] = Absent => d.now["bak"] = Absent /\ Absent \in c.before
  /\ c.at # "file_sync" => d.now["tmp"] = c.gen
  /\ c.at = "rename" => c.backup = (d.now["rms"] # Absent) /\ d.now["bak"] = d.now["rms"]

\* After it the backup is the way back, or to remove what is new.
Reversible(c, d, P) ==
  /\ d.now["rms"] = c.gen /\ d.now["tmp"] = Absent
  /\ c.backup => d.now["bak"] \in c.before /\ d.now["bak"] \in Nat
  /\ ~c.backup => /\ d.now["bak"] = Absent /\ Absent \in c.before
                  /\ {Torn, Absent} \subseteq P /\ Left(d, P)

Written(c, d, P) ==
  /\ c.at \notin {"return", "undo_sync"} => c.ok
  /\ c.at = "write" => InPlace(d.now) /\ Old(c, P)
  /\ c.at \in Replacing \cup Replaced \cup {"undo_sync"} =>
       Old(c, c.before) /\ c.before \subseteq P
  /\ c.at \in Replacing \cup Replaced => c.gen \in P
  /\ c.at \in Replacing => Prepared(c, d, P)
  /\ c.at \in Replaced => Reversible(c, d, P)
  /\ c.at = "undo_sync" => InPlace(d.now) /\ (c.ok => Recovered(d.now) \in c.before)
  /\ c.at \in {"drop", "drop_sync"} => c.gen \in P /\ \A f \in d.disk : f["rms"] = c.gen
  /\ c.at = "return" => InPlace(d.now) /\ IF c.ok THEN c.gen \in P ELSE Old(c, P)

WriteInv ==
  op.at \in Writing =>
    /\ S \in Stores /\ op.gen \in Nat
    /\ op.call \in {"create", "change", "close"} \cup Flushes
    /\ op.call = "create" => loaded[S] = Absent
    /\ op.call # "create" => loaded[S] = op.gen
    /\ op.call = "change" => op.old \in Nat
    /\ op.call \in {"close"} \cup Flushes => pending[S]
    /\ Written(op, D, Promise)

\* The call c has moved files aside: while the directory is not synchronized, a
\* restart finds any of them, or none.
Aside(c, d, P) ==
  /\ ~pending[c.store] => loaded[c.store] \in c.before
  /\ c.before \subseteq P /\ Absent \in P
  /\ c.moved \in Files /\ InPlace(c.moved) /\ Recovered(c.moved) \in c.before
  /\ c.moved["rms"] # Torn /\ c.moved["bak"] # Torn
  /\ Left(d, P) /\ c.moved["tmp"] \in P /\ c.moved["bak"] \in P
  /\ c.at # "restore_sync" => d.now = NoFiles /\ c.ok
  /\ c.at = "restore_sync" => d.now = (IF c.ok THEN c.moved ELSE NoFiles)

DeleteInv ==
  /\ op.at \in {"stage"} \cup Staged => op.call = "delete" /\ loaded[S] # Absent
  /\ At("stage") => Rests(S) /\ op.ok
  /\ op.at \in Staged => Aside(op, D, Promise)

RecordInv ==
  /\ TypeOK /\ OpTypeOK /\ StoreInv
  /\ CallInv /\ RecoverInv /\ WriteInv /\ DeleteInv

-----------------------------------------------------------------------------
(***************************************************************************)
(* Directories.                                                            *)
(***************************************************************************)

\* What recovery finds, when only a temporary is cut short.
LEMMA RecoveredIs ==
  ASSUME NEW f \in Files, f["rms"] # Torn, f["bak"] # Torn
  PROVE  Recovered(f) = IF f["rms"] # Absent THEN f["rms"]
                        ELSE IF f["bak"] # Absent THEN f["bak"] ELSE f["tmp"]
<1>1. CASE f["rms"] # Absent
  <2>1. Selected(f) = "rms"
    BY <1>1 DEF Selected, Whole
  <2> QED BY <1>1, <2>1 DEF Recovered
<1>2. CASE f["rms"] = Absent /\ f["bak"] # Absent
  <2>1. Selected(f) = "bak"
    BY <1>2 DEF Selected, Whole
  <2> QED BY <1>2, <2>1 DEF Recovered
<1>3. CASE f["rms"] = Absent /\ f["bak"] = Absent /\ f["tmp"] \notin {Absent, Torn}
  <2>1. Selected(f) = "tmp"
    BY <1>3 DEF Selected, Whole
  <2> QED BY <1>3, <2>1 DEF Recovered
<1>4. CASE f["rms"] = Absent /\ f["bak"] = Absent /\ f["tmp"] \in {Absent, Torn}
  <2>1. Selected(f) = "none"
    BY <1>4 DEF Selected, Whole
  <2>2. f["tmp"] = Absent => f = NoFiles
    BY <1>4 DEF Files, Roles, NoFiles
  <2>3. f["tmp"] = Torn => f # NoFiles
    BY <1>4, FilesAssumption DEF Files, Roles, NoFiles
  <2> QED BY <1>4, <2>1, <2>2, <2>3 DEF Recovered
<1> QED BY <1>1, <1>2, <1>3, <1>4

LEMMA NoFilesAre ==
  /\ NoFiles \in Files /\ NoFiles["rms"] = Absent /\ NoFiles["tmp"] = Absent
  /\ NoFiles["bak"] = Absent /\ Recovered(NoFiles) = Absent
<1>1. NoFiles \in Files /\ NoFiles["rms"] = Absent /\ NoFiles["tmp"] = Absent /\ NoFiles["bak"] = Absent
  BY DEF NoFiles, Files, Roles
<1>2. Recovered(NoFiles) = Absent
  BY <1>1, FilesAssumption, RecoveredIs
<1> QED BY <1>1, <1>2

LEMMA FileTypes ==
  ASSUME NEW f \in Files
  PROVE  f["rms"] \in Values /\ f["tmp"] \in Values /\ f["bak"] \in Values
BY DEF Files, Roles, Values

\* Two maps with the same entries are the same.
LEMMA SameFiles ==
  ASSUME NEW f \in Files, NEW g \in Files,
         f["rms"] = g["rms"], f["tmp"] = g["tmp"], f["bak"] = g["bak"]
  PROVE  f = g
BY DEF Files, Roles

(***************************************************************************)
(* The entry n has become x, or it may have: e is d after that.            *)
(***************************************************************************)
Set(f, n, x) == [f EXCEPT ![n] = x]
Follows(e, d, n, x) ==
  /\ e.now = Set(d.now, n, x) /\ e.now \in e.disk
  /\ \A f \in e.disk : f \in d.disk \/ \E g \in d.disk : f = Set(g, n, x)

Directory(d) == d \in [now : Files, disk : SUBSET Files] /\ d.now \in d.disk

LEMMA SetIs ==
  ASSUME NEW f \in Files, NEW n \in Roles, NEW x \in Values
  PROVE  /\ Set(f, n, x) \in Files /\ Set(f, n, x)[n] = x
         /\ \A r \in Roles : r # n => Set(f, n, x)[r] = f[r]
         /\ f[n] = x => Set(f, n, x) = f
BY DEF Set, Files, Values

LEMMA PutFollows ==
  ASSUME NEW d, Directory(d), NEW n \in Roles, NEW x \in Values
  PROVE  Directory(Put(d, n, x)) /\ Follows(Put(d, n, x), d, n, x)
<1>1. d.now \in Files /\ d.disk \subseteq Files /\ d.now \in d.disk
  BY DEF Directory
<1>e. PICK e : e = Put(d, n, x)
  OBVIOUS
<1>2. e = [now |-> Set(d.now, n, x), disk |-> d.disk \cup {Set(f, n, x) : f \in d.disk}]
  BY <1>e DEF Put, Set
<1>3. \A f \in d.disk : Set(f, n, x) \in Files
  BY <1>1, SetIs
<1>4. /\ e.now = Set(d.now, n, x) /\ e.disk = d.disk \cup {Set(f, n, x) : f \in d.disk}
      /\ e.disk \in SUBSET Files /\ e.now \in e.disk
  BY <1>1, <1>2, <1>3
<1>5. Directory(e)
  BY <1>1, <1>2, <1>3, <1>4 DEF Directory
<1>6. Follows(e, d, n, x)
  BY <1>4 DEF Follows
<1> QED BY <1>e, <1>5, <1>6

LEMMA UnlinkFollows ==
  ASSUME NEW d, Directory(d), NEW n \in Roles
  PROVE  Directory(Unlink(d, n)) /\ Follows(Unlink(d, n), d, n, Absent)
<1>1. CASE d.now[n] = Absent
  <2>1. Unlink(d, n) = d
    BY <1>1 DEF Unlink
  <2>2. d.now \in Files /\ Absent \in Values
    BY DEF Directory, Values
  <2>3. Set(d.now, n, Absent) = d.now
    BY <1>1, <2>2, SetIs
  <2> QED BY <2>1, <2>3 DEF Follows, Directory
<1>2. CASE d.now[n] # Absent
  BY <1>2, PutFollows DEF Unlink, Values
<1> QED BY <1>1, <1>2

\* Another entry than n: x is found under it, or nothing has changed there.
LEMMA FollowsIs ==
  ASSUME NEW d, Directory(d), NEW e, NEW n \in Roles, NEW x \in Values, Follows(e, d, n, x)
  PROVE  /\ e.now[n] = x /\ \A r \in Roles : r # n => e.now[r] = d.now[r]
         /\ \A f \in e.disk :
              /\ f \in Files
              /\ \E g \in d.disk : /\ f[n] \in {g[n], x}
                                   /\ \A r \in Roles : r # n => f[r] = g[r]
<1>1. d.now \in Files /\ d.disk \subseteq Files /\ d.now \in d.disk
  BY DEF Directory
<1>2. e.now[n] = x /\ \A r \in Roles : r # n => e.now[r] = d.now[r]
  BY <1>1, SetIs DEF Follows
<1>3. ASSUME NEW f \in e.disk
      PROVE  /\ f \in Files
             /\ \E g \in d.disk : /\ f[n] \in {g[n], x}
                                  /\ \A r \in Roles : r # n => f[r] = g[r]
  <2>1. CASE f \in d.disk
    BY <1>1, <2>1
  <2>2. ASSUME NEW g \in d.disk, f = Set(g, n, x)
        PROVE  f \in Files /\ f[n] = x /\ \A r \in Roles : r # n => f[r] = g[r]
    BY <1>1, <2>2, SetIs
  <2> QED BY <2>1, <2>2 DEF Follows
<1> QED BY <1>2, <1>3

\* What must be among Q so that a restart finds what it may, when an entry is
\* changed: the temporary matters where nothing else is there, the backup where
\* there is no canonical file.
LEMMA TemporaryKeeps ==
  ASSUME NEW d, Directory(d), NEW e, Directory(e), NEW x \in Values, NEW P, NEW Q,
         Follows(e, d, "tmp", x), Lasting(d, P), P \subseteq Q,
         \A f \in d.disk : f["rms"] = Absent /\ f["bak"] = Absent => x \in Q
  PROVE  Lasting(e, Q)
<1> SUFFICES ASSUME NEW f \in e.disk
    PROVE  f["rms"] # Torn /\ f["bak"] # Torn /\ Recovered(f) \in Q
  BY DEF Lasting, Directory
<1>1. "tmp" \in Roles /\ "rms" \in Roles /\ "bak" \in Roles
  BY DEF Roles
<1>2. PICK g \in d.disk : f["tmp"] \in {g["tmp"], x} /\ f["rms"] = g["rms"] /\ f["bak"] = g["bak"]
  BY <1>1, FollowsIs
<1>3. g \in Files /\ g["rms"] # Torn /\ g["bak"] # Torn /\ Recovered(g) \in P /\ f \in Files
  BY DEF Lasting, Directory
<1> QED BY <1>2, <1>3, RecoveredIs

LEMMA BackupKeeps ==
  ASSUME NEW d, Directory(d), NEW e, Directory(e), NEW x \in Values, NEW P, NEW Q,
         Follows(e, d, "bak", x), Lasting(d, P), P \subseteq Q, x # Torn,
         \A f \in d.disk : f["rms"] = Absent => IF x = Absent THEN f["tmp"] \in Q ELSE x \in Q
  PROVE  Lasting(e, Q)
<1> SUFFICES ASSUME NEW f \in e.disk
    PROVE  f["rms"] # Torn /\ f["bak"] # Torn /\ Recovered(f) \in Q
  BY DEF Lasting, Directory
<1>1. "tmp" \in Roles /\ "rms" \in Roles /\ "bak" \in Roles
  BY DEF Roles
<1>2. PICK g \in d.disk : f["bak"] \in {g["bak"], x} /\ f["rms"] = g["rms"] /\ f["tmp"] = g["tmp"]
  BY <1>1, FollowsIs
<1>3. g \in Files /\ g["rms"] # Torn /\ g["bak"] # Torn /\ Recovered(g) \in P /\ f \in Files
  BY DEF Lasting, Directory
<1> QED BY <1>2, <1>3, RecoveredIs

LEMMA CanonicalKeeps ==
  ASSUME NEW d, Directory(d), NEW e, Directory(e), NEW x \in Values, NEW P, NEW Q,
         Follows(e, d, "rms", x), Lasting(d, P), P \subseteq Q, x # Torn,
         IF x = Absent THEN Left(d, Q) ELSE x \in Q
  PROVE  Lasting(e, Q)
<1> SUFFICES ASSUME NEW f \in e.disk
    PROVE  f["rms"] # Torn /\ f["bak"] # Torn /\ Recovered(f) \in Q
  BY DEF Lasting, Directory
<1>1. "tmp" \in Roles /\ "rms" \in Roles /\ "bak" \in Roles
  BY DEF Roles
<1>2. PICK g \in d.disk : f["rms"] \in {g["rms"], x} /\ f["bak"] = g["bak"] /\ f["tmp"] = g["tmp"]
  BY <1>1, FollowsIs
<1>3. g \in Files /\ g["rms"] # Torn /\ g["bak"] # Torn /\ Recovered(g) \in P /\ f \in Files
  BY DEF Lasting, Directory
<1> QED BY <1>2, <1>3, RecoveredIs DEF Left

\* What may be found of the temporary and of the backup.
LEMMA LeftKeeps ==
  ASSUME NEW d, Directory(d), NEW e, NEW n \in Roles, NEW x \in Values, NEW P, NEW Q,
         Follows(e, d, n, x), Left(d, P), P \subseteq Q, n # "rms" => x \in Q
  PROVE  Left(e, Q)
<1> SUFFICES ASSUME NEW f \in e.disk  PROVE f["tmp"] \in Q /\ f["bak"] \in Q
  BY DEF Left
<1>1. "tmp" \in Roles /\ "rms" \in Roles /\ "bak" \in Roles
  BY DEF Roles
<1>2. \E g \in d.disk : f[n] \in {g[n], x} /\ \A r \in Roles : r # n => f[r] = g[r]
  <2>1. /\ e.now[n] = x /\ \A r \in Roles : r # n => e.now[r] = d.now[r]
        /\ \A h \in e.disk :
              /\ h \in Files
              /\ \E g \in d.disk : /\ h[n] \in {g[n], x}
                                   /\ \A r \in Roles : r # n => h[r] = g[r]
    BY FollowsIs
  <2> QED BY <2>1
<1>3. PICK g \in d.disk : f[n] \in {g[n], x} /\ \A r \in Roles : r # n => f[r] = g[r]
  BY <1>2
<1>4. g["tmp"] \in Q /\ g["bak"] \in Q
  BY DEF Left
<1>5. n = "rms" => f["tmp"] \in Q /\ f["bak"] \in Q
  BY <1>1, <1>3, <1>4
<1>6. n # "rms" => f["tmp"] \in Q /\ f["bak"] \in Q
  <2>1. ASSUME n # "rms", NEW r \in {"tmp", "bak"}  PROVE f[r] \in Q
    <3>1. CASE r = n
      BY <1>3, <1>4, <2>1, <3>1
    <3>2. CASE r # n
      BY <1>1, <1>3, <1>4, <2>1, <3>2
    <3> QED BY <3>1, <3>2
  <2> QED BY <2>1
<1> QED BY <1>5, <1>6

\* A file becomes the canonical one, or it may have.
Moved(e, d, n, x) ==
  /\ e.now \in e.disk /\ e.now["rms"] = x /\ e.now[n] = Absent
  /\ \A r \in Roles \ {"rms", n} : e.now[r] = d.now[r]
  /\ \A f \in e.disk : \E g \in d.disk :
       /\ f = g \/ (f["rms"] = x /\ f[n] = Absent)
       /\ \A r \in Roles \ {"rms", n} : f[r] = g[r]

LEMMA RenameMoves ==
  ASSUME NEW d, Directory(d), NEW n \in {"tmp", "bak"}
  PROVE  /\ Directory(Rename(d, n, "rms"))
         /\ Moved(Rename(d, n, "rms"), d, n, d.now[n])
<1>1. d.now \in Files /\ d.disk \subseteq Files /\ d.now \in d.disk /\ d.now[n] \in Values
      /\ Absent \in Values
  BY DEF Directory, Files, Roles, Values
<1> DEFINE M(f) == Set(Set(f, "rms", d.now[n]), n, Absent)
<1>2. ASSUME NEW f \in Files
      PROVE  /\ M(f) \in Files /\ M(f)["rms"] = d.now[n] /\ M(f)[n] = Absent
             /\ \A r \in Roles \ {"rms", n} : M(f)[r] = f[r]
  BY <1>1, <1>2 DEF Set, Files, Roles, Values
<1>e. PICK e : e = Rename(d, n, "rms")
  OBVIOUS
<1>3. e = [now |-> M(d.now), disk |-> d.disk \cup {M(f) : f \in d.disk}]
  BY <1>e DEF Rename, Set
<1> HIDE DEF M
<1>4. e.now = M(d.now) /\ e.disk = d.disk \cup {M(f) : f \in d.disk}
  BY <1>3
<1>5. e.now \in Files /\ e.disk \in SUBSET Files /\ e.now \in e.disk
  BY <1>1, <1>2, <1>4
<1>6. Directory(e)
  BY <1>3, <1>4, <1>5 DEF Directory
<1>7. \A f \in e.disk : f \in d.disk \/ \E g \in d.disk : f = M(g)
  BY <1>4
<1>8. Moved(e, d, n, d.now[n])
  BY <1>1, <1>2, <1>4, <1>5, <1>7 DEF Moved
<1> QED BY <1>e, <1>6, <1>8

LEMMA MoveKeeps ==
  ASSUME NEW d, Directory(d), NEW e, Directory(e), NEW n \in {"tmp", "bak"}, NEW x \in Nat,
         NEW P, NEW Q, Moved(e, d, n, x), Lasting(d, P), P \subseteq Q, x \in Q
  PROVE  Lasting(e, Q)
<1> SUFFICES ASSUME NEW f \in e.disk
    PROVE  f["rms"] # Torn /\ f["bak"] # Torn /\ Recovered(f) \in Q
  BY DEF Lasting, Directory
<1>1. PICK g \in d.disk : /\ f = g \/ (f["rms"] = x /\ f[n] = Absent)
                          /\ \A r \in Roles \ {"rms", n} : f[r] = g[r]
  BY DEF Moved
<1>2. g \in Files /\ g["rms"] # Torn /\ g["bak"] # Torn /\ Recovered(g) \in P /\ f \in Files
  BY DEF Lasting, Directory
<1>3. x # Torn /\ x # Absent /\ Absent # Torn
  BY FilesAssumption
<1>4. CASE f = g
  BY <1>2, <1>4
<1>5. CASE f["rms"] = x /\ f[n] = Absent
  <2>1. f["bak"] \in {Absent, g["bak"]}
    BY <1>1, <1>5 DEF Roles
  <2>2. Recovered(f) = x
    BY <1>2, <1>3, <1>5, <2>1, RecoveredIs
  <2> QED BY <1>2, <1>3, <1>5, <2>1, <2>2
<1> QED BY <1>1, <1>4, <1>5

\* A directory that is synchronized, and one that was restarted.
LEMMA SyncedKeeps ==
  ASSUME NEW d, Directory(d), NEW P, NEW Q, Lasting(d, P), Recovered(d.now) \in Q
  PROVE  Directory(Synced(d)) /\ Lasting(Synced(d), Q) /\ Synced(d).now = d.now
         /\ Synced(d).disk = {d.now}
<1>1. Synced(d).now = d.now /\ Synced(d).disk = {d.now} /\ Synced(d) = [now |-> d.now, disk |-> {d.now}]
  BY DEF Synced, Settled
<1>2. Directory(Synced(d))
  BY <1>1 DEF Directory
<1>3. Lasting(Synced(d), Q)
  BY <1>1 DEF Lasting
<1> QED BY <1>1, <1>2, <1>3
\* The directory is synchronized, or its entries are changed for one store.
DirType == [Stores -> [now : Files, disk : SUBSET Files]]
PromiseType == [Stores -> SUBSET Values]

LEMMA Directories ==
  ASSUME TypeOK, StoreInv, NEW s \in Stores
  PROVE  /\ Directory(dir[s]) /\ Lasting(dir[s], promised[s]) /\ promised[s] \subseteq Values
         /\ dir[s].now \in Files /\ Recovered(dir[s].now) \in promised[s]
BY DEF TypeOK, StoreInv, Lasting, Directory, Values

LEMMA SetFilesIs ==
  ASSUME TypeOK, S \in Stores, NEW d, Directory(d), SetFiles(S, d)
  PROVE  dir' \in DirType /\ dir'[S] = d /\ \A s \in Stores \ {S} : dir'[s] = dir[s]
BY DEF TypeOK, Directory, SetFiles, DirType

LEMMA SyncAllIs ==
  ASSUME TypeOK, StoreInv, SyncAll
  PROVE  /\ dir' \in DirType
         /\ \A s \in Stores : dir'[s] = Synced(dir[s]) /\ dir'[s].now = dir[s].now
<1>1. ASSUME NEW s \in Stores
      PROVE  /\ Synced(dir[s]) \in [now : Files, disk : SUBSET Files]
             /\ Synced(dir[s]).now = dir[s].now
  <2>1. Directory(Synced(dir[s])) /\ Synced(dir[s]).now = dir[s].now
    BY Directories, SyncedKeeps
  <2> QED BY <2>1 DEF Directory
<1>2. \A s \in Stores : dir'[s] = Synced(dir[s])
  BY DEF SyncAll
<1>3. dir' \in DirType
  BY <1>1, <1>2 DEF SyncAll, DirType
<1> QED BY <1>1, <1>2, <1>3

LEMMA PromiseIs ==
  ASSUME TypeOK, S \in Stores, NEW Q, Q \subseteq Values, promised' = [promised EXCEPT ![S] = Q]
  PROVE  /\ promised' \in PromiseType /\ promised'[S] = Q
         /\ \A s \in Stores \ {S} : promised'[s] = promised[s]
BY DEF TypeOK, PromiseType, Values

(***************************************************************************)
(* A step of a call on S: d becomes its directory and Q its promise.       *)
(***************************************************************************)
OneStore(d, Q) ==
  /\ dir' \in DirType /\ promised' \in PromiseType
  /\ dir'[S] = d /\ promised'[S] = Q
  /\ \A s \in Stores \ {S} :
       dir'[s] \in {dir[s], Synced(dir[s])} /\ promised'[s] = promised[s]

SameMemory(s) == loaded'[s] = loaded[s] /\ opens'[s] = opens[s] /\ pending'[s] = pending[s]
MemoryType ==
  /\ loaded \in [Stores -> Nat \cup {Absent}] /\ opens \in [Stores -> Nat]
  /\ pending \in [Stores -> BOOLEAN] /\ anyPending \in BOOLEAN
HistoryType ==
  /\ writeThrough \in BOOLEAN /\ fresh \in [Stores -> Nat]
  /\ faults \in Nat /\ crashes \in Nat

LEMMA TypeParts ==
  TypeOK <=> /\ dir \in DirType /\ promised \in PromiseType /\ MemoryType /\ HistoryType
             /\ S \in Stores \cup {NoStore} /\ op.rest \subseteq Stores
BY DEF TypeOK, DirType, PromiseType, MemoryType, HistoryType, Values

LEMMA HistoryKept ==
  ASSUME TypeOK, (UNCHANGED history \/ Fault)
  PROVE  HistoryType'
BY BoundsAssumption DEF TypeOK, history, Fault, HistoryType

LEMMA FileSet ==
  ASSUME TypeOK, S \in Stores, NEW d, Directory(d), SetFiles(S, d), NEW Q, Q \subseteq Values,
         promised' = [promised EXCEPT ![S] = Q]
  PROVE  OneStore(d, Q)
BY SetFilesIs, PromiseIs DEF OneStore

LEMMA FileSetOnly ==
  ASSUME TypeOK, S \in Stores, NEW d, Directory(d), SetFiles(S, d), UNCHANGED promised
  PROVE  OneStore(d, Promise)
<1>1. promised \in PromiseType
  BY DEF TypeOK, PromiseType, Values
<1> QED BY <1>1, SetFilesIs DEF OneStore, Promise

LEMMA Synchronized ==
  ASSUME TypeOK, StoreInv, S \in Stores, SyncAll, NEW Q, Q \subseteq Values,
         promised' = [promised EXCEPT ![S] = Q]
  PROVE  OneStore(Synced(D), Q)
BY SyncAllIs, PromiseIs DEF OneStore, D

LEMMA SynchronizedOnly ==
  ASSUME TypeOK, StoreInv, S \in Stores, SyncAll, UNCHANGED promised
  PROVE  OneStore(Synced(D), Promise)
<1>1. promised \in PromiseType
  BY DEF TypeOK, PromiseType, Values
<1> QED BY <1>1, SyncAllIs DEF OneStore, D, Promise

LEMMA NothingWritten ==
  ASSUME TypeOK, S \in Stores, UNCHANGED <<dir, promised>>
  PROVE  OneStore(D, Promise)
BY DEF TypeOK, OneStore, DirType, PromiseType, Values, D, Promise

\* The other stores are as they were.
LEMMA OtherStore ==
  ASSUME TypeOK, StoreInv, NEW s \in Stores, s # S, SameMemory(s),
         dir'[s] \in {dir[s], Synced(dir[s])}, promised'[s] = promised[s]
  PROVE  /\ Lasting(dir'[s], promised'[s]) /\ Rests(s)'
         /\ opens'[s] > 0 \/ pending'[s] => loaded'[s] # Absent
<1>1. Directory(dir[s]) /\ Lasting(dir[s], promised[s]) /\ Recovered(dir[s].now) \in promised[s]
  BY Directories
<1>s. Lasting(Synced(dir[s]), promised[s]) /\ Synced(dir[s]).now = dir[s].now
  BY <1>1, SyncedKeeps
<1>2. Lasting(dir'[s], promised'[s]) /\ dir'[s].now = dir[s].now
  <2>1. CASE dir'[s] = dir[s]
    BY <1>1, <2>1
  <2>2. CASE dir'[s] = Synced(dir[s])
    BY <1>s, <2>2
  <2> QED BY <2>1, <2>2
<1>3. Rests(s) /\ (opens[s] > 0 \/ pending[s] => loaded[s] # Absent)
  BY DEF StoreInv
<1> QED BY <1>2, <1>3 DEF SameMemory, Rests

-----------------------------------------------------------------------------
(***************************************************************************)
(* What a step must show.  The parts of the invariant about the call are   *)
(* about the place it has come to; a call that goes on is the same call.   *)
(***************************************************************************)
SameCall ==
  /\ op'.call = op.call /\ op'.store = op.store /\ op'.rest = op.rest /\ op'.into = op.into
SameWork ==
  SameCall /\ op'.gen = op.gen /\ op'.old = op.old /\ op'.before = op.before
SameRest == op'.backup = op.backup /\ op'.ok = op.ok /\ op'.moved = op.moved

LEMMA GotoIs ==
  ASSUME OpTypeOK, NEW p \in AllPlaces, Goto(p)
  PROVE  OpTypeOK' /\ op'.at = p /\ SameWork /\ SameRest
BY DEF OpTypeOK, Goto, SameWork, SameCall, SameRest

LEMMA FailedIs ==
  ASSUME OpTypeOK, NEW p \in AllPlaces, op' = [op EXCEPT !.at = p, !.ok = FALSE]
  PROVE  OpTypeOK' /\ op'.at = p /\ SameWork /\ op'.ok = FALSE /\ op'.backup = op.backup
         /\ op'.moved = op.moved
BY DEF OpTypeOK, SameWork, SameCall

LEMMA IdleIs ==
  /\ Idle.at = "idle" /\ Idle.store = NoStore /\ Idle.call = "none" /\ Idle.rest = {}
  /\ Idle.ok = TRUE
  /\ Idle \in [call : Names, at : AllPlaces, store : Stores \cup {NoStore}, gen : Values,
               old : Values, backup : BOOLEAN, ok : BOOLEAN, rest : SUBSET Stores,
               into : Stores \cup {NoStore}, moved : Files, before : SUBSET Values]
BY NoFilesAre DEF Idle, Names, AllPlaces, Values

LEMMA AtWriting ==
  ASSUME op'.at \in Writing
  PROVE  RecoverInv' /\ DeleteInv'
BY DEF Writing, Replacing, Replaced, RecoverInv, DeleteInv, Recovering, Staged, At

LEMMA AtRecovering ==
  ASSUME op'.at \in Recovering
  PROVE  WriteInv' /\ DeleteInv'
BY DEF Writing, Replacing, Replaced, WriteInv, DeleteInv, Recovering, Staged, At

LEMMA AtStaging ==
  ASSUME op'.at \in {"stage"} \cup Staged
  PROVE  RecoverInv' /\ WriteInv'
BY DEF Writing, Replacing, Replaced, WriteInv, RecoverInv, Recovering, Staged, At

LEMMA Between ==
  ASSUME op'.at \in {"idle", "next"}
  PROVE  RecoverInv' /\ WriteInv' /\ DeleteInv'
BY DEF Writing, Replacing, Replaced, WriteInv, RecoverInv, DeleteInv, Recovering,
       Staged, At

\* A call that goes on with the same store, and leaves the memory alone.
LEMMA CallGoesOn ==
  ASSUME TypeOK, StoreInv, CallInv, S \in Stores, OpTypeOK', SameCall,
         op'.at \notin {"idle", "next"}, UNCHANGED memory, HistoryType',
         NEW d, NEW Q, OneStore(d, Q), Lasting(d, Q)
  PROVE  TypeOK' /\ StoreInv' /\ CallInv' /\ S' = S /\ D' = d /\ Promise' = Q
<1>1. S' = S /\ S' \in Stores /\ op'.rest \subseteq Stores
  BY DEF SameCall, S, TypeOK
<1>2. D' = d /\ Promise' = Q
  BY <1>1 DEF D, Promise, OneStore, S
<1>3. MemoryType'
  BY DEF TypeOK, MemoryType, memory
<1>4. TypeOK'
  <2>1. (TypeOK <=> /\ dir \in DirType /\ promised \in PromiseType /\ MemoryType /\ HistoryType
                    /\ S \in Stores \cup {NoStore} /\ op.rest \subseteq Stores)'
    BY TypeParts, PTL
  <2>2. dir' \in DirType /\ promised' \in PromiseType
    BY DEF OneStore
  <2> QED BY <1>1, <1>3, <2>1, <2>2
<1>5. \A s \in Stores : SameMemory(s)
  BY DEF memory, SameMemory
<1>6. ASSUME NEW s \in Stores
      PROVE  /\ Lasting(dir'[s], promised'[s])
             /\ opens'[s] > 0 \/ pending'[s] => loaded'[s] # Absent
             /\ S' # s => Rests(s)'
  <2>1. CASE s = S
    BY <1>1, <1>5, <2>1 DEF StoreInv, OneStore, SameMemory
  <2>2. CASE s # S
    BY <1>5, <2>2, OtherStore DEF OneStore
  <2> QED BY <2>1, <2>2
<1>7. StoreInv'
  BY <1>6 DEF StoreInv
<1>8. CallInv'
  BY <1>1 DEF CallInv, SameCall, At, S, memory
<1> QED BY <1>1, <1>2, <1>4, <1>7, <1>8

\* A call that ends.
LEMMA CallEnds ==
  ASSUME op' = Idle, dir' \in DirType, promised' \in PromiseType, MemoryType', HistoryType',
         \A s \in Stores : /\ Lasting(dir'[s], promised'[s]) /\ Rests(s)'
                           /\ opens'[s] > 0 \/ pending'[s] => loaded'[s] # Absent
  PROVE  RecordInv'
<1>1. S' = NoStore /\ op'.rest = {} /\ op'.at = "idle" /\ op'.call = "none" /\ OpTypeOK'
  BY IdleIs DEF S, OpTypeOK
<1>2. TypeOK'
  <2>1. (TypeOK <=> /\ dir \in DirType /\ promised \in PromiseType /\ MemoryType /\ HistoryType
                    /\ S \in Stores \cup {NoStore} /\ op.rest \subseteq Stores)'
    BY TypeParts, PTL
  <2> QED BY <1>1, <2>1
<1>3. StoreInv'
  BY DEF StoreInv
<1>4. CallInv'
  BY <1>1 DEF CallInv, At, Flushes
<1>5. RecoverInv' /\ WriteInv' /\ DeleteInv'
  BY <1>1, Between
<1> QED BY <1>1, <1>2, <1>3, <1>4, <1>5 DEF RecordInv

\* It may end where it is, when its store is at rest.
LEMMA EndsAtOnce ==
  ASSUME TypeOK, StoreInv, op' = Idle, UNCHANGED <<dir, memory, promised>>, HistoryType',
         S \in Stores => Rests(S)
  PROVE  RecordInv'
<1>1. dir' \in DirType /\ promised' \in PromiseType /\ MemoryType'
  BY TypeParts DEF memory, MemoryType
<1>2. \A s \in Stores : /\ Lasting(dir'[s], promised'[s]) /\ Rests(s)'
                        /\ opens'[s] > 0 \/ pending'[s] => loaded'[s] # Absent
  BY DEF StoreInv, Rests, memory
<1> QED BY <1>1, <1>2, CallEnds

\* It may end with other files, when its memory is right about them.
LEMMA EndsSo ==
  ASSUME TypeOK, StoreInv, S \in Stores, op' = Idle, HistoryType', MemoryType',
         NEW d, NEW Q, OneStore(d, Q), Lasting(d, Q),
         \A s \in Stores \ {S} : SameMemory(s),
         opens'[S] > 0 \/ pending'[S] => loaded'[S] # Absent,
         loaded'[S] # Absent => InPlace(d.now) /\ (~pending'[S] => loaded'[S] \in Q)
  PROVE  RecordInv'
<1>1. dir' \in DirType /\ promised' \in PromiseType
  BY DEF OneStore
<1>2. ASSUME NEW s \in Stores
      PROVE  /\ Lasting(dir'[s], promised'[s]) /\ Rests(s)'
             /\ opens'[s] > 0 \/ pending'[s] => loaded'[s] # Absent
  <2>1. CASE s = S
    BY <2>1 DEF OneStore, Rests
  <2>2. CASE s # S
    BY <2>2, OtherStore DEF OneStore
  <2> QED BY <2>1, <2>2
<1> QED BY <1>1, <1>2, CallEnds

LEMMA SomeFile ==
  ASSUME NEW f \in Files, f["rms"] # Torn, f["bak"] # Torn, Selected(f) # "none"
  PROVE  /\ Recovered(f) \in Nat /\ Recovered(f) = f[Selected(f)]
         /\ Selected(f) \in {"rms", "bak", "tmp"}
BY FilesAssumption DEF Selected, Recovered, Whole, Files, Roles

-----------------------------------------------------------------------------
(***************************************************************************)
(* Recovery.                                                               *)
(***************************************************************************)
LEMMA FindNothingKeeps ==
  ASSUME RecordInv, FindNothing
  PROVE  RecordInv'
<1> USE DEF RecordInv
<1>1. At("recover") /\ UNCHANGED <<dir, memory, promised, writeThrough, faults, crashes>>
  BY DEF FindNothing
<1>2. /\ S \in Stores /\ op.call \in {"open", "create", "delete", "list", "add"}
      /\ Rests(S) /\ op.ok /\ (op.call \in {"open", "create", "delete"} => loaded[S] = Absent)
  BY <1>1 DEF RecoverInv, Recovering, At
<1>3. CASE op.call = "create" /\ D.now = NoFiles
  <2>1. fresh' = [fresh EXCEPT ![S] = @ + 1]
        /\ op' = [op EXCEPT !.at = "write", !.gen = fresh[S] + 1]
    BY <1>3 DEF FindNothing
  <2>2. fresh[S] + 1 \in Nat /\ fresh' \in [Stores -> Nat] /\ fresh[S] + 1 \in Values
    BY <1>2, <2>1 DEF TypeOK, Values
  <2>3. /\ OpTypeOK' /\ op'.at = "write" /\ op'.gen \in Nat /\ SameCall /\ SameRest
        /\ op'.call = "create"
    BY <1>3, <2>1, <2>2 DEF OpTypeOK, SameCall, SameRest, AllPlaces, Writing
  <2>4. HistoryType'
    BY <1>1, <2>2 DEF TypeOK, HistoryType
  <2>5. OneStore(D, Promise) /\ Lasting(D, Promise)
    BY <1>1, <1>2, NothingWritten, Directories DEF D, Promise
  <2>6. TypeOK' /\ StoreInv' /\ CallInv' /\ S' = S /\ D' = D /\ Promise' = Promise
    <3>1. op'.at \notin {"idle", "next"} /\ UNCHANGED memory
      BY <1>1, <2>3
    <3> QED BY <1>2, <2>3, <2>4, <2>5, <3>1, CallGoesOn
  <2>7. WriteInv'
    BY <1>1, <1>2, <1>3, <2>3, <2>6
       DEF WriteInv, Writing, Written, Replacing, Replaced, At, InPlace, Old, SameRest, Flushes, memory
  <2>9. RecoverInv' /\ DeleteInv'
    BY <2>3, AtWriting DEF Writing
  <2> QED BY <2>3, <2>6, <2>7, <2>9
<1>4. CASE ~(op.call = "create" /\ D.now = NoFiles)
  <2>1. op' = Idle /\ UNCHANGED fresh
    BY <1>4 DEF FindNothing
  <2>2. HistoryType'
    BY <1>1, <2>1 DEF TypeOK, HistoryType
  <2> QED BY <1>1, <1>2, <2>1, <2>2, EndsAtOnce
<1> QED BY <1>3, <1>4

LEMMA Recovers ==
  ASSUME RecordInv, op.at \in Recovering
  PROVE  /\ S \in Stores /\ op.call \in {"open", "create", "delete", "list", "add"}
         /\ Rests(S) /\ op.ok /\ (op.call \in {"open", "create", "delete"} => loaded[S] = Absent)
         /\ ~At("recover") => op.gen = D.now["rms"] /\ op.gen \in Nat
         /\ Directory(D) /\ Lasting(D, Promise) /\ D.now \in Files /\ D.now \in D.disk
         /\ Promise \subseteq Values
         /\ D.now["rms"] # Torn /\ D.now["bak"] # Torn /\ Recovered(D.now) \in Promise
<1>1. /\ S \in Stores /\ op.call \in {"open", "create", "delete", "list", "add"}
      /\ Rests(S) /\ op.ok /\ (op.call \in {"open", "create", "delete"} => loaded[S] = Absent)
      /\ ~At("recover") => op.gen = D.now["rms"] /\ op.gen \in Nat
  BY DEF RecordInv, RecoverInv
<1>2. Directory(D) /\ Lasting(D, Promise) /\ Promise \subseteq Values
  BY <1>1, Directories DEF RecordInv, D, Promise
<1> QED BY <1>1, <1>2 DEF Lasting

\* The canonical file is in place, and the promise includes what it was.
LEMMA RecoveryGoesOn ==
  ASSUME RecordInv, op.at \in Recovering, UNCHANGED memory, UNCHANGED history, OpTypeOK', SameCall,
         op'.ok = op.ok, op'.at \in Recovering \ {"recover"}, NEW d, NEW Q, OneStore(d, Q),
         Lasting(d, Q), Promise \subseteq Q, d.now["rms"] = op'.gen, op'.gen \in Nat
  PROVE  RecordInv'
<1>1. /\ S \in Stores /\ op.call \in {"open", "create", "delete", "list", "add"}
      /\ Rests(S) /\ op.ok /\ (op.call \in {"open", "create", "delete"} => loaded[S] = Absent)
  BY Recovers
<1>2. HistoryType'
  BY HistoryKept DEF RecordInv
<1>3. TypeOK' /\ StoreInv' /\ CallInv' /\ S' = S /\ D' = d /\ Promise' = Q
  <2>1. op'.at \notin {"idle", "next"}
    BY DEF Recovering
  <2> QED BY <1>1, <1>2, <2>1, CallGoesOn DEF RecordInv
<1>4. Rests(S)'
  <2>1. InPlace(d.now)
    BY FilesAssumption DEF InPlace
  <2>2. dir'[S'] = d /\ promised'[S'] = Q /\ loaded'[S'] = loaded[S] /\ pending'[S'] = pending[S]
    BY <1>3 DEF OneStore, memory
  <2>3. loaded[S] # Absent /\ ~pending[S] => loaded[S] \in Q
    BY <1>1 DEF Rests, Promise
  <2> QED BY <2>1, <2>2, <2>3 DEF Rests
<1>5. RecoverInv'
  BY <1>1, <1>3, <1>4 DEF RecoverInv, SameCall, At, memory
<1>6. WriteInv' /\ DeleteInv'
  BY AtRecovering
<1> QED BY <1>3, <1>5, <1>6 DEF RecordInv

LEMMA FindGenerationKeeps ==
  ASSUME RecordInv, FindGeneration
  PROVE  RecordInv'
<1>1. At("recover") /\ UNCHANGED memory /\ UNCHANGED promised /\ UNCHANGED history
      /\ Selected(D.now) # "none" /\ op.at \in Recovering
  BY DEF FindGeneration, Recovering, At
<1>2. /\ S \in Stores /\ Directory(D) /\ Lasting(D, Promise) /\ D.now \in Files
      /\ D.now \in D.disk /\ D.now["rms"] # Torn /\ D.now["bak"] # Torn
      /\ Recovered(D.now) \in Promise
  BY <1>1, Recovers
<1>3. /\ Recovered(D.now) \in Nat /\ Recovered(D.now) = D.now[Selected(D.now)]
      /\ Selected(D.now) \in {"rms", "bak", "tmp"}
  BY <1>1, <1>2, SomeFile
<1>4. OpTypeOK /\ TypeOK /\ Recovered(D.now) \in Values
  BY <1>3 DEF RecordInv, Values
<1>5. CASE Selected(D.now) = "rms"
  <2>1. op' = [op EXCEPT !.gen = Recovered(D.now), !.at = "clean"] /\ UNCHANGED dir
    BY <1>5 DEF FindGeneration, Found
  <2>2. /\ OpTypeOK' /\ op'.at = "clean" /\ op'.gen = Recovered(D.now) /\ SameCall
        /\ op'.ok = op.ok
    BY <1>4, <2>1 DEF OpTypeOK, SameCall, AllPlaces, Recovering
  <2>3. OneStore(D, Promise)
    BY <1>1, <1>2, <1>4, <2>1, NothingWritten
  <2>4. op'.at \in Recovering \ {"recover"}
    BY <2>2 DEF Recovering
  <2>5. D.now["rms"] = op'.gen /\ op'.gen \in Nat
    BY <1>3, <1>5, <2>2
  <2> QED BY <1>1, <1>2, <2>2, <2>3, <2>4, <2>5, RecoveryGoesOn
<1>6. CASE Selected(D.now) # "rms"
  <2>n. PICK n : n = Selected(D.now)
    OBVIOUS
  <2>1. n \in {"tmp", "bak"} /\ D.now[n] = Recovered(D.now)
    BY <1>3, <1>6, <2>n
  <2>2. op' = [op EXCEPT !.gen = Recovered(D.now), !.at = "recover_sync"]
        /\ SetFiles(S, Rename(D, n, "rms"))
    BY <1>6, <2>n DEF FindGeneration, Found
  <2>3. /\ OpTypeOK' /\ op'.at = "recover_sync" /\ op'.gen = Recovered(D.now) /\ SameCall
        /\ op'.ok = op.ok
    BY <1>4, <2>2 DEF OpTypeOK, SameCall, AllPlaces, Recovering
  <2>e. PICK e : e = Rename(D, n, "rms")
    OBVIOUS
  <2>4. Directory(e) /\ Moved(e, D, n, D.now[n])
    BY <1>2, <2>1, <2>e, RenameMoves
  <2>5. OneStore(e, Promise)
    BY <1>1, <1>2, <1>4, <2>2, <2>4, <2>e, FileSetOnly
  <2>6. Lasting(e, Promise)
    BY <1>2, <1>3, <2>1, <2>4, MoveKeeps
  <2>7. op'.at \in Recovering \ {"recover"}
    BY <2>3 DEF Recovering
  <2>8. e.now["rms"] = op'.gen /\ op'.gen \in Nat
    BY <1>3, <2>1, <2>3, <2>4 DEF Moved
  <2> QED BY <1>1, <2>3, <2>5, <2>6, <2>7, <2>8, RecoveryGoesOn
<1> QED BY <1>5, <1>6

\* The synchronization of the directory, after a rename or a clean-up.
LEMMA RecoverySyncKeeps ==
  ASSUME RecordInv, op.at \in {"recover_sync", "clean_sync"}, NEW p \in {"clean", "recovered"},
         Goto(p), SyncAll, UNCHANGED memory, UNCHANGED promised, UNCHANGED history
  PROVE  RecordInv'
<1>1. op.at \in Recovering /\ ~At("recover") /\ p \in AllPlaces /\ p \in Recovering \ {"recover"}
  BY DEF Recovering, At, AllPlaces
<1>2. /\ S \in Stores /\ Directory(D) /\ Lasting(D, Promise) /\ Recovered(D.now) \in Promise
      /\ op.gen = D.now["rms"] /\ op.gen \in Nat
  BY <1>1, Recovers
<1>3. OpTypeOK' /\ op'.at = p /\ SameWork /\ SameRest
  BY <1>1, GotoIs DEF RecordInv
<1>4. OneStore(Synced(D), Promise)
  BY <1>2, SynchronizedOnly DEF RecordInv
<1>5. Lasting(Synced(D), Promise) /\ Synced(D).now = D.now
  BY <1>2, SyncedKeeps
<1> QED BY <1>1, <1>2, <1>3, <1>4, <1>5, RecoveryGoesOn DEF SameWork, SameRest

LEMMA RecoverSyncKeeps ==
  ASSUME RecordInv, RecoverSync
  PROVE  RecordInv'
BY RecoverySyncKeeps DEF RecoverSync, At

LEMMA CleanSyncKeeps ==
  ASSUME RecordInv, CleanSync
  PROVE  RecordInv'
BY RecoverySyncKeeps DEF CleanSync, At

LEMMA RecoverFailsKeeps ==
  ASSUME RecordInv, RecoverFails
  PROVE  RecordInv'
<1>1. op.at \in Recovering /\ Fault /\ op' = Idle /\ UNCHANGED <<dir, memory, promised>>
  BY DEF RecoverFails, Fails, Recovering
<1>2. S \in Stores /\ Rests(S)
  BY <1>1, Recovers
<1>3. HistoryType'
  BY <1>1, HistoryKept DEF RecordInv
<1> QED BY <1>1, <1>2, <1>3, EndsAtOnce DEF RecordInv

\* The entry n has become x: what becomes of the files, now and on the disk.
Becomes(e, d, n, x) ==
  /\ e.now[n] = x /\ \A r \in Roles : r # n => e.now[r] = d.now[r]
  /\ \A f \in e.disk : \E g \in d.disk : /\ f[n] \in {g[n], x}
                                         /\ \A r \in Roles : r # n => f[r] = g[r]

LEMMA Unlinked ==
  ASSUME NEW d, Directory(d), NEW n \in Roles, NEW e, e = Unlink(d, n)
  PROVE  Directory(e) /\ Follows(e, d, n, Absent) /\ Becomes(e, d, n, Absent)
<1>1. Directory(e) /\ Follows(e, d, n, Absent)
  BY UnlinkFollows
<1>2. Absent \in Values
  BY DEF Values
<1>3. /\ e.now[n] = Absent /\ \A r \in Roles : r # n => e.now[r] = d.now[r]
      /\ \A f \in e.disk :
           /\ f \in Files
           /\ \E g \in d.disk : /\ f[n] \in {g[n], Absent}
                                /\ \A r \in Roles : r # n => f[r] = g[r]
  BY <1>1, <1>2, FollowsIs
<1> QED BY <1>1, <1>3 DEF Becomes

LEMMA HasPut ==
  ASSUME NEW d, Directory(d), NEW n \in Roles, NEW x \in Values, NEW e, e = Put(d, n, x)
  PROVE  Directory(e) /\ Follows(e, d, n, x) /\ Becomes(e, d, n, x)
<1>1. Directory(e) /\ Follows(e, d, n, x)
  BY PutFollows
<1>2. /\ e.now[n] = x /\ \A r \in Roles : r # n => e.now[r] = d.now[r]
      /\ \A f \in e.disk :
           /\ f \in Files
           /\ \E g \in d.disk : /\ f[n] \in {g[n], x}
                                /\ \A r \in Roles : r # n => f[r] = g[r]
  BY <1>1, FollowsIs
<1> QED BY <1>1, <1>2 DEF Becomes

LEMMA BothUnlinked ==
  ASSUME NEW d, Directory(d), NEW P, NEW Q, Lasting(d, P), P \subseteq Q,
         \A f \in d.disk : f["rms"] = Absent => Absent \in Q /\ f["tmp"] \in Q,
         NEW e, e = Unlink(Unlink(d, "tmp"), "bak")
  PROVE  /\ Directory(e) /\ Lasting(e, Q) /\ e.now["rms"] = d.now["rms"]
         /\ e.now["tmp"] = Absent /\ e.now["bak"] = Absent
<1>1. "tmp" \in Roles /\ "rms" \in Roles /\ "bak" \in Roles /\ Absent \in Values
      /\ Absent # Torn
  BY FilesAssumption DEF Roles, Values
<1>m. PICK m : m = Unlink(d, "tmp")
  OBVIOUS
<1>2. Directory(m) /\ Follows(m, d, "tmp", Absent) /\ Becomes(m, d, "tmp", Absent)
  BY <1>1, <1>m, Unlinked
<1>3. Lasting(m, Q)
  BY <1>1, <1>2, TemporaryKeeps
<1>4. e = Unlink(m, "bak")
  BY <1>m
<1>5. Directory(e) /\ Follows(e, m, "bak", Absent) /\ Becomes(e, m, "bak", Absent)
  BY <1>1, <1>2, <1>4, Unlinked
<1>6. \A f \in m.disk : f["rms"] = Absent => f["tmp"] \in Q
  BY <1>1, <1>2 DEF Becomes
<1>7. Lasting(e, Q)
  BY <1>1, <1>2, <1>3, <1>5, <1>6, BackupKeeps
<1> QED BY <1>1, <1>2, <1>5, <1>7 DEF Becomes

LEMMA CleanUpKeeps ==
  ASSUME RecordInv, CleanUp
  PROVE  RecordInv'
<1>1. At("clean") /\ op.at \in Recovering /\ UNCHANGED memory /\ UNCHANGED history
  BY DEF CleanUp, Recovering, At
<1>2. /\ S \in Stores /\ Directory(D) /\ Lasting(D, Promise)
      /\ Promise \subseteq Values /\ op.gen = D.now["rms"] /\ op.gen \in Nat
  BY <1>1, Recovers DEF At
<1>3. CASE D.now["tmp"] = Absent /\ D.now["bak"] = Absent
  <2>1. Goto("recovered") /\ UNCHANGED dir /\ UNCHANGED promised
    BY <1>3 DEF CleanUp
  <2>2. OpTypeOK' /\ op'.at = "recovered" /\ SameWork /\ SameRest
    BY <2>1, GotoIs DEF RecordInv, AllPlaces, Recovering
  <2>3. OneStore(D, Promise)
    BY <1>2, <2>1, NothingWritten DEF RecordInv
  <2> QED BY <1>1, <1>2, <2>2, <2>3, RecoveryGoesOn DEF SameWork, SameRest, Recovering
<1>4. CASE ~(D.now["tmp"] = Absent /\ D.now["bak"] = Absent)
  <2>1. /\ SetFiles(S, Unlink(Unlink(D, "tmp"), "bak")) /\ Goto("clean_sync")
        /\ promised' = [promised EXCEPT ![S] = @ \cup Exposed]
    BY <1>4 DEF CleanUp
  <2>2. OpTypeOK' /\ op'.at = "clean_sync" /\ SameWork /\ SameRest
    BY <2>1, GotoIs DEF RecordInv, AllPlaces, Recovering
  <2>q. PICK Q : Q = Promise \cup Exposed
    OBVIOUS
  <2>e. PICK e : e = Unlink(Unlink(D, "tmp"), "bak")
    OBVIOUS
  <2>3. promised' = [promised EXCEPT ![S] = Q]
    BY <1>2, <2>1, <2>q DEF RecordInv, TypeOK, Promise
  <2>4. Exposed \subseteq Values
    BY <1>2, FileTypes DEF Exposed, LeftBehind, Directory, Values
  <2>5. Promise \subseteq Q /\ Q \subseteq Values
    BY <1>2, <2>4, <2>q
  <2>6. \A f \in D.disk : f["rms"] = Absent => Absent \in Q /\ f["tmp"] \in Q
    BY <2>q DEF Exposed, Unanchored, LeftBehind
  <2>7. Directory(e) /\ Lasting(e, Q) /\ e.now["rms"] = D.now["rms"]
    BY <1>2, <2>e, <2>5, <2>6, BothUnlinked
  <2>8. OneStore(e, Q)
    BY <1>2, <2>1, <2>3, <2>5, <2>7, <2>e, FileSet DEF RecordInv
  <2> QED BY <1>1, <1>2, <2>2, <2>5, <2>7, <2>8, RecoveryGoesOn DEF SameWork, SameRest, Recovering
<1> QED BY <1>3, <1>4

-----------------------------------------------------------------------------
(***************************************************************************)
(* A generation is written.                                                *)
(***************************************************************************)
LEMMA Writes ==
  ASSUME RecordInv, op.at \in Writing
  PROVE  /\ S \in Stores /\ op.gen \in Nat /\ op.gen \in Values /\ op.call \in {"create", "change", "close"} \cup Flushes
         /\ op.call = "create" => loaded[S] = Absent
         /\ op.call # "create" => loaded[S] = op.gen
         /\ op.call = "change" => op.old \in Nat
         /\ op.call \in {"close"} \cup Flushes => pending[S]
         /\ Written(op, D, Promise)
         /\ Directory(D) /\ Lasting(D, Promise) /\ D.now \in Files /\ D.now \in D.disk
         /\ Promise \subseteq Values
         /\ D.now["rms"] # Torn /\ D.now["bak"] # Torn /\ Recovered(D.now) \in Promise
<1>1. /\ S \in Stores /\ op.gen \in Nat /\ op.call \in {"create", "change", "close"} \cup Flushes
      /\ op.call = "create" => loaded[S] = Absent
      /\ op.call # "create" => loaded[S] = op.gen
      /\ op.call = "change" => op.old \in Nat
      /\ op.call \in {"close"} \cup Flushes => pending[S]
      /\ Written(op, D, Promise)
  BY DEF RecordInv, WriteInv
<1>2. Directory(D) /\ Lasting(D, Promise) /\ Promise \subseteq Values
  BY <1>1, Directories DEF RecordInv, D, Promise
<1>3. op.gen \in Values
  BY <1>1 DEF Values
<1> QED BY <1>1, <1>2, <1>3 DEF Lasting

LEMMA WritingGoesOn ==
  ASSUME RecordInv, op.at \in Writing, UNCHANGED memory, HistoryType', OpTypeOK', SameCall,
         op'.gen = op.gen, op'.old = op.old, op'.at \in Writing, NEW d, NEW Q, OneStore(d, Q),
         Lasting(d, Q), Written(op', d, Q)
  PROVE  RecordInv'
<1>1. /\ S \in Stores /\ op.gen \in Nat /\ op.call \in {"create", "change", "close"} \cup Flushes
      /\ op.call = "create" => loaded[S] = Absent
      /\ op.call # "create" => loaded[S] = op.gen
      /\ op.call = "change" => op.old \in Nat
      /\ op.call \in {"close"} \cup Flushes => pending[S]
  BY Writes
<1>2. TypeOK' /\ StoreInv' /\ CallInv' /\ S' = S /\ D' = d /\ Promise' = Q
  <2>1. op'.at \notin {"idle", "next"}
    BY DEF Writing, Replacing, Replaced
  <2> QED BY <1>1, <2>1, CallGoesOn DEF RecordInv
<1>3. Written(op, D, Promise)'
  <2>1. op'.store \in Stores /\ pending' = pending
    BY <1>1, <1>2 DEF S, memory
  <2> QED BY <1>2, <2>1 DEF Written, Old, Prepared, Reversible, Left
<1>4. WriteInv'
  BY <1>1, <1>2, <1>3 DEF WriteInv, SameCall, memory
<1>5. RecoverInv' /\ DeleteInv'
  BY AtWriting
<1> QED BY <1>2, <1>4, <1>5 DEF RecordInv

\* An entry that is not the canonical file becomes x.
LEMMA StillPrepared ==
  ASSUME NEW b, NEW d, NEW e, NEW Q, NEW x, NEW n \in {"tmp", "bak"},
         (\E f \in d.disk : f["rms"] = Absent) =>
           {Torn, Absent} \subseteq Q /\ Left(d, Q) /\ x \in Q,
         \A f \in d.disk : f["rms"] # Absent => f["rms"] \in b.before,
         d.now["rms"] = Absent => e.now["bak"] = Absent /\ Absent \in b.before,
         Becomes(e, d, n, x),
         b.at # "file_sync" => e.now["tmp"] = b.gen,
         b.at = "rename" => b.backup = (d.now["rms"] # Absent) /\ e.now["bak"] = d.now["rms"]
  PROVE  Prepared(b, e, Q)
<1>1. "tmp" \in Roles /\ "rms" \in Roles /\ "bak" \in Roles /\ n \in Roles /\ n # "rms"
  BY DEF Roles
<1>2. e.now["rms"] = d.now["rms"]
  BY <1>1 DEF Becomes
<1>3. ASSUME NEW f \in e.disk
      PROVE  \E g \in d.disk : /\ f["rms"] = g["rms"] /\ f["tmp"] \in {g["tmp"], x}
                               /\ f["bak"] \in {g["bak"], x}
  BY <1>1 DEF Becomes
<1>4. (\E f \in e.disk : f["rms"] = Absent) => {Torn, Absent} \subseteq Q /\ Left(e, Q)
  <2> SUFFICES ASSUME NEW f0 \in e.disk, f0["rms"] = Absent
      PROVE  {Torn, Absent} \subseteq Q /\ Left(e, Q)
    OBVIOUS
  <2>1. {Torn, Absent} \subseteq Q /\ Left(d, Q) /\ x \in Q
    BY <1>3
  <2> QED BY <1>3, <2>1 DEF Left
<1>5. \A f \in e.disk : f["rms"] # Absent => f["rms"] \in b.before
  BY <1>3
<1> QED BY <1>2, <1>4, <1>5 DEF Prepared

LEMMA WriteTemporaryKeeps ==
  ASSUME RecordInv, WriteTemporary
  PROVE  RecordInv'
<1>1. /\ At("write") /\ op.at \in Writing /\ UNCHANGED memory /\ UNCHANGED history
      /\ SetFiles(S, Put(D, "tmp", Torn))
      /\ promised' = [promised EXCEPT ![S] = @ \cup {op.gen} \cup Exposed]
      /\ op' = [op EXCEPT !.at = "file_sync", !.before = promised[S]]
  BY DEF WriteTemporary, Writing, At
<1>2. /\ S \in Stores /\ op.gen \in Nat /\ op.gen \in Values
      /\ Written(op, D, Promise) /\ Directory(D) /\ Lasting(D, Promise)
      /\ D.now \in D.disk /\ Promise \subseteq Values /\ Recovered(D.now) \in Promise
  BY <1>1, Writes
<1>3. op.ok /\ InPlace(D.now) /\ Old(op, Promise)
  BY <1>1, <1>2 DEF Written, At
<1>4. /\ OpTypeOK' /\ op'.at = "file_sync" /\ SameCall /\ op'.gen = op.gen /\ op'.old = op.old
      /\ op'.ok = op.ok /\ op'.before = Promise
  BY <1>1, <1>2 DEF RecordInv, OpTypeOK, SameCall, AllPlaces, Writing, Replacing, Promise
<1>5. HistoryType'
  BY <1>1, HistoryKept DEF RecordInv
<1>q. PICK Q : Q = Promise \cup {op.gen} \cup Exposed
  OBVIOUS
<1>e. PICK e : e = Put(D, "tmp", Torn)
  OBVIOUS
<1>6. promised' = [promised EXCEPT ![S] = Q]
  BY <1>1, <1>2, <1>q DEF RecordInv, TypeOK, Promise
<1>7. Promise \subseteq Q /\ Q \subseteq Values /\ op.gen \in Q
  <2>1. Exposed \subseteq Values
    BY <1>2, FileTypes DEF Exposed, LeftBehind, Directory, Values
  <2> QED BY <1>2, <2>1, <1>q
<1>8. "tmp" \in Roles /\ "rms" \in Roles /\ "bak" \in Roles /\ Torn \in Values
  BY DEF Roles, Values
<1>9. Directory(e) /\ Follows(e, D, "tmp", Torn) /\ Becomes(e, D, "tmp", Torn)
  BY <1>2, <1>8, <1>e, HasPut
<1>10. (\E f \in D.disk : f["rms"] = Absent) =>
          {Torn, Absent} \subseteq Q /\ Left(D, Q) /\ Torn \in Q
  BY <1>q DEF Exposed, Unanchored, LeftBehind, Left
<1>11. Lasting(e, Q)
  BY <1>2, <1>7, <1>8, <1>9, <1>10, TemporaryKeeps
<1>12. OneStore(e, Q)
  BY <1>1, <1>2, <1>6, <1>7, <1>9, <1>e, FileSet DEF RecordInv
<1>13. Prepared(op', e, Q)
  <2>1. \A f \in D.disk : f["rms"] # Absent => f["rms"] \in op'.before
    BY <1>2, <1>4, RecoveredIs DEF Lasting
  <2>2. D.now["rms"] = Absent => D.now = NoFiles /\ Absent \in op'.before
    BY <1>2, <1>3, <1>4, NoFilesAre DEF InPlace
  <2>3. D.now["rms"] = Absent => e.now["bak"] = Absent /\ Absent \in op'.before
    BY <1>8, <1>9, <2>2, NoFilesAre DEF Becomes
  <2> QED BY <1>4, <1>7, <1>9, <1>10, <2>1, <2>3, StillPrepared
<1>14. Written(op', e, Q)
  <2>1. Old(op', op'.before)
    BY <1>3, <1>4 DEF Old, SameCall
  <2> QED BY <1>3, <1>4, <1>7, <1>13, <2>1 DEF Written, Replacing, Replaced
<1>15. op'.at \in Writing
  BY <1>4 DEF Writing, Replacing
<1> QED BY <1>1, <1>4, <1>5, <1>11, <1>12, <1>14, <1>15, WritingGoesOn

LEMMA SyncTemporaryKeeps ==
  ASSUME RecordInv, SyncTemporary
  PROVE  RecordInv'
<1>1. /\ op.at = "file_sync" /\ op.at \in Writing /\ UNCHANGED memory /\ UNCHANGED history
      /\ SetFiles(S, Put(D, "tmp", op.gen)) /\ UNCHANGED promised /\ Goto("backup_link")
  BY DEF SyncTemporary, Writing, Replacing, At
<1>2. /\ S \in Stores /\ op.gen \in Nat /\ op.gen \in Values
      /\ Written(op, D, Promise) /\ Directory(D) /\ Lasting(D, Promise)
  BY <1>1, Writes
<1>3. /\ op.ok /\ Prepared(op, D, Promise) /\ Old(op, op.before) /\ op.before \subseteq Promise
      /\ op.gen \in Promise
  BY <1>1, <1>2 DEF Written, Replacing
<1>4. OpTypeOK' /\ op'.at = "backup_link" /\ SameWork /\ SameRest
  BY <1>1, GotoIs DEF RecordInv, AllPlaces, Writing, Replacing
<1>5. HistoryType'
  BY <1>1, HistoryKept DEF RecordInv
<1>e. PICK e : e = Put(D, "tmp", op.gen)
  OBVIOUS
<1>6. "tmp" \in Roles /\ "rms" \in Roles /\ "bak" \in Roles
  BY DEF Roles
<1>7. Directory(e) /\ Follows(e, D, "tmp", op.gen) /\ Becomes(e, D, "tmp", op.gen)
  BY <1>2, <1>6, <1>e, HasPut
<1>8. Lasting(e, Promise)
  BY <1>2, <1>3, <1>7, TemporaryKeeps
<1>9. OneStore(e, Promise)
  BY <1>1, <1>2, <1>7, <1>e, FileSetOnly DEF RecordInv
<1>10. Prepared(op', e, Promise)
  <2>1. D.now["rms"] = Absent => e.now["bak"] = Absent /\ Absent \in op'.before
    BY <1>3, <1>4, <1>6, <1>7 DEF Becomes, Prepared, SameWork
  <2>2. e.now["tmp"] = op'.gen
    BY <1>4, <1>7 DEF Becomes, SameWork
  <2>3. (\E f \in D.disk : f["rms"] = Absent) =>
          {Torn, Absent} \subseteq Promise /\ Left(D, Promise) /\ op.gen \in Promise
    BY <1>3 DEF Prepared
  <2>4. \A f \in D.disk : f["rms"] # Absent => f["rms"] \in op'.before
    BY <1>3, <1>4 DEF Prepared, SameWork
  <2> QED BY <1>4, <1>7, <2>1, <2>2, <2>3, <2>4, StillPrepared
<1>11. Written(op', e, Promise)
  <2>1. Old(op', op'.before)
    BY <1>3, <1>4 DEF Old, SameCall, SameWork
  <2> QED BY <1>3, <1>4, <1>10, <2>1 DEF Written, Replacing, Replaced, SameWork, SameRest
<1>12. op'.at \in Writing
  BY <1>4 DEF Writing, Replacing
<1> QED BY <1>1, <1>4, <1>5, <1>8, <1>9, <1>11, <1>12, WritingGoesOn DEF SameWork

LEMMA PreservePreviousKeeps ==
  ASSUME RecordInv, PreservePrevious
  PROVE  RecordInv'
<1>d. PICK d : d = Unlink(D, "bak")
  OBVIOUS
<1>e. PICK e : e = IF D.now["rms"] = Absent THEN d ELSE Put(d, "bak", D.now["rms"])
  OBVIOUS
<1>1. /\ op.at = "backup_link" /\ op.at \in Writing /\ UNCHANGED memory /\ UNCHANGED history
      /\ SetFiles(S, e) /\ UNCHANGED promised
      /\ op' = [op EXCEPT !.at = "rename", !.backup = D.now["rms"] # Absent]
  BY <1>d, <1>e DEF PreservePrevious, Writing, Replacing, At
<1>2. /\ S \in Stores /\ op.gen \in Nat /\ Promise \subseteq Values
      /\ Written(op, D, Promise) /\ Directory(D) /\ Lasting(D, Promise) /\ D.now \in D.disk
      /\ D.now["rms"] # Torn /\ D.now \in Files
  BY <1>1, Writes
<1>3. /\ op.ok /\ Prepared(op, D, Promise) /\ Old(op, op.before) /\ op.before \subseteq Promise
      /\ op.gen \in Promise
  BY <1>1, <1>2 DEF Written, Replacing
<1>4. /\ OpTypeOK' /\ op'.at = "rename" /\ SameWork /\ op'.ok = op.ok
      /\ op'.backup = (D.now["rms"] # Absent)
  BY <1>1 DEF RecordInv, OpTypeOK, SameWork, SameCall, AllPlaces, Writing, Replacing
<1>5. HistoryType'
  BY <1>1, HistoryKept DEF RecordInv
<1>6. "tmp" \in Roles /\ "rms" \in Roles /\ "bak" \in Roles /\ D.now["rms"] \in Values
      /\ Absent # Torn
  BY <1>2, FileTypes, FilesAssumption DEF Roles
<1>7. Directory(d) /\ Follows(d, D, "bak", Absent) /\ Becomes(d, D, "bak", Absent)
  BY <1>2, <1>6, <1>d, Unlinked
<1>8. /\ (\E f \in D.disk : f["rms"] = Absent) =>
            {Torn, Absent} \subseteq Promise /\ Left(D, Promise) /\ Absent \in Promise
      /\ \A f \in D.disk : f["rms"] # Absent => f["rms"] \in op.before
      /\ D.now["rms"] = Absent => Absent \in op.before
      /\ D.now["tmp"] = op.gen
  BY <1>1, <1>3 DEF Prepared
<1>9. Lasting(d, Promise)
  <2>1. \A f \in D.disk : f["rms"] = Absent => f["tmp"] \in Promise
    BY <1>8 DEF Left
  <2>2. Absent \in Values
    BY DEF Values
  <2> QED BY <1>2, <1>6, <1>7, <2>1, <2>2, BackupKeeps
<1>10. d.now["rms"] = D.now["rms"] /\ d.now["bak"] = Absent /\ d.now["tmp"] = op.gen
  BY <1>6, <1>7, <1>8 DEF Becomes
<1>11. Directory(e) /\ Lasting(e, Promise) /\ Prepared(op', e, Promise)
  <2>1. CASE D.now["rms"] = Absent
    <3>1. e = d
      BY <1>e, <2>1
    <3>2. Prepared(op', d, Promise)
      <4>1. op'.before = op.before /\ op'.gen = op.gen
        BY <1>4 DEF SameWork
      <4>2. /\ D.now["rms"] = Absent => d.now["bak"] = Absent /\ Absent \in op'.before
            /\ op'.backup = (D.now["rms"] # Absent) /\ d.now["bak"] = D.now["rms"]
            /\ d.now["tmp"] = op'.gen
        BY <1>4, <1>8, <1>10, <2>1, <4>1
      <4>3. \A f \in D.disk : f["rms"] # Absent => f["rms"] \in op'.before
        BY <1>8, <4>1
      <4> QED BY <1>7, <1>8, <4>2, <4>3, StillPrepared
    <3> QED BY <1>7, <1>9, <3>1, <3>2
  <2>2. CASE D.now["rms"] # Absent
    <3>x. PICK x : x = D.now["rms"]
      OBVIOUS
    <3>1. e = Put(d, "bak", x) /\ x \in Values /\ x # Torn /\ x \in Promise
      BY <1>2, <1>3, <1>6, <1>8, <1>e, <2>2, <3>x
    <3>2. Prepared(op, d, Promise)
      <4>1. D.now["rms"] = Absent => d.now["bak"] = Absent /\ Absent \in op.before
        BY <1>8, <1>10
      <4> QED BY <1>1, <1>7, <1>8, <1>10, <4>1, StillPrepared
    <3>3. Directory(e) /\ Follows(e, d, "bak", x) /\ Becomes(e, d, "bak", x)
      BY <1>6, <1>7, <3>1, HasPut
    <3>4. Lasting(e, Promise)
      <4>1. \A f \in d.disk : f["rms"] = Absent => IF x = Absent THEN f["tmp"] \in Promise ELSE x \in Promise
        BY <2>2, <3>1, <3>x
      <4> QED BY <1>7, <1>9, <3>1, <3>3, <4>1, BackupKeeps
    <3>5. Prepared(op', e, Promise)
      <4>1. op'.before = op.before /\ op'.gen = op.gen
        BY <1>4 DEF SameWork
      <4>2. /\ d.now["rms"] = Absent => e.now["bak"] = Absent /\ Absent \in op'.before
            /\ op'.backup = (d.now["rms"] # Absent) /\ e.now["bak"] = d.now["rms"]
            /\ e.now["tmp"] = op'.gen
        BY <1>4, <1>6, <1>10, <2>2, <3>3, <3>x, <4>1 DEF Becomes
      <4>3. \A f \in d.disk : f["rms"] # Absent => f["rms"] \in op'.before
        BY <3>2, <4>1 DEF Prepared
      <4>4. (\E f \in d.disk : f["rms"] = Absent) =>
              {Torn, Absent} \subseteq Promise /\ Left(d, Promise) /\ x \in Promise
        BY <3>1, <3>2 DEF Prepared
      <4> QED BY <3>3, <4>2, <4>3, <4>4, StillPrepared
    <3> QED BY <3>3, <3>4, <3>5
  <2> QED BY <2>1, <2>2
<1>12. OneStore(e, Promise)
  BY <1>1, <1>2, <1>11, FileSetOnly DEF RecordInv
<1>13. Written(op', e, Promise)
  <2>1. Old(op', op'.before)
    BY <1>3, <1>4 DEF Old, SameCall, SameWork
  <2> QED BY <1>3, <1>4, <1>11, <2>1 DEF Written, Replacing, Replaced, SameWork
<1>14. op'.at \in Writing
  BY <1>4 DEF Writing, Replacing
<1> QED BY <1>1, <1>4, <1>5, <1>11, <1>12, <1>13, <1>14, WritingGoesOn DEF SameWork

LEMMA ReplaceKeeps ==
  ASSUME RecordInv, Replace
  PROVE  RecordInv'
<1>e. PICK e : e = Rename(D, "tmp", "rms")
  OBVIOUS
<1>1. /\ op.at = "rename" /\ op.at \in Writing /\ UNCHANGED memory /\ UNCHANGED history
      /\ SetFiles(S, e) /\ UNCHANGED promised /\ Goto("directory_sync")
  BY <1>e DEF Replace, Writing, Replacing, At
<1>2. /\ S \in Stores /\ op.gen \in Nat /\ Written(op, D, Promise) /\ Directory(D)
      /\ Lasting(D, Promise) /\ D.now \in D.disk /\ D.now \in Files /\ D.now["rms"] # Torn
      /\ Promise \subseteq Values
  BY <1>1, Writes
<1>3. /\ op.ok /\ Prepared(op, D, Promise) /\ Old(op, op.before) /\ op.before \subseteq Promise
      /\ op.gen \in Promise
  BY <1>1, <1>2 DEF Written, Replacing
<1>4. OpTypeOK' /\ op'.at = "directory_sync" /\ SameWork /\ SameRest
  BY <1>1, GotoIs DEF RecordInv, AllPlaces, Writing, Replaced
<1>5. HistoryType'
  BY <1>1, HistoryKept DEF RecordInv
<1>6. D.now["tmp"] = op.gen
  BY <1>1, <1>3 DEF Prepared
<1>7. Directory(e) /\ Moved(e, D, "tmp", op.gen)
  BY <1>2, <1>6, <1>e, RenameMoves
<1>8. Lasting(e, Promise)
  BY <1>2, <1>3, <1>7, MoveKeeps
<1>9. OneStore(e, Promise)
  BY <1>1, <1>2, <1>7, FileSetOnly DEF RecordInv
<1>10. "bak" \in Roles \ {"rms", "tmp"}
  BY DEF Roles
<1>11. e.now["rms"] = op.gen /\ e.now["tmp"] = Absent /\ e.now["bak"] = D.now["rms"]
  BY <1>1, <1>3, <1>7, <1>10 DEF Moved, Prepared
<1>12. Reversible(op', e, Promise)
  <2>1. D.now["rms"] # Absent => D.now["rms"] \in op.before /\ D.now["rms"] \in Nat
    BY <1>2, <1>3, FileTypes DEF Prepared, Values
  <2>2. op.backup = (D.now["rms"] # Absent)
    BY <1>1, <1>3 DEF Prepared
  <2>3. D.now["rms"] = Absent => {Torn, Absent} \subseteq Promise /\ Left(D, Promise) /\ Absent \in op.before
    BY <1>2, <1>3 DEF Prepared
  <2>4. D.now["rms"] = Absent => Left(e, Promise)
    <3> SUFFICES ASSUME D.now["rms"] = Absent, NEW f \in e.disk
        PROVE  f["tmp"] \in Promise /\ f["bak"] \in Promise
      BY DEF Left
    <3>1. PICK g \in D.disk : (f = g \/ f["tmp"] = Absent) /\ f["bak"] = g["bak"]
      BY <1>7, <1>10 DEF Moved
    <3> QED BY <2>3, <3>1 DEF Left
  <2> QED BY <1>4, <1>11, <2>1, <2>2, <2>3, <2>4 DEF Reversible, SameWork, SameRest
<1>13. Written(op', e, Promise)
  <2>1. Old(op', op'.before)
    BY <1>3, <1>4 DEF Old, SameCall, SameWork
  <2> QED BY <1>3, <1>4, <1>12, <2>1 DEF Written, Replacing, Replaced, SameWork, SameRest
<1>14. op'.at \in Writing
  BY <1>4 DEF Writing, Replaced
<1> QED BY <1>1, <1>4, <1>5, <1>8, <1>9, <1>13, <1>14, WritingGoesOn DEF SameWork

LEMMA CommitKeeps ==
  ASSUME RecordInv, Commit
  PROVE  RecordInv'
<1>p. PICK p \in {"drop", "return"} : p = IF op.backup THEN "drop" ELSE "return"
  OBVIOUS
<1>1. /\ op.at = "directory_sync" /\ op.at \in Writing /\ UNCHANGED memory /\ UNCHANGED history
      /\ SyncAll /\ promised' = [promised EXCEPT ![S] = {op.gen}] /\ Goto(p)
  BY <1>p DEF Commit, Committed, Writing, Replaced, At
<1>2. /\ S \in Stores /\ op.gen \in Nat /\ op.gen \in Values /\ Written(op, D, Promise)
      /\ Directory(D) /\ Lasting(D, Promise) /\ D.now \in Files /\ D.now["rms"] # Torn
      /\ D.now["bak"] # Torn
  BY <1>1, Writes
<1>3. op.ok /\ Reversible(op, D, Promise)
  BY <1>1, <1>2 DEF Written, Replaced
<1>4. OpTypeOK' /\ op'.at = p /\ SameWork /\ SameRest
  BY <1>1, GotoIs DEF RecordInv, AllPlaces, Writing
<1>5. HistoryType'
  BY <1>1, HistoryKept DEF RecordInv
<1>6. D.now["rms"] = op.gen /\ op.gen # Absent
  BY <1>2, <1>3, FilesAssumption DEF Reversible
<1>7. Recovered(D.now) = op.gen
  BY <1>2, <1>6, RecoveredIs
<1>e. PICK e : e = Synced(D)
  OBVIOUS
<1>8. Lasting(e, {op.gen}) /\ e.now = D.now /\ e.disk = {D.now}
  BY <1>2, <1>7, <1>e, SyncedKeeps
<1>9. OneStore(e, {op.gen})
  BY <1>1, <1>2, <1>e, Synchronized DEF RecordInv
<1>10. Written(op', e, {op.gen})
  BY <1>3, <1>4, <1>6, <1>8 DEF Written, InPlace, Replacing, Replaced, SameWork, SameRest
<1>11. op'.at \in Writing
  BY <1>4 DEF Writing
<1> QED BY <1>1, <1>4, <1>5, <1>8, <1>9, <1>10, <1>11, WritingGoesOn DEF SameWork

LEMMA DropBackupKeeps ==
  ASSUME RecordInv, DropBackup
  PROVE  RecordInv'
<1>1. /\ op.at = "drop" /\ op.at \in Writing /\ UNCHANGED memory
      /\ UNCHANGED promised /\ Goto("drop_sync") /\ (UNCHANGED history \/ Fault)
      /\ SetFiles(S, Unlink(D, "bak")) \/ UNCHANGED dir
  BY DEF DropBackup, Writing, At
<1>2. /\ S \in Stores /\ op.gen \in Nat /\ Written(op, D, Promise)
      /\ Directory(D) /\ Lasting(D, Promise)
  BY <1>1, Writes
<1>3. op.ok /\ op.gen \in Promise /\ \A f \in D.disk : f["rms"] = op.gen
  BY <1>1, <1>2 DEF Written
<1>4. OpTypeOK' /\ op'.at = "drop_sync" /\ SameWork /\ SameRest
  BY <1>1, GotoIs DEF RecordInv, AllPlaces, Writing
<1>5. HistoryType'
  BY <1>1, HistoryKept DEF RecordInv
<1>6. \E e : OneStore(e, Promise) /\ Lasting(e, Promise) /\ \A f \in e.disk : f["rms"] = op.gen
  <2>1. CASE UNCHANGED dir
    BY <1>1, <1>2, <1>3, <2>1, NothingWritten DEF RecordInv
  <2>2. CASE SetFiles(S, Unlink(D, "bak"))
    <3>e. PICK e : e = Unlink(D, "bak")
      OBVIOUS
    <3>1. "rms" \in Roles /\ "bak" \in Roles /\ Absent \in Values /\ Absent # Torn
      BY FilesAssumption DEF Roles, Values
    <3>2. Directory(e) /\ Follows(e, D, "bak", Absent) /\ Becomes(e, D, "bak", Absent)
      BY <1>2, <3>1, <3>e, Unlinked
    <3>3. \A f \in D.disk : f["rms"] # Absent
      BY <1>2, <1>3, FilesAssumption
    <3>4. Lasting(e, Promise)
      BY <1>2, <3>1, <3>2, <3>3, BackupKeeps
    <3>5. \A f \in e.disk : f["rms"] = op.gen
      BY <1>3, <3>1, <3>2 DEF Becomes
    <3>6. OneStore(e, Promise)
      BY <1>1, <1>2, <2>2, <3>2, <3>e, FileSetOnly DEF RecordInv
    <3> QED BY <3>4, <3>5, <3>6
  <2> QED BY <1>1, <2>1, <2>2
<1>7. PICK e : OneStore(e, Promise) /\ Lasting(e, Promise) /\ \A f \in e.disk : f["rms"] = op.gen
  BY <1>6
<1>8. Written(op', e, Promise)
  BY <1>3, <1>4, <1>7 DEF Written, Replacing, Replaced, SameWork, SameRest
<1>9. op'.at \in Writing
  BY <1>4 DEF Writing
<1> QED BY <1>1, <1>4, <1>5, <1>7, <1>8, <1>9, WritingGoesOn DEF SameWork

LEMMA DropSyncKeeps ==
  ASSUME RecordInv, DropSync
  PROVE  RecordInv'
<1>1. /\ op.at = "drop_sync" /\ op.at \in Writing /\ UNCHANGED memory
      /\ UNCHANGED promised /\ Goto("return") /\ (UNCHANGED history \/ Fault)
      /\ SyncAll \/ UNCHANGED dir
  BY DEF DropSync, Writing, At
<1>2. /\ S \in Stores /\ op.gen \in Nat /\ Written(op, D, Promise) /\ Directory(D)
      /\ Lasting(D, Promise) /\ D.now \in D.disk /\ Recovered(D.now) \in Promise
  BY <1>1, Writes
<1>3. op.ok /\ op.gen \in Promise /\ D.now["rms"] = op.gen
  BY <1>1, <1>2 DEF Written
<1>4. OpTypeOK' /\ op'.at = "return" /\ SameWork /\ SameRest
  BY <1>1, GotoIs DEF RecordInv, AllPlaces, Writing
<1>5. HistoryType'
  BY <1>1, HistoryKept DEF RecordInv
<1>6. OneStore(D, Promise) \/ OneStore(Synced(D), Promise)
  BY <1>1, <1>2, NothingWritten, SynchronizedOnly DEF RecordInv
<1>7. PICK e \in {D, Synced(D)} : OneStore(e, Promise)
  BY <1>6
<1>8. Lasting(e, Promise) /\ e.now = D.now
  BY <1>2, SyncedKeeps
<1>9. InPlace(e.now)
  BY <1>2, <1>3, <1>8, FilesAssumption DEF InPlace
<1>10. Written(op', e, Promise)
  BY <1>3, <1>4, <1>9 DEF Written, Replacing, Replaced, SameWork, SameRest
<1>11. op'.at \in Writing
  BY <1>4 DEF Writing
<1> QED BY <1>1, <1>4, <1>5, <1>7, <1>8, <1>10, <1>11, WritingGoesOn DEF SameWork

LEMMA CreateFailsKeeps ==
  ASSUME RecordInv, CreateFails
  PROVE  RecordInv'
<1>1. /\ op.at = "write" /\ op.at \in Writing /\ UNCHANGED <<dir, memory, promised>> /\ Fault
      /\ op' = [op EXCEPT !.at = "return", !.ok = FALSE]
  BY DEF CreateFails, Failed, Writing, At
<1>2. S \in Stores /\ Written(op, D, Promise) /\ Directory(D) /\ Lasting(D, Promise)
  BY <1>1, Writes
<1>3. InPlace(D.now) /\ Old(op, Promise)
  BY <1>1, <1>2 DEF Written
<1>4. OpTypeOK' /\ op'.at = "return" /\ SameWork /\ op'.ok = FALSE
  BY <1>1, FailedIs DEF RecordInv, AllPlaces, Writing
<1>5. HistoryType'
  BY <1>1, HistoryKept DEF RecordInv
<1>6. OneStore(D, Promise)
  BY <1>1, <1>2, NothingWritten DEF RecordInv
<1>7. Old(op', Promise)
  BY <1>3, <1>4 DEF Old, SameCall, SameWork
<1>8. Written(op', D, Promise)
  BY <1>3, <1>4, <1>7 DEF Written, Replacing, Replaced
<1>9. op'.at \in Writing
  BY <1>4 DEF Writing
<1> QED BY <1>1, <1>2, <1>4, <1>5, <1>6, <1>8, <1>9, WritingGoesOn DEF SameWork

-----------------------------------------------------------------------------
(***************************************************************************)
(* A write that fails is undone.                                           *)
(***************************************************************************)
LEMMA PersistFailsKeeps ==
  ASSUME RecordInv, PersistFails
  PROVE  RecordInv'
<1>q. PICK Q : Q = IF Unanchored THEN Promise ELSE op.before
  OBVIOUS
<1>e. PICK e : e = IF At("file_sync") THEN Unlink(D, "tmp") ELSE Unlink(Unlink(D, "tmp"), "bak")
  OBVIOUS
<1>1. /\ op.at \in Replacing /\ op.at \in Writing /\ UNCHANGED memory /\ Fault
      /\ op' = [op EXCEPT !.at = "return", !.ok = FALSE] /\ SetFiles(S, e)
  BY <1>e DEF PersistFails, Failed, Writing, Replacing
<1>2. /\ S \in Stores /\ Written(op, D, Promise) /\ Directory(D) /\ Lasting(D, Promise)
      /\ D.now \in D.disk /\ D.now \in Files /\ Promise \subseteq Values
  BY <1>1, Writes
<1>3. /\ op.ok /\ Prepared(op, D, Promise) /\ Old(op, op.before) /\ op.before \subseteq Promise
  BY <1>1, <1>2 DEF Written, Replacing
<1>4. OpTypeOK' /\ op'.at = "return" /\ SameWork /\ op'.ok = FALSE
  BY <1>1, FailedIs DEF RecordInv, AllPlaces, Writing
<1>5. HistoryType'
  BY <1>1, HistoryKept DEF RecordInv
<1>6. promised' = [promised EXCEPT ![S] = Q]
  BY <1>2, <1>q DEF PersistFails, RecordInv, TypeOK, Promise
<1>7. Q \subseteq Values /\ op.before \subseteq Q
  BY <1>2, <1>3, <1>q
<1>8. Lasting(D, Q)
  <2>1. CASE Unanchored
    BY <1>2, <1>q, <2>1
  <2>2. CASE ~Unanchored
    BY <1>2, <1>3, <1>q, <2>2, RecoveredIs DEF Unanchored, Lasting, Prepared
  <2> QED BY <2>1, <2>2
<1>9. \A f \in D.disk : f["rms"] = Absent => Absent \in Q /\ f["tmp"] \in Q
  BY <1>3, <1>q DEF Unanchored, Prepared, Left
<1>10. D.now["rms"] = Absent => D.now["bak"] = Absent
  BY <1>3 DEF Prepared
<1>11. Directory(e) /\ Lasting(e, Q) /\ e.now \in Files /\ e.now["rms"] = D.now["rms"]
       /\ e.now["tmp"] = Absent /\ (D.now["rms"] = Absent => e.now["bak"] = Absent)
  <2>1. CASE At("file_sync")
    <3>1. "tmp" \in Roles /\ "rms" \in Roles /\ "bak" \in Roles /\ Absent \in Values
      BY DEF Roles, Values
    <3>2. e = Unlink(D, "tmp")
      BY <1>e, <2>1
    <3>3. Directory(e) /\ Follows(e, D, "tmp", Absent) /\ Becomes(e, D, "tmp", Absent)
      BY <1>2, <3>1, <3>2, Unlinked
    <3>4. Lasting(e, Q)
      BY <1>8, <1>9, <1>2, <3>1, <3>3, TemporaryKeeps
    <3> QED BY <1>10, <3>1, <3>3, <3>4 DEF Becomes, Directory
  <2>2. CASE ~At("file_sync")
    <3>1. e = Unlink(Unlink(D, "tmp"), "bak")
      BY <1>e, <2>2
    <3>2. /\ Directory(e) /\ Lasting(e, Q) /\ e.now["rms"] = D.now["rms"]
          /\ e.now["tmp"] = Absent /\ e.now["bak"] = Absent
      BY <1>2, <1>8, <1>9, <3>1, BothUnlinked
    <3> QED BY <3>2 DEF Directory
  <2> QED BY <2>1, <2>2
<1>12. OneStore(e, Q)
  BY <1>1, <1>2, <1>6, <1>7, <1>11, FileSet DEF RecordInv
<1>13. InPlace(e.now)
  BY <1>11, NoFilesAre, SameFiles DEF InPlace
<1>14. Old(op', Q)
  BY <1>3, <1>4, <1>7 DEF Old, SameCall, SameWork
<1>15. Written(op', e, Q)
  BY <1>4, <1>13, <1>14 DEF Written, Replacing, Replaced
<1>16. op'.at \in Writing
  BY <1>4 DEF Writing
<1> QED BY <1>1, <1>4, <1>5, <1>11, <1>12, <1>15, <1>16, WritingGoesOn DEF SameWork

LEMMA CommitFailsKeeps ==
  ASSUME RecordInv, CommitFails
  PROVE  RecordInv'
<1>1. /\ op.at = "directory_sync" /\ op.at \in Writing /\ UNCHANGED memory
      /\ UNCHANGED promised /\ Goto("undo") /\ Fault
      /\ UNCHANGED dir \/ SyncAll
  BY DEF CommitFails, Writing, Replaced, At
<1>2. /\ S \in Stores /\ Written(op, D, Promise) /\ Directory(D)
      /\ Lasting(D, Promise) /\ D.now \in D.disk /\ Recovered(D.now) \in Promise
  BY <1>1, Writes
<1>3. op.ok /\ Reversible(op, D, Promise) /\ Old(op, op.before) /\ op.before \subseteq Promise
      /\ op.gen \in Promise
  BY <1>1, <1>2 DEF Written, Replaced
<1>4. OpTypeOK' /\ op'.at = "undo" /\ SameWork /\ SameRest
  BY <1>1, GotoIs DEF RecordInv, AllPlaces, Writing, Replaced
<1>5. HistoryType'
  BY <1>1, HistoryKept DEF RecordInv
<1>6. OneStore(D, Promise) \/ OneStore(Synced(D), Promise)
  BY <1>1, <1>2, NothingWritten, SynchronizedOnly DEF RecordInv
<1>7. PICK e \in {D, Synced(D)} : OneStore(e, Promise)
  BY <1>6
<1>8. Lasting(e, Promise) /\ e.now = D.now /\ e.disk \subseteq D.disk
  <2>1. CASE e = D
    BY <1>2, <2>1
  <2>2. CASE e = Synced(D)
    BY <1>2, <2>2, SyncedKeeps
  <2> QED BY <2>1, <2>2
<1>9. Reversible(op', e, Promise)
  BY <1>3, <1>4, <1>8 DEF Reversible, Left, SameWork, SameRest
<1>10. Old(op', op'.before)
  BY <1>3, <1>4 DEF Old, SameCall, SameWork
<1>11. Written(op', e, Promise)
  BY <1>3, <1>4, <1>9, <1>10 DEF Written, Replacing, Replaced, SameWork, SameRest
<1>12. op'.at \in Writing
  BY <1>4 DEF Writing, Replaced
<1> QED BY <1>1, <1>4, <1>5, <1>7, <1>8, <1>11, <1>12, WritingGoesOn DEF SameWork

LEMMA UndoKeeps ==
  ASSUME RecordInv, Undo
  PROVE  RecordInv'
<1>1. /\ op.at = "undo" /\ op.at \in Writing /\ UNCHANGED memory /\ UNCHANGED promised
      /\ \/ SetFiles(S, RolledBack(D)) /\ Goto("undo_sync") /\ UNCHANGED history
         \/ Fault /\ UNCHANGED dir /\ op' = [op EXCEPT !.at = "undo_sync", !.ok = FALSE]
  BY DEF Undo, Writing, Replaced, At
<1>2. /\ S \in Stores /\ op.gen \in Nat /\ Written(op, D, Promise) /\ Directory(D)
      /\ Lasting(D, Promise) /\ D.now \in D.disk /\ D.now \in Files
  BY <1>1, Writes
<1>3. op.ok /\ Reversible(op, D, Promise) /\ Old(op, op.before) /\ op.before \subseteq Promise
  BY <1>1, <1>2 DEF Written, Replaced
<1>4. HistoryType'
  BY <1>1, HistoryKept DEF RecordInv
<1>5. "undo_sync" \in AllPlaces /\ "undo_sync" \in Writing
  BY DEF AllPlaces, Writing
<1>6. CASE SetFiles(S, RolledBack(D)) /\ Goto("undo_sync")
  <2>1. OpTypeOK' /\ op'.at = "undo_sync" /\ SameWork /\ SameRest
    BY <1>5, <1>6, GotoIs DEF RecordInv
  <2>e. PICK e : e = RolledBack(D)
    OBVIOUS
  <2>2. Directory(e) /\ Lasting(e, Promise) /\ InPlace(e.now) /\ Recovered(e.now) \in op.before
    <3>1. CASE op.backup
      <4>x. PICK x : x = D.now["bak"]
        OBVIOUS
      <4>1. x \in Nat /\ x \in op.before /\ e = Rename(D, "bak", "rms")
        BY <1>3, <2>e, <3>1, <4>x DEF Reversible, RolledBack
      <4>2. Directory(e) /\ Moved(e, D, "bak", x)
        BY <1>2, <4>1, <4>x, RenameMoves
      <4>3. Lasting(e, Promise)
        BY <1>2, <1>3, <4>1, <4>2, MoveKeeps
      <4>4. e.now["rms"] = x /\ x # Absent
        BY <4>1, <4>2, FilesAssumption DEF Moved
      <4>5. Recovered(e.now) = x
        BY <4>3, <4>4, RecoveredIs DEF Lasting
      <4> QED BY <4>1, <4>2, <4>3, <4>4, <4>5 DEF InPlace
    <3>2. CASE ~op.backup
      <4>1. /\ D.now["bak"] = Absent /\ D.now["tmp"] = Absent /\ Absent \in op.before
            /\ Left(D, Promise) /\ e = Unlink(D, "rms")
        BY <1>3, <2>e, <3>2 DEF Reversible, RolledBack
      <4>2. "tmp" \in Roles /\ "rms" \in Roles /\ "bak" \in Roles /\ Absent \in Values
            /\ Absent # Torn
        BY FilesAssumption DEF Roles, Values
      <4>3. Directory(e) /\ Follows(e, D, "rms", Absent) /\ Becomes(e, D, "rms", Absent)
        BY <1>2, <4>1, <4>2, Unlinked
      <4>4. Lasting(e, Promise)
        BY <1>2, <4>1, <4>2, <4>3, CanonicalKeeps
      <4>5. e.now = NoFiles
        BY <4>1, <4>2, <4>3, NoFilesAre, SameFiles DEF Becomes, Directory
      <4> QED BY <4>1, <4>3, <4>4, <4>5, NoFilesAre DEF InPlace
    <3> QED BY <3>1, <3>2
  <2>3. OneStore(e, Promise)
    BY <1>1, <1>2, <1>6, <2>2, <2>e, FileSetOnly DEF RecordInv
  <2>4. Old(op', op'.before)
    BY <1>3, <2>1 DEF Old, SameCall, SameWork
  <2>5. Written(op', e, Promise)
    BY <1>3, <2>1, <2>2, <2>4 DEF Written, Replacing, Replaced, SameWork
  <2> QED BY <1>1, <1>4, <1>5, <2>1, <2>2, <2>3, <2>5, WritingGoesOn DEF SameWork
<1>7. CASE UNCHANGED dir /\ op' = [op EXCEPT !.at = "undo_sync", !.ok = FALSE]
  <2>1. OpTypeOK' /\ op'.at = "undo_sync" /\ SameWork /\ op'.ok = FALSE
    BY <1>5, <1>7, FailedIs DEF RecordInv
  <2>2. OneStore(D, Promise)
    BY <1>1, <1>2, <1>7, NothingWritten DEF RecordInv
  <2>3. InPlace(D.now)
    BY <1>2, <1>3, FilesAssumption DEF InPlace, Reversible
  <2>4. Old(op', op'.before)
    BY <1>3, <2>1 DEF Old, SameCall, SameWork
  <2>5. Written(op', D, Promise)
    BY <1>3, <2>1, <2>3, <2>4 DEF Written, Replacing, Replaced, SameWork
  <2> QED BY <1>1, <1>2, <1>4, <1>5, <2>1, <2>2, <2>5, WritingGoesOn DEF SameWork
<1> QED BY <1>1, <1>6, <1>7

LEMMA UndoSyncKeeps ==
  ASSUME RecordInv, UndoSync
  PROVE  RecordInv'
<1>1. /\ op.at = "undo_sync" /\ op.at \in Writing /\ UNCHANGED memory
      /\ op' = [op EXCEPT !.at = "return", !.ok = FALSE] /\ (UNCHANGED history \/ Fault)
      /\ \/ /\ SyncAll
            /\ promised' = [promised EXCEPT ![S] = IF op.ok THEN op.before \ {Torn} ELSE @]
         \/ UNCHANGED <<dir, promised>>
  BY DEF UndoSync, Failed, Writing, At
<1>2. /\ S \in Stores /\ op.gen \in Nat /\ Written(op, D, Promise) /\ Directory(D)
      /\ Lasting(D, Promise) /\ D.now \in D.disk /\ D.now \in Files /\ Promise \subseteq Values
      /\ D.now["rms"] # Torn /\ D.now["bak"] # Torn /\ Recovered(D.now) \in Promise
      /\ (op.call = "change" => op.old \in Nat)
  BY <1>1, Writes
<1>3. /\ Old(op, op.before) /\ op.before \subseteq Promise
      /\ InPlace(D.now) /\ (op.ok => Recovered(D.now) \in op.before)
  BY <1>1, <1>2 DEF Written
<1>4. OpTypeOK' /\ op'.at = "return" /\ SameWork /\ op'.ok = FALSE
  BY <1>1, FailedIs DEF RecordInv, AllPlaces, Writing
<1>5. HistoryType'
  BY <1>1, HistoryKept DEF RecordInv
<1>6. op'.at \in Writing
  BY <1>4 DEF Writing
<1>7. CASE SyncAll /\ promised' = [promised EXCEPT ![S] = IF op.ok THEN op.before \ {Torn} ELSE @]
  <2>q. PICK Q : Q = IF op.ok THEN op.before \ {Torn} ELSE Promise
    OBVIOUS
  <2>e. PICK e : e = Synced(D)
    OBVIOUS
  <2>1. promised' = [promised EXCEPT ![S] = Q]
    BY <1>2, <1>7, <2>q DEF RecordInv, TypeOK, Promise
  <2>2. Q \subseteq Values
    BY <1>2, <1>3, <2>q
  <2>3. Recovered(D.now) # Torn
    <3>1. CASE D.now["rms"] # Absent
      BY <1>2, <3>1, RecoveredIs
    <3>2. CASE D.now = NoFiles
      BY <3>2, NoFilesAre, FilesAssumption
    <3> QED BY <1>3, <3>1, <3>2 DEF InPlace
  <2>4. Recovered(D.now) \in Q
    BY <1>2, <1>3, <2>3, <2>q
  <2>5. Lasting(e, Q) /\ e.now = D.now
    BY <1>2, <2>4, <2>e, SyncedKeeps
  <2>6. OneStore(e, Q)
    BY <1>2, <1>7, <2>1, <2>2, <2>e, Synchronized DEF RecordInv
  <2>7. Old(op', Q)
    BY <1>2, <1>3, <1>4, <2>q, FilesAssumption DEF Old, SameCall, SameWork
  <2>8. Written(op', e, Q)
    BY <1>3, <1>4, <2>5, <2>7 DEF Written, Replacing, Replaced
  <2> QED BY <1>1, <1>4, <1>5, <1>6, <2>5, <2>6, <2>8, WritingGoesOn DEF SameWork
<1>8. CASE UNCHANGED <<dir, promised>>
  <2>1. OneStore(D, Promise)
    BY <1>2, <1>8, NothingWritten DEF RecordInv
  <2>2. Old(op', Promise)
    BY <1>3, <1>4 DEF Old, SameCall, SameWork
  <2>3. Written(op', D, Promise)
    BY <1>3, <1>4, <2>2 DEF Written, Replacing, Replaced
  <2> QED BY <1>1, <1>2, <1>4, <1>5, <1>6, <2>1, <2>3, WritingGoesOn DEF SameWork
<1> QED BY <1>1, <1>7, <1>8

-----------------------------------------------------------------------------
(***************************************************************************)
(* A call begins: no other is in progress, and its store is at rest.       *)
(***************************************************************************)
LEMMA AllRest ==
  ASSUME RecordInv, op.at \in {"idle", "next"}, NEW s \in Stores
  PROVE  /\ Rests(s) /\ (opens[s] > 0 \/ pending[s] => loaded[s] # Absent)
         /\ Lasting(dir[s], promised[s])
BY StoresAssumption DEF RecordInv, CallInv, StoreInv, At

LEMMA CallBegins ==
  ASSUME RecordInv, op.at \in {"idle", "next"}, OpTypeOK', UNCHANGED dir, UNCHANGED promised,
         MemoryType', HistoryType',
         \A t \in Stores : /\ opens'[t] > 0 \/ pending'[t] => loaded'[t] # Absent
                           /\ t # S' => SameMemory(t)
  PROVE  TypeOK' /\ StoreInv' /\ D' = dir[S'] /\ Promise' = promised[S']
<1>1. S' \in Stores \cup {NoStore} /\ op'.rest \subseteq Stores
  BY DEF OpTypeOK, S
<1>2. TypeOK'
  <2>1. (TypeOK <=> /\ dir \in DirType /\ promised \in PromiseType /\ MemoryType /\ HistoryType
                    /\ S \in Stores \cup {NoStore} /\ op.rest \subseteq Stores)'
    BY TypeParts, PTL
  <2>2. dir \in DirType /\ promised \in PromiseType
    BY TypeParts DEF RecordInv
  <2> QED BY <1>1, <2>1, <2>2
<1>3. ASSUME NEW s \in Stores
      PROVE  /\ Lasting(dir'[s], promised'[s])
             /\ opens'[s] > 0 \/ pending'[s] => loaded'[s] # Absent
             /\ S' # s => Rests(s)'
  BY AllRest DEF Rests, SameMemory
<1>4. StoreInv'
  BY <1>3 DEF StoreInv
<1>5. D' = dir[S'] /\ Promise' = promised[S']
  BY DEF D, Promise
<1> QED BY <1>2, <1>4, <1>5

LEMMA MemoryKept ==
  ASSUME RecordInv, UNCHANGED memory
  PROVE  /\ MemoryType'
         /\ \A t \in Stores : SameMemory(t) /\ (opens'[t] > 0 \/ pending'[t] => loaded'[t] # Absent)
BY DEF RecordInv, TypeOK, MemoryType, memory, SameMemory, StoreInv

\* Nothing but the count of a store that is in memory.
LEMMA CountKept ==
  ASSUME RecordInv, NEW s \in Stores, loaded[s] # Absent, NEW n \in Nat,
         opens' = [opens EXCEPT ![s] = n], UNCHANGED <<loaded, pending, anyPending>>
  PROVE  /\ MemoryType'
         /\ \A t \in Stores : opens'[t] > 0 \/ pending'[t] => loaded'[t] # Absent
         /\ \A t \in Stores : t # s => SameMemory(t)
BY DEF RecordInv, TypeOK, MemoryType, SameMemory, StoreInv

LEMMA StaysIdle ==
  ASSUME RecordInv, At("idle"), UNCHANGED op, UNCHANGED dir, UNCHANGED promised, HistoryType',
         NEW s \in Stores, loaded[s] # Absent, NEW n \in Nat,
         opens' = [opens EXCEPT ![s] = n], UNCHANGED <<loaded, pending, anyPending>>
  PROVE  RecordInv'
<1>1. op.at = "idle" /\ op'.at = "idle" /\ OpTypeOK' /\ S = NoStore /\ S' = NoStore
  BY DEF At, RecordInv, CallInv, OpTypeOK, S
<1>2. /\ MemoryType'
      /\ \A t \in Stores : opens'[t] > 0 \/ pending'[t] => loaded'[t] # Absent
  BY CountKept
<1>3. ASSUME NEW t \in Stores
      PROVE  /\ Lasting(dir'[t], promised'[t]) /\ Rests(t)'
             /\ opens'[t] > 0 \/ pending'[t] => loaded'[t] # Absent
  BY <1>1, <1>2, AllRest DEF Rests
<1>4. TypeOK'
  <2>1. (TypeOK <=> /\ dir \in DirType /\ promised \in PromiseType /\ MemoryType /\ HistoryType
                    /\ S \in Stores \cup {NoStore} /\ op.rest \subseteq Stores)'
    BY TypeParts, PTL
  <2>2. dir \in DirType /\ promised \in PromiseType /\ op.rest \subseteq Stores
    BY TypeParts DEF RecordInv
  <2> QED BY <1>1, <1>2, <2>1, <2>2
<1>5. StoreInv'
  BY <1>3 DEF StoreInv
<1>6. CallInv'
  BY <1>1, StoresAssumption DEF RecordInv, CallInv, At, S
<1>7. RecoverInv' /\ WriteInv' /\ DeleteInv'
  BY <1>1, Between
<1> QED BY <1>1, <1>4, <1>5, <1>6, <1>7 DEF RecordInv

\* The directory is searched for a store that is not in memory.
LEMMA SearchBegins ==
  ASSUME RecordInv, At("idle"), NEW s \in Stores, loaded[s] = Absent,
         NEW name \in {"open", "create", "delete"}, op' = Call(name, s, "recover"),
         UNCHANGED <<dir, memory, promised>>, HistoryType', name = "delete" => opens[s] = 0
  PROVE  RecordInv'
<1>1. op.at = "idle"
  BY DEF At
<1>2. /\ op'.at = "recover" /\ S' = s /\ op'.call = name /\ op'.ok = TRUE /\ op'.rest = {}
      /\ OpTypeOK'
  BY NoFilesAre DEF Call, Idle, OpTypeOK, S, Names, AllPlaces, Recovering, Values
<1>3. MemoryType' /\ \A t \in Stores : SameMemory(t) /\ (opens'[t] > 0 \/ pending'[t] => loaded'[t] # Absent)
  BY MemoryKept
<1>4. TypeOK' /\ StoreInv' /\ D' = dir[S'] /\ Promise' = promised[S']
  BY <1>1, <1>2, <1>3, CallBegins
<1>5. CallInv'
  BY <1>2 DEF CallInv, At, Flushes, memory
<1>6. Rests(S)'
  BY <1>2 DEF Rests, memory
<1>7. RecoverInv'
  BY <1>2, <1>6 DEF RecoverInv, At, memory
<1>8. WriteInv' /\ DeleteInv'
  BY <1>2, AtRecovering DEF Recovering
<1> QED BY <1>2, <1>4, <1>5, <1>7, <1>8 DEF RecordInv

LEMMA OpenKeeps ==
  ASSUME RecordInv, NEW s \in Stores, NEW create \in BOOLEAN, Open(s, create)
  PROVE  RecordInv'
<1>1. At("idle") /\ UNCHANGED <<dir, loaded, pending, anyPending, promised>> /\ UNCHANGED history
  BY DEF Open, Begin
<1>2. HistoryType'
  BY <1>1, HistoryKept DEF RecordInv
<1>3. CASE loaded[s] # Absent
  <2>1. opens' = [opens EXCEPT ![s] = opens[s] + 1] /\ UNCHANGED op
    BY <1>3 DEF Open, Counted
  <2>2. opens[s] + 1 \in Nat
    BY DEF RecordInv, TypeOK
  <2> QED BY <1>1, <1>2, <1>3, <2>1, <2>2, StaysIdle
<1>4. CASE loaded[s] = Absent
  <2>1. op' = Call(IF create THEN "create" ELSE "open", s, "recover") /\ UNCHANGED opens
    BY <1>4 DEF Open, Begin
  <2>n. PICK name \in {"open", "create"} : name = IF create THEN "create" ELSE "open"
    OBVIOUS
  <2> QED BY <1>1, <1>2, <1>4, <2>1, <2>n, SearchBegins DEF memory
<1> QED BY <1>3, <1>4

\* A generation in memory is to be written, in place of what the promise is about.
LEMMA WriteBegins ==
  ASSUME RecordInv, op.at \in {"idle", "next"}, OpTypeOK', UNCHANGED dir, UNCHANGED promised,
         MemoryType', HistoryType',
         \A t \in Stores : /\ opens'[t] > 0 \/ pending'[t] => loaded'[t] # Absent
                           /\ t # S' => SameMemory(t),
         op'.at = "write", S' \in Stores, op'.gen \in Nat, op'.ok,
         op'.call \in {"change", "close"} \cup Flushes, loaded'[S'] = op'.gen,
         InPlace(dir[S'].now),
         op'.call = "change" => op'.old \in Nat /\ (~pending'[S'] => op'.old \in promised[S']),
         op'.call # "change" => pending'[S'],
         op'.call \in Flushes => S' \notin op'.rest /\ \A t \in op'.rest : pending'[t]
  PROVE  RecordInv'
<1>1. TypeOK' /\ StoreInv' /\ D' = dir[S'] /\ Promise' = promised[S']
  BY CallBegins
<1>2. CallInv'
  BY DEF CallInv, At, Flushes
<1>3. op'.store = S'
  BY DEF S
<1>4. Written(op, D, Promise)'
  BY <1>1, <1>3 DEF Written, Old, Replacing, Replaced
<1>5. WriteInv'
  BY <1>4 DEF WriteInv, Flushes
<1>6. RecoverInv' /\ DeleteInv'
  BY AtWriting DEF Writing
<1> QED BY <1>1, <1>2, <1>5, <1>6 DEF RecordInv

LEMMA ChangeKeeps ==
  ASSUME RecordInv, op.at \in {"idle", "next"}, NEW s \in Stores, Change(s)
  PROVE  RecordInv'
<1>g. PICK g : g = fresh[s] + 1
  OBVIOUS
<1>1. /\ opens[s] > 0 /\ fresh' = [fresh EXCEPT ![s] = @ + 1] /\ loaded' = [loaded EXCEPT ![s] = g]
      /\ UNCHANGED <<dir, opens, promised, writeThrough, faults, crashes>>
  BY <1>g DEF Change
<1>2. g \in Nat /\ g # Absent /\ g \in Values
  BY <1>g, FilesAssumption DEF RecordInv, TypeOK, Values
<1>3. HistoryType'
  BY <1>1 DEF RecordInv, TypeOK, HistoryType
<1>4. Rests(s) /\ loaded[s] # Absent
  BY <1>1, AllRest
<1>5. loaded[s] \in Nat /\ InPlace(dir[s].now) /\ (~pending[s] => loaded[s] \in promised[s])
  BY <1>4 DEF Rests, RecordInv, TypeOK
<1>6. /\ loaded' \in [Stores -> Nat \cup {Absent}] /\ loaded'[s] = g
      /\ \A t \in Stores \ {s} : loaded'[t] = loaded[t]
  BY <1>1, <1>2 DEF RecordInv, TypeOK
<1>7. CASE writeThrough
  <2>1. /\ op' = [Call("change", s, "write") EXCEPT !.gen = g, !.old = loaded[s]]
        /\ UNCHANGED <<pending, anyPending>>
    BY <1>7, <1>g DEF Change
  <2>2. /\ op'.at = "write" /\ op'.store = s /\ op'.call = "change" /\ op'.ok = TRUE /\ op'.gen = g
        /\ op'.old = loaded[s] /\ OpTypeOK'
    BY <1>2, <1>5, <2>1, NoFilesAre
       DEF Call, Idle, OpTypeOK, Names, AllPlaces, Writing, Values
  <2>s. S' = s
    BY <2>2 DEF S
  <2>3. MemoryType'
    BY <1>1, <1>6, <2>1 DEF MemoryType, RecordInv, TypeOK
  <2>4. \A t \in Stores : /\ opens'[t] > 0 \/ pending'[t] => loaded'[t] # Absent
                          /\ t # S' => SameMemory(t)
    BY <1>1, <1>2, <1>6, <2>1, <2>s DEF SameMemory, RecordInv, StoreInv
  <2>5. op'.call = "change" => op'.old \in Nat /\ (~pending'[S'] => op'.old \in promised[S'])
    BY <1>5, <2>1, <2>2, <2>s
  <2> QED BY <1>1, <1>2, <1>3, <1>5, <1>6, <2>2, <2>s, <2>3, <2>4, <2>5, WriteBegins DEF Flushes
<1>8. CASE ~writeThrough
  <2>1. /\ op' = Idle /\ pending' = [pending EXCEPT ![s] = TRUE]
        /\ anyPending' = (anyPending \/ ~pending[s])
    BY <1>8 DEF Change, Hints
  <2>2. MemoryType'
    <3>1. anyPending' \in BOOLEAN
      BY <2>1
    <3>2. pending' \in [Stores -> BOOLEAN]
      BY <2>1 DEF RecordInv, TypeOK
    <3> QED BY <1>1, <1>6, <3>1, <3>2 DEF MemoryType, RecordInv, TypeOK
  <2>3. dir' \in DirType /\ promised' \in PromiseType
    BY <1>1, TypeParts DEF RecordInv
  <2>4. ASSUME NEW t \in Stores
        PROVE  /\ Lasting(dir'[t], promised'[t]) /\ Rests(t)'
               /\ opens'[t] > 0 \/ pending'[t] => loaded'[t] # Absent
    <3>1. Rests(t) /\ (opens[t] > 0 \/ pending[t] => loaded[t] # Absent) /\ Lasting(dir[t], promised[t])
      BY AllRest
    <3>2. pending'[s] = TRUE /\ (t # s => pending'[t] = pending[t])
      BY <2>1 DEF RecordInv, TypeOK
    <3>3. CASE t = s
      BY <1>1, <1>2, <1>5, <1>6, <3>1, <3>2, <3>3 DEF Rests
    <3>4. CASE t # s
      BY <1>1, <1>6, <3>1, <3>2, <3>4 DEF Rests
    <3> QED BY <3>3, <3>4
  <2> QED BY <1>3, <2>1, <2>2, <2>3, <2>4, CallEnds
<1> QED BY <1>7, <1>8

LEMMA SetRecordKeeps ==
  ASSUME RecordInv, NEW s \in Stores, SetRecord(s)
  PROVE  RecordInv'
BY ChangeKeeps DEF SetRecord, At

LEMMA CloseKeeps ==
  ASSUME RecordInv, NEW s \in Stores, Close(s)
  PROVE  RecordInv'
<1>1. /\ opens[s] > 0 /\ opens' = [opens EXCEPT ![s] = opens[s] - 1] /\ At("idle")
      /\ UNCHANGED <<loaded, pending, anyPending>> /\ UNCHANGED dir /\ UNCHANGED promised
      /\ UNCHANGED history
  BY DEF Close, Begin
<1>2. HistoryType'
  BY <1>1, HistoryKept DEF RecordInv
<1>3. op.at = "idle" /\ opens[s] - 1 \in Nat
  BY <1>1 DEF At, RecordInv, TypeOK
<1>4. Rests(s) /\ loaded[s] # Absent
  BY <1>1, <1>3, AllRest
<1>5. loaded[s] \in Nat /\ InPlace(dir[s].now) /\ loaded[s] \in Values
  BY <1>4 DEF Rests, RecordInv, TypeOK, Values
<1>6. /\ MemoryType'
      /\ \A t \in Stores : opens'[t] > 0 \/ pending'[t] => loaded'[t] # Absent
      /\ \A t \in Stores : t # s => SameMemory(t)
  BY <1>1, <1>3, <1>4, CountKept
<1>7. CASE opens[s] = 1 /\ pending[s]
  <2>1. op' = [Call("close", s, "write") EXCEPT !.gen = loaded[s]]
    BY <1>7 DEF Close, Begin
  <2>2. /\ op'.at = "write" /\ op'.store = s /\ op'.call = "close" /\ op'.ok = TRUE
        /\ op'.gen = loaded[s] /\ OpTypeOK'
    BY <1>5, <2>1, NoFilesAre DEF Call, Idle, OpTypeOK, Names, AllPlaces, Writing, Values
  <2>s. S' = s
    BY <2>2 DEF S
  <2> QED BY <1>1, <1>2, <1>3, <1>5, <1>6, <1>7, <2>2, <2>s, WriteBegins DEF Flushes
<1>8. CASE ~(opens[s] = 1 /\ pending[s])
  <2>1. UNCHANGED op
    BY <1>8 DEF Close
  <2> QED BY <1>1, <1>2, <1>3, <1>4, <2>1, StaysIdle
<1> QED BY <1>7, <1>8

-----------------------------------------------------------------------------
(***************************************************************************)
(* A call returns.                                                         *)
(***************************************************************************)
\* A call ends with the files as they are and its store in memory.
LEMMA EndsInMemory ==
  ASSUME RecordInv, S \in Stores, op' = Idle, UNCHANGED dir, UNCHANGED promised, UNCHANGED history,
         MemoryType', \A s \in Stores \ {S} : SameMemory(s),
         opens'[S] > 0 \/ pending'[S] => loaded'[S] # Absent,
         loaded'[S] # Absent => InPlace(D.now) /\ (~pending'[S] => loaded'[S] \in Promise)
  PROVE  RecordInv'
<1>1. HistoryType'
  BY HistoryKept DEF RecordInv
<1>2. OneStore(D, Promise) /\ Lasting(D, Promise)
  BY NothingWritten, Directories DEF RecordInv, D, Promise
<1> QED BY <1>1, <1>2, EndsSo DEF RecordInv

\* What has been read or written is the generation that a restart would find.
LEMMA GenerationIs ==
  ASSUME RecordInv, At("recovered") \/ (At("return") /\ op.ok)
  PROVE  S \in Stores /\ op.gen \in Nat /\ op.gen # Absent /\ InPlace(D.now) /\ op.gen \in Promise
<1>1. CASE At("recovered")
  <2>1. op.at \in Recovering /\ ~At("recover")
    BY <1>1 DEF Recovering, At
  <2>2. /\ S \in Stores /\ op.gen = D.now["rms"] /\ op.gen \in Nat /\ D.now \in Files
        /\ D.now["rms"] # Torn /\ D.now["bak"] # Torn /\ Recovered(D.now) \in Promise
    BY <2>1, Recovers
  <2>3. op.gen # Absent
    BY <2>2, FilesAssumption
  <2>4. Recovered(D.now) = op.gen
    BY <2>2, <2>3, RecoveredIs
  <2> QED BY <2>2, <2>3, <2>4 DEF InPlace
<1>2. CASE At("return") /\ op.ok
  <2>1. op.at \in Writing
    BY <1>2 DEF Writing, At
  <2>2. S \in Stores /\ op.gen \in Nat /\ Written(op, D, Promise)
    BY <2>1, Writes
  <2> QED BY <1>2, <2>2, FilesAssumption DEF Written, At
<1> QED BY <1>1, <1>2

LEMMA OpenedKeeps ==
  ASSUME RecordInv, Opened
  PROVE  RecordInv'
<1>1. /\ At("recovered") \/ (At("return") /\ op.ok)
      /\ loaded' = [loaded EXCEPT ![S] = op.gen] /\ UNCHANGED <<pending, anyPending>>
      /\ opens' = [opens EXCEPT ![S] = @ + 1] /\ op' = Idle
      /\ UNCHANGED dir /\ UNCHANGED promised /\ UNCHANGED history
  BY DEF Opened, Load, Counted
<1>2. S \in Stores /\ op.gen \in Nat /\ op.gen # Absent /\ InPlace(D.now) /\ op.gen \in Promise
  BY <1>1, GenerationIs
<1>3. MemoryType' /\ loaded'[S] = op.gen /\ \A s \in Stores \ {S} : SameMemory(s)
  BY <1>1, <1>2 DEF RecordInv, TypeOK, MemoryType, SameMemory
<1> QED BY <1>1, <1>2, <1>3, EndsInMemory

LEMMA NotCreatedKeeps ==
  ASSUME RecordInv, NotCreated
  PROVE  RecordInv'
<1>1. /\ op.call = "create" /\ op.at = "return" /\ op' = Idle
      /\ UNCHANGED <<dir, memory, promised>> /\ UNCHANGED history
  BY DEF NotCreated, Fails, At
<1>2. S \in Stores /\ loaded[S] = Absent
  BY <1>1, Writes DEF Writing
<1>3. HistoryType'
  BY <1>1, HistoryKept DEF RecordInv
<1> QED BY <1>1, <1>2, <1>3, EndsAtOnce DEF RecordInv, Rests

LEMMA ChangeReturnsKeeps ==
  ASSUME RecordInv, ChangeReturns
  PROVE  RecordInv'
<1>1. /\ op.call = "change" /\ op.at = "return" /\ op' = Idle
      /\ loaded' = IF op.ok THEN loaded ELSE [loaded EXCEPT ![S] = op.old]
      /\ UNCHANGED <<opens, pending, anyPending>> /\ UNCHANGED dir /\ UNCHANGED promised
      /\ UNCHANGED history
  BY DEF ChangeReturns, At
<1>2. S \in Stores /\ op.gen \in Nat /\ loaded[S] = op.gen /\ op.old \in Nat /\ Written(op, D, Promise)
  BY <1>1, Writes DEF Writing
<1>3. InPlace(D.now) /\ (IF op.ok THEN op.gen \in Promise ELSE Old(op, Promise))
  BY <1>1, <1>2 DEF Written
<1>4. ~op.ok /\ ~pending[S] => op.old \in Promise
  BY <1>1, <1>3 DEF Old, S
<1>5. CASE op.ok
  <2>1. MemoryType' /\ loaded'[S] = op.gen /\ \A s \in Stores \ {S} : SameMemory(s)
    BY <1>1, <1>2, <1>5 DEF RecordInv, TypeOK, MemoryType, SameMemory
  <2> QED BY <1>1, <1>2, <1>3, <1>5, <2>1, EndsInMemory, FilesAssumption
<1>6. CASE ~op.ok
  <2>1. MemoryType' /\ loaded'[S] = op.old /\ \A s \in Stores \ {S} : SameMemory(s)
    BY <1>1, <1>2, <1>6 DEF RecordInv, TypeOK, MemoryType, SameMemory
  <2>2. opens'[S] > 0 \/ pending'[S] => loaded'[S] # Absent
    BY <1>2, <2>1, FilesAssumption
  <2>3. loaded'[S] # Absent => InPlace(D.now) /\ (~pending'[S] => loaded'[S] \in Promise)
    BY <1>1, <1>3, <1>4, <1>6, <2>1
  <2> QED BY <1>1, <1>2, <2>1, <2>2, <2>3, EndsInMemory
<1> QED BY <1>5, <1>6

\* The generation of a deferred change has been written, or it stays deferred.
LEMMA Flushing ==
  ASSUME RecordInv, op.call \in {"close"} \cup Flushes, At("return"),
         UNCHANGED <<loaded, opens, anyPending>>, IF op.ok THEN Cleared ELSE UNCHANGED pending
  PROVE  /\ S \in Stores /\ InPlace(D.now) /\ loaded'[S] # Absent /\ MemoryType'
         /\ (~pending'[S] => loaded'[S] \in Promise) /\ \A s \in Stores \ {S} : SameMemory(s)
<1>1. /\ S \in Stores /\ op.gen \in Nat /\ loaded[S] = op.gen /\ Written(op, D, Promise)
      /\ pending[S]
  BY Writes DEF Writing, At, Flushes
<1>2. InPlace(D.now) /\ (op.ok => op.gen \in Promise)
  BY <1>1 DEF Written, At
<1>3. MemoryType' /\ \A s \in Stores \ {S} : SameMemory(s)
  BY <1>1 DEF RecordInv, TypeOK, MemoryType, SameMemory, Cleared
<1>4. ~pending'[S] => loaded'[S] \in Promise
  BY <1>1, <1>2
<1> QED BY <1>1, <1>2, <1>3, <1>4, FilesAssumption

LEMMA CloseReturnsKeeps ==
  ASSUME RecordInv, CloseReturns
  PROVE  RecordInv'
<1>1. /\ op.call \in {"close"} \cup Flushes /\ At("return") /\ op' = Idle
      /\ UNCHANGED <<loaded, opens, anyPending>> /\ UNCHANGED dir /\ UNCHANGED promised
      /\ UNCHANGED history /\ IF op.ok THEN Cleared ELSE UNCHANGED pending
  BY DEF CloseReturns
<1>2. /\ S \in Stores /\ InPlace(D.now) /\ loaded'[S] # Absent /\ MemoryType'
      /\ (~pending'[S] => loaded'[S] \in Promise) /\ \A s \in Stores \ {S} : SameMemory(s)
  BY <1>1, Flushing
<1> QED BY <1>1, <1>2, EndsInMemory

-----------------------------------------------------------------------------
(***************************************************************************)
(* A deletion.                                                             *)
(***************************************************************************)
LEMMA Deletes ==
  ASSUME RecordInv, op.at \in {"stage"} \cup Staged
  PROVE  /\ S \in Stores /\ op.call = "delete" /\ loaded[S] # Absent /\ opens[S] = 0
         /\ At("stage") => Rests(S) /\ op.ok
         /\ op.at \in Staged => Aside(op, D, Promise)
         /\ Directory(D) /\ Lasting(D, Promise) /\ D.now \in Files /\ D.now \in D.disk
         /\ Promise \subseteq Values /\ op.before \subseteq Values
         /\ D.now["rms"] # Torn /\ D.now["bak"] # Torn /\ Recovered(D.now) \in Promise
<1>1. /\ S \in Stores /\ op.call = "delete" /\ loaded[S] # Absent /\ opens[S] = 0
      /\ At("stage") => Rests(S) /\ op.ok
      /\ op.at \in Staged => Aside(op, D, Promise)
  BY DEF RecordInv, DeleteInv, CallInv
<1>2. Directory(D) /\ Lasting(D, Promise) /\ Promise \subseteq Values
  BY <1>1, Directories DEF RecordInv, D, Promise
<1>3. op.before \subseteq Values
  BY DEF RecordInv, OpTypeOK
<1> QED BY <1>1, <1>2, <1>3 DEF Lasting

LEMMA StagingGoesOn ==
  ASSUME RecordInv, op.at \in {"stage"} \cup Staged, UNCHANGED memory, HistoryType', OpTypeOK',
         SameCall, op'.at \in Staged, NEW d, NEW Q, OneStore(d, Q), Lasting(d, Q),
         Aside(op', d, Q)
  PROVE  RecordInv'
<1>1. S \in Stores /\ op.call = "delete" /\ loaded[S] # Absent
  BY Deletes
<1>2. TypeOK' /\ StoreInv' /\ CallInv' /\ S' = S /\ D' = d /\ Promise' = Q
  <2>1. op'.at \notin {"idle", "next"}
    BY DEF Staged
  <2> QED BY <1>1, <2>1, CallGoesOn DEF RecordInv
<1>3. Aside(op, D, Promise)'
  <2>1. pending' = pending /\ loaded' = loaded
    BY DEF memory
  <2> QED BY <1>2, <2>1 DEF Aside, Left
<1>4. DeleteInv'
  BY <1>1, <1>2, <1>3 DEF DeleteInv, SameCall, memory, At, Staged
<1>5. RecoverInv' /\ WriteInv'
  BY AtStaging
<1> QED BY <1>2, <1>4, <1>5 DEF RecordInv

LEMMA DeleteKeeps ==
  ASSUME RecordInv, NEW s \in Stores, Delete(s)
  PROVE  RecordInv'
<1>1. opens[s] = 0 /\ At("idle") /\ UNCHANGED <<dir, memory, promised>> /\ UNCHANGED history
  BY DEF Delete, Begin
<1>2. HistoryType'
  BY <1>1, HistoryKept DEF RecordInv
<1>3. CASE loaded[s] = Absent
  <2>1. op' = Call("delete", s, "recover")
    BY <1>3 DEF Delete, Begin
  <2> QED BY <1>1, <1>2, <1>3, <2>1, SearchBegins
<1>4. CASE loaded[s] # Absent
  <2>1. op' = [Call("delete", s, "stage") EXCEPT !.gen = loaded[s]]
    BY <1>4 DEF Delete, Begin
  <2>2. loaded[s] \in Values
    BY DEF RecordInv, TypeOK, Values
  <2>3. /\ op'.at = "stage" /\ S' = s /\ op'.call = "delete" /\ op'.ok = TRUE /\ op'.rest = {}
        /\ OpTypeOK'
    BY <2>1, <2>2, NoFilesAre DEF Call, Idle, OpTypeOK, S, Names, AllPlaces, Values
  <2>4. MemoryType' /\ \A t \in Stores : SameMemory(t) /\ (opens'[t] > 0 \/ pending'[t] => loaded'[t] # Absent)
    BY <1>1, MemoryKept
  <2>5. op.at = "idle"
    BY <1>1 DEF At
  <2>6. TypeOK' /\ StoreInv' /\ D' = dir[S'] /\ Promise' = promised[S']
    BY <1>1, <1>2, <2>3, <2>4, <2>5, CallBegins
  <2>7. CallInv'
    BY <1>1, <2>3 DEF CallInv, At, Flushes, memory
  <2>8. Rests(s)
    BY <2>5, AllRest
  <2>9. DeleteInv'
    BY <1>1, <1>4, <2>3, <2>8 DEF DeleteInv, At, Staged, memory, Rests
  <2>10. RecoverInv' /\ WriteInv'
    BY <2>3, AtStaging
  <2> QED BY <2>3, <2>6, <2>7, <2>9, <2>10 DEF RecordInv
<1> QED BY <1>3, <1>4

LEMMA DeleteLoadsKeeps ==
  ASSUME RecordInv, DeleteLoads
  PROVE  RecordInv'
<1>1. /\ op.call = "delete" /\ op.at = "recovered" /\ Goto("stage")
      /\ loaded' = [loaded EXCEPT ![S] = op.gen] /\ UNCHANGED <<pending, anyPending>>
      /\ UNCHANGED <<dir, opens, promised>> /\ UNCHANGED history
  BY DEF DeleteLoads, Load, At
<1>2. S \in Stores /\ op.gen \in Nat /\ op.gen # Absent /\ InPlace(D.now) /\ op.gen \in Promise
  BY <1>1, GenerationIs DEF At
<1>3. op.ok /\ opens[S] = 0
  BY <1>1, Recovers DEF Recovering, RecordInv, CallInv
<1>4. OpTypeOK' /\ op'.at = "stage" /\ SameWork /\ SameRest
  BY <1>1, GotoIs DEF RecordInv, AllPlaces
<1>5. HistoryType'
  BY <1>1, HistoryKept DEF RecordInv
<1>6. MemoryType' /\ loaded'[S] = op.gen /\ \A s \in Stores \ {S} : SameMemory(s)
  BY <1>1, <1>2 DEF RecordInv, TypeOK, MemoryType, SameMemory
<1>7. S' = S /\ op'.rest = op.rest /\ op'.into = op.into /\ op'.call = "delete"
  BY <1>1, <1>4 DEF SameWork, SameCall, S
<1>8. TypeOK'
  <2>1. (TypeOK <=> /\ dir \in DirType /\ promised \in PromiseType /\ MemoryType /\ HistoryType
                    /\ S \in Stores \cup {NoStore} /\ op.rest \subseteq Stores)'
    BY TypeParts, PTL
  <2>2. dir \in DirType /\ promised \in PromiseType /\ op.rest \subseteq Stores
    BY TypeParts DEF RecordInv
  <2> QED BY <1>1, <1>2, <1>5, <1>6, <1>7, <2>1, <2>2
<1>9. Rests(S)'
  BY <1>1, <1>2, <1>6, <1>7 DEF Rests, D, Promise
<1>10. ASSUME NEW s \in Stores
       PROVE  /\ Lasting(dir'[s], promised'[s])
              /\ opens'[s] > 0 \/ pending'[s] => loaded'[s] # Absent
              /\ S' # s => Rests(s)'
  <2>1. CASE s = S
    BY <1>1, <1>2, <1>6, <1>7, <2>1 DEF RecordInv, StoreInv
  <2>2. CASE s # S
    BY <1>1, <1>6, <2>2, OtherStore DEF RecordInv
  <2> QED BY <2>1, <2>2
<1>11. StoreInv'
  BY <1>10 DEF StoreInv
<1>12. CallInv'
  BY <1>1, <1>2, <1>3, <1>4, <1>7 DEF CallInv, At, Flushes
<1>13. DeleteInv'
  BY <1>2, <1>3, <1>4, <1>6, <1>7, <1>9 DEF DeleteInv, At, Staged, SameRest
<1>14. RecoverInv' /\ WriteInv'
  BY <1>4, AtStaging
<1> QED BY <1>4, <1>8, <1>11, <1>12, <1>13, <1>14 DEF RecordInv

LEMMA NothingToStageKeeps ==
  ASSUME RecordInv, NothingToStage
  PROVE  RecordInv'
<1>1. /\ At("stage") /\ op' = Idle /\ UNCHANGED <<dir, memory, promised>>
      /\ UNCHANGED history
  BY DEF NothingToStage
<1>2. Rests(S)
  BY <1>1, Deletes DEF At
<1>3. HistoryType'
  BY <1>1, HistoryKept DEF RecordInv
<1> QED BY <1>1, <1>2, <1>3, EndsAtOnce DEF RecordInv

LEMMA StageKeeps ==
  ASSUME RecordInv, Stage
  PROVE  RecordInv'
<1>q. PICK Q : Q = Promise \cup {Absent} \cup LeftBehind(D)
  OBVIOUS
<1>c. PICK c : c = Unlink(D, "rms")
  OBVIOUS
<1>m. PICK m : m = Unlink(c, "tmp")
  OBVIOUS
<1>e. PICK e : e = Unlink(m, "bak")
  OBVIOUS
<1>1. /\ op.at = "stage" /\ UNCHANGED memory /\ UNCHANGED history /\ SetFiles(S, e)
      /\ op' = [op EXCEPT !.at = "delete_sync", !.moved = D.now, !.before = promised[S]]
      /\ promised' = [promised EXCEPT ![S] = @ \cup {Absent} \cup LeftBehind(D)]
  BY <1>c, <1>m, <1>e DEF Stage, At
<1>2. /\ S \in Stores /\ loaded[S] # Absent /\ Rests(S) /\ op.ok /\ Directory(D)
      /\ Lasting(D, Promise) /\ D.now \in Files /\ D.now \in D.disk /\ Promise \subseteq Values
      /\ D.now["rms"] # Torn /\ D.now["bak"] # Torn /\ Recovered(D.now) \in Promise
  BY <1>1, Deletes DEF At
<1>3. promised' = [promised EXCEPT ![S] = Q]
  BY <1>1, <1>2, <1>q DEF RecordInv, TypeOK, Promise
<1>4. /\ OpTypeOK' /\ op'.at = "delete_sync" /\ SameCall /\ op'.ok = op.ok
      /\ op'.moved = D.now /\ op'.before = Promise
  BY <1>1, <1>2 DEF RecordInv, OpTypeOK, SameCall, AllPlaces, Staged, Promise
<1>5. HistoryType'
  BY <1>1, HistoryKept DEF RecordInv
<1>6. "tmp" \in Roles /\ "rms" \in Roles /\ "bak" \in Roles /\ Absent \in Values /\ Absent # Torn
  BY FilesAssumption DEF Roles, Values
<1>7. Promise \subseteq Q /\ Q \subseteq Values /\ Absent \in Q
  <2>1. LeftBehind(D) \subseteq Values
    BY <1>2, FileTypes DEF LeftBehind, Directory
  <2> QED BY <1>2, <1>6, <1>q, <2>1
<1>8. Left(D, Q)
  BY <1>q DEF LeftBehind, Left
<1>9. Directory(c) /\ Follows(c, D, "rms", Absent) /\ Becomes(c, D, "rms", Absent)
  BY <1>2, <1>6, <1>c, Unlinked
<1>10. Lasting(c, Q) /\ Left(c, Q)
  <2>1. Lasting(c, Q)
    BY <1>2, <1>6, <1>7, <1>8, <1>9, CanonicalKeeps
  <2>2. Left(c, Q)
    BY <1>2, <1>6, <1>7, <1>8, <1>9, LeftKeeps
  <2> QED BY <2>1, <2>2
<1>11. Directory(m) /\ Follows(m, c, "tmp", Absent) /\ Becomes(m, c, "tmp", Absent)
  BY <1>6, <1>9, <1>m, Unlinked
<1>12. Lasting(m, Q) /\ Left(m, Q)
  <2>1. Lasting(m, Q)
    BY <1>6, <1>7, <1>9, <1>10, <1>11, TemporaryKeeps
  <2>2. Left(m, Q)
    BY <1>6, <1>7, <1>9, <1>10, <1>11, LeftKeeps
  <2> QED BY <2>1, <2>2
<1>13. Directory(e) /\ Follows(e, m, "bak", Absent) /\ Becomes(e, m, "bak", Absent)
  BY <1>6, <1>11, <1>e, Unlinked
<1>14. Lasting(e, Q) /\ Left(e, Q)
  <2>1. \A f \in m.disk : f["rms"] = Absent => f["tmp"] \in Q
    BY <1>12 DEF Left
  <2>2. Lasting(e, Q)
    BY <1>6, <1>7, <1>11, <1>12, <1>13, <2>1, BackupKeeps
  <2>3. Left(e, Q)
    BY <1>6, <1>7, <1>11, <1>12, <1>13, LeftKeeps
  <2> QED BY <2>2, <2>3
<1>15. e.now = NoFiles
  <2>1. c.now["rms"] = Absent /\ m.now["rms"] = Absent /\ m.now["tmp"] = Absent
    BY <1>6, <1>9, <1>11 DEF Becomes
  <2>2. e.now["rms"] = Absent /\ e.now["tmp"] = Absent /\ e.now["bak"] = Absent
    BY <1>6, <1>13, <2>1 DEF Becomes
  <2> QED BY <1>13, <2>2, NoFilesAre, SameFiles DEF Directory
<1>16. OneStore(e, Q)
  BY <1>1, <1>2, <1>3, <1>7, <1>13, FileSet DEF RecordInv
<1>17. Aside(op', e, Q)
  <2>1. InPlace(D.now) /\ (~pending[S] => loaded[S] \in Promise)
    BY <1>2 DEF Rests, D, Promise
  <2>2. D.now["tmp"] \in Q /\ D.now["bak"] \in Q
    BY <1>2, <1>8 DEF Left
  <2>3. op'.store = S
    BY <1>4 DEF SameCall, S
  <2> QED BY <1>2, <1>4, <1>7, <1>14, <1>15, <2>1, <2>2, <2>3 DEF Aside
<1>18. op'.at \in Staged
  BY <1>4 DEF Staged
<1> QED BY <1>1, <1>4, <1>5, <1>14, <1>16, <1>17, <1>18, StagingGoesOn

LEMMA DeletedKeeps ==
  ASSUME RecordInv, Deleted
  PROVE  RecordInv'
<1>1. /\ op.at = "delete_sync" /\ op.at \in Staged /\ SyncAll /\ op' = Idle /\ UNCHANGED history
      /\ promised' = [promised EXCEPT ![S] = {Absent}]
      /\ loaded' = [loaded EXCEPT ![S] = Absent] /\ pending' = [pending EXCEPT ![S] = FALSE]
      /\ UNCHANGED <<opens, anyPending>>
  BY DEF Deleted, Erased, Cleared, Staged, At
<1>2. /\ S \in Stores /\ opens[S] = 0 /\ Aside(op, D, Promise) /\ Directory(D)
      /\ Lasting(D, Promise)
  BY <1>1, Deletes
<1>3. D.now = NoFiles
  BY <1>1, <1>2 DEF Aside
<1>4. HistoryType'
  BY <1>1, HistoryKept DEF RecordInv
<1>5. MemoryType' /\ loaded'[S] = Absent /\ pending'[S] = FALSE /\ opens'[S] = 0
      /\ \A s \in Stores \ {S} : SameMemory(s)
  BY <1>1, <1>2 DEF RecordInv, TypeOK, MemoryType, SameMemory
<1>e. PICK e : e = Synced(D)
  OBVIOUS
<1>6. Lasting(e, {Absent})
  BY <1>2, <1>3, <1>e, NoFilesAre, SyncedKeeps
<1>7. OneStore(e, {Absent})
  BY <1>1, <1>2, <1>e, Synchronized DEF RecordInv, Values
<1> QED BY <1>1, <1>2, <1>4, <1>5, <1>6, <1>7, EndsSo DEF RecordInv

LEMMA DeleteFailsKeeps ==
  ASSUME RecordInv, DeleteFails
  PROVE  RecordInv'
<1>1. /\ op.at = "delete_sync" /\ op.at \in Staged /\ UNCHANGED memory
      /\ UNCHANGED promised /\ Goto("restore") /\ Fault
      /\ UNCHANGED dir \/ SyncAll
  BY DEF DeleteFails, Staged, At
<1>2. /\ S \in Stores /\ Aside(op, D, Promise) /\ Directory(D)
      /\ Lasting(D, Promise) /\ D.now \in D.disk /\ Recovered(D.now) \in Promise
  BY <1>1, Deletes
<1>3. OpTypeOK' /\ op'.at = "restore" /\ SameWork /\ SameRest
  BY <1>1, GotoIs DEF RecordInv, AllPlaces, Staged
<1>4. HistoryType'
  BY <1>1, HistoryKept DEF RecordInv
<1>5. OneStore(D, Promise) \/ OneStore(Synced(D), Promise)
  BY <1>1, <1>2, NothingWritten, SynchronizedOnly DEF RecordInv
<1>6. PICK e \in {D, Synced(D)} : OneStore(e, Promise)
  BY <1>5
<1>7. Lasting(e, Promise) /\ e.now = D.now /\ e.disk \subseteq D.disk
  <2>1. CASE e = D
    BY <1>2, <2>1
  <2>2. CASE e = Synced(D)
    BY <1>2, <2>2, SyncedKeeps
  <2> QED BY <2>1, <2>2
<1>8. Aside(op', e, Promise)
  BY <1>1, <1>2, <1>3, <1>7 DEF Aside, Left, SameWork, SameCall, SameRest
<1>9. op'.at \in Staged
  BY <1>3 DEF Staged
<1> QED BY <1>1, <1>3, <1>4, <1>6, <1>7, <1>8, <1>9, StagingGoesOn DEF SameWork

\* One of the files that were moved aside comes back.
LEMMA ReturnedIs ==
  ASSUME NEW d, Directory(d), NEW n \in {"tmp", "bak", "rms"}, NEW e, e = Returned(d, n),
         op.moved \in Files, d.now[n] = Absent
  PROVE  /\ Directory(e) /\ e.now[n] = op.moved[n]
         /\ \A r \in Roles : r # n => e.now[r] = d.now[r]
         /\ op.moved[n] # Absent => Follows(e, d, n, op.moved[n])
         /\ op.moved[n] = Absent => e = d
<1>1. n \in Roles /\ op.moved[n] \in Values
  BY FileTypes DEF Roles
<1>2. CASE op.moved[n] = Absent
  BY <1>2 DEF Returned
<1>3. CASE op.moved[n] # Absent
  <2>x. PICK x : x = op.moved[n]
    OBVIOUS
  <2>1. e = Put(d, n, x) /\ x \in Values
    BY <1>1, <1>3, <2>x DEF Returned
  <2>2. Directory(e) /\ Follows(e, d, n, x) /\ Becomes(e, d, n, x)
    BY <1>1, <2>1, HasPut
  <2> QED BY <1>3, <2>2, <2>x DEF Becomes
<1> QED BY <1>2, <1>3

LEMMA RestoreKeeps ==
  ASSUME RecordInv, Restore
  PROVE  RecordInv'
<1>1. /\ op.at = "restore" /\ op.at \in Staged /\ UNCHANGED memory /\ UNCHANGED promised
      /\ \/ SetFiles(S, PutBack(D)) /\ Goto("restore_sync") /\ UNCHANGED history
         \/ Fault /\ UNCHANGED dir /\ op' = [op EXCEPT !.at = "restore_sync", !.ok = FALSE]
  BY DEF Restore, Staged, At
<1>2. /\ S \in Stores /\ Aside(op, D, Promise) /\ Directory(D)
      /\ Lasting(D, Promise) /\ D.now \in D.disk /\ D.now \in Files
  BY <1>1, Deletes
<1>3. /\ op.ok /\ D.now = NoFiles /\ Left(D, Promise) /\ op.before \subseteq Promise
      /\ op.moved \in Files /\ op.moved["rms"] # Torn /\ op.moved["bak"] # Torn
      /\ op.moved["tmp"] \in Promise /\ op.moved["bak"] \in Promise
      /\ Recovered(op.moved) \in op.before
  BY <1>1, <1>2 DEF Aside
<1>4. HistoryType'
  BY <1>1, HistoryKept DEF RecordInv
<1>5. "restore_sync" \in AllPlaces /\ "restore_sync" \in Staged
  BY DEF AllPlaces, Staged
<1>6. CASE SetFiles(S, PutBack(D)) /\ Goto("restore_sync")
  <2>1. OpTypeOK' /\ op'.at = "restore_sync" /\ SameWork /\ SameRest
    BY <1>5, <1>6, GotoIs DEF RecordInv
  <2>b. PICK b : b = Returned(D, "bak")
    OBVIOUS
  <2>t. PICK t : t = Returned(b, "tmp")
    OBVIOUS
  <2>e. PICK e : e = Returned(t, "rms")
    OBVIOUS
  <2>2. e = PutBack(D)
    BY <2>b, <2>t, <2>e DEF PutBack
  <2>3. "tmp" \in Roles /\ "rms" \in Roles /\ "bak" \in Roles
        /\ op.moved["rms"] \in Values /\ op.moved["tmp"] \in Values /\ op.moved["bak"] \in Values
    BY <1>3, FileTypes DEF Roles
  <2>4. /\ Directory(b) /\ b.now["bak"] = op.moved["bak"] /\ b.now["tmp"] = Absent
        /\ b.now["rms"] = Absent
        /\ op.moved["bak"] # Absent => Follows(b, D, "bak", op.moved["bak"])
        /\ op.moved["bak"] = Absent => b = D
    BY <1>2, <1>3, <2>3, <2>b, NoFilesAre, ReturnedIs
  <2>5. Lasting(b, Promise) /\ Left(b, Promise)
    <3>1. CASE op.moved["bak"] = Absent
      BY <1>2, <1>3, <2>4, <3>1
    <3>2. CASE op.moved["bak"] # Absent
      <4>1. Lasting(b, Promise)
        BY <1>2, <1>3, <2>3, <2>4, <3>2, BackupKeeps
      <4>2. Left(b, Promise)
        BY <1>2, <1>3, <2>3, <2>4, <3>2, LeftKeeps
      <4> QED BY <4>1, <4>2
    <3> QED BY <3>1, <3>2
  <2>6. /\ Directory(t) /\ t.now["bak"] = op.moved["bak"] /\ t.now["tmp"] = op.moved["tmp"]
        /\ t.now["rms"] = Absent
        /\ op.moved["tmp"] # Absent => Follows(t, b, "tmp", op.moved["tmp"])
        /\ op.moved["tmp"] = Absent => t = b
    BY <1>3, <2>3, <2>4, <2>t, ReturnedIs
  <2>7. Lasting(t, Promise) /\ Left(t, Promise)
    <3>1. CASE op.moved["tmp"] = Absent
      BY <2>5, <2>6, <3>1
    <3>2. CASE op.moved["tmp"] # Absent
      <4>1. Lasting(t, Promise)
        BY <1>3, <2>3, <2>4, <2>5, <2>6, <3>2, TemporaryKeeps
      <4>2. Left(t, Promise)
        BY <1>3, <2>3, <2>4, <2>5, <2>6, <3>2, LeftKeeps
      <4> QED BY <4>1, <4>2
    <3> QED BY <3>1, <3>2
  <2>8. /\ Directory(e) /\ e.now["bak"] = op.moved["bak"] /\ e.now["tmp"] = op.moved["tmp"]
        /\ e.now["rms"] = op.moved["rms"]
        /\ op.moved["rms"] # Absent => Follows(e, t, "rms", op.moved["rms"])
        /\ op.moved["rms"] = Absent => e = t
    BY <1>3, <2>3, <2>6, <2>e, ReturnedIs
  <2>9. Lasting(e, Promise) /\ Left(e, Promise)
    <3>1. CASE op.moved["rms"] = Absent
      BY <2>7, <2>8, <3>1
    <3>2. CASE op.moved["rms"] # Absent
      <4>1. op.moved["rms"] \in Promise
        BY <1>3, <3>2, RecoveredIs
      <4>2. Lasting(e, Promise)
        BY <1>3, <2>3, <2>6, <2>7, <2>8, <3>2, <4>1, CanonicalKeeps
      <4>3. Left(e, Promise)
        BY <1>3, <2>3, <2>6, <2>7, <2>8, <3>2, LeftKeeps
      <4> QED BY <4>2, <4>3
    <3> QED BY <3>1, <3>2
  <2>10. e.now = op.moved
    BY <1>3, <2>8, SameFiles DEF Directory
  <2>11. OneStore(e, Promise)
    BY <1>1, <1>2, <1>6, <2>2, <2>8, FileSetOnly DEF RecordInv
  <2>12. Aside(op', e, Promise)
    BY <1>2, <1>3, <2>1, <2>9, <2>10 DEF Aside, SameWork, SameCall, SameRest
  <2> QED BY <1>1, <1>4, <1>5, <2>1, <2>9, <2>11, <2>12, StagingGoesOn DEF SameWork
<1>7. CASE UNCHANGED dir /\ op' = [op EXCEPT !.at = "restore_sync", !.ok = FALSE]
  <2>1. OpTypeOK' /\ op'.at = "restore_sync" /\ SameWork /\ op'.ok = FALSE /\ op'.moved = op.moved
    BY <1>5, <1>7, FailedIs DEF RecordInv
  <2>2. OneStore(D, Promise)
    BY <1>1, <1>2, <1>7, NothingWritten DEF RecordInv
  <2>3. Aside(op', D, Promise)
    BY <1>2, <1>3, <2>1 DEF Aside, SameWork, SameCall
  <2> QED BY <1>1, <1>2, <1>4, <1>5, <2>1, <2>2, <2>3, StagingGoesOn DEF SameWork
<1> QED BY <1>1, <1>6, <1>7

LEMMA RestoreSyncKeeps ==
  ASSUME RecordInv, RestoreSync
  PROVE  RecordInv'
<1>1. /\ op.at = "restore_sync" /\ op.at \in Staged /\ UNCHANGED memory /\ op' = Idle
      /\ (UNCHANGED history \/ Fault)
      /\ \/ /\ SyncAll
            /\ promised' = [promised EXCEPT ![S] = IF op.ok THEN op.before ELSE @]
         \/ UNCHANGED <<dir, promised>>
  BY DEF RestoreSync, Staged, At
<1>2. /\ S \in Stores /\ loaded[S] # Absent /\ Aside(op, D, Promise) /\ Directory(D)
      /\ Lasting(D, Promise) /\ Promise \subseteq Values /\ Recovered(D.now) \in Promise
  BY <1>1, Deletes
<1>3. /\ ~pending[S] => loaded[S] \in op.before
      /\ op.before \subseteq Promise /\ InPlace(op.moved) /\ Recovered(op.moved) \in op.before
      /\ D.now = (IF op.ok THEN op.moved ELSE NoFiles)
  BY <1>1, <1>2 DEF Aside, S
<1>4. HistoryType'
  BY <1>1, HistoryKept DEF RecordInv
<1>5. MemoryType' /\ \A s \in Stores : SameMemory(s)
  BY <1>1, MemoryKept
<1>6. InPlace(D.now)
  BY <1>3 DEF InPlace
<1>7. /\ loaded'[S] = loaded[S] /\ pending'[S] = pending[S] /\ loaded'[S] # Absent
      /\ ~pending'[S] => loaded'[S] \in op.before
  BY <1>1, <1>2, <1>3 DEF memory
<1>8. CASE SyncAll /\ promised' = [promised EXCEPT ![S] = IF op.ok THEN op.before ELSE @]
  <2>q. PICK Q : Q = IF op.ok THEN op.before ELSE Promise
    OBVIOUS
  <2>e. PICK e : e = Synced(D)
    OBVIOUS
  <2>1. promised' = [promised EXCEPT ![S] = Q]
    BY <1>2, <1>8, <2>q DEF RecordInv, TypeOK, Promise
  <2>2. Q \subseteq Values /\ Recovered(D.now) \in Q /\ op.before \subseteq Q
    BY <1>2, <1>3, <2>q
  <2>3. Lasting(e, Q) /\ e.now = D.now
    BY <1>2, <2>2, <2>e, SyncedKeeps
  <2>4. OneStore(e, Q)
    BY <1>2, <1>8, <2>1, <2>2, <2>e, Synchronized DEF RecordInv
  <2> QED BY <1>1, <1>2, <1>4, <1>5, <1>6, <1>7, <2>2, <2>3, <2>4, EndsSo DEF RecordInv
<1>9. CASE UNCHANGED <<dir, promised>>
  <2>1. OneStore(D, Promise)
    BY <1>2, <1>9, NothingWritten DEF RecordInv
  <2> QED BY <1>1, <1>2, <1>3, <1>4, <1>5, <1>6, <1>7, <2>1, EndsSo DEF RecordInv
<1> QED BY <1>1, <1>8, <1>9

-----------------------------------------------------------------------------
(***************************************************************************)
(* The calls on all stores.                                                *)
(***************************************************************************)
LEMMA TraversalBegins ==
  ASSUME RecordInv, At("idle"), UNCHANGED <<dir, memory, promised>>, HistoryType', OpTypeOK',
         op'.at = "next", op'.store = NoStore, op'.call \in {"list", "add"} \cup Flushes,
         op'.call = "add" => op'.into \in Stores,
         op'.call \in Flushes => \A s \in op'.rest : pending[s]
  PROVE  RecordInv'
<1>1. op.at = "idle" /\ S' = NoStore /\ op'.rest \subseteq Stores
  BY DEF At, S, OpTypeOK
<1>2. MemoryType' /\ \A t \in Stores : SameMemory(t) /\ (opens'[t] > 0 \/ pending'[t] => loaded'[t] # Absent)
  BY MemoryKept
<1>3. TypeOK' /\ StoreInv'
  BY <1>1, <1>2, CallBegins
<1>4. CallInv'
  BY <1>1, StoresAssumption DEF CallInv, At, Flushes, memory
<1>5. RecoverInv' /\ WriteInv' /\ DeleteInv'
  BY Between
<1> QED BY <1>3, <1>4, <1>5 DEF RecordInv

LEMMA FlushDueKeeps ==
  ASSUME RecordInv, NEW due \in SUBSET DueStores, FlushDue(due)
  PROVE  RecordInv'
<1>1. /\ At("idle") /\ op' = All("flush_pending", due) /\ UNCHANGED <<dir, memory, promised>>
      /\ UNCHANGED history
  BY DEF FlushDue, Begin
<1>2. due \subseteq Stores /\ \A s \in due : pending[s]
  BY DEF DueStores, Pending
<1>3. /\ op'.at = "next" /\ op'.store = NoStore /\ op'.call = "flush_pending" /\ op'.rest = due
      /\ OpTypeOK'
  BY <1>1, <1>2, NoFilesAre DEF All, Idle, OpTypeOK, Names, Flushes, AllPlaces, Values
<1>4. HistoryType'
  BY <1>1, HistoryKept DEF RecordInv
<1> QED BY <1>1, <1>2, <1>3, <1>4, TraversalBegins DEF Flushes

LEMMA FlushAllKeeps ==
  ASSUME RecordInv, FlushAll
  PROVE  RecordInv'
<1>1. /\ At("idle") /\ op' = All("flush_all", Pending) /\ UNCHANGED <<dir, memory, promised>>
      /\ UNCHANGED history
  BY DEF FlushAll, Begin
<1>2. Pending \subseteq Stores /\ \A s \in Pending : pending[s]
  BY DEF Pending
<1>3. /\ op'.at = "next" /\ op'.store = NoStore /\ op'.call = "flush_all" /\ op'.rest = Pending
      /\ OpTypeOK'
  BY <1>1, <1>2, NoFilesAre DEF All, Idle, OpTypeOK, Names, Flushes, AllPlaces, Values
<1>4. HistoryType'
  BY <1>1, HistoryKept DEF RecordInv
<1> QED BY <1>1, <1>2, <1>3, <1>4, TraversalBegins DEF Flushes

LEMMA ListKeeps ==
  ASSUME RecordInv, List
  PROVE  RecordInv'
<1>1. /\ At("idle") /\ op' = All("list", OnDisk) /\ UNCHANGED <<dir, memory, promised>>
      /\ UNCHANGED history
  BY DEF List, Begin
<1>2. OnDisk \subseteq Stores
  BY DEF OnDisk
<1>3. /\ op'.at = "next" /\ op'.store = NoStore /\ op'.call = "list" /\ OpTypeOK'
  BY <1>1, <1>2, NoFilesAre DEF All, Idle, OpTypeOK, Names, Flushes, AllPlaces, Values
<1>4. HistoryType'
  BY <1>1, HistoryKept DEF RecordInv
<1> QED BY <1>1, <1>3, <1>4, TraversalBegins DEF Flushes

LEMMA AddRecordKeeps ==
  ASSUME RecordInv, NEW s \in Stores, AddRecord(s)
  PROVE  RecordInv'
<1>1. /\ At("idle") /\ op' = [All("add", OnDisk) EXCEPT !.into = s]
      /\ UNCHANGED <<dir, memory, promised>> /\ UNCHANGED history
  BY DEF AddRecord, Begin
<1>2. OnDisk \subseteq Stores
  BY DEF OnDisk
<1>3. /\ op'.at = "next" /\ op'.store = NoStore /\ op'.call = "add" /\ op'.into = s /\ OpTypeOK'
  BY <1>1, <1>2, NoFilesAre DEF All, Idle, OpTypeOK, Names, Flushes, AllPlaces, Values
<1>4. HistoryType'
  BY <1>1, HistoryKept DEF RecordInv
<1> QED BY <1>1, <1>3, <1>4, TraversalBegins DEF Flushes

LEMMA NextStoreKeeps ==
  ASSUME RecordInv, NextStore
  PROVE  RecordInv'
<1>1. op.at = "next" /\ UNCHANGED <<dir, memory, promised>> /\ UNCHANGED history
  BY DEF NextStore, At
<1>2. PICK s \in op.rest :
        op' = [op EXCEPT !.store = s, !.rest = @ \ {s}, !.ok = TRUE,
                 !.at = IF Scans THEN "recover" ELSE "write",
                 !.gen = IF Scans THEN Absent ELSE loaded[s]]
  BY DEF NextStore
<1>3. /\ op.call \in {"list", "add"} \cup Flushes /\ (op.call = "add" => op.into \in Stores)
      /\ op.call \in Flushes => \A t \in op.rest : pending[t]
  BY <1>1 DEF RecordInv, CallInv, At
<1>4. s \in Stores /\ op.rest \subseteq Stores /\ loaded[s] \in Nat \cup {Absent}
  BY DEF RecordInv, TypeOK
<1>5. Rests(s) /\ (opens[s] > 0 \/ pending[s] => loaded[s] # Absent)
  BY <1>1, <1>4, AllRest
<1>6. /\ OpTypeOK' /\ op'.call = op.call /\ op'.store = s /\ op'.rest = op.rest \ {s}
      /\ op'.into = op.into /\ op'.ok = TRUE
      /\ op'.at = (IF Scans THEN "recover" ELSE "write")
      /\ op'.gen = (IF Scans THEN Absent ELSE loaded[s])
  <2>p. PICK p \in {"recover", "write"} : p = IF Scans THEN "recover" ELSE "write"
    OBVIOUS
  <2>g. PICK g : g = IF Scans THEN Absent ELSE loaded[s]
    OBVIOUS
  <2>1. g \in Values /\ p \in AllPlaces
    BY <1>4, <2>g DEF Values, AllPlaces, Recovering, Writing
  <2>2. op' = [op EXCEPT !.store = s, !.rest = op.rest \ {s}, !.ok = TRUE, !.at = p, !.gen = g]
    BY <1>2, <2>p, <2>g
  <2>3. op'.at = p /\ op'.gen = g /\ op'.call = op.call /\ op'.store = s /\ op'.rest = op.rest \ {s}
        /\ op'.into = op.into /\ op'.ok = TRUE /\ OpTypeOK'
    BY <1>4, <2>1, <2>2 DEF RecordInv, OpTypeOK
  <2> QED BY <2>3, <2>p, <2>g
<1>7. S' = s
  BY <1>6 DEF S
<1>8. HistoryType'
  BY <1>1, HistoryKept DEF RecordInv
<1>9. MemoryType' /\ \A t \in Stores : SameMemory(t) /\ (opens'[t] > 0 \/ pending'[t] => loaded'[t] # Absent)
  BY <1>1, MemoryKept
<1>10. CASE Scans
  <2>1. op'.at = "recover" /\ op'.call \in {"list", "add"}
    BY <1>6, <1>10 DEF Scans
  <2>2. TypeOK' /\ StoreInv'
    BY <1>1, <1>6, <1>8, <1>9, CallBegins
  <2>3. CallInv'
    BY <1>3, <1>6, <2>1 DEF CallInv, At, Flushes
  <2>4. Rests(S)'
    BY <1>1, <1>5, <1>7 DEF Rests, memory
  <2>5. RecoverInv'
    BY <1>4, <1>6, <1>7, <2>1, <2>4 DEF RecoverInv, At
  <2>6. WriteInv' /\ DeleteInv'
    BY <2>1, AtRecovering DEF Recovering
  <2> QED BY <1>6, <2>2, <2>3, <2>5, <2>6 DEF RecordInv
<1>11. CASE ~Scans
  <2>1. op'.at = "write" /\ op'.call \in Flushes /\ op.call \in Flushes /\ op'.gen = loaded[s]
    BY <1>3, <1>6, <1>11 DEF Scans
  <2>2. pending[s] /\ loaded[s] # Absent /\ loaded[s] \in Nat /\ InPlace(dir[s].now)
    BY <1>3, <1>4, <1>5, <2>1 DEF Rests
  <2>3. loaded'[s] = loaded[s] /\ pending' = pending
    BY <1>1 DEF memory
  <2>4. op'.call # "change"
    BY <2>1 DEF Flushes
  <2>5. S' \notin op'.rest /\ \A t \in op'.rest : pending'[t]
    BY <1>3, <1>6, <1>7, <2>1, <2>3
  <2>6. /\ op'.at = "write" /\ S' \in Stores /\ op'.gen \in Nat /\ op'.ok
        /\ op'.call \in {"change", "close"} \cup Flushes /\ loaded'[S'] = op'.gen
        /\ InPlace(dir[S'].now) /\ pending'[S']
    BY <1>4, <1>6, <1>7, <2>1, <2>2, <2>3
  <2> QED BY <1>1, <1>6, <1>8, <1>9, <2>4, <2>5, <2>6, WriteBegins
<1> QED BY <1>10, <1>11

\* A store is done, and the next one is to come.
LEMMA PassesOn ==
  ASSUME RecordInv, S \in Stores, Goto("next"), op.call \in {"list", "add"} \cup Flushes,
         UNCHANGED dir, UNCHANGED promised, UNCHANGED history, MemoryType',
         \A s \in Stores \ {S} : SameMemory(s),
         opens'[S] > 0 \/ pending'[S] => loaded'[S] # Absent,
         loaded'[S] # Absent => InPlace(D.now) /\ (~pending'[S] => loaded'[S] \in Promise)
  PROVE  RecordInv'
<1>1. OpTypeOK' /\ op'.at = "next" /\ SameWork /\ SameRest
  BY GotoIs DEF RecordInv, AllPlaces
<1>2. S' = S /\ op'.rest = op.rest /\ op'.into = op.into /\ op'.call = op.call
  BY <1>1 DEF SameWork, SameCall, S
<1>3. HistoryType'
  BY HistoryKept DEF RecordInv
<1>4. Rests(S)'
  BY <1>2 DEF Rests, D, Promise
<1>5. TypeOK'
  <2>1. (TypeOK <=> /\ dir \in DirType /\ promised \in PromiseType /\ MemoryType /\ HistoryType
                    /\ S \in Stores \cup {NoStore} /\ op.rest \subseteq Stores)'
    BY TypeParts, PTL
  <2>2. dir \in DirType /\ promised \in PromiseType /\ op.rest \subseteq Stores
    BY TypeParts DEF RecordInv
  <2> QED BY <1>2, <1>3, <2>1, <2>2
<1>6. ASSUME NEW s \in Stores
      PROVE  /\ Lasting(dir'[s], promised'[s])
             /\ opens'[s] > 0 \/ pending'[s] => loaded'[s] # Absent
             /\ S' # s => Rests(s)'
  <2>1. CASE s = S
    BY <1>2, <2>1 DEF RecordInv, StoreInv
  <2>2. CASE s # S
    BY <2>2, OtherStore DEF RecordInv
  <2> QED BY <2>1, <2>2
<1>7. StoreInv'
  BY <1>6 DEF StoreInv
<1>8. CallInv'
  <2>1. /\ op.call = "add" => op.into \in Stores
        /\ op.call \in Flushes => S \notin op.rest /\ \A s \in op.rest : pending[s]
        /\ op.rest \subseteq Stores
    BY DEF RecordInv, CallInv, TypeOK
  <2>2. op.call \in Flushes => \A s \in op.rest : pending'[s]
    BY <2>1 DEF SameMemory
  <2> QED BY <1>1, <1>2, <1>4, <2>1, <2>2 DEF CallInv, At, Flushes
<1>9. RecoverInv' /\ WriteInv' /\ DeleteInv'
  BY <1>1, Between
<1> QED BY <1>1, <1>5, <1>7, <1>8, <1>9 DEF RecordInv

LEMMA ScannedKeeps ==
  ASSUME RecordInv, Scanned
  PROVE  RecordInv'
<1>1. /\ op.call \in {"list", "add"} /\ op.at = "recovered" /\ op.at \in Recovering /\ Goto("next")
      /\ UNCHANGED <<dir, memory, promised>> /\ UNCHANGED history
  BY DEF Scanned, Scans, At, Recovering
<1>2. S \in Stores /\ Rests(S)
  BY <1>1, Recovers
<1>3. MemoryType' /\ \A t \in Stores : SameMemory(t) /\ (opens'[t] > 0 \/ pending'[t] => loaded'[t] # Absent)
  BY <1>1, MemoryKept
<1>4. loaded'[S] # Absent => InPlace(D.now) /\ (~pending'[S] => loaded'[S] \in Promise)
  BY <1>1, <1>2 DEF Rests, D, Promise, memory
<1> QED BY <1>1, <1>2, <1>3, <1>4, PassesOn

LEMMA FlushedKeeps ==
  ASSUME RecordInv, Flushed
  PROVE  RecordInv'
<1>1. /\ op.call \in Flushes /\ At("return") /\ (Goto("next") \/ op' = Idle)
      /\ UNCHANGED <<loaded, opens, anyPending>> /\ UNCHANGED dir /\ UNCHANGED promised
      /\ UNCHANGED history /\ IF op.ok THEN Cleared ELSE UNCHANGED pending
  BY DEF Flushed, Flushes
<1>2. /\ S \in Stores /\ InPlace(D.now) /\ loaded'[S] # Absent /\ MemoryType'
      /\ (~pending'[S] => loaded'[S] \in Promise) /\ \A s \in Stores \ {S} : SameMemory(s)
  BY <1>1, Flushing
<1>3. CASE op' = Idle
  BY <1>1, <1>2, <1>3, EndsInMemory
<1>4. CASE Goto("next")
  BY <1>1, <1>2, <1>4, PassesOn
<1> QED BY <1>1, <1>3, <1>4

LEMMA FinishKeeps ==
  ASSUME RecordInv, Finish
  PROVE  RecordInv'
<1>1. op.at = "next" /\ op.call \in {"list", "add"} \cup Flushes
  BY DEF Finish, RecordInv, CallInv, At
<1>2. CASE op.call = "add" /\ Change(op.into)
  <2>1. op.into \in Stores
    BY <1>2 DEF RecordInv, CallInv
  <2> QED BY <1>1, <1>2, <2>1, ChangeKeeps
<1>3. CASE op' = Idle /\ UNCHANGED <<dir, loaded, opens, pending, promised>> /\ UNCHANGED history
           /\ anyPending' \in BOOLEAN
  <2>1. HistoryType'
    BY <1>3, HistoryKept DEF RecordInv
  <2>2. dir' \in DirType /\ promised' \in PromiseType /\ MemoryType'
    BY <1>3, TypeParts DEF RecordInv, MemoryType
  <2>3. ASSUME NEW s \in Stores
        PROVE  /\ Lasting(dir'[s], promised'[s]) /\ Rests(s)'
               /\ opens'[s] > 0 \/ pending'[s] => loaded'[s] # Absent
    BY <1>1, <1>3, AllRest DEF Rests
  <2> QED BY <1>3, <2>1, <2>2, <2>3, CallEnds
<1>4. anyPending \in BOOLEAN
  BY DEF RecordInv, TypeOK
<1> QED BY <1>1, <1>2, <1>3, <1>4 DEF Finish, OverQuota, memory, Flushes, StillPending

\* After a crash the directories are what was found, and the memory is empty.
LEMMA CrashKeeps ==
  ASSUME RecordInv, Crash
  PROVE  RecordInv'
<1>1. /\ crashes' = crashes + 1 /\ loaded' = [s \in Stores |-> Absent]
      /\ opens' = [s \in Stores |-> 0] /\ pending' = [s \in Stores |-> FALSE]
      /\ anyPending' = FALSE /\ op' = Idle /\ UNCHANGED <<writeThrough, fresh, faults>>
  BY DEF Crash
<1>2. PICK f : /\ \A s \in Stores : f[s] \in dir[s].disk
               /\ dir' = [s \in Stores |-> Settled(f[s])]
               /\ promised' = [s \in Stores |-> {Recovered(f[s])}]
  BY DEF Crash
<1>3. HistoryType' /\ MemoryType'
  <2>1. HistoryType'
    BY <1>1 DEF RecordInv, TypeOK, HistoryType
  <2>2. /\ loaded' \in [Stores -> Nat \cup {Absent}] /\ opens' \in [Stores -> Nat]
        /\ pending' \in [Stores -> BOOLEAN] /\ anyPending' \in BOOLEAN
    BY <1>1
  <2>3. MemoryType'
    BY <2>2 DEF MemoryType
  <2> QED BY <2>1, <2>3
<1>4. ASSUME NEW s \in Stores
      PROVE  /\ Settled(f[s]) = [now |-> f[s], disk |-> {f[s]}] /\ f[s] \in Files
             /\ Recovered(f[s]) \in Values /\ Lasting(Settled(f[s]), {Recovered(f[s])})
  <2>1. Lasting(dir[s], promised[s]) /\ promised[s] \subseteq Values
    BY Directories DEF RecordInv
  <2>2. Settled(f[s]) = [now |-> f[s], disk |-> {f[s]}]
    BY DEF Settled
  <2>3. f[s] \in Files /\ f[s]["rms"] # Torn /\ f[s]["bak"] # Torn /\ Recovered(f[s]) \in Values
    BY <1>2, <2>1 DEF Lasting
  <2>4. Settled(f[s]).now = f[s] /\ Settled(f[s]).disk = {f[s]}
    BY <2>2
  <2>5. Lasting(Settled(f[s]), {Recovered(f[s])})
    BY <2>3, <2>4 DEF Lasting
  <2> QED BY <2>2, <2>3, <2>5
<1>5. dir' \in DirType
  <2>1. ASSUME NEW s \in Stores
        PROVE  Settled(f[s]) \in [now : Files, disk : SUBSET Files]
    <3>1. Settled(f[s]) = [now |-> f[s], disk |-> {f[s]}] /\ f[s] \in Files
      BY <1>4
    <3> QED BY <3>1
  <2> QED BY <1>2, <2>1 DEF DirType
<1>6. promised' \in PromiseType
  <2>1. \A s \in Stores : {Recovered(f[s])} \in SUBSET Values
    BY <1>4
  <2> QED BY <1>2, <2>1 DEF PromiseType
<1>7. ASSUME NEW s \in Stores
      PROVE  /\ Lasting(dir'[s], promised'[s]) /\ Rests(s)'
             /\ opens'[s] > 0 \/ pending'[s] => loaded'[s] # Absent
  <2>1. dir'[s] = Settled(f[s]) /\ promised'[s] = {Recovered(f[s])}
    BY <1>2
  <2>2. loaded'[s] = Absent /\ opens'[s] = 0 /\ pending'[s] = FALSE
    BY <1>1
  <2>3. Lasting(dir'[s], promised'[s])
    BY <1>4, <2>1
  <2>4. Rests(s)'
    BY <2>2 DEF Rests
  <2> QED BY <2>2, <2>3, <2>4
<1> QED BY <1>1, <1>3, <1>5, <1>6, <1>7, CallEnds

-----------------------------------------------------------------------------
LEMMA InitIsSafe ==
  ASSUME Init
  PROVE  RecordInv
<1>1. /\ op.at = "idle" /\ S = NoStore /\ op.call = "none" /\ op.rest = {} /\ OpTypeOK
  BY IdleIs DEF Init, S, OpTypeOK
<1>2. Settled(NoFiles) = [now |-> NoFiles, disk |-> {NoFiles}]
  BY DEF Settled
<1>3. Settled(NoFiles) \in [now : Files, disk : SUBSET Files]
  BY <1>2, NoFilesAre
<1>4. Lasting(Settled(NoFiles), {Absent})
  <2>1. Settled(NoFiles).now = NoFiles /\ Settled(NoFiles).disk = {NoFiles}
    BY <1>2
  <2> QED BY <2>1, NoFilesAre, FilesAssumption DEF Lasting
<1>5. /\ dir = [s \in Stores |-> Settled(NoFiles)] /\ promised = [s \in Stores |-> {Absent}]
      /\ loaded = [s \in Stores |-> Absent] /\ opens = [s \in Stores |-> 0]
      /\ pending = [s \in Stores |-> FALSE] /\ anyPending = FALSE
      /\ writeThrough \in BOOLEAN /\ fresh = [s \in Stores |-> 0] /\ faults = 0 /\ crashes = 0
  BY DEF Init
<1>6. TypeOK
  <2>1. dir \in DirType
    BY <1>3, <1>5 DEF DirType
  <2>2. promised \in PromiseType
    BY <1>5 DEF PromiseType, Values
  <2>3. MemoryType /\ HistoryType
    <3>1. /\ loaded \in [Stores -> Nat \cup {Absent}] /\ opens \in [Stores -> Nat]
          /\ pending \in [Stores -> BOOLEAN] /\ anyPending \in BOOLEAN /\ fresh \in [Stores -> Nat]
      BY <1>5
    <3> QED BY <1>5, <3>1 DEF MemoryType, HistoryType
  <2> QED BY <1>1, <2>1, <2>2, <2>3, TypeParts
<1>7. StoreInv
  <2>1. ASSUME NEW s \in Stores
        PROVE  /\ Lasting(dir[s], promised[s]) /\ loaded[s] = Absent
               /\ opens[s] = 0 /\ pending[s] = FALSE
    BY <1>4, <1>5
  <2>2. \A s \in Stores : ~(opens[s] > 0)
    <3>1. \A s \in Stores : opens[s] = 0
      BY <1>5
    <3> QED BY <3>1
  <2>3. \A s \in Stores : ~pending[s] /\ Rests(s)
    BY <2>1 DEF Rests
  <2> QED BY <2>1, <2>2, <2>3 DEF StoreInv
<1>8. CallInv
  BY <1>1 DEF CallInv, At, Flushes
<1>9. RecoverInv /\ WriteInv /\ DeleteInv
  BY <1>1 DEF RecoverInv, WriteInv, DeleteInv, Recovering, Writing, Replacing, Replaced, Staged, At
<1> QED BY <1>1, <1>6, <1>7, <1>8, <1>9 DEF RecordInv

LEMMA StutterKeeps ==
  ASSUME RecordInv, UNCHANGED vars
  PROVE  RecordInv'
<1>1. UNCHANGED <<dir, loaded, opens, pending, anyPending, op, promised, writeThrough, fresh, faults, crashes>>
  BY DEF vars, memory, history
<1>2. TypeOK' /\ OpTypeOK'
  BY <1>1 DEF RecordInv, TypeOK, OpTypeOK, S
<1>3. StoreInv' /\ CallInv'
  BY <1>1 DEF RecordInv, StoreInv, CallInv, Rests, S, At
<1>4. RecoverInv'
  BY <1>1 DEF RecordInv, RecoverInv, Rests, S, At, D
<1>5. WriteInv'
  BY <1>1 DEF RecordInv, WriteInv, Written, Prepared, Reversible, Left, Old, S, D, Promise
<1>6. DeleteInv'
  BY <1>1 DEF RecordInv, DeleteInv, Aside, Left, Rests, S, D, At, Promise
<1> QED BY <1>2, <1>3, <1>4, <1>5, <1>6 DEF RecordInv

\* No operation on the files, failure or crash takes the invariant away.
THEOREM RecordsInductive == Spec => []RecordInv
<1>1. Init => RecordInv
  BY InitIsSafe
<1>2. RecordInv /\ [Next]_vars => RecordInv'
  <2> SUFFICES ASSUME RecordInv, [Next]_vars  PROVE RecordInv'
    OBVIOUS
  <2>1. CASE Recovery
    BY <2>1, FindNothingKeeps, FindGenerationKeeps, RecoverSyncKeeps, CleanUpKeeps, CleanSyncKeeps,
       RecoverFailsKeeps DEF Recovery
  <2>2. CASE Persist
    BY <2>2, WriteTemporaryKeeps, SyncTemporaryKeeps, PreservePreviousKeeps, ReplaceKeeps,
       CommitKeeps, DropBackupKeeps, DropSyncKeeps, CreateFailsKeeps, PersistFailsKeeps,
       CommitFailsKeeps, UndoKeeps, UndoSyncKeeps DEF Persist
  <2>3. CASE Deletion
    BY <2>3, StageKeeps, NothingToStageKeeps, DeletedKeeps, DeleteFailsKeeps, RestoreKeeps,
       RestoreSyncKeeps DEF Deletion
  <2>4. CASE Return
    BY <2>4, OpenedKeeps, NotCreatedKeeps, ChangeReturnsKeeps, CloseReturnsKeeps, DeleteLoadsKeeps,
       ScannedKeeps, NextStoreKeeps, FlushedKeeps, FinishKeeps DEF Return
  <2>5. CASE Calls
    BY <2>5, OpenKeeps, SetRecordKeeps, AddRecordKeeps, CloseKeeps, DeleteKeeps, FlushAllKeeps,
       ListKeeps DEF Calls
  <2>6. CASE FlushPending
    BY <2>6, FlushDueKeeps DEF FlushPending
  <2>7. CASE Crash
    BY <2>7, CrashKeeps
  <2>8. CASE UNCHANGED vars
    BY <2>8, StutterKeeps
  <2> QED BY <2>1, <2>2, <2>3, <2>4, <2>5, <2>6, <2>7, <2>8 DEF Next, GoesOn
<1> QED BY <1>1, <1>2, PTL DEF Spec

\* Whatever a crash leaves of the directory, persist_unlocked, delete_store and
\* recover_file_unlocked have kept a generation in it that the calls reported, or that
\* of the call in progress: no failure of any step brings another one back.
THEOREM StoresAreDurable == Spec => []Durable
<1>1. RecordInv => Durable
  BY DEF RecordInv, StoreInv, Lasting, Durable
<1> QED BY <1>1, RecordsInductive, PTL

\* What stores_ holds without a deferred change is what a restart would find: no failed
\* change, close or deletion leaves the memory with another generation than the disk.
THEOREM MemoryIsOnDisk == Spec => []MemoryOnDisk
<1>1. RecordInv => MemoryOnDisk
  BY DEF RecordInv, StoreInv, Rests, MemoryOnDisk
<1> QED BY <1>1, RecordsInductive, PTL
=============================================================================
