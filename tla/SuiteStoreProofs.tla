-------------------------- MODULE SuiteStoreProofs --------------------------
(***************************************************************************)
(* Proofs about SuiteStore, for any suites and versions and any bounds on  *)
(* calls, faults and crashes: whatever step of an installation, a removal, *)
(* a commit or a configure fails or is cut off by a crash, the next        *)
(* configure finds what the calls have reported.                           *)
(***************************************************************************)
EXTENDS SuiteStore, TLAPS

(***************************************************************************)
(* A directory of entries I that take values in V, and what it holds of    *)
(* one suite.                                                              *)
(***************************************************************************)
Maps(d, I, V) == d \in [now : [I -> V], disk : SUBSET [I -> V]] /\ d.now \in d.disk

Root == {"db", "tmp", "bak"}
Databases == Records \cup {Absent, Torn}
Entries == Versions \cup {Absent, Torn}

Of(g, s) == [p \in Places |-> g[<<s, p>>]]
View(d, s) == [now |-> Of(d.now, s), disk |-> {Of(g, s) : g \in d.disk}]
T(s) == View(trees, s)

(***************************************************************************)
(* Databases: what a restart may find, and what it finds if no power fails.*)
(***************************************************************************)
Found == {Loaded(f) : f \in base.disk}
Now == Loaded(base.now)

Writing == {"write", "file_sync", "rotate", "replace"}
Written == {"mirror", "cleanup", "data"}
Writes == Writing \cup {"db_sync"} \cup Written

\* A commit that could not put the primary back leaves the backup alone.
Readable(f) == Whole(f["db"]) \/ (f["db"] = Absent /\ f["bak"] # Torn)
Anchored(f) == Whole(f["db"]) \/ (f["db"] = Absent /\ f["bak"] = Absent)
Backed == \A f \in base.disk : f["bak"] = Torn => Whole(f["db"])
\* The only database was removed, or overwritten, and a restart may find none.
Conceded == \A s \in Suites : {Absent, Torn} \subseteq promised[s]
BaseInv ==
  /\ Now = Torn \/ Conceded \/ Backed
  /\ op.at \notin {"load", "replace"} => Readable(base.now)
  /\ op.at \notin {"load", "replace"} /\ ~configured => Anchored(base.now)
  /\ op.at \in {"rotate", "replace"} => base.now["tmp"] = op.records
  /\ At("replace") =>
       /\ base.now["db"] = Absent
       /\ IF op.primary THEN Whole(base.now["bak"]) ELSE base.now["bak"] = Absent
  /\ At("db_sync") => base.now["db"] = op.records
  /\ op.at \in Written => \A f \in base.disk : f["db"] = op.records

\* The database that can be read is of what memory has, but for the change under way.
Before == [s \in Suites |-> IF s = S /\ op.at \in Writing THEN op.old ELSE suites[s]]

\* Of a suite that is not in doubt, and that a restart has to find, no database has
\* another version than that one.
Agree(s) ==
  \/ Absent \in promised[s]
  \/ \A r \in Found : Now # Torn /\ r # Torn => r[s] \in {Absent, Now[s]} \/ Now[s] = Absent
Lost == Bare /\ Conceded
LoadInv ==
  /\ configured => Now = Before \/ Lost
  /\ ~configured /\ ~At("load") => \A s \in Suites : op.records[s] \in {Now[s], Absent}
  /\ ~configured /\ op.at \in {"db_sync", "mirror", "cleanup", "sweep"} => op.records = Now
  /\ At("recover") =>
       /\ ~op.changed => op.records = Now
       /\ \A s \in op.rest : op.records[s] # Absent
  /\ \A s \in Suites \ doubt : ~(At("db_sync") /\ s = S) => Agree(s)

(***************************************************************************)
(* The directories d of one suite.  A restart finds the version v in each  *)
(* of the three places that count.                                         *)
(***************************************************************************)
Kept3 == {"final", "backup", "tombstone"}
Held(g, v) == \E p \in Kept3 : g[p] = v
AllHold(d, v) == \A g \in d.disk : Held(g, v)
Holds(d) == {v \in Versions : \E g \in d.disk : Held(g, v)}

\* Whatever is removed elsewhere v is found: at p, or where nothing is any more.
Firm(d, v, p) ==
  /\ d.now[p] = v
  /\ \A g \in d.disk : \E q \in Kept3 : g[q] = v /\ (q = p \/ d.now[q] = Absent)

\* The call o has moved its old version aside.
From(o) == IF o.call = "install" THEN "backup" ELSE "tombstone"
Third(o) == IF o.call = "install" THEN "tombstone" ELSE "backup"
Aside(d, o) ==
  /\ o.kept /\ d.now[From(o)] = o.old
  /\ \A g \in d.disk :
       \/ g[From(o)] = o.old
       \/ ~o.active /\ o.at # "activate" /\ d.now["final"] = Absent /\ g["final"] = o.old
       \/ d.now[Third(o)] = Absent /\ g[Third(o)] = o.old

\* A suite of version v that no call has touched; P is what was promised.
Steady(d, v, P, unsure) ==
  v # Absent => IF unsure THEN AllHold(d, v) \/ Absent \in P ELSE Firm(d, v, "final")

\* One that the call o is changing.
Starts == {"staging", "clear"}
Unmoved(o) ==
  o.at \in {"backup", "bury", "undo_sync"} \/ (o.at = "undo" /\ ~o.kept /\ ~o.active)
Changing(d, o, P, unsure) ==
  IF unsure THEN Absent \in P
  ELSE o.old # Absent => IF Unmoved(o) THEN Firm(d, o.old, "final") ELSE Aside(d, o)

\* Where the new version is.
Arrives(d, o) ==
  o.call = "install" =>
    /\ o.at \in {"clear", "backup", "backup_sync", "activate"} => d.now["stage"] = o.new
    /\ o.at = "activate_sync" => d.now["final"] = o.new
    /\ o.at \in Writes => \A g \in d.disk : g["final"] = o.new

Touched(s) == s = S /\ op.at \notin Starts \cup Written
TreesInv ==
  \A s \in Suites :
    /\ ~Touched(s) => Steady(T(s), suites[s], promised[s], s \in doubt)
    /\ Touched(s) => Changing(T(s), op, promised[s], s \in doubt)
    /\ s = S => Arrives(T(s), op)

(***************************************************************************)
(* A configure takes the first place that has the version of the record.   *)
(***************************************************************************)
First(g, v) ==
  IF g["final"] = v THEN "final"
  ELSE IF g["backup"] = v THEN "backup"
  ELSE IF g["tombstone"] = v THEN "tombstone" ELSE "none"

Recoverable(s) ==
  Now # Torn /\ Now[s] # Absent /\ First(T(s).now, Now[s]) # "none" =>
    Firm(T(s), Now[s], First(T(s).now, Now[s]))
Recorded(s) ==
  ~At("load") =>
    /\ op.records[s] # Absent /\ (At("recover") => s \notin op.rest) =>
         Firm(T(s), op.records[s], "final")
    /\ op.records[s] = Absent /\ Now[s] # Absent => First(T(s).now, Now[s]) = "none"
RecoveryInv ==
  /\ doubt = {}
  /\ \A s \in Suites : Recoverable(s) /\ Recorded(s)

(***************************************************************************)
(* What a restart finds of the suite s is in P, whichever of the databases *)
(* F it has and whatever it has of its directories d.                      *)
(***************************************************************************)
Promises(F, d, P, s) ==
  \A r \in F :
    /\ r = Torn => Torn \in P
    /\ r # Torn => /\ r[s] \in Holds(d) => r[s] \in P
                   /\ (r[s] # Absent /\ AllHold(d, r[s])) \/ Absent \in P
Promised == \A s \in Suites : Promises(Found, T(s), promised[s], s)
Untouched == \A s \in wiped, r \in Found : r # Torn => r[s] = Absent

(***************************************************************************)
(* The call in progress.                                                   *)
(***************************************************************************)
Calling == {"install", "uninstall"}
OpTypeOK ==
  op \in [call : {"none", "update", "configure"} \cup Calling,
          at : {"idle", "load", "recover", "sweep", "backup", "backup_sync", "activate",
                "activate_sync", "bury", "bury_sync", "undo", "undo_sync"} \cup Starts \cup Writes,
          suite : Suites \cup {NoSuite},
          old : Versions \cup {Absent}, new : Versions \cup {Absent},
          kept : BOOLEAN, active : BOOLEAN, records : Records, primary : BOOLEAN,
          rest : SUBSET Suites, changed : BOOLEAN]

Moves == {"backup", "backup_sync", "activate", "activate_sync", "bury", "bury_sync",
          "undo", "undo_sync"}
CallInv ==
  /\ op.call \notin Calling => S = NoSuite
  /\ op.call \in Calling => S \in Suites /\ op.at \in Starts \cup Moves \cup Writes
  /\ op.call = "none" <=> At("idle")
  /\ op.call = "update" => op.at \in Writes
  /\ op.call = "configure" => op.at \in {"load", "recover", "sweep"} \cup Writes
  /\ configured <=> op.call # "configure"
  /\ op.call = "install" => op.new \in Versions
  /\ op.call = "uninstall" => op.new = Absent
  /\ op.at \in {"staging", "backup", "backup_sync", "activate", "activate_sync"} =>
       op.call = "install"
  /\ op.at \in {"bury", "bury_sync", "data"} => op.call = "uninstall"
  /\ configured /\ op.at \in Writes => op.records = suites
  /\ op.call \in Calling => suites[S] = IF op.at \in Writes THEN op.new ELSE op.old
  /\ op.at \in Starts \cup {"bury"} => ~op.kept
  /\ At("backup") => op.kept
  /\ op.active => op.call = "install" /\ op.at \in {"activate_sync", "undo", "undo_sync"} \cup Writes

StateOK ==
  /\ Maps(trees, Suites \X Places, Entries) /\ Maps(base, Root, Databases)
  /\ suites \in Records /\ configured \in BOOLEAN
  /\ wiped \subseteq Suites /\ doubt \subseteq Suites
  /\ promised \in [Suites -> SUBSET Entries]
  /\ calls \in Nat /\ faults \in Nat /\ crashes \in Nat

SuiteInv ==
  /\ StateOK /\ OpTypeOK /\ CallInv
  /\ BaseInv /\ LoadInv
  /\ configured => TreesInv
  /\ ~configured => RecoveryInv
  /\ Promised /\ Untouched

-----------------------------------------------------------------------------
(***************************************************************************)
(* Operations on a directory.                                              *)
(***************************************************************************)
Set(f, n, x) == [f EXCEPT ![n] = x]
Gone(f, from, to, x) == [f EXCEPT ![to] = x, ![from] = Absent]

LEMMA SetIs ==
  ASSUME NEW I, NEW V, NEW f \in [I -> V], NEW n \in I, NEW x \in V
  PROVE  /\ Set(f, n, x) \in [I -> V]
         /\ \A m \in I : Set(f, n, x)[m] = IF m = n THEN x ELSE f[m]
BY DEF Set

LEMMA GoneIs ==
  ASSUME NEW I, NEW V, NEW f \in [I -> V], NEW from \in I, NEW to \in I, NEW x \in V, Absent \in V
  PROVE  /\ Gone(f, from, to, x) \in [I -> V]
         /\ \A m \in I : Gone(f, from, to, x)[m] =
              IF m = from THEN Absent ELSE IF m = to THEN x ELSE f[m]
BY DEF Gone

LEMMA MapsAre ==
  ASSUME NEW I, NEW V, NEW d, Maps(d, I, V)
  PROVE  /\ d.now \in [I -> V] /\ d.now \in d.disk /\ \A f \in d.disk : f \in [I -> V]
         /\ d = [now |-> d.now, disk |-> d.disk]
BY DEF Maps

\* e is d with the entry n set to x; on the disk it may be set to any of X, or not.
Edits(d, e, I, V, n, x, X) ==
  /\ Maps(e, I, V) /\ e.now = Set(d.now, n, x)
  /\ \A g \in e.disk : g \in d.disk \/ \E h \in d.disk, y \in X : g = Set(h, n, y)

LEMMA PutMaps ==
  ASSUME NEW I, NEW V, NEW d, Maps(d, I, V), NEW n \in I, NEW x \in V
  PROVE  Edits(d, Put(d, n, x), I, V, n, x, {x})
<1>. DEFINE e == Put(d, n, x)
<1>1. /\ e.now = Set(d.now, n, x)
      /\ e.disk = d.disk \cup {Set(f, n, x) : f \in d.disk}
      /\ e = [now |-> e.now, disk |-> e.disk]
  BY DEF Put, Set
<1>2. d.now \in [I -> V] /\ d.now \in d.disk /\ \A f \in d.disk : f \in [I -> V]
  BY MapsAre
<1>3. \A f \in [I -> V] : Set(f, n, x) \in [I -> V]
  BY SetIs
<1>4. e.now \in [I -> V] /\ e.now \in e.disk
  BY <1>1, <1>2, <1>3
<1>5. \A f \in e.disk : f \in [I -> V]
  BY <1>1, <1>2, <1>3
<1>6. Maps(e, I, V)
  BY <1>1, <1>4, <1>5 DEF Maps
<1>. QED BY <1>1, <1>6 DEF Edits

\* The entry "from" becomes "to".
Renames(d, e, I, V, from, to) ==
  /\ Maps(e, I, V) /\ e.now = Gone(d.now, from, to, d.now[from])
  /\ \A g \in e.disk : g \in d.disk \/ \E h \in d.disk : g = Gone(h, from, to, d.now[from])

LEMMA RenameMaps ==
  ASSUME NEW I, NEW V, NEW d, Maps(d, I, V), NEW from \in I, NEW to \in I, Absent \in V
  PROVE  Renames(d, Rename(d, from, to), I, V, from, to)
<1>. DEFINE e == Rename(d, from, to)
            x == d.now[from]
<1>1. /\ e.now = Gone(d.now, from, to, x)
      /\ e.disk = d.disk \cup {Gone(f, from, to, x) : f \in d.disk}
      /\ e = [now |-> e.now, disk |-> e.disk]
  BY DEF Rename, Gone
<1>. HIDE DEF x
<1>2. d.now \in [I -> V] /\ d.now \in d.disk /\ \A f \in d.disk : f \in [I -> V]
  BY MapsAre
<1>3. \A f \in [I -> V] : Gone(f, from, to, x) \in [I -> V]
  <2>1. x \in V
    BY <1>2 DEF x
  <2>. QED BY <2>1, GoneIs
<1>4. e.now \in [I -> V] /\ e.now \in e.disk
  BY <1>1, <1>2, <1>3
<1>5. \A f \in e.disk : f \in [I -> V]
  BY <1>1, <1>2, <1>3
<1>6. Maps(e, I, V)
  BY <1>1, <1>4, <1>5 DEF Maps
<1>. QED BY <1>1, <1>6 DEF x, Renames

LEMMA SettledMaps ==
  ASSUME NEW I, NEW V, NEW f \in [I -> V]
  PROVE  Maps(Settled(f), I, V) /\ Settled(f).now = f /\ Settled(f).disk = {f}
BY DEF Settled, Maps

LEMMA SyncedMaps ==
  ASSUME NEW I, NEW V, NEW d, Maps(d, I, V)
  PROVE  Maps(Synced(d), I, V) /\ Synced(d).now = d.now /\ Synced(d).disk = {d.now}
BY SettledMaps DEF Synced, Maps

LEMMA UnlinkMaps ==
  ASSUME NEW I, NEW V, NEW d, Maps(d, I, V), NEW n \in I, Absent \in V
  PROVE  Edits(d, Unlink(d, n), I, V, n, Absent, {Absent})
<1>1. CASE d.now[n] = Absent
  <2>1. Unlink(d, n) = d
    BY <1>1 DEF Unlink
  <2>2. d.now = Set(d.now, n, Absent)
    BY <1>1 DEF Maps, Set
  <2>. QED BY <2>1, <2>2 DEF Edits
<1>2. CASE d.now[n] # Absent
  <2>1. Unlink(d, n) = Put(d, n, Absent)
    BY <1>2 DEF Unlink
  <2>. QED BY <2>1, PutMaps
<1>. QED BY <1>1, <1>2

\* What is removed is gone; what is not may be cut short.
LEMMA RemoveMaps ==
  ASSUME NEW I, NEW V, NEW d, Maps(d, I, V), NEW n \in I, {Absent, Torn} \subseteq V
  PROVE  Edits(d, RemoveTree(d, n), I, V, n, Absent, IF d.now[n] = Absent THEN {} ELSE {Absent, Torn})
<1>0. Absent \in V /\ Torn \in V
  OBVIOUS
<1>1. CASE d.now[n] = Absent
  <2>1. RemoveTree(d, n) = d
    BY <1>1 DEF RemoveTree
  <2>2. d.now = Set(d.now, n, Absent)
    BY <1>1 DEF Maps, Set
  <2>. QED BY <2>1, <2>2 DEF Edits
<1>2. CASE d.now[n] # Absent
  <2>1. PICK e : e = Put(d, n, Torn)
    OBVIOUS
  <2>2. RemoveTree(d, n) = Unlink(e, n)
    BY <1>2, <2>1 DEF RemoveTree
  <2>3. Edits(d, e, I, V, n, Torn, {Torn})
    BY <1>0, <2>1, PutMaps
  <2>4. PICK c : c = Unlink(e, n)
    OBVIOUS
  <2>5. Edits(e, c, I, V, n, Absent, {Absent})
    <3>1. Maps(e, I, V)
      BY <2>3 DEF Edits
    <3>. QED BY <1>0, <2>4, <3>1, UnlinkMaps
  <2>6. \A f : Set(Set(f, n, Torn), n, Absent) = Set(f, n, Absent)
    BY DEF Set
  <2>7. c.now = Set(d.now, n, Absent)
    BY <2>3, <2>5, <2>6 DEF Edits
  <2>8. ASSUME NEW g \in c.disk
        PROVE  g \in d.disk \/ \E h \in d.disk, x \in {Absent, Torn} : g = Set(h, n, x)
    <3>1. CASE g \in e.disk
      BY <2>3, <3>1 DEF Edits
    <3>2. CASE g \notin e.disk
      <4>1. PICK h \in e.disk : g = Set(h, n, Absent)
        BY <2>5, <3>2 DEF Edits
      <4>2. CASE h \in d.disk
        BY <4>1, <4>2
      <4>3. CASE h \notin d.disk
        <5>1. PICK k \in d.disk : h = Set(k, n, Torn)
          BY <2>3, <4>3 DEF Edits
        <5>2. g = Set(k, n, Absent)
          BY <2>6, <4>1, <5>1
        <5>. QED BY <5>2
      <4>. QED BY <4>2, <4>3
    <3>. QED BY <3>1, <3>2
  <2>9. Maps(c, I, V)
    BY <2>5 DEF Edits
  <2>. QED BY <1>2, <2>2, <2>4, <2>7, <2>8, <2>9 DEF Edits
<1>. QED BY <1>1, <1>2

-----------------------------------------------------------------------------
(***************************************************************************)
(* Directories of one suite.                                               *)
(***************************************************************************)
Trees2 == Suites \X Places

\* e is d but for the staged directory, with less to be found after a crash.
Like(d, e) ==
  /\ \A p \in Kept3 : e.now[p] = d.now[p]
  /\ \A g \in e.disk : \E h \in d.disk : \A p \in Kept3 : g[p] = h[p]

LEMMA Places3 == Kept3 \subseteq Places /\ "stage" \in Places /\ "stage" \notin Kept3
BY DEF Kept3, Places

LEMMA OfIs ==
  ASSUME NEW h \in [Trees2 -> Entries], NEW s \in Suites
  PROVE  Of(h, s) \in [Places -> Entries] /\ \A p \in Places : Of(h, s)[p] = h[<<s, p>>]
BY DEF Of, Trees2

LEMMA ViewMaps ==
  ASSUME NEW d, Maps(d, Trees2, Entries), NEW s \in Suites
  PROVE  /\ Maps(View(d, s), Places, Entries)
         /\ View(d, s).now = Of(d.now, s)
         /\ \A h \in d.disk : Of(h, s) \in View(d, s).disk
         /\ \A g \in View(d, s).disk : \E h \in d.disk : g = Of(h, s)
<1>1. d.now \in [Trees2 -> Entries] /\ d.now \in d.disk /\ \A f \in d.disk : f \in [Trees2 -> Entries]
  BY MapsAre
<1>2. \A f \in d.disk : Of(f, s) \in [Places -> Entries]
  BY <1>1, OfIs
<1>3. /\ View(d, s).now = Of(d.now, s) /\ View(d, s).disk = {Of(g, s) : g \in d.disk}
      /\ View(d, s) = [now |-> View(d, s).now, disk |-> View(d, s).disk]
  BY DEF View
<1>4. Of(d.now, s) \in [Places -> Entries] /\ Of(d.now, s) \in View(d, s).disk
  BY <1>1, <1>2, <1>3
<1>5. \A g \in View(d, s).disk : g \in [Places -> Entries]
  BY <1>2, <1>3
<1>. QED BY <1>3, <1>4, <1>5 DEF Maps

LEMMA OfSet ==
  ASSUME NEW h \in [Trees2 -> Entries], NEW s \in Suites, NEW t \in Suites, NEW p \in Places,
         NEW x \in Entries
  PROVE  Of(Set(h, <<s, p>>, x), t) = IF t = s THEN Set(Of(h, s), p, x) ELSE Of(h, t)
BY DEF Of, Set, Trees2

LEMMA OfGone ==
  ASSUME NEW h \in [Trees2 -> Entries], NEW s \in Suites, NEW t \in Suites, NEW p \in Places,
         NEW q \in Places, NEW x \in Entries
  PROVE  Of(Gone(h, <<s, p>>, <<s, q>>, x), t) =
           IF t = s THEN Gone(Of(h, s), p, q, x) ELSE Of(h, t)
BY DEF Of, Gone, Trees2, Entries

\* What changes an entry of a suite changes it in its view and in no other.
LEMMA ViewEdits ==
  ASSUME NEW d, NEW e, NEW s \in Suites, NEW p \in Places, NEW x \in Entries, NEW X,
         X \subseteq Entries, Maps(d, Trees2, Entries),
         Edits(d, e, Trees2, Entries, <<s, p>>, x, X)
  PROVE  /\ Edits(View(d, s), View(e, s), Places, Entries, p, x, X)
         /\ \A t \in Suites \ {s} : Like(View(d, t), View(e, t))
<1>1. /\ Maps(e, Trees2, Entries) /\ e.now = Set(d.now, <<s, p>>, x)
      /\ \A g \in e.disk : g \in d.disk \/ \E h \in d.disk, y \in X : g = Set(h, <<s, p>>, y)
  BY DEF Edits
<1>2. d.now \in [Trees2 -> Entries] /\ \A f \in d.disk : f \in [Trees2 -> Entries]
  BY MapsAre
<1>3. Edits(View(d, s), View(e, s), Places, Entries, p, x, X)
  <2>1. Maps(View(e, s), Places, Entries)
    BY <1>1, ViewMaps
  <2>2. View(e, s).now = Set(View(d, s).now, p, x)
    BY <1>1, <1>2, ViewMaps, OfSet
  <2>3. ASSUME NEW g \in View(e, s).disk
        PROVE  g \in View(d, s).disk \/ \E h \in View(d, s).disk, y \in X : g = Set(h, p, y)
    <3>1. PICK f \in e.disk : g = Of(f, s)
      BY <1>1, ViewMaps
    <3>2. CASE f \in d.disk
      BY <3>1, <3>2, ViewMaps
    <3>3. CASE f \notin d.disk
      <4>1. PICK h \in d.disk, y \in X : f = Set(h, <<s, p>>, y)
        BY <1>1, <3>3
      <4>2. g = Set(Of(h, s), p, y)
        BY <1>2, <3>1, <4>1, OfSet
      <4>3. Of(h, s) \in View(d, s).disk
        BY ViewMaps
      <4>. QED BY <4>2, <4>3
    <3>. QED BY <3>2, <3>3
  <2>. QED BY <2>1, <2>2, <2>3 DEF Edits
<1>4. ASSUME NEW t \in Suites, t # s PROVE Like(View(d, t), View(e, t))
  <2>1. View(e, t).now = View(d, t).now
    BY <1>1, <1>2, <1>4, ViewMaps, OfSet
  <2>2. ASSUME NEW g \in View(e, t).disk PROVE g \in View(d, t).disk
    <3>1. PICK f \in e.disk : g = Of(f, t)
      BY <1>1, ViewMaps
    <3>2. CASE f \in d.disk
      BY <3>1, <3>2, ViewMaps
    <3>3. CASE f \notin d.disk
      <4>1. PICK h \in d.disk, y \in X : f = Set(h, <<s, p>>, y)
        BY <1>1, <3>3
      <4>2. g = Of(h, t)
        BY <1>2, <1>4, <3>1, <4>1, OfSet
      <4>. QED BY <4>2, ViewMaps
    <3>. QED BY <3>2, <3>3
  <2>. QED BY <2>1, <2>2 DEF Like
<1>. QED BY <1>3, <1>4

LEMMA ViewRenames ==
  ASSUME NEW d, NEW e, NEW s \in Suites, NEW p \in Places, NEW q \in Places,
         Maps(d, Trees2, Entries),
         Renames(d, e, Trees2, Entries, <<s, p>>, <<s, q>>)
  PROVE  /\ Renames(View(d, s), View(e, s), Places, Entries, p, q)
         /\ \A t \in Suites \ {s} : Like(View(d, t), View(e, t))
<1>. DEFINE x == d.now[<<s, p>>]
<1>1. /\ Maps(e, Trees2, Entries) /\ e.now = Gone(d.now, <<s, p>>, <<s, q>>, x)
      /\ \A g \in e.disk : g \in d.disk \/ \E h \in d.disk : g = Gone(h, <<s, p>>, <<s, q>>, x)
  BY DEF Renames
<1>2. d.now \in [Trees2 -> Entries] /\ \A f \in d.disk : f \in [Trees2 -> Entries]
  BY MapsAre
<1>0. x \in Entries /\ x = View(d, s).now[p]
  <2>1. x \in Entries
    BY <1>2 DEF Trees2
  <2>. QED BY <2>1, <1>2, ViewMaps, OfIs
<1>. HIDE DEF x
<1>3. Renames(View(d, s), View(e, s), Places, Entries, p, q)
  <2>1. Maps(View(e, s), Places, Entries)
    BY <1>1, ViewMaps
  <2>2. View(e, s).now = Gone(View(d, s).now, p, q, x)
    BY <1>0, <1>1, <1>2, ViewMaps, OfGone
  <2>3. ASSUME NEW g \in View(e, s).disk
        PROVE  g \in View(d, s).disk \/ \E h \in View(d, s).disk : g = Gone(h, p, q, x)
    <3>1. PICK f \in e.disk : g = Of(f, s)
      BY <1>1, ViewMaps
    <3>2. CASE f \in d.disk
      BY <3>1, <3>2, ViewMaps
    <3>3. CASE f \notin d.disk
      <4>1. PICK h \in d.disk : f = Gone(h, <<s, p>>, <<s, q>>, x)
        BY <1>1, <3>3
      <4>2. g = Gone(Of(h, s), p, q, x)
        BY <1>0, <1>2, <3>1, <4>1, OfGone
      <4>3. Of(h, s) \in View(d, s).disk
        BY ViewMaps
      <4>. QED BY <4>2, <4>3
    <3>. QED BY <3>2, <3>3
  <2>. QED BY <1>0, <2>1, <2>2, <2>3 DEF Renames
<1>4. ASSUME NEW t \in Suites, t # s PROVE Like(View(d, t), View(e, t))
  <2>1. View(e, t).now = View(d, t).now
    BY <1>0, <1>1, <1>2, <1>4, ViewMaps, OfGone
  <2>2. ASSUME NEW g \in View(e, t).disk PROVE g \in View(d, t).disk
    <3>1. PICK f \in e.disk : g = Of(f, t)
      BY <1>1, ViewMaps
    <3>2. CASE f \in d.disk
      BY <3>1, <3>2, ViewMaps
    <3>3. CASE f \notin d.disk
      <4>1. PICK h \in d.disk : f = Gone(h, <<s, p>>, <<s, q>>, x)
        BY <1>1, <3>3
      <4>2. g = Of(h, t)
        BY <1>0, <1>2, <1>4, <3>1, <4>1, OfGone
      <4>. QED BY <4>2, ViewMaps
    <3>. QED BY <3>2, <3>3
  <2>. QED BY <2>1, <2>2 DEF Like
<1>. QED BY <1>3, <1>4

LEMMA ViewSynced ==
  ASSUME NEW d, Maps(d, Trees2, Entries), NEW s \in Suites
  PROVE  Like(View(d, s), View(Synced(d), s)) /\ View(Synced(d), s).now = View(d, s).now
<1>1. Maps(Synced(d), Trees2, Entries) /\ Synced(d).now = d.now /\ Synced(d).disk = {d.now}
  BY SyncedMaps
<1>2. View(Synced(d), s).now = View(d, s).now
  BY <1>1, ViewMaps
<1>3. \A g \in View(Synced(d), s).disk : g \in View(d, s).disk
  <2>1. d.now \in d.disk
    BY MapsAre
  <2>2. \A g \in View(Synced(d), s).disk : g = Of(d.now, s)
    BY <1>1, ViewMaps
  <2>. QED BY <2>1, <2>2, ViewMaps
<1>. QED BY <1>2, <1>3 DEF Like

LEMMA LikeSelf ==
  ASSUME NEW d
  PROVE  Like(d, d)
BY DEF Like

LEMMA LikeTwice ==
  ASSUME NEW d, NEW e, NEW c, Like(d, e), Like(e, c)
  PROVE  Like(d, c)
<1>1. \A p \in Kept3 : c.now[p] = d.now[p]
  BY DEF Like
<1>2. ASSUME NEW g \in c.disk PROVE \E k \in d.disk : \A p \in Kept3 : g[p] = k[p]
  <2>1. PICK h \in e.disk : \A p \in Kept3 : g[p] = h[p]
    BY DEF Like
  <2>2. PICK k \in d.disk : \A p \in Kept3 : h[p] = k[p]
    BY DEF Like
  <2>. QED BY <2>1, <2>2
<1>. QED BY <1>1, <1>2 DEF Like

(***************************************************************************)
(* What an operation leaves of the facts about a suite's directories.      *)
(***************************************************************************)
LEMMA FirmHolds ==
  ASSUME NEW d, NEW v, NEW p, Firm(d, v, p)
  PROVE  AllHold(d, v)
BY DEF Firm, AllHold, Held

LEMMA AsideHolds ==
  ASSUME NEW d, NEW o, Aside(d, o)
  PROVE  AllHold(d, o.old)
BY DEF Aside, AllHold, Held, From, Third, Kept3

LEMMA LikeFirm ==
  ASSUME NEW d, NEW e, Like(d, e), NEW v, NEW p \in Kept3, Firm(d, v, p)
  PROVE  Firm(e, v, p)
<1>1. e.now[p] = v
  BY DEF Like, Firm
<1>2. ASSUME NEW g \in e.disk PROVE \E q \in Kept3 : g[q] = v /\ (q = p \/ e.now[q] = Absent)
  <2>1. PICK h \in d.disk : \A q \in Kept3 : g[q] = h[q]
    BY DEF Like
  <2>2. PICK q \in Kept3 : h[q] = v /\ (q = p \/ d.now[q] = Absent)
    BY DEF Firm
  <2>. QED BY <2>1, <2>2 DEF Like
<1>. QED BY <1>1, <1>2 DEF Firm

LEMMA LikeHeld ==
  ASSUME NEW d, NEW e, Like(d, e)
  PROVE  /\ \A v : AllHold(d, v) => AllHold(e, v)
         /\ Holds(e) \subseteq Holds(d)
         /\ \A v : (\A g \in d.disk : g["final"] = v) => (\A g \in e.disk : g["final"] = v)
<1>0. \A g \in e.disk : \E h \in d.disk : \A p \in Kept3 : g[p] = h[p]
  BY DEF Like
<1>1. \A g \in e.disk : \E h \in d.disk : \A v : Held(g, v) <=> Held(h, v)
  BY <1>0 DEF Held
<1>2. \A v : AllHold(d, v) => AllHold(e, v)
  BY <1>1 DEF AllHold
<1>3. Holds(e) \subseteq Holds(d)
  BY <1>1 DEF Holds
<1>4. \A g \in e.disk : \E h \in d.disk : g["final"] = h["final"]
  BY <1>0 DEF Kept3
<1>. QED BY <1>2, <1>3, <1>4

LEMMA LikeAside ==
  ASSUME NEW d, NEW e, Like(d, e), NEW o, Aside(d, o)
  PROVE  Aside(e, o)
<1>0. From(o) \in Kept3 /\ Third(o) \in Kept3 /\ "final" \in Kept3
  BY DEF From, Third, Kept3
<1>1. o.kept /\ e.now[From(o)] = o.old
  BY <1>0 DEF Like, Aside
<1>2. ASSUME NEW g \in e.disk
      PROVE  \/ g[From(o)] = o.old
             \/ ~o.active /\ o.at # "activate" /\ e.now["final"] = Absent /\ g["final"] = o.old
             \/ e.now[Third(o)] = Absent /\ g[Third(o)] = o.old
  <2>1. PICK h \in d.disk : \A q \in Kept3 : g[q] = h[q]
    BY DEF Like
  <2>. QED BY <1>0, <2>1 DEF Aside, Like
<1>. QED BY <1>1, <1>2 DEF Aside

\* The call goes on: its old version stays aside.
LEMMA AsideStays ==
  ASSUME NEW d, NEW o, NEW c, Aside(d, o), c.call = o.call, c.old = o.old,
         c.kept = o.kept, c.active = o.active, c.at # "activate"
  PROVE  Aside(d, c)
BY DEF Aside, From, Third

\* Something that is there is removed, or is not.
Harmless(d, p, x, X) ==
  p # "stage" => /\ X \cup {x} \subseteq {Absent, Torn}
                 /\ d.now[p] = Absent => X = {} /\ x = Absent

Sets(f, g, p, x) == \A q \in Places : g[q] = IF q = p THEN x ELSE f[q]
Passes(f, g, p, q, x) ==
  \A m \in Places : g[m] = IF m = p THEN Absent ELSE IF m = q THEN x ELSE f[m]

LEMMA EditNow ==
  ASSUME NEW d, NEW e, NEW p \in Places, NEW x \in Entries, NEW X, Maps(d, Places, Entries),
         Edits(d, e, Places, Entries, p, x, X)
  PROVE  Sets(d.now, e.now, p, x)
<1>1. d.now \in [Places -> Entries]
  BY MapsAre
<1>. QED BY <1>1 DEF Edits, Set, Sets

\* Each map is one from before, or one but for p.
LEMMA EditDisk ==
  ASSUME NEW d, NEW e, NEW p \in Places, NEW x, NEW X, X \subseteq Entries, Maps(d, Places, Entries),
         Edits(d, e, Places, Entries, p, x, X), NEW g \in e.disk
  PROVE  g \in d.disk \/ \E h \in d.disk, y \in X : Sets(h, g, p, y)
<1>1. \A f \in d.disk : f \in [Places -> Entries]
  BY MapsAre
<1>2. CASE g \notin d.disk
  <2>1. PICK h \in d.disk, y \in X : g = Set(h, p, y)
    BY <1>2 DEF Edits
  <2>2. Sets(h, g, p, y)
    BY <1>1, <2>1 DEF Set, Sets
  <2>. QED BY <2>2
<1>. QED BY <1>2

LEMMA EditStage ==
  ASSUME NEW d, NEW e, NEW x \in Entries, NEW X, X \subseteq Entries, Maps(d, Places, Entries),
         Edits(d, e, Places, Entries, "stage", x, X)
  PROVE  Like(d, e)
<1>0. Sets(d.now, e.now, "stage", x)
  BY EditNow, Places3
<1>1. \A p \in Kept3 : e.now[p] = d.now[p]
  BY <1>0, Places3 DEF Sets
<1>2. ASSUME NEW g \in e.disk PROVE \E h \in d.disk : \A p \in Kept3 : g[p] = h[p]
  <2>1. g \in d.disk \/ \E h \in d.disk, y \in X : Sets(h, g, "stage", y)
    BY EditDisk, Places3
  <2>. QED BY <2>1, Places3 DEF Sets
<1>. QED BY <1>1, <1>2 DEF Like

LEMMA EditFirm ==
  ASSUME NEW d, NEW e, NEW p \in Places, NEW x \in Entries, NEW X, X \subseteq Entries,
         Maps(d, Places, Entries), Edits(d, e, Places, Entries, p, x, X), Harmless(d, p, x, X),
         NEW r \in Kept3, r # p, NEW v, Firm(d, v, r)
  PROVE  Firm(e, v, r)
<1>1. CASE p = "stage"
  BY <1>1, EditStage, LikeFirm
<1>2. CASE p # "stage"
  <2>9. Sets(d.now, e.now, p, x)
    BY EditNow
  <2>0. \A q \in Kept3 : e.now[q] = IF q = p THEN x ELSE d.now[q]
    BY <2>9, Places3 DEF Sets
  <2>1. e.now[r] = v
    BY <2>0 DEF Firm
  <2>2. ASSUME NEW g \in e.disk PROVE \E q \in Kept3 : g[q] = v /\ (q = r \/ e.now[q] = Absent)
    <3>1. CASE g \in d.disk
      <4>1. PICK q \in Kept3 : g[q] = v /\ (q = r \/ d.now[q] = Absent)
        BY <3>1 DEF Firm
      <4>. QED BY <1>2, <2>0, <4>1 DEF Harmless
    <3>2. CASE g \notin d.disk
      <4>1. PICK h \in d.disk, y \in X : Sets(h, g, p, y)
        BY <3>2, EditDisk
      <4>2. PICK q \in Kept3 : h[q] = v /\ (q = r \/ d.now[q] = Absent)
        BY DEF Firm
      <4>3. q # p
        BY <1>2, <4>1, <4>2 DEF Harmless
      <4>. QED BY <2>0, <4>1, <4>2, <4>3, Places3 DEF Sets
    <3>. QED BY <3>1, <3>2
  <2>. QED BY <2>1, <2>2 DEF Firm
<1>. QED BY <1>1, <1>2

LEMMA EditHolds ==
  ASSUME NEW d, NEW e, NEW p \in Places, NEW x \in Entries, NEW X, X \subseteq Entries,
         Maps(d, Places, Entries), Edits(d, e, Places, Entries, p, x, X), Harmless(d, p, x, X)
  PROVE  Holds(e) \subseteq Holds(d)
<1>1. CASE p = "stage"
  BY <1>1, EditStage, LikeHeld
<1>2. CASE p # "stage"
  <2>. SUFFICES ASSUME NEW v \in Versions, NEW g \in e.disk, NEW q \in Kept3, g[q] = v
                PROVE  v \in Holds(d)
    BY DEF Holds, Held
  <2>1. CASE g \in d.disk
    BY <2>1 DEF Holds, Held
  <2>2. CASE g \notin d.disk
    <3>1. PICK h \in d.disk, y \in X : Sets(h, g, p, y)
      BY <2>2, EditDisk
    <3>2. y \notin Versions
      BY <1>2, FilesAssumption DEF Harmless
    <3>3. h[q] = v
      BY <3>1, <3>2, Places3 DEF Sets
    <3>. QED BY <3>3 DEF Holds, Held
  <2>. QED BY <2>1, <2>2
<1>. QED BY <1>1, <1>2

\* The new version goes, and what was aside stays.
LEMMA EditAside ==
  ASSUME NEW d, NEW e, NEW x \in Entries, NEW X, X \subseteq Entries,
         Maps(d, Places, Entries), Edits(d, e, Places, Entries, "final", x, X),
         NEW o, o.active, Aside(d, o)
  PROVE  Aside(e, o)
<1>0. /\ From(o) \in Places /\ Third(o) \in Places /\ From(o) # "final" /\ Third(o) # "final"
      /\ "final" \in Places
  BY DEF From, Third, Places
<1>9. Sets(d.now, e.now, "final", x)
  BY <1>0, EditNow
<1>1. o.kept /\ e.now[From(o)] = o.old
  BY <1>0, <1>9 DEF Aside, Sets
<1>2. e.now[Third(o)] = d.now[Third(o)]
  BY <1>0, <1>9 DEF Sets
<1>3. ASSUME NEW g \in e.disk
      PROVE  g[From(o)] = o.old \/ (e.now[Third(o)] = Absent /\ g[Third(o)] = o.old)
  <2>1. CASE g \in d.disk
    BY <1>2, <2>1 DEF Aside
  <2>2. CASE g \notin d.disk
    <3>1. PICK h \in d.disk, y \in X : Sets(h, g, "final", y)
      BY <1>0, <2>2, EditDisk
    <3>2. h[From(o)] = o.old \/ (d.now[Third(o)] = Absent /\ h[Third(o)] = o.old)
      BY DEF Aside
    <3>. QED BY <1>0, <1>2, <3>1, <3>2 DEF Sets
  <2>. QED BY <2>1, <2>2
<1>. QED BY <1>1, <1>3 DEF Aside

LEMMA RenameNow ==
  ASSUME NEW d, NEW e, NEW p \in Places, NEW q \in Places, Maps(d, Places, Entries),
         Renames(d, e, Places, Entries, p, q)
  PROVE  Passes(d.now, e.now, p, q, d.now[p])
<1>1. d.now \in [Places -> Entries]
  BY MapsAre
<1>2. d.now[p] \in Entries /\ Absent \in Entries
  BY <1>1 DEF Entries
<1>. QED BY <1>1, <1>2 DEF Renames, Gone, Passes

LEMMA RenameDisk ==
  ASSUME NEW d, NEW e, NEW p \in Places, NEW q \in Places, Maps(d, Places, Entries),
         Renames(d, e, Places, Entries, p, q), NEW g \in e.disk
  PROVE  g \in d.disk \/ \E h \in d.disk : Passes(h, g, p, q, d.now[p])
<1>1. d.now \in [Places -> Entries] /\ \A f \in d.disk : f \in [Places -> Entries]
  BY MapsAre
<1>2. d.now[p] \in Entries /\ Absent \in Entries
  BY <1>1 DEF Entries
<1>3. CASE g \notin d.disk
  <2>1. PICK h \in d.disk : g = Gone(h, p, q, d.now[p])
    BY <1>3 DEF Renames
  <2>2. Passes(h, g, p, q, d.now[p])
    BY <1>1, <1>2, <2>1 DEF Gone, Passes
  <2>. QED BY <2>2
<1>. QED BY <1>3

LEMMA RenameHolds ==
  ASSUME NEW d, NEW e, NEW p \in Places, NEW q \in Places, Maps(d, Places, Entries),
         Renames(d, e, Places, Entries, p, q)
  PROVE  /\ Holds(e) \subseteq Holds(d) \cup {d.now[p]}
         /\ p \in Kept3 => Holds(e) \subseteq Holds(d)
<1>0. d.now \in d.disk
  BY MapsAre
<1>1. ASSUME NEW v \in Versions, NEW g \in e.disk, NEW r \in Kept3, g[r] = v
      PROVE  v \in Holds(d) \/ v = d.now[p]
  <2>1. CASE g \in d.disk
    BY <1>1, <2>1 DEF Holds, Held
  <2>2. CASE g \notin d.disk
    <3>1. PICK h \in d.disk : Passes(h, g, p, q, d.now[p])
      BY <2>2, RenameDisk
    <3>2. v = d.now[p] \/ h[r] = v
      BY <1>1, <3>1, FilesAssumption, Places3 DEF Passes
    <3>. QED BY <3>2 DEF Holds, Held
  <2>. QED BY <2>1, <2>2
<1>2. Holds(e) \subseteq Holds(d) \cup {d.now[p]}
  BY <1>1 DEF Holds, Held
<1>3. ASSUME p \in Kept3, NEW v \in Holds(e) PROVE v \in Holds(d)
  <2>1. v \in Versions /\ (v = d.now[p] => Held(d.now, v))
    BY <1>3 DEF Holds, Held
  <2>. QED BY <1>0, <1>2, <2>1 DEF Holds
<1>. QED BY <1>2, <1>3

\* The old version comes back from where it is found ...
LEMMA RenameFirm ==
  ASSUME NEW d, NEW e, NEW p \in Kept3 \ {"final"}, Maps(d, Places, Entries),
         Renames(d, e, Places, Entries, p, "final"), NEW v, Firm(d, v, p)
  PROVE  Firm(e, v, "final")
<1>0. p \in Places /\ "final" \in Places /\ p # "final"
  BY DEF Kept3, Places
<1>9. d.now[p] = v
  BY DEF Firm
<1>8. Passes(d.now, e.now, p, "final", d.now[p])
  BY <1>0, RenameNow
<1>1. \A m \in Places : e.now[m] = IF m = p THEN Absent ELSE IF m = "final" THEN v ELSE d.now[m]
  BY <1>8, <1>9 DEF Passes
<1>2. ASSUME NEW g \in e.disk
      PROVE  \E r \in Kept3 : g[r] = v /\ (r = "final" \/ e.now[r] = Absent)
  <2>1. CASE g \in d.disk
    <3>1. PICK r \in Kept3 : g[r] = v /\ (r = p \/ d.now[r] = Absent)
      BY <2>1 DEF Firm
    <3>. QED BY <1>0, <1>1, <3>1, Places3
  <2>2. CASE g \notin d.disk
    <3>0. PICK h \in d.disk : Passes(h, g, p, "final", d.now[p])
      BY <1>0, <2>2, RenameDisk
    <3>1. g["final"] = v
      BY <1>0, <1>9, <3>0 DEF Passes
    <3>. QED BY <3>1 DEF Kept3
  <2>. QED BY <2>1, <2>2
<1>. QED BY <1>0, <1>1, <1>2 DEF Firm

\* ... or from where the call has put it aside.
LEMMA AsideBack ==
  ASSUME NEW d, NEW e, NEW o, Maps(d, Places, Entries),
         Renames(d, e, Places, Entries, From(o), "final"), Aside(d, o)
  PROVE  Firm(e, o.old, "final")
<1>0. /\ From(o) \in Places /\ "final" \in Places /\ Third(o) \in Places
      /\ From(o) \in Kept3 /\ "final" \in Kept3 /\ Third(o) \in Kept3
      /\ From(o) # "final" /\ Third(o) # "final" /\ From(o) # Third(o)
  BY DEF Kept3, Places, From, Third
<1>9. d.now[From(o)] = o.old
  BY DEF Aside
<1>8. Passes(d.now, e.now, From(o), "final", d.now[From(o)])
  BY <1>0, RenameNow
<1>1. \A m \in Places :
        e.now[m] = IF m = From(o) THEN Absent ELSE IF m = "final" THEN o.old ELSE d.now[m]
  BY <1>8, <1>9 DEF Passes
<1>2. ASSUME NEW g \in e.disk
      PROVE  \E r \in Kept3 : g[r] = o.old /\ (r = "final" \/ e.now[r] = Absent)
  <2>1. CASE g \in d.disk
    <3>1. g[From(o)] = o.old \/ g["final"] = o.old \/ (d.now[Third(o)] = Absent /\ g[Third(o)] = o.old)
      BY <2>1 DEF Aside
    <3>. QED BY <1>0, <1>1, <3>1
  <2>2. CASE g \notin d.disk
    <3>0. PICK h \in d.disk : Passes(h, g, From(o), "final", d.now[From(o)])
      BY <1>0, <2>2, RenameDisk
    <3>1. g["final"] = o.old
      BY <1>0, <1>9, <3>0 DEF Passes
    <3>. QED BY <1>0, <3>1
  <2>. QED BY <2>1, <2>2
<1>. QED BY <1>0, <1>1, <1>2 DEF Firm

\* The call o puts it aside.
LEMMA PutAside ==
  ASSUME NEW d, NEW e, NEW o, Maps(d, Places, Entries),
         Renames(d, e, Places, Entries, "final", From(o)), Firm(d, o.old, "final"),
         o.kept, ~o.active, o.at # "activate"
  PROVE  Aside(e, o)
<1>0. /\ From(o) \in Places /\ "final" \in Places /\ Third(o) \in Places
      /\ From(o) # "final" /\ Third(o) # "final" /\ From(o) # Third(o)
      /\ Kept3 = {"final", From(o), Third(o)}
  BY DEF Kept3, Places, From, Third
<1>9. d.now["final"] = o.old
  BY DEF Firm
<1>8. Passes(d.now, e.now, "final", From(o), d.now["final"])
  BY <1>0, RenameNow
<1>1. \A m \in Places :
        e.now[m] = IF m = "final" THEN Absent ELSE IF m = From(o) THEN o.old ELSE d.now[m]
  BY <1>8, <1>9 DEF Passes
<1>2. ASSUME NEW g \in e.disk
      PROVE  \/ g[From(o)] = o.old
             \/ e.now["final"] = Absent /\ g["final"] = o.old
             \/ e.now[Third(o)] = Absent /\ g[Third(o)] = o.old
  <2>1. CASE g \in d.disk
    <3>1. PICK r \in Kept3 : g[r] = o.old /\ (r = "final" \/ d.now[r] = Absent)
      BY <2>1 DEF Firm
    <3>. QED BY <1>0, <1>1, <3>1
  <2>2. CASE g \notin d.disk
    <3>0. PICK h \in d.disk : Passes(h, g, "final", From(o), d.now["final"])
      BY <1>0, <2>2, RenameDisk
    <3>1. g[From(o)] = o.old
      BY <1>0, <1>9, <3>0 DEF Passes
    <3>. QED BY <3>1
  <2>. QED BY <2>1, <2>2
<1>. QED BY <1>0, <1>1, <1>2 DEF Aside

\* The new version comes; the call o is to activate it, and c is o after that.
LEMMA NewComes ==
  ASSUME NEW d, NEW e, NEW o, NEW c, Maps(d, Places, Entries),
         Renames(d, e, Places, Entries, "stage", "final"), Aside(d, o), o.at = "activate",
         c.call = o.call, c.old = o.old, c.kept = o.kept
  PROVE  Aside(e, c)
<1>0. /\ From(c) = From(o) /\ Third(c) = Third(o)
      /\ From(o) \in Places /\ "final" \in Places /\ Third(o) \in Places /\ "stage" \in Places
      /\ From(o) \notin {"final", "stage"} /\ Third(o) \notin {"final", "stage"}
  BY DEF Places, From, Third
<1>8. Passes(d.now, e.now, "stage", "final", d.now["stage"])
  BY <1>0, RenameNow
<1>1. e.now[From(o)] = d.now[From(o)] /\ e.now[Third(o)] = d.now[Third(o)]
  BY <1>0, <1>8 DEF Passes
<1>2. ASSUME NEW g \in e.disk
      PROVE  g[From(o)] = o.old \/ (d.now[Third(o)] = Absent /\ g[Third(o)] = o.old)
  <2>1. CASE g \in d.disk
    BY <2>1 DEF Aside
  <2>2. CASE g \notin d.disk
    <3>1. PICK h \in d.disk : Passes(h, g, "stage", "final", d.now["stage"])
      BY <1>0, <2>2, RenameDisk
    <3>2. h[From(o)] = o.old \/ (d.now[Third(o)] = Absent /\ h[Third(o)] = o.old)
      BY DEF Aside
    <3>. QED BY <1>0, <3>1, <3>2 DEF Passes
  <2>. QED BY <2>1, <2>2
<1>. QED BY <1>0, <1>1, <1>2 DEF Aside

-----------------------------------------------------------------------------
(***************************************************************************)
(* Databases.                                                              *)
(***************************************************************************)
LEMMA RecordsWhole ==
  /\ \A r \in Records : Whole(r) /\ r # Torn /\ r # Absent
  /\ \A x \in Databases : Whole(x) => x \in Records
  /\ ~Whole(Absent) /\ ~Whole(Torn) /\ NoRecords \in Records
  /\ Absent \in Databases /\ Torn \in Databases /\ Records \subseteq Databases
<1>1. \A r \in Records : Whole(r) /\ r # Torn /\ r # Absent
  BY DatabaseAssumption DEF Whole
<1>2. NoRecords \in Records
  BY DEF NoRecords, Records
<1>. QED BY <1>1, <1>2 DEF Databases, Whole

LEMMA LoadedIs ==
  ASSUME NEW f \in [Root -> Databases]
  PROVE  /\ Loaded(f) \in Records \cup {Torn}
         /\ Whole(f["db"]) => Loaded(f) = f["db"]
         /\ ~Whole(f["db"]) /\ Whole(f["bak"]) => Loaded(f) = f["bak"]
         /\ f["db"] = Absent /\ f["bak"] = Absent => Loaded(f) = NoRecords
         /\ Readable(f) => Loaded(f) \in Records
         /\ Anchored(f) => Readable(f)
<1>0. f["db"] \in Databases /\ f["bak"] \in Databases /\ Absent # Torn
  BY FilesAssumption DEF Root
<1>4. Anchored(f) => Readable(f)
  BY <1>0 DEF Anchored, Readable
<1>1. CASE Whole(f["db"])
  <2>1. Loaded(f) = f["db"]
    BY <1>1 DEF Loaded, Whole
  <2>. QED BY <1>0, <1>1, <1>4, <2>1, RecordsWhole
<1>2. CASE ~Whole(f["db"]) /\ Whole(f["bak"])
  <2>1. Loaded(f) = f["bak"]
    BY <1>2 DEF Loaded
  <2>. QED BY <1>0, <1>2, <1>4, <2>1, RecordsWhole
<1>3. CASE ~Whole(f["db"]) /\ ~Whole(f["bak"])
  <2>1. CASE f["db"] = Absent /\ f["bak"] = Absent
    <3>1. Loaded(f) = NoRecords
      BY <1>3, <2>1 DEF Loaded
    <3>. QED BY <1>3, <1>4, <3>1, RecordsWhole
  <2>2. CASE ~(f["db"] = Absent /\ f["bak"] = Absent)
    <3>1. Loaded(f) = Torn
      BY <1>3, <2>2 DEF Loaded
    <3>2. ~Readable(f)
      BY <1>0, <1>3, <2>2, RecordsWhole DEF Readable, Databases, Whole
    <3>. QED BY <1>3, <1>4, <2>2, <3>1, <3>2
  <2>. QED BY <2>1, <2>2
<1>. QED BY <1>1, <1>2, <1>3

LEMMA SameLoaded ==
  ASSUME NEW f, NEW g, f["db"] = g["db"], f["bak"] = g["bak"]
  PROVE  Loaded(f) = Loaded(g)
BY DEF Loaded

LEMMA BaseMaps ==
  ASSUME NEW b, Maps(b, Root, Databases)
  PROVE  /\ b.now \in [Root -> Databases] /\ b.now \in b.disk
         /\ \A f \in b.disk : f \in [Root -> Databases]
BY MapsAre

\* Each map of c is one of b with other entries for Loaded to read, or not.
Alike(b, c) ==
  /\ Maps(c, Root, Databases)
  /\ c.now["db"] = b.now["db"] /\ c.now["bak"] = b.now["bak"]
  /\ \A g \in c.disk : \E h \in b.disk : g["db"] = h["db"] /\ g["bak"] = h["bak"]

LEMMA EditRoot ==
  ASSUME NEW b, NEW c, NEW n \in Root, NEW x \in Databases, Maps(b, Root, Databases),
         Edits(b, c, Root, Databases, n, x, {x})
  PROVE  /\ Maps(c, Root, Databases)
         /\ c.now \in [Root -> Databases]
         /\ \A m \in Root : c.now[m] = IF m = n THEN x ELSE b.now[m]
         /\ \A g \in c.disk :
              \E h \in b.disk : \/ \A m \in Root : g[m] = h[m]
                                \/ \A m \in Root : g[m] = IF m = n THEN x ELSE h[m]
<1>0. b.now \in [Root -> Databases] /\ \A f \in b.disk : f \in [Root -> Databases]
  BY BaseMaps
<1>1. Maps(c, Root, Databases) /\ c.now \in [Root -> Databases]
  BY MapsAre DEF Edits
<1>2. \A m \in Root : c.now[m] = IF m = n THEN x ELSE b.now[m]
  BY <1>0 DEF Edits, Set
<1>3. ASSUME NEW g \in c.disk
      PROVE  \E h \in b.disk : \/ \A m \in Root : g[m] = h[m]
                               \/ \A m \in Root : g[m] = IF m = n THEN x ELSE h[m]
  <2>1. CASE g \in b.disk
    BY <2>1
  <2>2. CASE g \notin b.disk
    <3>1. PICK h \in b.disk : g = Set(h, n, x)
      BY <2>2 DEF Edits
    <3>2. \A m \in Root : g[m] = IF m = n THEN x ELSE h[m]
      BY <1>0, <3>1 DEF Set
    <3>. QED BY <3>2
  <2>. QED BY <2>1, <2>2
<1>. QED BY <1>1, <1>2, <1>3

\* Put and Unlink, on the entries of the root.
IsPut(b, c, n, x) ==
  /\ Maps(c, Root, Databases)
  /\ \A m \in Root : c.now[m] = IF m = n THEN x ELSE b.now[m]
  /\ \A g \in c.disk :
       \E h \in b.disk : \/ \A m \in Root : g[m] = h[m]
                         \/ \A m \in Root : g[m] = IF m = n THEN x ELSE h[m]
IsRenamed(b, c, p, q) ==
  /\ Maps(c, Root, Databases)
  /\ \A m \in Root : c.now[m] = IF m = p THEN Absent ELSE IF m = q THEN b.now[p] ELSE b.now[m]
  /\ \A g \in c.disk :
       \E h \in b.disk :
         \/ \A m \in Root : g[m] = h[m]
         \/ \A m \in Root : g[m] = IF m = p THEN Absent ELSE IF m = q THEN b.now[p] ELSE h[m]

LEMMA PutRoot ==
  ASSUME NEW b, NEW n \in Root, NEW x \in Databases, Maps(b, Root, Databases)
  PROVE  IsPut(b, Put(b, n, x), n, x)
<1>1. Edits(b, Put(b, n, x), Root, Databases, n, x, {x})
  BY PutMaps
<1>. QED BY <1>1, EditRoot DEF IsPut

LEMMA UnlinkRoot ==
  ASSUME NEW b, NEW n \in Root, Maps(b, Root, Databases)
  PROVE  IsPut(b, Unlink(b, n), n, Absent)
<1>0. Absent \in Databases
  BY RecordsWhole
<1>1. Edits(b, Unlink(b, n), Root, Databases, n, Absent, {Absent})
  BY <1>0, UnlinkMaps
<1>. QED BY <1>0, <1>1, EditRoot DEF IsPut

LEMMA RenameRoot ==
  ASSUME NEW b, NEW p \in Root, NEW q \in Root, Maps(b, Root, Databases)
  PROVE  IsRenamed(b, Rename(b, p, q), p, q)
<1>. DEFINE c == Rename(b, p, q)
<1>0. Absent \in Databases
  BY RecordsWhole
<1>1. Renames(b, c, Root, Databases, p, q)
  BY <1>0, RenameMaps
<1>. HIDE DEF c
<1>2. b.now \in [Root -> Databases] /\ \A f \in b.disk : f \in [Root -> Databases]
  BY BaseMaps
<1>3. \A m \in Root : c.now[m] = IF m = p THEN Absent ELSE IF m = q THEN b.now[p] ELSE b.now[m]
  BY <1>1, <1>2 DEF Renames, Gone
<1>4. ASSUME NEW g \in c.disk
      PROVE  \E h \in b.disk :
               \/ \A m \in Root : g[m] = h[m]
               \/ \A m \in Root :
                    g[m] = IF m = p THEN Absent ELSE IF m = q THEN b.now[p] ELSE h[m]
  <2>1. CASE g \in b.disk
    BY <2>1
  <2>2. CASE g \notin b.disk
    <3>1. PICK h \in b.disk : g = Gone(h, p, q, b.now[p])
      BY <1>1, <2>2 DEF Renames
    <3>2. \A m \in Root : g[m] = IF m = p THEN Absent ELSE IF m = q THEN b.now[p] ELSE h[m]
      BY <1>2, <3>1 DEF Gone
    <3>. QED BY <3>2
  <2>. QED BY <2>1, <2>2
<1>5. Maps(c, Root, Databases)
  BY <1>1 DEF Renames
<1>. QED BY <1>3, <1>4, <1>5 DEF IsRenamed, c

LEMMA SyncedRoot ==
  ASSUME NEW b, Maps(b, Root, Databases)
  PROVE  Maps(Synced(b), Root, Databases) /\ Synced(b).now = b.now /\ Synced(b).disk = {b.now}
BY SyncedMaps

LEMMA TmpAlike ==
  ASSUME NEW b, NEW c, NEW x, IsPut(b, c, "tmp", x)
  PROVE  Alike(b, c)
<1>1. "tmp" \in Root /\ "db" \in Root /\ "bak" \in Root
  BY DEF Root
<1>. QED BY <1>1 DEF IsPut, Alike

LEMMA AlikeReads ==
  ASSUME NEW b, NEW c, Alike(b, c)
  PROVE  /\ Loaded(c.now) = Loaded(b.now)
         /\ \A g \in c.disk : \E h \in b.disk : Loaded(g) = Loaded(h)
         /\ Anchored(b.now) => Anchored(c.now)
         /\ Readable(b.now) => Readable(c.now)
<1>1. Loaded(c.now) = Loaded(b.now)
  BY SameLoaded DEF Alike
<1>2. \A g \in c.disk : \E h \in b.disk : Loaded(g) = Loaded(h)
  BY SameLoaded DEF Alike
<1>3. (Anchored(b.now) => Anchored(c.now)) /\ (Readable(b.now) => Readable(c.now))
  BY DEF Alike, Anchored, Readable
<1>. QED BY <1>1, <1>2, <1>3

LEMMA FoundTypes ==
  ASSUME Maps(base, Root, Databases)
  PROVE  Found \subseteq Records \cup {Torn} /\ Now \in Found
<1>1. base.now \in base.disk /\ \A f \in base.disk : f \in [Root -> Databases]
  BY BaseMaps
<1>. QED BY <1>1, LoadedIs DEF Found, Now

LEMMA RecordTypes ==
  ASSUME NEW r \in Records, NEW s \in Suites
  PROVE  r[s] \in Versions \cup {Absent}
BY DEF Records

LEMMA NowReadable ==
  ASSUME SuiteInv, ~At("load")
  PROVE  Now \in Records /\ Now # Torn
<1>1. base.now \in [Root -> Databases]
  BY BaseMaps DEF SuiteInv, StateOK
<1>2. CASE Readable(base.now)
  BY <1>1, <1>2, LoadedIs, RecordsWhole DEF Now
<1>3. CASE ~Readable(base.now)
  <2>1. At("replace")
    BY <1>3 DEF SuiteInv, BaseInv, At
  <2>2. base.now["db"] = Absent /\ (Whole(base.now["bak"]) \/ base.now["bak"] = Absent)
    BY <2>1 DEF SuiteInv, BaseInv
  <2>3. base.now["bak"] # Torn
    BY <2>2, FilesAssumption, RecordsWhole
  <2>. QED BY <1>3, <2>2, <2>3 DEF Readable
<1>. QED BY <1>2, <1>3

LEMMA ViewTypes ==
  ASSUME StateOK, NEW s \in Suites
  PROVE  Maps(T(s), Places, Entries)
BY ViewMaps DEF StateOK, T, Trees2

(***************************************************************************)
(* What is promised.                                                       *)
(***************************************************************************)
\* A restart may find fewer databases, or one that loses what may be lost.
LEMMA PromisesMore ==
  ASSUME NEW F, NEW G, NEW d, NEW P, NEW Q, NEW s, Promises(F, d, P, s), P \subseteq Q,
         \A r \in G : \/ r \in F
                      \/ r = Torn /\ Torn \in Q
                      \/ r # Torn /\ r[s] \in Q /\ Absent \in Q
  PROVE  Promises(G, d, Q, s)
<1>. SUFFICES ASSUME NEW r \in G
              PROVE  /\ r = Torn => Torn \in Q
                     /\ r # Torn => /\ r[s] \in Holds(d) => r[s] \in Q
                                    /\ (r[s] # Absent /\ AllHold(d, r[s])) \/ Absent \in Q
  BY DEF Promises
<1>1. CASE r \in F
  BY <1>1 DEF Promises
<1>2. CASE r \notin F
  BY <1>2
<1>. QED BY <1>1, <1>2

\* It may find other directories, but none with less ...
LEMMA PromisesLike ==
  ASSUME NEW F, NEW d, NEW e, NEW P, NEW Q, NEW s, Promises(F, d, P, s), P \subseteq Q, Like(d, e)
  PROVE  Promises(F, e, Q, s)
<1>. SUFFICES ASSUME NEW r \in F
              PROVE  /\ r = Torn => Torn \in Q
                     /\ r # Torn => /\ r[s] \in Holds(e) => r[s] \in Q
                                    /\ (r[s] # Absent /\ AllHold(e, r[s])) \/ Absent \in Q
  BY DEF Promises
<1>1. Holds(e) \subseteq Holds(d) /\ \A v : AllHold(d, v) => AllHold(e, v)
  BY LikeHeld
<1>. QED BY <1>1 DEF Promises

\* ... or with less, where that may be lost, or what all of them have is the only version.
LEMMA PromisesMoved ==
  ASSUME NEW F, NEW d, NEW e, NEW P, NEW Q, NEW s, Promises(F, d, P, s), P \subseteq Q,
         \A r \in F : r # Torn /\ r[s] \in Holds(e) => r[s] \in Holds(d) \/ r[s] \in Q,
         NEW v,
         \/ Absent \in Q
         \/ AllHold(e, v) /\ \A r \in F : r # Torn => r[s] \in {Absent, v}
  PROVE  Promises(F, e, Q, s)
<1>. SUFFICES ASSUME NEW r \in F
              PROVE  /\ r = Torn => Torn \in Q
                     /\ r # Torn => /\ r[s] \in Holds(e) => r[s] \in Q
                                    /\ (r[s] # Absent /\ AllHold(e, r[s])) \/ Absent \in Q
  BY DEF Promises
<1>1. r = Torn => Torn \in Q
  BY DEF Promises
<1>2. r # Torn /\ r[s] \in Holds(e) => r[s] \in Q
  BY DEF Promises
<1>3. ASSUME r # Torn PROVE (r[s] # Absent /\ AllHold(e, r[s])) \/ Absent \in Q
  <2>1. r[s] = Absent => Absent \in P
    BY <1>3 DEF Promises
  <2>. QED BY <1>3, <2>1
<1>. QED BY <1>1, <1>2, <1>3

\* What no call is about stays as it is.
LEMMA SteadyLike ==
  ASSUME NEW d, NEW e, NEW v, NEW P, NEW Q, NEW unsure \in BOOLEAN, Steady(d, v, P, unsure),
         Like(d, e), P \subseteq Q
  PROVE  Steady(e, v, Q, unsure)
<1>1. \A x : AllHold(d, x) => AllHold(e, x)
  BY LikeHeld
<1>2. Firm(d, v, "final") => Firm(e, v, "final")
  BY LikeFirm DEF Kept3
<1>. QED BY <1>1, <1>2 DEF Steady

-----------------------------------------------------------------------------
(***************************************************************************)
(* Steps of a commit.  The directories stay as they are.                   *)
(***************************************************************************)
SameCall ==
  /\ op'.call = op.call /\ op'.suite = op.suite /\ op'.old = op.old /\ op'.new = op.new
  /\ op'.kept = op.kept /\ op'.active = op.active
SameRecords == op'.records = op.records /\ op'.rest = op.rest /\ op'.changed = op.changed
Grows == \A s \in Suites : promised[s] \subseteq promised'[s]

\* Before the new database is in place a restart finds the old one, or none where
\* that was promised.
LEMMA DatabaseStep ==
  ASSUME SuiteInv, op.at \in Writing, op'.at \in Writing, SameCall, SameRecords,
         trees' = trees, suites' = suites, configured' = configured, wiped' = wiped,
         doubt' = doubt, Grows, NEW E, Found' \subseteq Found \cup E,
         E \subseteq {NoRecords, Torn}, E # {} => Conceded',
         (Now' = Now /\ (Bare => Bare')) \/ (configured /\ Now' = NoRecords /\ Lost')
  PROVE  /\ LoadInv' /\ (configured' => TreesInv') /\ (~configured' => RecoveryInv')
         /\ Promised' /\ Untouched'
<1>0. Now # Torn /\ ~At("load") /\ S' = S
  BY NowReadable DEF At, Writing, SameCall, S
<1>1. \A s \in Suites : NoRecords[s] = Absent
  BY DEF NoRecords
<1>2. LoadInv'
  <2>1. configured' => Now' = Before' \/ Lost'
    <3>1. Before' = Before /\ (Conceded => Conceded')
      BY <1>0 DEF Before, SameCall, S, Conceded, Grows
    <3>2. configured => Now = Before \/ Lost
      BY DEF SuiteInv, LoadInv
    <3>. QED BY <3>1, <3>2 DEF Lost
  <2>2. ~configured' => \A s \in Suites : op'.records[s] \in {Now'[s], Absent}
    BY <1>0 DEF SuiteInv, LoadInv, SameRecords, Lost
  <2>3. ASSUME NEW s \in Suites, s \notin doubt PROVE Agree(s)'
    <3>1. Agree(s)
      BY <2>3 DEF SuiteInv, LoadInv, At, Writing
    <3>2. CASE Absent \in promised'[s]
      BY <3>2 DEF Agree
    <3>3. CASE Absent \notin promised'[s]
      <4>1. E = {} /\ Now' = Now /\ Absent \notin promised[s]
        BY <3>3 DEF Conceded, Lost, Grows
      <4>2. \A r \in Found' : Now # Torn /\ r # Torn => r[s] \in {Absent, Now[s]} \/ Now[s] = Absent
        BY <3>1, <4>1 DEF Agree
      <4>. QED BY <4>1, <4>2 DEF Agree
    <3>. QED BY <3>2, <3>3
  <2>. QED BY <2>1, <2>2, <2>3 DEF LoadInv, At, Writing
<1>3. ASSUME configured' PROVE TreesInv'
  <2>. SUFFICES ASSUME NEW s \in Suites
                PROVE  /\ ~Touched(s)' => Steady(T(s), suites[s], promised'[s], s \in doubt)
                       /\ Touched(s)' => Changing(T(s), op', promised'[s], s \in doubt)
                       /\ s = S => Arrives(T(s), op')
    BY <1>0 DEF TreesInv, T
  <2>1. Touched(s)' <=> s = S
    BY <1>0 DEF Touched, Writing, Starts, Written
  <2>2. Touched(s) <=> s = S
    BY <1>0 DEF Touched, Writing, Starts, Written
  <2>3. /\ ~Touched(s) => Steady(T(s), suites[s], promised[s], s \in doubt)
        /\ Touched(s) => Changing(T(s), op, promised[s], s \in doubt)
        /\ s = S => Arrives(T(s), op)
    BY <1>3 DEF SuiteInv, TreesInv
  <2>4. promised[s] \subseteq promised'[s]
    BY DEF Grows
  <2>5. Steady(T(s), suites[s], promised[s], s \in doubt) =>
          Steady(T(s), suites[s], promised'[s], s \in doubt)
    BY <2>4 DEF Steady
  <2>6. Changing(T(s), op, promised[s], s \in doubt) => Changing(T(s), op', promised'[s], s \in doubt)
    <3>1. ~Unmoved(op) /\ ~Unmoved(op') /\ op'.at # "activate"
      BY DEF Unmoved, Writing
    <3>2. Aside(T(s), op) => Aside(T(s), op')
      BY <3>1, AsideStays DEF SameCall
    <3>. QED BY <2>4, <3>1, <3>2 DEF Changing, SameCall
  <2>7. Arrives(T(s), op) => Arrives(T(s), op')
    BY DEF Arrives, SameCall, Writing, Writes
  <2>. QED BY <2>1, <2>2, <2>3, <2>5, <2>6, <2>7
<1>4. ASSUME ~configured' PROVE RecoveryInv'
  <2>1. doubt' = {}
    BY <1>4 DEF SuiteInv, RecoveryInv
  <2>2. ASSUME NEW s \in Suites PROVE Recoverable(s)' /\ Recorded(s)'
    <3>1. Recoverable(s) /\ Recorded(s)
      BY <1>4 DEF SuiteInv, RecoveryInv
    <3>2. T(s)' = T(s) /\ Now' = Now
      BY <1>4 DEF T
    <3>3. Recoverable(s)'
      BY <3>1, <3>2 DEF Recoverable
    <3>4. Recorded(s)'
      BY <3>1, <3>2 DEF Recorded, At, Writing, SameRecords
    <3>. QED BY <3>3, <3>4
  <2>. QED BY <2>1, <2>2 DEF RecoveryInv
<1>5. Promised'
  <2>. SUFFICES ASSUME NEW s \in Suites PROVE Promises(Found', T(s)', promised'[s], s)
    BY DEF Promised
  <2>1. Promises(Found, T(s), promised[s], s)
    BY DEF SuiteInv, Promised
  <2>2. \A r \in Found' : \/ r \in Found
                          \/ r = Torn /\ Torn \in promised'[s]
                          \/ r # Torn /\ r[s] \in promised'[s] /\ Absent \in promised'[s]
    BY <1>1, RecordsWhole DEF Conceded
  <2>3. T(s)' = T(s) /\ promised[s] \subseteq promised'[s]
    BY DEF T, Grows
  <2>. QED BY <2>1, <2>2, <2>3, PromisesMore
<1>6. Untouched'
  <2>. SUFFICES ASSUME NEW s \in wiped, NEW r \in Found', r # Torn PROVE r[s] = Absent
    BY DEF Untouched
  <2>1. s \in Suites
    BY DEF SuiteInv, StateOK
  <2>2. CASE r \in Found
    BY <2>2 DEF SuiteInv, Untouched
  <2>3. CASE r \notin Found
    BY <1>1, <2>1, <2>3
  <2>. QED BY <2>2, <2>3
<1>. QED BY <1>2, <1>3, <1>4, <1>5, <1>6

LEMMA OpIs ==
  ASSUME OpTypeOK
  PROVE  /\ op.records \in Records /\ op.rest \subseteq Suites /\ S \in Suites \cup {NoSuite}
         /\ op.old \in Versions \cup {Absent} /\ op.new \in Versions \cup {Absent}
         /\ op.kept \in BOOLEAN /\ op.active \in BOOLEAN
         /\ op.primary \in BOOLEAN /\ op.changed \in BOOLEAN
BY DEF OpTypeOK, S

\* The call goes on, at another place of the commit.
LEMMA CallWrites ==
  ASSUME SuiteInv, op.at \in Writing \cup {"db_sync"} \cup Written,
         op'.at \in Writing \cup {"db_sync", "mirror", "cleanup"}, SameCall, SameRecords,
         suites' = suites, configured' = configured
  PROVE  CallInv'
<1>1. S' = S
  BY DEF SameCall, S
<1>2. op.at \in Writes /\ op'.at \in Writes /\ op'.at \notin Starts \cup {"idle", "load", "recover",
        "sweep", "backup", "backup_sync", "activate", "activate_sync", "bury", "bury_sync", "data"}
  BY DEF Writes, Writing, Written, Starts
<1>. QED BY <1>1, <1>2 DEF SuiteInv, CallInv, SameCall, SameRecords, At, Writing, Written, Starts

LEMMA StateStays ==
  ASSUME StateOK, Maps(trees', Suites \X Places, Entries), Maps(base', Root, Databases),
         UNCHANGED <<memory, doubt>>, wiped' \subseteq wiped,
         promised' \in [Suites -> SUBSET Entries],
         calls' \in Nat /\ faults' \in Nat /\ crashes' \in Nat
  PROVE  StateOK'
BY DEF StateOK, memory

LEMMA WriteDatabaseKeeps ==
  ASSUME SuiteInv, WriteDatabase \/ SyncDatabase
  PROVE  SuiteInv'
<1>0. StateOK /\ OpTypeOK /\ Maps(base, Root, Databases)
  BY DEF SuiteInv, StateOK
<1>1. /\ op.at \in {"write", "file_sync"} /\ op'.at \in {"file_sync", "rotate"}
      /\ op' = [op EXCEPT !.at = op'.at]
      /\ \E x \in Databases : IsPut(base, base', "tmp", x) /\ (op'.at = "rotate" => x = op.records)
      /\ UNCHANGED <<trees, memory, wiped, promised, doubt, history>>
  <2>1. Torn \in Databases /\ op.records \in Databases /\ "tmp" \in Root
    BY <1>0, OpIs, RecordsWhole DEF Root
  <2>2. CASE WriteDatabase
    <3>1. base' = Put(base, "tmp", Torn) /\ op' = [op EXCEPT !.at = "file_sync"]
      BY <2>2 DEF WriteDatabase, Goto
    <3>2. op'.at = "file_sync"
      BY <1>0, <3>1 DEF OpTypeOK
    <3>3. IsPut(base, base', "tmp", Torn)
      BY <1>0, <2>1, <3>1, PutRoot
    <3>. QED BY <2>1, <2>2, <3>1, <3>2, <3>3 DEF WriteDatabase, At
  <2>3. CASE SyncDatabase
    <3>1. base' = Put(base, "tmp", op.records) /\ op' = [op EXCEPT !.at = "rotate"]
      BY <2>3 DEF SyncDatabase, Goto
    <3>2. op'.at = "rotate"
      BY <1>0, <3>1 DEF OpTypeOK
    <3>3. IsPut(base, base', "tmp", op.records)
      BY <1>0, <2>1, <3>1, PutRoot
    <3>. QED BY <2>1, <2>3, <3>1, <3>2, <3>3 DEF SyncDatabase, At
  <2>. QED BY <2>2, <2>3
<1>2. SameCall /\ SameRecords /\ OpTypeOK' /\ S' = S
  BY <1>0, <1>1 DEF OpTypeOK, SameCall, SameRecords, S, Writes, Writing
<1>3. PICK x \in Databases : IsPut(base, base', "tmp", x) /\ (op'.at = "rotate" => x = op.records)
  BY <1>1
<1>4. Maps(base', Root, Databases) /\ Alike(base, base') /\ base'.now["tmp"] = x
  BY <1>3, TmpAlike DEF IsPut, Root
<1>5. Now' = Now /\ Found' \subseteq Found /\ (Bare => Bare')
  BY <1>4, AlikeReads DEF Now, Found, Bare, Alike
<1>6. BaseInv'
  <2>1. Now' = Torn \/ Conceded' \/ Backed'
    <3>1. (Backed => Backed') /\ (Conceded => Conceded')
      BY <1>1, <1>4 DEF Backed, Alike, Conceded
    <3>. QED BY <1>5, <3>1 DEF SuiteInv, BaseInv
  <2>2. Readable(base'.now) /\ (~configured' => Anchored(base'.now))
    <3>1. Readable(base.now) /\ (~configured => Anchored(base.now))
      BY <1>1 DEF SuiteInv, BaseInv
    <3>. QED BY <1>1, <1>4, <3>1, AlikeReads DEF memory
  <2>3. op'.at = "rotate" => base'.now["tmp"] = op'.records
    BY <1>2, <1>3, <1>4 DEF SameRecords
  <2>. QED BY <1>1, <2>1, <2>2, <2>3 DEF BaseInv, At, Written
<1>7. StateOK'
  BY <1>0, <1>1, <1>4, StateStays DEF StateOK, history, memory
<1>8. CallInv'
  <2>1. op.at \in Writing /\ op'.at \in Writing
    BY <1>1 DEF Writing
  <2>. QED BY <1>1, <1>2, <2>1, CallWrites DEF memory
<1>9. /\ LoadInv' /\ (configured' => TreesInv') /\ (~configured' => RecoveryInv')
      /\ Promised' /\ Untouched'
  <2>1. op.at \in Writing /\ op'.at \in Writing
    BY <1>1 DEF Writing
  <2>2. /\ trees' = trees /\ suites' = suites /\ configured' = configured /\ wiped' = wiped
        /\ doubt' = doubt /\ Grows
    BY <1>1 DEF memory, Grows
  <2>3. PICK E : E = {}
    OBVIOUS
  <2>4. Found' \subseteq Found \cup E /\ E \subseteq {NoRecords, Torn} /\ E = {}
    BY <1>5, <2>3
  <2>. QED BY <1>2, <1>5, <2>1, <2>2, <2>4, DatabaseStep
<1>. QED BY <1>2, <1>6, <1>7, <1>8, <1>9 DEF SuiteInv

\* The root without its backup.
LEMMA Unbacked ==
  ASSUME SuiteInv, At("rotate"), NEW b, b = Unlink(base, "bak")
  PROVE  /\ Maps(b, Root, Databases) /\ b.now["db"] = base.now["db"]
         /\ b.now["tmp"] = base.now["tmp"] /\ b.now["bak"] = Absent
         /\ \A f \in b.disk :
              /\ Backed => (f["bak"] = Torn => Whole(f["db"]))
              /\ Loaded(f) \in Found \/ ((Unanchored \/ ~Backed) /\ Loaded(f) \in {NoRecords, Torn})
         /\ \/ Whole(base.now["db"]) /\ Loaded(b.now) = Now
            \/ /\ base.now["db"] = Absent /\ Loaded(b.now) = NoRecords
               /\ Now = NoRecords \/ (configured /\ Unanchored)
<1>0. /\ Maps(base, Root, Databases) /\ "db" \in Root /\ "bak" \in Root /\ "tmp" \in Root
      /\ base.now \in [Root -> Databases] /\ base.now \in base.disk
      /\ \A f \in base.disk : f \in [Root -> Databases]
  BY BaseMaps DEF SuiteInv, StateOK, Root
<1>2. IsPut(base, b, "bak", Absent)
  BY <1>0, UnlinkRoot
<1>3. Maps(b, Root, Databases) /\ b.now["db"] = base.now["db"] /\ b.now["tmp"] = base.now["tmp"]
      /\ b.now["bak"] = Absent
  BY <1>0, <1>2 DEF IsPut
<1>4. /\ Readable(base.now) /\ (Whole(base.now["db"]) \/ base.now["db"] = Absent)
      /\ ~configured => Anchored(base.now)
  BY DEF SuiteInv, BaseInv, At, Readable
<1>5. ASSUME NEW f \in b.disk
      PROVE  /\ Backed => (f["bak"] = Torn => Whole(f["db"]))
             /\ Loaded(f) \in Found \/ ((Unanchored \/ ~Backed) /\ Loaded(f) \in {NoRecords, Torn})
  <2>1. PICK h \in base.disk : \/ \A m \in Root : f[m] = h[m]
                               \/ \A m \in Root : f[m] = IF m = "bak" THEN Absent ELSE h[m]
    BY <1>2 DEF IsPut
  <2>2. CASE \A m \in Root : f[m] = h[m]
    <3>1. Loaded(f) = Loaded(h)
      BY <1>0, <2>2, SameLoaded
    <3>. QED BY <1>0, <2>2, <3>1 DEF Found, Backed
  <2>3. CASE \A m \in Root : f[m] = IF m = "bak" THEN Absent ELSE h[m]
    <3>0. f["db"] = h["db"] /\ f["bak"] = Absent /\ h \in [Root -> Databases] /\ f \in [Root -> Databases]
      BY <1>0, <1>3, <2>3, BaseMaps
    <3>1. CASE Whole(h["db"])
      <4>1. Loaded(f) = Loaded(h)
        BY <3>0, <3>1, LoadedIs
      <4>. QED BY <3>0, <4>1, FilesAssumption DEF Found
    <3>2. CASE ~Whole(h["db"]) /\ Whole(h["bak"])
      <4>1. Unanchored
        BY <3>2 DEF Unanchored
      <4>2. Loaded(f) \in {NoRecords, Torn}
        BY <3>0, <3>2, RecordsWhole DEF Loaded
      <4>. QED BY <3>0, <4>1, <4>2, FilesAssumption
    <3>3. CASE ~Whole(h["db"]) /\ ~Whole(h["bak"])
      <4>1. Backed => h["bak"] = Absent
        BY <3>3 DEF Whole, Backed
      <4>2. h["bak"] = Absent => Loaded(f) = Loaded(h)
        BY <3>0, SameLoaded
      <4>3. Loaded(f) \in {NoRecords, Torn}
        BY <3>0, <3>3, RecordsWhole DEF Loaded
      <4>. QED BY <3>0, <4>1, <4>2, <4>3, FilesAssumption DEF Found
    <3>. QED BY <3>1, <3>2, <3>3
  <2>. QED BY <2>1, <2>2, <2>3
<1>6. CASE Whole(base.now["db"])
  <2>1. Loaded(b.now) = Now
    BY <1>0, <1>3, <1>6, BaseMaps, LoadedIs DEF Now
  <2>. QED BY <1>3, <1>5, <1>6, <2>1
<1>7. CASE ~Whole(base.now["db"])
  <2>1. base.now["db"] = Absent /\ Loaded(b.now) = NoRecords
    BY <1>3, <1>4, <1>7, BaseMaps, LoadedIs
  <2>2. CASE base.now["bak"] = Absent
    <3>1. Now = NoRecords
      BY <1>0, <2>1, <2>2, LoadedIs DEF Now
    <3>. QED BY <1>3, <1>5, <2>1, <3>1
  <2>3. CASE base.now["bak"] # Absent
    <3>1. configured
      BY <1>4, <1>7, <2>3 DEF Anchored
    <3>2. Whole(base.now["bak"])
      BY <1>4, <1>7, <2>3 DEF Readable, Whole
    <3>3. Unanchored
      BY <1>0, <1>7, <3>2 DEF Unanchored
    <3>. QED BY <1>3, <1>5, <2>1, <3>1, <3>3
  <2>. QED BY <2>2, <2>3
<1>. QED BY <1>6, <1>7

LEMMA RotateBase ==
  ASSUME SuiteInv, At("rotate"), base' = Rotated(Unlink(base, "bak"))
  PROVE  /\ Maps(base', Root, Databases)
         /\ (Now' = Now /\ (Bare => Bare')) \/ (configured /\ Unanchored /\ Now' = NoRecords /\ Bare')
         /\ Backed => Backed'
         /\ base'.now["db"] = Absent
         /\ base'.now["bak"] = base.now["db"]
         /\ base'.now["tmp"] = base.now["tmp"]
         /\ Whole(base.now["db"]) \/ base.now["db"] = Absent
         /\ Found' \subseteq Found \cup (IF Unanchored \/ ~Backed THEN {NoRecords, Torn} ELSE {})
<1>0. /\ Maps(base, Root, Databases) /\ "db" \in Root /\ "bak" \in Root /\ "tmp" \in Root
      /\ base.now \in [Root -> Databases] /\ base.now \in base.disk
      /\ \A f \in base.disk : f \in [Root -> Databases]
  BY BaseMaps DEF SuiteInv, StateOK, Root
<1>1. PICK b : b = Unlink(base, "bak")
  OBVIOUS
<1>3. Maps(b, Root, Databases) /\ b.now["db"] = base.now["db"] /\ b.now["tmp"] = base.now["tmp"]
      /\ b.now["bak"] = Absent
  BY <1>1, Unbacked
<1>4. \/ Whole(base.now["db"]) /\ Loaded(b.now) = Now
      \/ /\ base.now["db"] = Absent /\ Loaded(b.now) = NoRecords
         /\ Now = NoRecords \/ (configured /\ Unanchored)
  BY <1>1, Unbacked
<1>5. ASSUME NEW f \in b.disk
      PROVE  /\ Backed => (f["bak"] = Torn => Whole(f["db"]))
             /\ Loaded(f) \in Found \/ ((Unanchored \/ ~Backed) /\ Loaded(f) \in {NoRecords, Torn})
  BY <1>1, Unbacked
<1>6. CASE b.now["db"] = Absent
  <2>1. base' = b
    BY <1>1, <1>6 DEF Rotated
  <2>2. base.now["db"] = Absent /\ ~Whole(base.now["db"])
    BY <1>3, <1>6, RecordsWhole
  <2>3. Bare' /\ (Now' = Now \/ (configured /\ Unanchored /\ Now' = NoRecords))
    BY <1>3, <1>4, <1>6, <2>1, <2>2 DEF Bare, Now
  <2>4. Found' \subseteq Found \cup (IF Unanchored \/ ~Backed THEN {NoRecords, Torn} ELSE {})
    <3>. SUFFICES ASSUME NEW f \in b.disk
                  PROVE  Loaded(f) \in Found \cup (IF Unanchored \/ ~Backed THEN {NoRecords, Torn} ELSE {})
      BY <2>1 DEF Found
    <3>. QED BY <1>5
  <2>5. Backed => Backed'
    BY <1>5, <2>1 DEF Backed
  <2>. QED BY <1>3, <1>4, <1>6, <2>1, <2>3, <2>4, <2>5
<1>7. CASE b.now["db"] # Absent
  <2>1. base' = Rename(b, "db", "bak")
    BY <1>1, <1>7 DEF Rotated
  <2>2. IsRenamed(b, base', "db", "bak")
    BY <1>0, <1>3, <2>1, RenameRoot
  <2>3. /\ Maps(base', Root, Databases) /\ base'.now["db"] = Absent
        /\ base'.now["bak"] = base.now["db"] /\ base'.now["tmp"] = base.now["tmp"]
    BY <1>0, <1>3, <2>2 DEF IsRenamed
  <2>4. Whole(base.now["db"])
    BY <1>3, <1>4, <1>7
  <2>5. Loaded(base.now) = base.now["db"]
    BY <1>0, <2>4, LoadedIs
  <2>6. Loaded(base'.now) = base.now["db"]
    BY <2>3, <2>4, BaseMaps, LoadedIs, RecordsWhole
  <2>7. ASSUME NEW f \in base'.disk
        PROVE  /\ Backed => (f["bak"] = Torn => Whole(f["db"]))
               /\ Loaded(f) \in Found \/ ((Unanchored \/ ~Backed) /\ Loaded(f) \in {NoRecords, Torn})
    <3>1. PICK h \in b.disk :
            \/ \A m \in Root : f[m] = h[m]
            \/ \A m \in Root :
                 f[m] = IF m = "db" THEN Absent ELSE IF m = "bak" THEN b.now["db"] ELSE h[m]
      BY <2>2 DEF IsRenamed
    <3>2. CASE \A m \in Root : f[m] = h[m]
      <4>1. Loaded(f) = Loaded(h)
        BY <1>0, <3>2, SameLoaded
      <4>. QED BY <1>0, <1>5, <3>2, <4>1
    <3>3. CASE \A m \in Root :
                 f[m] = IF m = "db" THEN Absent ELSE IF m = "bak" THEN b.now["db"] ELSE h[m]
      <4>1. f["db"] = Absent /\ f["bak"] = base.now["db"]
        BY <1>0, <1>3, <3>3
      <4>2. Loaded(f) = base.now["db"]
        BY <2>3, <2>4, <4>1, BaseMaps, LoadedIs, RecordsWhole
      <4>. QED BY <1>0, <2>4, <2>5, <4>1, <4>2, RecordsWhole DEF Found
    <3>. QED BY <3>1, <3>2, <3>3
  <2>8. Found' \subseteq Found \cup (IF Unanchored \/ ~Backed THEN {NoRecords, Torn} ELSE {})
    <3>. SUFFICES ASSUME NEW f \in base'.disk
                  PROVE  Loaded(f) \in Found \cup (IF Unanchored \/ ~Backed THEN {NoRecords, Torn} ELSE {})
      BY DEF Found
    <3>. QED BY <2>7
  <2>9. Backed => Backed'
    BY <2>7 DEF Backed
  <2>10. ~Bare
    BY <1>3, <1>7 DEF Bare
  <2>. QED BY <1>4, <2>3, <2>5, <2>6, <2>8, <2>9, <2>10 DEF Now
<1>. QED BY <1>6, <1>7

LEMMA RotateKeeps ==
  ASSUME SuiteInv, Rotate
  PROVE  SuiteInv'
<1>0. StateOK /\ OpTypeOK /\ At("rotate") /\ op.at = "rotate"
  BY DEF SuiteInv, Rotate, At
<1>1. /\ op' = [op EXCEPT !.at = "replace", !.primary = base.now["db"] # Absent]
      /\ base' = Rotated(Unlink(base, "bak")) /\ Loses
      /\ UNCHANGED <<trees, memory, wiped, doubt, history>>
  BY DEF Rotate
<1>2. /\ SameCall /\ SameRecords /\ OpTypeOK' /\ S' = S
      /\ op'.at = "replace" /\ op'.primary = (base.now["db"] # Absent)
  <2>1. PICK b \in BOOLEAN : b = (base.now["db"] # Absent)
    OBVIOUS
  <2>2. op' = [op EXCEPT !.at = "replace", !.primary = b]
    BY <1>1, <2>1
  <2>3. /\ SameCall /\ SameRecords /\ OpTypeOK' /\ S' = S
        /\ op'.at = "replace" /\ op'.primary = b
    BY <1>0, <2>2 DEF OpTypeOK, SameCall, SameRecords, S, Writes, Writing
  <2>. QED BY <2>1, <2>3
<1>3. /\ Maps(base', Root, Databases)
      /\ (Now' = Now /\ (Bare => Bare')) \/ (configured /\ Unanchored /\ Now' = NoRecords /\ Bare')
      /\ Backed => Backed'
      /\ base'.now["db"] = Absent /\ base'.now["bak"] = base.now["db"]
      /\ base'.now["tmp"] = base.now["tmp"]
      /\ Whole(base.now["db"]) \/ base.now["db"] = Absent
      /\ Found' \subseteq Found \cup (IF Unanchored \/ ~Backed THEN {NoRecords, Torn} ELSE {})
  BY <1>0, <1>1, RotateBase
<1>4. /\ promised' \in [Suites -> SUBSET Entries] /\ Grows
      /\ Unanchored => Conceded'
  <2>1. promised \in [Suites -> SUBSET Entries]
    BY <1>0 DEF StateOK
  <2>2. promised' = [s \in Suites |->
          IF Unanchored THEN promised[s] \cup {Absent, Torn} ELSE promised[s]]
    BY <1>1 DEF Loses
  <2>3. {Absent, Torn} \subseteq Entries
    BY DEF Entries
  <2>. QED BY <2>1, <2>2, <2>3 DEF Grows, Conceded
<1>5. BaseInv'
  <2>1. base.now["tmp"] = op.records
    BY <1>0 DEF SuiteInv, BaseInv
  <2>2. base'.now["tmp"] = op'.records
    BY <1>2, <1>3, <2>1 DEF SameRecords
  <2>3. IF op'.primary THEN Whole(base'.now["bak"]) ELSE base'.now["bak"] = Absent
    BY <1>2, <1>3
  <2>4. Now # Torn
    BY <1>0, NowReadable DEF At
  <2>5. Conceded => Conceded'
    BY <1>4 DEF Conceded, Grows
  <2>6. Now' = Torn \/ Conceded' \/ Backed'
    BY <1>3, <2>4, <2>5 DEF SuiteInv, BaseInv
  <2>. QED BY <1>2, <1>3, <2>2, <2>3, <2>6 DEF BaseInv, At, Written
<1>6. StateOK'
  BY <1>0, <1>1, <1>3, <1>4, StateStays DEF StateOK, history, memory
<1>7. op.at \in Writing /\ op'.at \in Writing
  BY <1>0, <1>2 DEF Writing
<1>8. CallInv'
  BY <1>1, <1>2, <1>7, CallWrites DEF memory
<1>9. /\ LoadInv' /\ (configured' => TreesInv') /\ (~configured' => RecoveryInv')
      /\ Promised' /\ Untouched'
  <2>1. /\ trees' = trees /\ suites' = suites /\ configured' = configured /\ wiped' = wiped
        /\ doubt' = doubt
    BY <1>1 DEF memory
  <2>2. PICK E : E = IF Unanchored \/ ~Backed THEN {NoRecords, Torn} ELSE {}
    OBVIOUS
  <2>3. ~Backed => Conceded'
    <3>1. Now # Torn
      BY <1>0, NowReadable DEF At
    <3>2. Conceded => Conceded'
      BY <1>4 DEF Conceded, Grows
    <3>. QED BY <3>1, <3>2 DEF SuiteInv, BaseInv
  <2>4. Found' \subseteq Found \cup E /\ E \subseteq {NoRecords, Torn} /\ (E # {} => Conceded')
    BY <1>3, <1>4, <2>2, <2>3
  <2>5. (Now' = Now /\ (Bare => Bare')) \/ (configured /\ Now' = NoRecords /\ Lost')
    BY <1>3, <1>4 DEF Lost
  <2>. QED BY <1>2, <1>4, <1>7, <2>1, <2>4, <2>5, DatabaseStep
<1>. QED BY <1>2, <1>5, <1>6, <1>8, <1>9 DEF SuiteInv

\* Of what is written now, a restart finds the directory, or finds it missing where
\* that was promised.
LEMMA NewHeld ==
  ASSUME SuiteInv, op.at \in Writing \cup {"db_sync"}, NEW s \in Suites, op.records[s] # Absent,
         configured \/ op.records = Now \/ op.at \in Writing
  PROVE  \/ AllHold(T(s), op.records[s])
         \/ Absent \in promised[s]
<1>0. ~At("load") /\ ~At("recover") /\ op.at \in Writes
  BY DEF At, Writing, Writes
<1>1. CASE ~configured
  <2>1. Firm(T(s), op.records[s], "final")
    BY <1>0, <1>1 DEF SuiteInv, RecoveryInv, Recorded
  <2>. QED BY <2>1, FirmHolds
<1>2. CASE configured
  <2>0. op.records = suites
    BY <1>0, <1>2 DEF SuiteInv, CallInv
  <2>1. CASE s # S
    <3>1. Steady(T(s), suites[s], promised[s], s \in doubt)
      BY <1>2, <2>1 DEF SuiteInv, TreesInv, Touched
    <3>. QED BY <2>0, <3>1, FirmHolds DEF Steady
  <2>2. CASE s = S
    <3>1. op.call \in Calling /\ suites[S] = op.new
      BY <1>0, <2>2, SuitesAssumption DEF SuiteInv, CallInv
    <3>2. op.call = "install"
      BY <2>0, <2>2, <3>1 DEF Calling, SuiteInv, CallInv
    <3>3. Arrives(T(s), op)
      BY <1>2, <2>2 DEF SuiteInv, TreesInv
    <3>4. \A g \in T(s).disk : g["final"] = op.new
      BY <1>0, <3>2, <3>3 DEF Arrives
    <3>. QED BY <2>0, <2>2, <3>1, <3>4 DEF AllHold, Held, Kept3
  <2>. QED BY <2>1, <2>2
<1>. QED BY <1>1, <1>2

LEMMA ReplaceKeeps ==
  ASSUME SuiteInv, Replace
  PROVE  SuiteInv'
<1>0. StateOK /\ OpTypeOK /\ At("replace") /\ op.at = "replace"
  BY DEF SuiteInv, Replace, At
<1>1. /\ op' = [op EXCEPT !.at = "db_sync"] /\ base' = Rename(base, "tmp", "db")
      /\ promised' = [s \in Suites |-> promised[s] \cup {op.records[s]}]
      /\ wiped' = {s \in wiped : op.records[s] = Absent}
      /\ UNCHANGED <<trees, memory, doubt, history>>
  BY DEF Replace, Goto
<1>2. SameCall /\ SameRecords /\ OpTypeOK' /\ S' = S /\ op'.at = "db_sync"
  BY <1>0, <1>1 DEF OpTypeOK, SameCall, SameRecords, S, Writes
<1>3. op.records \in Records /\ Whole(op.records) /\ op.records # Torn /\ base.now["tmp"] = op.records
  BY <1>0, OpIs, RecordsWhole DEF SuiteInv, BaseInv
<1>4. /\ Maps(base, Root, Databases) /\ "db" \in Root /\ "bak" \in Root /\ "tmp" \in Root
  BY <1>0 DEF StateOK, Root
<1>5. IsRenamed(base, base', "tmp", "db")
  BY <1>1, <1>4, RenameRoot
<1>6. Maps(base', Root, Databases) /\ base'.now["db"] = op.records
  BY <1>3, <1>4, <1>5 DEF IsRenamed
<1>7. Now' = op.records
  BY <1>3, <1>6, BaseMaps, LoadedIs DEF Now
<1>8. ASSUME NEW f \in base'.disk
      PROVE  (Backed => (f["bak"] = Torn => Whole(f["db"]))) /\ Loaded(f) \in Found \cup {op.records}
  <2>1. PICK h \in base.disk :
          \/ \A m \in Root : f[m] = h[m]
          \/ \A m \in Root :
               f[m] = IF m = "tmp" THEN Absent ELSE IF m = "db" THEN base.now["tmp"] ELSE h[m]
    BY <1>5 DEF IsRenamed
  <2>2. CASE \A m \in Root : f[m] = h[m]
    <3>1. Loaded(f) = Loaded(h)
      BY <1>4, <2>2, SameLoaded
    <3>2. Backed => (h["bak"] = Torn => Whole(h["db"]))
      BY DEF Backed
    <3>. QED BY <1>4, <2>2, <3>1, <3>2 DEF Found
  <2>3. CASE \A m \in Root :
               f[m] = IF m = "tmp" THEN Absent ELSE IF m = "db" THEN base.now["tmp"] ELSE h[m]
    <3>1. f["db"] = op.records
      BY <1>3, <1>4, <2>3
    <3>2. Loaded(f) = op.records
      BY <1>3, <1>6, <3>1, BaseMaps, LoadedIs
    <3>. QED BY <1>3, <3>1, <3>2
  <2>. QED BY <2>1, <2>2, <2>3
<1>9. Found' \subseteq Found \cup {op.records}
  <2>. SUFFICES ASSUME NEW f \in base'.disk PROVE Loaded(f) \in Found \cup {op.records}
    BY DEF Found
  <2>. QED BY <1>8
<1>10. BaseInv'
  <2>1. Conceded => Conceded'
    BY <1>1 DEF Conceded
  <2>2. Backed => Backed'
    BY <1>8 DEF Backed
  <2>3. Now # Torn
    BY <1>0, NowReadable DEF At
  <2>4. Now' = Torn \/ Conceded' \/ Backed'
    BY <2>1, <2>2, <2>3 DEF SuiteInv, BaseInv
  <2>. QED BY <1>2, <1>3, <1>6, <2>4, RecordsWhole
       DEF BaseInv, At, Written, Anchored, Readable, SameRecords
<1>11. Grows /\ promised' \in [Suites -> SUBSET Entries] /\ \A s \in Suites : op.records[s] \in promised'[s]
  <2>1. promised \in [Suites -> SUBSET Entries]
    BY <1>0 DEF StateOK
  <2>2. \A s \in Suites : op.records[s] \in Entries
    BY <1>3, RecordTypes DEF Entries
  <2>. QED BY <1>1, <2>1, <2>2 DEF Grows
<1>12. StateOK'
  <2>1. wiped' \subseteq wiped
    BY <1>1
  <2>. QED BY <1>0, <1>1, <1>6, <1>11, <2>1, StateStays DEF StateOK, history, memory
<1>13. CallInv'
  <2>1. op.at \in Writing \cup {"db_sync"} \cup Written /\ op'.at \in Writing \cup {"db_sync", "mirror", "cleanup"}
    BY <1>0, <1>2 DEF Writing
  <2>. QED BY <1>1, <1>2, <2>1, CallWrites DEF memory
<1>14. ~At("load") /\ ~At("recover") /\ op.at \in Writes /\ op.at \in Writing /\ Now # Torn
  BY <1>0, NowReadable DEF At, Writes, Writing
<1>15. LoadInv'
  <2>1. ASSUME configured PROVE Now' = Before'
    <3>1. suites \in Records /\ op.records = suites
      BY <1>0, <1>14, <2>1 DEF StateOK, SuiteInv, CallInv
    <3>2. Before' = suites
      BY <1>1, <1>2, <3>1 DEF Before, memory, Writing, Records
    <3>. QED BY <1>7, <3>1, <3>2
  <2>2. ASSUME NEW s \in Suites, s \notin doubt, s # S PROVE Agree(s)'
    <3>1. Agree(s)
      BY <1>0, <2>2 DEF SuiteInv, LoadInv, At
    <3>2. ASSUME configured PROVE Now[s] = op.records[s] \/ Absent \in promised[s]
      <4>1. (Now = Before \/ Lost) /\ op.records = suites
        BY <1>14, <3>2 DEF SuiteInv, LoadInv, CallInv
      <4>2. Lost => Absent \in promised[s]
        BY DEF Lost, Conceded
      <4>3. Before[s] = suites[s]
        BY <2>2 DEF Before
      <4>. QED BY <4>1, <4>2, <4>3
    <3>3. ~configured => op.records[s] \in {Now[s], Absent}
      BY <1>14 DEF SuiteInv, LoadInv
    <3>4. CASE Absent \in promised[s]
      BY <1>11, <3>4 DEF Agree, Grows
    <3>5. CASE Absent \notin promised[s]
      <4>. SUFFICES ASSUME NEW r \in Found', r # Torn
                    PROVE  r[s] \in {Absent, op.records[s]} \/ op.records[s] = Absent
        BY <1>7 DEF Agree
      <4>1. r \in Found \/ r = op.records
        BY <1>9
      <4>2. r \in Found => r[s] \in {Absent, Now[s]} \/ Now[s] = Absent
        BY <1>14, <3>1, <3>5 DEF Agree
      <4>. QED BY <3>2, <3>3, <3>5, <4>1, <4>2
    <3>. QED BY <3>4, <3>5
  <2>3. configured' = configured /\ doubt' = doubt
    BY <1>1 DEF memory
  <2>. QED BY <1>2, <1>7, <2>1, <2>2, <2>3 DEF LoadInv, At, SameRecords
<1>16. ASSUME configured' PROVE TreesInv'
  <2>. SUFFICES ASSUME NEW s \in Suites
                PROVE  /\ ~Touched(s)' => Steady(T(s), suites[s], promised'[s], s \in doubt)
                       /\ Touched(s)' => Changing(T(s), op', promised'[s], s \in doubt)
                       /\ s = S => Arrives(T(s), op')
    BY <1>1, <1>2 DEF TreesInv, T, memory
  <2>1. (Touched(s)' <=> s = S) /\ (Touched(s) <=> s = S)
    BY <1>0, <1>2 DEF Touched, Starts, Written
  <2>2. /\ ~Touched(s) => Steady(T(s), suites[s], promised[s], s \in doubt)
        /\ Touched(s) => Changing(T(s), op, promised[s], s \in doubt)
        /\ s = S => Arrives(T(s), op)
    BY <1>1, <1>16 DEF SuiteInv, TreesInv, memory
  <2>3. promised[s] \subseteq promised'[s]
    BY <1>11 DEF Grows
  <2>4. Steady(T(s), suites[s], promised[s], s \in doubt) =>
          Steady(T(s), suites[s], promised'[s], s \in doubt)
    BY <2>3 DEF Steady
  <2>5. Changing(T(s), op, promised[s], s \in doubt) => Changing(T(s), op', promised'[s], s \in doubt)
    <3>1. ~Unmoved(op) /\ ~Unmoved(op') /\ op'.at # "activate"
      BY <1>0, <1>2 DEF Unmoved
    <3>2. Aside(T(s), op) => Aside(T(s), op')
      BY <1>2, <3>1, AsideStays DEF SameCall
    <3>. QED BY <1>2, <2>3, <3>1, <3>2 DEF Changing, SameCall
  <2>6. Arrives(T(s), op) => Arrives(T(s), op')
    BY <1>0, <1>2 DEF Arrives, SameCall, Writing, Writes
  <2>. QED BY <2>1, <2>2, <2>4, <2>5, <2>6
<1>17. ASSUME ~configured' PROVE RecoveryInv'
  <2>0. ~configured
    BY <1>1, <1>17 DEF memory
  <2>1. doubt' = {}
    BY <1>1, <2>0 DEF SuiteInv, RecoveryInv
  <2>2. ASSUME NEW s \in Suites PROVE Recoverable(s)' /\ Recorded(s)'
    <3>1. op.records[s] # Absent => Firm(T(s), op.records[s], "final")
      BY <1>14, <2>0 DEF SuiteInv, RecoveryInv, Recorded
    <3>2. T(s)' = T(s) /\ op'.records = op.records
      BY <1>1, <1>2 DEF T, SameRecords
    <3>3. op.records[s] # Absent => First(T(s).now, op.records[s]) = "final"
      BY <3>1 DEF Firm, First
    <3>4. Recoverable(s)'
      BY <1>7, <3>1, <3>2, <3>3 DEF Recoverable
    <3>5. Recorded(s)'
      BY <1>7, <3>1, <3>2 DEF Recorded
    <3>. QED BY <3>4, <3>5
  <2>. QED BY <2>1, <2>2 DEF RecoveryInv
<1>18. Promised'
  <2>. SUFFICES ASSUME NEW s \in Suites PROVE Promises(Found', T(s), promised'[s], s)
    BY <1>1 DEF Promised, T
  <2>1. promised[s] \subseteq promised'[s] /\ op.records[s] \in promised'[s]
    BY <1>11 DEF Grows
  <2>2. Promises(Found, T(s), promised'[s], s)
    <3>1. Promises(Found, T(s), promised[s], s)
      BY DEF SuiteInv, Promised
    <3>. QED BY <2>1, <3>1, PromisesMore
  <2>3. Promises({op.records}, T(s), promised'[s], s)
    <3>1. CASE op.records[s] = Absent
      BY <1>3, <2>1, <3>1 DEF Promises
    <3>2. CASE op.records[s] # Absent
      <4>1. AllHold(T(s), op.records[s]) \/ Absent \in promised[s]
        BY <1>14, <3>2, NewHeld
      <4>. QED BY <1>3, <2>1, <3>2, <4>1 DEF Promises
    <3>. QED BY <3>1, <3>2
  <2>. QED BY <1>9, <2>2, <2>3 DEF Promises
<1>19. Untouched'
  <2>. SUFFICES ASSUME NEW s \in wiped', NEW r \in Found', r # Torn PROVE r[s] = Absent
    BY DEF Untouched
  <2>1. s \in wiped /\ op.records[s] = Absent
    BY <1>1
  <2>2. r \in Found => r[s] = Absent
    BY <2>1 DEF SuiteInv, Untouched
  <2>. QED BY <1>9, <2>1, <2>2
<1>. QED BY <1>2, <1>10, <1>12, <1>13, <1>15, <1>16, <1>17, <1>18, <1>19 DEF SuiteInv

LEMMA AllWritten ==
  ASSUME NEW b, NEW R \in Records, Maps(b, Root, Databases), \A f \in b.disk : f["db"] = R
  PROVE  \A f \in b.disk : Loaded(f) = R
<1>1. \A f \in b.disk : f \in [Root -> Databases]
  BY BaseMaps
<1>. QED BY <1>1, LoadedIs, RecordsWhole

\* Whatever a call has replaced, its suite is in place.
LEMMA CommittedHeld ==
  ASSUME SuiteInv, At("db_sync"), NEW s \in Suites, s \notin doubt \ {S}
  PROVE  /\ op.records[s] # Absent => Firm(T(s), op.records[s], "final")
         /\ configured => op.records[s] = suites[s]
<1>0. ~At("load") /\ ~At("recover") /\ op.at \in Writes /\ op.at = "db_sync"
  BY DEF At, Writes
<1>1. CASE ~configured
  BY <1>0, <1>1 DEF SuiteInv, RecoveryInv, Recorded
<1>2. CASE configured
  <2>0. op.records = suites
    BY <1>0, <1>2 DEF SuiteInv, CallInv
  <2>1. CASE s # S
    <3>1. Steady(T(s), suites[s], promised[s], s \in doubt)
      BY <1>2, <2>1 DEF SuiteInv, TreesInv, Touched
    <3>. QED BY <2>0, <2>1, <3>1 DEF Steady
  <2>2. CASE s = S
    <3>1. op.call \in Calling /\ suites[S] = op.new
      BY <1>0, <2>2, SuitesAssumption DEF SuiteInv, CallInv
    <3>2. CASE op.call = "install"
      <4>1. Arrives(T(s), op)
        BY <1>2, <2>2 DEF SuiteInv, TreesInv
      <4>2. \A g \in T(s).disk : g["final"] = op.new
        BY <1>0, <3>2, <4>1 DEF Arrives
      <4>3. T(s).now \in T(s).disk
        BY ViewTypes, MapsAre DEF SuiteInv
      <4>4. Firm(T(s), op.new, "final")
        BY <4>2, <4>3 DEF Firm, Kept3
      <4>. QED BY <2>0, <2>2, <3>1, <4>4
    <3>3. CASE op.call = "uninstall"
      BY <2>0, <2>2, <3>1, <3>3 DEF SuiteInv, CallInv
    <3>. QED BY <3>1, <3>2, <3>3 DEF Calling
  <2>. QED BY <2>1, <2>2
<1>. QED BY <1>1, <1>2

LEMMA CommitKeeps ==
  ASSUME SuiteInv, Commit
  PROVE  SuiteInv'
<1>0. StateOK /\ OpTypeOK /\ At("db_sync") /\ op.at = "db_sync" /\ Maps(base, Root, Databases)
  BY DEF SuiteInv, Commit, At, StateOK
<1>1. /\ op' = [op EXCEPT !.at = "mirror"] /\ base' = Synced(base)
      /\ promised' = [s \in Suites |-> IF s \in doubt \ {S} THEN promised[s] ELSE {op.records[s]}]
      /\ doubt' = doubt \ {S}
      /\ UNCHANGED <<trees, memory, wiped, history>>
  BY DEF Commit, Goto, Confirmed
<1>2. SameCall /\ SameRecords /\ OpTypeOK' /\ S' = S /\ op'.at = "mirror"
  BY <1>0, <1>1 DEF OpTypeOK, SameCall, SameRecords, S, Writes, Written
<1>3. op.records \in Records /\ Whole(op.records) /\ op.records # Torn /\ base.now["db"] = op.records
  BY <1>0, OpIs, RecordsWhole DEF SuiteInv, BaseInv
<1>4. Maps(base', Root, Databases) /\ base'.now = base.now /\ base'.disk = {base.now}
  BY <1>0, <1>1, SyncedRoot
<1>5. Loaded(base.now) = op.records
  BY <1>0, <1>3, BaseMaps, LoadedIs
<1>6. Now' = op.records /\ Now = op.records /\ Found' = {op.records}
  BY <1>4, <1>5 DEF Now, Found
<1>7. BaseInv'
  BY <1>2, <1>3, <1>4, RecordsWhole DEF BaseInv, At, Anchored, Readable, Backed, SameRecords
<1>8. StateOK'
  <2>1. promised \in [Suites -> SUBSET Entries]
    BY <1>0 DEF StateOK
  <2>2. \A s \in Suites : op.records[s] \in Entries
    BY <1>3, RecordTypes DEF Entries
  <2>3. promised' \in [Suites -> SUBSET Entries]
    BY <1>1, <2>1, <2>2
  <2>. QED BY <1>0, <1>1, <1>4, <2>3 DEF StateOK, history, memory
<1>9. CallInv'
  <2>1. op.at \in Writing \cup {"db_sync"} \cup Written /\ op'.at \in Writing \cup {"db_sync", "mirror", "cleanup"}
    BY <1>0, <1>2
  <2>. QED BY <1>1, <1>2, <2>1, CallWrites DEF memory
<1>10. LoadInv'
  <2>1. ASSUME configured PROVE Now' = Before'
    <3>1. suites \in Records /\ op.records = suites
      BY <1>0, <2>1 DEF StateOK, SuiteInv, CallInv, Writes
    <3>2. Before' = suites
      BY <1>1, <1>2, <3>1 DEF Before, memory, Writing, Records
    <3>. QED BY <1>6, <3>1, <3>2
  <2>2. \A s \in Suites : Agree(s)'
    BY <1>6 DEF Agree
  <2>. QED BY <1>1, <1>2, <1>6, <2>1, <2>2 DEF LoadInv, At, SameRecords, memory
<1>11. ASSUME configured' PROVE TreesInv'
  <2>. SUFFICES ASSUME NEW s \in Suites
                PROVE  /\ Steady(T(s), suites[s], promised'[s], s \in doubt')
                       /\ s = S => Arrives(T(s), op')
    BY <1>1, <1>2 DEF TreesInv, T, memory, Touched, Written
  <2>0. configured
    BY <1>1, <1>11 DEF memory
  <2>1. CASE s \in doubt \ {S}
    <3>1. Steady(T(s), suites[s], promised[s], s \in doubt)
      BY <2>0, <2>1 DEF SuiteInv, TreesInv, Touched
    <3>2. s # S
      BY <2>1
    <3>. QED BY <1>1, <2>1, <3>1, <3>2 DEF Steady
  <2>2. CASE s \notin doubt \ {S}
    <3>1. suites[s] # Absent => Firm(T(s), suites[s], "final")
      BY <1>0, <2>0, <2>2, CommittedHeld
    <3>2. Steady(T(s), suites[s], promised'[s], s \in doubt')
      BY <1>1, <2>2, <3>1 DEF Steady
    <3>3. s = S => Arrives(T(s), op)
      BY <2>0 DEF SuiteInv, TreesInv
    <3>. QED BY <1>0, <1>2, <3>2, <3>3 DEF Arrives, SameCall, Writes, Written
  <2>. QED BY <2>1, <2>2
<1>12. ASSUME ~configured' PROVE RecoveryInv'
  <2>0. ~configured
    BY <1>1, <1>12 DEF memory
  <2>1. doubt' = {}
    BY <1>1, <2>0 DEF SuiteInv, RecoveryInv
  <2>2. ASSUME NEW s \in Suites PROVE Recoverable(s)' /\ Recorded(s)'
    <3>1. Recoverable(s) /\ Recorded(s)
      BY <2>0 DEF SuiteInv, RecoveryInv
    <3>2. T(s)' = T(s)
      BY <1>1 DEF T
    <3>. QED BY <1>0, <1>2, <1>6, <3>1, <3>2 DEF Recoverable, Recorded, At, SameRecords
  <2>. QED BY <2>1, <2>2 DEF RecoveryInv
<1>13. Promised'
  <2>. SUFFICES ASSUME NEW s \in Suites PROVE Promises({op.records}, T(s), promised'[s], s)
    BY <1>1, <1>6 DEF Promised, T
  <2>1. CASE s \in doubt \ {S}
    <3>1. Promises(Found, T(s), promised[s], s)
      BY DEF SuiteInv, Promised
    <3>2. op.records \in Found
      BY <1>0, <1>6, FoundTypes
    <3>3. promised'[s] = promised[s]
      BY <1>1, <2>1
    <3>. QED BY <3>1, <3>2, <3>3 DEF Promises
  <2>2. CASE s \notin doubt \ {S}
    <3>1. op.records[s] # Absent => AllHold(T(s), op.records[s])
      BY <1>0, <2>2, CommittedHeld, FirmHolds
    <3>2. promised'[s] = {op.records[s]}
      BY <1>1, <2>2
    <3>. QED BY <1>3, <3>1, <3>2 DEF Promises
  <2>. QED BY <2>1, <2>2
<1>14. Untouched'
  <2>1. op.records \in Found
    BY <1>0, <1>6, FoundTypes
  <2>. QED BY <1>1, <1>6, <2>1 DEF SuiteInv, Untouched
<1>. QED BY <1>2, <1>7, <1>8, <1>9, <1>10, <1>11, <1>12, <1>13, <1>14 DEF SuiteInv

\* After a durable commit only one database is found, whatever is done to its mirror.
LEMMA MirrorBase ==
  ASSUME SuiteInv, Mirror
  PROVE  /\ Maps(base', Root, Databases)
         /\ \A f \in base'.disk : f["db"] = op.records
<1>0. /\ Maps(base, Root, Databases) /\ "db" \in Root /\ "bak" \in Root
      /\ op.records \in Databases /\ Torn \in Databases
  BY OpIs, RecordsWhole DEF SuiteInv, StateOK, Root
<1>1. \A f \in base.disk : f["db"] = op.records
  BY DEF Mirror, At, SuiteInv, BaseInv, Written
<1>2. ASSUME NEW x \in Databases
      PROVE  /\ Maps(Put(base, "bak", x), Root, Databases)
             /\ \A f \in Put(base, "bak", x).disk : f["db"] = op.records
  <2>1. IsPut(base, Put(base, "bak", x), "bak", x)
    BY <1>0, PutRoot
  <2>. QED BY <1>0, <1>1, <2>1 DEF IsPut
<1>3. CASE base' = Synced(Put(base, "bak", op.records))
  <2>1. PICK b : b = Put(base, "bak", op.records)
    OBVIOUS
  <2>2. Maps(b, Root, Databases) /\ \A f \in b.disk : f["db"] = op.records
    BY <1>0, <1>2, <2>1
  <2>3. Maps(base', Root, Databases) /\ base'.disk = {b.now} /\ b.now \in b.disk
    BY <1>3, <2>1, <2>2, SyncedRoot, BaseMaps
  <2>. QED BY <2>2, <2>3
<1>4. CASE base' = base
  BY <1>0, <1>1, <1>4
<1>5. CASE base' = Put(base, "bak", Torn)
  BY <1>0, <1>2, <1>5
<1>. QED BY <1>3, <1>4, <1>5 DEF Mirror

LEMMA MirrorKeeps ==
  ASSUME SuiteInv, Mirror
  PROVE  SuiteInv'
<1>0. StateOK /\ OpTypeOK /\ At("mirror") /\ op.at = "mirror" /\ Maps(base, Root, Databases)
  BY DEF SuiteInv, Mirror, At, StateOK
<1>1. /\ op' = [op EXCEPT !.at = "cleanup"]
      /\ UNCHANGED <<trees, memory, wiped, promised, doubt>>
      /\ calls' \in Nat /\ faults' \in Nat /\ crashes' \in Nat
  <2>1. (UNCHANGED history) \/ Fault
    BY DEF Mirror
  <2>2. calls' \in Nat /\ faults' \in Nat /\ crashes' \in Nat
    BY <1>0, <2>1 DEF Fault, Faults, StateOK, history
  <2>. QED BY <2>2 DEF Mirror, Goto
<1>2. SameCall /\ SameRecords /\ OpTypeOK' /\ S' = S /\ op'.at = "cleanup"
  BY <1>0, <1>1 DEF OpTypeOK, SameCall, SameRecords, S, Writes, Written
<1>3. op.records \in Records /\ Whole(op.records) /\ op.records # Torn
  BY <1>0, OpIs, RecordsWhole
<1>4. Maps(base', Root, Databases) /\ \A f \in base'.disk : f["db"] = op.records
  BY MirrorBase
<1>5. \A f \in base.disk : f["db"] = op.records
  BY <1>0 DEF SuiteInv, BaseInv, Written
<1>6. base.now \in base.disk /\ base'.now \in base'.disk
  BY <1>0, <1>4, BaseMaps
<1>7. (\A f \in base.disk : Loaded(f) = op.records) /\ (\A f \in base'.disk : Loaded(f) = op.records)
  BY <1>0, <1>3, <1>4, <1>5, AllWritten
<1>8. Now = op.records /\ Now' = op.records /\ Found = {op.records} /\ Found' = {op.records}
  BY <1>6, <1>7 DEF Now, Found
<1>9. BaseInv'
  BY <1>2, <1>3, <1>4, <1>6 DEF BaseInv, At, Anchored, Readable, Backed, SameRecords
<1>10. StateOK'
  BY <1>0, <1>1, <1>4, StateStays DEF StateOK
<1>11. CallInv'
  <2>1. op.at \in Writing \cup {"db_sync"} \cup Written /\ op'.at \in Writing \cup {"db_sync", "mirror", "cleanup"}
    BY <1>0, <1>2 DEF Written
  <2>. QED BY <1>1, <1>2, <2>1, CallWrites DEF memory
<1>12. LoadInv'
  <2>1. configured => Now = Before
    <3>1. base.now["db"] # Absent
      BY <1>3, <1>5, <1>6, RecordsWhole
    <3>. QED BY <3>1 DEF SuiteInv, LoadInv, Lost, Bare
  <2>2. Before' = Before
    BY <1>0, <1>1, <1>2 DEF Before, memory, Writing
  <2>3. \A s \in Suites : Agree(s)'
    BY <1>8 DEF Agree
  <2>. QED BY <1>1, <1>2, <1>8, <2>1, <2>2, <2>3 DEF LoadInv, At, SameRecords, memory
<1>13. ASSUME configured' PROVE TreesInv'
  <2>. SUFFICES ASSUME NEW s \in Suites
                PROVE  /\ Steady(T(s), suites[s], promised[s], s \in doubt)
                       /\ s = S => Arrives(T(s), op')
    BY <1>1, <1>2 DEF TreesInv, T, memory, Touched, Written
  <2>1. Steady(T(s), suites[s], promised[s], s \in doubt) /\ (s = S => Arrives(T(s), op))
    BY <1>0, <1>1, <1>13 DEF SuiteInv, TreesInv, Touched, Written, memory
  <2>. QED BY <1>0, <1>2, <2>1 DEF Arrives, SameCall, Writes, Written
<1>14. ASSUME ~configured' PROVE RecoveryInv'
  <2>0. ~configured
    BY <1>1, <1>14 DEF memory
  <2>1. doubt' = {}
    BY <1>1, <2>0 DEF SuiteInv, RecoveryInv
  <2>2. ASSUME NEW s \in Suites PROVE Recoverable(s)' /\ Recorded(s)'
    <3>1. Recoverable(s) /\ Recorded(s)
      BY <2>0 DEF SuiteInv, RecoveryInv
    <3>2. T(s)' = T(s)
      BY <1>1 DEF T
    <3>. QED BY <1>0, <1>2, <1>8, <3>1, <3>2 DEF Recoverable, Recorded, At, SameRecords
  <2>. QED BY <2>1, <2>2 DEF RecoveryInv
<1>15. Promised' /\ Untouched'
  BY <1>1, <1>8 DEF SuiteInv, Promised, Untouched, T
<1>. QED BY <1>2, <1>9, <1>10, <1>11, <1>12, <1>13, <1>14, <1>15 DEF SuiteInv

LEMMA CommitUnknownKeeps ==
  ASSUME SuiteInv, CommitUnknown
  PROVE  SuiteInv'
<1>0. /\ StateOK /\ OpTypeOK /\ At("db_sync") /\ op.at = "db_sync" /\ Maps(base, Root, Databases)
      /\ ~At("load") /\ ~At("recover") /\ op.at \in Writes /\ op.at \notin Writing
  BY DEF SuiteInv, CommitUnknown, At, StateOK, Writes, Writing
<1>1. /\ UNCHANGED <<trees, memory, wiped, promised>>
      /\ doubt' = IF S = NoSuite THEN doubt ELSE doubt \cup {S}
      /\ calls' \in Nat /\ faults' \in Nat /\ crashes' \in Nat
      /\ op' = Unconfirmed(op)
  BY <1>0 DEF CommitUnknown, Fault, Faults, StateOK
<1>2. /\ op'.suite = NoSuite /\ S' = NoSuite /\ OpTypeOK'
      /\ op.call = "configure" => /\ op'.call = "configure" /\ op'.at = "sweep" /\ SameRecords
                                  /\ op'.kept = op.kept /\ op'.active = op.active
      /\ op.call # "configure" => op'.call = "none" /\ op'.at = "idle" /\ ~op'.kept /\ ~op'.active
  <2>1. CASE op.call = "configure"
    <3>1. op' = [op EXCEPT !.at = "sweep"]
      BY <1>1, <2>1 DEF Unconfirmed
    <3>2. op.suite = NoSuite
      BY <2>1 DEF SuiteInv, CallInv, Calling, S
    <3>. QED BY <1>0, <2>1, <3>1, <3>2 DEF OpTypeOK, S, SameRecords
  <2>2. CASE op.call # "configure"
    <3>1. op' = Idle
      BY <1>1, <2>2 DEF Unconfirmed
    <3>. QED BY <2>2, <3>1, RecordsWhole DEF OpTypeOK, S, Idle
  <2>. QED BY <2>1, <2>2
<1>3. Maps(base', Root, Databases) /\ base'.now = base.now /\ base'.disk \subseteq base.disk
  <2>1. base.now \in base.disk
    BY <1>0, BaseMaps
  <2>2. base' = base \/ base' = Synced(base)
    BY DEF CommitUnknown
  <2>. QED BY <1>0, <2>1, <2>2, SyncedRoot
<1>4. Now' = Now /\ Found' \subseteq Found
  BY <1>3 DEF Now, Found
<1>5. configured <=> op.call # "configure"
  BY DEF SuiteInv, CallInv
<1>6. BaseInv'
  <2>1. base.now["db"] = op.records /\ Whole(op.records) /\ Now # Torn
    BY <1>0, OpIs, RecordsWhole, NowReadable DEF SuiteInv, BaseInv
  <2>2. (Backed => Backed') /\ (Conceded => Conceded')
    BY <1>1, <1>3 DEF Backed, Conceded
  <2>3. Now' = Torn \/ Conceded' \/ Backed'
    BY <2>1, <2>2 DEF SuiteInv, BaseInv
  <2>. QED BY <1>0, <1>2, <1>3, <2>1, <2>3 DEF BaseInv, At, Written, Readable, Anchored
<1>7. StateOK'
  <2>1. doubt' \subseteq Suites
    BY <1>0, <1>1, OpIs DEF StateOK
  <2>. QED BY <1>0, <1>1, <1>3, <2>1 DEF StateOK, memory
<1>8. CallInv'
  <2>1. op.call = "configure" => ~op.active
    BY DEF SuiteInv, CallInv
  <2>2. configured' = configured /\ suites' = suites
    BY <1>1 DEF memory
  <2>3. CASE op.call = "configure"
    BY <1>2, <1>5, <2>1, <2>2, <2>3 DEF CallInv, At, Writes, Writing, Written, Starts, Calling
  <2>4. CASE op.call # "configure"
    BY <1>2, <1>5, <2>2, <2>4 DEF CallInv, At, Writes, Writing, Written, Starts, Calling
  <2>. QED BY <2>3, <2>4
<1>9. LoadInv'
  <2>1. ASSUME configured PROVE Now' = Before'
    <3>1. Now = Before
      <4>1. base.now["db"] = op.records /\ op.records # Absent
        BY <1>0, OpIs, RecordsWhole DEF SuiteInv, BaseInv
      <4>. QED BY <2>1, <4>1 DEF SuiteInv, LoadInv, Lost, Bare
    <3>2. Before = suites /\ Before' = suites
      BY <1>0, <1>1, <1>2, <1>5, <2>1 DEF Before, memory, Writing, StateOK, Records
    <3>. QED BY <1>4, <3>1, <3>2
  <2>2. ASSUME NEW s \in Suites, s \notin doubt' PROVE Agree(s)'
    <3>1. s \notin doubt /\ s # S
      BY <1>1, <2>2, SuitesAssumption
    <3>2. Agree(s)
      BY <3>1, <1>0 DEF SuiteInv, LoadInv
    <3>. QED BY <1>1, <1>4, <3>2 DEF Agree
  <2>3. ~configured => op.records = Now /\ \A s \in Suites : op.records[s] \in {Now[s], Absent}
    BY <1>0 DEF SuiteInv, LoadInv
  <2>. QED BY <1>1, <1>2, <1>4, <1>5, <2>1, <2>2, <2>3 DEF LoadInv, At, SameRecords, memory
<1>10. ASSUME configured' PROVE TreesInv'
  <2>0. configured /\ op'.call = "none" /\ op'.at = "idle"
    BY <1>1, <1>2, <1>5, <1>10 DEF memory
  <2>. SUFFICES ASSUME NEW s \in Suites
                PROVE  Steady(T(s), suites[s], promised[s], s \in doubt')
    BY <1>1, <1>2, <2>0, SuitesAssumption DEF TreesInv, T, memory, Touched
  <2>1. CASE s # S
    <3>1. Steady(T(s), suites[s], promised[s], s \in doubt)
      BY <2>0, <2>1 DEF SuiteInv, TreesInv, Touched
    <3>. QED BY <1>1, <2>1, <3>1 DEF Steady
  <2>2. CASE s = S /\ s \in doubt
    <3>1. Touched(s)
      BY <1>0, <2>2 DEF Touched, Starts, Written
    <3>2. Absent \in promised[s]
      BY <2>0, <2>2, <3>1 DEF SuiteInv, TreesInv, Changing
    <3>. QED BY <1>1, <2>2, <3>2, SuitesAssumption DEF Steady
  <2>3. CASE s = S /\ s \notin doubt
    <3>1. op.records[s] = suites[s] /\ (suites[s] # Absent => AllHold(T(s), suites[s]))
      BY <1>0, <2>0, <2>3, CommittedHeld, FirmHolds
    <3>. QED BY <1>1, <2>3, <3>1, SuitesAssumption DEF Steady
  <2>. QED BY <2>1, <2>2, <2>3
<1>11. ASSUME ~configured' PROVE RecoveryInv'
  <2>0. ~configured /\ op.call = "configure" /\ S = NoSuite
    BY <1>1, <1>5, <1>11 DEF memory, SuiteInv, CallInv, Calling
  <2>1. doubt' = {}
    BY <1>1, <2>0 DEF SuiteInv, RecoveryInv
  <2>2. ASSUME NEW s \in Suites PROVE Recoverable(s)' /\ Recorded(s)'
    <3>1. Recoverable(s) /\ Recorded(s)
      BY <2>0 DEF SuiteInv, RecoveryInv
    <3>2. T(s)' = T(s)
      BY <1>1 DEF T
    <3>. QED BY <1>0, <1>2, <1>4, <2>0, <3>1, <3>2 DEF Recoverable, Recorded, At, SameRecords
  <2>. QED BY <2>1, <2>2 DEF RecoveryInv
<1>12. Promised' /\ Untouched'
  <2>1. \A s \in Suites : T(s)' = T(s) /\ promised'[s] = promised[s] /\ wiped' = wiped
    BY <1>1 DEF T
  <2>. QED BY <1>1, <1>4, <2>1 DEF SuiteInv, Promised, Promises, Untouched
<1>. QED BY <1>2, <1>6, <1>7, <1>8, <1>9, <1>10, <1>11, <1>12 DEF SuiteInv

\* What the ways to give up a commit make of the root: it is as it was, or there is
\* only the backup, or not even that.
LEMMA CommitFailsBase ==
  ASSUME SuiteInv, CommitFails
  PROVE  /\ Maps(base', Root, Databases) /\ Readable(base'.now) /\ (Backed => Backed')
         /\ \/ Now' = Now /\ (Bare => Bare')
            \/ At("rotate") /\ configured /\ Unanchored /\ Now' = NoRecords /\ Bare'
         /\ Found' \subseteq Found \cup
              (IF At("rotate") /\ (Unanchored \/ ~Backed) THEN {NoRecords, Torn} ELSE {})
<1>0. /\ Maps(base, Root, Databases) /\ "db" \in Root /\ "bak" \in Root /\ "tmp" \in Root
      /\ base.now \in [Root -> Databases] /\ base.now \in base.disk
      /\ \A f \in base.disk : f \in [Root -> Databases]
  BY BaseMaps DEF SuiteInv, StateOK, Root
<1>1. CASE op.at \in {"write", "file_sync"}
  <2>1. base' = Unlink(base, "tmp")
    BY <1>1 DEF CommitFails, At
  <2>2. IsPut(base, base', "tmp", Absent)
    BY <1>0, <2>1, UnlinkRoot
  <2>3. Alike(base, base')
    BY <2>2, TmpAlike
  <2>4. Maps(base', Root, Databases) /\ Now' = Now /\ Found' \subseteq Found
    BY <2>3, AlikeReads DEF Alike, Now, Found
  <2>5. Readable(base'.now)
    <3>1. Readable(base.now)
      BY <1>1 DEF SuiteInv, BaseInv
    <3>. QED BY <2>3, <3>1, AlikeReads
  <2>6. (Backed => Backed') /\ (Bare => Bare')
    BY <2>3 DEF Alike, Backed, Bare
  <2>. QED BY <2>4, <2>5, <2>6
<1>2. CASE op.at = "rotate"
  <2>0. At("rotate")
    BY <1>2 DEF At
  <2>1. base' = Unlink(Unlink(base, "bak"), "tmp")
    BY <1>2 DEF CommitFails, At
  <2>2. PICK b : b = Unlink(base, "bak")
    OBVIOUS
  <2>3. /\ Maps(b, Root, Databases) /\ b.now["db"] = base.now["db"] /\ b.now["bak"] = Absent
        /\ \/ Whole(base.now["db"]) /\ Loaded(b.now) = Now
           \/ /\ base.now["db"] = Absent /\ Loaded(b.now) = NoRecords
              /\ Now = NoRecords \/ (configured /\ Unanchored)
    BY <2>0, <2>2, Unbacked
  <2>4. ASSUME NEW f \in b.disk
        PROVE  /\ Backed => (f["bak"] = Torn => Whole(f["db"]))
               /\ Loaded(f) \in Found \/ ((Unanchored \/ ~Backed) /\ Loaded(f) \in {NoRecords, Torn})
    BY <2>0, <2>2, Unbacked
  <2>5. IsPut(b, base', "tmp", Absent)
    BY <1>0, <2>1, <2>2, <2>3, UnlinkRoot
  <2>6. Alike(b, base')
    BY <2>5, TmpAlike
  <2>7. Maps(base', Root, Databases) /\ Now' = Loaded(b.now) /\ base'.now["db"] = base.now["db"]
        /\ base'.now["bak"] = Absent
    BY <2>3, <2>6, AlikeReads DEF Now, Alike
  <2>8. Readable(base'.now)
    BY <2>3, <2>7, FilesAssumption DEF Readable
  <2>9. \/ Now' = Now /\ (Bare => Bare')
        \/ configured /\ Unanchored /\ Now' = NoRecords /\ Bare'
    <3>1. base.now["db"] = Absent => Bare'
      BY <2>7 DEF Bare
    <3>2. Bare => Bare'
      BY <2>7 DEF Bare
    <3>. QED BY <2>3, <2>7, <3>1, <3>2
  <2>10. ASSUME NEW f \in base'.disk
         PROVE  /\ Backed => (f["bak"] = Torn => Whole(f["db"]))
                /\ Loaded(f) \in Found \/ ((Unanchored \/ ~Backed) /\ Loaded(f) \in {NoRecords, Torn})
    <3>1. PICK h \in b.disk : f["db"] = h["db"] /\ f["bak"] = h["bak"]
      BY <2>6 DEF Alike
    <3>2. Loaded(f) = Loaded(h)
      BY <3>1, SameLoaded
    <3>. QED BY <2>4, <3>1, <3>2
  <2>11. Found' \subseteq Found \cup
           (IF At("rotate") /\ (Unanchored \/ ~Backed) THEN {NoRecords, Torn} ELSE {})
    <3>. SUFFICES ASSUME NEW f \in base'.disk
                  PROVE  Loaded(f) \in Found \cup (IF Unanchored \/ ~Backed THEN {NoRecords, Torn} ELSE {})
      BY <2>0 DEF Found
    <3>. QED BY <2>10
  <2>12. Backed => Backed'
    BY <2>10 DEF Backed
  <2>. QED BY <2>0, <2>7, <2>8, <2>9, <2>11, <2>12
<1>3. CASE op.at = "replace"
  <2>1. PICK b : base' = Unlink(b, "tmp") /\ (b = base \/ (op.primary /\ b = Rename(base, "bak", "db")))
    <3>1. base' = Unlink(PutBack, "tmp") \/ base' = Unlink(base, "tmp")
      BY <1>3 DEF CommitFails, At
    <3>. QED BY <3>1 DEF PutBack
  <2>3. /\ base.now["db"] = Absent
        /\ IF op.primary THEN Whole(base.now["bak"]) ELSE base.now["bak"] = Absent
    BY <1>3 DEF SuiteInv, BaseInv, At
  <2>4. /\ Maps(b, Root, Databases) /\ Loaded(b.now) = Loaded(base.now) /\ Readable(b.now)
        /\ Bare => b = base
        /\ \A f \in b.disk : (Backed => (f["bak"] = Torn => Whole(f["db"]))) /\ Loaded(f) \in Found
    <3>1. CASE op.primary /\ b = Rename(base, "bak", "db")
      <4>1. IsRenamed(base, b, "bak", "db")
        BY <1>0, <3>1, RenameRoot
      <4>2. Maps(b, Root, Databases) /\ b.now["db"] = base.now["bak"] /\ Whole(b.now["db"])
        BY <1>0, <2>3, <3>1, <4>1 DEF IsRenamed
      <4>3. Loaded(base.now) = base.now["bak"]
        BY <1>0, <2>3, <3>1, LoadedIs, RecordsWhole
      <4>4. Loaded(b.now) = base.now["bak"] /\ ~Bare
        BY <2>3, <3>1, <4>2, BaseMaps, LoadedIs, RecordsWhole DEF Bare
      <4>5. ASSUME NEW f \in b.disk
            PROVE  (Backed => (f["bak"] = Torn => Whole(f["db"]))) /\ Loaded(f) \in Found
        <5>1. PICK h \in base.disk :
                \/ \A m \in Root : f[m] = h[m]
                \/ \A m \in Root :
                     f[m] = IF m = "bak" THEN Absent ELSE IF m = "db" THEN base.now["bak"] ELSE h[m]
          BY <4>1 DEF IsRenamed
        <5>2. CASE \A m \in Root : f[m] = h[m]
          <6>1. Loaded(f) = Loaded(h)
            BY <1>0, <5>2, SameLoaded
          <6>. QED BY <1>0, <5>2, <6>1 DEF Found, Backed
        <5>3. CASE \A m \in Root :
                     f[m] = IF m = "bak" THEN Absent ELSE IF m = "db" THEN base.now["bak"] ELSE h[m]
          <6>1. f["db"] = base.now["bak"]
            BY <1>0, <5>3
          <6>2. Loaded(f) = base.now["bak"]
            BY <2>3, <3>1, <4>2, <6>1, BaseMaps, LoadedIs
          <6>. QED BY <1>0, <2>3, <3>1, <4>3, <6>1, <6>2 DEF Found
        <5>. QED BY <5>1, <5>2, <5>3
      <4>. QED BY <4>2, <4>3, <4>4, <4>5 DEF Readable
    <3>2. CASE b = base
      <4>1. Readable(base.now)
        BY <2>3, FilesAssumption, RecordsWhole DEF Readable
      <4>. QED BY <1>0, <3>2, <4>1 DEF Found, Backed
    <3>. QED BY <2>1, <3>1, <3>2
  <2>6. IsPut(b, base', "tmp", Absent)
    BY <1>0, <2>1, <2>4, UnlinkRoot
  <2>7. Alike(b, base')
    BY <2>6, TmpAlike
  <2>8. Maps(base', Root, Databases) /\ Now' = Now /\ Readable(base'.now)
    BY <2>4, <2>7, AlikeReads DEF Alike, Now
  <2>9. ASSUME NEW f \in base'.disk
        PROVE  (Backed => (f["bak"] = Torn => Whole(f["db"]))) /\ Loaded(f) \in Found
    <3>1. PICK h \in b.disk : f["db"] = h["db"] /\ f["bak"] = h["bak"]
      BY <2>7 DEF Alike
    <3>2. Loaded(f) = Loaded(h)
      BY <3>1, SameLoaded
    <3>. QED BY <2>4, <3>1, <3>2
  <2>10. Found' \subseteq Found
    <3>. SUFFICES ASSUME NEW f \in base'.disk PROVE Loaded(f) \in Found
      BY DEF Found
    <3>. QED BY <2>9
  <2>11. (Backed => Backed') /\ (Bare => Bare')
    <3>1. Backed => Backed'
      BY <2>9 DEF Backed
    <3>2. Bare => Bare'
      BY <2>4, <2>7 DEF Bare, Alike
    <3>. QED BY <3>1, <3>2
  <2>. QED BY <2>8, <2>10, <2>11
<1>. QED BY <1>1, <1>2, <1>3 DEF CommitFails

\* A restart finds the databases it could find, or one that loses what may be lost.
LEMMA FoundStep ==
  ASSUME SuiteInv, trees' = trees, wiped' = wiped, Grows, Now' = Now \/ Conceded', NEW E,
         Found' \subseteq Found \cup E, E \subseteq {NoRecords, Torn}, E # {} => Conceded'
  PROVE  Promised' /\ Untouched' /\ \A s \in Suites : Agree(s) => Agree(s)'
<1>1. \A s \in Suites : NoRecords[s] = Absent
  BY DEF NoRecords
<1>2. ASSUME NEW s \in Suites, Agree(s) PROVE Agree(s)'
  <2>1. CASE Absent \in promised'[s]
    BY <2>1 DEF Agree
  <2>2. CASE Absent \notin promised'[s]
    <3>1. E = {} /\ Now' = Now /\ Absent \notin promised[s]
      BY <2>2 DEF Conceded, Grows
    <3>2. \A r \in Found : Now # Torn /\ r # Torn => r[s] \in {Absent, Now[s]} \/ Now[s] = Absent
      BY <1>2, <3>1 DEF Agree
    <3>. QED BY <3>1, <3>2 DEF Agree
  <2>. QED BY <2>1, <2>2
<1>3. Promised'
  <2>. SUFFICES ASSUME NEW s \in Suites PROVE Promises(Found', T(s)', promised'[s], s)
    BY DEF Promised
  <2>1. Promises(Found, T(s), promised[s], s)
    BY DEF SuiteInv, Promised
  <2>2. \A r \in Found' : \/ r \in Found
                          \/ r = Torn /\ Torn \in promised'[s]
                          \/ r # Torn /\ r[s] \in promised'[s] /\ Absent \in promised'[s]
    BY <1>1, RecordsWhole DEF Conceded
  <2>3. T(s)' = T(s) /\ promised[s] \subseteq promised'[s]
    BY DEF T, Grows
  <2>. QED BY <2>1, <2>2, <2>3, PromisesMore
<1>4. Untouched'
  <2>. SUFFICES ASSUME NEW s \in wiped, NEW r \in Found', r # Torn PROVE r[s] = Absent
    BY DEF Untouched
  <2>1. s \in Suites
    BY DEF SuiteInv, StateOK
  <2>2. CASE r \in Found
    BY <2>2 DEF SuiteInv, Untouched
  <2>3. CASE r \notin Found
    BY <1>1, <2>1, <2>3
  <2>. QED BY <2>2, <2>3
<1>. QED BY <1>2, <1>3, <1>4

\* A configure that starts anew knows what it knew of the directories.
LEMMA StartsAnew ==
  ASSUME SuiteInv, ~configured, configured' = configured, op' = Starting, trees' = trees,
         suites' = suites, doubt' = doubt, Now' = Now,
         \A s \in Suites : Agree(s) => Agree(s)'
  PROVE  OpTypeOK' /\ CallInv' /\ LoadInv' /\ RecoveryInv' /\ S' = NoSuite
<1>1. /\ op'.call = "configure" /\ op'.at = "load" /\ S' = NoSuite /\ op'.kept = FALSE
      /\ op'.active = FALSE /\ OpTypeOK'
  BY RecordsWhole DEF Starting, Idle, OpTypeOK, S
<1>2. CallInv'
  BY <1>1 DEF CallInv, At, Writes, Writing, Written, Starts, Calling
<1>3. doubt = {}
  BY DEF SuiteInv, RecoveryInv
<1>4. \A s \in Suites : ~(At("db_sync") /\ s = S)
  BY SuitesAssumption DEF SuiteInv, CallInv, Calling
<1>5. \A s \in Suites : Agree(s)'
  BY <1>3, <1>4 DEF SuiteInv, LoadInv
<1>6. LoadInv'
  BY <1>1, <1>5 DEF LoadInv, At
<1>7. ASSUME NEW s \in Suites PROVE Recoverable(s)' /\ Recorded(s)'
  <2>1. Recoverable(s)
    BY DEF SuiteInv, RecoveryInv
  <2>2. T(s)' = T(s)
    BY DEF T
  <2>. QED BY <1>1, <2>1, <2>2 DEF Recoverable, Recorded, At
<1>8. RecoveryInv'
  BY <1>3, <1>7 DEF RecoveryInv
<1>. QED BY <1>1, <1>2, <1>6, <1>8

LEMMA CommitFailsKeeps ==
  ASSUME SuiteInv, CommitFails
  PROVE  SuiteInv'
<1>0. /\ StateOK /\ OpTypeOK /\ op.at \in Writing /\ op.at \in Writes /\ ~At("load") /\ ~At("db_sync")
  BY DEF SuiteInv, CommitFails, At, Writing, Writes
<1>1. /\ UNCHANGED <<trees, configured, wiped, doubt>>
      /\ calls' \in Nat /\ faults' \in Nat /\ crashes' \in Nat
      /\ IF At("rotate") THEN Loses ELSE UNCHANGED promised
  <2>1. UNCHANGED <<trees, configured, wiped, doubt>> /\ (Fault \/ Faults(2))
    <3>1. UNCHANGED <<trees, configured, wiped, doubt>>
      BY DEF CommitFails
    <3>2. op.at \in {"write", "file_sync"} => Fault
      <4>1. op.at \notin {"write", "file_sync"} \/ Fault
        BY DEF CommitFails, At
      <4>. QED BY <4>1
    <3>3. op.at = "rotate" => Fault
      BY DEF CommitFails, At
    <3>4. op.at = "replace" => Fault \/ Faults(2)
      BY DEF CommitFails, At
    <3>. QED BY <1>0, <3>1, <3>2, <3>3, <3>4 DEF Writing
  <2>2. calls' \in Nat /\ faults' \in Nat /\ crashes' \in Nat
    BY <1>0, <2>1 DEF Fault, Faults, StateOK
  <2>3. ASSUME op.at = "rotate" PROVE Loses
    BY <2>3 DEF CommitFails, At
  <2>4. ASSUME op.at \in {"write", "file_sync"} PROVE UNCHANGED promised
    BY <2>4 DEF CommitFails, At
  <2>5. ASSUME op.at = "replace" PROVE UNCHANGED promised
    BY <2>5 DEF CommitFails, At
  <2>6. op.at = "rotate" \/ op.at \in {"write", "file_sync"} \/ op.at = "replace"
    BY <1>0 DEF Writing
  <2>. QED BY <2>1, <2>2, <2>3, <2>4, <2>5, <2>6 DEF At
<1>2. PICK E : E = IF At("rotate") /\ (Unanchored \/ ~Backed) THEN {NoRecords, Torn} ELSE {}
  OBVIOUS
<1>3. /\ Maps(base', Root, Databases) /\ Readable(base'.now) /\ (Backed => Backed')
      /\ Found' \subseteq Found \cup E
      /\ \/ Now' = Now /\ (Bare => Bare')
         \/ At("rotate") /\ configured /\ Unanchored /\ Now' = NoRecords /\ Bare'
  BY <1>2, CommitFailsBase
<1>4. /\ promised' \in [Suites -> SUBSET Entries] /\ Grows
      /\ At("rotate") /\ Unanchored => Conceded'
  <2>1. promised \in [Suites -> SUBSET Entries] /\ {Absent, Torn} \subseteq Entries
    BY <1>0 DEF StateOK, Entries
  <2>2. CASE At("rotate")
    <3>1. promised' = [s \in Suites |->
            IF Unanchored THEN promised[s] \cup {Absent, Torn} ELSE promised[s]]
      BY <1>1, <2>2 DEF Loses
    <3>. QED BY <2>1, <3>1 DEF Grows, Conceded
  <2>3. CASE ~At("rotate")
    BY <1>1, <2>1, <2>3 DEF Grows
  <2>. QED BY <2>2, <2>3
<1>5. Now # Torn /\ (Conceded => Conceded') /\ (Conceded' \/ Backed) /\ (E # {} => Conceded')
  <2>1. Now # Torn
    BY <1>0, NowReadable
  <2>2. Conceded => Conceded'
    BY <1>4 DEF Conceded, Grows
  <2>3. Conceded' \/ Backed
    BY <2>1, <2>2 DEF SuiteInv, BaseInv
  <2>. QED BY <1>2, <1>4, <2>1, <2>2, <2>3
<1>6. Promised' /\ Untouched' /\ \A s \in Suites : Agree(s) => Agree(s)'
  <2>1. trees' = trees /\ wiped' = wiped /\ E \subseteq {NoRecords, Torn} /\ (Now' = Now \/ Conceded')
    BY <1>1, <1>2, <1>3, <1>4
  <2>. QED BY <1>3, <1>4, <1>5, <2>1, FoundStep
<1>7. \A s \in Suites \ doubt : Agree(s)'
  BY <1>0, <1>6 DEF SuiteInv, LoadInv
<1>8. op'.at \notin Writing \cup Written \cup {"db_sync"} /\ (configured' \/ op'.at = "load") => BaseInv'
  <2>1. Now' = Torn \/ Conceded' \/ Backed'
    BY <1>3, <1>5
  <2>. QED BY <1>3, <2>1 DEF BaseInv, Writing, At
<1>13. ASSUME configured, Before' = Before PROVE Now' = Before' \/ Lost'
  <2>1. Now = Before \/ Lost
    BY <1>13 DEF SuiteInv, LoadInv
  <2>. QED BY <1>3, <1>4, <1>5, <1>13, <2>1 DEF Lost
<1>9. CASE op.call = "configure"
  <2>1. op' = Starting /\ UNCHANGED suites /\ ~configured
    BY <1>9 DEF CommitFails, SuiteInv, CallInv
  <2>2. OpTypeOK' /\ CallInv' /\ LoadInv' /\ RecoveryInv' /\ S' = NoSuite
    BY <1>1, <1>3, <1>6, <2>1, StartsAnew
  <2>3. op'.at = "load"
    BY <2>1 DEF Starting, Idle
  <2>4. BaseInv'
    BY <1>8, <2>3 DEF Writing, Written
  <2>5. StateOK'
    BY <1>0, <1>1, <1>3, <1>4, <2>1 DEF StateOK
  <2>. QED BY <1>1, <1>6, <2>1, <2>2, <2>4, <2>5 DEF SuiteInv
<1>10. CASE op.call = "update"
  <2>1. op' = Idle /\ UNCHANGED suites /\ configured /\ S = NoSuite
    BY <1>10 DEF CommitFails, SuiteInv, CallInv, Calling
  <2>2. /\ op'.call = "none" /\ op'.at = "idle" /\ S' = NoSuite /\ op'.kept = FALSE
        /\ op'.active = FALSE /\ OpTypeOK'
    BY <2>1, RecordsWhole DEF Idle, OpTypeOK, S
  <2>3. CallInv'
    BY <1>1, <2>1, <2>2 DEF CallInv, At, Writes, Writing, Written, Starts, Calling
  <2>4. BaseInv'
    BY <1>1, <1>8, <2>1, <2>2 DEF Writing, Written
  <2>5. StateOK'
    BY <1>0, <1>1, <1>3, <1>4, <2>1 DEF StateOK
  <2>6. Now' = Before' \/ Lost'
    <3>1. Before = suites /\ Before' = suites
      BY <1>0, <2>1, <2>2, SuitesAssumption DEF Before, Writing, StateOK, Records
    <3>. QED BY <1>13, <2>1, <3>1
  <2>7. LoadInv'
    BY <1>1, <1>7, <2>1, <2>2, <2>6 DEF LoadInv, At
  <2>8. TreesInv'
    <3>. SUFFICES ASSUME NEW s \in Suites
                  PROVE  Steady(T(s), suites[s], promised'[s], s \in doubt)
      BY <1>1, <2>1, <2>2, SuitesAssumption DEF TreesInv, T, Touched
    <3>1. Steady(T(s), suites[s], promised[s], s \in doubt)
      BY <2>1, SuitesAssumption DEF SuiteInv, TreesInv, Touched
    <3>2. promised[s] \subseteq promised'[s]
      BY <1>4 DEF Grows
    <3>. QED BY <3>1, <3>2 DEF Steady
  <2>. QED BY <1>1, <1>6, <2>1, <2>2, <2>3, <2>4, <2>5, <2>7, <2>8 DEF SuiteInv
<1>11. CASE op.call \in Calling
  <2>1. /\ op' = [op EXCEPT !.at = "undo"] /\ suites' = [suites EXCEPT ![S] = op.old]
        /\ configured /\ S \in Suites
    BY <1>11 DEF CommitFails, Goto, Reverted, Calling, SuiteInv, CallInv
  <2>2. SameCall /\ SameRecords /\ OpTypeOK' /\ S' = S /\ op'.at = "undo"
    BY <1>0, <2>1 DEF OpTypeOK, SameCall, SameRecords, S
  <2>3. /\ suites \in Records /\ suites' \in Records /\ suites'[S] = op.old
        /\ \A s \in Suites : s # S => suites'[s] = suites[s]
    BY <1>0, <2>1, OpIs DEF StateOK, Records
  <2>4. CallInv'
    BY <1>0, <1>1, <1>11, <2>1, <2>2, <2>3
       DEF SuiteInv, CallInv, At, SameCall, Writes, Writing, Written, Starts, Calling, Moves
  <2>5. BaseInv'
    BY <1>1, <1>8, <2>1, <2>2 DEF Writing, Written
  <2>6. StateOK'
    BY <1>0, <1>1, <1>3, <1>4, <2>3 DEF StateOK
  <2>7. Now' = Before' \/ Lost'
    <3>1. Before' = Before
      BY <1>0, <2>1, <2>2, <2>3 DEF Before, Writing
    <3>. QED BY <1>13, <2>1, <3>1
  <2>8. LoadInv'
    BY <1>1, <1>7, <2>1, <2>2, <2>7 DEF LoadInv, At
  <2>9. TreesInv'
    <3>. SUFFICES ASSUME NEW s \in Suites
                  PROVE  /\ s # S => Steady(T(s), suites'[s], promised'[s], s \in doubt)
                         /\ s = S => Changing(T(s), op', promised'[s], s \in doubt)
      BY <1>1, <2>2 DEF TreesInv, T, Touched, Starts, Written, Arrives, Writes, Writing
    <3>0. promised[s] \subseteq promised'[s]
      BY <1>4 DEF Grows
    <3>1. CASE s # S
      <4>1. Steady(T(s), suites[s], promised[s], s \in doubt)
        BY <2>1, <3>1 DEF SuiteInv, TreesInv, Touched
      <4>. QED BY <2>3, <3>0, <3>1, <4>1 DEF Steady
    <3>2. CASE s = S
      <4>1. Changing(T(s), op, promised[s], s \in doubt)
        BY <1>0, <2>1, <3>2 DEF SuiteInv, TreesInv, Touched, Writing, Starts, Written
      <4>2. ~Unmoved(op)
        BY <1>0 DEF Unmoved, Writing
      <4>3. Aside(T(s), op) => Aside(T(s), op') /\ op'.kept
        BY <2>2, AsideStays DEF SameCall, Aside
      <4>. QED BY <2>2, <3>0, <3>2, <4>1, <4>2, <4>3 DEF Changing, SameCall, Unmoved
    <3>. QED BY <3>1, <3>2
  <2>. QED BY <1>1, <1>6, <2>1, <2>2, <2>4, <2>5, <2>6, <2>8, <2>9 DEF SuiteInv
<1>12. op.call \in {"configure", "update"} \cup Calling
  BY <1>0 DEF OpTypeOK, SuiteInv, CallInv, At, Writing
<1>. QED BY <1>9, <1>10, <1>11, <1>12

-----------------------------------------------------------------------------
(***************************************************************************)
(* configure and restarts.                                                 *)
(***************************************************************************)
\* The backup B is copied over the primary of c: of what a disk has for a backup,
\* another may be found, or none.
Copies(b, c, B) ==
  /\ Maps(c, Root, Databases) /\ Loaded(c.now) = B /\ c.now["bak"] = B
  /\ \A f \in c.disk : \E h \in b.disk :
       /\ f["bak"] = h["bak"]
       /\ \/ Loaded(f) \in {Loaded(h), B}
          \/ h["bak"] # B /\ (Loaded(f) = Torn \/ (Whole(h["bak"]) /\ Loaded(f) = h["bak"]))

LEMMA RestoreBase ==
  ASSUME NEW b, NEW c, NEW B \in Records, NEW x \in {Torn, B}, Maps(b, Root, Databases),
         b.now["bak"] = B, c = Put(b, "db", x)
  PROVE  Copies(b, c, B) /\ c.now["db"] = x
<1>0. "db" \in Root /\ "bak" \in Root /\ x \in Databases /\ Whole(B) /\ B # Torn
      /\ Torn # Absent /\ ~Whole(Torn)
  BY RecordsWhole, FilesAssumption DEF Root
<1>1. IsPut(b, c, "db", x)
  BY <1>0, PutRoot
<1>2. Maps(c, Root, Databases)
  BY <1>1 DEF IsPut
<1>3. c.now["db"] = x /\ c.now["bak"] = B
  BY <1>0, <1>1 DEF IsPut
<1>4. ASSUME NEW f \in [Root -> Databases], f["db"] = x
      PROVE  \/ Loaded(f) = B
             \/ f["bak"] # B /\ (Loaded(f) = Torn \/ (Whole(f["bak"]) /\ Loaded(f) = f["bak"]))
  <2>1. CASE x = B
    BY <1>0, <1>4, <2>1, LoadedIs
  <2>2. CASE x = Torn /\ Whole(f["bak"])
    <3>1. Loaded(f) = f["bak"]
      BY <1>0, <1>4, <2>2, LoadedIs
    <3>. QED BY <2>2, <3>1
  <2>3. CASE x = Torn /\ ~Whole(f["bak"])
    <3>1. Loaded(f) = Torn
      BY <1>0, <1>4, <2>3 DEF Loaded
    <3>. QED BY <1>0, <2>3, <3>1
  <2>. QED BY <2>1, <2>2, <2>3
<1>5. ASSUME NEW f \in c.disk
      PROVE  \E h \in b.disk :
               /\ f["bak"] = h["bak"]
               /\ \/ Loaded(f) \in {Loaded(h), B}
                  \/ h["bak"] # B /\ (Loaded(f) = Torn \/ (Whole(h["bak"]) /\ Loaded(f) = h["bak"]))
  <2>1. PICK h \in b.disk : \/ \A m \in Root : f[m] = h[m]
                            \/ \A m \in Root : f[m] = IF m = "db" THEN x ELSE h[m]
    BY <1>1 DEF IsPut
  <2>2. CASE \A m \in Root : f[m] = h[m]
    <3>1. Loaded(f) = Loaded(h)
      BY <1>0, <2>2, SameLoaded
    <3>. QED BY <1>0, <2>2, <3>1
  <2>3. CASE \A m \in Root : f[m] = IF m = "db" THEN x ELSE h[m]
    <3>1. f["db"] = x /\ f["bak"] = h["bak"] /\ f \in [Root -> Databases]
      BY <1>0, <1>2, <2>3, BaseMaps
    <3>. QED BY <1>4, <3>1
  <2>. QED BY <2>1, <2>2, <2>3
<1>6. Loaded(c.now) = B
  BY <1>2, <1>3, <1>4, BaseMaps
<1>. QED BY <1>2, <1>3, <1>5, <1>6 DEF Copies

\* What else the backup may be, and what it then has of a suite.
Older == {f["bak"] : f \in {g \in base.disk : g["bak"] # base.now["bak"]}}
Lists(s) == {r[s] : r \in {x \in Older : Whole(x)}}

\* The primary is overwritten, and no restart finds what was not promised.
LEMMA Overwriting ==
  ASSUME SuiteInv, At("load"), Restorable, Overwrites, trees' = trees, NEW copied \in BOOLEAN,
         base' = IF copied THEN Put(Put(base, "db", Torn), "db", base.now["bak"])
                 ELSE Put(base, "db", Torn)
  PROVE  /\ Maps(base', Root, Databases) /\ Now' = Now /\ (Conceded' \/ Backed')
         /\ copied => Whole(base'.now["db"])
         /\ promised' \in [Suites -> SUBSET Entries] /\ wiped' \subseteq wiped
         /\ Promised' /\ Untouched' /\ \A s \in Suites : Agree(s) => Agree(s)'
<1>0. /\ Maps(base, Root, Databases) /\ base.now \in [Root -> Databases]
      /\ \A f \in base.disk : f \in [Root -> Databases]
  BY BaseMaps DEF SuiteInv, StateOK
<1>1. PICK B : B = base.now["bak"]
  OBVIOUS
<1>2. B \in Records /\ Now = B /\ Now \in Found /\ B # Torn
  <2>1. Whole(B) /\ B \in Databases /\ ~Whole(base.now["db"])
    BY <1>0, <1>1 DEF Restorable, Root
  <2>2. Now = B
    BY <1>0, <1>1, <2>1, LoadedIs DEF Now
  <2>. QED BY <1>0, <2>1, <2>2, RecordsWhole, FoundTypes
<1>3. PICK b : b = Put(base, "db", Torn)
  OBVIOUS
<1>4. Copies(base, b, B)
  BY <1>0, <1>1, <1>2, <1>3, RestoreBase
<1>5. Copies(base, base', B) /\ (copied => Whole(base'.now["db"]))
  <2>1. CASE ~copied
    BY <1>3, <1>4, <2>1
  <2>2. CASE copied
    <3>1. PICK c : c = base'
      OBVIOUS
    <3>2. c = Put(b, "db", B)
      BY <1>1, <1>3, <2>2, <3>1
    <3>3. Maps(b, Root, Databases) /\ b.now["bak"] = B
      BY <1>4 DEF Copies
    <3>4. Copies(b, c, B) /\ c.now["db"] = B
      BY <1>2, <3>2, <3>3, RestoreBase
    <3>5. Copies(base, c, B)
      <4>1. ASSUME NEW f \in c.disk
            PROVE  \E k \in base.disk :
                     /\ f["bak"] = k["bak"]
                     /\ \/ Loaded(f) \in {Loaded(k), B}
                        \/ /\ k["bak"] # B
                           /\ Loaded(f) = Torn \/ (Whole(k["bak"]) /\ Loaded(f) = k["bak"])
        <5>1. PICK h \in b.disk :
                /\ f["bak"] = h["bak"]
                /\ \/ Loaded(f) \in {Loaded(h), B}
                   \/ h["bak"] # B /\ (Loaded(f) = Torn \/ (Whole(h["bak"]) /\ Loaded(f) = h["bak"]))
          BY <3>4 DEF Copies
        <5>2. PICK k \in base.disk :
                /\ h["bak"] = k["bak"]
                /\ \/ Loaded(h) \in {Loaded(k), B}
                   \/ k["bak"] # B /\ (Loaded(h) = Torn \/ (Whole(k["bak"]) /\ Loaded(h) = k["bak"]))
          BY <1>4 DEF Copies
        <5>3. CASE Loaded(f) = B
          BY <5>1, <5>2, <5>3
        <5>4. CASE Loaded(f) = Loaded(h) /\ Loaded(f) # B
          BY <5>1, <5>2, <5>4
        <5>5. CASE Loaded(f) \notin {Loaded(h), B}
          BY <5>1, <5>2, <5>5
        <5>. QED BY <5>3, <5>4, <5>5
      <4>. QED BY <3>4, <4>1 DEF Copies
    <3>. QED BY <1>2, <3>1, <3>4, <3>5, RecordsWhole
  <2>. QED BY <2>1, <2>2
<1>6. Maps(base', Root, Databases) /\ Now' = Now
  BY <1>2, <1>5 DEF Copies, Now
<1>7. ASSUME NEW f \in base'.disk
      PROVE  /\ f["bak"] = B \/ Older # {}
             /\ \/ Loaded(f) \in Found
                \/ Older # {} /\ (Loaded(f) = Torn \/ (Whole(Loaded(f)) /\ Loaded(f) \in Older))
  <2>1. PICK h \in base.disk :
          /\ f["bak"] = h["bak"]
          /\ \/ Loaded(f) \in {Loaded(h), B}
             \/ h["bak"] # B /\ (Loaded(f) = Torn \/ (Whole(h["bak"]) /\ Loaded(f) = h["bak"]))
    BY <1>5 DEF Copies
  <2>2. h["bak"] # B => h["bak"] \in Older
    BY <1>1 DEF Older
  <2>. QED BY <1>2, <2>1, <2>2 DEF Found
<1>8. Found' \subseteq Found \cup (IF Older = {} THEN {} ELSE {Torn} \cup {x \in Older : Whole(x)})
  <2>. SUFFICES ASSUME NEW f \in base'.disk
                PROVE  Loaded(f) \in Found \cup
                         (IF Older = {} THEN {} ELSE {Torn} \cup {x \in Older : Whole(x)})
    BY DEF Found
  <2>. QED BY <1>7
<1>9. promised \in [Suites -> SUBSET Entries] /\ wiped \subseteq Suites
  BY DEF SuiteInv, StateOK
<1>10. CASE Older = {}
  <2>1. promised' = promised /\ wiped' = wiped
    BY <1>10 DEF Overwrites, Older
  <2>2. Backed'
    BY <1>2, <1>7, <1>10 DEF Backed
  <2>3. PICK E : E = {}
    OBVIOUS
  <2>4. Found' \subseteq Found \cup E /\ E \subseteq {NoRecords, Torn} /\ E = {} /\ Grows
    BY <1>8, <1>10, <2>1, <2>3 DEF Grows
  <2>5. Promised' /\ Untouched' /\ \A s \in Suites : Agree(s) => Agree(s)'
    BY <1>6, <2>1, <2>4, FoundStep
  <2>. QED BY <1>5, <1>6, <1>9, <2>1, <2>2, <2>5
<1>11. CASE Older # {}
  <2>1. /\ promised' = [s \in Suites |-> promised[s] \cup {Absent, Torn} \cup Lists(s)]
        /\ wiped' = {s \in wiped : Lists(s) \subseteq {Absent}}
    BY <1>11 DEF Overwrites, Older, Lists
  <2>2. \A x \in Older : Whole(x) => x \in Records
    BY <1>0, RecordsWhole DEF Older, Root
  <2>3. \A s \in Suites : Lists(s) \subseteq Entries
    BY <2>2, RecordTypes DEF Lists, Entries
  <2>4. promised' \in [Suites -> SUBSET Entries] /\ wiped' \subseteq wiped /\ Grows /\ Conceded'
    <3>1. {Absent, Torn} \subseteq Entries
      BY DEF Entries
    <3>. QED BY <1>9, <2>1, <2>3, <3>1 DEF Grows, Conceded
  <2>5. \A s \in Suites : Agree(s)'
    BY <2>4 DEF Agree, Conceded
  <2>6. ASSUME NEW r \in Found', r \notin Found, r # Torn
        PROVE  \A s \in Suites : r[s] \in Lists(s)
    <3>1. r \in {x \in Older : Whole(x)}
      BY <1>8, <1>11, <2>6
    <3>. QED BY <3>1 DEF Lists
  <2>7. Promised'
    <3>. SUFFICES ASSUME NEW s \in Suites PROVE Promises(Found', T(s)', promised'[s], s)
      BY DEF Promised
    <3>1. Promises(Found, T(s), promised[s], s)
      BY DEF SuiteInv, Promised
    <3>2. promised[s] \subseteq promised'[s] /\ {Absent, Torn} \cup Lists(s) \subseteq promised'[s]
      BY <2>1
    <3>3. \A r \in Found' : \/ r \in Found
                            \/ r = Torn /\ Torn \in promised'[s]
                            \/ r # Torn /\ r[s] \in promised'[s] /\ Absent \in promised'[s]
      BY <2>6, <3>2
    <3>4. T(s)' = T(s)
      BY DEF T
    <3>. QED BY <3>1, <3>2, <3>3, <3>4, PromisesMore
  <2>8. Untouched'
    <3>. SUFFICES ASSUME NEW s \in wiped', NEW r \in Found', r # Torn PROVE r[s] = Absent
      BY DEF Untouched
    <3>1. s \in Suites /\ s \in wiped /\ Lists(s) \subseteq {Absent}
      BY <1>9, <2>1
    <3>2. CASE r \in Found
      BY <3>1, <3>2 DEF SuiteInv, Untouched
    <3>3. CASE r \notin Found
      BY <2>6, <3>1, <3>3
    <3>. QED BY <3>2, <3>3
  <2>. QED BY <1>5, <1>6, <2>4, <2>5, <2>7, <2>8
<1>. QED BY <1>10, <1>11

LEMMA Loading ==
  ASSUME SuiteInv, At("load") \/ At("recover") \/ At("sweep")
  PROVE  /\ ~configured /\ S = NoSuite /\ op.call = "configure" /\ doubt = {} /\ ~op.active
         /\ \A s \in Suites : Agree(s)
<1>1. /\ ~configured /\ S = NoSuite /\ op.call = "configure" /\ ~op.active
  <2>1. op.call \in {"none", "update", "configure"} \cup Calling
    BY DEF SuiteInv, OpTypeOK
  <2>2. op.call = "configure"
    BY <2>1 DEF SuiteInv, CallInv, At, Moves, Starts, Writes, Writing, Written
  <2>. QED BY <2>2 DEF SuiteInv, CallInv, Calling
<1>2. doubt = {}
  BY <1>1 DEF SuiteInv, RecoveryInv
<1>3. \A s \in Suites : Agree(s)
  BY <1>1, <1>2, SuitesAssumption DEF SuiteInv, LoadInv
<1>. QED BY <1>1, <1>2, <1>3

LEMMA LoadKeeps ==
  ASSUME SuiteInv, Load
  PROVE  SuiteInv'
<1>0. /\ StateOK /\ OpTypeOK /\ At("load") /\ op.at = "load" /\ Maps(base, Root, Databases)
      /\ ~configured /\ S = NoSuite /\ op.call = "configure" /\ doubt = {} /\ ~op.active
      /\ \A s \in Suites : Agree(s)
  BY Loading DEF SuiteInv, Load, At, StateOK
<1>1. /\ Now # Torn
      /\ op' = [op EXCEPT !.at = "recover", !.records = Now, !.rest = {s \in Suites : Now[s] # Absent}]
      /\ UNCHANGED <<trees, memory, doubt, history>>
  BY DEF Load, Now
<1>2. Now \in Records
  BY <1>0, <1>1, FoundTypes
<1>3. PICK R : R = {s \in Suites : Now[s] # Absent}
  OBVIOUS
<1>4. op' = [op EXCEPT !.at = "recover", !.records = Now, !.rest = R]
  BY <1>1, <1>3
<1>5. /\ SameCall /\ OpTypeOK' /\ S' = S /\ op'.at = "recover" /\ op'.records = Now
      /\ op'.rest = R
  <2>1. R \subseteq Suites
    BY <1>3
  <2>. QED BY <1>0, <1>2, <1>4, <2>1 DEF OpTypeOK, SameCall, S
<1>6. /\ Maps(base', Root, Databases) /\ Now' = Now /\ (Conceded' \/ Backed')
      /\ Anchored(base'.now)
      /\ promised' \in [Suites -> SUBSET Entries] /\ wiped' \subseteq wiped
      /\ Promised' /\ Untouched' /\ \A s \in Suites : Agree(s) => Agree(s)'
  <2>1. CASE Restorable
    <3>1. base' = Put(Put(base, "db", Torn), "db", base.now["bak"]) /\ Overwrites /\ trees' = trees
      BY <2>1 DEF Load
    <3>2. PICK copied \in BOOLEAN : copied = TRUE
      OBVIOUS
    <3>3. base' = IF copied THEN Put(Put(base, "db", Torn), "db", base.now["bak"])
                  ELSE Put(base, "db", Torn)
      BY <3>1, <3>2
    <3>4. /\ Maps(base', Root, Databases) /\ Now' = Now /\ (Conceded' \/ Backed')
          /\ copied => Whole(base'.now["db"])
          /\ promised' \in [Suites -> SUBSET Entries] /\ wiped' \subseteq wiped
          /\ Promised' /\ Untouched' /\ \A s \in Suites : Agree(s) => Agree(s)'
      BY <1>0, <2>1, <3>1, <3>3, Overwriting
    <3>. QED BY <3>2, <3>4 DEF Anchored
  <2>2. CASE ~Restorable
    <3>1. base' = base /\ promised' = promised /\ wiped' = wiped
      BY <2>2 DEF Load, Overwrites
    <3>2. Anchored(base.now)
      <4>1. CASE Whole(base.now["db"])
        BY <4>1 DEF Anchored
      <4>2. CASE ~Whole(base.now["db"])
        <5>1. ~Whole(base.now["bak"])
          BY <2>2, <4>2 DEF Restorable
        <5>2. base.now["db"] = Absent /\ base.now["bak"] = Absent
          BY <1>1, <4>2, <5>1 DEF Now, Loaded
        <5>. QED BY <5>2 DEF Anchored
      <4>. QED BY <4>1, <4>2
    <3>3. Now' = Now /\ Found' = Found /\ Conceded' = Conceded /\ Backed' = Backed
      BY <3>1 DEF Now, Found, Conceded, Backed
    <3>4. Conceded \/ Backed
      BY <1>1 DEF SuiteInv, BaseInv
    <3>5. PICK E : E = {}
      OBVIOUS
    <3>6. trees' = trees /\ Grows /\ Found' \subseteq Found \cup E
          /\ E \subseteq {NoRecords, Torn} /\ E = {}
      BY <1>1, <3>1, <3>3, <3>5 DEF Grows
    <3>7. Promised' /\ Untouched' /\ \A s \in Suites : Agree(s) => Agree(s)'
      BY <3>1, <3>3, <3>6, FoundStep
    <3>. QED BY <1>0, <3>1, <3>2, <3>3, <3>4, <3>7 DEF StateOK
  <2>. QED BY <2>1, <2>2
<1>7. BaseInv'
  <2>1. Readable(base'.now)
    BY <1>6, BaseMaps, LoadedIs
  <2>. QED BY <1>5, <1>6, <2>1 DEF BaseInv, At, Written
<1>8. StateOK'
  BY <1>0, <1>1, <1>6 DEF StateOK, memory, history
<1>9. CallInv'
  BY <1>0, <1>1, <1>5 DEF CallInv, At, SameCall, memory, Writes, Writing, Written, Starts, Calling
<1>11. LoadInv'
  <2>1. ~configured'
    BY <1>0, <1>1 DEF memory
  <2>2. \A s \in R : Now[s] # Absent
    BY <1>3
  <2>. QED BY <1>0, <1>1, <1>5, <1>6, <2>1, <2>2 DEF LoadInv, At
<1>12. RecoveryInv'
  <2>1. ASSUME NEW s \in Suites PROVE Recoverable(s)' /\ Recorded(s)'
    <3>1. Recoverable(s)
      BY <1>0 DEF SuiteInv, RecoveryInv
    <3>2. T(s)' = T(s)
      BY <1>1 DEF T
    <3>3. Recoverable(s)'
      BY <1>6, <3>1, <3>2 DEF Recoverable
    <3>4. Recorded(s)'
      BY <1>3, <1>5, <1>6 DEF Recorded, At
    <3>. QED BY <3>3, <3>4
  <2>. QED BY <1>0, <1>1, <2>1 DEF RecoveryInv
<1>. QED BY <1>0, <1>1, <1>5, <1>6, <1>7, <1>8, <1>9, <1>11, <1>12 DEF SuiteInv, memory

LEMMA ConfigureFailsKeeps ==
  ASSUME SuiteInv, ConfigureFails
  PROVE  SuiteInv'
<1>0. /\ StateOK /\ OpTypeOK /\ Maps(base, Root, Databases)
      /\ op.at \in {"load", "recover", "sweep"}
      /\ ~configured /\ S = NoSuite /\ doubt = {} /\ \A s \in Suites : Agree(s)
  BY Loading DEF SuiteInv, ConfigureFails, At, StateOK
<1>1. /\ op' = Starting /\ UNCHANGED <<trees, memory, doubt>>
      /\ calls' \in Nat /\ faults' \in Nat /\ crashes' \in Nat
  BY <1>0 DEF ConfigureFails, Fault, Faults, StateOK
<1>2. op'.at = "load"
  BY <1>1 DEF Starting, Idle
<1>4. /\ Maps(base', Root, Databases) /\ Now' = Now /\ (Now' = Torn \/ Conceded' \/ Backed')
      /\ promised' \in [Suites -> SUBSET Entries] /\ wiped' \subseteq wiped
      /\ Promised' /\ Untouched' /\ \A s \in Suites : Agree(s) => Agree(s)'
  <2>1. CASE UNCHANGED <<base, promised, wiped>>
    <3>1. Now' = Now /\ Found' = Found /\ Conceded' = Conceded /\ Backed' = Backed
      BY <2>1 DEF Now, Found, Conceded, Backed
    <3>2. Now = Torn \/ Conceded \/ Backed
      BY DEF SuiteInv, BaseInv
    <3>3. PICK E : E = {}
      OBVIOUS
    <3>4. trees' = trees /\ wiped' = wiped /\ Grows /\ Found' \subseteq Found \cup E
          /\ E \subseteq {NoRecords, Torn} /\ E = {}
      BY <1>1, <2>1, <3>1, <3>3 DEF Grows
    <3>5. Promised' /\ Untouched' /\ \A s \in Suites : Agree(s) => Agree(s)'
      BY <3>1, <3>4, FoundStep
    <3>. QED BY <1>0, <2>1, <3>1, <3>2, <3>5 DEF StateOK
  <2>2. CASE At("load") /\ Restorable /\ base' = Put(base, "db", Torn) /\ Overwrites
    <3>1. PICK copied \in BOOLEAN : copied = FALSE
      OBVIOUS
    <3>2. base' = IF copied THEN Put(Put(base, "db", Torn), "db", base.now["bak"])
                  ELSE Put(base, "db", Torn)
      BY <2>2, <3>1
    <3>3. trees' = trees
      BY <1>1
    <3>4. /\ Maps(base', Root, Databases) /\ Now' = Now /\ (Conceded' \/ Backed')
          /\ promised' \in [Suites -> SUBSET Entries] /\ wiped' \subseteq wiped
          /\ Promised' /\ Untouched' /\ \A s \in Suites : Agree(s) => Agree(s)'
      BY <2>2, <3>2, <3>3, Overwriting
    <3>. QED BY <3>4
  <2>. QED BY <2>1, <2>2 DEF ConfigureFails
<1>5. BaseInv'
  BY <1>2, <1>4 DEF BaseInv, At, Written
<1>6. StateOK'
  BY <1>0, <1>1, <1>4 DEF StateOK, memory
<1>8. OpTypeOK' /\ CallInv' /\ LoadInv' /\ RecoveryInv' /\ S' = NoSuite
  BY <1>0, <1>1, <1>4, StartsAnew DEF memory
<1>. QED BY <1>0, <1>1, <1>4, <1>5, <1>6, <1>8 DEF SuiteInv, memory

\* Away from a commit the root stays as it is.
LEMMA BaseStays ==
  ASSUME SuiteInv, base' = base, Grows, op.at \notin {"load", "replace"},
         ~configured' => ~configured, op'.at \notin {"rotate", "replace", "db_sync"},
         op'.at \in Written => op.at \in Written /\ op'.records = op.records
  PROVE  BaseInv' /\ Now' = Now /\ Found' = Found /\ (Lost => Lost')
         /\ \A s \in Suites : Agree(s) => Agree(s)'
<1>1. Now' = Now /\ Found' = Found
  BY DEF Now, Found
<1>2. (Conceded => Conceded') /\ Backed' = Backed
  BY DEF Conceded, Grows, Backed
<1>3. Now' = Torn \/ Conceded' \/ Backed'
  BY <1>1, <1>2 DEF SuiteInv, BaseInv
<1>4. Readable(base'.now) /\ (~configured' => Anchored(base'.now))
  BY DEF SuiteInv, BaseInv
<1>5. op'.at \in Written => \A f \in base'.disk : f["db"] = op'.records
  BY DEF SuiteInv, BaseInv
<1>6. BaseInv'
  BY <1>3, <1>4, <1>5 DEF BaseInv, At
<1>7. Lost => Lost'
  BY <1>2 DEF Lost, Bare
<1>8. \A s \in Suites : Agree(s) => Agree(s)'
  BY <1>1 DEF Agree, Grows
<1>. QED BY <1>1, <1>6, <1>7, <1>8

LEMMA RecoveringKeeps ==
  ASSUME SuiteInv, Recovering
  PROVE  SuiteInv'
<1>0. /\ StateOK /\ OpTypeOK /\ At("recover") /\ op.at = "recover" /\ op.rest = {}
      /\ ~configured /\ S = NoSuite /\ op.call = "configure" /\ doubt = {} /\ ~op.active
      /\ \A s \in Suites : Agree(s)
  BY Loading DEF SuiteInv, Recovering, At
<1>1. UNCHANGED <<trees, base, memory, wiped, promised, doubt, history>>
  BY DEF Recovering
<1>2. /\ SameCall /\ SameRecords /\ OpTypeOK' /\ S' = S
      /\ op'.at = "write" \/ (op'.at = "sweep" /\ ~op.changed)
  <2>1. op' = [op EXCEPT !.at = "write"] \/ (op' = [op EXCEPT !.at = "sweep"] /\ ~op.changed)
    BY DEF Recovering, Goto
  <2>. QED BY <1>0, <2>1 DEF OpTypeOK, SameCall, SameRecords, S, Writes, Writing
<1>3. BaseInv' /\ Now' = Now /\ Found' = Found /\ \A s \in Suites : Agree(s) => Agree(s)'
  <2>1. base' = base /\ Grows /\ configured' = configured
    BY <1>1 DEF Grows, memory
  <2>. QED BY <1>0, <1>2, <2>1, BaseStays DEF Written
<1>5. StateOK'
  BY <1>0, <1>1 DEF StateOK, memory, history
<1>6. CallInv'
  BY <1>0, <1>1, <1>2 DEF SuiteInv, CallInv, At, SameCall, memory, Writes, Writing, Written, Starts, Calling
<1>7. LoadInv'
  <2>1. /\ \A s \in Suites : op.records[s] \in {Now[s], Absent}
        /\ ~op.changed => op.records = Now
    BY <1>0 DEF SuiteInv, LoadInv, At
  <2>2. \A s \in Suites : Agree(s)'
    BY <1>0, <1>3
  <2>. QED BY <1>0, <1>1, <1>2, <1>3, <2>1, <2>2 DEF LoadInv, At, SameRecords, memory
<1>8. RecoveryInv'
  <2>1. ASSUME NEW s \in Suites PROVE Recoverable(s)' /\ Recorded(s)'
    <3>1. Recoverable(s) /\ Recorded(s)
      BY <1>0 DEF SuiteInv, RecoveryInv
    <3>2. T(s)' = T(s)
      BY <1>1 DEF T
    <3>. QED BY <1>0, <1>2, <1>3, <3>1, <3>2 DEF Recoverable, Recorded, At, SameRecords
  <2>. QED BY <1>0, <1>1, <2>1 DEF RecoveryInv
<1>9. Promised' /\ Untouched'
  BY <1>1, <1>3 DEF SuiteInv, Promised, Untouched, T
<1>. QED BY <1>0, <1>1, <1>2, <1>3, <1>5, <1>6, <1>7, <1>8, <1>9 DEF SuiteInv, memory

LEMMA UpdateKeeps ==
  ASSUME SuiteInv, NEW s \in Suites, UpdateVerifiedClasses(s)
  PROVE  SuiteInv'
<1>0. /\ StateOK /\ OpTypeOK /\ At("idle") /\ op.at = "idle" /\ configured /\ S = NoSuite
  BY DEF SuiteInv, UpdateVerifiedClasses, At, CallInv, Calling
<1>1. /\ UNCHANGED <<trees, base, memory, wiped, promised, doubt>>
      /\ calls' \in Nat /\ faults' \in Nat /\ crashes' \in Nat
      /\ op' = [Idle EXCEPT !.call = "update", !.at = "write", !.records = suites]
  BY <1>0 DEF UpdateVerifiedClasses, StateOK
<1>2. /\ op'.call = "update" /\ op'.at = "write" /\ S' = NoSuite /\ op'.records = suites
      /\ op'.kept = FALSE /\ op'.active = FALSE /\ OpTypeOK'
  BY <1>0, <1>1 DEF Idle, S, OpTypeOK, StateOK, Writes, Writing
<1>3. /\ BaseInv' /\ Now' = Now /\ Found' = Found /\ (Lost => Lost')
      /\ \A t \in Suites : Agree(t) => Agree(t)'
  <2>1. base' = base /\ Grows /\ configured' = configured
    BY <1>1 DEF Grows, memory
  <2>. QED BY <1>0, <1>2, <2>1, BaseStays DEF Written
<1>5. StateOK'
  BY <1>0, <1>1 DEF StateOK, memory
<1>6. CallInv'
  BY <1>0, <1>1, <1>2 DEF CallInv, At, memory, Writes, Writing, Written, Starts, Calling
<1>7. Now' = Before' \/ Lost'
  <2>1. Now = Before \/ Lost
    BY <1>0 DEF SuiteInv, LoadInv
  <2>2. Before = suites /\ Before' = suites
    BY <1>0, <1>1, <1>2, SuitesAssumption DEF Before, memory, StateOK, Records
  <2>. QED BY <1>3, <2>1, <2>2
<1>8. LoadInv'
  <2>1. \A t \in Suites \ doubt : Agree(t)'
    BY <1>0, <1>3 DEF SuiteInv, LoadInv, At
  <2>. QED BY <1>0, <1>1, <1>2, <1>7, <2>1 DEF LoadInv, At, memory
<1>9. TreesInv'
  <2>. SUFFICES ASSUME NEW t \in Suites
                PROVE  Steady(T(t), suites[t], promised[t], t \in doubt)
    BY <1>1, <1>2, SuitesAssumption DEF TreesInv, T, memory, Touched
  <2>. QED BY <1>0, SuitesAssumption DEF SuiteInv, TreesInv, Touched
<1>10. Promised' /\ Untouched'
  BY <1>1, <1>3 DEF SuiteInv, Promised, Untouched, T
<1>. QED BY <1>0, <1>1, <1>2, <1>3, <1>5, <1>6, <1>8, <1>9, <1>10 DEF SuiteInv, memory

-----------------------------------------------------------------------------
LEMMA FirstIs ==
  ASSUME NEW g, NEW v
  PROVE  /\ First(g, v) \in Kept3 \cup {"none"}
         /\ First(g, v) # "none" => g[First(g, v)] = v /\ First(g, v) \in Kept3
         /\ First(g, v) # "none" <=> Held(g, v)
BY DEF First, Kept3, Held

LEMMA SelectedIs ==
  ASSUME NEW g \in [Trees2 -> Entries], NEW s \in Suites, NEW v
  PROVE  Selected(g, s, v) = IF v = Absent THEN "none" ELSE First(Of(g, s), v)
<1>1. CASE v = Absent
  BY <1>1 DEF Selected
<1>2. CASE v # Absent
  <2>. DEFINE found == {i \in DOMAIN Order : g[<<s, Order[i]>>] = v}
  <2>1. /\ DOMAIN Order = 1..3 /\ Order[1] = "final" /\ Order[2] = "backup" /\ Order[3] = "tombstone"
    BY DEF Order
  <2>2. /\ Of(g, s)["final"] = g[<<s, "final">>] /\ Of(g, s)["backup"] = g[<<s, "backup">>]
        /\ Of(g, s)["tombstone"] = g[<<s, "tombstone">>]
    BY DEF Of, Places
  <2>3. /\ 1 \in found <=> Of(g, s)["final"] = v
        /\ 2 \in found <=> Of(g, s)["backup"] = v
        /\ 3 \in found <=> Of(g, s)["tombstone"] = v
        /\ found \subseteq 1..3
    BY <2>1, <2>2
  <2>4. Selected(g, s, v) =
          IF found = {} THEN "none" ELSE Order[CHOOSE i \in found : \A j \in found : i <= j]
    BY <1>2 DEF Selected
  <2>. HIDE DEF found
  <2>5. CASE 1 \in found
    <3>1. \A i \in found : (\A j \in found : i <= j) <=> i = 1
      BY <2>3, <2>5
    <3>2. (CHOOSE i \in found : \A j \in found : i <= j) = 1
      BY <2>5, <3>1
    <3>. QED BY <1>2, <2>1, <2>3, <2>4, <2>5, <3>2 DEF First
  <2>6. CASE 1 \notin found /\ 2 \in found
    <3>1. \A i \in found : (\A j \in found : i <= j) <=> i = 2
      BY <2>3, <2>6
    <3>2. (CHOOSE i \in found : \A j \in found : i <= j) = 2
      BY <2>6, <3>1
    <3>. QED BY <1>2, <2>1, <2>3, <2>4, <2>6, <3>2 DEF First
  <2>7. CASE 1 \notin found /\ 2 \notin found /\ 3 \in found
    <3>1. \A i \in found : i = 3
      BY <2>3, <2>7
    <3>2. (CHOOSE i \in found : \A j \in found : i <= j) = 3
      BY <2>7, <3>1
    <3>. QED BY <1>2, <2>1, <2>3, <2>4, <2>7, <3>2 DEF First
  <2>8. CASE 1 \notin found /\ 2 \notin found /\ 3 \notin found
    <3>1. found = {}
      BY <2>3, <2>8
    <3>. QED BY <1>2, <2>3, <2>4, <2>8, <3>1 DEF First
  <2>. QED BY <2>5, <2>6, <2>7, <2>8
<1>. QED BY <1>1, <1>2

\* A restart finds the version of the record if one of the three places has it.
LEMMA RecoveredIs ==
  ASSUME NEW f, NEW g \in [Trees2 -> Entries], NEW s \in Suites
  PROVE  Recovered(f, g, s) =
           IF Loaded(f) = Torn THEN Torn
           ELSE IF Loaded(f)[s] # Absent /\ Held(Of(g, s), Loaded(f)[s]) THEN Loaded(f)[s]
           ELSE Absent
<1>1. PICK v : v = Loaded(f)[s]
  OBVIOUS
<1>2. Selected(g, s, v) = IF v = Absent THEN "none" ELSE First(Of(g, s), v)
  BY SelectedIs
<1>3. First(Of(g, s), v) # "none" <=> Held(Of(g, s), v)
  BY FirstIs
<1>. QED BY <1>1, <1>2, <1>3 DEF Recovered

\* e is d without what was at the place p of the suite s.
Cut(d, e, s, p) ==
  /\ Maps(e, Trees2, Entries)
  /\ \A t \in Suites \ {s} : Like(View(d, t), View(e, t))
  /\ p = "stage" => Like(View(d, s), View(e, s))
  /\ \A q \in Places : View(e, s).now[q] = IF q = p THEN Absent ELSE View(d, s).now[q]
  /\ Holds(View(e, s)) \subseteq Holds(View(d, s))
  /\ \A r \in Kept3 : \A v : r # p /\ Firm(View(d, s), v, r) => Firm(View(e, s), v, r)
  /\ p = "final" => \A o : o.active /\ Aside(View(d, s), o) => Aside(View(e, s), o)
  /\ p # "final" => \A v : (\A g \in View(d, s).disk : g["final"] = v) =>
                             (\A g \in View(e, s).disk : g["final"] = v)

LEMMA RemoveCut ==
  ASSUME NEW d, Maps(d, Trees2, Entries), NEW s \in Suites, NEW p \in Places
  PROVE  Cut(d, RemoveTree(d, <<s, p>>), s, p)
<1>0. /\ {Absent, Torn} \subseteq Entries /\ Absent \in Entries /\ <<s, p>> \in Trees2 /\ {} \subseteq Entries
      /\ Maps(View(d, s), Places, Entries)
  BY ViewMaps DEF Entries, Trees2
<1>1. PICK e : e = RemoveTree(d, <<s, p>>)
  OBVIOUS
<1>2. PICK X : X = IF d.now[<<s, p>>] = Absent THEN {} ELSE {Absent, Torn}
  OBVIOUS
<1>3. X \subseteq Entries
  BY <1>0, <1>2
<1>4. Edits(d, e, Trees2, Entries, <<s, p>>, Absent, X)
  BY <1>0, <1>1, <1>2, RemoveMaps
<1>5. /\ Edits(View(d, s), View(e, s), Places, Entries, p, Absent, X)
      /\ \A t \in Suites \ {s} : Like(View(d, t), View(e, t))
  BY <1>0, <1>3, <1>4, ViewEdits
<1>6. Harmless(View(d, s), p, Absent, X)
  <2>1. View(d, s).now[p] = d.now[<<s, p>>]
    BY DEF View, Of
  <2>. QED BY <1>2, <2>1 DEF Harmless
<1>7. Sets(View(d, s).now, View(e, s).now, p, Absent)
  BY <1>0, <1>5, EditNow
<1>8. p = "stage" => Like(View(d, s), View(e, s))
  BY <1>0, <1>3, <1>5, EditStage
<1>9. Holds(View(e, s)) \subseteq Holds(View(d, s))
  BY <1>0, <1>3, <1>5, <1>6, EditHolds
<1>10. ASSUME NEW v, NEW r \in Kept3, r # p, Firm(View(d, s), v, r) PROVE Firm(View(e, s), v, r)
  BY <1>0, <1>3, <1>5, <1>6, <1>10, EditFirm
<1>11. ASSUME p = "final", NEW o, o.active, Aside(View(d, s), o) PROVE Aside(View(e, s), o)
  BY <1>0, <1>3, <1>5, <1>11, EditAside
<1>12. ASSUME p # "final", NEW v, \A g \in View(d, s).disk : g["final"] = v, NEW g \in View(e, s).disk
       PROVE  g["final"] = v
  <2>1. g \in View(d, s).disk \/ \E h \in View(d, s).disk, y \in X : Sets(h, g, p, y)
    BY <1>0, <1>3, <1>5, EditDisk
  <2>. QED BY <1>12, <2>1 DEF Sets, Places
<1>13. Maps(e, Trees2, Entries)
  BY <1>4 DEF Edits
<1>14. Cut(d, e, s, p)
  BY <1>5, <1>7, <1>8, <1>9, <1>10, <1>11, <1>12, <1>13 DEF Cut, Sets
<1>. QED BY <1>1, <1>14
\* A restart: the call is gone, and what it finds is all there is.
LEMMA CrashKeeps ==
  ASSUME SuiteInv, Crash
  PROVE  SuiteInv'
<1>0. /\ StateOK /\ Maps(base, Root, Databases) /\ Maps(trees, Trees2, Entries)
      /\ \A f \in base.disk : f \in [Root -> Databases]
      /\ \A g \in trees.disk : g \in [Trees2 -> Entries]
  BY MapsAre DEF SuiteInv, StateOK, Trees2
<1>1. PICK f \in base.disk, g \in trees.disk :
        /\ base' = Settled(f) /\ trees' = Settled(g)
        /\ promised' = [s \in Suites |-> {Recovered(f, g, s)}]
  BY DEF Crash
<1>2. /\ suites' = NoRecords /\ configured' = FALSE /\ op' = Starting /\ doubt' = {}
      /\ wiped' = wiped /\ calls' \in Nat /\ faults' \in Nat /\ crashes' \in Nat
  BY <1>0 DEF Crash, StateOK
<1>3. f \in [Root -> Databases] /\ g \in [Trees2 -> Entries]
  BY <1>0
<1>4. /\ Maps(base', Root, Databases) /\ base'.now = f /\ base'.disk = {f}
  BY <1>1, <1>3, SettledMaps
<1>5. /\ Maps(trees', Trees2, Entries) /\ trees'.now = g /\ trees'.disk = {g}
  BY <1>1, <1>3, SettledMaps
<1>6. Now' = Loaded(f) /\ Found' = {Loaded(f)} /\ Loaded(f) \in Found /\ Loaded(f) \in Records \cup {Torn}
  BY <1>3, <1>4, LoadedIs DEF Now, Found
<1>7. /\ op'.call = "configure" /\ op'.at = "load" /\ S' = NoSuite /\ op'.kept = FALSE
      /\ op'.active = FALSE /\ OpTypeOK'
  BY <1>2, RecordsWhole DEF Starting, Idle, OpTypeOK, S
<1>8. ASSUME NEW s \in Suites
      PROVE  /\ T(s)'.now = Of(g, s) /\ T(s)'.disk = {Of(g, s)}
             /\ promised'[s] = {IF Loaded(f) = Torn THEN Torn
                                ELSE IF Loaded(f)[s] # Absent /\ Held(Of(g, s), Loaded(f)[s])
                                THEN Loaded(f)[s] ELSE Absent}
  <2>1. T(s)'.now = Of(g, s) /\ T(s)'.disk = {Of(g, s)}
    BY <1>5 DEF T, View
  <2>2. promised'[s] = {Recovered(f, g, s)}
    BY <1>1
  <2>. QED BY <1>3, <2>1, <2>2, RecoveredIs
<1>9. StateOK'
  <2>1. promised' \in [Suites -> SUBSET Entries]
    <3>1. DOMAIN promised' = Suites /\ promised' = [s \in Suites |-> promised'[s]]
      BY <1>1
    <3>2. ASSUME NEW s \in Suites PROVE promised'[s] \subseteq Entries
      <4>1. Loaded(f) # Torn => Loaded(f)[s] \in Versions \cup {Absent}
        BY <1>6, RecordTypes
      <4>. QED BY <1>8, <4>1 DEF Entries
    <3>. QED BY <3>1, <3>2
  <2>2. NoRecords \in Records
    BY RecordsWhole
  <2>. QED BY <1>0, <1>2, <1>4, <1>5, <2>1, <2>2 DEF StateOK, Trees2
<1>10. CallInv'
  BY <1>2, <1>7 DEF CallInv, At, Writes, Writing, Written, Starts, Calling
<1>11. BaseInv'
  <2>1. Now' = Torn \/ Backed'
    <3>1. CASE f["bak"] = Torn /\ ~Whole(f["db"])
      <4>1. Loaded(f) = Torn
        BY <3>1, FilesAssumption, RecordsWhole DEF Loaded
      <4>. QED BY <1>6, <4>1
    <3>2. CASE ~(f["bak"] = Torn /\ ~Whole(f["db"]))
      BY <1>4, <3>2 DEF Backed
    <3>. QED BY <3>1, <3>2
  <2>. QED BY <1>7, <2>1 DEF BaseInv, At, Written
<1>12. LoadInv'
  BY <1>2, <1>6, <1>7 DEF LoadInv, Agree, At
<1>13. RecoveryInv'
  <2>1. ASSUME NEW s \in Suites PROVE Recoverable(s)' /\ Recorded(s)'
    <3>1. PICK v, p : v = Now'[s] /\ p = First(T(s)'.now, v)
      OBVIOUS
    <3>2. p # "none" => T(s)'.now[p] = v /\ p \in Kept3
      BY <3>1, FirstIs
    <3>3. p # "none" => Firm(T(s)', v, p)
      BY <1>8, <3>2 DEF Firm
    <3>. QED BY <1>7, <3>1, <3>3 DEF Recoverable, Recorded, At
  <2>. QED BY <1>2, <2>1 DEF RecoveryInv
<1>14. Promised'
  <2>. SUFFICES ASSUME NEW s \in Suites PROVE Promises(Found', T(s)', promised'[s], s)
    BY DEF Promised
  <2>1. PICK r : r = Loaded(f)
    OBVIOUS
  <2>2. r # Torn /\ r[s] \in Holds(T(s)') => r[s] \in promised'[s]
    <3>1. r[s] \in Holds(T(s)') => r[s] \in Versions /\ Held(Of(g, s), r[s])
      BY <1>8 DEF Holds
    <3>2. r[s] \in Versions => r[s] # Absent
      BY FilesAssumption
    <3>. QED BY <1>8, <2>1, <3>1, <3>2
  <2>3. r # Torn => (r[s] # Absent /\ AllHold(T(s)', r[s])) \/ Absent \in promised'[s]
    BY <1>8, <2>1 DEF AllHold
  <2>4. r = Torn => Torn \in promised'[s]
    BY <1>8, <2>1
  <2>. QED BY <1>6, <2>1, <2>2, <2>3, <2>4 DEF Promises
<1>15. Untouched'
  BY <1>2, <1>6 DEF SuiteInv, Untouched
<1>. QED BY <1>2, <1>7, <1>9, <1>10, <1>11, <1>12, <1>13, <1>14, <1>15 DEF SuiteInv

\* A configure goes on, and commits nothing.
LEMMA RecoverStep ==
  ASSUME SuiteInv, ~configured, op.at \in {"recover", "sweep", "cleanup"},
         op'.at \in {"recover", "sweep"}, SameCall, OpTypeOK',
         base' = base, suites' = suites, configured' = configured, wiped' = wiped,
         promised' = promised, doubt' = doubt, Maps(trees', Trees2, Entries),
         calls' \in Nat /\ faults' \in Nat /\ crashes' \in Nat,
         \A s \in Suites : op'.records[s] \in {Now[s], Absent},
         op'.at = "sweep" \/ ~op'.changed => op'.records = Now,
         op'.at = "recover" => \A s \in op'.rest : op'.records[s] # Absent,
         \A s \in Suites : /\ Recoverable(s)' /\ Recorded(s)'
                           /\ Promises(Found, T(s)', promised[s], s)
  PROVE  SuiteInv'
<1>0. /\ StateOK /\ op.call = "configure" /\ S = NoSuite /\ doubt = {} /\ \A s \in Suites : Agree(s)
  <2>1. op.call = "configure"
    BY DEF SuiteInv, CallInv
  <2>2. S = NoSuite /\ doubt = {}
    BY <2>1 DEF SuiteInv, CallInv, RecoveryInv, Calling
  <2>3. \A s \in Suites : Agree(s)
    BY <2>2, SuitesAssumption DEF SuiteInv, LoadInv
  <2>. QED BY <2>1, <2>2, <2>3 DEF SuiteInv
<1>1. /\ BaseInv' /\ Now' = Now /\ Found' = Found /\ S' = NoSuite
      /\ \A s \in Suites : Agree(s) => Agree(s)'
  <2>1. Grows
    BY DEF Grows
  <2>. QED BY <1>0, <2>1, BaseStays DEF SameCall, S, Written
<1>2. StateOK'
  BY <1>0 DEF StateOK, Trees2
<1>3. CallInv'
  BY <1>0 DEF SuiteInv, CallInv, SameCall, S, At, Writes, Writing, Written, Starts, Calling
<1>5. LoadInv'
  <2>1. \A s \in Suites : Agree(s)'
    BY <1>0, <1>1
  <2>. QED BY <1>1, <2>1 DEF LoadInv, At
<1>6. RecoveryInv'
  BY <1>0 DEF RecoveryInv
<1>7. Promised' /\ Untouched'
  BY <1>1 DEF SuiteInv, Promised, Untouched
<1>. QED BY <1>1, <1>2, <1>3, <1>5, <1>6, <1>7 DEF SuiteInv

\* What the directories of a suite have done to them at the staging place is
\* nothing to a configure.
LEMMA RecoverableLike ==
  ASSUME NEW s \in Suites, Recoverable(s), Like(T(s), T(s)'), Now' = Now
  PROVE  Recoverable(s)'
<1>1. First(T(s)'.now, Now[s]) = First(T(s).now, Now[s])
  BY DEF Like, First, Kept3
<1>2. First(T(s).now, Now[s]) # "none" => First(T(s).now, Now[s]) \in Kept3
  BY FirstIs
<1>3. PICK p, v : p = First(T(s).now, Now[s]) /\ v = Now[s]
  OBVIOUS
<1>4. p \in Kept3 /\ Firm(T(s), v, p) => Firm(T(s)', v, p)
  BY LikeFirm
<1>. QED BY <1>1, <1>2, <1>3, <1>4 DEF Recoverable

LEMMA RecordedLike ==
  ASSUME NEW s \in Suites, Recorded(s), Like(T(s), T(s)'), Now' = Now, ~At("load"),
         op'.records[s] = op.records[s],
         op'.at = "recover" /\ s \notin op'.rest => op.at = "recover" /\ s \notin op.rest,
         At("recover") => op'.at = "recover" \/ s \notin op.rest
  PROVE  Recorded(s)'
<1>1. First(T(s)'.now, Now[s]) = First(T(s).now, Now[s])
  BY DEF Like, First, Kept3
<1>2. PICK v : v = op.records[s]
  OBVIOUS
<1>3. "final" \in Kept3
  BY DEF Kept3
<1>4. Firm(T(s), v, "final") => Firm(T(s)', v, "final")
  BY <1>3, LikeFirm
<1>. QED BY <1>1, <1>2, <1>4 DEF Recorded, At
LEMMA SweepKeeps ==
  ASSUME SuiteInv, Sweep
  PROVE  SuiteInv'
<1>0. /\ StateOK /\ OpTypeOK /\ At("sweep") /\ op.at = "sweep" /\ Maps(trees, Trees2, Entries)
      /\ ~configured /\ Now # Torn /\ Now \in Found
  BY NowReadable, FoundTypes, Loading DEF SuiteInv, Sweep, At, StateOK, Trees2
<1>1. UNCHANGED <<base, memory, wiped, op, promised, doubt, history>>
  BY DEF Sweep
<1>2. PICK s \in Suites, p \in Places :
        /\ p = "stage" \/ op.records[s] = Absent
        /\ trees' = RemoveTree(trees, <<s, p>>)
  <2>1. PICK n \in Unreferenced : trees' = RemoveTree(trees, n)
    BY DEF Sweep
  <2>2. n \in Suites \X Places /\ (n[2] = "stage" \/ op.records[n[1]] = Absent)
    BY <2>1 DEF Unreferenced
  <2>3. n = <<n[1], n[2]>> /\ n[1] \in Suites /\ n[2] \in Places
    BY <2>2
  <2>. QED BY <2>1, <2>2, <2>3
<1>3. Cut(trees, trees', s, p)
  BY <1>0, <1>2, RemoveCut
<1>4. \A t \in Suites : t # s \/ p = "stage" => Like(T(t), T(t)')
  BY <1>3 DEF Cut, T
<1>5. op.records = Now /\ \A t \in Suites : Recoverable(t) /\ Recorded(t)
  BY <1>0 DEF SuiteInv, LoadInv, RecoveryInv
<1>6. Now' = Now
  BY <1>1 DEF Now
<1>7. ASSUME NEW t \in Suites
      PROVE  Recoverable(t)' /\ Recorded(t)' /\ Promises(Found, T(t)', promised[t], t)
  <2>0. Promises(Found, T(t), promised[t], t)
    BY DEF SuiteInv, Promised
  <2>1. CASE t # s \/ p = "stage"
    <3>1. Like(T(t), T(t)')
      BY <1>4, <2>1
    <3>2. Recoverable(t)'
      BY <1>5, <1>6, <3>1, RecoverableLike
    <3>3. Recorded(t)'
      BY <1>0, <1>1, <1>5, <1>6, <3>1, RecordedLike DEF At
    <3>. QED BY <2>0, <3>1, <3>2, <3>3, PromisesLike
  <2>2. CASE t = s /\ Now[s] = Absent
    <3>1. Recoverable(t)' /\ Recorded(t)'
      BY <1>1, <1>5, <1>6, <2>2 DEF Recoverable, Recorded, At
    <3>2. Absent \in promised[t]
      BY <1>0, <2>0, <2>2 DEF Promises
    <3>3. Holds(T(t)') \subseteq Holds(T(t))
      BY <1>3, <2>2 DEF Cut, T
    <3>4. \A r \in Found : r # Torn /\ r[t] \in Holds(T(t)') => r[t] \in Holds(T(t)) \/ r[t] \in promised[t]
      BY <3>3
    <3>. QED BY <2>0, <3>1, <3>2, <3>4, PromisesMoved
  <2>. QED BY <1>2, <1>5, <2>1, <2>2
<1>8. Maps(trees', Trees2, Entries)
  BY <1>3 DEF Cut
<1>9. SameCall /\ OpTypeOK'
  BY <1>0, <1>1 DEF SameCall, OpTypeOK
<1>10. \A t \in Suites : op'.records[t] \in {Now[t], Absent}
  BY <1>1, <1>5
<1>. QED BY <1>0, <1>1, <1>5, <1>7, <1>8, <1>9, <1>10, RecoverStep DEF memory, history, StateOK

LEMMA ConfiguredKeeps ==
  ASSUME SuiteInv, Configured
  PROVE  SuiteInv'
<1>0. /\ StateOK /\ OpTypeOK /\ At("sweep") /\ op.at = "sweep" /\ Maps(trees, Trees2, Entries)
      /\ ~configured /\ doubt = {} /\ Now \in Records /\ \A s \in Suites : Agree(s)
  BY NowReadable, Loading DEF SuiteInv, Configured, At, StateOK, Trees2
<1>1. /\ suites' = op.records /\ configured' = TRUE /\ op' = Idle
      /\ UNCHANGED <<base, wiped, promised, doubt, history>>
  BY DEF Configured
<1>2. /\ op'.call = "none" /\ op'.at = "idle" /\ S' = NoSuite /\ op'.kept = FALSE
      /\ op'.active = FALSE /\ OpTypeOK'
  BY <1>1, RecordsWhole DEF Idle, OpTypeOK, S
<1>3. op.records = Now /\ \A t \in Suites : Recoverable(t) /\ Recorded(t)
  BY <1>0 DEF SuiteInv, LoadInv, RecoveryInv
<1>4. BaseInv' /\ Now' = Now /\ Found' = Found /\ \A t \in Suites : Agree(t) => Agree(t)'
  <2>1. base' = base /\ Grows
    BY <1>1 DEF Grows
  <2>. QED BY <1>0, <1>2, <2>1, BaseStays DEF Written
<1>5. Maps(trees', Trees2, Entries) /\ \A t \in Suites : Like(T(t), T(t)')
  <2>1. trees' = trees \/ trees' = Synced(trees)
    BY DEF Configured
  <2>2. CASE trees' = trees
    BY <1>0, <2>2, LikeSelf DEF T
  <2>3. CASE trees' = Synced(trees)
    BY <1>0, <2>3, SyncedMaps, ViewSynced DEF T
  <2>. QED BY <2>1, <2>2, <2>3
<1>6. StateOK'
  BY <1>0, <1>1, <1>3, <1>5 DEF StateOK, history, Trees2
<1>7. CallInv'
  BY <1>1, <1>2 DEF CallInv, At, Writes, Writing, Written, Starts, Calling
<1>9. LoadInv'
  <2>1. Before' = suites'
    BY <1>2, <1>6, SuitesAssumption DEF Before, StateOK, Records
  <2>2. \A t \in Suites : Agree(t)'
    BY <1>0, <1>4
  <2>. QED BY <1>1, <1>2, <1>3, <1>4, <2>1, <2>2 DEF LoadInv, At
<1>10. TreesInv'
  <2>. SUFFICES ASSUME NEW t \in Suites
                PROVE  Steady(T(t)', suites'[t], promised[t], t \in doubt)
    BY <1>1, <1>2, SuitesAssumption DEF TreesInv, Touched
  <2>1. suites'[t] # Absent => Firm(T(t), suites'[t], "final")
    BY <1>0, <1>1, <1>3 DEF Recorded, At
  <2>2. PICK v : v = suites'[t]
    OBVIOUS
  <2>3. "final" \in Kept3
    BY DEF Kept3
  <2>4. v # Absent => Firm(T(t)', v, "final")
    BY <1>5, <2>1, <2>2, <2>3, LikeFirm
  <2>. QED BY <1>0, <2>2, <2>4 DEF Steady
<1>11. Promised'
  <2>. SUFFICES ASSUME NEW t \in Suites PROVE Promises(Found, T(t)', promised[t], t)
    BY <1>1, <1>4 DEF Promised
  <2>1. Promises(Found, T(t), promised[t], t)
    BY DEF SuiteInv, Promised
  <2>. QED BY <1>5, <2>1, PromisesLike
<1>12. Untouched'
  BY <1>1, <1>4 DEF SuiteInv, Untouched
<1>. QED BY <1>1, <1>2, <1>4, <1>6, <1>7, <1>9, <1>10, <1>11, <1>12 DEF SuiteInv

\* The directory that matches the record is moved into place.
LEMMA PlacedIs ==
  ASSUME StateOK, NEW s \in Suites, NEW v, NEW from \in Kept3, Firm(T(s), v, from),
         NEW e, e = Cleared(Placed(trees, s, from), s)
  PROVE  /\ Maps(e, Trees2, Entries) /\ Firm(View(e, s), v, "final")
         /\ Holds(View(e, s)) \subseteq Holds(T(s))
         /\ \A t \in Suites \ {s} : Like(T(t), View(e, t))
<1>0. /\ Maps(trees, Trees2, Entries) /\ {"final", "backup", "tombstone", "stage"} \subseteq Places
      /\ "final" \in Kept3 /\ from \in Places
  BY DEF StateOK, Trees2, Places, Kept3
<1>1. PICK d : d = Placed(trees, s, from)
  OBVIOUS
<1>2. /\ Maps(d, Trees2, Entries) /\ Firm(View(d, s), v, "final")
      /\ Holds(View(d, s)) \subseteq Holds(T(s))
      /\ \A t \in Suites \ {s} : Like(T(t), View(d, t))
  <2>1. CASE from = "final"
    <3>1. d = trees
      BY <1>1, <2>1 DEF Placed
    <3>. QED BY <1>0, <2>1, <3>1, LikeSelf DEF T
  <2>2. CASE from # "final"
    <3>1. PICK c : c = RemoveTree(trees, <<s, "final">>)
      OBVIOUS
    <3>2. Cut(trees, c, s, "final")
      BY <1>0, <3>1, RemoveCut
    <3>3. /\ Maps(c, Trees2, Entries) /\ Firm(View(c, s), v, from)
          /\ Holds(View(c, s)) \subseteq Holds(T(s))
          /\ \A t \in Suites \ {s} : Like(T(t), View(c, t))
      BY <2>2, <3>2 DEF Cut, T
    <3>4. d = Rename(c, <<s, from>>, <<s, "final">>)
      BY <1>1, <2>2, <3>1 DEF Placed
    <3>5. Renames(c, d, Trees2, Entries, <<s, from>>, <<s, "final">>)
      <4>1. /\ <<s, from>> \in Trees2 /\ <<s, "final">> \in Trees2 /\ Absent \in Entries
        BY <1>0 DEF Trees2, Entries
      <4>. QED BY <3>3, <3>4, <4>1, RenameMaps
    <3>6. /\ Renames(View(c, s), View(d, s), Places, Entries, from, "final")
          /\ \A t \in Suites \ {s} : Like(View(c, t), View(d, t))
      BY <1>0, <3>3, <3>5, ViewRenames
    <3>7. Maps(View(c, s), Places, Entries)
      BY <3>3, ViewMaps
    <3>8. Firm(View(d, s), v, "final")
      BY <2>2, <3>3, <3>6, <3>7, RenameFirm
    <3>9. Holds(View(d, s)) \subseteq Holds(View(c, s))
      BY <1>0, <3>6, <3>7, RenameHolds
    <3>10. \A t \in Suites \ {s} : Like(T(t), View(d, t))
      BY <3>3, <3>6, LikeTwice
    <3>11. Maps(d, Trees2, Entries)
      BY <3>5 DEF Renames
    <3>. QED BY <3>3, <3>8, <3>9, <3>10, <3>11
  <2>. QED BY <2>1, <2>2
<1>3. PICK a : a = RemoveTree(d, <<s, "backup">>)
  OBVIOUS
<1>4. Cut(d, a, s, "backup")
  BY <1>0, <1>2, <1>3, RemoveCut
<1>5. /\ Maps(a, Trees2, Entries) /\ Firm(View(a, s), v, "final")
      /\ Holds(View(a, s)) \subseteq Holds(T(s))
      /\ \A t \in Suites \ {s} : Like(T(t), View(a, t))
  <2>1. \A t \in Suites \ {s} : Like(T(t), View(d, t)) /\ Like(View(d, t), View(a, t))
    BY <1>0, <1>2, <1>4 DEF Cut
  <2>2. \A t \in Suites \ {s} : Like(T(t), View(a, t))
    BY <2>1, LikeTwice
  <2>. QED BY <1>0, <1>2, <1>4, <2>2 DEF Cut
<1>6. PICK b : b = RemoveTree(a, <<s, "tombstone">>)
  OBVIOUS
<1>7. Cut(a, b, s, "tombstone")
  BY <1>0, <1>5, <1>6, RemoveCut
<1>8. /\ Maps(b, Trees2, Entries) /\ Firm(View(b, s), v, "final")
      /\ Holds(View(b, s)) \subseteq Holds(T(s))
      /\ \A t \in Suites \ {s} : Like(T(t), View(b, t))
  <2>1. \A t \in Suites \ {s} : Like(T(t), View(a, t)) /\ Like(View(a, t), View(b, t))
    BY <1>0, <1>5, <1>7 DEF Cut
  <2>2. \A t \in Suites \ {s} : Like(T(t), View(b, t))
    BY <2>1, LikeTwice
  <2>. QED BY <1>0, <1>5, <1>7, <2>2 DEF Cut
<1>9. e = RemoveTree(b, <<s, "stage">>)
  BY <1>1, <1>3, <1>6 DEF Cleared
<1>10. Cut(b, e, s, "stage")
  BY <1>0, <1>8, <1>9, RemoveCut
<1>11. \A t \in Suites \ {s} : Like(T(t), View(b, t)) /\ Like(View(b, t), View(e, t))
  BY <1>8, <1>10 DEF Cut
<1>12. \A t \in Suites \ {s} : Like(T(t), View(e, t))
  BY <1>11, LikeTwice
<1>. QED BY <1>0, <1>8, <1>10, <1>12 DEF Cut

LEMMA RecoverSuiteKeeps ==
  ASSUME SuiteInv, NEW s \in Suites, RecoverSuite(s)
  PROVE  SuiteInv'
<1>0. /\ StateOK /\ OpTypeOK /\ At("recover") /\ op.at = "recover" /\ Maps(trees, Trees2, Entries)
      /\ ~configured /\ Now # Torn /\ Now \in Records /\ Now \in Found /\ \A t \in Suites : Agree(t)
      /\ trees.now \in [Trees2 -> Entries]
  BY NowReadable, FoundTypes, Loading, MapsAre DEF SuiteInv, RecoverSuite, At, StateOK, Trees2
<1>1. UNCHANGED <<base, memory, wiped, promised, doubt, history>> /\ s \in op.rest
  BY DEF RecoverSuite
<1>2. Now' = Now
  BY <1>1 DEF Now
<1>3. /\ \A t \in Suites : op.records[t] \in {Now[t], Absent}
      /\ ~op.changed => op.records = Now
      /\ \A t \in op.rest : op.records[t] # Absent
      /\ \A t \in Suites : Recoverable(t) /\ Recorded(t) /\ Promises(Found, T(t), promised[t], t)
  BY <1>0 DEF SuiteInv, LoadInv, RecoveryInv, Promised, At
<1>4. PICK v, from : v = Now[s] /\ from = First(T(s).now, v)
  OBVIOUS
<1>5. op.records[s] = v /\ v # Absent
  BY <1>1, <1>3, <1>4
<1>6. Chosen(trees.now, s, op.records[s]) = from
  <2>1. T(s).now = Of(trees.now, s)
    BY DEF T, View
  <2>2. Selected(trees.now, s, v) = First(Of(trees.now, s), v)
    BY <1>0, <1>5, SelectedIs
  <2>. QED BY <1>4, <1>5, <2>1, <2>2 DEF Chosen
<1>7. PICK R : R = op.rest \ {s}
  OBVIOUS
<1>8. R \subseteq Suites /\ op.records \in Records
  BY <1>0, <1>7, OpIs
<1>9. CASE from = "none"
  <2>1. op' = Forgotten(op, s) /\ trees' = trees
    BY <1>6, <1>9 DEF RecoverSuite
  <2>2. PICK A : A = [op.records EXCEPT ![s] = Absent]
    OBVIOUS
  <2>3. A \in Records /\ \A t \in Suites : A[t] = IF t = s THEN Absent ELSE op.records[t]
    BY <1>8, <2>2 DEF Records
  <2>4. op' = [op EXCEPT !.rest = R, !.records = A, !.changed = TRUE]
    <3>1. op' = [op EXCEPT !.rest = @ \ {s}, !.records[s] = Absent, !.changed = TRUE]
      BY <2>1 DEF Forgotten
    <3>. QED BY <1>0, <1>7, <2>2, <3>1 DEF OpTypeOK
  <2>5. /\ SameCall /\ OpTypeOK' /\ op'.at = "recover" /\ op'.records = A /\ op'.rest = R
        /\ op'.changed = TRUE
    BY <1>0, <1>8, <2>3, <2>4 DEF OpTypeOK, SameCall
  <2>6. ASSUME NEW t \in Suites
        PROVE  Recoverable(t)' /\ Recorded(t)' /\ Promises(Found, T(t)', promised[t], t)
    <3>1. T(t)' = T(t) /\ Recoverable(t) /\ Recorded(t)
      BY <1>3, <2>1 DEF T
    <3>2. Recoverable(t)'
      BY <1>2, <3>1 DEF Recoverable
    <3>3. CASE t = s
      <4>1. Recorded(t)'
        BY <1>2, <1>4, <1>9, <2>3, <2>5, <3>1, <3>3 DEF Recorded, At
      <4>. QED BY <1>3, <3>1, <3>2, <4>1
    <3>4. CASE t # s
      <4>1. op'.records[t] = op.records[t] /\ (t \in op'.rest <=> t \in op.rest)
        BY <1>7, <2>3, <2>5, <3>4
      <4>2. Recorded(t)'
        BY <1>0, <1>2, <2>5, <3>1, <4>1 DEF Recorded, At
      <4>. QED BY <1>3, <3>1, <3>2, <4>2
    <3>. QED BY <3>3, <3>4
  <2>7. /\ \A t \in Suites : op'.records[t] \in {Now[t], Absent}
        /\ op'.at = "sweep" \/ ~op'.changed => op'.records = Now
        /\ op'.at = "recover" => \A t \in op'.rest : op'.records[t] # Absent
    BY <1>3, <1>7, <1>8, <2>3, <2>5
  <2>. QED BY <1>0, <1>1, <2>1, <2>5, <2>6, <2>7, RecoverStep DEF memory, history, StateOK
<1>10. CASE from # "none"
  <2>1. op' = [op EXCEPT !.rest = R] /\ trees' = Cleared(Placed(trees, s, from), s)
    BY <1>6, <1>7, <1>10 DEF RecoverSuite
  <2>2. SameCall /\ OpTypeOK' /\ op'.at = "recover" /\ op'.records = op.records /\ op'.rest = R
        /\ op'.changed = op.changed
    BY <1>0, <1>8, <2>1 DEF OpTypeOK, SameCall
  <2>3. from \in Kept3 /\ Firm(T(s), v, from)
    <3>1. from \in Kept3
      BY <1>4, <1>10, FirstIs
    <3>. QED BY <1>0, <1>3, <1>4, <1>5, <1>10, <3>1 DEF Recoverable
  <2>4. PICK e : e = trees'
    OBVIOUS
  <2>5. e = Cleared(Placed(trees, s, from), s)
    BY <2>1, <2>4
  <2>6. /\ Maps(e, Trees2, Entries) /\ Firm(View(e, s), v, "final")
        /\ Holds(View(e, s)) \subseteq Holds(T(s))
        /\ \A t \in Suites \ {s} : Like(T(t), View(e, t))
    BY <1>0, <2>3, <2>5, PlacedIs
  <2>7. \A t \in Suites : View(e, t) = T(t)'
    BY <2>4 DEF T
  <2>8. ASSUME NEW t \in Suites
        PROVE  Recoverable(t)' /\ Recorded(t)' /\ Promises(Found, T(t)', promised[t], t)
    <3>1. CASE t = s
      <4>1. Firm(T(t)', v, "final") /\ T(t)'.now["final"] = v
        BY <2>6, <2>7, <3>1 DEF Firm
      <4>2. First(T(t)'.now, v) = "final"
        BY <4>1 DEF First
      <4>3. Recoverable(t)'
        BY <1>2, <1>4, <3>1, <4>1, <4>2 DEF Recoverable
      <4>4. Recorded(t)'
        BY <1>5, <2>2, <3>1, <4>1 DEF Recorded
      <4>5. AllHold(T(t)', v)
        BY <4>1, FirmHolds
      <4>6. \/ Absent \in promised[t]
            \/ \A r \in Found : r # Torn => r[t] \in {Absent, v}
        BY <1>0, <1>4, <1>5, <3>1 DEF Agree
      <4>7. \A r \in Found : r # Torn /\ r[t] \in Holds(T(t)') => r[t] \in Holds(T(t)) \/ r[t] \in promised[t]
        BY <2>6, <2>7, <3>1
      <4>8. Promises(Found, T(t), promised[t], t)
        BY <1>3
      <4>9. Promises(Found, T(t)', promised[t], t)
        BY <4>5, <4>6, <4>7, <4>8, PromisesMoved
      <4>. QED BY <4>3, <4>4, <4>9
    <3>2. CASE t # s
      <4>1. Like(T(t), T(t)') /\ Recoverable(t) /\ Recorded(t) /\ Promises(Found, T(t), promised[t], t)
        BY <1>3, <2>6, <2>7, <3>2
      <4>2. Recoverable(t)'
        BY <1>2, <4>1, RecoverableLike
      <4>3. Recorded(t)'
        BY <1>0, <1>2, <1>7, <2>2, <3>2, <4>1, RecordedLike DEF At
      <4>4. Promises(Found, T(t)', promised[t], t)
        BY <4>1, PromisesLike
      <4>. QED BY <4>2, <4>3, <4>4
    <3>. QED BY <3>1, <3>2
  <2>9. /\ \A t \in Suites : op'.records[t] \in {Now[t], Absent}
        /\ op'.at = "sweep" \/ ~op'.changed => op'.records = Now
        /\ op'.at = "recover" => \A t \in op'.rest : op'.records[t] # Absent
    BY <1>3, <1>7, <2>2
  <2>. QED BY <1>0, <1>1, <2>2, <2>4, <2>6, <2>8, <2>9, RecoverStep DEF memory, history, StateOK
<1>. QED BY <1>9, <1>10
-----------------------------------------------------------------------------
(***************************************************************************)
(* Steps of a call, before and after its commit: those of a suite that     *)
(* the call is about, while the databases stay as they are.                *)
(***************************************************************************)
Going == {"idle", "data", "cleanup"} \cup Starts \cup Moves

LEMMA TreeStep ==
  ASSUME SuiteInv, configured, configured' = configured, base' = base,
         op.at \in Going, op'.at \in {"idle", "write", "data"} \cup Starts \cup Moves,
         op'.at = "data" => op.at = "cleanup" /\ op'.records = op.records,
         Maps(trees', Trees2, Entries), suites' \in Records, Before' = Before,
         doubt \subseteq doubt', doubt' \subseteq Suites, wiped' \subseteq Suites,
         promised' \in [Suites -> SUBSET Entries], Grows, Untouched',
         calls' \in Nat /\ faults' \in Nat /\ crashes' \in Nat, OpTypeOK', CallInv',
         NEW t, S \in {NoSuite, t}, S' \in {NoSuite, t},
         \A s \in Suites \ {t} : /\ Like(T(s), T(s)') /\ suites'[s] = suites[s]
                                 /\ (s \in doubt' <=> s \in doubt),
         t \in Suites =>
           /\ ~Touched(t)' => Steady(T(t)', suites'[t], promised'[t], t \in doubt')
           /\ Touched(t)' => Changing(T(t)', op', promised'[t], t \in doubt')
           /\ t = S' => Arrives(T(t)', op')
           /\ Promises(Found, T(t)', promised'[t], t)
  PROVE  SuiteInv'
<1>1. /\ BaseInv' /\ Now' = Now /\ Found' = Found /\ (Lost => Lost')
      /\ \A s \in Suites : Agree(s) => Agree(s)'
  <2>1. op.at \notin {"load", "replace"} /\ op'.at \notin {"rotate", "replace", "db_sync"}
    BY DEF Going, Starts, Moves
  <2>2. op'.at \in Written => op.at \in Written /\ op'.records = op.records
    BY DEF Written, Starts, Moves
  <2>. QED BY <2>1, <2>2, BaseStays
<1>2. StateOK'
  BY DEF SuiteInv, StateOK, Trees2
<1>4. LoadInv'
  <2>1. Now' = Before' \/ Lost'
    BY <1>1 DEF SuiteInv, LoadInv
  <2>2. \A s \in Suites \ doubt' : Agree(s)'
    <3>1. ~At("db_sync")
      BY DEF At, Going, Starts, Moves
    <3>. QED BY <1>1, <3>1 DEF SuiteInv, LoadInv
  <2>. QED BY <1>1, <2>1, <2>2 DEF LoadInv, At, Starts, Moves
<1>5. TreesInv'
  <2>. SUFFICES ASSUME NEW s \in Suites
                PROVE  /\ ~Touched(s)' => Steady(T(s)', suites'[s], promised'[s], s \in doubt')
                       /\ Touched(s)' => Changing(T(s)', op', promised'[s], s \in doubt')
                       /\ s = S' => Arrives(T(s)', op')
    BY DEF TreesInv
  <2>1. CASE s = t
    BY <2>1
  <2>2. CASE s # t
    <3>1. s # S /\ s # S' /\ ~Touched(s) /\ ~Touched(s)'
      BY <2>2, SuitesAssumption DEF Touched
    <3>2. Steady(T(s), suites[s], promised[s], s \in doubt)
      BY <3>1 DEF SuiteInv, TreesInv
    <3>3. Like(T(s), T(s)') /\ suites'[s] = suites[s] /\ promised[s] \subseteq promised'[s]
      BY <2>2 DEF Grows
    <3>4. PICK v : v = suites[s]
      OBVIOUS
    <3>5. (AllHold(T(s), v) => AllHold(T(s)', v)) /\ "final" \in Kept3
      BY <3>3, LikeHeld DEF Kept3
    <3>6. Firm(T(s), v, "final") => Firm(T(s)', v, "final")
      BY <3>3, <3>5, LikeFirm
    <3>7. Steady(T(s)', suites'[s], promised'[s], s \in doubt')
      BY <2>2, <3>2, <3>3, <3>4, <3>5, <3>6 DEF Steady
    <3>. QED BY <3>1, <3>7
  <2>. QED BY <2>1, <2>2
<1>6. Promised'
  <2>. SUFFICES ASSUME NEW s \in Suites PROVE Promises(Found, T(s)', promised'[s], s)
    BY <1>1 DEF Promised
  <2>1. CASE s = t
    BY <2>1
  <2>2. CASE s # t
    <3>1. Promises(Found, T(s), promised[s], s) /\ Like(T(s), T(s)') /\ promised[s] \subseteq promised'[s]
      BY <2>2 DEF SuiteInv, Promised, Grows
    <3>. QED BY <3>1, PromisesLike
  <2>. QED BY <2>1, <2>2
<1>. QED BY <1>1, <1>2, <1>4, <1>5, <1>6 DEF SuiteInv

\* A call is about a suite, whose database has the old version until the commit.
LEMMA CallIs ==
  ASSUME SuiteInv, op.at \in Starts \cup Moves
  PROVE  /\ StateOK /\ OpTypeOK /\ configured /\ op.call \in Calling /\ S \in Suites
         /\ suites[S] = op.old /\ Maps(trees, Trees2, Entries) /\ Maps(T(S), Places, Entries)
         /\ Now \in Found /\ Now # Torn
         /\ Now = suites \/ \A s \in Suites : Absent \in promised[s]
         /\ Promises(Found, T(S), promised[S], S)
         /\ S \notin doubt /\ op.old = Absent => Absent \in promised[S]
         /\ S \notin doubt /\ op.old # Absent =>
              Absent \in promised[S] \/ \A r \in Found : r # Torn => r[S] \in {Absent, op.old}
         /\ op.at \in Starts => Steady(T(S), op.old, promised[S], S \in doubt)
         /\ op.at \in Moves => Changing(T(S), op, promised[S], S \in doubt)
         /\ Arrives(T(S), op)
<1>1. op.call \in Calling
  <2>1. op.call \in {"none", "update", "configure"} \cup Calling
    BY DEF SuiteInv, OpTypeOK
  <2>. QED BY <2>1 DEF SuiteInv, CallInv, At, Starts, Moves, Writes, Writing, Written
<1>2. configured /\ S \in Suites /\ StateOK /\ OpTypeOK
  BY <1>1 DEF SuiteInv, CallInv, Calling
<1>3. op.at \notin Writes
  BY DEF Starts, Moves, Writes, Writing, Written
<1>4. suites[S] = op.old
  BY <1>1, <1>3 DEF SuiteInv, CallInv
<1>5. Maps(trees, Trees2, Entries) /\ Maps(T(S), Places, Entries)
  BY <1>2, ViewTypes DEF StateOK, Trees2
<1>6. Now \in Found /\ Now # Torn
  BY <1>2, NowReadable, FoundTypes DEF At, Starts, Moves, StateOK
<1>7. Now = suites \/ \A s \in Suites : Absent \in promised[s]
  <2>1. Now = Before \/ \A s \in Suites : Absent \in promised[s]
    BY <1>2 DEF SuiteInv, LoadInv, Lost, Conceded
  <2>2. Before = suites
    BY <1>2, <1>3 DEF Before, StateOK, Records, Writes
  <2>. QED BY <2>1, <2>2
<1>8. Promises(Found, T(S), promised[S], S)
  BY <1>2 DEF SuiteInv, Promised
<1>9. S \notin doubt => Agree(S)
  BY <1>2, <1>3 DEF SuiteInv, LoadInv, At, Writes
<1>10. S \notin doubt /\ op.old = Absent => Absent \in promised[S]
  BY <1>2, <1>4, <1>6, <1>7, <1>8 DEF Promises
<1>11. S \notin doubt /\ op.old # Absent =>
         Absent \in promised[S] \/ \A r \in Found : r # Torn => r[S] \in {Absent, op.old}
  BY <1>2, <1>4, <1>6, <1>7, <1>9 DEF Agree
<1>12. /\ op.at \in Starts => Steady(T(S), op.old, promised[S], S \in doubt)
       /\ op.at \in Moves => Changing(T(S), op, promised[S], S \in doubt)
       /\ Arrives(T(S), op)
  <2>1. op.at \in Starts => ~Touched(S)
    BY DEF Touched
  <2>2. op.at \in Moves => Touched(S)
    BY DEF Touched, Moves, Starts, Written
  <2>. QED BY <1>2, <1>4, <2>1, <2>2 DEF SuiteInv, TreesInv
<1>. QED BY <1>1, <1>2, <1>4, <1>5, <1>6, <1>7, <1>8, <1>10, <1>11, <1>12

LEMMA StillPromised ==
  ASSUME SuiteInv, op.at \in Starts \cup Moves, NEW e, NEW Q, promised[S] \subseteq Q,
         \A r \in Found : r # Torn /\ r[S] \in Holds(e) => r[S] \in Holds(T(S)) \/ r[S] \in Q,
         S \in doubt => Absent \in Q,
         S \notin doubt /\ op.old # Absent => AllHold(e, op.old)
  PROVE  Promises(Found, e, Q, S)
<1>1. /\ Promises(Found, T(S), promised[S], S)
      /\ S \notin doubt /\ op.old = Absent => Absent \in promised[S]
      /\ S \notin doubt /\ op.old # Absent =>
           Absent \in promised[S] \/ \A r \in Found : r # Torn => r[S] \in {Absent, op.old}
  BY CallIs
<1>2. PICK v : v = op.old
  OBVIOUS
<1>3. \/ Absent \in Q
      \/ AllHold(e, v) /\ \A r \in Found : r # Torn => r[S] \in {Absent, v}
  BY <1>1, <1>2
<1>. QED BY <1>1, <1>3, PromisesMoved

\* Memory is what it was, and a database is not being written.
LEMMA SameBefore ==
  ASSUME StateOK, suites' = suites, op.at \notin Writing, op'.at \notin Writing
  PROVE  Before' = Before
BY DEF Before
LEMMA AtOnly ==
  ASSUME OpTypeOK, NEW p \in {"idle"} \cup Starts \cup Moves \cup Writes, op' = [op EXCEPT !.at = p]
  PROVE  SameCall /\ SameRecords /\ op'.at = p /\ S' = S /\ OpTypeOK'
BY DEF OpTypeOK, SameCall, SameRecords, S, Starts, Moves, Writes, Writing, Written

LEMMA IdleIs ==
  ASSUME op' = Idle, configured' = TRUE
  PROVE  /\ op'.call = "none" /\ op'.at = "idle" /\ op'.suite = NoSuite /\ S' = NoSuite
         /\ op'.kept = FALSE /\ op'.active = FALSE /\ OpTypeOK' /\ CallInv'
<1>1. /\ op'.call = "none" /\ op'.at = "idle" /\ op'.suite = NoSuite /\ S' = NoSuite
      /\ op'.kept = FALSE /\ op'.active = FALSE /\ OpTypeOK'
  BY RecordsWhole DEF Idle, OpTypeOK, S
<1>2. CallInv'
  BY <1>1 DEF CallInv, At, Writes, Writing, Written, Starts, Calling
<1>. QED BY <1>1, <1>2

\* A call goes on or ends, without a commit.
LEMMA CallStep ==
  ASSUME SuiteInv, op.at \in Starts \cup Moves, NEW t, t = S,
         base' = base, suites' = suites, configured' = configured, wiped' = wiped,
         op'.at \in {"idle"} \cup Starts \cup Moves, S' \in {NoSuite, t}, OpTypeOK', CallInv',
         Maps(trees', Trees2, Entries), doubt \subseteq doubt', doubt' \subseteq doubt \cup {t},
         promised' \in [Suites -> SUBSET Entries], Grows,
         calls' \in Nat /\ faults' \in Nat /\ crashes' \in Nat,
         \A s \in Suites \ {t} : Like(T(s), T(s)'),
         op'.at \in {"idle"} \cup Starts => Steady(T(t)', op.old, promised'[t], t \in doubt'),
         op'.at \in Moves => S' = t /\ Changing(T(t)', op', promised'[t], t \in doubt'),
         t = S' => Arrives(T(t)', op'),
         Promises(Found, T(t)', promised'[t], t)
  PROVE  SuiteInv'
<1>1. StateOK /\ configured /\ t \in Suites /\ suites[t] = op.old
  BY CallIs
<1>2. Before' = Before
  BY <1>1, SameBefore DEF Starts, Moves, Writing
<1>3. Untouched'
  BY DEF SuiteInv, Untouched, Found
<1>4. doubt' \subseteq Suites /\ wiped' \subseteq Suites /\ suites' \in Records
  BY <1>1 DEF StateOK
<1>5. op.at \in Going /\ op'.at \in {"idle", "write", "data"} \cup Starts \cup Moves /\ op'.at # "data"
  BY DEF Going, Starts, Moves
<1>6. \A s \in Suites \ {t} : /\ Like(T(s), T(s)') /\ suites'[s] = suites[s]
                              /\ (s \in doubt' <=> s \in doubt)
  OBVIOUS
<1>7. /\ ~Touched(t)' => Steady(T(t)', suites'[t], promised'[t], t \in doubt')
      /\ Touched(t)' => Changing(T(t)', op', promised'[t], t \in doubt')
  <2>1. CASE op'.at \in {"idle"} \cup Starts
    <3>1. ~Touched(t)'
      <4>1. CASE op'.at \in Starts
        BY <4>1 DEF Touched
      <4>2. CASE op'.at = "idle"
        <5>1. S' = NoSuite
          <6>1. op'.call = "none"
            BY <4>2 DEF CallInv, At
          <6>. QED BY <6>1 DEF CallInv, Calling
        <5>. QED BY <1>1, <5>1, SuitesAssumption DEF Touched
      <4>. QED BY <2>1, <4>1, <4>2
    <3>. QED BY <1>1, <2>1, <3>1
  <2>2. CASE op'.at \in Moves
    <3>1. Touched(t)'
      BY <2>2 DEF Touched, Moves, Starts, Written
    <3>. QED BY <2>2, <3>1
  <2>. QED BY <2>1, <2>2
<1>. QED BY <1>1, <1>2, <1>3, <1>4, <1>5, <1>6, <1>7, TreeStep

LEMMA InstallKeeps ==
  ASSUME SuiteInv, NEW s \in Suites, NEW v \in Versions, Install(s, v)
  PROVE  SuiteInv'
<1>0. /\ StateOK /\ configured /\ op.at = "idle" /\ S = NoSuite /\ Maps(trees, Trees2, Entries)
  BY DEF SuiteInv, Install, Begin, At, CallInv, Calling, StateOK, Trees2
<1>1. /\ op' = [Idle EXCEPT !.call = "install", !.at = "staging", !.suite = s,
                            !.old = suites[s], !.new = v]
      /\ trees' = Put(RemoveTree(trees, <<s, "stage">>), <<s, "stage">>, Torn)
      /\ UNCHANGED <<base, memory, wiped, promised, doubt>>
      /\ calls' \in Nat /\ faults' \in Nat /\ crashes' \in Nat
  BY <1>0 DEF Install, Begin, StateOK
<1>2. suites[s] \in Versions \cup {Absent}
  BY <1>0 DEF StateOK, Records
<1>3. /\ op'.call = "install" /\ op'.at = "staging" /\ S' = s /\ op'.old = suites[s] /\ op'.new = v
      /\ op'.kept = FALSE /\ op'.active = FALSE /\ OpTypeOK'
  BY <1>1, <1>2, RecordsWhole DEF Idle, S, OpTypeOK, Calling, Starts
<1>4. CallInv'
  BY <1>0, <1>1, <1>3 DEF CallInv, At, memory, Writes, Writing, Written, Starts, Calling
<1>5. Maps(trees', Trees2, Entries) /\ \A t \in Suites : Like(T(t), T(t)')
  <2>0. <<s, "stage">> \in Trees2 /\ "stage" \in Places /\ Torn \in Entries /\ {Torn} \subseteq Entries
    BY DEF Trees2, Places, Entries
  <2>1. PICK d : d = RemoveTree(trees, <<s, "stage">>)
    OBVIOUS
  <2>2. Cut(trees, d, s, "stage")
    BY <1>0, <2>0, <2>1, RemoveCut
  <2>3. Maps(d, Trees2, Entries) /\ \A t \in Suites : Like(T(t), View(d, t))
    BY <2>2 DEF Cut, T
  <2>4. PICK e : e = Put(d, <<s, "stage">>, Torn)
    OBVIOUS
  <2>5. Edits(d, e, Trees2, Entries, <<s, "stage">>, Torn, {Torn})
    BY <2>0, <2>3, <2>4, PutMaps
  <2>6. /\ Edits(View(d, s), View(e, s), Places, Entries, "stage", Torn, {Torn})
        /\ \A t \in Suites \ {s} : Like(View(d, t), View(e, t))
    BY <2>0, <2>3, <2>5, ViewEdits
  <2>7. Maps(View(d, s), Places, Entries)
    BY <2>3, ViewMaps
  <2>8. Like(View(d, s), View(e, s))
    BY <2>0, <2>6, <2>7, EditStage
  <2>9. \A t \in Suites : Like(View(d, t), View(e, t))
    BY <2>6, <2>8
  <2>10. \A t \in Suites : Like(T(t), View(e, t))
    BY <2>3, <2>9, LikeTwice
  <2>11. Maps(e, Trees2, Entries) /\ trees' = e
    BY <1>1, <2>1, <2>4, <2>5 DEF Edits
  <2>. QED BY <2>10, <2>11 DEF T
<1>6. Before' = Before
  BY <1>0, <1>1, <1>3, SameBefore DEF memory, Writing
<1>7. Untouched' /\ Grows
  BY <1>1 DEF SuiteInv, Untouched, Found, Grows
<1>8. ~Touched(s)' /\ Arrives(T(s)', op')
  BY <1>3 DEF Touched, Starts, Arrives, Writes, Writing, Written
<1>9. Steady(T(s)', suites[s], promised[s], s \in doubt)
  <2>1. Steady(T(s), suites[s], promised[s], s \in doubt)
    BY <1>0, SuitesAssumption DEF SuiteInv, TreesInv, Touched
  <2>2. PICK w : w = suites[s]
    OBVIOUS
  <2>3. (AllHold(T(s), w) => AllHold(T(s)', w)) /\ "final" \in Kept3
    BY <1>5, LikeHeld DEF Kept3
  <2>4. Firm(T(s), w, "final") => Firm(T(s)', w, "final")
    BY <1>5, <2>3, LikeFirm
  <2>. QED BY <2>1, <2>2, <2>3, <2>4 DEF Steady
<1>10. Promises(Found, T(s)', promised[s], s)
  <2>1. Promises(Found, T(s), promised[s], s)
    BY DEF SuiteInv, Promised
  <2>. QED BY <1>5, <2>1, PromisesLike
<1>11. op.at \in Going /\ op'.at \in {"idle", "write", "data"} \cup Starts \cup Moves /\ op'.at # "data"
  BY <1>0, <1>3 DEF Going, Starts
<1>. QED BY <1>0, <1>1, <1>3, <1>4, <1>5, <1>6, <1>7, <1>8, <1>9, <1>10, <1>11, TreeStep
     DEF memory, StateOK

LEMMA UninstallKeeps ==
  ASSUME SuiteInv, NEW s \in Suites, Uninstall(s)
  PROVE  SuiteInv'
<1>0. /\ StateOK /\ configured /\ op.at = "idle" /\ S = NoSuite /\ Maps(trees, Trees2, Entries)
  BY DEF SuiteInv, Uninstall, Begin, At, CallInv, Calling, StateOK, Trees2
<1>1. /\ op' = [Idle EXCEPT !.call = "uninstall", !.at = "clear", !.suite = s,
                            !.old = suites[s], !.new = Absent]
      /\ UNCHANGED <<trees, base, memory, wiped, promised, doubt>>
      /\ calls' \in Nat /\ faults' \in Nat /\ crashes' \in Nat
  BY <1>0 DEF Uninstall, Begin, StateOK
<1>2. suites[s] \in Versions \cup {Absent}
  BY <1>0 DEF StateOK, Records
<1>3. /\ op'.call = "uninstall" /\ op'.at = "clear" /\ S' = s /\ op'.old = suites[s]
      /\ op'.new = Absent /\ op'.kept = FALSE /\ op'.active = FALSE /\ OpTypeOK'
  BY <1>1, <1>2, RecordsWhole DEF Idle, S, OpTypeOK, Calling, Starts
<1>4. CallInv'
  BY <1>0, <1>1, <1>3 DEF CallInv, At, memory, Writes, Writing, Written, Starts, Calling
<1>5. Maps(trees', Trees2, Entries) /\ \A t \in Suites : T(t)' = T(t) /\ Like(T(t), T(t)')
  BY <1>0, <1>1, LikeSelf DEF T
<1>6. Before' = Before
  BY <1>0, <1>1, <1>3, SameBefore DEF memory, Writing
<1>7. Untouched' /\ Grows
  BY <1>1 DEF SuiteInv, Untouched, Found, Grows
<1>8. ~Touched(s)' /\ Arrives(T(s)', op')
  BY <1>3 DEF Touched, Starts, Arrives
<1>9. Steady(T(s), suites[s], promised[s], s \in doubt) /\ Promises(Found, T(s), promised[s], s)
  BY <1>0, SuitesAssumption DEF SuiteInv, TreesInv, Touched, Promised
<1>11. op.at \in Going /\ op'.at \in {"idle", "write", "data"} \cup Starts \cup Moves /\ op'.at # "data"
  BY <1>0, <1>3 DEF Going, Starts
<1>. QED BY <1>0, <1>1, <1>3, <1>4, <1>5, <1>6, <1>7, <1>8, <1>9, <1>11, TreeStep
     DEF memory, StateOK
\* Steady, for the suite of the call and what a step leaves of its directories.
LEMMA SteadyKept ==
  ASSUME NEW d, NEW e, NEW v, NEW P, NEW unsure, Steady(d, v, P, unsure), Like(d, e)
  PROVE  Steady(e, v, P, unsure)
<1>1. (AllHold(d, v) => AllHold(e, v)) /\ "final" \in Kept3
  BY LikeHeld DEF Kept3
<1>2. Firm(d, v, "final") => Firm(e, v, "final")
  BY <1>1, LikeFirm
<1>. QED BY <1>1, <1>2 DEF Steady

LEMMA StagedKeeps ==
  ASSUME SuiteInv, Staged
  PROVE  SuiteInv'
<1>0. op.at = "staging" /\ op.at \in Starts
  BY DEF Staged, At, Starts
<1>1. PICK t \in Suites : t = S
  BY <1>0, CallIs
<1>2. /\ StateOK /\ OpTypeOK /\ configured /\ Maps(trees, Trees2, Entries) /\ Maps(T(t), Places, Entries)
      /\ Steady(T(t), op.old, promised[t], t \in doubt) /\ Promises(Found, T(t), promised[t], t)
      /\ op.call = "install"
  <2>1. op.call = "install"
    BY <1>0 DEF SuiteInv, CallInv
  <2>. QED BY <1>0, <1>1, <2>1, CallIs
<1>3. /\ trees' = Synced(Put(trees, <<t, "stage">>, op.new)) /\ op' = [op EXCEPT !.at = "clear"]
      /\ UNCHANGED <<base, memory, wiped, promised, doubt, history>>
  BY <1>1 DEF Staged, Goto
<1>4. SameCall /\ SameRecords /\ op'.at = "clear" /\ S' = t /\ OpTypeOK'
  BY <1>1, <1>2, <1>3, AtOnly DEF Starts
<1>5. CallInv'
  BY <1>0, <1>1, <1>2, <1>3, <1>4 DEF SuiteInv, CallInv, SameCall, At, memory, Writes, Writing, Written,
     Starts, Calling
<1>6. /\ Maps(trees', Trees2, Entries) /\ \A s \in Suites : Like(T(s), T(s)')
      /\ T(t)'.now["stage"] = op.new
  <2>0. /\ <<t, "stage">> \in Trees2 /\ "stage" \in Places /\ op.new \in Entries /\ {op.new} \subseteq Entries
    BY <1>2, OpIs DEF Trees2, Places, Entries
  <2>1. PICK x : x = op.new
    OBVIOUS
  <2>2. PICK e : e = Put(trees, <<t, "stage">>, x)
    OBVIOUS
  <2>3. Edits(trees, e, Trees2, Entries, <<t, "stage">>, x, {x})
    BY <1>2, <2>0, <2>1, <2>2, PutMaps
  <2>4. /\ Edits(View(trees, t), View(e, t), Places, Entries, "stage", x, {x})
        /\ \A s \in Suites \ {t} : Like(View(trees, s), View(e, s))
    BY <1>2, <2>0, <2>1, <2>3, ViewEdits
  <2>5. Like(View(trees, t), View(e, t)) /\ Sets(View(trees, t).now, View(e, t).now, "stage", x)
    BY <1>2, <2>0, <2>1, <2>4, EditStage, EditNow DEF T
  <2>6. Maps(e, Trees2, Entries) /\ trees' = Synced(e)
    BY <1>3, <2>1, <2>2, <2>3 DEF Edits
  <2>7. \A s \in Suites : Like(View(e, s), T(s)') /\ T(s)'.now = View(e, s).now
    BY <2>6, ViewSynced DEF T
  <2>8. \A s \in Suites : Like(T(s), View(e, s)) /\ Like(View(e, s), T(s)')
    BY <2>4, <2>5, <2>7 DEF T
  <2>9. \A s \in Suites : Like(T(s), T(s)')
    BY <2>8, LikeTwice
  <2>10. Maps(trees', Trees2, Entries)
    BY <2>6, SyncedMaps
  <2>11. T(t)'.now["stage"] = op.new
    BY <2>0, <2>1, <2>5, <2>7 DEF Sets
  <2>. QED BY <2>9, <2>10, <2>11
<1>7. Steady(T(t)', op.old, promised[t], t \in doubt)
  BY <1>2, <1>6, SteadyKept
<1>8. Promises(Found, T(t)', promised[t], t)
  BY <1>2, <1>6, PromisesLike
<1>9. Arrives(T(t)', op') /\ Grows
  BY <1>3, <1>4, <1>6 DEF Arrives, SameCall, Writes, Writing, Written, Grows
<1>10. op'.at \in {"idle"} \cup Starts \cup Moves /\ op'.at \in Starts /\ op'.at \notin Moves
  BY <1>4 DEF Starts, Moves
<1>. QED BY <1>0, <1>1, <1>2, <1>3, <1>4, <1>5, <1>6, <1>7, <1>8, <1>9, <1>10, CallStep
     DEF memory, history, StateOK

LEMMA StagingFailsKeeps ==
  ASSUME SuiteInv, StagingFails
  PROVE  SuiteInv'
<1>0. op.at = "staging" /\ op.at \in Starts
  BY DEF StagingFails, At, Starts
<1>1. PICK t \in Suites : t = S
  BY <1>0, CallIs
<1>2. /\ StateOK /\ OpTypeOK /\ configured /\ Maps(trees, Trees2, Entries)
      /\ Steady(T(t), op.old, promised[t], t \in doubt) /\ Promises(Found, T(t), promised[t], t)
  BY <1>0, <1>1, CallIs
<1>3. /\ trees' = RemoveTree(trees, <<t, "stage">>) /\ op' = Idle
      /\ UNCHANGED <<base, memory, wiped, promised, doubt>>
      /\ calls' \in Nat /\ faults' \in Nat /\ crashes' \in Nat
  BY <1>1, <1>2 DEF StagingFails, Removed, Fault, Faults, StateOK
<1>4. op'.at = "idle" /\ S' = NoSuite /\ OpTypeOK' /\ CallInv'
  BY <1>2, <1>3, IdleIs DEF memory, StateOK
<1>6. Maps(trees', Trees2, Entries) /\ \A s \in Suites : Like(T(s), T(s)')
  <2>1. Cut(trees, trees', t, "stage")
    BY <1>2, <1>3, RemoveCut DEF Places
  <2>. QED BY <2>1 DEF Cut, T
<1>7. Steady(T(t)', op.old, promised[t], t \in doubt)
  BY <1>2, <1>6, SteadyKept
<1>8. Promises(Found, T(t)', promised[t], t)
  BY <1>2, <1>6, PromisesLike
<1>9. Grows /\ t # S'
  BY <1>3, <1>4, SuitesAssumption DEF Grows
<1>10. op'.at \in {"idle"} \cup Starts \cup Moves /\ op'.at \notin Moves
  BY <1>4 DEF Starts, Moves
<1>. QED BY <1>0, <1>1, <1>2, <1>3, <1>4, <1>6, <1>7, <1>8, <1>9, <1>10, CallStep
     DEF memory, StateOK

\* What the call has to remove first.
LEMMA ExposeIs ==
  ASSUME StateOK, NEW t \in Suites, t = S, Expose
  PROVE  /\ promised' \in [Suites -> SUBSET Entries] /\ Grows
         /\ promised[t] \subseteq promised'[t]
         /\ t \in doubt => Absent \in promised'[t]
<1>1. promised \in [Suites -> SUBSET Entries] /\ Absent \in Entries
  BY DEF StateOK, Entries
<1>2. promised' = [promised EXCEPT ![t] = promised[t] \cup (IF t \in doubt THEN {Absent} ELSE {})]
  BY DEF Expose, Exposed
<1>. QED BY <1>1, <1>2 DEF Grows

LEMMA ClearKeeps ==
  ASSUME SuiteInv, ClearBackup \/ ClearTombstone
  PROVE  SuiteInv'
<1>0. op.at = "clear" /\ op.at \in Starts
  BY DEF ClearBackup, ClearTombstone, At, Starts
<1>1. PICK t \in Suites : t = S
  BY <1>0, CallIs
<1>2. /\ StateOK /\ OpTypeOK /\ configured /\ Maps(trees, Trees2, Entries)
      /\ Steady(T(t), op.old, promised[t], t \in doubt) /\ Promises(Found, T(t), promised[t], t)
      /\ Arrives(T(t), op) /\ ~op.active /\ ~op.kept
  <2>1. ~op.active /\ ~op.kept
    BY <1>0 DEF SuiteInv, CallInv, Starts, Writes, Writing, Written
  <2>. QED BY <1>0, <1>1, <2>1, CallIs
<1>3. PICK p : p = IF ClearBackup THEN "backup" ELSE "tombstone"
  OBVIOUS
<1>4. /\ p \in {"backup", "tombstone"} /\ p \in Places /\ p # "final" /\ p # "stage"
  BY <1>3 DEF Places
<1>5. /\ trees' = RemoveTree(trees, <<t, p>>) /\ Expose
      /\ UNCHANGED <<base, memory, wiped, doubt, history>>
  BY <1>1, <1>3 DEF ClearBackup, ClearTombstone, Removed
<1>6. /\ SameRecords /\ op'.call = op.call /\ op'.old = op.old /\ op'.new = op.new
      /\ op'.active = op.active /\ S' = t /\ OpTypeOK'
      /\ \/ /\ op.call = "install" /\ op'.at \in {"backup", "activate"}
            /\ op'.at = "backup" <=> T(t).now["final"] # Absent
            /\ op'.kept <=> T(t).now["final"] # Absent
         \/ op.call = "uninstall" /\ op'.at = "bury" /\ op'.kept = op.kept
  <2>1. CASE ClearBackup
    <3>1. T(t).now["final"] = Tree("final")
      BY <1>1 DEF T, View, Of, Places, Tree
    <3>2. PICK b \in BOOLEAN : b = (Tree("final") # Absent)
      OBVIOUS
    <3>3. op' = [op EXCEPT !.kept = b, !.at = IF b THEN "backup" ELSE "activate"] /\ op.call = "install"
      BY <2>1, <3>2 DEF ClearBackup
    <3>5. PICK q \in {"backup", "activate"} : q = IF b THEN "backup" ELSE "activate"
      OBVIOUS
    <3>6. op' = [op EXCEPT !.kept = b, !.at = q]
      BY <3>3, <3>5
    <3>4. /\ SameRecords /\ op'.call = op.call /\ op'.old = op.old /\ op'.new = op.new
          /\ op'.active = op.active /\ S' = t /\ OpTypeOK'
          /\ op'.at = q /\ op'.kept = b
      BY <1>1, <1>2, <3>6 DEF OpTypeOK, SameRecords, S
    <3>. QED BY <3>1, <3>2, <3>3, <3>4, <3>5
  <2>2. CASE ClearTombstone
    <3>1. op' = [op EXCEPT !.at = "bury"] /\ op.call = "uninstall"
      BY <2>2 DEF ClearTombstone, Goto
    <3>2. SameCall /\ SameRecords /\ op'.at = "bury" /\ S' = S /\ OpTypeOK'
      BY <1>2, <3>1, AtOnly DEF Moves
    <3>. QED BY <1>1, <3>1, <3>2 DEF SameCall
  <2>. QED BY <2>1, <2>2
<1>7. CallInv'
  BY <1>0, <1>1, <1>2, <1>5, <1>6 DEF SuiteInv, CallInv, At, memory, Writes, Writing, Written,
     Starts, Calling, Moves, S
<1>8. Cut(trees, trees', t, p)
  BY <1>2, <1>4, <1>5, RemoveCut
<1>9. /\ Maps(trees', Trees2, Entries) /\ \A s \in Suites \ {t} : Like(T(s), T(s)')
      /\ T(t)'.now["stage"] = T(t).now["stage"]
      /\ Holds(T(t)') \subseteq Holds(T(t))
      /\ Firm(T(t), op.old, "final") => Firm(T(t)', op.old, "final")
  BY <1>4, <1>8 DEF Cut, T, Places, Kept3
<1>10. /\ promised' \in [Suites -> SUBSET Entries] /\ Grows
       /\ promised[t] \subseteq promised'[t]
       /\ t \in doubt => Absent \in promised'[t]
  BY <1>1, <1>2, <1>5, ExposeIs
<1>11. t \notin doubt /\ op.old # Absent => /\ Firm(T(t), op.old, "final")
                                             /\ Firm(T(t)', op.old, "final")
                                             /\ T(t).now["final"] # Absent
  BY <1>2, <1>9 DEF Steady, Firm
<1>12. Changing(T(t)', op', promised'[t], t \in doubt)
  BY <1>6, <1>10, <1>11 DEF Changing, Unmoved
<1>13. Arrives(T(t)', op')
  BY <1>0, <1>2, <1>6, <1>9 DEF Arrives, Writes, Writing, Written
<1>14. Promises(Found, T(t)', promised'[t], t)
  <2>1. t \notin doubt /\ op.old # Absent => AllHold(T(t)', op.old)
    BY <1>11, FirmHolds
  <2>2. \A r \in Found : r # Torn /\ r[t] \in Holds(T(t)') => r[t] \in Holds(T(t)) \/ r[t] \in promised'[t]
    BY <1>9
  <2>3. PICK e, Q : e = T(t)' /\ Q = promised'[t]
    OBVIOUS
  <2>4. Promises(Found, e, Q, S)
    BY <1>0, <1>1, <1>10, <2>1, <2>2, <2>3, StillPromised
  <2>. QED BY <1>1, <2>3, <2>4
<1>15. op'.at \in Moves /\ op'.at \notin Starts /\ op'.at # "idle"
  BY <1>6 DEF Moves, Starts
<1>. QED BY <1>0, <1>1, <1>2, <1>5, <1>6, <1>7, <1>9, <1>10, <1>12, <1>13, <1>14, <1>15, CallStep
     DEF memory, history, StateOK
LEMMA ClearFailsKeeps ==
  ASSUME SuiteInv, ClearFails
  PROVE  SuiteInv'
<1>0. op.at = "clear" /\ op.at \in Starts
  BY DEF ClearFails, At, Starts
<1>1. PICK t \in Suites : t = S
  BY <1>0, CallIs
<1>2. /\ StateOK /\ OpTypeOK /\ configured /\ Maps(trees, Trees2, Entries) /\ Maps(T(t), Places, Entries)
      /\ Steady(T(t), op.old, promised[t], t \in doubt) /\ Promises(Found, T(t), promised[t], t)
      /\ Arrives(T(t), op) /\ ~op.active /\ ~op.kept
  <2>1. ~op.active /\ ~op.kept
    BY <1>0 DEF SuiteInv, CallInv, Starts, Writes, Writing, Written
  <2>. QED BY <1>0, <1>1, <2>1, CallIs
<1>3. PICK p : p = IF op.call = "install" THEN "backup" ELSE "tombstone"
  OBVIOUS
<1>4. p \in {"backup", "tombstone"} /\ p \in Places /\ p # "final" /\ p # "stage" /\ "final" \in Kept3
  BY <1>3 DEF Places, Kept3
<1>5. /\ trees' = IF T(t).now[p] = Absent THEN trees ELSE Put(trees, <<t, p>>, Torn)
      /\ Expose /\ UNCHANGED <<base, memory, wiped, doubt>>
      /\ calls' \in Nat /\ faults' \in Nat /\ crashes' \in Nat
  <2>1. T(t).now[p] = Tree(p)
    BY <1>1, <1>4 DEF T, View, Of, Tree
  <2>. QED BY <1>1, <1>2, <1>3, <2>1 DEF ClearFails, Fault, Faults, StateOK
<1>6. /\ OpTypeOK' /\ CallInv'
      /\ \/ op'.at = "undo" /\ SameCall /\ S' = t
         \/ op'.at = "idle" /\ S' = NoSuite
  <2>1. CASE op.call = "install"
    <3>1. op' = [op EXCEPT !.at = "undo"]
      BY <2>1 DEF ClearFails, Goto
    <3>2. SameCall /\ SameRecords /\ op'.at = "undo" /\ S' = S /\ OpTypeOK'
      BY <1>2, <3>1, AtOnly DEF Moves
    <3>3. CallInv'
      BY <1>0, <1>1, <1>2, <1>5, <2>1, <3>2 DEF SuiteInv, CallInv, SameCall, At, memory, Writes,
         Writing, Written, Starts, Calling, Moves
    <3>. QED BY <1>1, <3>2, <3>3
  <2>2. CASE op.call # "install"
    <3>1. op' = Idle /\ configured' = TRUE
      BY <1>2, <1>5, <2>2 DEF ClearFails, memory, StateOK
    <3>. QED BY <3>1, IdleIs
  <2>. QED BY <2>1, <2>2
<1>7. /\ Maps(trees', Trees2, Entries) /\ \A s \in Suites \ {t} : Like(T(s), T(s)')
      /\ Holds(T(t)') \subseteq Holds(T(t))
      /\ Firm(T(t), op.old, "final") => Firm(T(t)', op.old, "final")
  <2>1. CASE T(t).now[p] = Absent
    <3>1. trees' = trees
      BY <1>5, <2>1
    <3>. QED BY <1>2, <3>1, LikeSelf DEF T
  <2>2. CASE T(t).now[p] # Absent
    <3>0. <<t, p>> \in Trees2 /\ Torn \in Entries /\ {Torn} \subseteq Entries
      BY <1>4 DEF Trees2, Entries
    <3>1. PICK e : e = trees'
      OBVIOUS
    <3>2. e = Put(trees, <<t, p>>, Torn)
      BY <1>5, <2>2, <3>1
    <3>3. Edits(trees, e, Trees2, Entries, <<t, p>>, Torn, {Torn})
      BY <1>2, <3>0, <3>2, PutMaps
    <3>4. /\ Edits(T(t), View(e, t), Places, Entries, p, Torn, {Torn})
          /\ \A s \in Suites \ {t} : Like(View(trees, s), View(e, s))
      BY <1>2, <1>4, <3>0, <3>3, ViewEdits DEF T
    <3>5. Harmless(T(t), p, Torn, {Torn})
      BY <2>2 DEF Harmless
    <3>6. Holds(View(e, t)) \subseteq Holds(T(t))
      BY <1>2, <1>4, <3>0, <3>4, <3>5, EditHolds
    <3>7. PICK v : v = op.old
      OBVIOUS
    <3>8. Firm(T(t), v, "final") => Firm(View(e, t), v, "final")
      BY <1>2, <1>4, <3>0, <3>4, <3>5, EditFirm
    <3>9. Maps(e, Trees2, Entries)
      BY <3>3 DEF Edits
    <3>. QED BY <3>1, <3>4, <3>6, <3>7, <3>8, <3>9 DEF T
  <2>. QED BY <2>1, <2>2
<1>8. /\ promised' \in [Suites -> SUBSET Entries] /\ Grows
      /\ promised[t] \subseteq promised'[t]
      /\ t \in doubt => Absent \in promised'[t]
  BY <1>1, <1>2, <1>5, ExposeIs
<1>9. t \notin doubt /\ op.old # Absent => Firm(T(t)', op.old, "final")
  BY <1>2, <1>7 DEF Steady
<1>10. Steady(T(t)', op.old, promised'[t], t \in doubt)
  BY <1>8, <1>9 DEF Steady
<1>11. op'.at \in Moves => S' = t /\ Changing(T(t)', op', promised'[t], t \in doubt)
  <2>1. op'.at \in Moves => op'.at = "undo" /\ SameCall /\ S' = t
    BY <1>6 DEF Moves
  <2>. QED BY <1>2, <1>8, <1>9, <2>1 DEF Changing, Unmoved, SameCall
<1>12. t = S' => Arrives(T(t)', op')
  BY <1>6, SuitesAssumption DEF Arrives, Writes, Writing, Written
<1>13. Promises(Found, T(t)', promised'[t], t)
  <2>1. t \notin doubt /\ op.old # Absent => AllHold(T(t)', op.old)
    BY <1>9, FirmHolds
  <2>2. \A r \in Found : r # Torn /\ r[t] \in Holds(T(t)') => r[t] \in Holds(T(t)) \/ r[t] \in promised'[t]
    BY <1>7
  <2>3. PICK e, Q : e = T(t)' /\ Q = promised'[t]
    OBVIOUS
  <2>4. Promises(Found, e, Q, S)
    BY <1>0, <1>1, <1>8, <2>1, <2>2, <2>3, StillPromised
  <2>. QED BY <1>1, <2>3, <2>4
<1>14. op'.at \in {"idle"} \cup Starts \cup Moves /\ S' \in {NoSuite, t}
  BY <1>6 DEF Moves, Starts
<1>. QED BY <1>0, <1>1, <1>2, <1>5, <1>6, <1>7, <1>8, <1>10, <1>11, <1>12, <1>13, <1>14, CallStep
     DEF memory, StateOK

LEMMA NothingToBuryKeeps ==
  ASSUME SuiteInv, NothingToBury
  PROVE  SuiteInv'
<1>0. op.at = "bury" /\ op.at \in Moves
  BY DEF NothingToBury, At, Moves
<1>1. PICK t \in Suites : t = S
  BY <1>0, CallIs
<1>2. /\ StateOK /\ configured /\ Maps(trees, Trees2, Entries)
      /\ Changing(T(t), op, promised[t], t \in doubt) /\ Promises(Found, T(t), promised[t], t)
  BY <1>0, <1>1, CallIs
<1>3. /\ op' = Idle /\ UNCHANGED <<trees, base, memory, wiped, promised, doubt, history>>
      /\ T(t).now["final"] = Absent
  <2>1. T(t).now["final"] = Tree("final")
    BY <1>1 DEF T, View, Of, Places, Tree
  <2>. QED BY <2>1 DEF NothingToBury
<1>4. op'.at = "idle" /\ S' = NoSuite /\ OpTypeOK' /\ CallInv'
  BY <1>2, <1>3, IdleIs DEF memory, StateOK
<1>5. Steady(T(t), op.old, promised[t], t \in doubt)
  BY <1>0, <1>2, <1>3 DEF Changing, Unmoved, Steady, Firm
<1>6. \A s \in Suites : Like(T(s), T(s)') /\ T(s)' = T(s)
  BY <1>3, LikeSelf DEF T
<1>7. Grows /\ t # S'
  BY <1>3, <1>4, SuitesAssumption DEF Grows
<1>8. op'.at \in {"idle"} \cup Starts \cup Moves /\ op'.at \notin Moves
  BY <1>4 DEF Starts, Moves
<1>. QED BY <1>0, <1>1, <1>2, <1>3, <1>4, <1>5, <1>6, <1>7, <1>8, CallStep
     DEF memory, history, StateOK

LEMMA MoveAsideKeeps ==
  ASSUME SuiteInv, BackUp \/ Bury
  PROVE  SuiteInv'
<1>0. op.at \in {"backup", "bury"} /\ op.at \in Moves
  BY DEF BackUp, Bury, At, Moves
<1>1. PICK t \in Suites : t = S
  BY <1>0, CallIs
<1>2. /\ StateOK /\ OpTypeOK /\ configured /\ Maps(trees, Trees2, Entries) /\ Maps(T(t), Places, Entries)
      /\ Changing(T(t), op, promised[t], t \in doubt) /\ Promises(Found, T(t), promised[t], t)
      /\ Arrives(T(t), op) /\ ~op.active
      /\ op.at = "backup" => op.call = "install" /\ op.kept
      /\ op.at = "bury" => op.call = "uninstall"
  <2>1. /\ ~op.active /\ op.at = "backup" => op.call = "install" /\ op.kept
        /\ ~op.active /\ op.at = "bury" => op.call = "uninstall"
        /\ ~op.active
    BY <1>0 DEF SuiteInv, CallInv, Writes, Writing, Written, At
  <2>. QED BY <1>0, <1>1, <2>1, CallIs
<1>3. /\ op'.at \in {"backup_sync", "bury_sync"} /\ OpTypeOK' /\ S' = t /\ op'.call = op.call
      /\ op'.old = op.old /\ op'.new = op.new /\ op'.active = op.active /\ op'.kept
      /\ op.at = "backup" => op'.at = "backup_sync"
      /\ op.at = "bury" => op'.at = "bury_sync"
  <2>1. CASE BackUp
    <3>1. op' = [op EXCEPT !.at = "backup_sync"] /\ op.at = "backup"
      BY <2>1 DEF BackUp, Goto, At
    <3>2. SameCall /\ SameRecords /\ op'.at = "backup_sync" /\ S' = S /\ OpTypeOK'
      BY <1>2, <3>1, AtOnly DEF Moves
    <3>. QED BY <1>1, <1>2, <3>1, <3>2 DEF SameCall
  <2>2. CASE Bury
    <3>1. op' = [op EXCEPT !.at = "bury_sync", !.kept = TRUE] /\ op.at = "bury"
      BY <2>2 DEF Bury, At
    <3>. QED BY <1>1, <1>2, <3>1 DEF OpTypeOK, S
  <2>. QED BY <2>1, <2>2
<1>4. PICK p : p = From(op')
  OBVIOUS
<1>5. /\ trees' = Rename(trees, <<t, "final">>, <<t, p>>)
      /\ UNCHANGED <<base, memory, wiped, promised, doubt, history>>
  <2>1. CASE BackUp
    <3>1. p = "backup"
      BY <1>2, <1>3, <1>4, <2>1 DEF BackUp, At, From
    <3>. QED BY <1>1, <2>1, <3>1 DEF BackUp, Moved
  <2>2. CASE Bury
    <3>1. p = "tombstone"
      BY <1>2, <1>3, <1>4, <2>2 DEF Bury, At, From
    <3>. QED BY <1>1, <2>2, <3>1 DEF Bury, Moved
  <2>. QED BY <2>1, <2>2
<1>6. CallInv'
  BY <1>0, <1>1, <1>2, <1>3, <1>5 DEF SuiteInv, CallInv, At, memory, Writes, Writing, Written,
     Starts, Calling, Moves, S
<1>7. /\ p \in Places /\ "final" \in Places /\ p # "stage" /\ "stage" \in Places /\ "final" \in Kept3
      /\ <<t, p>> \in Trees2 /\ <<t, "final">> \in Trees2 /\ Absent \in Entries
  BY <1>4 DEF From, Places, Trees2, Entries, Kept3
<1>8. PICK e : e = trees'
  OBVIOUS
<1>9. Renames(trees, e, Trees2, Entries, <<t, "final">>, <<t, p>>)
  BY <1>2, <1>5, <1>7, <1>8, RenameMaps
<1>10. /\ Renames(T(t), View(e, t), Places, Entries, "final", p)
       /\ \A s \in Suites \ {t} : Like(View(trees, s), View(e, s))
  BY <1>2, <1>7, <1>9, ViewRenames DEF T
<1>11. /\ Maps(trees', Trees2, Entries) /\ View(e, t) = T(t)'
       /\ \A s \in Suites \ {t} : Like(T(s), T(s)')
  BY <1>8, <1>9, <1>10 DEF Renames, T
<1>12. Holds(View(e, t)) \subseteq Holds(T(t))
  BY <1>2, <1>7, <1>10, RenameHolds
<1>13. View(e, t).now["stage"] = T(t).now["stage"]
  <2>1. Passes(T(t).now, View(e, t).now, "final", p, T(t).now["final"])
    BY <1>2, <1>7, <1>10, RenameNow
  <2>. QED BY <1>7, <2>1 DEF Passes
<1>14. ASSUME t \notin doubt, op.old # Absent PROVE Aside(T(t)', op')
  <2>1. Firm(T(t), op.old, "final")
    BY <1>0, <1>2, <1>14 DEF Changing, Unmoved
  <2>2. PICK o : o = op'
    OBVIOUS
  <2>3. /\ Renames(T(t), View(e, t), Places, Entries, "final", From(o)) /\ Firm(T(t), o.old, "final")
        /\ o.kept /\ ~o.active /\ o.at # "activate"
    BY <1>2, <1>3, <1>4, <1>10, <2>1, <2>2
  <2>4. Aside(View(e, t), o)
    BY <1>2, <2>3, PutAside
  <2>. QED BY <1>11, <2>2, <2>4
<1>15. Changing(T(t)', op', promised[t], t \in doubt)
  BY <1>2, <1>3, <1>14 DEF Changing, Unmoved
<1>16. Arrives(T(t)', op')
  BY <1>0, <1>2, <1>3, <1>11, <1>13 DEF Arrives, Writes, Writing, Written
<1>17. Promises(Found, T(t)', promised[t], t)
  <2>1. t \notin doubt /\ op.old # Absent => AllHold(T(t)', op'.old)
    BY <1>14, AsideHolds
  <2>2. t \in doubt => Absent \in promised[t]
    BY <1>2 DEF Changing
  <2>3. PICK Q : Q = promised[t]
    OBVIOUS
  <2>4. Promises(Found, View(e, t), Q, S)
    BY <1>0, <1>1, <1>3, <1>11, <1>12, <2>1, <2>2, <2>3, StillPromised
  <2>. QED BY <1>1, <1>11, <2>3, <2>4
<1>18. op'.at \in Moves /\ op'.at \notin Starts /\ op'.at # "idle" /\ Grows
  BY <1>3, <1>5 DEF Moves, Starts, Grows
<1>. QED BY <1>0, <1>1, <1>2, <1>3, <1>5, <1>6, <1>11, <1>15, <1>16, <1>17, <1>18, CallStep
     DEF memory, history, StateOK
LEMMA ActivateKeeps ==
  ASSUME SuiteInv, Activate
  PROVE  SuiteInv'
<1>0. op.at = "activate" /\ op.at \in Moves
  BY DEF Activate, At, Moves
<1>1. PICK t \in Suites : t = S
  BY <1>0, CallIs
<1>2. /\ StateOK /\ OpTypeOK /\ configured /\ Maps(trees, Trees2, Entries) /\ Maps(T(t), Places, Entries)
      /\ Changing(T(t), op, promised[t], t \in doubt) /\ Promises(Found, T(t), promised[t], t)
      /\ T(t).now["stage"] = op.new /\ op.call = "install" /\ op.new \in Entries
  <2>1. op.call = "install"
    BY <1>0 DEF SuiteInv, CallInv
  <2>2. Arrives(T(t), op)
    BY <1>0, <1>1, CallIs
  <2>. QED BY <1>0, <1>1, <2>1, <2>2, CallIs, OpIs DEF Arrives, Entries
<1>3. /\ trees' = Rename(trees, <<t, "stage">>, <<t, "final">>)
      /\ op' = [op EXCEPT !.at = "activate_sync", !.active = TRUE]
      /\ promised' = [promised EXCEPT ![t] = promised[t] \cup Matched]
      /\ UNCHANGED <<base, memory, wiped, doubt, history>>
  BY <1>1 DEF Activate, Moved
<1>4. /\ op'.at = "activate_sync" /\ OpTypeOK' /\ S' = t /\ op'.call = op.call /\ op'.old = op.old
      /\ op'.new = op.new /\ op'.active = TRUE /\ op'.kept = op.kept
  BY <1>1, <1>2, <1>3 DEF OpTypeOK, S
<1>5. CallInv'
  BY <1>0, <1>1, <1>2, <1>3, <1>4 DEF SuiteInv, CallInv, At, memory, Writes, Writing, Written,
     Starts, Calling, Moves, S
<1>6. /\ "stage" \in Places /\ "final" \in Places /\ <<t, "stage">> \in Trees2
      /\ <<t, "final">> \in Trees2 /\ Absent \in Entries
  BY DEF Places, Trees2, Entries
<1>7. PICK e : e = trees'
  OBVIOUS
<1>8. Renames(trees, e, Trees2, Entries, <<t, "stage">>, <<t, "final">>)
  BY <1>2, <1>3, <1>6, <1>7, RenameMaps
<1>9. /\ Renames(T(t), View(e, t), Places, Entries, "stage", "final")
      /\ \A s \in Suites \ {t} : Like(View(trees, s), View(e, s))
  BY <1>2, <1>6, <1>8, ViewRenames DEF T
<1>10. /\ Maps(trees', Trees2, Entries) /\ View(e, t) = T(t)'
       /\ \A s \in Suites \ {t} : Like(T(s), T(s)')
  BY <1>7, <1>8, <1>9 DEF Renames, T
<1>11. Holds(View(e, t)) \subseteq Holds(T(t)) \cup {op.new}
  <2>1. Holds(View(e, t)) \subseteq Holds(T(t)) \cup {T(t).now["stage"]}
    BY <1>2, <1>6, <1>9, RenameHolds
  <2>. QED BY <1>2, <2>1
<1>12. T(t)'.now["final"] = op.new
  <2>1. Passes(T(t).now, View(e, t).now, "stage", "final", T(t).now["stage"])
    BY <1>2, <1>6, <1>9, RenameNow
  <2>. QED BY <1>2, <1>6, <1>10, <2>1 DEF Passes
<1>13. ASSUME t \notin doubt, op.old # Absent PROVE Aside(T(t)', op')
  <2>1. Aside(T(t), op)
    BY <1>0, <1>2, <1>13 DEF Changing, Unmoved
  <2>2. PICK o, c : o = op /\ c = op'
    OBVIOUS
  <2>3. Aside(T(t), o) /\ o.at = "activate" /\ c.call = o.call /\ c.old = o.old /\ c.kept = o.kept
    BY <1>0, <1>4, <2>1, <2>2
  <2>4. Aside(View(e, t), c)
    BY <1>2, <1>9, <2>3, NewComes
  <2>. QED BY <1>10, <2>2, <2>4
<1>14. /\ promised' \in [Suites -> SUBSET Entries] /\ Grows /\ promised[t] \subseteq promised'[t]
       /\ Matched \subseteq promised'[t]
  <2>1. Matched \subseteq Entries
    BY <1>2 DEF Matched
  <2>. QED BY <1>2, <1>3, <2>1 DEF Grows, StateOK
<1>15. Changing(T(t)', op', promised'[t], t \in doubt)
  BY <1>2, <1>4, <1>13, <1>14 DEF Changing, Unmoved
<1>16. Arrives(T(t)', op')
  BY <1>4, <1>12 DEF Arrives, Writes, Writing, Written
<1>17. Promises(Found, T(t)', promised'[t], t)
  <2>1. t \notin doubt /\ op.old # Absent => AllHold(T(t)', op'.old)
    BY <1>13, AsideHolds
  <2>2. t \in doubt => Absent \in promised'[t]
    BY <1>2, <1>14 DEF Changing
  <2>3. PICK Q : Q = promised'[t]
    OBVIOUS
  <2>4. ASSUME NEW r \in Found, r # Torn, r[t] = op.new PROVE r[t] \in Q
    <3>1. op.new \in Matched
      BY <1>1, <2>4 DEF Found, Matched
    <3>. QED BY <1>14, <2>3, <2>4, <3>1
  <2>5. \A r \in Found : r # Torn /\ r[t] \in Holds(View(e, t)) => r[t] \in Holds(T(t)) \/ r[t] \in Q
    BY <1>11, <2>4
  <2>6. Promises(Found, View(e, t), Q, S)
    BY <1>0, <1>1, <1>4, <1>10, <1>14, <2>1, <2>2, <2>3, <2>5, StillPromised
  <2>. QED BY <1>1, <1>10, <2>3, <2>6
<1>18. op'.at \in Moves /\ op'.at \notin Starts /\ op'.at # "idle"
  BY <1>4 DEF Moves, Starts
<1>. QED BY <1>0, <1>1, <1>2, <1>3, <1>4, <1>5, <1>10, <1>14, <1>15, <1>16, <1>17, <1>18, CallStep
     DEF memory, history, StateOK

\* What is synchronized is aside for good.
LEMMA SyncedAside ==
  ASSUME NEW d, Maps(d, Trees2, Entries), NEW t \in Suites, NEW o, Aside(View(d, t), o),
         NEW c, c.call = o.call, c.old = o.old, c.kept = o.kept
  PROVE  Aside(View(Synced(d), t), c)
<1>1. PICK e : e = Synced(d)
  OBVIOUS
<1>2. Maps(e, Trees2, Entries) /\ e.now = d.now /\ e.disk = {d.now}
  BY <1>1, SyncedMaps
<1>3. /\ View(e, t).now = View(d, t).now
      /\ \A g \in View(e, t).disk : g = View(d, t).now
  BY <1>2, ViewMaps
<1>4. From(c) = From(o)
  BY DEF From
<1>. QED BY <1>1, <1>3, <1>4 DEF Aside

LEMMA SyncTreesKeeps ==
  ASSUME SuiteInv, SyncTrees
  PROVE  SuiteInv'
<1>0. op.at \in {"backup_sync", "activate_sync", "bury_sync"} /\ op.at \in Moves /\ op.at \in Going
  BY DEF SyncTrees, Moves, Going
<1>1. PICK t \in Suites : t = S
  BY <1>0, CallIs
<1>2. /\ StateOK /\ OpTypeOK /\ configured /\ Maps(trees, Trees2, Entries) /\ Maps(T(t), Places, Entries)
      /\ Changing(T(t), op, promised[t], t \in doubt) /\ Promises(Found, T(t), promised[t], t)
      /\ Arrives(T(t), op) /\ suites[t] = op.old /\ op.call \in Calling
  BY <1>0, <1>1, CallIs
<1>3. /\ trees' = Synced(trees)
      /\ UNCHANGED <<base, configured, wiped, promised, doubt, history>>
  BY DEF SyncTrees
<1>4. PICK A : A = [suites EXCEPT ![t] = op.new]
  OBVIOUS
<1>5. A \in Records /\ \A s \in Suites : A[s] = IF s = t THEN op.new ELSE suites[s]
  BY <1>2, <1>4, OpIs DEF StateOK, Records
<1>6. /\ SameCall /\ S' = t /\ OpTypeOK'
      /\ \/ op.at = "backup_sync" /\ op'.at = "activate" /\ suites' = suites /\ SameRecords
         \/ op.at # "backup_sync" /\ op'.at = "write" /\ suites' = A /\ op'.records = A
  <2>1. CASE op.at = "backup_sync"
    <3>1. op' = [op EXCEPT !.at = "activate"] /\ suites' = suites
      BY <2>1 DEF SyncTrees, At, Goto
    <3>2. SameCall /\ SameRecords /\ op'.at = "activate" /\ S' = S /\ OpTypeOK'
      BY <1>2, <3>1, AtOnly DEF Moves
    <3>. QED BY <1>1, <2>1, <3>1, <3>2
  <2>2. CASE op.at # "backup_sync"
    <3>1. op' = [op EXCEPT !.at = "write", !.records = A] /\ suites' = A
      BY <1>1, <1>4, <2>2 DEF SyncTrees, At
    <3>2. /\ SameCall /\ S' = t /\ OpTypeOK' /\ op'.at = "write" /\ op'.records = A
      BY <1>1, <1>2, <1>5, <3>1 DEF OpTypeOK, SameCall, S, Writes, Writing
    <3>. QED BY <2>2, <3>1, <3>2
  <2>. QED BY <2>1, <2>2
<1>7. CallInv'
  <2>1. CASE op.at = "backup_sync"
    BY <1>1, <1>2, <1>3, <1>6, <2>1 DEF SuiteInv, CallInv, SameCall, At, Writes, Writing, Written,
       Starts, Calling, Moves
  <2>2. CASE op.at # "backup_sync"
    BY <1>0, <1>1, <1>2, <1>3, <1>5, <1>6, <2>2 DEF SuiteInv, CallInv, SameCall, At, Writes, Writing, Written,
       Starts, Calling, Moves
  <2>. QED BY <2>1, <2>2
<1>8. Maps(trees', Trees2, Entries) /\ \A s \in Suites : Like(T(s), T(s)') /\ T(s)'.now = T(s).now
  BY <1>2, <1>3, SyncedMaps, ViewSynced DEF T
<1>9. Before' = Before
  <2>1. op.at \notin Writing
    BY <1>0 DEF Writing
  <2>2. \A s \in Suites : (IF s = S' /\ op'.at \in Writing THEN op'.old ELSE suites'[s]) = suites[s]
    BY <1>1, <1>2, <1>5, <1>6 DEF SameCall, Writing
  <2>3. \A s \in Suites : (IF s = S /\ op.at \in Writing THEN op.old ELSE suites[s]) = suites[s]
    BY <2>1
  <2>. QED BY <2>2, <2>3 DEF Before
<1>10. Untouched' /\ Grows
  BY <1>3 DEF SuiteInv, Untouched, Found, Grows
<1>11. ASSUME t \notin doubt, op.old # Absent PROVE Aside(T(t)', op')
  <2>1. Aside(T(t), op)
    BY <1>0, <1>2, <1>11 DEF Changing, Unmoved
  <2>2. PICK o, c : o = op /\ c = op'
    OBVIOUS
  <2>3. Aside(View(trees, t), o) /\ c.call = o.call /\ c.old = o.old /\ c.kept = o.kept
    BY <1>6, <2>1, <2>2 DEF SameCall, T
  <2>4. Aside(View(Synced(trees), t), c)
    BY <1>2, <2>3, SyncedAside
  <2>. QED BY <1>3, <2>2, <2>4 DEF T
<1>12. Touched(t)' /\ Changing(T(t)', op', promised[t], t \in doubt)
  BY <1>2, <1>6, <1>11 DEF Changing, Unmoved, SameCall, Touched, Starts, Written
<1>13. Arrives(T(t)', op')
  <2>1. CASE op'.at = "activate"
    BY <1>2, <1>6, <1>8, <2>1 DEF Arrives, SameCall, Writes, Writing, Written
  <2>2. CASE op'.at = "write" /\ op.call = "install"
    <3>1. op.at = "activate_sync"
      BY <1>0, <1>6, <2>2 DEF SuiteInv, CallInv
    <3>2. T(t).now["final"] = op.new
      BY <1>2, <2>2, <3>1 DEF Arrives
    <3>3. \A g \in T(t)'.disk : g = T(t).now
      <4>1. PICK e : e = trees'
        OBVIOUS
      <4>2. Maps(e, Trees2, Entries) /\ e.disk = {trees.now}
        BY <1>2, <1>3, <4>1, SyncedMaps
      <4>3. \A g \in View(e, t).disk : \E h \in e.disk : g = Of(h, t)
        BY <4>2, ViewMaps
      <4>. QED BY <4>1, <4>2, <4>3 DEF T, View
    <3>. QED BY <1>6, <2>2, <3>2, <3>3 DEF Arrives, SameCall
  <2>3. CASE op.call # "install"
    BY <1>6, <2>3 DEF Arrives, SameCall
  <2>. QED BY <1>6, <2>1, <2>2, <2>3
<1>14. Promises(Found, T(t)', promised[t], t)
  BY <1>2, <1>8, PromisesLike
<1>15. /\ op'.at \in {"idle", "write", "data"} \cup Starts \cup Moves /\ op'.at # "data"
       /\ suites' \in Records /\ \A s \in Suites \ {t} : suites'[s] = suites[s]
  BY <1>2, <1>5, <1>6 DEF Moves, StateOK
<1>. QED BY <1>0, <1>1, <1>2, <1>3, <1>6, <1>7, <1>8, <1>9, <1>10, <1>12, <1>13, <1>14, <1>15, TreeStep
     DEF history, StateOK
LEMMA RenameFailsKeeps ==
  ASSUME SuiteInv, RenameFails
  PROVE  SuiteInv'
<1>0. op.at \in {"backup", "activate", "bury"} /\ op.at \in Moves
  BY DEF RenameFails, Moves
<1>1. PICK t \in Suites : t = S
  BY <1>0, CallIs
<1>2. /\ StateOK /\ OpTypeOK /\ configured /\ Maps(trees, Trees2, Entries)
      /\ Changing(T(t), op, promised[t], t \in doubt) /\ Promises(Found, T(t), promised[t], t)
      /\ ~op.active /\ op.kept \in BOOLEAN
  <2>1. ~op.active
    BY <1>0 DEF SuiteInv, CallInv, Writes, Writing, Written
  <2>. QED BY <1>0, <1>1, <2>1, CallIs, OpIs
<1>3. /\ UNCHANGED <<trees, base, memory, wiped, promised, doubt>>
      /\ calls' \in Nat /\ faults' \in Nat /\ crashes' \in Nat
  BY <1>2 DEF RenameFails, Fault, Faults, StateOK
<1>4. /\ OpTypeOK' /\ CallInv'
      /\ \/ op.at = "bury" /\ op'.at = "idle" /\ S' = NoSuite
         \/ /\ op.at # "bury" /\ op'.at = "undo" /\ S' = t /\ op'.call = op.call /\ op'.old = op.old
            /\ op'.active = op.active /\ (op'.kept <=> op.kept /\ op.at = "activate")
  <2>1. CASE op.at = "bury"
    <3>1. op' = Idle /\ configured' = TRUE
      BY <1>2, <1>3, <2>1 DEF RenameFails, At, memory, StateOK
    <3>. QED BY <2>1, <3>1, IdleIs
  <2>2. CASE op.at # "bury"
    <3>1. PICK b \in BOOLEAN : b = (op.kept /\ op.at = "activate")
      OBVIOUS
    <3>2. op' = [op EXCEPT !.at = "undo", !.kept = b]
      BY <2>2, <3>1 DEF RenameFails, At
    <3>3. /\ op'.at = "undo" /\ S' = t /\ op'.call = op.call /\ op'.old = op.old /\ op'.new = op.new
          /\ op'.active = op.active /\ op'.kept = b /\ OpTypeOK'
      BY <1>1, <1>2, <3>2 DEF OpTypeOK, S
    <3>4. CallInv'
      BY <1>0, <1>1, <1>2, <1>3, <3>3 DEF SuiteInv, CallInv, At, memory, Writes, Writing, Written,
         Starts, Calling, Moves, S
    <3>. QED BY <2>2, <3>1, <3>3, <3>4
  <2>. QED BY <2>1, <2>2
<1>5. \A s \in Suites : Like(T(s), T(s)') /\ T(s)' = T(s)
  BY <1>3, LikeSelf DEF T
<1>6. op.at = "bury" => Steady(T(t), op.old, promised[t], t \in doubt)
  BY <1>2 DEF Changing, Unmoved, Steady
<1>7. ASSUME op.at # "bury" PROVE Changing(T(t), op', promised[t], t \in doubt)
  <2>1. CASE op.at = "backup"
    BY <1>2, <1>4, <2>1 DEF Changing, Unmoved
  <2>2. CASE op.at = "activate"
    <3>1. Aside(T(t), op) => op.kept /\ Aside(T(t), op')
      BY <1>2, <1>4, <2>2, AsideStays DEF Aside
    <3>. QED BY <1>2, <1>4, <2>2, <3>1 DEF Changing, Unmoved
  <2>. QED BY <1>0, <1>7, <2>1, <2>2
<1>8. Grows /\ (t = S' => Arrives(T(t), op'))
  BY <1>3, <1>4, SuitesAssumption DEF Grows, Arrives, Writes, Writing, Written
<1>9. /\ op'.at \in {"idle"} \cup Starts \cup Moves /\ S' \in {NoSuite, t}
      /\ op'.at \in Moves => op.at # "bury" /\ S' = t
      /\ op'.at \in {"idle"} \cup Starts => op.at = "bury"
  BY <1>4 DEF Starts, Moves
<1>. QED BY <1>0, <1>1, <1>2, <1>3, <1>4, <1>5, <1>6, <1>7, <1>8, <1>9, CallStep
     DEF memory, StateOK

LEMMA SyncTreesFailsKeeps ==
  ASSUME SuiteInv, SyncTreesFails
  PROVE  SuiteInv'
<1>0. op.at \in {"backup_sync", "activate_sync", "bury_sync"} /\ op.at \in Moves
  BY DEF SyncTreesFails, Moves
<1>1. PICK t \in Suites : t = S
  BY <1>0, CallIs
<1>2. /\ StateOK /\ OpTypeOK /\ configured /\ Maps(trees, Trees2, Entries)
      /\ Changing(T(t), op, promised[t], t \in doubt) /\ Promises(Found, T(t), promised[t], t)
  BY <1>0, <1>1, CallIs
<1>3. /\ trees' = trees \/ trees' = Synced(trees)
      /\ op' = [op EXCEPT !.at = "undo"] /\ UNCHANGED <<base, memory, wiped, promised, doubt>>
      /\ calls' \in Nat /\ faults' \in Nat /\ crashes' \in Nat
  BY <1>2 DEF SyncTreesFails, Goto, Fault, Faults, StateOK
<1>4. SameCall /\ SameRecords /\ op'.at = "undo" /\ S' = t /\ OpTypeOK'
  BY <1>1, <1>2, <1>3, AtOnly DEF Moves
<1>5. CallInv'
  BY <1>0, <1>1, <1>2, <1>3, <1>4 DEF SuiteInv, CallInv, SameCall, At, memory, Writes, Writing, Written,
     Starts, Calling, Moves
<1>6. Maps(trees', Trees2, Entries) /\ \A s \in Suites : Like(T(s), T(s)')
  <2>1. CASE trees' = trees
    BY <1>2, <2>1, LikeSelf DEF T
  <2>2. CASE trees' = Synced(trees)
    BY <1>2, <2>2, SyncedMaps, ViewSynced DEF T
  <2>. QED BY <1>3, <2>1, <2>2
<1>7. ASSUME t \notin doubt, op.old # Absent PROVE Aside(T(t)', op') /\ op'.kept
  <2>1. Aside(T(t), op)
    BY <1>0, <1>2, <1>7 DEF Changing, Unmoved
  <2>2. PICK o : o = op
    OBVIOUS
  <2>3. Aside(T(t)', o)
    BY <1>6, <2>1, <2>2, LikeAside
  <2>4. PICK c : c = op'
    OBVIOUS
  <2>5. /\ c.call = o.call /\ c.old = o.old /\ c.kept = o.kept /\ c.active = o.active
        /\ c.at # "activate"
    BY <1>4, <2>2, <2>4 DEF SameCall
  <2>6. Aside(T(t)', c)
    BY <2>3, <2>5, AsideStays
  <2>. QED BY <2>4, <2>6 DEF Aside
<1>8. Changing(T(t)', op', promised[t], t \in doubt)
  BY <1>2, <1>4, <1>7 DEF Changing, Unmoved, SameCall
<1>9. Arrives(T(t)', op') /\ Grows
  BY <1>3, <1>4 DEF Arrives, Writes, Writing, Written, Grows
<1>10. Promises(Found, T(t)', promised[t], t)
  BY <1>2, <1>6, PromisesLike
<1>11. op'.at \in Moves /\ op'.at \notin Starts /\ op'.at # "idle"
  BY <1>4 DEF Moves, Starts
<1>. QED BY <1>0, <1>1, <1>2, <1>3, <1>4, <1>5, <1>6, <1>8, <1>9, <1>10, <1>11, CallStep
     DEF memory, StateOK

LEMMA UndoSyncKeeps ==
  ASSUME SuiteInv, UndoSync
  PROVE  SuiteInv'
<1>0. op.at = "undo_sync" /\ op.at \in Moves
  BY DEF UndoSync, At, Moves
<1>1. PICK t \in Suites : t = S
  BY <1>0, CallIs
<1>2. /\ StateOK /\ configured /\ Maps(trees, Trees2, Entries)
      /\ Changing(T(t), op, promised[t], t \in doubt) /\ Promises(Found, T(t), promised[t], t)
  BY <1>0, <1>1, CallIs
<1>3. /\ trees' = trees \/ trees' = Synced(trees)
      /\ op' = Idle /\ UNCHANGED <<base, memory, wiped, promised, doubt>>
      /\ calls' \in Nat /\ faults' \in Nat /\ crashes' \in Nat
  BY <1>2 DEF UndoSync, Fault, Faults, history, StateOK
<1>4. op'.at = "idle" /\ S' = NoSuite /\ OpTypeOK' /\ CallInv'
  BY <1>2, <1>3, IdleIs DEF memory, StateOK
<1>5. Maps(trees', Trees2, Entries) /\ \A s \in Suites : Like(T(s), T(s)')
  <2>1. CASE trees' = trees
    BY <1>2, <2>1, LikeSelf DEF T
  <2>2. CASE trees' = Synced(trees)
    BY <1>2, <2>2, SyncedMaps, ViewSynced DEF T
  <2>. QED BY <1>3, <2>1, <2>2
<1>6. Steady(T(t), op.old, promised[t], t \in doubt)
  BY <1>0, <1>2 DEF Changing, Unmoved, Steady
<1>7. Steady(T(t)', op.old, promised[t], t \in doubt)
  BY <1>5, <1>6, SteadyKept
<1>8. Promises(Found, T(t)', promised[t], t)
  BY <1>2, <1>5, PromisesLike
<1>9. Grows /\ t # S'
  BY <1>3, <1>4, SuitesAssumption DEF Grows
<1>10. op'.at \in {"idle"} \cup Starts \cup Moves /\ op'.at \notin Moves
  BY <1>4 DEF Starts, Moves
<1>. QED BY <1>0, <1>1, <1>2, <1>3, <1>4, <1>5, <1>7, <1>8, <1>9, <1>10, CallStep
     DEF memory, StateOK

\* Without the new version ...
LEMMA WithdrawnIs ==
  ASSUME SuiteInv, At("undo"), NEW t \in Suites, t = S, NEW d, d = Withdrawn(trees)
  PROVE  /\ Maps(d, Trees2, Entries) /\ \A s \in Suites \ {t} : Like(T(s), View(d, s))
         /\ Holds(View(d, t)) \subseteq Holds(T(t))
         /\ Aside(T(t), op) => Aside(View(d, t), op)
         /\ ~op.active => d = trees
<1>0. op.at = "undo" /\ op.at \in Moves /\ "final" \in Places
  BY DEF At, Moves, Places
<1>1. Maps(trees, Trees2, Entries)
  BY <1>0, CallIs
<1>2. CASE op.active
  <2>1. d = RemoveTree(trees, <<t, "final">>)
    BY <1>2 DEF Withdrawn
  <2>2. Cut(trees, d, t, "final")
    BY <1>0, <1>1, <2>1, RemoveCut
  <2>. QED BY <1>2, <2>2 DEF Cut, T
<1>3. CASE ~op.active
  <2>1. d = trees
    BY <1>3 DEF Withdrawn
  <2>. QED BY <1>1, <2>1, LikeSelf DEF T
<1>. QED BY <1>2, <1>3

\* ... and with the old one back.
LEMMA RestoredIs ==
  ASSUME SuiteInv, At("undo"), NEW t \in Suites, t = S, NEW d, d = Restored(trees)
  PROVE  /\ Maps(d, Trees2, Entries) /\ \A s \in Suites \ {t} : Like(T(s), View(d, s))
         /\ Holds(View(d, t)) \subseteq Holds(T(t))
         /\ Aside(T(t), op) => Firm(View(d, t), op.old, "final")
         /\ ~op.kept /\ ~op.active => d = trees
<1>1. PICK w : w = Withdrawn(trees)
  OBVIOUS
<1>2. /\ Maps(w, Trees2, Entries) /\ \A s \in Suites \ {t} : Like(T(s), View(w, s))
      /\ Holds(View(w, t)) \subseteq Holds(T(t))
      /\ Aside(T(t), op) => Aside(View(w, t), op)
      /\ ~op.active => w = trees
  BY <1>1, WithdrawnIs
<1>3. CASE ~op.kept
  <2>1. d = w
    BY <1>1, <1>3 DEF Restored
  <2>. QED BY <1>2, <1>3, <2>1 DEF Aside
<1>4. CASE op.kept
  <2>1. PICK p : p = From(op)
    OBVIOUS
  <2>2. d = Rename(w, <<t, p>>, <<t, "final">>)
    BY <1>1, <1>4, <2>1 DEF Restored, Moved, From
  <2>3. /\ p \in Places /\ "final" \in Places /\ p \in Kept3 /\ <<t, p>> \in Trees2
        /\ <<t, "final">> \in Trees2 /\ Absent \in Entries
    BY <2>1 DEF From, Places, Kept3, Trees2, Entries
  <2>4. Renames(w, d, Trees2, Entries, <<t, p>>, <<t, "final">>)
    BY <1>2, <2>2, <2>3, RenameMaps
  <2>5. /\ Renames(View(w, t), View(d, t), Places, Entries, p, "final")
        /\ \A s \in Suites \ {t} : Like(View(w, s), View(d, s))
    BY <1>2, <2>3, <2>4, ViewRenames
  <2>6. Maps(View(w, t), Places, Entries)
    BY <1>2, ViewMaps
  <2>7. Holds(View(d, t)) \subseteq Holds(View(w, t))
    BY <2>3, <2>5, <2>6, RenameHolds
  <2>8. PICK o : o = op
    OBVIOUS
  <2>9. Renames(View(w, t), View(d, t), Places, Entries, From(o), "final")
    BY <2>1, <2>5, <2>8
  <2>10. Aside(View(w, t), o) => Firm(View(d, t), o.old, "final")
    BY <2>6, <2>9, AsideBack
  <2>11. \A s \in Suites \ {t} : Like(T(s), View(d, s))
    BY <1>2, <2>5, LikeTwice
  <2>12. Maps(d, Trees2, Entries)
    BY <2>4 DEF Renames
  <2>. QED BY <1>2, <1>4, <2>7, <2>8, <2>10, <2>11, <2>12
<1>. QED BY <1>3, <1>4
\* What is staged goes too.
LEMMA Unstaged ==
  ASSUME NEW d, Maps(d, Trees2, Entries), NEW t \in Suites, NEW e, e = RemoveTree(d, <<t, "stage">>)
  PROVE  Maps(e, Trees2, Entries) /\ \A s \in Suites : Like(View(d, s), View(e, s))
<1>1. "stage" \in Places
  BY DEF Places
<1>2. Cut(d, e, t, "stage")
  BY <1>1, RemoveCut
<1>. QED BY <1>2 DEF Cut

LEMMA UndoSucceeds ==
  ASSUME SuiteInv, At("undo"), trees' = RemoveTree(Restored(trees), <<S, "stage">>),
         IF op.kept \/ op.active THEN Goto("undo_sync") ELSE op' = Idle,
         UNCHANGED <<base, memory, wiped, promised, doubt, history>>
  PROVE  SuiteInv'
<1>0. op.at = "undo" /\ op.at \in Moves
  BY DEF At, Moves
<1>1. PICK t \in Suites : t = S
  BY <1>0, CallIs
<1>2. /\ StateOK /\ OpTypeOK /\ configured
      /\ Changing(T(t), op, promised[t], t \in doubt) /\ Promises(Found, T(t), promised[t], t)
  BY <1>0, <1>1, CallIs
<1>3. PICK d : d = Restored(trees)
  OBVIOUS
<1>4. /\ Maps(d, Trees2, Entries) /\ \A s \in Suites \ {t} : Like(T(s), View(d, s))
      /\ Holds(View(d, t)) \subseteq Holds(T(t))
      /\ Aside(T(t), op) => Firm(View(d, t), op.old, "final")
      /\ ~op.kept /\ ~op.active => d = trees
  BY <1>1, <1>3, RestoredIs
<1>5. PICK e : e = trees'
  OBVIOUS
<1>6. Maps(e, Trees2, Entries) /\ \A s \in Suites : Like(View(d, s), View(e, s))
  <2>1. e = RemoveTree(d, <<t, "stage">>)
    BY <1>1, <1>3, <1>5
  <2>. QED BY <1>4, <2>1, Unstaged
<1>7. /\ Maps(trees', Trees2, Entries) /\ View(e, t) = T(t)'
      /\ \A s \in Suites \ {t} : Like(T(s), T(s)')
  <2>1. \A s \in Suites \ {t} : Like(T(s), View(e, s))
    BY <1>4, <1>6, LikeTwice
  <2>. QED BY <1>5, <1>6, <2>1 DEF T
<1>8. Holds(View(e, t)) \subseteq Holds(T(t))
  BY <1>4, <1>6, LikeHeld
<1>9. ASSUME t \notin doubt, op.old # Absent PROVE Firm(View(e, t), op.old, "final")
  <2>1. (Firm(T(t), op.old, "final") /\ ~op.kept /\ ~op.active) \/ Aside(T(t), op)
    BY <1>0, <1>2, <1>9 DEF Changing, Unmoved
  <2>2. Firm(View(d, t), op.old, "final")
    BY <1>4, <2>1 DEF T
  <2>3. PICK v : v = op.old
    OBVIOUS
  <2>4. Firm(View(d, t), v, "final") /\ "final" \in Kept3 /\ Like(View(d, t), View(e, t))
    BY <1>6, <2>2, <2>3 DEF Kept3
  <2>5. Firm(View(e, t), v, "final")
    BY <2>4, LikeFirm
  <2>. QED BY <2>3, <2>5
<1>10. t \in doubt => Absent \in promised[t]
  BY <1>2 DEF Changing
<1>11. /\ OpTypeOK' /\ CallInv'
       /\ \/ op'.at = "undo_sync" /\ SameCall /\ S' = t
          \/ op'.at = "idle" /\ S' = NoSuite
  <2>1. CASE op.kept \/ op.active
    <3>1. op' = [op EXCEPT !.at = "undo_sync"]
      BY <2>1 DEF Goto
    <3>2. SameCall /\ SameRecords /\ op'.at = "undo_sync" /\ S' = S /\ OpTypeOK'
      BY <1>2, <3>1, AtOnly DEF Moves
    <3>3. CallInv'
      BY <1>0, <1>1, <1>2, <3>2 DEF SuiteInv, CallInv, SameCall, At, memory, Writes,
         Writing, Written, Starts, Calling, Moves
    <3>. QED BY <1>1, <3>2, <3>3
  <2>2. CASE ~(op.kept \/ op.active)
    <3>1. op' = Idle /\ configured' = TRUE
      BY <1>2, <2>2 DEF memory, StateOK
    <3>. QED BY <3>1, IdleIs
  <2>. QED BY <2>1, <2>2
<1>12. Steady(T(t)', op.old, promised[t], t \in doubt)
  BY <1>7, <1>9, <1>10 DEF Steady
<1>13. op'.at \in Moves => S' = t /\ Changing(T(t)', op', promised[t], t \in doubt)
  <2>1. op'.at \in Moves => op'.at = "undo_sync" /\ SameCall /\ S' = t
    BY <1>11 DEF Moves
  <2>. QED BY <1>7, <1>9, <1>10, <2>1 DEF Changing, Unmoved, SameCall
<1>14. (t = S' => Arrives(T(t)', op')) /\ Grows
  BY <1>11, SuitesAssumption DEF Arrives, Writes, Writing, Written, Grows
<1>15. Promises(Found, T(t)', promised[t], t)
  <2>1. t \notin doubt /\ op.old # Absent => AllHold(View(e, t), op.old)
    BY <1>9, FirmHolds
  <2>2. PICK Q : Q = promised[t]
    OBVIOUS
  <2>3. Promises(Found, View(e, t), Q, S)
    BY <1>0, <1>1, <1>8, <1>10, <2>1, <2>2, StillPromised
  <2>. QED BY <1>1, <1>7, <2>2, <2>3
<1>16. op'.at \in {"idle"} \cup Starts \cup Moves /\ S' \in {NoSuite, t}
  BY <1>11 DEF Moves, Starts
<1>. QED BY <1>0, <1>1, <1>2, <1>7, <1>11, <1>12, <1>13, <1>14, <1>15, <1>16, CallStep
     DEF memory, history, StateOK

LEMMA UndoFails ==
  ASSUME SuiteInv, At("undo"), Fault, op' = Idle,
         \E d \in {trees, Withdrawn(trees)} : trees' \in {d, RemoveTree(d, <<S, "stage">>)},
         doubt' = IF op.kept \/ op.active THEN doubt \cup {S} ELSE doubt,
         UNCHANGED <<base, memory, wiped, promised>>
  PROVE  SuiteInv'
<1>0. op.at = "undo" /\ op.at \in Moves
  BY DEF At, Moves
<1>1. PICK t \in Suites : t = S
  BY <1>0, CallIs
<1>2. /\ StateOK /\ OpTypeOK /\ configured /\ Maps(trees, Trees2, Entries)
      /\ Changing(T(t), op, promised[t], t \in doubt) /\ Promises(Found, T(t), promised[t], t)
      /\ calls' \in Nat /\ faults' \in Nat /\ crashes' \in Nat
  BY <1>0, <1>1, CallIs DEF Fault, Faults, StateOK
<1>3. PICK d \in {trees, Withdrawn(trees)} : trees' \in {d, RemoveTree(d, <<t, "stage">>)}
  BY <1>1
<1>4. /\ Maps(d, Trees2, Entries) /\ \A s \in Suites \ {t} : Like(T(s), View(d, s))
      /\ Holds(View(d, t)) \subseteq Holds(T(t))
      /\ Aside(T(t), op) => Aside(View(d, t), op)
      /\ ~op.active => d = trees
  <2>1. CASE d = trees
    BY <1>2, <2>1, LikeSelf DEF T
  <2>2. CASE d = Withdrawn(trees)
    BY <1>1, <2>2, WithdrawnIs
  <2>. QED BY <2>1, <2>2
<1>5. PICK e : e = trees'
  OBVIOUS
<1>6. Maps(e, Trees2, Entries) /\ \A s \in Suites : Like(View(d, s), View(e, s))
  <2>1. CASE e = d
    BY <1>4, <2>1, LikeSelf
  <2>2. CASE e = RemoveTree(d, <<t, "stage">>)
    BY <1>4, <2>2, Unstaged
  <2>. QED BY <1>3, <1>5, <2>1, <2>2
<1>7. /\ Maps(trees', Trees2, Entries) /\ View(e, t) = T(t)'
      /\ \A s \in Suites \ {t} : Like(T(s), T(s)')
  <2>1. \A s \in Suites \ {t} : Like(T(s), View(e, s))
    BY <1>4, <1>6, LikeTwice
  <2>. QED BY <1>5, <1>6, <2>1 DEF T
<1>8. Holds(View(e, t)) \subseteq Holds(T(t))
  BY <1>4, <1>6, LikeHeld
<1>9. ASSUME t \notin doubt, op.old # Absent
      PROVE  /\ AllHold(View(e, t), op.old)
             /\ ~op.kept /\ ~op.active => Firm(View(e, t), op.old, "final")
  <2>0. PICK v : v = op.old
    OBVIOUS
  <2>1. CASE ~op.kept /\ ~op.active
    <3>1. Firm(View(d, t), v, "final") /\ "final" \in Kept3
      BY <1>0, <1>2, <1>4, <1>9, <2>0, <2>1 DEF Changing, Unmoved, T, Kept3
    <3>2. Firm(View(e, t), v, "final")
      BY <1>6, <3>1, LikeFirm
    <3>. QED BY <2>0, <3>2, FirmHolds
  <2>2. CASE op.kept \/ op.active
    <3>1. Aside(T(t), op)
      BY <1>0, <1>2, <1>9, <2>2 DEF Changing, Unmoved
    <3>2. AllHold(View(d, t), v)
      BY <1>4, <2>0, <3>1, AsideHolds
    <3>3. AllHold(View(e, t), v)
      BY <1>6, <3>2, LikeHeld
    <3>. QED BY <2>0, <2>2, <3>3
  <2>. QED BY <2>1, <2>2
<1>10. t \in doubt => Absent \in promised[t]
  BY <1>2 DEF Changing
<1>11. op'.at = "idle" /\ S' = NoSuite /\ OpTypeOK' /\ CallInv'
  BY <1>2, IdleIs DEF memory, StateOK
<1>12. /\ doubt \subseteq doubt' /\ doubt' \subseteq doubt \cup {t}
       /\ t \notin doubt' => t \notin doubt /\ ~op.kept /\ ~op.active
  BY <1>1
<1>13. Steady(T(t)', op.old, promised[t], t \in doubt')
  BY <1>7, <1>9, <1>10, <1>12 DEF Steady
<1>14. t # S' /\ Grows
  BY <1>11, SuitesAssumption DEF Grows
<1>15. Promises(Found, T(t)', promised[t], t)
  <2>1. t \notin doubt /\ op.old # Absent => AllHold(View(e, t), op.old)
    BY <1>9
  <2>2. PICK Q : Q = promised[t]
    OBVIOUS
  <2>3. Promises(Found, View(e, t), Q, S)
    BY <1>0, <1>1, <1>8, <1>10, <2>1, <2>2, StillPromised
  <2>. QED BY <1>1, <1>7, <2>2, <2>3
<1>16. op'.at \in {"idle"} \cup Starts \cup Moves /\ op'.at \notin Moves
  BY <1>11 DEF Moves, Starts
<1>. QED BY <1>0, <1>1, <1>2, <1>7, <1>11, <1>12, <1>13, <1>14, <1>15, <1>16, CallStep
     DEF memory, StateOK

LEMMA UndoKeeps ==
  ASSUME SuiteInv, Undo
  PROVE  SuiteInv'
<1>1. CASE Fault /\ op' = Idle /\ \E d \in {trees, Withdrawn(trees)} :
                trees' \in {d, RemoveTree(d, <<S, "stage">>)}
  <2>1. CASE doubt' = IF op.kept \/ op.active THEN doubt \cup {S} ELSE doubt
    BY <1>1, <2>1, UndoFails DEF Undo
  <2>2. CASE trees' = RemoveTree(Restored(trees), <<S, "stage">>) /\ UNCHANGED <<doubt, history>>
             /\ IF op.kept \/ op.active THEN Goto("undo_sync") ELSE op' = Idle
    <3>1. UNCHANGED <<base, memory, wiped, promised, doubt, history>> /\ At("undo")
      BY <2>2 DEF Undo
    <3>. QED BY <2>2, <3>1, UndoSucceeds
  <2>. QED BY <2>1, <2>2 DEF Undo
<1>2. CASE trees' = RemoveTree(Restored(trees), <<S, "stage">>) /\ UNCHANGED <<doubt, history>>
           /\ IF op.kept \/ op.active THEN Goto("undo_sync") ELSE op' = Idle
  <2>1. UNCHANGED <<base, memory, wiped, promised, doubt, history>> /\ At("undo")
    BY <1>2 DEF Undo
  <2>. QED BY <1>2, <2>1, UndoSucceeds
<1>. QED BY <1>1, <1>2 DEF Undo

-----------------------------------------------------------------------------
(***************************************************************************)
(* After the commit.                                                       *)
(***************************************************************************)
LEMMA WrittenIs ==
  ASSUME SuiteInv, op.at \in Written
  PROVE  /\ \A r \in Found : r = op.records
         /\ Now = op.records /\ op.records \in Records /\ op.records # Torn
<1>1. /\ op.records \in Records /\ \A f \in base.disk : f["db"] = op.records
      /\ Maps(base, Root, Databases)
  BY OpIs DEF SuiteInv, BaseInv, StateOK
<1>2. Whole(op.records) /\ op.records # Torn
  BY <1>1, RecordsWhole
<1>3. \A r \in Found : r = op.records
  BY <1>1, <1>2, BaseMaps, LoadedIs DEF Found
<1>. QED BY <1>1, <1>2, <1>3, FoundTypes

LEMMA CleanUpConfigure ==
  ASSUME SuiteInv, CleanUp, op.call = "configure"
  PROVE  SuiteInv'
<1>0. /\ StateOK /\ OpTypeOK /\ op.at = "cleanup" /\ ~configured /\ Maps(trees, Trees2, Entries)
  BY DEF SuiteInv, CleanUp, At, CallInv, StateOK, Trees2
<1>1. /\ trees' = trees /\ op' = [op EXCEPT !.at = "sweep"]
      /\ UNCHANGED <<base, memory, wiped, promised, doubt, history>>
  BY DEF CleanUp, Goto
<1>2. SameCall /\ SameRecords /\ op'.at = "sweep" /\ OpTypeOK'
  BY <1>0, <1>1 DEF OpTypeOK, SameCall, SameRecords
<1>3. op.records = Now
  BY <1>0 DEF SuiteInv, LoadInv
<1>4. ASSUME NEW s \in Suites
      PROVE  Recoverable(s)' /\ Recorded(s)' /\ Promises(Found, T(s)', promised[s], s)
  <2>1. T(s)' = T(s) /\ Now' = Now /\ Recoverable(s) /\ Recorded(s) /\ Promises(Found, T(s), promised[s], s)
    BY <1>0, <1>1 DEF T, Now, SuiteInv, RecoveryInv, Promised
  <2>2. Recoverable(s)'
    BY <2>1 DEF Recoverable
  <2>3. Recorded(s)'
    BY <1>0, <1>2, <2>1 DEF Recorded, At, SameRecords
  <2>. QED BY <2>1, <2>2, <2>3
<1>5. \A s \in Suites : op'.records[s] \in {Now[s], Absent}
  BY <1>2, <1>3 DEF SameRecords
<1>. QED BY <1>0, <1>1, <1>2, <1>3, <1>4, <1>5, RecoverStep DEF memory, history, SameRecords, StateOK

LEMMA CleanUpKeeps ==
  ASSUME SuiteInv, CleanUp
  PROVE  SuiteInv'
<1>1. CASE op.call = "configure"
  BY <1>1, CleanUpConfigure
<1>2. CASE op.call # "configure"
  <2>0. /\ StateOK /\ OpTypeOK /\ op.at = "cleanup" /\ configured /\ Maps(trees, Trees2, Entries)
        /\ op.at \in Written /\ op.at \in Going /\ ~Touched(S)
    BY <1>2 DEF SuiteInv, CleanUp, At, CallInv, StateOK, Trees2, Written, Going, Touched
  <2>1. PICK p : p = From(op)
    OBVIOUS
  <2>2. p \in {"backup", "tombstone"} /\ p \in Places /\ p # "final" /\ "final" \in Kept3
    BY <2>1 DEF From, Places, Kept3
  <2>3. /\ \/ trees' = trees
           \/ S \in Suites /\ trees' = Synced(RemoveTree(trees, <<S, p>>))
        /\ UNCHANGED <<base, memory, wiped, promised, doubt>>
        /\ calls' \in Nat /\ faults' \in Nat /\ crashes' \in Nat
    <3>1. \/ trees' = trees
          \/ op.call \in Calling /\ trees' = Synced(Removed(p))
      BY <1>2, <2>1 DEF CleanUp, Calling, From
    <3>2. op.call \in Calling => S \in Suites
      BY DEF SuiteInv, CallInv
    <3>. QED BY <2>0, <3>1, <3>2 DEF CleanUp, Removed, Fault, Faults, history, StateOK
  <2>4. /\ OpTypeOK' /\ CallInv'
        /\ \/ op'.at = "data" /\ SameCall /\ SameRecords /\ S' = S /\ op.call = "uninstall"
           \/ op'.at = "idle" /\ S' = NoSuite
    <3>1. CASE op.call = "uninstall"
      <4>1. op' = [op EXCEPT !.at = "data"]
        BY <3>1 DEF CleanUp, Goto
      <4>2. SameCall /\ SameRecords /\ op'.at = "data" /\ S' = S /\ OpTypeOK'
        BY <2>0, <4>1, AtOnly DEF Writes, Written
      <4>3. CallInv'
        BY <2>0, <2>3, <3>1, <4>2 DEF SuiteInv, CallInv, SameCall, SameRecords, At, memory, Writes,
           Writing, Written, Starts, Calling, Moves
      <4>. QED BY <3>1, <4>2, <4>3
    <3>2. CASE op.call # "uninstall"
      <4>1. op' = Idle /\ configured' = TRUE
        BY <1>2, <2>0, <2>3, <3>2 DEF CleanUp, memory, StateOK
      <4>. QED BY <4>1, IdleIs
    <3>. QED BY <3>1, <3>2
  <2>5. PICK t : t = S
    OBVIOUS
  <2>6. S \in {NoSuite, t} /\ S' \in {NoSuite, t}
    BY <2>4, <2>5
  <2>7. /\ Maps(trees', Trees2, Entries) /\ \A s \in Suites \ {t} : Like(T(s), T(s)')
        /\ t \in Suites => /\ Holds(T(t)') \subseteq Holds(T(t))
                           /\ \A v : Firm(T(t), v, "final") => Firm(T(t)', v, "final")
                           /\ \A v : (\A g \in T(t).disk : g["final"] = v) =>
                                       (\A g \in T(t)'.disk : g["final"] = v)
    <3>1. CASE trees' = trees
      BY <2>0, <3>1, LikeSelf DEF T
    <3>2. CASE S \in Suites /\ trees' = Synced(RemoveTree(trees, <<S, p>>))
      <4>1. PICK d : d = RemoveTree(trees, <<t, p>>)
        OBVIOUS
      <4>2. t \in Suites /\ Cut(trees, d, t, p)
        BY <2>0, <2>2, <2>5, <3>2, <4>1, RemoveCut
      <4>3. PICK e : e = trees'
        OBVIOUS
      <4>4. e = Synced(d)
        BY <2>5, <3>2, <4>1, <4>3
      <4>5. Maps(d, Trees2, Entries) /\ \A s \in Suites \ {t} : Like(View(trees, s), View(d, s))
        BY <4>2 DEF Cut
      <4>6. Maps(e, Trees2, Entries) /\ \A s \in Suites : Like(View(d, s), View(e, s))
        BY <4>4, <4>5, SyncedMaps, ViewSynced
      <4>7. \A s \in Suites \ {t} : Like(View(trees, s), View(e, s))
        BY <4>5, <4>6, LikeTwice
      <4>8. Like(View(d, t), View(e, t))
        BY <4>2, <4>6
      <4>9. Holds(View(e, t)) \subseteq Holds(View(trees, t))
        BY <4>2, <4>8, LikeHeld DEF Cut
      <4>10. \A v : Firm(View(trees, t), v, "final") => Firm(View(e, t), v, "final")
        <5>1. \A v : Firm(View(trees, t), v, "final") => Firm(View(d, t), v, "final")
          BY <2>2, <4>2 DEF Cut
        <5>2. \A v : Firm(View(d, t), v, "final") => Firm(View(e, t), v, "final")
          BY <2>2, <4>8, LikeFirm
        <5>. QED BY <5>1, <5>2
      <4>11. \A v : (\A g \in View(trees, t).disk : g["final"] = v) =>
                      (\A g \in View(e, t).disk : g["final"] = v)
        <5>1. \A v : (\A g \in View(trees, t).disk : g["final"] = v) =>
                       (\A g \in View(d, t).disk : g["final"] = v)
          BY <2>2, <4>2 DEF Cut
        <5>2. \A v : (\A g \in View(d, t).disk : g["final"] = v) =>
                       (\A g \in View(e, t).disk : g["final"] = v)
          BY <4>8, LikeHeld
        <5>. QED BY <5>1, <5>2
      <4>. QED BY <4>3, <4>6, <4>7, <4>9, <4>10, <4>11 DEF T
    <3>. QED BY <2>3, <3>1, <3>2
  <2>8. Before' = Before
    BY <2>0, <2>3, <2>4, SameBefore DEF memory, Writing
  <2>9. Untouched' /\ Grows
    BY <2>3 DEF SuiteInv, Untouched, Found, Grows
  <2>10. ASSUME t \in Suites
         PROVE  /\ ~Touched(t)' /\ Steady(T(t)', suites[t], promised[t], t \in doubt)
                /\ t = S' => Arrives(T(t)', op')
                /\ Promises(Found, T(t)', promised[t], t)
    <3>1. ~Touched(t)'
      BY <2>4, <2>10, SuitesAssumption DEF Touched, Written
    <3>2. t = S' => Arrives(T(t)', op')
      BY <2>4, <2>10, SuitesAssumption DEF Arrives, SameCall
    <3>3. /\ Steady(T(t), suites[t], promised[t], t \in doubt) /\ Arrives(T(t), op)
          /\ Promises(Found, T(t), promised[t], t)
      BY <2>0, <2>5, <2>10 DEF SuiteInv, TreesInv, Promised
    <3>4. op.call \in Calling /\ suites[t] = op.new /\ op.records[t] = op.new
      <4>1. op.call \in Calling
        BY <2>5, <2>10, SuitesAssumption DEF SuiteInv, CallInv
      <4>. QED BY <2>0, <2>5, <4>1 DEF SuiteInv, CallInv, Writes
    <3>5. \A r \in Found : r # Torn => r[t] = op.new
      BY <2>0, <3>4, WrittenIs
    <3>6. Now \in Found /\ Now # Torn /\ Now[t] = op.new
      BY <2>0, <3>4, WrittenIs, FoundTypes DEF StateOK
    <3>7. op.new = Absent => Absent \in promised[t]
      BY <3>3, <3>6 DEF Promises
    <3>8. op.new # Absent => AllHold(T(t)', op.new)
      <4>1. op.new # Absent => op.call = "install"
        BY <3>4 DEF SuiteInv, CallInv, Calling
      <4>2. op.new # Absent => \A g \in T(t).disk : g["final"] = op.new
        BY <2>0, <3>3, <4>1 DEF Arrives, Writes
      <4>3. op.new # Absent => \A g \in T(t)'.disk : g["final"] = op.new
        BY <2>7, <2>10, <4>2
      <4>. QED BY <4>3 DEF AllHold, Held, Kept3
    <3>9. Steady(T(t)', suites[t], promised[t], t \in doubt)
      BY <2>7, <2>10, <3>3, <3>4, <3>8 DEF Steady
    <3>10. Promises(Found, T(t)', promised[t], t)
      <4>1. PICK v, Q : v = op.new /\ Q = promised[t]
        OBVIOUS
      <4>2. \A r \in Found : r # Torn /\ r[t] \in Holds(T(t)') => r[t] \in Holds(T(t)) \/ r[t] \in Q
        BY <2>7, <2>10
      <4>3. \/ Absent \in Q
            \/ AllHold(T(t)', v) /\ \A r \in Found : r # Torn => r[t] \in {Absent, v}
        BY <3>5, <3>7, <3>8, <4>1
      <4>4. Promises(Found, T(t), Q, t)
        BY <3>3, <4>1
      <4>5. Promises(Found, T(t)', Q, t)
        BY <4>2, <4>3, <4>4, PromisesMoved
      <4>. QED BY <4>1, <4>5
    <3>. QED BY <3>1, <3>2, <3>9, <3>10
  <2>11. /\ op'.at \in {"idle", "write", "data"} \cup Starts \cup Moves
         /\ op'.at = "data" => op.at = "cleanup" /\ op'.records = op.records
    BY <2>0, <2>4 DEF SameRecords
  <2>. QED BY <2>0, <2>3, <2>4, <2>6, <2>7, <2>8, <2>9, <2>10, <2>11, TreeStep DEF memory, StateOK
<1>. QED BY <1>1, <1>2
\* The data go when every restart finds that the suite is not installed.
LEMMA RemovePolicyDataKeeps ==
  ASSUME SuiteInv, RemovePolicyData
  PROVE  SuiteInv'
<1>0. /\ StateOK /\ OpTypeOK /\ op.at = "data" /\ Maps(trees, Trees2, Entries)
      /\ op.at \in Written /\ op.at \in Going /\ op.call = "uninstall"
  BY DEF SuiteInv, RemovePolicyData, At, CallInv, StateOK, Trees2, Written, Going
<1>1. PICK t \in Suites : t = S
  BY <1>0 DEF SuiteInv, CallInv, Calling
<1>2. /\ configured /\ suites[t] = Absent /\ op.records[t] = Absent
  BY <1>0, <1>1 DEF SuiteInv, CallInv, Calling, Writes
<1>3. /\ op' = Idle /\ wiped' = wiped \cup {t}
      /\ UNCHANGED <<trees, base, memory, promised, doubt, history>>
  BY <1>1 DEF RemovePolicyData
<1>4. op'.at = "idle" /\ S' = NoSuite /\ OpTypeOK' /\ CallInv'
  BY <1>0, <1>2, <1>3, IdleIs DEF memory, StateOK
<1>5. \A s \in Suites : Like(T(s), T(s)') /\ T(s)' = T(s)
  BY <1>3, LikeSelf DEF T
<1>6. Before' = Before
  BY <1>0, <1>3, <1>4, SameBefore DEF memory, Writing
<1>7. Untouched'
  <2>1. \A r \in Found : r[t] = Absent
    BY <1>0, <1>2, WrittenIs
  <2>2. Found' = Found
    BY <1>3 DEF Found
  <2>. QED BY <1>3, <2>1, <2>2 DEF SuiteInv, Untouched
<1>8. ~Touched(t)' /\ Steady(T(t), suites[t], promised[t], t \in doubt)
  BY <1>2, <1>4, SuitesAssumption DEF Touched, Steady
<1>9. Promises(Found, T(t), promised[t], t) /\ Grows /\ t # S'
  BY <1>3, <1>4, SuitesAssumption DEF SuiteInv, Promised, Grows
<1>10. op'.at \in {"idle", "write", "data"} \cup Starts \cup Moves /\ op'.at # "data"
  BY <1>4
<1>. QED BY <1>0, <1>1, <1>2, <1>3, <1>4, <1>5, <1>6, <1>7, <1>8, <1>9, <1>10, TreeStep
     DEF memory, history, StateOK

LEMMA StutterKeeps ==
  ASSUME SuiteInv, UNCHANGED vars
  PROVE  SuiteInv'
<1>1. /\ trees' = trees /\ base' = base /\ suites' = suites /\ configured' = configured
      /\ wiped' = wiped /\ op' = op /\ promised' = promised /\ doubt' = doubt
      /\ calls' = calls /\ faults' = faults /\ crashes' = crashes
  BY DEF vars, memory, history
<1>2. Now' = Now /\ Found' = Found /\ S' = S /\ \A s \in Suites : T(s)' = T(s)
  BY <1>1 DEF Now, Found, S, T
<1>3. StateOK' /\ OpTypeOK' /\ CallInv'
  BY <1>1, <1>2 DEF SuiteInv, StateOK, OpTypeOK, CallInv, At
<1>4. BaseInv' /\ LoadInv'
  <2>1. Conceded' = Conceded /\ Backed' = Backed /\ Lost' = Lost /\ Before' = Before
    BY <1>1, <1>2 DEF Conceded, Backed, Lost, Bare, Before
  <2>2. \A s \in Suites : Agree(s)' <=> Agree(s)
    BY <1>1, <1>2 DEF Agree
  <2>3. BaseInv'
    BY <1>1, <1>2, <2>1 DEF SuiteInv, BaseInv, At
  <2>4. LoadInv'
    BY <1>1, <1>2, <2>1, <2>2 DEF SuiteInv, LoadInv, At
  <2>. QED BY <2>3, <2>4
<1>5. (configured' => TreesInv') /\ (~configured' => RecoveryInv')
  BY <1>1, <1>2 DEF SuiteInv, TreesInv, Touched, RecoveryInv, Recoverable, Recorded, At
<1>6. Promised' /\ Untouched'
  BY <1>1, <1>2 DEF SuiteInv, Promised, Untouched
<1>. QED BY <1>3, <1>4, <1>5, <1>6 DEF SuiteInv

LEMMA InitInv ==
  ASSUME Init
  PROVE  SuiteInv
<1>0. /\ trees = Settled([e \in Trees2 |-> Absent]) /\ base = Settled([e \in Root |-> Absent])
      /\ suites = NoRecords /\ configured = FALSE /\ wiped = {} /\ op = Starting
      /\ promised = [s \in Suites |-> {Absent}] /\ doubt = {}
      /\ calls = 0 /\ faults = 0 /\ crashes = 0
  BY DEF Init, Trees2, Root
<1>1. PICK f, g : f = [e \in Root |-> Absent] /\ g = [e \in Trees2 |-> Absent]
  OBVIOUS
<1>2. f \in [Root -> Databases] /\ g \in [Trees2 -> Entries]
  BY <1>1, RecordsWhole DEF Entries
<1>3. Maps(base, Root, Databases) /\ base.now = f /\ base.disk = {f}
  BY <1>0, <1>1, <1>2, SettledMaps
<1>4. Maps(trees, Trees2, Entries) /\ trees.now = g /\ trees.disk = {g}
  BY <1>0, <1>1, <1>2, SettledMaps
<1>5. f["db"] = Absent /\ f["bak"] = Absent /\ Absent # Torn
  BY <1>1, FilesAssumption DEF Root
<1>6. Now = NoRecords /\ Found = {NoRecords} /\ NoRecords # Torn
  BY <1>2, <1>3, <1>5, LoadedIs, RecordsWhole DEF Now, Found
<1>7. /\ op.call = "configure" /\ op.at = "load" /\ S = NoSuite /\ op.kept = FALSE
      /\ op.active = FALSE /\ OpTypeOK
  BY <1>0, RecordsWhole DEF Starting, Idle, OpTypeOK, S
<1>8. \A s \in Suites : NoRecords[s] = Absent /\ promised[s] = {Absent}
  BY <1>0 DEF NoRecords
<1>9. StateOK
  BY <1>0, <1>3, <1>4, RecordsWhole DEF StateOK, Trees2, Entries
<1>10. CallInv
  BY <1>0, <1>7 DEF CallInv, At, Writes, Writing, Written, Starts, Calling
<1>11. BaseInv
  <2>1. Backed
    BY <1>3, <1>5 DEF Backed
  <2>. QED BY <1>7, <2>1 DEF BaseInv, At, Written
<1>12. LoadInv
  BY <1>0, <1>6, <1>7 DEF LoadInv, Agree, At
<1>13. RecoveryInv
  BY <1>0, <1>6, <1>7, <1>8 DEF RecoveryInv, Recoverable, Recorded, At
<1>14. Promised
  <2>. SUFFICES ASSUME NEW s \in Suites PROVE Promises(Found, T(s), promised[s], s)
    BY DEF Promised
  <2>1. Absent \notin Holds(T(s))
    BY FilesAssumption DEF Holds
  <2>. QED BY <1>6, <1>8, <2>1 DEF Promises
<1>15. Untouched
  BY <1>0 DEF Untouched
<1>. QED BY <1>0, <1>7, <1>9, <1>10, <1>11, <1>12, <1>13, <1>14, <1>15 DEF SuiteInv

LEMMA NextKeeps ==
  ASSUME SuiteInv, [Next]_vars
  PROVE  SuiteInv'
<1>1. CASE Calls
  <2>1. PICK s \in Suites : \/ \E v \in Versions : Install(s, v)
                            \/ Uninstall(s) \/ UpdateVerifiedClasses(s)
    BY <1>1 DEF Calls
  <2>. QED BY <2>1, InstallKeeps, UninstallKeeps, UpdateKeeps
<1>2. CASE Trees
  BY <1>2, StagedKeeps, StagingFailsKeeps, ClearKeeps, MoveAsideKeeps, ActivateKeeps,
     NothingToBuryKeeps, SyncTreesKeeps, ClearFailsKeeps, RenameFailsKeeps, SyncTreesFailsKeeps,
     UndoKeeps, UndoSyncKeeps DEF Trees
<1>3. CASE Database
  BY <1>3, WriteDatabaseKeeps, RotateKeeps, ReplaceKeeps, CommitKeeps, MirrorKeeps,
     CommitUnknownKeeps, CommitFailsKeeps DEF Database
<1>4. CASE Finish
  BY <1>4, CleanUpKeeps, RemovePolicyDataKeeps DEF Finish
<1>5. CASE Configure
  BY <1>5, LoadKeeps, RecoveringKeeps, SweepKeeps, ConfiguredKeeps, ConfigureFailsKeeps,
     RecoverSuiteKeeps DEF Configure
<1>6. CASE Crash
  BY <1>6, CrashKeeps
<1>7. CASE UNCHANGED vars
  BY <1>7, StutterKeeps
<1>. QED BY <1>1, <1>2, <1>3, <1>4, <1>5, <1>6, <1>7 DEF Next, GoesOn

(***************************************************************************)
(* The theorems.                                                           *)
(***************************************************************************)
\* Every step of a call, every failure and every crash keeps the invariant: of
\* the directories of a suite one always matches what a database may say of it.
THEOREM SuiteInductive == Spec => []SuiteInv
<1>1. Init => SuiteInv
  BY InitInv
<1>2. SuiteInv /\ [Next]_vars => SuiteInv'
  BY NextKeeps
<1>. QED BY <1>1, <1>2, PTL DEF Spec

\* The state keeps its shape.
THEOREM SuiteTypes == Spec => []TypeOK
<1>1. SuiteInv => TypeOK
  <2>. SUFFICES ASSUME SuiteInv PROVE TypeOK
    OBVIOUS
  <2>1. /\ trees \in [now : Directories, disk : SUBSET Directories]
        /\ base \in [now : RootFiles, disk : SUBSET RootFiles]
    BY DEF SuiteInv, StateOK, Maps, Directories, RootFiles, Entries, Databases, Root
  <2>. QED BY <2>1 DEF SuiteInv, StateOK, TypeOK, Entries
<1>. QED BY <1>1, SuiteInductive, PTL

\* Whatever the disk holds when the power fails, the next configure finds of each
\* suite what the calls have reported, and never one whose data were removed.
THEOREM DurableHolds == Spec => []Durable
<1>1. SuiteInv => Durable
  <2>. SUFFICES ASSUME SuiteInv, NEW f \in base.disk, NEW g \in trees.disk, NEW s \in Suites
                PROVE  /\ Recovered(f, g, s) \in promised[s]
                       /\ Recovered(f, g, s) \in Versions => s \notin wiped
    BY DEF Durable
  <2>1. g \in [Trees2 -> Entries] /\ Maps(trees, Trees2, Entries)
    BY MapsAre DEF SuiteInv, StateOK, Trees2
  <2>2. Loaded(f) \in Found /\ Promises(Found, T(s), promised[s], s)
    BY DEF SuiteInv, Promised, Found
  <2>3. Of(g, s) \in T(s).disk
    BY <2>1, ViewMaps DEF T
  <2>4. PICK r : r = Loaded(f)
    OBVIOUS
  <2>5. Recovered(f, g, s) = IF r = Torn THEN Torn
                             ELSE IF r[s] # Absent /\ Held(Of(g, s), r[s]) THEN r[s] ELSE Absent
    BY <2>1, <2>4, RecoveredIs
  <2>6. r # Torn => r \in Records /\ r[s] \in Versions \cup {Absent}
    BY <2>2, <2>4, FoundTypes, RecordTypes DEF SuiteInv, StateOK
  <2>7. r # Torn /\ r[s] # Absent /\ Held(Of(g, s), r[s]) => r[s] \in Holds(T(s))
    BY <2>3, <2>6 DEF Holds
  <2>8. Recovered(f, g, s) \in promised[s]
    <3>1. CASE r = Torn
      BY <2>2, <2>4, <2>5, <3>1 DEF Promises
    <3>2. CASE r # Torn /\ r[s] # Absent /\ Held(Of(g, s), r[s])
      BY <2>2, <2>4, <2>5, <2>7, <3>2 DEF Promises
    <3>3. CASE r # Torn /\ ~(r[s] # Absent /\ Held(Of(g, s), r[s]))
      BY <2>2, <2>3, <2>4, <2>5, <3>3 DEF Promises, AllHold
    <3>. QED BY <3>1, <3>2, <3>3
  <2>9. Recovered(f, g, s) \in Versions => s \notin wiped
    BY <2>2, <2>4, <2>5, FilesAssumption DEF SuiteInv, Untouched
  <2>. QED BY <2>8, <2>9
<1>. QED BY <1>1, SuiteInductive, PTL

\* Of a suite that no call is changing and whose last change was confirmed or
\* undone, memory has what a restart without a power failure would find, unless a
\* commit has just removed the only database (SuiteDatabase.cpp:683).
THEOREM MemoryMatches == Spec => []MemoryOnDisk
<1>1. SuiteInv => MemoryOnDisk
  <2>. SUFFICES ASSUME SuiteInv, NEW s \in Suites \ doubt, configured, S # s,
                       ~(Bare /\ Torn \in promised[s])
                PROVE  Recovered(base.now, trees.now, s) = suites[s]
    BY DEF MemoryOnDisk
  <2>1. trees.now \in [Trees2 -> Entries] /\ Maps(trees, Trees2, Entries)
    BY MapsAre DEF SuiteInv, StateOK, Trees2
  <2>2. Now # Torn /\ Now[s] = suites[s]
    <3>0. ~At("load")
      BY DEF SuiteInv, CallInv, OpTypeOK, At, Starts, Moves, Writes, Writing, Written, Calling
    <3>1. ~At("load") /\ Now = Before
      BY <3>0 DEF SuiteInv, LoadInv, Lost, Conceded
    <3>2. Before[s] = suites[s]
      BY DEF Before
    <3>. QED BY <3>1, <3>2, NowReadable
  <2>3. Steady(T(s), suites[s], promised[s], s \in doubt)
    BY DEF SuiteInv, TreesInv, Touched
  <2>4. suites[s] # Absent => Held(Of(trees.now, s), suites[s])
    <3>1. suites[s] # Absent => T(s).now["final"] = suites[s]
      BY <2>3 DEF Steady, Firm
    <3>. QED BY <3>1 DEF T, View, Held, Kept3
  <2>5. Recovered(base.now, trees.now, s) =
          IF Now = Torn THEN Torn
          ELSE IF Now[s] # Absent /\ Held(Of(trees.now, s), Now[s]) THEN Now[s] ELSE Absent
    BY <2>1, RecoveredIs DEF Now
  <2>. QED BY <2>2, <2>4, <2>5
<1>. QED BY <1>1, SuiteInductive, PTL
=============================================================================
