--------------------------- MODULE CrashDirectory ---------------------------
(***************************************************************************)
(* A directory of a file system under a crash, as the code that persists   *)
(* things relies on it.  "now" maps each name to what a process finds      *)
(* under it; "disk" holds every map a restart may find.  Each operation on *)
(* an entry may or may not have reached the disk, whatever became of the   *)
(* others, until the directory is synchronized; a rename is atomic.  The   *)
(* death of the process alone loses nothing, so "now" is always in "disk". *)
(***************************************************************************)

CONSTANTS
  Absent,  \* an entry that is not there
  Torn     \* an entry cut short: a partial file, a partial tree

\* Any other entry is what was written to it.
Whole(x) == x \notin {Absent, Torn}

\* A directory after a restart, and one that has been synchronized.
Settled(entries) == [now |-> entries, disk |-> {entries}]
Synced(d) == Settled(d.now)

\* creat, write, link: the entry n becomes x; unlink, where there is one
Put(d, n, x) ==
  [now |-> [d.now EXCEPT ![n] = x],
   disk |-> d.disk \cup {[f EXCEPT ![n] = x] : f \in d.disk}]
Unlink(d, n) == IF d.now[n] = Absent THEN d ELSE Put(d, n, Absent)

Rename(d, from, to) ==
  LET Moved(f) == [f EXCEPT ![to] = d.now[from], ![from] = Absent]
  IN  [now |-> Moved(d.now), disk |-> d.disk \cup {Moved(f) : f \in d.disk}]
=============================================================================
