--------------------------- MODULE CatalogLifecycle ---------------------------
(***************************************************************************)
(* What the maintenance functions promise about a table's files (spec 4.4 *)
(* and 8): a file is written once under a fresh path, it is referenced     *)
(* while a committed snapshot or a writer may read it, and it stops being  *)
(* referenced only when its writer aborts or a compaction schedules it for *)
(* deletion.  Removing files from storage is one step that takes only      *)
(* files nobody references; a cleanup's commit drops catalog rows of files *)
(* scheduled for deletion.  When and in how many calls a cleanup does its  *)
(* work, and which cutoff picked its files, is not visible here.           *)
(***************************************************************************)
CONSTANTS Files, InitialFiles

VARIABLES
  written,    \* every path ever written (no path is written twice)
  storage,    \* files present on storage
  referenced, \* files a committed snapshot or an open writer references
  scheduled   \* files with a ducklake_files_scheduled_for_deletion row

avars == <<written, storage, referenced, scheduled>>

Init ==
  /\ written = InitialFiles
  /\ storage = InitialFiles
  /\ referenced = InitialFiles
  /\ scheduled = {}

(* A writer writes a file under a new path; it references the file.       *)
Write(f) ==
  /\ f \notin written
  /\ written' = written \cup {f}
  /\ storage' = storage \cup {f}
  /\ referenced' = referenced \cup {f}
  /\ UNCHANGED scheduled

(* The writer aborts: its file stays on storage, referenced by nobody.    *)
Release(f) ==
  /\ f \in referenced
  /\ referenced' = referenced \ {f}
  /\ UNCHANGED <<written, storage, scheduled>>

(* A compaction supersedes a referenced file and schedules it.            *)
Schedule(f) ==
  /\ f \in referenced
  /\ referenced' = referenced \ {f}
  /\ scheduled' = scheduled \cup {f}
  /\ UNCHANGED <<written, storage>>

(* A cleanup removes files that nobody references.                        *)
Remove(S) ==
  /\ S \cap referenced = {}
  /\ storage' = storage \ S
  /\ UNCHANGED <<written, referenced, scheduled>>

(* A cleanup's commit drops the rows of scheduled files.                  *)
Forget(S) ==
  /\ scheduled' = scheduled \ S
  /\ UNCHANGED <<written, storage, referenced>>

Next ==
  \/ \E f \in Files : Write(f) \/ Release(f) \/ Schedule(f)
  \/ \E S \in SUBSET Files : Remove(S) \/ Forget(S)

Spec == Init /\ [][Next]_avars

=============================================================================
