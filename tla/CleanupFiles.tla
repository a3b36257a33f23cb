----------------------------- MODULE CleanupFiles -----------------------------
(***************************************************************************)
(* ducklake_cleanup_old_files and ducklake_delete_orphaned_files           *)
(* (src/functions/ducklake_cleanup_files.cpp), run against a catalog and  *)
(* a storage that concurrent writers and compactions keep changing.       *)
(*                                                                         *)
(* A statement binds (parses its named parameters, picks the cutoff and   *)
(* queries the catalog for candidates), then the engine calls Execute     *)
(* until it returns an empty chunk: the first call removes the files (and, *)
(* for old files, their catalog rows in the statement's transaction), each *)
(* call returns up to VectorSize paths.  The transaction then commits or  *)
(* aborts; removals from storage are not transactional.                   *)
(*                                                                         *)
(* The catalog query, the writers and the compaction are not under src/:  *)
(* they are modelled from the spec.                                       *)
(***************************************************************************)
EXTENDS Integers, Sequences, SequencesExt

CONSTANTS
  Files,           \* file names (paths)
  InitialFiles,    \* data files of the table when the run starts
  MaxTime,         \* the clock runs over 0..MaxTime
  WriteLag,        \* a writer commits within WriteLag ticks of writing
  OrphanOlderThan, \* option orphan_file_delete_older_than, or NoInterval
  NoInterval,      \* the option is not set (the empty string)
  Invocations,     \* the statements a user may run: <<type, parameters>>
  VectorSize,      \* STANDARD_VECTOR_SIZE
  RemoveMayFail    \* whether FileSystem::TryRemoveFile may fail or throw

Types == {"OLD_FILES", "ORPHANED_FILES"}
Params == {"dry_run", "cleanup_all", "older_than"}

ASSUME FilesAssumption == IsFiniteSet(Files) /\ InitialFiles \subseteq Files
ASSUME TimeAssumption == MaxTime \in Nat /\ WriteLag \in Nat \ {0}
ASSUME IntervalAssumption == OrphanOlderThan \in Nat \cup {NoInterval}
ASSUME InvocationsAssumption ==
  \A inv \in Invocations :
    /\ inv[1] \in Types
    /\ DOMAIN inv[2] \subseteq Params
ASSUME VectorSizeAssumption == VectorSize \in Nat \ {0}
ASSUME RemoveMayFailAssumption == RemoveMayFail \in BOOLEAN

VARIABLES
  clock,      \* current time
  storage,    \* files present on storage
  mtime,      \* last-modified time of every file ever written (its domain)
  dataFiles,  \* files the committed catalog references as data files
  scheduled,  \* committed ducklake_files_scheduled_for_deletion: file -> schedule_start
  inflight,   \* files written by writers that have not committed yet
  cphase,     \* the cleanup statement: "idle", "bound", "exhausted", "failed", "rejected"
  ctype,      \* CleanupBindData.type
  copts,      \* the named parameters of the statement
  cdry,       \* CleanupBindData.dry_run
  files,      \* CleanupBindData.files: the candidates, in query order
  offset,     \* DuckLakeCleanupData.offset
  executed,   \* DuckLakeCleanupData.executed
  emitted,    \* the paths returned so far
  removedRows,\* scheduled rows removed in the statement's transaction
  everScheduled \* files ever scheduled for deletion (history)

vars == <<clock, storage, mtime, dataFiles, scheduled, inflight, cphase,
          ctype, copts, cdry, files, offset, executed, emitted, removedRows,
          everScheduled>>
stmtVars == <<ctype, copts, cdry, files, offset, executed, emitted, removedRows>>

-----------------------------------------------------------------------------
NoFilter == [has |-> FALSE, ts |-> 0]

(* Variant for checking: the scan position of the previous statement is  *)
(* carried over instead of reset.                                          *)
NoStatementKeepsOffset(t, o, d, fs, off, ex, em, rr) ==
  /\ t = "OLD_FILES"
  /\ o = [p \in {} |-> FALSE]
  /\ d = FALSE
  /\ fs = <<>>
  /\ off = Len(files)
  /\ ex = FALSE
  /\ em = <<>>
  /\ rr = {}

(* The statement variables when no cleanup statement is running: a fresh  *)
(* DuckLakeCleanupData and no bind data.                                   *)
NoStatement(t, o, d, fs, off, ex, em, rr) ==
  /\ t = "OLD_FILES"
  /\ o = [p \in {} |-> FALSE]
  /\ d = FALSE
  /\ fs = <<>>
  /\ off = 0
  /\ ex = FALSE
  /\ em = <<>>
  /\ rr = {}

TypeOK ==
  /\ clock \in 0..MaxTime
  /\ storage \subseteq Files
  /\ DOMAIN mtime \subseteq Files
  /\ mtime \in [DOMAIN mtime -> 0..MaxTime]
  /\ dataFiles \subseteq Files
  /\ DOMAIN scheduled \subseteq Files
  /\ scheduled \in [DOMAIN scheduled -> 0..MaxTime]
  /\ inflight \subseteq Files
  /\ cphase \in {"idle", "bound", "exhausted", "failed", "rejected"}
  /\ ctype \in Types
  /\ DOMAIN copts \subseteq Params
  /\ cdry \in BOOLEAN
  /\ files \in Seq(Files)
  /\ offset \in 0..Len(files)
  /\ executed \in BOOLEAN
  /\ emitted \in Seq(Files)
  /\ removedRows \subseteq Files
  /\ everScheduled \subseteq Files

-----------------------------------------------------------------------------
(* CleanupBind, lines 63-74: a parameter counts as given when it is       *)
(* present; its value is only read for older_than.                         *)
GivesCleanupAll(opts) == "cleanup_all" \in DOMAIN opts
GivesTimestamp(opts) == "older_than" \in DOMAIN opts
GivesDryRun(opts) == "dry_run" \in DOMAIN opts

(* The older_than default: only the orphan function passes the option.    *)
DefaultOf(type) == IF type = "ORPHANED_FILES" THEN OrphanOlderThan ELSE NoInterval

(* CleanupBind, lines 75-79: exactly one of cleanup_all and older_than,   *)
(* or neither when a default interval exists.                              *)
BindRejects(type, opts) ==
  \/ GivesCleanupAll(opts) /\ GivesTimestamp(opts)
  \/ ~GivesCleanupAll(opts) /\ ~GivesTimestamp(opts) /\ DefaultOf(type) = NoInterval

(* CleanupBind lines 80-85 with GetFilter: the cutoff of the candidate    *)
(* query.  A default interval is evaluated as NOW() - INTERVAL by the     *)
(* catalog, at bind time.                                                  *)
(* Variant for checking: the default interval is ignored.                 *)
BindFilterNoDefault(type, opts) ==
  IF GivesTimestamp(opts) THEN [has |-> TRUE, ts |-> opts["older_than"]]
  ELSE NoFilter

BindFilter(type, opts) ==
  IF GivesTimestamp(opts) THEN [has |-> TRUE, ts |-> opts["older_than"]]
  ELSE IF ~GivesCleanupAll(opts) /\ DefaultOf(type) # NoInterval
       THEN [has |-> TRUE, ts |-> clock - DefaultOf(type)]
       ELSE NoFilter

Older(t, filter) == ~filter.has \/ t < filter.ts

(* MetadataManager::GetFilesForCleanup (spec 4.4): files scheduled for    *)
(* deletion before the cutoff, or files on storage that no catalog row    *)
(* references, last modified before the cutoff.  A writer's uncommitted   *)
(* files are not referenced.                                               *)
FilesForCleanup(type, filter) ==
  IF type = "OLD_FILES"
  THEN {f \in DOMAIN scheduled : Older(scheduled[f], filter)}
  ELSE {f \in storage \ (dataFiles \cup DOMAIN scheduled) : Older(mtime[f], filter)}

-----------------------------------------------------------------------------
Init ==
  /\ clock = 0
  /\ storage = InitialFiles
  /\ mtime = [f \in InitialFiles |-> 0]
  /\ dataFiles = InitialFiles
  /\ scheduled = [f \in {} |-> 0]
  /\ inflight = {}
  /\ cphase = "idle"
  /\ NoStatement(ctype, copts, cdry, files, offset, executed, emitted, removedRows)
  /\ everScheduled = {}

(* Time passes; a writer commits within WriteLag of writing its file.      *)
Tick ==
  /\ clock < MaxTime
  /\ \A f \in inflight : clock + 1 - mtime[f] <= WriteLag
  /\ clock' = clock + 1
  /\ UNCHANGED <<storage, mtime, dataFiles, scheduled, inflight, cphase,
                 stmtVars, everScheduled>>

(* A writer (an INSERT or the copy of an UPDATE) writes a new data file.   *)
WriteFile(f) ==
  /\ f \notin DOMAIN mtime
  /\ storage' = storage \cup {f}
  /\ mtime' = [g \in DOMAIN mtime \cup {f} |-> IF g = f THEN clock ELSE mtime[g]]
  /\ inflight' = inflight \cup {f}
  /\ UNCHANGED <<clock, dataFiles, scheduled, cphase, stmtVars, everScheduled>>

(* The writer's transaction commits: the catalog references the file.     *)
CommitWrite(f) ==
  /\ f \in inflight
  /\ dataFiles' = dataFiles \cup {f}
  /\ inflight' = inflight \ {f}
  /\ UNCHANGED <<clock, storage, mtime, scheduled, cphase, stmtVars,
                 everScheduled>>

(* The writer's transaction aborts: its file stays on storage, an orphan. *)
AbortWrite(f) ==
  /\ f \in inflight
  /\ inflight' = inflight \ {f}
  /\ UNCHANGED <<clock, storage, mtime, dataFiles, scheduled, cphase, stmtVars,
                 everScheduled>>

(* A compaction or rewrite supersedes a data file and schedules it.       *)
ScheduleFile(f) ==
  /\ f \in dataFiles
  /\ dataFiles' = dataFiles \ {f}
  /\ scheduled' = [g \in DOMAIN scheduled \cup {f} |->
                     IF g = f THEN clock ELSE scheduled[g]]
  /\ everScheduled' = everScheduled \cup {f}
  /\ UNCHANGED <<clock, storage, mtime, inflight, cphase, stmtVars>>

-----------------------------------------------------------------------------
(* CleanupBind: the parameters select no cutoff or two; InvalidInput,     *)
(* before anything is removed.                                             *)
BindRejected(type, opts) ==
  /\ cphase = "idle"
  /\ BindRejects(type, opts)
  /\ cphase' = "rejected"
  /\ ctype' = type
  /\ copts' = opts
  /\ UNCHANGED <<clock, storage, mtime, dataFiles, scheduled, inflight, cdry,
                 files, offset, executed, emitted, removedRows, everScheduled>>

(* CleanupBind, then DuckLakeCleanupInit: the candidates are fixed here.  *)
Bind(type, opts) ==
  /\ cphase = "idle"
  /\ ~BindRejects(type, opts)
  /\ cphase' = "bound"
  /\ ctype' = type
  /\ copts' = opts
  /\ cdry' = GivesDryRun(opts)
  /\ files' = SetToSeq(FilesForCleanup(type, BindFilter(type, opts)))
  /\ offset' = 0
  /\ executed' = FALSE
  /\ emitted' = <<>>
  /\ removedRows' = {}
  /\ UNCHANGED <<clock, storage, mtime, dataFiles, scheduled, inflight,
                 everScheduled>>

(* DuckLakeCleanupExecute, line 127: every candidate has been returned.   *)
(* Variants for checking: off by one in either direction.                  *)
ExhaustedEarly == offset + VectorSize >= Len(files)
ExhaustedLate == offset > Len(files)
Exhausted == offset >= Len(files)

(* Line 130: this call removes the files.  Variant: dry_run is ignored.    *)
RemovesNowIgnoringDry == ~executed
RemovesNow == ~executed /\ ~cdry

(* Lines 133-135: the candidates TryRemoveFile fails to remove; its result *)
(* is ignored and the loop goes on.                                        *)
RemovalFailures == IF RemoveMayFail THEN SUBSET ToSet(files) ELSE {{}}

(* Lines 136-141: the catalog rows the removal drops, for old files: every *)
(* candidate's, whether or not its file was removed.                       *)
RowsRemoved(fs) == IF ctype = "OLD_FILES" THEN ToSet(fs) ELSE {}

(* Lines 144-149: how many paths this call returns.                        *)
ChunkSize ==
  IF Len(files) - offset < VectorSize THEN Len(files) - offset ELSE VectorSize

(* DuckLakeCleanupExecute with every candidate returned: an empty chunk,  *)
(* the scan is over.                                                       *)
ExecuteDone ==
  /\ cphase = "bound"
  /\ Exhausted
  /\ cphase' = "exhausted"
  /\ UNCHANGED <<clock, storage, mtime, dataFiles, scheduled, inflight,
                 stmtVars, everScheduled>>

(* DuckLakeCleanupExecute: on the first call of a run that is not dry,    *)
(* every candidate is removed from storage (but those TryRemoveFile fails *)
(* on) and, for old files, from the catalog; then the next VectorSize     *)
(* paths are returned.                                                     *)
Execute ==
  /\ cphase = "bound"
  /\ ~Exhausted
  /\ \E kept \in RemovalFailures :
       storage' = IF RemovesNow THEN storage \ (ToSet(files) \ kept)
                                ELSE storage
  /\ removedRows' = IF RemovesNow THEN RowsRemoved(files) ELSE removedRows
  /\ executed' = (executed \/ RemovesNow)
  /\ emitted' = emitted \o SubSeq(files, offset + 1, offset + ChunkSize)
  /\ offset' = offset + ChunkSize
  /\ UNCHANGED <<clock, mtime, dataFiles, scheduled, inflight, cphase, ctype,
                 copts, cdry, files, everScheduled>>

(* DuckLakeCleanupExecute: TryRemoveFile throws on candidate k + 1 (it    *)
(* exists but cannot be removed); the first k are gone, the statement     *)
(* fails.                                                                  *)
ExecuteRemoveFails ==
  /\ cphase = "bound"
  /\ RemoveMayFail
  /\ ~Exhausted
  /\ RemovesNow
  /\ \E k \in 0..(Len(files) - 1) :
       /\ files[k + 1] \in storage
       /\ storage' = storage \ ToSet(SubSeq(files, 1, k))
  /\ cphase' = "failed"
  /\ UNCHANGED <<clock, mtime, dataFiles, scheduled, inflight, stmtVars,
                 everScheduled>>

(* The statement's transaction commits its catalog changes.               *)
CommitCleanup ==
  /\ cphase = "exhausted"
  /\ scheduled' = [f \in DOMAIN scheduled \ removedRows |-> scheduled[f]]
  /\ cphase' = "idle"
  /\ NoStatement(ctype', copts', cdry', files', offset', executed', emitted',
                 removedRows')
  /\ UNCHANGED <<clock, storage, mtime, dataFiles, inflight, everScheduled>>

(* The statement's transaction aborts (an error, or a commit conflict):   *)
(* its catalog changes are lost, its storage removals are not.            *)
AbortCleanup ==
  /\ cphase \in {"exhausted", "failed", "rejected"}
  /\ cphase' = "idle"
  /\ NoStatement(ctype', copts', cdry', files', offset', executed', emitted',
                 removedRows')
  /\ UNCHANGED <<clock, storage, mtime, dataFiles, scheduled, inflight,
                 everScheduled>>

Next ==
  \/ Tick
  \/ \E f \in Files : WriteFile(f) \/ CommitWrite(f) \/ AbortWrite(f)
                       \/ ScheduleFile(f)
  \/ \E inv \in Invocations : Bind(inv[1], inv[2]) \/ BindRejected(inv[1], inv[2])
  \/ ExecuteDone \/ Execute \/ ExecuteRemoveFails
  \/ CommitCleanup \/ AbortCleanup

(* The engine keeps calling Execute until the empty chunk, and the        *)
(* statement then ends; users and writers are not obliged to act.         *)
Fairness ==
  /\ WF_vars(ExecuteDone \/ Execute \/ ExecuteRemoveFails)
  /\ WF_vars(CommitCleanup \/ AbortCleanup)

Spec == Init /\ [][Next]_vars /\ Fairness

-----------------------------------------------------------------------------
(* Every data file the committed catalog references is on storage: no    *)
(* cleanup removes a file that a snapshot reads.  Orphan cleanup sees a    *)
(* concurrent writer's uncommitted file as unreferenced; its cutoff must  *)
(* keep it from removing that file before the writer commits.              *)
NoDanglingReference == dataFiles \subseteq storage

(* A file scheduled for deletion keeps its catalog row while it is still  *)
(* on storage, so that a later old-file cleanup can retry it: a removal   *)
(* that fails (tolerated, spec 4.4) or an abort must never leave an       *)
(* untracked file behind.  Execute drops the rows of every candidate      *)
(* (line 140) whatever TryRemoveFile returned (line 134).                  *)
TrackedUntilRemoved ==
  \A f \in everScheduled : f \in storage => f \in DOMAIN scheduled

(* The paths a statement returns are its candidates, in order, each once; *)
(* once the scan is over all of them were returned, and a run that is not *)
(* dry removed them before it returned the first.                          *)
OutputFaithful ==
  /\ IsPrefix(emitted, files)
  /\ cphase = "exhausted" => emitted = files
  /\ (emitted # <<>> /\ ~cdry) => executed

(* Only a cleanup removes anything, and only its candidates: a dry run     *)
(* removes nothing from storage or from the catalog, and catalog rows go  *)
(* only when an old-file cleanup that is not dry commits.                  *)
CleanupEffects ==
  [][ /\ storage \ storage' \subseteq ToSet(files)
      /\ cdry => storage \subseteq storage'
      /\ DOMAIN scheduled \ DOMAIN scheduled'
           \subseteq (IF ctype = "OLD_FILES" /\ ~cdry THEN ToSet(files) ELSE {})
    ]_vars

(* Every cleanup statement ends: the engine drains Execute, and the        *)
(* transaction commits or aborts.                                          *)
StatementEnds == cphase # "idle" ~> cphase = "idle"

(* Spec 4.4/6/8: CleanupBind reads the values of its boolean options.  A  *)
(* statement is rejected exactly when it selects both cutoffs              *)
(* (cleanup_all = true and older_than) or neither without a default       *)
(* interval, and a bound one is a dry run exactly when dry_run = true was *)
(* passed.                                                                 *)
Selected(opts) ==
  {p \in DOMAIN opts \cap {"cleanup_all", "older_than"} :
     p = "older_than" \/ opts[p] = TRUE}

BindReadsOptions ==
  /\ cphase \in {"bound", "rejected"} =>
       ((cphase = "rejected") <=>
          \/ Selected(copts) = {"cleanup_all", "older_than"}
          \/ Selected(copts) = {} /\ DefaultOf(ctype) = NoInterval)
  /\ cphase = "bound" =>
       (cdry <=> ("dry_run" \in DOMAIN copts /\ copts["dry_run"] = TRUE))


(* The cleanup functions implement CatalogLifecycle: however the bind,    *)
(* the calls of Execute, the failures and the end of the transaction      *)
(* interleave with writers and compactions, every removal from storage   *)
(* takes only files that neither the committed catalog nor a writer       *)
(* references at the moment of the removal, although the candidates were  *)
(* fixed at bind time (line 90).  The paths ever written are the domain of *)
(* mtime, the referenced files the committed data files and the writers'  *)
(* files, the scheduled files the rows of the deletion table.             *)
Lifecycle == INSTANCE CatalogLifecycle
               WITH written <- DOMAIN mtime,
                    referenced <- dataFiles \cup inflight,
                    scheduled <- DOMAIN scheduled

ImplementsLifecycle == Lifecycle!Spec

=============================================================================
