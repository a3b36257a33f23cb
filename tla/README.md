# TLA+ models of the DuckLake extension

This directory holds TLA+ specifications of the DuckLake extension sources
under `src/`, TLC configurations that model-check them, and TLAPS proofs.

## The system and its parts

| Part | Source | Module | Status |
|---|---|---|---|
| UpdatePipeline: the `DuckLakeUpdate` physical operator | `src/src/storage/ducklake_update.cpp` lines 18-204 | `UpdatePipeline`, `MC_UpdatePipeline`, `UpdatePipelineProofs` | modelled |
| Update planning: `PlanUpdate`, `BindUpdateConstraints` | `ducklake_update.cpp` lines 232-344 | `UpdatePlan`, `MC_UpdatePlan` | modelled |
| LifecycleReclaimer: `ducklake_cleanup_old_files` and `ducklake_delete_orphaned_files` | `src/src/functions/ducklake_cleanup_files.cpp` | `CleanupFiles`, `CatalogLifecycle`, `MC_CleanupFiles`, `CleanupFilesProofs` | modelled |
| TypeCodec: `DuckLakeTypes::FromString`, `ToString` and `CheckSupportedType` | `src/unnamed/part_002` lines 1-125 | `TypeCodec`, `MC_TypeCodec` | modelled |
| DeleteRegistry: `DuckLakeDeleteMap` | `src/unnamed/part_002` lines 145-183 | `DeleteMap`, `MC_DeleteMap`, `DeleteMapProofs` | modelled |
| Test script (docker compose restart) | `src/unnamed/part_000` | none | not modelled: pure I/O |
| README of the extension | `src/unnamed/part_001` | none | not modelled: documentation |

**How the parts interact.** An UPDATE of a DuckLake table runs as a delete plus an insert.
- The planner (`PlanUpdate`) builds three nested operators:
  - a *copy*, which writes the new row versions carrying the old row id;
  - a *delete*, with `allow_duplicates = false`, which marks the old rows deleted and registers delete files in a `DuckLakeDeleteMap`;
  - an *insert*, which registers the copy's files.
- `DuckLakeUpdate` drives the three operators as a parallel sink.
- The catalog stores every column type as text. `DuckLakeTypes::ToString` writes it and `FromString` reads it back.
- The cleanup functions share the catalog with the update. Files that a compaction or rewrite supersedes are scheduled for deletion. Files that a writer has written but not committed are on storage, but no catalog row references them.

## UpdatePipeline (`UpdatePipeline.tla`)

A row is abstracted to its row-id triple, which is what the copy carries and the delete consumes. Column values do not affect control, so they are left out. What a nested call returns is a nondeterministic choice: a call named in the constant `MayBlock` may answer BLOCKED.

**State.**
- Per thread:
  - `lcopy` and `ldel`: the copy's and the delete's local sink states;
  - `lcount`: `updated_count`;
  - `tphase`.
- Global:
  - `gcopy` and `gdel`: the global sink states;
  - `total`: `total_updated_count`.
- Finalize's replay:
  - `cursor`: rows read from the copy source;
  - `inserted`: rows sunk into the insert;
  - `deleted`: rows the delete marked;
  - `phase`.

**Actions.** One action per handler, or per branch of a handler:
- `Sink(t, c)`: lines 88-114. Both nested Sink results are discarded, and the chunk is counted.
- `Combine(t)` and `CombineBlocked(t)`: lines 119-136.
- `FinalizeChildren` and `FinalizeChildrenFails`: lines 143-152. The delete rejects a row it sees twice.
- The replay loop, lines 168-184. Each action is one iteration:
  - `ReplayEnd`: an empty chunk ends the loop, whatever the result.
  - `ReplayBlocked`: a non-empty BLOCKED chunk, or a blocked insert Sink, raises an error.
  - `ReplayChunk`: the chunk is sunk into the insert. A FINISHED chunk ends the loop.
- `FinalizeInsert`: lines 186-191.
- `GetData`: lines 197-204.

The copy source may return up to `VectorSize` (STANDARD_VECTOR_SIZE) rows per call. Without blocking, it returns at least one row while rows remain, and FINISHED only with the last row.

**Fairness.** Weak fairness is assumed on each thread's sink and combine, on Finalize, on each replay iteration and on GetData. DuckDB's executor hands every thread's pipeline the whole input and then runs Finalize synchronously, and the operator never suspends, so every enabled step is eventually taken.

## LifecycleReclaimer (`CleanupFiles.tla`)

**Statement state.**
- `ctype`, `copts`, `cdry` and `files`: `CleanupBindData`.
- `offset` and `executed`: `DuckLakeCleanupData`.
- `emitted`: the paths returned so far.
- `removedRows`: catalog rows dropped in the statement's transaction.

**Environment state.**
- `storage` and `mtime`: what is on storage.
- `dataFiles`: data files the committed catalog references.
- `scheduled`: the rows of `ducklake_files_scheduled_for_deletion`.
- `inflight`: files of writers that have not committed.
- `everScheduled`: a history variable.

**Actions.**
- `Bind` and `BindRejected`: `CleanupBind` and `DuckLakeCleanupInit`, lines 54-122.
  - A named parameter counts as given when it is present (lines 63-74).
  - The mode check is lines 75-79.
  - The cutoff is lines 80-85, with `GetFilter`.
  - The candidates are fixed at bind time.
- `Execute`, `ExecuteDone` and `ExecuteRemoveFails`: `DuckLakeCleanupExecute`, lines 124-151.
  - The first call of a run that is not dry removes every candidate from storage.
  - `TryRemoveFile` may fail on any subset of the candidates, since its result is ignored. It may also throw, which is `ExecuteRemoveFails`.
  - For old files, the call then drops the catalog rows of all candidates.
  - Every call returns up to `VectorSize` paths.
- `CommitCleanup` and `AbortCleanup`: the statement's transaction.

The following are not under `src/` and are modelled from the spec:
- the catalog query `GetFilesForCleanup`;
- writers: `WriteFile`, `CommitWrite` and `AbortWrite`;
- compaction: `ScheduleFile`;
- the commit;
- the clock: `Tick`.

A writer commits within `WriteLag` ticks of writing its file.

**Fairness.** Weak fairness is assumed only on the engine draining the table function, and on the statement ending. Users, writers and the clock are under no obligation to act.

**The contract (`CatalogLifecycle.tla`).** This is what the maintenance functions promise about a table's files (spec 4.4 and 8):
- a path is written once;
- a file is referenced while a committed snapshot or an open writer may read it;
- a file stops being referenced only when its writer aborts or a compaction schedules it;
- a removal from storage is one step that takes only unreferenced files;
- a commit drops catalog rows of scheduled files.

`CleanupFiles` instantiates it:
- `written` is `DOMAIN mtime`;
- `referenced` is `dataFiles \cup inflight`;
- `scheduled` is `DOMAIN scheduled`.

`ImplementsLifecycle` is the refinement property. The bind, the calls of `Execute`, the failures and the transaction's end are hidden.

The refinement is not the same check as `NoDanglingReference`:
- It constrains the moment of each removal, while the candidates were fixed at bind time (line 90). The state may have changed between the two.
- It catches the removal of a writer's file even when that writer later aborts. That leaves no dangling reference, but the writer's file was still referenced when it was removed.

## DeleteRegistry (`DeleteMap.tla`)

`DuckLakeDeleteMap` holds two maps and one mutex:
- `file_map`, which maps a delete file to its data file;
- `delete_data_map`, which maps a data file to its delete data.

Only the three `delete_data_map` methods take the mutex.

**State.**
- `prog` is each thread's program of calls, fixed for the run and drawn from the constant `Programs`.
- `next` and `pc` are the thread's place in its program.
- `holder` is the mutex.
- `fileMap` and `delMap` are the two maps.
- `access` holds the map accesses in progress, and `raced` the threads whose access overlaps a conflicting one.
- `ptr` is the raw pointer that `GetDeleteData` returned.
- `added` is a history variable: the delete data added per file since it was last cleared.

A `DuckLakeDeleteData` is represented by the set of row ids it deletes (the constant `Data`), so that "merged" can be stated as containment of rows.

**Actions.**
- Entering a call is a step of its own: `EnterLocked` takes the mutex, and `EnterUnlocked` is for the `file_map` methods, which take none. Each starts the call's map access.
- Each method is one action, lines 147-177:
  - it does the map operation;
  - it releases the lock;
  - it ends the access;
  - it returns.
- `UseDeleteData` is the caller dereferencing the pointer after the unlock.

An access that overlaps a conflicting one is a data race on an `unordered_map`. Its outcome is a nondeterministic choice: a write may be lost, and a find may return anything.

**Fairness.** Weak fairness per thread. The OS scheduler keeps a runnable thread running, and `std::mutex` promises nothing more.

## TypeCodec (`TypeCodec.tla`)

A `LogicalType` is a record of:
- an id;
- an alias;
- the decimal width and scale;
- a collation;
- children.

A stored string is a sequence of tokens. A token is a type name, a digit, or one of `decimal(`, `,`, `)`, a sign, a space or an unknown character. This is how `FromString` reads the string.

The conversions are modelled by what they do:
- `TypeToString` searches the table of 27 DuckLake types in source order. It handles JSON and decimals, and fails on nested and unsupported types.
- `FromString` checks the `decimal(` prefix, splits at the comma, and parses each part with `Stoull`.
- `Stoull` skips leading spaces, takes a sign, and folds a digit prefix. It rejects an empty prefix, and a negative number wraps, as `std::stoull` does.
- `ToUint8` narrows the result modulo 256.

**Actions.**
- `Store` and `StoreRejected`: the writer checks the column type and stores its string.
- `Load` and `LoadRejected`: the reader converts a stored string back. The initial state is either a writer's column or one of `StoredTexts`, which stands for a catalog written by someone else.

## Update planning (`UpdatePlan.tla`)

**State.** The binder's output for `UPDATE t SET ...`:
- the scan's column ids;
- `update.columns` and `update.expressions`;
- the projection;
- the RETURNING and SET DEFAULT flags;
- the table's partition fields.

**Actions.**
- `BindUpdateConstraints`, lines 301-344. This folds `BindColumn` over the physical columns. A column that is not set is looked up in the scan, and added to it when missing. It is then added again (line 341), and projected as an old value.
- `PlanUpdate`, lines 251-299:
  - it rejects RETURNING and SET DEFAULT;
  - it builds `expression_map`, where a missing key reads as 0, as `unordered_map::operator[]` does;
  - it orders the expressions by physical column;
  - it appends one expression per partition field (lines 232-249).

## Runs

| Run | Cfg | Expect | Checks |
|---|---|---|---|
| update | `MC_UpdatePipeline.cfg` | pass | TypeOK, UpdateConservation, UpdateRejectsDuplicates, Termination |
| update_source_blocked | `MC_UpdatePipeline_SourceBlocked.cfg` | violation | UpdateConservation |
| update_sink_blocked | `MC_UpdatePipeline_SinkBlocked.cfg` | violation | UpdateConservation |
| cleanup | `MC_CleanupFiles.cfg` | pass | TypeOK, NoDanglingReference, OutputFaithful, CleanupEffects, ImplementsLifecycle, StatementEnds |
| cleanup_options | `MC_CleanupFiles_Options.cfg` | violation | BindReadsOptions |
| cleanup_remove_fails | `MC_CleanupFiles_RemoveFails.cfg` | violation | TrackedUntilRemoved |
| registry | `MC_DeleteMap.cfg` | pass | TypeOK, NoDataRace |
| registry_use_after_free | `MC_DeleteMap_UseAfterFree.cfg` | violation | NoUseAfterFree |
| registry_merge | `MC_DeleteMap_Merge.cfg` | violation | DeletesMerged |
| codec | `MC_TypeCodec.cfg` | pass | RoundTrip |
| codec_narrowing | `MC_TypeCodec_Narrowing.cfg` | violation | Canonical |
| plan | `MC_UpdatePlan.cfg` | pass | TypeOK, PlanExpressions |

**What the passing runs show.**
- **update:**
  - A completed update inserts every input row once per occurrence. The delete marks exactly those rows, and the count equals the number inserted.
  - A completed update never registers a row twice.
  - Every update ends.
  - These hold while Combine, the Finalizes and the insert Sink may block.
- **cleanup:**
  - No committed data file is ever removed.
  - A statement returns exactly its candidates, in order, and removes them before it returns the first.
  - Only candidates are removed, and a dry run removes nothing.
  - Catalog rows go only for the candidates of an old-file cleanup that is not a dry run.
  - Every removal takes only files that neither the committed catalog nor a writer references at that moment. The statement refines `CatalogLifecycle`.
  - Every statement ends.
- **registry:**
  - No two accesses to one map overlap when only one thread uses `file_map`.
  - The registry's type invariant holds in every interleaving, races included. Its mutant is the lookup `file_map[filename]` in place of `find`, which would insert a default entry for a missing path.
- **codec:** every type a writer can store (every leaf type of the table, and `DECIMAL(w,s)` for the widths and scales checked) is read back as the same type.
- **plan:** for every choice of SET targets, scanned columns and partition fields on three columns, the planned expressions write each column with its new value when it is set and its old value otherwise. Each partition key is the transform of its key column's new value.

**What the violation runs show.** Each is a disagreement between the code and the spec. They are listed as findings in `PROJECT.json`.
- A copy source that answers BLOCKED with zero rows ends the replay silently and truncates the insert (line 170 before line 173).
- A nested Sink's BLOCKED result is discarded (line 99), so a chunk can be deleted and counted but never re-inserted.
- `cleanup_all => false` and `dry_run => false` act as true (lines 65 and 67).
- A file that `TryRemoveFile` fails to remove loses its scheduled row (line 140), so it is never retried as an old file.
- `GetDeleteData` returns a raw pointer after unlocking. Another thread's `ClearDeletes` frees the data before the caller uses it (line 166).
- `AddDeleteData` uses `emplace`, so delete data added later for the same file is dropped rather than merged (line 176). The rows it deletes are then not recorded, against spec 4.2's union.
- `decimal(-1,0)` and `decimal(300,2)` parse, and are narrowed to `uint8_t`: the stored text is read as a different type, which does not print back to the same text (line 82).

**Bounds.**
- **update:**
  - Two threads, so chunks are combined in both orders and a duplicated row can sit in two threads.
  - Three rows.
  - Three inputs: one chunk larger than the vector size, three single-row chunks, and a row matched twice across two chunks.
  - `VectorSize = 2`, so that the replay's chunks differ from the sink's chunks.
  - Threads are a symmetry set.
- **cleanup:**
  - Three files, one of them initial.
  - Four clock values, a writer lag of one and a retention interval of two, so both a fresh file and an old file exist.
  - `VectorSize = 1`, so two candidates take two calls.
  - Every cutoff mode, plus a dry run, is an invocation.
- **registry:** two threads, one data file and one delete file. Delete data are the row sets {1}, {2} and {1, 2}. t1 may register a delete file, look it up, add delete data and read it. t2 reads, clears and adds. The violation runs use the smallest programs that show each problem.
- **codec:** widths 0, 1, 18 and 38, and scales 0, 3 and 38. That covers the edges of DuckDB's decimal, plus a scale larger than the width. Stored texts cover:
  - an overflowing width (300) and a negative one;
  - a non-digit character, and leading spaces with a sign;
  - an empty scale, an empty width, empty parentheses and a bare `decimal`;
  - two plain names.
- **plan:** three columns (every subset of SET targets, in every order), every duplicate-free scan, and four partition specs: none, a year on column 0, and two specs of two fields each (identity and hour, month and day).

Each property of a passing run has a mutant in `PROJECT.json`. This is a plausible bug in a mapped definition, and TLC finds the property violated under the run's cfg.

## Proofs (`UpdatePipelineProofs.tla`)

The proofs are checked with `tlapm UpdatePipelineProofs.tla`.

- **`TypeCorrect`** proves `Spec => []TypeOK` for every value of the constants. It rests on `InitTypeOK` and `NextTypeOK`; the latter has one step per action. It uses two lemmas:
  - `SinkIntoType`: a sink keeps the state a sequence of rows;
  - `SourceAnswerBound`: a copy-source answer never returns more than the rows that remain.
- **`RejectsDuplicates`** proves `Spec => []UpdateRejectsDuplicates`, assuming `SinksConsume` (neither nested Sink can answer BLOCKED). The invariant alone is not inductive. The strengthening `IInv` says:
  - each thread's copy and delete states are equal, and so are the global ones;
  - in the sink phase the cursor is 0;
  - after the delete's Finalize the copy's output has no duplicate;
  - `inserted` is always the prefix `SubSeq(gcopy, 1, cursor)`.

  Before it was proved, `IInv` was checked with TLC as an invariant. The proof uses two lemmas:
  - `SubSeqAdjacent`: a replay chunk extends the prefix;
  - `SubSeqPrefixInjective`: a prefix of a duplicate-free sequence is duplicate-free.

  The assumption is needed: run `update_sink_blocked` shows that when sinks may block, the copy and the delete diverge.
- **`Conservation`** proves `Spec => []UpdateConservation` in full, assuming `SinksConsume` and `SourceNeverBlocks` (the copy's source never answers BLOCKED). Once GetData has reported a count:
  - every row of the child's output was inserted as often as the child produced it;
  - the delete marked exactly the inserted rows;
  - the count is the number of rows inserted.

  The proof is in two layers.

  *Counts.* `CInv` adds four facts to `IInv`:
  - each thread's `updated_count` is the length of its copy state;
  - the atomic total is the length of the merged copy output;
  - after the delete's Finalize, `deleted` is the set of the delete's rows;
  - once the replay has left its loop, the cursor is at the end of the copy's output.

  This layer needs no sum over threads, because `Combine` adds `lcount[t] = Len(lcopy[t])` to `total` exactly as it appends `lcopy[t]` to `gcopy`. The lemma `SourceAnswerComplete` says that a FINISHED answer carries all remaining rows, and so does an empty answer of a source that cannot block. `CInvCountConserved` derives the last two conjuncts of `UpdateConservation`.

  *Rows.* `PInv` adds three facts to `CInv`:
  - once a thread has combined, no chunk is pending;
  - the replay starts only after every thread has combined;
  - `Conserved(r)` holds for every row r.

  `Conserved(r)` says that every occurrence of r in the input is in exactly one place: a chunk the executor has not handed out, the copy state of a thread still sinking, or the merged copy output. The model counts occurrences of r instead of using bags. The occurrences are sets of positions, and across owners they are sets of tagged pairs `<<owner, i>>` (`Positions`). The installed libraries have theorems about the cardinality of finite sets but none about bags.

  The counting lemmas are proved from `FiniteSetTheorems` with explicit surjections and bijections, because the library's operator-parameter theorems are out of the provers' reach:
  - `ConcatOccurrences`: concatenation adds occurrences;
  - `PositionsSplit`: removing one owner subtracts its occurrences;
  - `PositionsFrame` and `PositionsEmpty`.

  `Sink` moves a chunk's occurrences from the pending chunks to a thread (`PositionsSplit` twice, `ConcatOccurrences` once). `Combine` moves them from the thread to the merged output. Every other step moves nothing (`FramePInv`). At the end, nothing is pending and no thread is sinking, because `ThreadsAssumption` makes `Threads` finite and nonempty. So the merged output, which is the inserted sequence, holds every occurrence.

  `CInv`, `PInv` and `UpdateConservation` were checked with TLC as invariants before the proof. The instances were run `update`'s instance, the same instance with `"source"` added to `MayBlock`, and one with `VectorSize = 1` and nothing blocking. With `"source"` in `MayBlock`, TLC finds the invariant violated, which is the failure run `update_source_blocked` shows.

**What stays with TLC.**
- Liveness: `Termination` and `StatementEnds`. TLAPS here does not handle liveness under fairness or ENABLED.
- `TypeCodec` and `UpdatePlan` (`RoundTrip`, `PlanExpressions` and their type invariants). Both compute by `FoldLeft`: `Stoull` folds the digits into a number, and `BindUpdateConstraints` folds over the physical columns. `FoldLeft` is the library's recursive function `MapThenFoldSet` over a LAMBDA. What it returns for every input is induction over data, and the library's induction theorems take an operator parameter that the installed provers cannot instantiate. Even the type invariants need the fold's result to be a number or a record of sequences.
- The failure runs (`update_source_blocked`, `update_sink_blocked`, `cleanup_options`, `cleanup_remove_fails`, `registry_use_after_free`, `registry_merge`, `codec_narrowing`). These state what the code does not do.

## Proofs (`CleanupFilesProofs.tla`)

The proofs are checked with `tlapm CleanupFilesProofs.tla`. They hold for every set of files, clock bound, vector size, write lag, cutoff and invocation set.

**The statement invariant `SInv`** strengthens `TypeOK`:
- `emitted` is the prefix `SubSeq(files, 1, offset)` of the candidates;
- an exhausted scan has `offset = Len(files)`;
- a run that is not dry and has returned a path has executed its removal;
- between statements no catalog row has been dropped;
- the dropped rows are candidates of an old-file cleanup that is not dry.

`InitSInv` and `NextSInv` prove it inductive. `NextSInv` has one lemma per group of actions: `TickSInv`, `EnvSInv` (writers and compaction), `BindSInv`, `ExecuteSInv` and `EndSInv` (commit and abort). The lemma `StmtFrame` says an environment step leaves the statement half intact. From `SInv`:
- **`TypeCorrect`**: `Spec => []TypeOK`. This needs `FilesAssumption`, that `Files` is finite, because `Bind` orders the candidates with `SetToSeq` (lemma `SetToSeqType`).
- **`ReturnsCandidates`**: `Spec => []OutputFaithful`.
- **`EffectsConfined`**: `Spec => CleanupEffects`, the action property that only candidates leave storage, a dry run removes nothing, and only a committed old-file cleanup drops catalog rows (lemma `StepEffects`).

**`NoDangling`** proves `Spec => []NoDanglingReference` under the hypothesis `OrphanDefaultCutoff`. That hypothesis says two things:
- orphan cleanup is invoked without `cleanup_all` or `older_than`;
- the configured `delete_older_than` interval is at least `WriteLag`, the time a writer takes to commit the file it wrote.

The invariant `Refs` adds these facts:
- every file the catalog, a writer or the statement knows of has an mtime;
- committed data files, writers' files and scheduled files are pairwise apart;
- committed and writers' files are on storage;
- a writer's file is at most `WriteLag` old;
- no candidate of the running statement is a committed or a writer's file.

The last fact is where the hypothesis is used. The lemma `CandidatesApart` shows that an orphan candidate is older than the cutoff, so it is older than any writer's file. A scheduled file is never a data file. `Refs` was checked with TLC on `cleanup`'s instance together with `SInv` (1.9M distinct states), and `SInv` with every invocation (6.3M states), before the proofs. The hypothesis is needed: with `cleanup_all`, or an `older_than` more recent than the commit lag, orphan cleanup removes a writer's file that is about to be committed. Run `cleanup`'s invocations and its values (`OrphanOlderThan = 2`, `WriteLag = 1`) satisfy the hypothesis.

**`Refinement`** proves `Spec => ImplementsLifecycle` under `OrphanDefaultCutoff`. It rests on `RInv`: the last conjunct of `Refs` says that no candidate of the running statement is a committed or a writer's file. `StepLifecycle` maps every step:
- `WriteFile` maps to `Write`, because a new path has no mtime.
- `AbortWrite` maps to `Release`, and `ScheduleFile` to `Schedule`. Both need committed and writers' files to be apart.
- `Execute` and `ExecuteRemoveFails` map to `Remove`. They remove a subset of the candidates, which `Refs` keeps apart from the referenced files.
- `CommitCleanup` maps to `Forget(removedRows)`.
- Every other step leaves the mapped variables alone.

With the mutant `BindFilterNoDefault`, an orphan cleanup removes a writer's file, and TLC finds the refinement violated.

**`TrackedWhenRemovalsSucceed`** proves `Spec => []TrackedUntilRemoved` under the hypothesis `~RemoveMayFail`, that `FileSystem::TryRemoveFile` never fails. It needs no hypothesis on the cutoffs: it holds for orphan cleanups that take a writer's file too. The invariant `TrackInv` adds three facts to `SInv`:
- every file on storage, in the catalog, with a writer, ever scheduled, or a candidate has an mtime (`Written`);
- no dropped catalog row belongs to a file still on storage;
- `TrackedUntilRemoved` itself.

A row can be lost in two ways, and the invariant closes both:
- `CommitCleanup` drops rows. It drops only `removedRows`, and since removals succeed, `Execute` removed exactly those files from storage when it dropped their rows.
- A scheduled file could reappear on storage. It cannot: `WriteFile` writes only a path that has no mtime yet, and every scheduled file has one.

`TrackInv` was checked with TLC before the proof, with `RemoveMayFail = FALSE`, on run `cleanup_remove_fails`'s instance (0.3M distinct states) and on the same instance with every invocation of both types (3.9M states). Run `cleanup_remove_fails` shows the hypothesis is needed. `TryRemoveFile`'s result is ignored (line 134) while the row is dropped (line 140), so after one failed removal the committed catalog forgets a file that is still on storage.

## Proofs (`DeleteMapProofs.tla`)

The proofs are checked with `tlapm DeleteMapProofs.tla`.

`RaceFree` assumes `OneFileMapUser`: in every program of `Programs`, at most one thread calls a `file_map` method. The code justifies this only by its callers: `file_map` has no lock, and the unlocked methods are safe only while one thread uses them. The programs of run `registry` satisfy the assumption. Two threads using `file_map` do race.

**`RaceFree`** proves `Spec => []NoDataRace`. The invariant is not inductive. The strengthening `IInv` says:
- no access has raced;
- a thread inside a call has a current call, and the call is guarded exactly when the thread is in pc `"locked"`;
- the mutex holder is exactly the thread in `"locked"`;
- every access in progress belongs to a thread inside a call, on the map that call touches.

With this, two `delete_data_map` accesses would need two holders of the mutex, and two `file_map` accesses would need two `file_map` users. `IInv` was checked with TLC before it was proved.

The proof has one step per action in `NextIInv`, and uses the lemma `LeaveCall`: returning from a method keeps `IInv`.

**`TypeCorrect`** proves `Spec => []TypeOK` with no assumption on the programs, races included. A racing write leaves the old map or the new one, and a racing `GetDeleteData` returns some delete data or nullptr. The strengthening `TInv` adds `InRange`, the fact that a thread inside a call, or about to use a pointer, has a call left in its program. Without it, a thread's current call would be undefined.

## Plan for the next sittings

1. **Compose** the update with the delete registry. Each delete sink thread would call `AddDeleteData`, and the update's count would be tied to the registry's entries.
2. **Prove** `PlanExpressions` for every number of columns. This needs `BindUpdateConstraints` stated as a recursive function instead of a fold over LAMBDA, together with its unfolding lemma.
