-------------------------- MODULE CleanupFilesProofs --------------------------
(***************************************************************************)
(* Proofs about the cleanup functions (CleanupFiles): the type invariant,  *)
(* what a statement returns and removes, and, when orphan cleanup keeps to *)
(* its configured interval, that no committed data file is ever removed.   *)
(***************************************************************************)
EXTENDS CleanupFiles, FiniteSetTheorems, TLAPS

(* The statement's scan: what Execute returned so far is the prefix of the *)
(* candidates up to offset, a call that returned paths of a run that is   *)
(* not dry has removed the candidates, and the catalog rows dropped are   *)
(* those of an old-file cleanup that is not dry (none between statements). *)
SInv ==
  /\ TypeOK
  /\ emitted = SubSeq(files, 1, offset)
  /\ cphase = "exhausted" => offset = Len(files)
  /\ (offset > 0 /\ ~cdry) => executed
  /\ cphase = "idle" => removedRows = {}
  /\ removedRows \subseteq (IF ctype = "OLD_FILES" /\ ~cdry THEN ToSet(files) ELSE {})

(* The catalog and storage: every file the catalog or a writer knows of   *)
(* was written (has an mtime) and is kept apart from the others; a writer *)
(* commits within WriteLag of writing; and no candidate of the running    *)
(* statement is a committed data file or a writer's file.                  *)
Refs ==
  /\ storage \cup dataFiles \cup DOMAIN scheduled \cup inflight \cup ToSet(files)
       \subseteq DOMAIN mtime
  /\ dataFiles \cap inflight = {}
  /\ dataFiles \cap DOMAIN scheduled = {}
  /\ inflight \cap DOMAIN scheduled = {}
  /\ dataFiles \cup inflight \subseteq storage
  /\ \A f \in inflight : clock - mtime[f] <= WriteLag
  /\ ToSet(files) \cap (dataFiles \cup inflight) = {}

RInv == SInv /\ Refs

(* Orphan cleanup keeps to the configured interval (no cleanup_all, no    *)
(* older_than), and that interval is at least the time a writer takes to  *)
(* commit the file it wrote.                                               *)
OrphanDefaultCutoff ==
  /\ \A inv \in Invocations : inv[1] = "ORPHANED_FILES" => DOMAIN inv[2] \subseteq {"dry_run"}
  /\ OrphanOlderThan \in Nat => OrphanOlderThan >= WriteLag

-----------------------------------------------------------------------------
(* SetToSeq, which Bind uses to order the candidates, yields a sequence of *)
(* the set's elements when the set is finite.                              *)
LEMMA SetToSeqType ==
  ASSUME NEW S, IsFiniteSet(S)
  PROVE  SetToSeq(S) \in Seq(S)
<1>1. Cardinality(S) \in Nat /\ ExistsBijection(1..Cardinality(S), S)
  BY FS_CardinalityType
<1>2. \E g \in [1..Cardinality(S) -> S] : IsInjective(g)
  BY <1>1 DEF ExistsBijection, Bijection, Injection
<1>3. SetToSeq(S) \in [1..Cardinality(S) -> S]
  BY <1>2 DEF SetToSeq
<1>4. QED
  BY <1>1, <1>3

(* Execute's output chunk extends the returned prefix.                     *)
LEMMA SubSeqExtend ==
  ASSUME NEW S, NEW s \in Seq(S), NEW m \in 0..Len(s), NEW n \in 0..(Len(s) - m)
  PROVE  SubSeq(s, 1, m) \o SubSeq(s, m + 1, m + n) = SubSeq(s, 1, m + n)
OBVIOUS

(* The size of an output chunk, while candidates remain.                   *)
LEMMA ChunkSizeBound ==
  ASSUME TypeOK, VectorSize \in Nat \ {0}, ~Exhausted
  PROVE  ChunkSize \in 1..(Len(files) - offset) /\ ChunkSize <= VectorSize
BY DEF ChunkSize, Exhausted, TypeOK

LEMMA InitSInv == Init => SInv
<1> SUFFICES ASSUME Init PROVE SInv
  OBVIOUS
<1> USE DEF Init, NoStatement
<1>1. clock \in 0..MaxTime /\ storage \subseteq Files
  BY FilesAssumption, TimeAssumption
<1>2. DOMAIN mtime \subseteq Files /\ mtime \in [DOMAIN mtime -> 0..MaxTime]
  BY FilesAssumption, TimeAssumption
<1>3. dataFiles \subseteq Files /\ DOMAIN scheduled \subseteq Files /\ scheduled \in [DOMAIN scheduled -> 0..MaxTime]
  BY FilesAssumption
<1>4. cphase \in {"idle", "bound", "exhausted", "failed", "rejected"} /\ ctype \in Types /\ DOMAIN copts \subseteq Params
  BY DEF Types
<1>5. files \in Seq(Files) /\ offset \in 0..Len(files) /\ emitted \in Seq(Files) /\ emitted = SubSeq(files, 1, offset)
  OBVIOUS
<1>6. inflight \subseteq Files /\ cdry \in BOOLEAN /\ executed \in BOOLEAN
      /\ removedRows \subseteq Files /\ everScheduled \subseteq Files
  OBVIOUS
<1>7. TypeOK
  BY <1>1, <1>2, <1>3, <1>4, <1>5, <1>6 DEF TypeOK
<1>8. QED
  BY <1>5, <1>7 DEF SInv

(* TypeOK in two halves: the catalog and storage, and the statement.      *)
EnvOK ==
  /\ clock \in 0..MaxTime
  /\ storage \subseteq Files
  /\ DOMAIN mtime \subseteq Files
  /\ mtime \in [DOMAIN mtime -> 0..MaxTime]
  /\ dataFiles \subseteq Files
  /\ DOMAIN scheduled \subseteq Files
  /\ scheduled \in [DOMAIN scheduled -> 0..MaxTime]
  /\ inflight \subseteq Files
  /\ everScheduled \subseteq Files

StmtOK ==
  /\ cphase \in {"idle", "bound", "exhausted", "failed", "rejected"}
  /\ ctype \in Types
  /\ DOMAIN copts \subseteq Params
  /\ cdry \in BOOLEAN
  /\ files \in Seq(Files)
  /\ offset \in 0..Len(files)
  /\ executed \in BOOLEAN
  /\ emitted \in Seq(Files)
  /\ removedRows \subseteq Files

LEMMA TypeOKSplit == TypeOK <=> EnvOK /\ StmtOK
BY DEF TypeOK, EnvOK, StmtOK

(* A step that leaves the statement alone and keeps the catalog and       *)
(* storage well typed keeps SInv.                                          *)
LEMMA StmtFrame ==
  ASSUME SInv, EnvOK', UNCHANGED <<cphase, stmtVars>>
  PROVE  SInv'
<1>1. StmtOK /\ StmtOK'
  BY TypeOKSplit DEF SInv, StmtOK, stmtVars
<1>2. TypeOK'
  BY <1>1 DEF TypeOK, EnvOK, StmtOK
<1>3. QED
  BY <1>2 DEF SInv, stmtVars

(* The writers, compactions and the clock leave the statement alone.       *)
LEMMA TickSInv ==
  ASSUME SInv, Tick
  PROVE  SInv'
<1>1. clock' \in 0..MaxTime
  BY TimeAssumption DEF SInv, TypeOK, Tick
<1>2. UNCHANGED <<storage, mtime, dataFiles, scheduled, inflight, everScheduled>>
  BY DEF Tick
<1>3. EnvOK'
  BY <1>1, <1>2 DEF SInv, TypeOK, EnvOK
<1>4. QED
  BY <1>3, StmtFrame DEF Tick

LEMMA EnvSInv ==
  ASSUME SInv, NEW f \in Files,
         WriteFile(f) \/ CommitWrite(f) \/ AbortWrite(f) \/ ScheduleFile(f)
  PROVE  SInv'
<1>1. EnvOK
  BY TypeOKSplit DEF SInv
<1>2. CASE WriteFile(f)
  <2>1. EnvOK'
    BY <1>1, <1>2 DEF WriteFile, EnvOK
  <2>2. QED
    BY <1>2, <2>1, StmtFrame DEF WriteFile
<1>3. CASE CommitWrite(f)
  <2>1. EnvOK'
    BY <1>1, <1>3 DEF CommitWrite, EnvOK
  <2>2. QED
    BY <1>3, <2>1, StmtFrame DEF CommitWrite
<1>4. CASE AbortWrite(f)
  <2>1. EnvOK'
    BY <1>1, <1>4 DEF AbortWrite, EnvOK
  <2>2. QED
    BY <1>4, <2>1, StmtFrame DEF AbortWrite
<1>5. CASE ScheduleFile(f)
  <2>1. EnvOK'
    BY <1>1, <1>5 DEF ScheduleFile, EnvOK
  <2>2. QED
    BY <1>5, <2>1, StmtFrame DEF ScheduleFile
<1>6. QED
  BY <1>2, <1>3, <1>4, <1>5

LEMMA BindSInv ==
  ASSUME SInv, NEW inv \in Invocations, Bind(inv[1], inv[2]) \/ BindRejected(inv[1], inv[2])
  PROVE  SInv'
<1> USE DEF SInv
<1>1. CASE Bind(inv[1], inv[2])
  <2> DEFINE C == FilesForCleanup(inv[1], BindFilter(inv[1], inv[2]))
  <2>1. C \subseteq Files
    BY DEF FilesForCleanup, TypeOK
  <2>2. IsFiniteSet(C)
    BY <2>1, FilesAssumption, FS_Subset
  <2>3. files' \in Seq(Files)
    BY <1>1, <2>1, <2>2, SetToSeqType DEF Bind
  <2>4. EnvOK /\ EnvOK'
    BY <1>1, TypeOKSplit DEF Bind, EnvOK
  <2>5. inv[1] \in Types /\ DOMAIN inv[2] \subseteq Params
    BY InvocationsAssumption
  <2>6. StmtOK'
    <3>1. cphase' = "bound" /\ ctype' = inv[1] /\ copts' = inv[2] /\ offset' = 0
          /\ executed' = FALSE /\ emitted' = <<>> /\ removedRows' = {}
      BY <1>1 DEF Bind
    <3>2. cdry' \in BOOLEAN
      BY <1>1 DEF Bind, GivesDryRun
    <3>3. offset' \in 0..Len(files')
      BY <2>3, <3>1
    <3>4. emitted' \in Seq(Files) /\ removedRows' \subseteq Files
      BY <3>1
    <3>7. executed' \in BOOLEAN
      BY <3>1, Zenon
    <3>5. cphase' \in {"idle", "bound", "exhausted", "failed", "rejected"}
          /\ ctype' \in Types /\ DOMAIN copts' \subseteq Params
      BY <2>5, <3>1
    <3>6. QED
      BY <2>3, <3>2, <3>3, <3>4, <3>5, <3>7, Zenon DEF StmtOK
  <2>7. TypeOK'
    BY <2>4, <2>6 DEF TypeOK, EnvOK, StmtOK
  <2>8. QED
    BY <1>1, <2>7 DEF Bind
<1>2. CASE BindRejected(inv[1], inv[2])
  <2>1. inv[1] \in Types /\ DOMAIN inv[2] \subseteq Params
    BY InvocationsAssumption
  <2>2. TypeOK'
    BY <1>2, <2>1 DEF BindRejected, TypeOK
  <2>3. QED
    BY <1>2, <2>2 DEF BindRejected
<1>3. QED
  BY <1>1, <1>2

LEMMA ExecuteSInv ==
  ASSUME SInv, Execute \/ ExecuteDone \/ ExecuteRemoveFails
  PROVE  SInv'
<1> USE DEF SInv
<1>1. CASE Execute
  <2>0. /\ files \in Seq(Files) /\ offset \in 0..Len(files)
        /\ emitted = SubSeq(files, 1, offset) /\ removedRows \subseteq Files
    BY DEF TypeOK
  <2>1. ChunkSize \in 1..(Len(files) - offset) /\ ChunkSize <= VectorSize
    BY <1>1, ChunkSizeBound, VectorSizeAssumption DEF Execute
  <2>2. emitted' = SubSeq(files, 1, offset + ChunkSize)
    <3>1. SubSeq(files, 1, offset) \o SubSeq(files, offset + 1, offset + ChunkSize)
          = SubSeq(files, 1, offset + ChunkSize)
      BY <2>0, <2>1, SubSeqExtend
    <3>2. emitted' = emitted \o SubSeq(files, offset + 1, offset + ChunkSize)
      BY <1>1 DEF Execute
    <3>3. QED
      BY <2>0, <3>1, <3>2
  <2>3. storage' \subseteq Files
    BY <1>1 DEF Execute, TypeOK
  <2>4. removedRows' \in {RowsRemoved(files), removedRows}
    BY <1>1, Zenon DEF Execute
  <2>5. removedRows' \subseteq Files
    BY <2>0, <2>4 DEF RowsRemoved, ToSet
  <2>6. /\ files' = files /\ offset' \in 0..Len(files') /\ emitted' \in Seq(Files)
        /\ cphase' = cphase /\ ctype' = ctype /\ copts' = copts
    BY <1>1, <2>0, <2>1, <2>2 DEF Execute
  <2>7. cdry' \in BOOLEAN /\ executed' \in BOOLEAN
    BY <1>1, Zenon DEF Execute, TypeOK
  <2>8. StmtOK'
    BY <2>5, <2>6, <2>7, Zenon DEF TypeOK, StmtOK
  <2>9. EnvOK'
    BY <1>1, <2>3 DEF Execute, TypeOK, EnvOK
  <2>10. TypeOK'
    BY <2>8, <2>9 DEF TypeOK, EnvOK, StmtOK
  <2>11. removedRows' \subseteq (IF ctype' = "OLD_FILES" /\ ~cdry' THEN ToSet(files') ELSE {})
    BY <1>1 DEF Execute, RemovesNow, RowsRemoved
  <2>12. (offset' > 0 /\ ~cdry') => executed'
    BY <1>1, Zenon DEF Execute, RemovesNow
  <2>13. cphase' = "exhausted" => offset' = Len(files')
    BY <1>1 DEF Execute
  <2>14. cphase' = "idle" => removedRows' = {}
    BY <1>1 DEF Execute
  <2>15. emitted' = SubSeq(files', 1, offset')
    BY <1>1, <2>2 DEF Execute
  <2>16. QED
    BY <2>10, <2>11, <2>12, <2>13, <2>14, <2>15, Zenon
<1>2. CASE ExecuteDone
  BY <1>2 DEF ExecuteDone, Exhausted, TypeOK, stmtVars
<1>3. CASE ExecuteRemoveFails
  BY <1>3 DEF ExecuteRemoveFails, TypeOK, stmtVars
<1>4. QED
  BY <1>1, <1>2, <1>3

LEMMA EndSInv ==
  ASSUME SInv, CommitCleanup \/ AbortCleanup
  PROVE  SInv'
<1>1. NoStatement(ctype', copts', cdry', files', offset', executed', emitted', removedRows')
      /\ cphase' = "idle"
  BY DEF CommitCleanup, AbortCleanup
<1>2. /\ cphase' = "idle" /\ removedRows' = {} /\ files' = <<>> /\ offset' = 0
      /\ emitted' = <<>> /\ ctype' = "OLD_FILES" /\ DOMAIN copts' = {}
  BY <1>1 DEF NoStatement
<1>3. cdry' \in BOOLEAN /\ executed' \in BOOLEAN
  BY <1>1, Zenon DEF NoStatement
<1>4. StmtOK'
  <2>1. /\ cphase' \in {"idle", "bound", "exhausted", "failed", "rejected"}
        /\ ctype' \in Types /\ DOMAIN copts' \subseteq Params
        /\ files' \in Seq(Files) /\ offset' \in 0..Len(files')
        /\ emitted' \in Seq(Files) /\ removedRows' \subseteq Files
    BY <1>2 DEF Types
  <2>2. QED
    BY <1>3, <2>1, Zenon DEF StmtOK
<1>5. EnvOK'
  <2>1. EnvOK
    BY TypeOKSplit DEF SInv
  <2>2. CASE CommitCleanup
    BY <2>1, <2>2 DEF CommitCleanup, EnvOK
  <2>3. CASE AbortCleanup
    BY <2>1, <2>3 DEF AbortCleanup, EnvOK
  <2>4. QED
    BY <2>2, <2>3
<1>6. TypeOK'
  BY <1>4, <1>5 DEF TypeOK, EnvOK, StmtOK
<1>7. QED
  BY <1>2, <1>6 DEF SInv

LEMMA NextSInv == SInv /\ [Next]_vars => SInv'
<1> SUFFICES ASSUME SInv, [Next]_vars PROVE SInv'
  OBVIOUS
<1>1. CASE Tick
  BY <1>1, TickSInv
<1>2. CASE \E f \in Files : WriteFile(f) \/ CommitWrite(f) \/ AbortWrite(f) \/ ScheduleFile(f)
  BY <1>2, EnvSInv
<1>3. CASE \E inv \in Invocations : Bind(inv[1], inv[2]) \/ BindRejected(inv[1], inv[2])
  BY <1>3, BindSInv
<1>4. CASE ExecuteDone \/ Execute \/ ExecuteRemoveFails
  BY <1>4, ExecuteSInv
<1>5. CASE CommitCleanup \/ AbortCleanup
  BY <1>5, EndSInv
<1>6. CASE UNCHANGED vars
  BY <1>6 DEF SInv, TypeOK, vars
<1>7. QED
  BY <1>1, <1>2, <1>3, <1>4, <1>5, <1>6 DEF Next

-----------------------------------------------------------------------------
(* CleanupFiles' type invariant holds in every reachable state.             *)
THEOREM TypeCorrect == Spec => []TypeOK
<1>1. Init => SInv
  BY InitSInv
<1>2. SInv /\ [Next]_vars => SInv'
  BY NextSInv
<1>3. SInv => TypeOK
  BY DEF SInv
<1>4. QED
  BY <1>1, <1>2, <1>3, PTL DEF Spec

LEMMA SInvOutputFaithful == SInv => OutputFaithful
<1> SUFFICES ASSUME SInv PROVE OutputFaithful
  OBVIOUS
<1>1. files \in Seq(Files) /\ offset \in 0..Len(files) /\ emitted = SubSeq(files, 1, offset)
  BY DEF SInv, TypeOK
<1>2. Len(emitted) = offset
  BY <1>1
<1>3. IsPrefix(emitted, files)
  BY <1>1, <1>2 DEF IsPrefix
<1>4. cphase = "exhausted" => emitted = files
  BY <1>1 DEF SInv
<1>5. emitted # <<>> => offset > 0
  BY <1>1, <1>2
<1>6. (emitted # <<>> /\ ~cdry) => executed
  BY <1>5, Zenon DEF SInv
<1>7. QED
  BY <1>3, <1>4, <1>6 DEF OutputFaithful

(* What DuckLakeCleanupExecute returns: the candidates, in order, each     *)
(* once, all of them once the scan is over, and only after it has removed *)
(* them when the run is not dry (OutputFaithful, for every instance).      *)
THEOREM ReturnsCandidates == Spec => []OutputFaithful
BY InitSInv, NextSInv, SInvOutputFaithful, PTL DEF Spec

(* The candidates a prefix of the scan names.                              *)
LEMMA SubSeqElems ==
  ASSUME NEW S, NEW s \in Seq(S), NEW k \in 0..Len(s)
  PROVE  ToSet(SubSeq(s, 1, k)) \subseteq ToSet(s)
BY DEF ToSet

(* The effects a single step may have on storage and on the catalog.      *)
Effects ==
  /\ storage \ storage' \subseteq ToSet(files)
  /\ cdry => storage \subseteq storage'
  /\ DOMAIN scheduled \ DOMAIN scheduled'
       \subseteq (IF ctype = "OLD_FILES" /\ ~cdry THEN ToSet(files) ELSE {})

LEMMA StepEffects ==
  ASSUME SInv, [Next]_vars
  PROVE  [Effects]_vars
<1>1. files \in Seq(Files) /\ storage \subseteq Files
  BY DEF SInv, TypeOK
<1>2. CASE Execute
  <2>1. storage' \subseteq storage /\ storage \ storage' \subseteq ToSet(files)
    BY <1>2 DEF Execute
  <2>2. cdry => storage' = storage
    BY <1>2, Zenon DEF Execute, RemovesNow
  <2>3. QED
    BY <1>2, <2>1, <2>2 DEF Execute, Effects
<1>3. CASE ExecuteRemoveFails
  <2>1. PICK k \in 0..(Len(files) - 1) : storage' = storage \ ToSet(SubSeq(files, 1, k))
    BY <1>3 DEF ExecuteRemoveFails
  <2>2. storage \ storage' \subseteq ToSet(files)
    BY <1>1, <2>1, SubSeqElems
  <2>3. ~cdry
    BY <1>3, Zenon DEF ExecuteRemoveFails, RemovesNow
  <2>4. QED
    BY <1>3, <2>2, <2>3 DEF ExecuteRemoveFails, Effects
<1>4. CASE CommitCleanup
  <2>1. DOMAIN scheduled \ DOMAIN scheduled' \subseteq removedRows
    BY <1>4 DEF CommitCleanup
  <2>2. QED
    BY <1>4, <2>1 DEF CommitCleanup, Effects, SInv
<1>5. CASE ~Execute /\ ~ExecuteRemoveFails /\ ~CommitCleanup
  <2>1. storage \subseteq storage' /\ DOMAIN scheduled \subseteq DOMAIN scheduled'
    BY <1>5 DEF Next, vars, Tick, WriteFile, CommitWrite, AbortWrite, ScheduleFile, Bind,
           BindRejected, ExecuteDone, AbortCleanup
  <2>2. QED
    BY <2>1 DEF Effects
<1>6. QED
  BY <1>2, <1>3, <1>4, <1>5

(* Only a cleanup removes files, and only its candidates; a dry run        *)
(* removes nothing; catalog rows go only for the candidates of an         *)
(* old-file cleanup that is not dry (CleanupEffects, for every instance).  *)
THEOREM EffectsConfined == Spec => CleanupEffects
BY InitSInv, NextSInv, StepEffects, PTL DEF Spec, CleanupEffects, Effects

-----------------------------------------------------------------------------
(* Refs under the writers, compactions and the clock.                      *)
LEMMA EnvRefs ==
  ASSUME TypeOK, Refs, NEW f \in Files,
         Tick \/ WriteFile(f) \/ CommitWrite(f) \/ AbortWrite(f) \/ ScheduleFile(f)
  PROVE  Refs'
<1> USE DEF Refs
<1>1. CASE Tick
  BY <1>1 DEF Tick, stmtVars, TypeOK
<1>2. CASE WriteFile(f)
  <2>1. f \notin storage \cup dataFiles \cup DOMAIN scheduled \cup inflight \cup ToSet(files)
    BY <1>2 DEF WriteFile
  <2>2. mtime'[f] = clock /\ \A g \in DOMAIN mtime : mtime'[g] = mtime[g]
    BY <1>2 DEF WriteFile
  <2>3. clock \in Nat /\ WriteLag \in Nat
    BY TimeAssumption DEF TypeOK
  <2>4. QED
    BY <1>2, <2>1, <2>2, <2>3 DEF WriteFile, stmtVars, TypeOK
<1>3. CASE CommitWrite(f)
  BY <1>3 DEF CommitWrite, stmtVars
<1>4. CASE AbortWrite(f)
  BY <1>4 DEF AbortWrite, stmtVars
<1>5. CASE ScheduleFile(f)
  BY <1>5 DEF ScheduleFile, stmtVars
<1>6. QED
  BY <1>1, <1>2, <1>3, <1>4, <1>5

(* The candidates a statement binds are files that have been written, and *)
(* neither committed data files nor a writer's files, when orphan cleanup *)
(* keeps to its interval.                                                  *)
LEMMA CandidatesApart ==
  ASSUME TypeOK, Refs, OrphanDefaultCutoff, NEW inv \in Invocations,
         ~BindRejects(inv[1], inv[2])
  PROVE  LET C == FilesForCleanup(inv[1], BindFilter(inv[1], inv[2]))
         IN  C \subseteq DOMAIN mtime /\ C \cap (dataFiles \cup inflight) = {}
<1> DEFINE C == FilesForCleanup(inv[1], BindFilter(inv[1], inv[2]))
<1>1. inv[1] \in Types
  BY InvocationsAssumption
<1>2. CASE inv[1] = "OLD_FILES"
  BY <1>2 DEF FilesForCleanup, Refs
<1>3. CASE inv[1] = "ORPHANED_FILES"
  <2>1. C \subseteq storage \ (dataFiles \cup DOMAIN scheduled)
    BY <1>3 DEF FilesForCleanup
  <2>2. ~GivesCleanupAll(inv[2]) /\ ~GivesTimestamp(inv[2])
    BY <1>3 DEF OrphanDefaultCutoff, GivesCleanupAll, GivesTimestamp
  <2>3. OrphanOlderThan # NoInterval
    BY <1>3, <2>2 DEF BindRejects, DefaultOf
  <2>4. OrphanOlderThan \in Nat /\ OrphanOlderThan >= WriteLag
    BY <2>3, IntervalAssumption DEF OrphanDefaultCutoff
  <2>5. BindFilter(inv[1], inv[2]) = [has |-> TRUE, ts |-> clock - OrphanOlderThan]
    BY <1>3, <2>2, <2>3 DEF BindFilter, DefaultOf
  <2>6. ASSUME NEW g \in inflight PROVE g \notin C
    <3>1. g \in DOMAIN mtime /\ mtime[g] \in 0..MaxTime /\ clock \in 0..MaxTime
      BY DEF Refs, TypeOK
    <3>2. clock - mtime[g] <= WriteLag
      BY DEF Refs
    <3>3. ~Older(mtime[g], BindFilter(inv[1], inv[2]))
      BY <2>4, <2>5, <3>1, <3>2, TimeAssumption DEF Older
    <3>4. QED
      BY <1>3, <3>3 DEF FilesForCleanup
  <2>7. QED
    BY <2>1, <2>6 DEF Refs
<1>4. QED
  BY <1>1, <1>2, <1>3 DEF Types

(* Refs under the statement's steps.                                       *)
LEMMA StmtRefs ==
  ASSUME TypeOK, Refs, OrphanDefaultCutoff,
         \/ \E inv \in Invocations : Bind(inv[1], inv[2]) \/ BindRejected(inv[1], inv[2])
         \/ ExecuteDone \/ Execute \/ ExecuteRemoveFails
         \/ CommitCleanup \/ AbortCleanup
  PROVE  Refs'
<1> USE DEF Refs
<1>1. CASE \E inv \in Invocations : Bind(inv[1], inv[2])
  <2>1. PICK inv \in Invocations : Bind(inv[1], inv[2])
    BY <1>1
  <2> DEFINE C == FilesForCleanup(inv[1], BindFilter(inv[1], inv[2]))
  <2>2. C \subseteq DOMAIN mtime /\ C \cap (dataFiles \cup inflight) = {}
    BY <2>1, CandidatesApart DEF Bind
  <2>3. IsFiniteSet(C)
    <3>1. C \subseteq Files
      BY DEF FilesForCleanup, TypeOK
    <3>2. QED
      BY <3>1, FilesAssumption, FS_Subset
  <2>4. ToSet(files') \subseteq C
    <3>1. files' \in Seq(C)
      BY <2>1, <2>3, SetToSeqType DEF Bind
    <3>2. QED
      BY <3>1 DEF ToSet
  <2>5. QED
    BY <2>1, <2>2, <2>4 DEF Bind
<1>2. CASE \E inv \in Invocations : BindRejected(inv[1], inv[2])
  BY <1>2 DEF BindRejected
<1>3. CASE ExecuteDone
  BY <1>3 DEF ExecuteDone, stmtVars
<1>4. CASE Execute
  <2>1. storage' \subseteq storage /\ storage \ storage' \subseteq ToSet(files)
    BY <1>4 DEF Execute
  <2>2. QED
    BY <1>4, <2>1 DEF Execute
<1>5. CASE ExecuteRemoveFails
  <2>1. PICK k \in 0..(Len(files) - 1) : storage' = storage \ ToSet(SubSeq(files, 1, k))
    BY <1>5 DEF ExecuteRemoveFails
  <2>2. storage \ storage' \subseteq ToSet(files)
    BY <2>1, SubSeqElems DEF TypeOK
  <2>3. QED
    BY <1>5, <2>1, <2>2 DEF ExecuteRemoveFails, stmtVars
<1>6. CASE CommitCleanup \/ AbortCleanup
  <2>1. files' = <<>>
    BY <1>6 DEF CommitCleanup, AbortCleanup, NoStatement
  <2>2. ToSet(files') = {}
    BY <2>1 DEF ToSet
  <2>3. QED
    BY <1>6, <2>2 DEF CommitCleanup, AbortCleanup
<1>7. QED
  BY <1>1, <1>2, <1>3, <1>4, <1>5, <1>6

LEMMA InitRefs == Init => Refs
<1> SUFFICES ASSUME Init PROVE Refs
  OBVIOUS
<1>1. files = <<>> /\ ToSet(files) = {}
  BY DEF Init, NoStatement, ToSet
<1>2. QED
  BY <1>1 DEF Init, Refs

LEMMA NextRInv ==
  ASSUME OrphanDefaultCutoff, RInv, [Next]_vars
  PROVE  RInv'
<1>1. SInv'
  BY NextSInv DEF RInv
<1>2. TypeOK /\ Refs
  BY Zenon DEF RInv, SInv
<1>3. SUFFICES Refs'
  BY <1>1 DEF RInv
<1>4. CASE \E f \in Files : WriteFile(f) \/ CommitWrite(f) \/ AbortWrite(f) \/ ScheduleFile(f)
  BY <1>2, <1>4, EnvRefs
<1>5. CASE Tick
  BY <1>2, <1>5 DEF Tick, Refs, stmtVars, TypeOK
<1>6. CASE \/ \E inv \in Invocations : Bind(inv[1], inv[2]) \/ BindRejected(inv[1], inv[2])
           \/ ExecuteDone \/ Execute \/ ExecuteRemoveFails
           \/ CommitCleanup \/ AbortCleanup
  BY <1>2, <1>6, StmtRefs
<1>7. CASE UNCHANGED vars
  BY <1>2, <1>7 DEF vars, Refs
<1>8. QED
  BY <1>4, <1>5, <1>6, <1>7 DEF Next

(* No committed data file is ever removed from storage, for every          *)
(* instance, as long as orphan cleanup keeps to its configured interval and *)
(* that interval is at least a writer's commit lag (NoDanglingReference).  *)
(* Without the hypothesis orphan cleanup may take a writer's file that is  *)
(* about to be committed.                                                  *)
THEOREM NoDangling ==
  ASSUME OrphanDefaultCutoff
  PROVE  Spec => []NoDanglingReference
<1>1. Init => RInv
  BY InitSInv, InitRefs DEF RInv
<1>2. RInv /\ [Next]_vars => RInv'
  BY NextRInv
<1>3. RInv => NoDanglingReference
  BY DEF RInv, Refs, NoDanglingReference
<1>4. QED
  BY <1>1, <1>2, <1>3, PTL DEF Spec



-----------------------------------------------------------------------------
(* The refinement.  Every step of the statement or of its environment is  *)
(* a step of CatalogLifecycle or leaves its variables alone.               *)
LEMMA InitLifecycle == Init => Lifecycle!Init
BY DEF Init, Lifecycle!Init

LEMMA StepLifecycle ==
  ASSUME RInv, [Next]_vars
  PROVE  [Lifecycle!Next]_Lifecycle!avars
<1> USE DEF Lifecycle!avars
<1>1. TypeOK /\ Refs
  BY Zenon DEF RInv, SInv
<1>2. ASSUME NEW f \in Files, WriteFile(f) PROVE Lifecycle!Next
  <2>1. Lifecycle!Write(f)
    <3>1. f \notin DOMAIN mtime /\ DOMAIN mtime' = DOMAIN mtime \cup {f}
      BY <1>2 DEF WriteFile
    <3>2. QED
      BY <1>2, <3>1 DEF WriteFile, Lifecycle!Write
  <2>2. QED
    BY <2>1 DEF Lifecycle!Next
<1>3. ASSUME NEW f \in Files, CommitWrite(f) PROVE UNCHANGED Lifecycle!avars
  BY <1>3 DEF CommitWrite
<1>4. ASSUME NEW f \in Files, AbortWrite(f) PROVE Lifecycle!Next
  <2>1. f \notin dataFiles
    BY <1>1, <1>4 DEF AbortWrite, Refs
  <2>2. Lifecycle!Release(f)
    BY <1>4, <2>1 DEF AbortWrite, Lifecycle!Release
  <2>3. QED
    BY <2>2 DEF Lifecycle!Next
<1>5. ASSUME NEW f \in Files, ScheduleFile(f) PROVE Lifecycle!Next
  <2>1. f \notin inflight /\ DOMAIN scheduled' = DOMAIN scheduled \cup {f}
    BY <1>1, <1>5 DEF ScheduleFile, Refs
  <2>2. Lifecycle!Schedule(f)
    BY <1>5, <2>1 DEF ScheduleFile, Lifecycle!Schedule
  <2>3. QED
    BY <2>2 DEF Lifecycle!Next
<1>6. ASSUME Tick \/ ExecuteDone \/ AbortCleanup
             \/ \E inv \in Invocations : Bind(inv[1], inv[2]) \/ BindRejected(inv[1], inv[2])
      PROVE  UNCHANGED Lifecycle!avars
  BY <1>6 DEF Tick, ExecuteDone, AbortCleanup, Bind, BindRejected
(* A removal takes a set of candidates, which Refs keeps apart from the   *)
(* referenced files.                                                       *)
<1>7. ASSUME NEW S \in SUBSET ToSet(files),
             storage' = storage \ S,
             UNCHANGED <<mtime, dataFiles, inflight, scheduled>>
      PROVE  Lifecycle!Next
  <2>1. S \in SUBSET Files /\ S \cap (dataFiles \cup inflight) = {}
    BY <1>1 DEF Refs, TypeOK, ToSet
  <2>2. Lifecycle!Remove(S)
    BY <1>7, <2>1 DEF Lifecycle!Remove
  <2>3. QED
    BY <2>1, <2>2 DEF Lifecycle!Next
<1>8. ASSUME Execute PROVE [Lifecycle!Next]_Lifecycle!avars
  <2>1. PICK kept \in RemovalFailures :
          storage' = IF RemovesNow THEN storage \ (ToSet(files) \ kept) ELSE storage
    BY <1>8 DEF Execute
  <2>2. UNCHANGED <<mtime, dataFiles, inflight, scheduled>>
    BY <1>8 DEF Execute
  <2>3. CASE RemovesNow
    BY <1>7, <2>1, <2>2, <2>3
  <2>4. CASE ~RemovesNow
    BY <2>1, <2>2, <2>4
  <2>5. QED
    BY <2>3, <2>4
<1>9. ASSUME ExecuteRemoveFails PROVE Lifecycle!Next
  <2>1. PICK k \in 0..(Len(files) - 1) : storage' = storage \ ToSet(SubSeq(files, 1, k))
    BY <1>9 DEF ExecuteRemoveFails
  <2>2. ToSet(SubSeq(files, 1, k)) \subseteq ToSet(files)
    BY <1>1, <2>1, SubSeqElems DEF TypeOK
  <2>3. QED
    BY <1>7, <1>9, <2>1, <2>2 DEF ExecuteRemoveFails
<1>10. ASSUME CommitCleanup PROVE Lifecycle!Next
  <2>1. DOMAIN scheduled' = DOMAIN scheduled \ removedRows /\ removedRows \in SUBSET Files
    BY <1>1, <1>10 DEF CommitCleanup, TypeOK
  <2>2. Lifecycle!Forget(removedRows)
    BY <1>10, <2>1 DEF CommitCleanup, Lifecycle!Forget
  <2>3. QED
    BY <2>1, <2>2 DEF Lifecycle!Next
<1>11. CASE UNCHANGED vars
  BY <1>11 DEF vars
<1>12. QED
  BY <1>2, <1>3, <1>4, <1>5, <1>6, <1>8, <1>9, <1>10, <1>11 DEF Next

(* ImplementsLifecycle, for every instance in which orphan cleanup keeps  *)
(* to its configured interval and that interval is at least a writer's    *)
(* commit lag: the statement's removals, made from candidates fixed at     *)
(* bind time and spread over the calls of Execute, never take a file that  *)
(* a committed snapshot or a writer references at the moment of removal, *)
(* no path is written twice, and catalog rows go only at a commit.        *)
THEOREM Refinement ==
  ASSUME OrphanDefaultCutoff
  PROVE  Spec => ImplementsLifecycle
<1>1. Init => RInv
  BY InitSInv, InitRefs DEF RInv
<1>2. RInv /\ [Next]_vars => RInv'
  BY NextRInv
<1>3. RInv /\ [Next]_vars => [Lifecycle!Next]_Lifecycle!avars
  BY StepLifecycle
<1>4. QED
  BY <1>1, <1>2, <1>3, InitLifecycle, PTL DEF Spec, ImplementsLifecycle, Lifecycle!Spec

-----------------------------------------------------------------------------
(* Tracked files.  When TryRemoveFile never fails, Execute removes every   *)
(* candidate whose catalog row it drops, so the commit of a cleanup never *)
(* leaves a scheduled file on storage without its row.  Storage paths are *)
(* never reused: a writer writes only a file that has no mtime yet.        *)
Written ==
  storage \cup dataFiles \cup DOMAIN scheduled \cup inflight \cup everScheduled
    \cup ToSet(files) \subseteq DOMAIN mtime

TrackInv ==
  /\ SInv
  /\ Written
  /\ removedRows \cap storage = {}
  /\ TrackedUntilRemoved

LEMMA InitTrackInv == Init => TrackInv
<1> SUFFICES ASSUME Init PROVE TrackInv
  OBVIOUS
<1>1. ToSet(files) = {}
  BY DEF Init, NoStatement, ToSet
<1>2. QED
  BY <1>1, InitSInv DEF Init, NoStatement, TrackInv, Written, TrackedUntilRemoved

(* The dropped catalog rows are candidates, hence written files.           *)
LEMMA RowsWritten ==
  ASSUME SInv, Written PROVE removedRows \subseteq DOMAIN mtime
BY DEF SInv, Written

LEMMA EnvTrackInv ==
  ASSUME TrackInv, SInv', NEW f \in Files,
         WriteFile(f) \/ CommitWrite(f) \/ AbortWrite(f) \/ ScheduleFile(f)
  PROVE  TrackInv'
<1> USE DEF TrackInv, Written, TrackedUntilRemoved
<1>0. removedRows \subseteq DOMAIN mtime
  BY RowsWritten
<1>2. CASE WriteFile(f)
  <2>1. f \notin DOMAIN mtime /\ DOMAIN mtime' = DOMAIN mtime \cup {f}
    BY <1>2 DEF WriteFile
  <2>2. QED
    BY <1>0, <1>2, <2>1 DEF WriteFile, stmtVars
<1>3. CASE CommitWrite(f) \/ AbortWrite(f)
  BY <1>3 DEF CommitWrite, AbortWrite, stmtVars
<1>4. CASE ScheduleFile(f)
  <2>1. DOMAIN scheduled' = DOMAIN scheduled \cup {f}
    BY <1>4 DEF ScheduleFile
  <2>2. QED
    BY <1>4, <2>1 DEF ScheduleFile, stmtVars
<1>5. QED
  BY <1>2, <1>3, <1>4

LEMMA StmtTrackInv ==
  ASSUME ~RemoveMayFail, TrackInv, SInv',
         \/ \E inv \in Invocations : Bind(inv[1], inv[2]) \/ BindRejected(inv[1], inv[2])
         \/ ExecuteDone \/ Execute \/ ExecuteRemoveFails
         \/ CommitCleanup \/ AbortCleanup
  PROVE  TrackInv'
<1> USE DEF TrackInv, Written, TrackedUntilRemoved
<1>1. CASE \E inv \in Invocations : Bind(inv[1], inv[2])
  <2>1. PICK inv \in Invocations : Bind(inv[1], inv[2])
    BY <1>1
  <2> DEFINE C == FilesForCleanup(inv[1], BindFilter(inv[1], inv[2]))
  <2>2. C \subseteq DOMAIN mtime
    BY DEF FilesForCleanup
  <2>3. IsFiniteSet(C)
    <3>1. C \subseteq Files
      BY DEF FilesForCleanup, SInv, TypeOK
    <3>2. QED
      BY <3>1, FilesAssumption, FS_Subset
  <2>4. ToSet(files') \subseteq C
    <3>1. files' \in Seq(C)
      BY <2>1, <2>3, SetToSeqType DEF Bind
    <3>2. QED
      BY <3>1 DEF ToSet
  <2>5. QED
    BY <2>1, <2>2, <2>4 DEF Bind
<1>2. CASE \E inv \in Invocations : BindRejected(inv[1], inv[2])
  BY <1>2 DEF BindRejected
<1>3. CASE ExecuteDone
  BY <1>3 DEF ExecuteDone, stmtVars
<1>4. CASE Execute
  <2>1. RemovalFailures = {{}}
    BY DEF RemovalFailures
  <2>2. CASE RemovesNow
    <3>1. storage' = storage \ ToSet(files) /\ removedRows' = RowsRemoved(files)
      BY <1>4, <2>1, <2>2 DEF Execute
    <3>2. RowsRemoved(files) \subseteq ToSet(files)
      BY DEF RowsRemoved
    <3>3. QED
      BY <1>4, <3>1, <3>2 DEF Execute
  <2>3. CASE ~RemovesNow
    BY <1>4, <2>3 DEF Execute
  <2>4. QED
    BY <2>2, <2>3
<1>5. CASE ExecuteRemoveFails
  BY <1>5 DEF ExecuteRemoveFails
<1>6. CASE CommitCleanup \/ AbortCleanup
  <2>1. files' = <<>> /\ removedRows' = {}
    BY <1>6 DEF CommitCleanup, AbortCleanup, NoStatement
  <2>2. ToSet(files') = {}
    BY <2>1 DEF ToSet
  <2>3. CASE CommitCleanup
    <3>1. DOMAIN scheduled' = DOMAIN scheduled \ removedRows
      BY <2>3 DEF CommitCleanup
    <3>2. QED
      BY <2>1, <2>2, <2>3, <3>1 DEF CommitCleanup
  <2>4. CASE AbortCleanup
    BY <2>1, <2>2, <2>4 DEF AbortCleanup
  <2>5. QED
    BY <1>6, <2>3, <2>4
<1>7. QED
  BY <1>1, <1>2, <1>3, <1>4, <1>5, <1>6

LEMMA NextTrackInv ==
  ASSUME ~RemoveMayFail, TrackInv, [Next]_vars
  PROVE  TrackInv'
<1>1. SInv'
  BY NextSInv DEF TrackInv
<1>2. CASE \E f \in Files : WriteFile(f) \/ CommitWrite(f) \/ AbortWrite(f) \/ ScheduleFile(f)
  BY <1>1, <1>2, EnvTrackInv
<1>3. CASE Tick
  BY <1>1, <1>3 DEF Tick, stmtVars, TrackInv, Written, TrackedUntilRemoved
<1>4. CASE \/ \E inv \in Invocations : Bind(inv[1], inv[2]) \/ BindRejected(inv[1], inv[2])
           \/ ExecuteDone \/ Execute \/ ExecuteRemoveFails
           \/ CommitCleanup \/ AbortCleanup
  BY <1>1, <1>4, StmtTrackInv
<1>5. CASE UNCHANGED vars
  BY <1>1, <1>5 DEF vars, TrackInv, Written, TrackedUntilRemoved
<1>6. QED
  BY <1>2, <1>3, <1>4, <1>5 DEF Next


(* TrackedUntilRemoved, for every instance in which FileSystem::          *)
(* TryRemoveFile never fails: a file scheduled for deletion keeps its     *)
(* catalog row while it is on storage, through any interleaving of        *)
(* writers, compactions, old-file and orphan cleanups, dry runs, commits  *)
(* and aborts.  Run cleanup_remove_fails shows that a failed removal      *)
(* (ignored at line 134, its row dropped at line 140) breaks it: the       *)
(* failure is the only way to lose a file's row.                           *)
THEOREM TrackedWhenRemovalsSucceed ==
  ASSUME ~RemoveMayFail
  PROVE  Spec => []TrackedUntilRemoved
<1>1. Init => TrackInv
  BY InitTrackInv
<1>2. TrackInv /\ [Next]_vars => TrackInv'
  BY NextTrackInv
<1>3. TrackInv => TrackedUntilRemoved
  BY DEF TrackInv
<1>4. QED
  BY <1>1, <1>2, <1>3, PTL DEF Spec

=============================================================================
