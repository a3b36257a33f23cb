---------------------------- MODULE UpdatePipeline ----------------------------
(***************************************************************************)
(* DuckLakeUpdate (src/storage/ducklake_update.cpp).  An UPDATE of a       *)
(* DuckLake table is a parallel sink: every worker thread pushes each      *)
(* input chunk into two nested operators, the copy (which writes the new   *)
(* row versions, carrying the old row id) and the delete (which marks the  *)
(* old rows deleted).  Threads combine their local states at a barrier;    *)
(* Finalize then finalizes copy and delete and replays the copy's output,  *)
(* synchronously, into the insert operator that registers the new files.   *)
(*                                                                         *)
(* A row is abstracted to its row-id triple (a member of Rows): the copy   *)
(* carries it in the written row (Sink, line 96) and the delete consumes   *)
(* it (lines 102-110).  Column values and partition keys are not modelled: *)
(* they never influence control.  What a nested operator returns is a     *)
(* choice: a call named in MayBlock may answer BLOCKED.                    *)
(***************************************************************************)
EXTENDS Naturals, Sequences, SequencesExt

CONSTANTS
  Threads,     \* worker threads running the sink pipeline
  Rows,        \* target rows (their row-id triples)
  Inputs,      \* the inputs the child plan may produce: sequences of chunks
  VectorSize,  \* STANDARD_VECTOR_SIZE: most rows one copy_op.GetData returns
  MayBlock     \* the nested-operator calls that may answer BLOCKED

\* The nested-operator calls whose result DuckLakeUpdate receives.
Calls == {"copySink", "deleteSink", "combine", "finalize", "source", "insertSink"}

Chunk == Seq(Rows) \ {<<>>}

ASSUME ThreadsAssumption == Threads # {} /\ IsFiniteSet(Threads)
ASSUME InputsAssumption == Inputs \subseteq Seq(Chunk) /\ Inputs # {}
ASSUME VectorSizeAssumption == VectorSize \in Nat \ {0}
ASSUME MayBlockAssumption == MayBlock \subseteq Calls

VARIABLES
  input,     \* the chunks the child plan produces (fixed for the run)
  pending,   \* indices of chunks the executor has not yet handed to a thread
  tphase,    \* per thread: "sinking" or "combined" (after Combine)
  lcopy,     \* per thread: rows held by copy_op's local sink state
  ldel,      \* per thread: rows held by delete_op's local sink state
  lcount,    \* per thread: DuckLakeUpdateLocalState.updated_count
  gcopy,     \* rows in copy_op's global sink state, in combine order
  gdel,      \* rows in delete_op's global sink state
  total,     \* DuckLakeUpdateGlobalState.total_updated_count
  phase,     \* "sink", "replay", "insert", "finished" or "error"
  deleted,   \* rows the delete's Finalize marked deleted
  cursor,    \* rows of the copy's output the replay has read
  inserted,  \* rows the insert operator has been sunk, in order
  result     \* what GetData returned: <<>> or <<count>>

vars == <<input, pending, tphase, lcopy, ldel, lcount, gcopy, gdel, total,
          phase, deleted, cursor, inserted, result>>

-----------------------------------------------------------------------------
(* The answers a nested call may give: TRUE means BLOCKED.                 *)
Blocks(call) == IF call \in MayBlock THEN BOOLEAN ELSE {FALSE}

(* What a nested Sink leaves in its local state: a BLOCKED sink has not    *)
(* consumed the chunk.                                                     *)
SinkInto(state, chunk, blocked) == IF blocked THEN state ELSE state \o chunk

AllCombined == \A t \in Threads : tphase[t] = "combined"

TypeOK ==
  /\ input \in Inputs
  /\ pending \subseteq DOMAIN input
  /\ tphase \in [Threads -> {"sinking", "combined"}]
  /\ lcopy \in [Threads -> Seq(Rows)]
  /\ ldel \in [Threads -> Seq(Rows)]
  /\ lcount \in [Threads -> Nat]
  /\ gcopy \in Seq(Rows)
  /\ gdel \in Seq(Rows)
  /\ total \in Nat
  /\ phase \in {"sink", "replay", "insert", "finished", "error"}
  /\ deleted \subseteq Rows
  /\ cursor \in 0..Len(gcopy)
  /\ inserted \in Seq(Rows)
  /\ result \in Seq(Nat)

-----------------------------------------------------------------------------
(* GetGlobalSinkState / GetLocalSinkState: empty states, a zero counter.   *)
Init ==
  /\ input \in Inputs
  /\ pending = DOMAIN input
  /\ tphase = [t \in Threads |-> "sinking"]
  /\ lcopy = [t \in Threads |-> <<>>]
  /\ ldel = [t \in Threads |-> <<>>]
  /\ lcount = [t \in Threads |-> 0]
  /\ gcopy = <<>>
  /\ gdel = <<>>
  /\ total = 0
  /\ phase = "sink"
  /\ deleted = {}
  /\ cursor = 0
  /\ inserted = <<>>
  /\ result = <<>>

(* DuckLakeUpdate::Sink: the executor hands chunk c to thread t.  The      *)
(* chunk goes into the copy and into the delete; the results of both      *)
(* nested Sink calls are discarded, and the chunk's rows are counted.     *)
Sink(t, c) ==
  /\ phase = "sink"
  /\ tphase[t] = "sinking"
  /\ c \in pending
  /\ pending' = pending \ {c}
  /\ \E cb \in Blocks("copySink"), db \in Blocks("deleteSink") :
       /\ lcopy' = [lcopy EXCEPT ![t] = SinkInto(@, input[c], cb)]
       /\ ldel' = [ldel EXCEPT ![t] = SinkInto(@, input[c], db)]
  /\ lcount' = [lcount EXCEPT ![t] = @ + Len(input[c])]
  /\ UNCHANGED <<input, tphase, gcopy, gdel, total, phase, deleted, cursor,
                 inserted, result>>

(* Variant for checking: the global total is incremented one short.      *)
CombineMiscounts(t) ==
  /\ phase = "sink"
  /\ tphase[t] = "sinking"
  /\ pending = {}
  /\ tphase' = [tphase EXCEPT ![t] = "combined"]
  /\ gcopy' = gcopy \o lcopy[t]
  /\ gdel' = gdel \o ldel[t]
  /\ total' = total + lcount[t] - 1
  /\ UNCHANGED <<input, pending, lcopy, ldel, lcount, phase, deleted, cursor,
                 inserted, result>>

(* DuckLakeUpdate::Combine, once the source is exhausted: copy and delete *)
(* merge thread t's local state, and the local count is added to the      *)
(* atomic total.                                                           *)
Combine(t) ==
  /\ phase = "sink"
  /\ tphase[t] = "sinking"
  /\ pending = {}
  /\ tphase' = [tphase EXCEPT ![t] = "combined"]
  /\ gcopy' = gcopy \o lcopy[t]
  /\ gdel' = gdel \o ldel[t]
  /\ total' = total + lcount[t]
  /\ UNCHANGED <<input, pending, lcopy, ldel, lcount, phase, deleted, cursor,
                 inserted, result>>

(* Combine: a nested Combine did not answer FINISHED; InternalException.  *)
CombineBlocked(t) ==
  /\ phase = "sink"
  /\ tphase[t] = "sinking"
  /\ pending = {}
  /\ TRUE \in Blocks("combine")
  /\ phase' = "error"
  /\ UNCHANGED <<input, pending, tphase, lcopy, ldel, lcount, gcopy, gdel,
                 total, deleted, cursor, inserted, result>>

(* DuckLakeDelete::Finalize with allow_duplicates = false, as PlanUpdate  *)
(* plans it: a row that is deleted twice is an error.                     *)
(* Variant for checking: duplicates are allowed.                           *)
DeleteAcceptsDuplicates(rows) == TRUE
DeleteAccepts(rows) == IsInjective(rows)

(* DuckLakeUpdate::Finalize, first part, after the barrier: copy_op and    *)
(* delete_op are finalized; the delete marks its rows deleted.             *)
FinalizeChildren ==
  /\ phase = "sink"
  /\ AllCombined
  /\ DeleteAccepts(gdel)
  /\ deleted' = ToSet(gdel)
  /\ phase' = "replay"
  /\ UNCHANGED <<input, pending, tphase, lcopy, ldel, lcount, gcopy, gdel,
                 total, cursor, inserted, result>>

(* Finalize: copy_op or delete_op did not answer READY, or the delete      *)
(* found a row deleted twice; the statement fails.                         *)
FinalizeChildrenFails ==
  /\ phase = "sink"
  /\ AllCombined
  /\ \/ TRUE \in Blocks("finalize")
     \/ ~DeleteAccepts(gdel)
  /\ phase' = "error"
  /\ UNCHANGED <<input, pending, tphase, lcopy, ldel, lcount, gcopy, gdel,
                 total, deleted, cursor, inserted, result>>

(* The chunks copy_op.GetData may return at the replay's position: n rows *)
(* with result res.  A source that is not blocked returns at least one     *)
(* row while rows remain, and FINISHED only with its last row; a blocked   *)
(* source may return any part of what remains.                             *)
(* Variant for checking: the copy's source loses its last row.            *)
RemainingShort == Len(gcopy) - cursor - 1
Remaining == Len(gcopy) - cursor

SourceAnswers ==
  LET upto == IF Remaining < VectorSize THEN Remaining ELSE VectorSize IN
  { <<n, "HAVE_MORE_OUTPUT">> : n \in 1..upto }
  \cup { <<n, "FINISHED">> : n \in {Remaining} \cap 0..upto }
  \cup (IF "source" \in MayBlock THEN { <<n, "BLOCKED">> : n \in 0..upto }
                                 ELSE {})

(* Variant for checking: the loop does not stop at an empty chunk.        *)
ReplayEndLoops ==
  /\ phase = "replay"
  /\ \E a \in SourceAnswers : a[1] = 0
  /\ phase' = "replay"
  /\ UNCHANGED <<input, pending, tphase, lcopy, ldel, lcount, gcopy, gdel,
                 total, deleted, cursor, inserted, result>>

(* Finalize, one iteration of the replay loop: GetData returned an empty  *)
(* chunk, so the loop ends, whatever the result was.                       *)
ReplayEnd ==
  /\ phase = "replay"
  /\ \E a \in SourceAnswers : a[1] = 0
  /\ phase' = "insert"
  /\ UNCHANGED <<input, pending, tphase, lcopy, ldel, lcount, gcopy, gdel,
                 total, deleted, cursor, inserted, result>>

(* Finalize, one iteration of the replay loop: a nonempty chunk with      *)
(* result BLOCKED, or the insert's Sink answered BLOCKED: InternalException.*)
ReplayBlocked ==
  /\ phase = "replay"
  /\ \E a \in SourceAnswers :
       /\ a[1] > 0
       /\ (a[2] = "BLOCKED" \/ TRUE \in Blocks("insertSink"))
  /\ phase' = "error"
  /\ UNCHANGED <<input, pending, tphase, lcopy, ldel, lcount, gcopy, gdel,
                 total, deleted, cursor, inserted, result>>

(* Finalize, one iteration of the replay loop: the chunk is sunk into the *)
(* insert; the loop ends after a FINISHED chunk.                           *)
ReplayChunk ==
  /\ phase = "replay"
  /\ \E a \in SourceAnswers :
       /\ a[1] > 0
       /\ a[2] # "BLOCKED"
       /\ inserted' = inserted \o SubSeq(gcopy, cursor + 1, cursor + a[1])
       /\ cursor' = cursor + a[1]
       /\ phase' = IF a[2] = "FINISHED" THEN "insert" ELSE "replay"
  /\ UNCHANGED <<input, pending, tphase, lcopy, ldel, lcount, gcopy, gdel,
                 total, deleted, result>>

(* Finalize, last part: insert_op.Finalize registers the new files.        *)
FinalizeInsert ==
  /\ phase = "insert"
  /\ \E b \in Blocks("finalize") :
       phase' = IF b THEN "error" ELSE "finished"
  /\ UNCHANGED <<input, pending, tphase, lcopy, ldel, lcount, gcopy, gdel,
                 total, deleted, cursor, inserted, result>>

(* DuckLakeUpdate::GetData: the single output row is the total count.      *)
GetData ==
  /\ phase = "finished"
  /\ result = <<>>
  /\ result' = <<total>>
  /\ UNCHANGED <<input, pending, tphase, lcopy, ldel, lcount, gcopy, gdel,
                 total, phase, deleted, cursor, inserted>>

Next ==
  \/ \E t \in Threads, c \in pending : Sink(t, c)
  \/ \E t \in Threads : Combine(t) \/ CombineBlocked(t)
  \/ FinalizeChildren \/ FinalizeChildrenFails
  \/ ReplayEnd \/ ReplayBlocked \/ ReplayChunk
  \/ FinalizeInsert
  \/ GetData

(* The executor runs every thread's pipeline to completion and then runs *)
(* Finalize and the source: each step that stays enabled is taken.        *)
Fairness ==
  /\ \A t \in Threads : WF_vars(\E c \in pending : Sink(t, c))
  /\ \A t \in Threads : WF_vars(Combine(t) \/ CombineBlocked(t))
  /\ WF_vars(FinalizeChildren \/ FinalizeChildrenFails)
  /\ WF_vars(ReplayEnd \/ ReplayBlocked \/ ReplayChunk)
  /\ WF_vars(FinalizeInsert)
  /\ WF_vars(GetData)

Spec == Init /\ [][Next]_vars /\ Fairness

-----------------------------------------------------------------------------
(* The positions at which row r occurs in sequence s, and the chunk and   *)
(* position of every occurrence of r in the child plan's output: a row's  *)
(* number of occurrences, its multiplicity in the bag of rows.            *)
Occurrences(s, r) == {i \in DOMAIN s : s[i] = r}

InputOccurrences(r) ==
  UNION {{<<c, i>> : i \in Occurrences(input[c], r)} : c \in DOMAIN input}

(* Update conservation (spec 8): once GetData has reported a count, the    *)
(* insert registered exactly the rows the child plan produced, each as    *)
(* often as the plan produced it (the bags of rows are equal), the delete *)
(* marked exactly those rows deleted, and the count is the number of rows *)
(* registered.  It relates the per-thread Sink counting, the Combine      *)
(* merges, and the Finalize replay loop.                                   *)
UpdateConservation ==
  result # <<>> =>
    /\ \A r \in Rows : Cardinality(Occurrences(inserted, r)) = Cardinality(InputOccurrences(r))
    /\ deleted = ToSet(inserted)
    /\ result[1] = Len(inserted)

(* A target row matched twice by the child plan (UPDATE ... FROM with two *)
(* matching rows) never yields two new versions of it: an update that     *)
(* completes registered every row at most once (the delete, planned with  *)
(* allow_duplicates = false, rejects the second occurrence).               *)
UpdateRejectsDuplicates ==
  phase = "finished" => IsInjective(inserted)

(* The update terminates: it either reports its count or fails.  The       *)
(* executor schedules every thread until its source is exhausted, and the *)
(* replay loop is driven by Finalize without suspension.                   *)
Termination == <>(phase = "error" \/ result # <<>>)

=============================================================================
