------------------------- MODULE UpdatePipelineProofs -------------------------
(***************************************************************************)
(* Proofs about UpdatePipeline, for every set of threads, rows, inputs and *)
(* vector size: the type invariant, and that an update which completes    *)
(* never registered a target row twice.                                    *)
(***************************************************************************)
EXTENDS UpdatePipeline, FiniteSetTheorems, TLAPS

-----------------------------------------------------------------------------
(* Lemmas on the sequence operators the model is built from.               *)

LEMMA SinkIntoType ==
  ASSUME NEW S, NEW st \in Seq(S), NEW ch \in Seq(S), NEW b \in BOOLEAN
  PROVE  SinkInto(st, ch, b) \in Seq(S)
BY DEF SinkInto

LEMMA SubSeqAdjacent ==
  ASSUME NEW S, NEW s \in Seq(S), NEW m \in 0..Len(s), NEW n \in 0..(Len(s) - m)
  PROVE  SubSeq(s, 1, m) \o SubSeq(s, m + 1, m + n) = SubSeq(s, 1, m + n)
OBVIOUS

LEMMA SubSeqPrefixInjective ==
  ASSUME NEW S, NEW s \in Seq(S), NEW k \in 0..Len(s), IsInjective(s)
  PROVE  IsInjective(SubSeq(s, 1, k))
BY DEF IsInjective

LEMMA SourceAnswerBound ==
  ASSUME TypeOK, NEW a \in SourceAnswers
  PROVE  a[1] \in 0..Remaining
<1> DEFINE upto == IF Remaining < VectorSize THEN Remaining ELSE VectorSize
<1>1. Remaining \in Nat /\ upto \in 0..Remaining
  BY VectorSizeAssumption DEF TypeOK, Remaining
<1>2. \/ \E n \in 1..upto : a = <<n, "HAVE_MORE_OUTPUT">>
      \/ \E n \in {Remaining} \cap 0..upto : a = <<n, "FINISHED">>
      \/ \E n \in 0..upto : a = <<n, "BLOCKED">>
  BY DEF SourceAnswers
<1>3. QED
  BY <1>1, <1>2

(* Counting lemmas: the occurrences of a row in a sequence are finitely    *)
(* many, concatenation adds their numbers, and tagging them with the       *)
(* sequence's owner keeps their number.                                     *)
LEMMA OccurrencesFinite ==
  ASSUME NEW S, NEW s \in Seq(S), NEW r
  PROVE  /\ Occurrences(s, r) \subseteq 1..Len(s)
         /\ IsFiniteSet(Occurrences(s, r))
         /\ Cardinality(Occurrences(s, r)) \in Nat
<1>1. Occurrences(s, r) \subseteq 1..Len(s)
  BY DEF Occurrences
<1>2. IsFiniteSet(Occurrences(s, r))
  BY <1>1, FS_Interval, FS_Subset
<1>3. QED
  BY <1>1, <1>2, FS_CardinalityType

LEMMA OccurrencesEmpty ==
  ASSUME NEW r
  PROVE  Cardinality(Occurrences(<<>>, r)) = 0
<1>1. Occurrences(<<>>, r) = {}
  BY DEF Occurrences
<1>2. QED
  BY <1>1, FS_EmptySet

(* A bijection from a finite set carries its cardinality.                 *)
LEMMA CardinalityBijection ==
  ASSUME NEW A, NEW B, IsFiniteSet(A), NEW f \in Bijection(A, B)
  PROVE  IsFiniteSet(B) /\ Cardinality(B) = Cardinality(A)
BY FS_Bijection DEF ExistsBijection

(* Disjoint finite sets: the cardinality of the union is the sum.         *)
LEMMA CardinalityDisjointUnion ==
  ASSUME NEW A, NEW B, IsFiniteSet(A), IsFiniteSet(B), A \cap B = {}
  PROVE  /\ IsFiniteSet(A \cup B)
         /\ Cardinality(A \cup B) = Cardinality(A) + Cardinality(B)
<1>1. IsFiniteSet(A \cup B)
      /\ Cardinality(A \cup B) = Cardinality(A) + Cardinality(B) - Cardinality(A \cap B)
  BY FS_Union
<1>2. Cardinality(A \cap B) = 0
  BY FS_EmptySet
<1>3. Cardinality(A) \in Nat /\ Cardinality(B) \in Nat
  BY FS_CardinalityType
<1>4. QED
  BY <1>1, <1>2, <1>3

LEMMA ConcatOccurrences ==
  ASSUME NEW S, NEW s \in Seq(S), NEW u \in Seq(S), NEW r
  PROVE  Cardinality(Occurrences(s \o u, r))
           = Cardinality(Occurrences(s, r)) + Cardinality(Occurrences(u, r))
<1> DEFINE A == Occurrences(s, r)
           B == Occurrences(u, r)
           Sh == {Len(s) + j : j \in B}
<1>1. Occurrences(s \o u, r) = A \cup Sh
  <2>1. \A i \in Occurrences(s \o u, r) : i \in A \cup Sh
    <3> SUFFICES ASSUME NEW i \in Occurrences(s \o u, r), i \notin A PROVE i \in Sh
      OBVIOUS
    <3>1. i \in 1..(Len(s) + Len(u)) /\ (s \o u)[i] = r
      BY DEF Occurrences
    <3>2. i > Len(s)
      BY <3>1 DEF Occurrences
    <3>3. i - Len(s) \in B
      BY <3>1, <3>2 DEF Occurrences
    <3>4. i = Len(s) + (i - Len(s))
      BY <3>1
    <3>5. QED
      BY <3>3, <3>4, Zenon
  <2>2. A \cup Sh \subseteq Occurrences(s \o u, r)
    BY DEF Occurrences
  <2>3. QED
    BY <2>1, <2>2
<1>2. A \cap Sh = {}
  BY DEF Occurrences
<1>3. IsFiniteSet(A) /\ IsFiniteSet(B)
  BY OccurrencesFinite
<1>4. [j \in B |-> Len(s) + j] \in Bijection(B, Sh)
  BY DEF Bijection, Injection, Surjection, IsInjective, Occurrences
<1>5. IsFiniteSet(Sh) /\ Cardinality(Sh) = Cardinality(B)
  BY <1>3, <1>4, CardinalityBijection
<1>6. QED
  BY <1>1, <1>2, <1>3, <1>5, CardinalityDisjointUnion

LEMMA TaggedOccurrences ==
  ASSUME NEW S, NEW s \in Seq(S), NEW x, NEW r
  PROVE  /\ IsFiniteSet({<<x, i>> : i \in Occurrences(s, r)})
         /\ Cardinality({<<x, i>> : i \in Occurrences(s, r)}) = Cardinality(Occurrences(s, r))
<1>1. [i \in Occurrences(s, r) |-> <<x, i>>]
        \in Bijection(Occurrences(s, r), {<<x, i>> : i \in Occurrences(s, r)})
  BY DEF Bijection, Injection, Surjection, IsInjective
<1>2. QED
  BY <1>1, OccurrencesFinite, CardinalityBijection

-----------------------------------------------------------------------------
(* Type correctness.                                                       *)

LEMMA InitTypeOK == Init => TypeOK
BY InputsAssumption DEF Init, TypeOK

LEMMA NextTypeOK == TypeOK /\ [Next]_vars => TypeOK'
<1> SUFFICES ASSUME TypeOK, [Next]_vars PROVE TypeOK'
  OBVIOUS
<1>1. ASSUME NEW t \in Threads, NEW c \in pending, Sink(t, c) PROVE TypeOK'
  <2>1. input[c] \in Seq(Rows)
    BY InputsAssumption DEF TypeOK, Chunk
  <2>2. PICK cb \in BOOLEAN, db \in BOOLEAN :
          /\ lcopy' = [lcopy EXCEPT ![t] = SinkInto(@, input[c], cb)]
          /\ ldel' = [ldel EXCEPT ![t] = SinkInto(@, input[c], db)]
    BY <1>1 DEF Sink, Blocks
  <2>3. SinkInto(lcopy[t], input[c], cb) \in Seq(Rows)
        /\ SinkInto(ldel[t], input[c], db) \in Seq(Rows)
    BY <2>1, SinkIntoType DEF TypeOK
  <2>4. lcopy' \in [Threads -> Seq(Rows)] /\ ldel' \in [Threads -> Seq(Rows)]
    BY <2>2, <2>3 DEF TypeOK
  <2>5. QED
    BY <1>1, <2>1, <2>4 DEF Sink, TypeOK
<1>2. ASSUME NEW t \in Threads, Combine(t) PROVE TypeOK'
  BY <1>2 DEF Combine, TypeOK
<1>3. ASSUME NEW t \in Threads, CombineBlocked(t) PROVE TypeOK'
  BY <1>3 DEF CombineBlocked, TypeOK
<1>4. CASE FinalizeChildren
  BY <1>4 DEF FinalizeChildren, TypeOK, ToSet
<1>5. CASE FinalizeChildrenFails
  BY <1>5 DEF FinalizeChildrenFails, TypeOK
<1>6. CASE ReplayEnd
  BY <1>6 DEF ReplayEnd, TypeOK
<1>7. CASE ReplayBlocked
  BY <1>7 DEF ReplayBlocked, TypeOK
<1>8. CASE ReplayChunk
  <2>1. PICK a \in SourceAnswers :
          /\ a[1] > 0
          /\ a[2] # "BLOCKED"
          /\ inserted' = inserted \o SubSeq(gcopy, cursor + 1, cursor + a[1])
          /\ cursor' = cursor + a[1]
          /\ phase' = IF a[2] = "FINISHED" THEN "insert" ELSE "replay"
    BY <1>8 DEF ReplayChunk
  <2>2. a[1] \in 1..Remaining
    BY <2>1, SourceAnswerBound
  <2>3. SubSeq(gcopy, cursor + 1, cursor + a[1]) \in Seq(Rows)
    <3>1. cursor + a[1] <= Len(gcopy) /\ cursor \in Nat /\ a[1] \in Nat
      BY <2>2 DEF TypeOK, Remaining
    <3>2. QED
      BY <3>1 DEF TypeOK
  <2>4. inserted' \in Seq(Rows)
    BY <2>1, <2>3 DEF TypeOK
  <2>5. gcopy' = gcopy
    BY <1>8 DEF ReplayChunk
  <2>6. cursor' \in 0..Len(gcopy') /\ phase' \in {"insert", "replay"}
    <3>1. cursor \in Nat /\ gcopy \in Seq(Rows) /\ a[1] \in 1..(Len(gcopy) - cursor)
      BY <2>2 DEF TypeOK, Remaining
    <3>2. cursor' \in 0..Len(gcopy')
      BY <2>1, <2>5, <3>1
    <3>3. QED
      BY <2>1, <3>2
  <2>7. QED
    BY <1>8, <2>4, <2>6 DEF ReplayChunk, TypeOK
<1>9. CASE FinalizeInsert
  BY <1>9 DEF FinalizeInsert, TypeOK
<1>10. CASE GetData
  BY <1>10 DEF GetData, TypeOK
<1>11. CASE UNCHANGED vars
  BY <1>11 DEF vars, TypeOK
<1>12. QED
  BY <1>1, <1>2, <1>3, <1>4, <1>5, <1>6, <1>7, <1>8, <1>9, <1>10, <1>11
     DEF Next

(* The type invariant of the update pipeline holds in every reachable     *)
(* state: the model's per-thread and global sink states stay well formed. *)
THEOREM TypeCorrect == Spec => []TypeOK
BY InitTypeOK, NextTypeOK, PTL DEF Spec

-----------------------------------------------------------------------------
(* No duplicate registration.  When neither nested Sink can answer        *)
(* BLOCKED, the copy and the delete hold the same rows in the same order,  *)
(* thread by thread and globally; the replay has copied a prefix of the   *)
(* copy's output into the insert; and once the delete accepted its rows   *)
(* (no row twice), that output has no duplicate.                           *)

SinksConsume == MayBlock \cap {"copySink", "deleteSink"} = {}

IInv ==
  /\ TypeOK
  /\ \A t \in Threads : lcopy[t] = ldel[t]
  /\ gcopy = gdel
  /\ phase = "sink" => cursor = 0
  /\ phase \in {"replay", "insert", "finished"} => IsInjective(gcopy)
  /\ inserted = SubSeq(gcopy, 1, cursor)

LEMMA InitIInv == Init => IInv
<1> SUFFICES ASSUME Init PROVE IInv
  OBVIOUS
<1>1. TypeOK
  BY InitTypeOK
<1>2. inserted = SubSeq(gcopy, 1, cursor)
  BY DEF Init
<1>3. QED
  BY <1>1, <1>2 DEF Init, IInv

LEMMA NextIInv == SinksConsume /\ IInv /\ [Next]_vars => IInv'
<1> SUFFICES ASSUME SinksConsume, IInv, [Next]_vars PROVE IInv'
  OBVIOUS
<1> USE DEF IInv
<1>0. TypeOK'
  BY NextTypeOK
<1>1. ASSUME NEW t \in Threads, NEW c \in pending, Sink(t, c) PROVE IInv'
  <2>1. Blocks("copySink") = {FALSE} /\ Blocks("deleteSink") = {FALSE}
    BY DEF SinksConsume, Blocks
  <2>2. lcopy' = [lcopy EXCEPT ![t] = lcopy[t] \o input[c]]
        /\ ldel' = [ldel EXCEPT ![t] = ldel[t] \o input[c]]
    BY <1>1, <2>1 DEF Sink, SinkInto
  <2>3. \A u \in Threads : lcopy'[u] = ldel'[u]
    BY <2>2 DEF TypeOK
  <2>4. QED
    BY <1>0, <1>1, <2>3 DEF Sink
<1>2. ASSUME NEW t \in Threads, Combine(t) PROVE IInv'
  <2>1. gcopy' = gdel'
    BY <1>2 DEF Combine
  <2>2. cursor' = 0 /\ inserted' = <<>>
    BY <1>2 DEF Combine
  <2>3. SubSeq(gcopy', 1, 0) = <<>>
    BY <1>0 DEF TypeOK
  <2>4. QED
    BY <1>0, <1>2, <2>1, <2>2, <2>3 DEF Combine
<1>3. ASSUME NEW t \in Threads, CombineBlocked(t) PROVE IInv'
  BY <1>0, <1>3 DEF CombineBlocked
<1>4. CASE FinalizeChildren
  BY <1>0, <1>4 DEF FinalizeChildren, DeleteAccepts
<1>5. CASE FinalizeChildrenFails
  BY <1>0, <1>5 DEF FinalizeChildrenFails
<1>6. CASE ReplayEnd
  BY <1>0, <1>6 DEF ReplayEnd
<1>7. CASE ReplayBlocked
  BY <1>0, <1>7 DEF ReplayBlocked
<1>8. CASE ReplayChunk
  <2>1. PICK a \in SourceAnswers :
          /\ a[1] > 0
          /\ inserted' = inserted \o SubSeq(gcopy, cursor + 1, cursor + a[1])
          /\ cursor' = cursor + a[1]
          /\ phase' \in {"insert", "replay"}
    BY <1>8 DEF ReplayChunk
  <2>2. cursor' \in 0..Len(gcopy) /\ gcopy' = gcopy
    BY <1>0, <1>8, <2>1 DEF ReplayChunk, TypeOK
  <2>3. inserted' = SubSeq(gcopy, 1, cursor')
    <3>1. a[1] \in 0..(Len(gcopy) - cursor)
      BY SourceAnswerBound DEF Remaining
    <3>2. QED
      BY <2>1, <3>1, SubSeqAdjacent DEF TypeOK
  <2>4. QED
    BY <1>0, <1>8, <2>1, <2>2, <2>3 DEF ReplayChunk
<1>9. CASE FinalizeInsert
  BY <1>0, <1>9 DEF FinalizeInsert
<1>10. CASE GetData
  BY <1>0, <1>10 DEF GetData
<1>11. CASE UNCHANGED vars
  BY <1>0, <1>11 DEF vars
<1>12. QED
  BY <1>1, <1>2, <1>3, <1>4, <1>5, <1>6, <1>7, <1>8, <1>9, <1>10, <1>11
     DEF Next

LEMMA IInvRejectsDuplicates == IInv => UpdateRejectsDuplicates
<1> SUFFICES ASSUME IInv, phase = "finished" PROVE IsInjective(inserted)
  BY DEF UpdateRejectsDuplicates
<1>1. IsInjective(gcopy) /\ inserted = SubSeq(gcopy, 1, cursor)
  BY DEF IInv
<1>2. QED
  BY <1>1, SubSeqPrefixInjective DEF IInv, TypeOK

(* When the copy's and the delete's Sink always consume their chunk, an    *)
(* update that completes has registered no row twice: DuckLakeUpdate's    *)
(* Finalize only replays rows the delete accepted as distinct.             *)
THEOREM RejectsDuplicates ==
  ASSUME SinksConsume PROVE Spec => []UpdateRejectsDuplicates
<1>1. Init => IInv
  BY InitIInv
<1>2. IInv /\ [Next]_vars => IInv'
  BY NextIInv
<1>3. IInv => UpdateRejectsDuplicates
  BY IInvRejectsDuplicates
<1>4. QED
  BY <1>1, <1>2, <1>3, PTL DEF Spec

-----------------------------------------------------------------------------
(* The count and the deletes.  When, in addition, the copy's source never *)
(* answers BLOCKED, the replay loop only stops at the end of the copy's   *)
(* output.  Each thread's updated_count is the length of its copy state,  *)
(* the atomic total the length of the merged copy output, and the delete  *)
(* marks exactly the rows of that output.                                  *)

SourceNeverBlocks == "source" \notin MayBlock

CInv ==
  /\ IInv
  /\ \A t \in Threads : lcount[t] = Len(lcopy[t])
  /\ total = Len(gcopy)
  /\ phase \in {"replay", "insert", "finished"} => deleted = ToSet(gdel)
  /\ phase \in {"insert", "finished"} => cursor = Len(gcopy)
  /\ result # <<>> => phase = "finished" /\ result = <<total>>

(* The count half of UpdateConservation (spec 8): once GetData reported a *)
(* count, the delete marked exactly the rows the insert registered, and   *)
(* the count is the number of rows registered.                            *)
CountConserved ==
  result # <<>> => deleted = ToSet(inserted) /\ result[1] = Len(inserted)

(* A FINISHED answer carries all the remaining rows; and, when the source *)
(* cannot block, so does an empty one.                                     *)
LEMMA SourceAnswerComplete ==
  ASSUME TypeOK, NEW a \in SourceAnswers
  PROVE  /\ a[2] = "FINISHED" => a[1] = Remaining
         /\ SourceNeverBlocks /\ a[1] = 0 => a[1] = Remaining
<1> DEFINE upto == IF Remaining < VectorSize THEN Remaining ELSE VectorSize
<1>1. \/ \E n \in 1..upto : a = <<n, "HAVE_MORE_OUTPUT">>
      \/ \E n \in {Remaining} \cap 0..upto : a = <<n, "FINISHED">>
      \/ "source" \in MayBlock /\ \E n \in 0..upto : a = <<n, "BLOCKED">>
  BY DEF SourceAnswers
<1>2. QED
  BY <1>1, VectorSizeAssumption DEF SourceNeverBlocks

LEMMA InitCInv == Init => CInv
BY InitIInv DEF Init, CInv

LEMMA NextCInv ==
  ASSUME SinksConsume, SourceNeverBlocks, CInv, [Next]_vars
  PROVE  CInv'
<1> USE DEF CInv
<1>0. IInv' /\ TypeOK
  BY NextIInv DEF IInv
<1>1. ASSUME NEW t \in Threads, NEW c \in pending, Sink(t, c) PROVE CInv'
  <2>1. input[c] \in Seq(Rows)
    BY <1>0, InputsAssumption DEF TypeOK, Chunk
  <2>2. lcopy' = [lcopy EXCEPT ![t] = lcopy[t] \o input[c]]
    BY <1>1 DEF Sink, SinkInto, SinksConsume, Blocks
  <2>3. \A u \in Threads : lcount'[u] = Len(lcopy'[u])
    BY <1>0, <1>1, <2>1, <2>2 DEF Sink, TypeOK
  <2>4. QED
    BY <1>0, <1>1, <2>3 DEF Sink
<1>2. ASSUME NEW t \in Threads, Combine(t) PROVE CInv'
  <2>1. /\ total' = total + lcount[t] /\ gcopy' = gcopy \o lcopy[t]
        /\ total = Len(gcopy) /\ lcount[t] = Len(lcopy[t])
    BY <1>2 DEF Combine
  <2>2. gcopy \in Seq(Rows) /\ lcopy[t] \in Seq(Rows)
    BY <1>0 DEF TypeOK
  <2>3. total' = Len(gcopy')
    BY <2>1, <2>2
  <2>4. QED
    BY <1>0, <1>2, <2>3 DEF Combine
<1>3. ASSUME NEW t \in Threads, CombineBlocked(t) PROVE CInv'
  BY <1>0, <1>3 DEF CombineBlocked
<1>4. CASE FinalizeChildren
  BY <1>0, <1>4 DEF FinalizeChildren
<1>5. CASE FinalizeChildrenFails
  BY <1>0, <1>5 DEF FinalizeChildrenFails
<1>6. CASE ReplayEnd
  <2>1. PICK a \in SourceAnswers : a[1] = 0
    BY <1>6 DEF ReplayEnd
  <2>2. cursor = Len(gcopy)
    BY <1>0, <2>1, SourceAnswerComplete DEF Remaining, TypeOK
  <2>3. QED
    BY <1>0, <1>6, <2>2 DEF ReplayEnd
<1>7. CASE ReplayBlocked
  BY <1>0, <1>7 DEF ReplayBlocked
<1>8. CASE ReplayChunk
  <2>1. PICK a \in SourceAnswers :
          /\ cursor' = cursor + a[1]
          /\ phase' = IF a[2] = "FINISHED" THEN "insert" ELSE "replay"
    BY <1>8 DEF ReplayChunk
  <2>2. phase' = "insert" => cursor' = Len(gcopy)
    BY <1>0, <2>1, SourceAnswerComplete DEF Remaining, TypeOK
  <2>3. QED
    BY <1>0, <1>8, <2>1, <2>2 DEF ReplayChunk
<1>9. CASE FinalizeInsert
  BY <1>0, <1>9 DEF FinalizeInsert
<1>10. CASE GetData
  BY <1>0, <1>10 DEF GetData
<1>11. CASE UNCHANGED vars
  BY <1>0, <1>11 DEF vars
<1>12. QED
  BY <1>1, <1>2, <1>3, <1>4, <1>5, <1>6, <1>7, <1>8, <1>9, <1>10, <1>11
     DEF Next

LEMMA CInvCountConserved == CInv => CountConserved
<1> SUFFICES ASSUME CInv, result # <<>>
             PROVE  deleted = ToSet(inserted) /\ result[1] = Len(inserted)
  BY DEF CountConserved
<1>1. phase = "finished" /\ result = <<total>> /\ cursor = Len(gcopy)
  BY DEF CInv
<1>2. inserted = gcopy
  BY <1>1 DEF CInv, IInv, TypeOK
<1>3. QED
  BY <1>1, <1>2 DEF CInv, IInv

-----------------------------------------------------------------------------
(* Conservation of rows.  Every occurrence of a row in the child plan's   *)
(* output is, at every moment, in exactly one place: a chunk the executor *)
(* has not handed out, the copy state of a thread that has not combined,  *)
(* or the copy's merged output.  Counted per row, the three add up to the *)
(* row's occurrences in the input.                                         *)

(* The occurrences of r in the sequences g[x], x \in X, tagged with x.    *)
Positions(g, X, r) == UNION {{<<x, i>> : i \in Occurrences(g[x], r)} : x \in X}

Sinking == {t \in Threads : tphase[t] = "sinking"}

Conserved(r) ==
  Cardinality(Occurrences(gcopy, r)) + Cardinality(Positions(lcopy, Sinking, r))
    + Cardinality(Positions(input, pending, r))
  = Cardinality(InputOccurrences(r))

PInv ==
  /\ CInv
  /\ (\E t \in Threads : tphase[t] = "combined") => pending = {}
  /\ phase \in {"replay", "insert", "finished"} => AllCombined
  /\ \A r \in Rows : Conserved(r)

(* The tagged occurrences over a finite set of owners are finitely many.  *)
LEMMA PositionsFinite ==
  ASSUME NEW g, NEW X, IsFiniteSet(X), \A y \in X : g[y] \in Seq(Rows), NEW r
  PROVE  IsFiniteSet(Positions(g, X, r))
<1> DEFINE T(y) == {<<y, i>> : i \in Occurrences(g[y], r)}
           Fam == {T(y) : y \in X}
<1>1. [y \in X |-> T(y)] \in Surjection(X, Fam)
  BY DEF Surjection
<1>2. IsFiniteSet(Fam)
  BY <1>1, FS_Surjection
<1>3. \A A \in Fam : IsFiniteSet(A)
  <2> SUFFICES ASSUME NEW y \in X PROVE IsFiniteSet(T(y))
    OBVIOUS
  <2>1. g[y] \in Seq(Rows)
    OBVIOUS
  <2>2. QED
    BY <2>1, TaggedOccurrences
<1>4. QED
  BY <1>2, <1>3, FS_UNION DEF Positions

(* Splitting off one owner: its occurrences are counted apart.            *)
LEMMA PositionsSplit ==
  ASSUME NEW g, NEW X, IsFiniteSet(X), \A y \in X : g[y] \in Seq(Rows), NEW r,
         NEW x \in X
  PROVE  /\ Cardinality(Positions(g, X, r)) \in Nat
         /\ Cardinality(Positions(g, X, r))
              = Cardinality(Positions(g, X \ {x}, r)) + Cardinality(Occurrences(g[x], r))
<1> DEFINE T == {<<x, i>> : i \in Occurrences(g[x], r)}
<1>1. Positions(g, X, r) = Positions(g, X \ {x}, r) \cup T
  BY DEF Positions
<1>2. Positions(g, X \ {x}, r) \cap T = {}
  BY DEF Positions
<1>3. IsFiniteSet(X \ {x})
  BY FS_RemoveElement
<1>4. IsFiniteSet(Positions(g, X \ {x}, r))
  BY <1>3, PositionsFinite
<1>5. IsFiniteSet(T) /\ Cardinality(T) = Cardinality(Occurrences(g[x], r))
  BY TaggedOccurrences
<1>6. Cardinality(Positions(g, X, r))
        = Cardinality(Positions(g, X \ {x}, r)) + Cardinality(T)
  BY <1>1, <1>2, <1>4, <1>5, CardinalityDisjointUnion
<1>7. IsFiniteSet(Positions(g, X, r))
  BY PositionsFinite
<1>8. QED
  BY <1>5, <1>6, <1>7, FS_CardinalityType

(* Only the owners' sequences matter.                                     *)
LEMMA PositionsFrame ==
  ASSUME NEW g, NEW h, NEW X, \A y \in X : g[y] = h[y], NEW r
  PROVE  Positions(g, X, r) = Positions(h, X, r)
BY DEF Positions

LEMMA PositionsEmpty ==
  ASSUME NEW g, NEW X, \A y \in X : g[y] = <<>>, NEW r
  PROVE  Cardinality(Positions(g, X, r)) = 0
<1>1. Positions(g, X, r) = {}
  BY DEF Positions, Occurrences
<1>2. QED
  BY <1>1, FS_EmptySet

(* The sequences the count invariant ranges over are typed, and its sets  *)
(* of owners are finite.                                                   *)
LEMMA OwnersFinite ==
  ASSUME TypeOK
  PROVE  /\ \A c \in DOMAIN input : input[c] \in Seq(Rows)
         /\ \A t \in Threads : lcopy[t] \in Seq(Rows)
         /\ IsFiniteSet(pending) /\ pending \subseteq DOMAIN input
         /\ IsFiniteSet(Sinking) /\ Sinking \subseteq Threads
<1>1. \A c \in DOMAIN input : input[c] \in Seq(Rows)
  BY InputsAssumption DEF TypeOK, Chunk
<1>2. IsFiniteSet(DOMAIN input)
  BY InputsAssumption, FS_Interval DEF TypeOK
<1>3. IsFiniteSet(pending)
  BY <1>2, FS_Subset DEF TypeOK
<1>4. IsFiniteSet(Sinking)
  BY ThreadsAssumption, FS_Subset DEF Sinking
<1>5. QED
  BY <1>1, <1>3, <1>4 DEF TypeOK, Sinking

(* A step that leaves the copy states, the thread phases, the pending     *)
(* chunks and the merged output alone keeps every row's count.           *)
LEMMA ConservedFrame ==
  ASSUME \A r \in Rows : Conserved(r), UNCHANGED <<input, pending, tphase, lcopy, gcopy>>
  PROVE  \A r \in Rows : Conserved(r)'
BY DEF Conserved, Sinking, Positions, InputOccurrences, Occurrences

LEMMA InitPInv == Init => PInv
<1> SUFFICES ASSUME Init PROVE PInv
  OBVIOUS
<1>1. CInv
  BY InitCInv
<1>2. ASSUME NEW r \in Rows PROVE Conserved(r)
  <2>1. Cardinality(Occurrences(gcopy, r)) = 0
    BY OccurrencesEmpty DEF Init
  <2>2. Cardinality(Positions(lcopy, Sinking, r)) = 0
    <3>1. \A y \in Sinking : lcopy[y] = <<>>
      BY DEF Init, Sinking
    <3>2. QED
      BY <3>1, PositionsEmpty
  <2>3. Positions(input, pending, r) = InputOccurrences(r)
    BY DEF Init, Positions, InputOccurrences
  <2>4. Cardinality(InputOccurrences(r)) \in Nat
    BY <2>3, InitTypeOK, OwnersFinite, PositionsFinite, FS_CardinalityType
  <2>5. QED
    BY <2>1, <2>2, <2>3, <2>4 DEF Conserved
<1>3. QED
  BY <1>1, <1>2, ThreadsAssumption DEF Init, PInv, AllCombined

(* A step that moves no row and no thread keeps PInv, as long as it      *)
(* enters the replay only once every thread has combined.                  *)
LEMMA FramePInv ==
  ASSUME PInv, CInv', UNCHANGED <<input, pending, tphase, lcopy, gcopy>>,
         phase' \in {"replay", "insert", "finished"} => AllCombined
  PROVE  PInv'
<1>1. \A r \in Rows : Conserved(r)'
  BY ConservedFrame DEF PInv
<1>2. QED
  BY <1>1 DEF PInv, AllCombined

LEMMA NextPInv ==
  ASSUME SinksConsume, SourceNeverBlocks, PInv, [Next]_vars
  PROVE  PInv'
<1>0. CInv' /\ CInv /\ TypeOK /\ TypeOK'
  BY NextCInv, NextTypeOK DEF PInv, CInv, IInv
<1>1. ASSUME NEW t \in Threads, NEW c \in pending, Sink(t, c) PROVE PInv'
  <2>1. ~\E u \in Threads : tphase[u] = "combined"
    BY <1>1 DEF PInv
  <2>2. /\ lcopy' = [lcopy EXCEPT ![t] = lcopy[t] \o input[c]]
        /\ pending' = pending \ {c}
        /\ UNCHANGED <<input, tphase, gcopy, phase>>
    BY <1>1 DEF Sink, SinkInto, SinksConsume, Blocks
  <2>3. Sinking' = Sinking /\ t \in Sinking
    BY <1>1, <2>2 DEF Sink, Sinking
  <2>4. ASSUME NEW r \in Rows PROVE Conserved(r)'
    <3>1. /\ \A y \in Sinking : lcopy'[y] \in Seq(Rows) /\ lcopy[y] \in Seq(Rows)
          /\ IsFiniteSet(Sinking) /\ IsFiniteSet(pending)
          /\ input[c] \in Seq(Rows) /\ c \in DOMAIN input
      BY <1>0, OwnersFinite DEF TypeOK, Sinking
    <3>2. lcopy'[t] = lcopy[t] \o input[c] /\ \A y \in Sinking \ {t} : lcopy'[y] = lcopy[y]
      <4>1. lcopy \in [Threads -> Seq(Rows)] /\ Sinking \subseteq Threads
        BY <1>0 DEF TypeOK, Sinking
      <4>2. QED
        BY <2>2, <4>1
    <3>3. Cardinality(Positions(lcopy', Sinking, r))
            = Cardinality(Positions(lcopy', Sinking \ {t}, r)) + Cardinality(Occurrences(lcopy'[t], r))
      BY <2>3, <3>1, PositionsSplit
    <3>4. Positions(lcopy', Sinking \ {t}, r) = Positions(lcopy, Sinking \ {t}, r)
      BY <3>2, PositionsFrame
    <3>5. Cardinality(Occurrences(lcopy[t] \o input[c], r))
            = Cardinality(Occurrences(lcopy[t], r)) + Cardinality(Occurrences(input[c], r))
      BY <2>3, <3>1, ConcatOccurrences
    <3>6. Cardinality(Positions(lcopy, Sinking, r))
            = Cardinality(Positions(lcopy, Sinking \ {t}, r)) + Cardinality(Occurrences(lcopy[t], r))
      BY <2>3, <3>1, PositionsSplit
    <3>7. Cardinality(Positions(input, pending, r))
            = Cardinality(Positions(input, pending \ {c}, r)) + Cardinality(Occurrences(input[c], r))
      BY <3>1, PositionsSplit, OwnersFinite, <1>0
    <3>8. /\ IsFiniteSet(Sinking \ {t}) /\ IsFiniteSet(pending \ {c})
      BY <3>1, FS_RemoveElement
    <3>9. /\ Cardinality(Occurrences(lcopy[t], r)) \in Nat
          /\ Cardinality(Occurrences(input[c], r)) \in Nat
          /\ Cardinality(Positions(lcopy, Sinking \ {t}, r)) \in Nat
          /\ Cardinality(Positions(input, pending \ {c}, r)) \in Nat
      <4>1. Cardinality(Occurrences(lcopy[t], r)) \in Nat /\ Cardinality(Occurrences(input[c], r)) \in Nat
        BY <2>3, <3>1, OccurrencesFinite
      <4>2. IsFiniteSet(Positions(lcopy, Sinking \ {t}, r))
        BY <3>1, <3>8, PositionsFinite
      <4>3. IsFiniteSet(Positions(input, pending \ {c}, r))
        BY <1>0, <3>8, OwnersFinite, PositionsFinite
      <4>4. QED
        BY <4>1, <4>2, <4>3, FS_CardinalityType
    <3>10. Conserved(r)
      BY DEF PInv
    <3>11. /\ InputOccurrences(r)' = InputOccurrences(r)
           /\ Occurrences(gcopy, r)' = Occurrences(gcopy, r)
           /\ Positions(input, pending, r)' = Positions(input, pending \ {c}, r)
           /\ Positions(lcopy, Sinking, r)' = Positions(lcopy', Sinking, r)
      BY <2>2, <2>3 DEF InputOccurrences, Occurrences, Positions
    <3>12. Conserved(r)' <=>
             Cardinality(Occurrences(gcopy, r)) + Cardinality(Positions(lcopy', Sinking, r))
               + Cardinality(Positions(input, pending \ {c}, r))
             = Cardinality(InputOccurrences(r))
      BY <3>11 DEF Conserved
    <3>13. Cardinality(Occurrences(lcopy'[t], r))
             = Cardinality(Occurrences(lcopy[t], r)) + Cardinality(Occurrences(input[c], r))
      BY <3>2, <3>5
    <3>14. Cardinality(Occurrences(gcopy, r)) + Cardinality(Positions(lcopy, Sinking, r))
             + Cardinality(Positions(input, pending, r))
           = Cardinality(InputOccurrences(r))
      BY <3>10 DEF Conserved
    <3>15. /\ Cardinality(Occurrences(gcopy, r)) \in Nat
           /\ Cardinality(Positions(lcopy', Sinking \ {t}, r)) \in Nat
      <4>1. gcopy \in Seq(Rows)
        BY <1>0 DEF TypeOK
      <4>2. \A y \in Sinking \ {t} : lcopy'[y] \in Seq(Rows)
        BY <3>1
      <4>3. QED
        BY <4>1, <4>2, <3>8, OccurrencesFinite, PositionsFinite, FS_CardinalityType
    <3>16. QED
      BY <3>3, <3>4, <3>6, <3>7, <3>9, <3>12, <3>13, <3>14, <3>15
  <2>5. (\E u \in Threads : tphase'[u] = "combined") => pending' = {}
    BY <2>1, <2>2
  <2>6. phase' \notin {"replay", "insert", "finished"}
    BY <1>1, <2>2 DEF Sink
  <2>7. QED
    BY <1>0, <2>4, <2>5, <2>6 DEF PInv
<1>2. ASSUME NEW t \in Threads, Combine(t) PROVE PInv'
  <2>1. /\ tphase' = [tphase EXCEPT ![t] = "combined"]
        /\ gcopy' = gcopy \o lcopy[t]
        /\ pending = {}
        /\ UNCHANGED <<input, pending, lcopy, phase>>
        /\ phase = "sink"
    BY <1>2 DEF Combine
  <2>2. Sinking' = Sinking \ {t} /\ t \in Sinking
    <3>1. tphase \in [Threads -> {"sinking", "combined"}]
      BY <1>0 DEF TypeOK
    <3>2. QED
      BY <1>2, <2>1, <3>1 DEF Combine, Sinking
  <2>3. ASSUME NEW r \in Rows PROVE Conserved(r)'
    <3>1. /\ \A y \in Sinking : lcopy[y] \in Seq(Rows)
          /\ IsFiniteSet(Sinking) /\ gcopy \in Seq(Rows)
      BY <1>0, OwnersFinite DEF TypeOK
    <3>2. Cardinality(Occurrences(gcopy \o lcopy[t], r))
            = Cardinality(Occurrences(gcopy, r)) + Cardinality(Occurrences(lcopy[t], r))
      BY <2>2, <3>1, ConcatOccurrences
    <3>3. Cardinality(Positions(lcopy, Sinking, r))
            = Cardinality(Positions(lcopy, Sinking \ {t}, r)) + Cardinality(Occurrences(lcopy[t], r))
      BY <2>2, <3>1, PositionsSplit
    <3>4. IsFiniteSet(Sinking \ {t})
      BY <3>1, FS_RemoveElement
    <3>5. /\ Cardinality(Occurrences(gcopy, r)) \in Nat
          /\ Cardinality(Occurrences(lcopy[t], r)) \in Nat
          /\ Cardinality(Positions(lcopy, Sinking \ {t}, r)) \in Nat
      <4>1. IsFiniteSet(Positions(lcopy, Sinking \ {t}, r))
        BY <3>1, <3>4, PositionsFinite
      <4>2. QED
        BY <2>2, <3>1, <4>1, OccurrencesFinite, FS_CardinalityType
    <3>6. Cardinality(Occurrences(gcopy, r)) + Cardinality(Positions(lcopy, Sinking, r))
            + Cardinality(Positions(input, pending, r))
          = Cardinality(InputOccurrences(r))
      BY DEF PInv, Conserved
    <3>7. /\ InputOccurrences(r)' = InputOccurrences(r)
          /\ Occurrences(gcopy, r)' = Occurrences(gcopy \o lcopy[t], r)
          /\ Positions(input, pending, r)' = Positions(input, pending, r)
          /\ Positions(lcopy, Sinking, r)' = Positions(lcopy, Sinking \ {t}, r)
      BY <2>1, <2>2 DEF InputOccurrences, Occurrences, Positions
    <3>8. Conserved(r)' <=>
            Cardinality(Occurrences(gcopy \o lcopy[t], r)) + Cardinality(Positions(lcopy, Sinking \ {t}, r))
              + Cardinality(Positions(input, pending, r))
            = Cardinality(InputOccurrences(r))
      BY <3>7 DEF Conserved
    <3>9. Cardinality(Positions(input, pending, r)) \in Nat
      BY <1>0, OwnersFinite, PositionsFinite, FS_CardinalityType
    <3>10. QED
      BY <3>2, <3>3, <3>5, <3>6, <3>8, <3>9
  <2>4. pending' = {}
    BY <2>1
  <2>5. phase' \notin {"replay", "insert", "finished"}
    BY <2>1
  <2>6. QED
    BY <1>0, <2>3, <2>4, <2>5 DEF PInv
<1>3. ASSUME NEW t \in Threads, CombineBlocked(t) PROVE PInv'
  BY <1>0, <1>3, FramePInv DEF CombineBlocked
<1>4. ASSUME FinalizeChildren PROVE PInv'
  BY <1>0, <1>4, FramePInv DEF FinalizeChildren
<1>5. ASSUME FinalizeChildrenFails PROVE PInv'
  BY <1>0, <1>5, FramePInv DEF FinalizeChildrenFails
<1>6. ASSUME ReplayEnd \/ ReplayBlocked \/ ReplayChunk PROVE PInv'
  <2>1. phase = "replay" /\ UNCHANGED <<input, pending, tphase, lcopy, gcopy>>
    BY <1>6 DEF ReplayEnd, ReplayBlocked, ReplayChunk
  <2>2. AllCombined
    BY <2>1 DEF PInv
  <2>3. QED
    BY <1>0, <2>1, <2>2, FramePInv
<1>7. ASSUME FinalizeInsert \/ GetData PROVE PInv'
  <2>1. phase \in {"insert", "finished"} /\ UNCHANGED <<input, pending, tphase, lcopy, gcopy>>
    BY <1>7 DEF FinalizeInsert, GetData
  <2>2. AllCombined
    BY <2>1 DEF PInv
  <2>3. QED
    BY <1>0, <2>1, <2>2, FramePInv
<1>8. CASE UNCHANGED vars
  <2>1. UNCHANGED <<input, pending, tphase, lcopy, gcopy, phase>>
    BY <1>8 DEF vars
  <2>2. QED
    BY <1>0, <2>1, FramePInv DEF PInv
<1>9. QED
  BY <1>1, <1>2, <1>3, <1>4, <1>5, <1>6, <1>7, <1>8 DEF Next


LEMMA PInvConservation == PInv => UpdateConservation
<1> SUFFICES ASSUME PInv, result # <<>> PROVE
               /\ \A r \in Rows : Cardinality(Occurrences(inserted, r)) = Cardinality(InputOccurrences(r))
               /\ deleted = ToSet(inserted)
               /\ result[1] = Len(inserted)
  BY DEF UpdateConservation
<1>1. CountConserved
  BY CInvCountConserved DEF PInv
<1>2. phase = "finished" /\ cursor = Len(gcopy)
  BY DEF PInv, CInv
<1>3. inserted = gcopy
  BY <1>2 DEF PInv, CInv, IInv, TypeOK
<1>4. Sinking = {}
  BY <1>2 DEF PInv, AllCombined, Sinking
<1>5. pending = {}
  BY <1>2, ThreadsAssumption DEF PInv, AllCombined
<1>6. ASSUME NEW r \in Rows
      PROVE  Cardinality(Occurrences(inserted, r)) = Cardinality(InputOccurrences(r))
  <2>1. Positions(lcopy, Sinking, r) = {} /\ Positions(input, pending, r) = {}
    BY <1>4, <1>5 DEF Positions
  <2>2. Cardinality(Occurrences(gcopy, r)) \in Nat
    BY OccurrencesFinite, FS_CardinalityType DEF PInv, CInv, IInv, TypeOK
  <2>3. Cardinality(Occurrences(gcopy, r)) + Cardinality(Positions(lcopy, Sinking, r))
          + Cardinality(Positions(input, pending, r))
        = Cardinality(InputOccurrences(r))
    BY DEF PInv, Conserved
  <2>4. QED
    BY <1>3, <2>1, <2>2, <2>3, FS_EmptySet
<1>7. QED
  BY <1>1, <1>6 DEF CountConserved

(* UpdateConservation (spec 8), in full.  When the copy's and the delete's *)
(* Sink always consume their chunk and the copy's source never answers    *)
(* BLOCKED, once DuckLakeUpdate::GetData has reported its count, the       *)
(* insert registered every row of the child's output as often as the     *)
(* child produced it, the delete marked exactly those rows, and the count *)
(* is their number, whichever thread sank which chunk and in whatever     *)
(* order the threads combined.                                             *)
THEOREM Conservation ==
  ASSUME SinksConsume, SourceNeverBlocks PROVE Spec => []UpdateConservation
<1>1. PInv /\ [Next]_vars => PInv'
  BY NextPInv
<1>2. QED
  BY <1>1, InitPInv, PInvConservation, PTL DEF Spec

=============================================================================
