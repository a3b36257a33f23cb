------------------------------ MODULE UpdatePlan ------------------------------
(***************************************************************************)
(* Planning of an UPDATE of a DuckLake table (ducklake_update.cpp lines   *)
(* 232-344): DuckLakeTableEntry::BindUpdateConstraints, which makes every *)
(* physical column an updated one by projecting the columns the statement  *)
(* does not set, then DuckLakeCatalog::PlanUpdate, which orders the update *)
(* expressions by physical column and appends the partition expressions.   *)
(*                                                                         *)
(* Column c is 0..NumColumns-1.  The scan (LogicalGet's column ids) is a   *)
(* sequence of columns; a projection expression is <<"new", c>>, the value *)
(* a SET clause computes for c, or <<"old", j>>, the scan's j-th column    *)
(* (0-based); an update expression is a projection index (0-based); a     *)
(* planned expression is <<f, k>>, function f ("ref" for the reference     *)
(* itself) applied to projection output k.                                 *)
(***************************************************************************)
EXTENDS Naturals, Sequences, SequencesExt

CONSTANTS
  NumColumns,      \* physical columns of the table
  PartitionSpecs   \* partition fields the table may have: sequences of [key, transform]

Columns == 0..(NumColumns - 1)

Transforms == {"IDENTITY", "YEAR", "MONTH", "DAY", "HOUR"}

ASSUME PlanAssumption ==
  /\ NumColumns \in Nat \ {0}
  /\ PartitionSpecs \subseteq Seq([key : Columns, transform : Transforms])

(* Sequences of distinct columns: the SET targets, and the columns the     *)
(* statement's expressions scan.                                           *)
DistinctColumnSeqs == {s \in BoundedSeq(Columns, NumColumns) : IsInjective(s)}

VARIABLES
  scan,          \* get.GetColumnIds()
  cols,          \* update.columns
  exprs,         \* update.expressions
  proj,          \* proj.expressions
  delAndInsert,  \* update.update_is_del_and_insert
  returnChunk,   \* op.return_chunk (RETURNING)
  setDefault,    \* some SET expression is DEFAULT
  fields,        \* copy_input.partition_data->fields
  planned,       \* the expressions handed to DuckLakeUpdate
  phase          \* "bind", "plan", "planned" or "error"

vars == <<scan, cols, exprs, proj, delAndInsert, returnChunk, setDefault, fields, planned, phase>>

ProjExprs == ({"new"} \X Columns) \cup ({"old"} \X Nat)

TypeOK ==
  /\ scan \in Seq(Columns) /\ cols \in Seq(Columns)
  /\ exprs \in Seq(0..(Len(proj) - 1))
  /\ proj \in Seq(ProjExprs)
  /\ \A k \in DOMAIN proj : proj[k][1] = "old" => proj[k][2] < Len(scan)
  /\ delAndInsert \in BOOLEAN /\ returnChunk \in BOOLEAN /\ setDefault \in BOOLEAN
  /\ fields \in PartitionSpecs
  /\ planned \in Seq({"ref", "year", "month", "day", "hour"} \X Nat)
  /\ phase \in {"bind", "plan", "planned", "error"}

(* The binder's output for UPDATE t SET c1 = e1, ...: update.columns are  *)
(* the targets, each expression a reference to its projection entry, and  *)
(* the scan reads the columns the expressions use.                         *)
Init ==
  /\ cols \in DistinctColumnSeqs \ {<<>>}
  /\ scan \in DistinctColumnSeqs
  /\ exprs = [i \in DOMAIN cols |-> i - 1]
  /\ proj = [i \in DOMAIN cols |-> <<"new", cols[i]>>]
  /\ delAndInsert = FALSE
  /\ returnChunk \in BOOLEAN /\ setDefault \in BOOLEAN
  /\ fields \in PartitionSpecs
  /\ planned = <<>>
  /\ phase = "bind"

-----------------------------------------------------------------------------
(* Lines 324-335: the first position of c in the scan, or the position it *)
(* is added at.                                                            *)
ColumnIdIndex(ids, c) ==
  LET found == SelectInSeq(ids, LAMBDA x : x = c) IN
  IF found # 0 THEN found - 1 ELSE Len(ids)

BindColumnIndexAfterPush(st, c) ==
  IF c \in ToSet(st.cols) THEN st
  ELSE LET idx == ColumnIdIndex(st.scan, c)
           added == IF idx = Len(st.scan) THEN Append(st.scan, c) ELSE st.scan
       IN [scan |-> Append(added, c),
           cols |-> Append(st.cols, c),
           exprs |-> Append(st.exprs, Len(st.proj) + 1),
           proj |-> Append(st.proj, <<"old", idx>>)]

(* One iteration of the loop over columns.Physical() (lines 310-343): a    *)
(* column the statement does not set is looked up in the scan, added to it *)
(* when missing, added to it again (line 341), and projected.              *)
BindColumn(st, c) ==
  IF c \in ToSet(st.cols) THEN st
  ELSE LET idx == ColumnIdIndex(st.scan, c)
           added == IF idx = Len(st.scan) THEN Append(st.scan, c) ELSE st.scan
       IN [scan |-> Append(added, c),
           cols |-> Append(st.cols, c),
           exprs |-> Append(st.exprs, Len(st.proj)),
           proj |-> Append(st.proj, <<"old", idx>>)]

(* BindUpdateConstraints (lines 301-344).                                  *)
BindUpdateConstraints ==
  /\ phase = "bind"
  /\ LET st == FoldLeft(BindColumn, [scan |-> scan, cols |-> cols, exprs |-> exprs, proj |-> proj],
                        [i \in 1..NumColumns |-> i - 1])
     IN /\ scan' = st.scan /\ cols' = st.cols /\ exprs' = st.exprs /\ proj' = st.proj
  /\ delAndInsert' = TRUE
  /\ phase' = "plan"
  /\ UNCHANGED <<returnChunk, setDefault, fields, planned>>

-----------------------------------------------------------------------------
(* Lines 280-284: expression_map[op.columns[i].index] = i, the last i      *)
(* winning (1-based here).                                                 *)
ExpressionMap(cs) ==
  [k \in ToSet(cs) |-> CHOOSE i \in DOMAIN cs : cs[i] = k /\ \A j \in DOMAIN cs : cs[j] = k => j <= i]

MapLookupIdentity(m, k) == k + 1

(* expression_map[i] on an unordered_map: a missing key is inserted with  *)
(* the value 0, the first expression.                                      *)
MapLookup(m, k) == IF k \in DOMAIN m THEN m[k] ELSE 1

TransformFunction ==
  [IDENTITY |-> "ref", YEAR |-> "year", MONTH |-> "month", DAY |-> "day", HOUR |-> "hour"]

(* GetPartitionExpressionForUpdate (lines 232-249): IDENTITY passes the    *)
(* reference through, the others call the calendar function on it.         *)
PartitionExpression(ref, field) == <<TransformFunction[field.transform], ref[2]>>

(* PlanUpdate (lines 251-299): the RETURNING and SET DEFAULT checks, the  *)
(* expressions in physical column order, then one per partition field on   *)
(* the reference its key column's expression is.                           *)
PlanUpdate ==
  /\ phase = "plan"
  /\ IF returnChunk \/ setDefault
     THEN phase' = "error" /\ UNCHANGED planned
     ELSE LET m == ExpressionMap(cols)
              ordered == [i \in 1..Len(cols) |-> <<"ref", exprs[MapLookup(m, i - 1)]>>]
          IN /\ planned' = ordered \o [f \in DOMAIN fields |->
                                         PartitionExpression(ordered[fields[f].key + 1], fields[f])]
             /\ phase' = "planned"
  /\ UNCHANGED <<scan, cols, exprs, proj, delAndInsert, returnChunk, setDefault, fields>>

Next == BindUpdateConstraints \/ PlanUpdate

Spec == Init /\ [][Next]_vars

-----------------------------------------------------------------------------
(* The value projection output k carries for the row being updated.        *)
ValueOf(k) ==
  LET p == proj[k + 1] IN IF p[1] = "new" THEN p ELSE <<"old", scan[p[2] + 1]>>

(* The columns the statement sets: those whose projection entry is a SET  *)
(* clause's value.                                                         *)
SetTargets == {proj[k][2] : k \in {k \in DOMAIN proj : proj[k][1] = "new"}}

(* The value column c must be written with: what the SET computed for it, *)
(* or its old value.                                                       *)
Target(c) == IF c \in SetTargets THEN <<"new", c>> ELSE <<"old", c>>

(* The planned expressions write every physical column with its new value *)
(* when the statement sets it and its old value otherwise, and each        *)
(* partition key is the field's transform of the key column's new value   *)
(* (spec 4.3): the binder's projection indices, the scan positions it      *)
(* binds and PlanUpdate's expression_map agree.                            *)
PlanExpressions ==
  phase = "planned" =>
    /\ Len(planned) = NumColumns + Len(fields)
    /\ \A c \in Columns : planned[c + 1][1] = "ref" /\ ValueOf(planned[c + 1][2]) = Target(c)
    /\ \A f \in DOMAIN fields :
         /\ planned[NumColumns + f][1] = TransformFunction[fields[f].transform]
         /\ ValueOf(planned[NumColumns + f][2]) = Target(fields[f].key)

=============================================================================
