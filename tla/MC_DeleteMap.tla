------------------------------ MODULE MC_DeleteMap ------------------------------
(* DeleteMap with two threads, one data file, one delete file and delete  *)
(* data deleting row 1, row 2, or both.                                    *)
EXTENDS DeleteMap, TLC

CONSTANTS t1, t2, f1, a1

MCThreads == {t1, t2}
MCFiles == {f1}
MCArtifacts == {a1}
MCData == {{1}, {2}, {1, 2}}

(* The delete data the two threads add: each deletes one row.             *)
d1 == {1}
d2 == {2}

Rec(a, f) == [op |-> "AddExtendedFileInfo", art |-> a, file |-> f]
Look(a) == [op |-> "GetExtendedFileInfo", art |-> a]
Get(f) == [op |-> "GetDeleteData", file |-> f]
Clear(f) == [op |-> "ClearDeletes", file |-> f]
Add(f, d) == [op |-> "AddDeleteData", file |-> f, data |-> d]

(* t1 registers a delete file and looks it up (or looks it up first),     *)
(* adds and reads the file's delete data; t2 reads, clears and adds.       *)
(* Only t1 touches file_map.                                               *)
MCPrograms ==
  { (t1 :> p1) @@ (t2 :> << Get(f1), Clear(f1), Add(f1, d2) >>) :
      p1 \in { << Rec(a1, f1), Look(a1), Add(f1, d1), Get(f1) >>,
               << Look(a1), Add(f1, d1), Get(f1) >> } }

(* Both threads add delete data for the same file.                         *)
MCTwoAdds ==
  { (t1 :> << Add(f1, d1) >>) @@ (t2 :> << Add(f1, d2) >>) }
=============================================================================
