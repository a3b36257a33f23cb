------------------------------ MODULE DeleteMap ------------------------------
(***************************************************************************)
(* DuckLakeDeleteMap (storage/ducklake_delete.hpp, src/unnamed/part_002    *)
(* lines 145-183): the registry a delete shares between its threads.  It  *)
(* holds file_map (delete file path -> data file entry) and               *)
(* delete_data_map (data file -> its delete data, a shared_ptr), and one  *)
(* mutex, which only the three delete_data_map methods take.               *)
(*                                                                         *)
(* Each thread runs a program of calls.  A call's access to a map is two  *)
(* steps, its start and its end, so that two accesses that overlap are a   *)
(* reachable state: an access to an unordered_map overlapping a write is   *)
(* a data race, whose outcome is a choice (an insert may be lost, a find  *)
(* may return anything).  delete_data_map owns its delete data: an entry  *)
(* that is erased, or a shared_ptr that emplace did not store, is freed.   *)
(***************************************************************************)
EXTENDS Naturals, Sequences, Functions

CONSTANTS
  Threads,    \* threads of the delete (sink, flush and scan threads)
  Files,      \* data file paths, the keys of delete_data_map
  Artifacts,  \* delete file paths, the keys of file_map
  Data,       \* DuckLakeDeleteData objects, as the row ids each one deletes
  NoThread,   \* the mutex is free
  NoData,     \* nullptr
  Programs    \* the call sequences the threads may run

(* The calls of the registry's interface, with their arguments.            *)
Calls ==
  [op : {"AddExtendedFileInfo"}, art : Artifacts, file : Files]
  \cup [op : {"GetExtendedFileInfo"}, art : Artifacts]
  \cup [op : {"GetDeleteData", "ClearDeletes"}, file : Files]
  \cup [op : {"AddDeleteData"}, file : Files, data : Data]

ASSUME ThreadsAssumption == Threads # {} /\ NoThread \notin Threads
ASSUME DataAssumption == NoData \notin Data /\ NoData \notin Files
ASSUME ProgramsAssumption ==
  Programs # {} /\ Programs \subseteq [Threads -> Seq(Calls)]

VARIABLES
  prog,       \* each thread's calls (fixed for the run)
  next,       \* index in prog[t] of the thread's current or next call
  pc,         \* "idle", "locked" or "unlocked" (inside a call), "use", "error"
  holder,     \* the thread holding the mutex, or NoThread
  fileMap,    \* file_map: delete file path -> data file
  delMap,     \* delete_data_map: data file -> delete data
  access,     \* accesses in progress: <<thread, map, "read" or "write">>
  raced,      \* threads whose access in progress overlaps a conflicting one
  ptr,        \* the raw pointer the thread's last GetDeleteData returned
  added       \* per data file: delete data added since it was last cleared

vars == <<prog, next, pc, holder, fileMap, delMap, access, raced, ptr, added>>

-----------------------------------------------------------------------------
Current(t) == prog[t][next[t]]

(* The methods that take the mutex (lock_guard for the whole method).     *)
Guarded(op) == op \in {"GetDeleteData", "ClearDeletes", "AddDeleteData"}

(* The map a method touches and how.                                       *)
MapOf(op) ==
  IF op \in {"AddExtendedFileInfo", "GetExtendedFileInfo"} THEN "file" ELSE "delete"
KindOf(op) ==
  IF op \in {"GetExtendedFileInfo", "GetDeleteData"} THEN "read" ELSE "write"

(* Two accesses conflict when they touch the same map and one writes.     *)
Conflict(x, y) == x[1] # y[1] /\ x[2] = y[2] /\ "write" \in {x[3], y[3]}

(* unordered_map::emplace: inserts only when the key is absent.            *)
Emplace(m, k, v) ==
  IF k \in DOMAIN m THEN m ELSE [x \in DOMAIN m \cup {k} |-> IF x = k THEN v ELSE m[x]]

(* What a write step leaves in a map: the write, or, when it raced, the    *)
(* write or nothing.                                                       *)
Outcomes(t, old, new) == IF t \in raced THEN {old, new} ELSE {new}

(* delete data still owned by delete_data_map.                             *)
Alive == Range(delMap)

TypeOK ==
  /\ prog \in Programs
  /\ next \in [Threads -> Nat] /\ \A t \in Threads : next[t] \in 1..(Len(prog[t]) + 1)
  /\ pc \in [Threads -> {"idle", "locked", "unlocked", "use", "error"}]
  /\ holder \in Threads \cup {NoThread}
  /\ fileMap \in [DOMAIN fileMap -> Files] /\ DOMAIN fileMap \subseteq Artifacts
  /\ delMap \in [DOMAIN delMap -> Data] /\ DOMAIN delMap \subseteq Files
  /\ access \subseteq Threads \X {"file", "delete"} \X {"read", "write"}
  /\ raced \subseteq Threads
  /\ ptr \in [Threads -> Data \cup {NoData}]
  /\ added \in [Files -> SUBSET Data]

-----------------------------------------------------------------------------
Init ==
  /\ prog \in Programs
  /\ next = [t \in Threads |-> 1]
  /\ pc = [t \in Threads |-> "idle"]
  /\ holder = NoThread
  /\ fileMap = <<>>
  /\ delMap = <<>>
  /\ access = {}
  /\ raced = {}
  /\ ptr = [t \in Threads |-> NoData]
  /\ added = [f \in Files |-> {}]

(* A thread's call starts its map access: ac is the new access.            *)
StartAccess(t, ac) ==
  /\ access' = access \cup {ac}
  /\ LET clash == {x \in access : Conflict(x, ac)} IN
       raced' = raced \cup {x[1] : x \in clash}
                      \cup (IF clash = {} THEN {} ELSE {t})

(* The call's access ends.                                                 *)
EndAccess(t) ==
  /\ access' = {x \in access : x[1] # t}
  /\ raced' = raced \ {t}

(* Variant for checking: the lock_guard does not wait for the mutex.      *)
LockNoWait(t) == holder' = t
(* lock_guard<mutex> guard(lock): wait until the mutex is free.            *)
Lock(t) == holder = NoThread /\ holder' = t

(* ~lock_guard at the end of the method.                                   *)
Unlock == holder' = NoThread

(* The thread enters a method that takes the mutex, and starts its access *)
(* to delete_data_map.                                                     *)
EnterLocked(t) ==
  /\ pc[t] = "idle"
  /\ next[t] <= Len(prog[t])
  /\ Guarded(Current(t).op)
  /\ Lock(t)
  /\ StartAccess(t, <<t, "delete", KindOf(Current(t).op)>>)
  /\ pc' = [pc EXCEPT ![t] = "locked"]
  /\ UNCHANGED <<prog, next, fileMap, delMap, ptr, added>>

(* The thread enters a file_map method, which takes no lock.               *)
EnterUnlocked(t) ==
  /\ pc[t] = "idle"
  /\ next[t] <= Len(prog[t])
  /\ ~Guarded(Current(t).op)
  /\ StartAccess(t, <<t, MapOf(Current(t).op), KindOf(Current(t).op)>>)
  /\ pc' = [pc EXCEPT ![t] = "unlocked"]
  /\ UNCHANGED <<prog, next, holder, fileMap, delMap, ptr, added>>

(* Leaving a method in pc s: the call returns and the next one is due.     *)
Return(t, s) ==
  /\ pc' = [pc EXCEPT ![t] = s]
  /\ next' = [next EXCEPT ![t] = IF s = "use" THEN @ ELSE @ + 1]

InCall(t, op) == pc[t] \in {"locked", "unlocked"} /\ Current(t).op = op

(* AddExtendedFileInfo, lines 147-150: emplace the entry under its path.   *)
AddExtendedFileInfo(t) ==
  /\ InCall(t, "AddExtendedFileInfo")
  /\ fileMap' \in Outcomes(t, fileMap,
                   Emplace(fileMap, Current(t).art, Current(t).file))
  /\ EndAccess(t)
  /\ Return(t, "idle")
  /\ UNCHANGED <<prog, holder, delMap, ptr, added>>

(* Variant for checking: the lookup is file_map[filename], which inserts   *)
(* a default-constructed entry, naming no data file (NoData stands for it), *)
(* for a path that was never recorded, instead of throwing.                 *)
GetExtendedFileInfoIndexes(t) ==
  /\ InCall(t, "GetExtendedFileInfo")
  /\ LET a == Current(t).art IN
       fileMap' = IF a \in DOMAIN fileMap THEN fileMap
                  ELSE [x \in DOMAIN fileMap \cup {a} |-> IF x = a THEN NoData ELSE fileMap[x]]
  /\ Return(t, "idle")
  /\ EndAccess(t)
  /\ UNCHANGED <<prog, holder, delMap, ptr, added>>

(* GetExtendedFileInfo, lines 152-158: find the entry; a missing entry is  *)
(* an InternalException.  A racing find may find anything.                 *)
GetExtendedFileInfo(t) ==
  /\ InCall(t, "GetExtendedFileInfo")
  /\ \E found \in (IF t \in raced THEN BOOLEAN
                   ELSE {Current(t).art \in DOMAIN fileMap}) :
       Return(t, IF found THEN "idle" ELSE "error")
  /\ EndAccess(t)
  /\ UNCHANGED <<prog, holder, fileMap, delMap, ptr, added>>

(* GetDeleteData, lines 160-167: find the file's entry and return the raw *)
(* pointer it holds, or nullptr; the lock is released on return.           *)
GetDeleteData(t) ==
  /\ InCall(t, "GetDeleteData")
  /\ LET f == Current(t).file
         found == IF f \in DOMAIN delMap THEN delMap[f] ELSE NoData
     IN \E v \in (IF t \in raced THEN Data \cup {NoData} ELSE {found}) :
          /\ ptr' = [ptr EXCEPT ![t] = v]
          /\ Return(t, IF v = NoData THEN "idle" ELSE "use")
  /\ Unlock
  /\ EndAccess(t)
  /\ UNCHANGED <<prog, fileMap, delMap, added>>

(* ClearDeletes, lines 169-172: erase the file's entry, which frees its    *)
(* delete data.                                                            *)
ClearDeletes(t) ==
  /\ InCall(t, "ClearDeletes")
  /\ LET f == Current(t).file IN
       /\ delMap' \in Outcomes(t, delMap, [g \in DOMAIN delMap \ {f} |-> delMap[g]])
       /\ added' = [added EXCEPT ![f] = IF delMap' = delMap THEN @ ELSE {}]
  /\ Unlock
  /\ EndAccess(t)
  /\ Return(t, "idle")
  /\ UNCHANGED <<prog, fileMap, ptr>>

(* AddDeleteData, lines 174-177: emplace the shared_ptr; when the file     *)
(* already has delete data the new one is dropped (and freed).             *)
AddDeleteData(t) ==
  /\ InCall(t, "AddDeleteData")
  /\ LET c == Current(t) IN
       /\ delMap' \in Outcomes(t, delMap, Emplace(delMap, c.file, c.data))
       /\ added' = [added EXCEPT ![c.file] = @ \cup {c.data}]
  /\ Unlock
  /\ EndAccess(t)
  /\ Return(t, "idle")
  /\ UNCHANGED <<prog, fileMap, ptr>>

(* The caller of GetDeleteData dereferences the pointer it got, after the *)
(* method has released the lock.                                           *)
UseDeleteData(t) ==
  /\ pc[t] = "use"
  /\ Return(t, "idle")
  /\ UNCHANGED <<prog, holder, fileMap, delMap, access, raced, ptr, added>>

Step(t) ==
  \/ EnterLocked(t) \/ EnterUnlocked(t)
  \/ AddExtendedFileInfo(t) \/ GetExtendedFileInfo(t)
  \/ GetDeleteData(t) \/ ClearDeletes(t) \/ AddDeleteData(t)
  \/ UseDeleteData(t)

Next == \E t \in Threads : Step(t)

(* The scheduler keeps running every thread that can run; std::mutex     *)
(* promises no more than that.                                             *)
Fairness == \A t \in Threads : WF_vars(Step(t))

Spec == Init /\ [][Next]_vars /\ Fairness

-----------------------------------------------------------------------------
(* No data race: no two accesses in progress to the same map conflict.     *)
(* The mutex must keep every delete_data_map access apart; file_map, which *)
(* no method locks, is safe only while one thread uses it (spec 4.2).      *)
NoDataRace == \A x, y \in access : ~Conflict(x, y)

(* A pointer GetDeleteData returned is only dereferenced while the delete *)
(* data it points to is still owned by the map: no ClearDeletes of another *)
(* thread frees it between the unlock and the use.                         *)
NoUseAfterFree == \A t \in Threads : pc[t] = "use" => ptr[t] \in Alive

(* Spec 4.2, MergeVector: the row ids of every delete data added for a    *)
(* file since it was last cleared are among the row ids of the file's     *)
(* entry, so that two threads deleting rows of one file both have their   *)
(* deletes recorded.  A union merge keeps it; AddDeleteData's emplace      *)
(* (line 176) keeps only the first delete data.                            *)
DeletesMerged ==
  \A f \in Files : \A d \in added[f] : f \in DOMAIN delMap /\ d \subseteq delMap[f]

=============================================================================
