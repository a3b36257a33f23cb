---------------------------- MODULE DeleteMapProofs ----------------------------
(***************************************************************************)
(* Proofs about DeleteMap for every set of threads, files and programs.   *)
(* When at most one thread's program calls the file_map methods (the      *)
(* discipline spec 4.2 asks of RecordArtifact without its own lock), the  *)
(* mutex keeps all accesses apart and no access ever races.                *)
(***************************************************************************)
EXTENDS DeleteMap, TLAPS

(* Thread t's program in P calls a method that takes no lock.              *)
UsesFileMap(P, t) == \E i \in 1..Len(P[t]) : ~Guarded(P[t][i].op)

(* At most one thread of any program uses file_map.                        *)
OneFileMapUser ==
  \A P \in Programs : \A t, u \in Threads : UsesFileMap(P, t) /\ UsesFileMap(P, u) => t = u

(* The inductive invariant: the mutex is held exactly by the thread inside *)
(* a locked method, every access in progress is its thread's current       *)
(* call's access to that call's map, and nothing has raced.                *)
IInv ==
  /\ TypeOK
  /\ raced = {}
  /\ \A t \in Threads : pc[t] \in {"locked", "unlocked", "use"} => next[t] <= Len(prog[t])
  /\ \A t \in Threads : pc[t] = "locked" => Guarded(Current(t).op)
  /\ \A t \in Threads : pc[t] = "unlocked" => ~Guarded(Current(t).op)
  /\ \A t \in Threads : holder = t <=> pc[t] = "locked"
  /\ \A x \in access : pc[x[1]] \in {"locked", "unlocked"} /\ x[2] = MapOf(Current(x[1]).op)

-----------------------------------------------------------------------------
(* A thread inside a call (its next index in range) runs a call of the     *)
(* interface.                                                              *)
LEMMA CurrentCall ==
  ASSUME TypeOK, NEW t \in Threads, next[t] <= Len(prog[t])
  PROVE  Current(t) \in Calls
BY ProgramsAssumption DEF TypeOK, Current

(* The arguments a call carries, and that the locked methods are exactly  *)
(* those on delete_data_map.                                               *)
LEMMA CallFields ==
  ASSUME NEW c \in Calls
  PROVE  /\ c.op = "AddExtendedFileInfo" => c.art \in Artifacts /\ c.file \in Files
         /\ c.op = "AddDeleteData" => c.file \in Files /\ c.data \in Data
         /\ c.op \in {"GetDeleteData", "ClearDeletes"} => c.file \in Files
         /\ MapOf(c.op) = "delete" <=> Guarded(c.op)
BY DEF Calls, MapOf, Guarded

(* erase keeps a map's keys in S and its values in T.                      *)
LEMMA EraseType ==
  ASSUME NEW S, NEW T, NEW m, m \in [DOMAIN m -> T], DOMAIN m \subseteq S, NEW k
  PROVE  LET e == [g \in DOMAIN m \ {k} |-> m[g]] IN
         e \in [DOMAIN e -> T] /\ DOMAIN e \subseteq S
OBVIOUS

LEMMA InitIInv == Init => IInv
BY ProgramsAssumption, ThreadsAssumption DEF Init, IInv, TypeOK

(* A thread inside an unlocked method uses file_map.                       *)
LEMMA UnlockedUsesFileMap ==
  ASSUME IInv, NEW t \in Threads, pc[t] = "unlocked"
  PROVE  UsesFileMap(prog, t)
BY DEF IInv, TypeOK, UsesFileMap, Current

(* A thread that returns from a call keeps the state typed, given the     *)
(* types of what the method wrote.                                         *)
LEMMA ReturnType ==
  ASSUME TypeOK, NEW t \in Threads, next[t] <= Len(prog[t]),
         NEW s \in {"idle", "error", "use"}, Return(t, s), prog' = prog,
         access' = {x \in access : x[1] # t}, raced' = raced \ {t},
         holder' \in Threads \cup {NoThread},
         fileMap' \in [DOMAIN fileMap' -> Files], DOMAIN fileMap' \subseteq Artifacts,
         delMap' \in [DOMAIN delMap' -> Data], DOMAIN delMap' \subseteq Files,
         ptr' \in [Threads -> Data \cup {NoData}], added' \in [Files -> SUBSET Data]
  PROVE  TypeOK'
<1>1. next' \in [Threads -> Nat] /\ \A u \in Threads : next'[u] \in 1..(Len(prog'[u]) + 1)
  BY DEF Return, TypeOK
<1>2. pc' \in [Threads -> {"idle", "locked", "unlocked", "use", "error"}]
  BY DEF Return, TypeOK
<1>3. QED
  BY <1>1, <1>2 DEF TypeOK

(* A thread returning from a method (to "idle", "error", or "use" to      *)
(* dereference GetDeleteData's pointer) ends its access and, from a       *)
(* locked method, releases the mutex: the invariant is kept.               *)
LEMMA LeaveCall ==
  ASSUME IInv, NEW t \in Threads, pc[t] \in {"locked", "unlocked"},
         NEW s \in {"idle", "error", "use"}, TypeOK',
         prog' = prog, pc' = [pc EXCEPT ![t] = s],
         next' = [next EXCEPT ![t] = IF s = "use" THEN next[t] ELSE next[t] + 1],
         access' = {x \in access : x[1] # t}, raced' = {},
         holder' = IF pc[t] = "locked" THEN NoThread ELSE holder
  PROVE  IInv'
<1> USE DEF IInv
<1>1. \A u \in Threads \ {t} : pc'[u] = pc[u] /\ next'[u] = next[u] /\ Current(u)' = Current(u)
  BY DEF TypeOK, Current
<1>2. \A u \in Threads : pc'[u] \in {"locked", "unlocked", "use"} => next'[u] <= Len(prog'[u])
  BY <1>1 DEF TypeOK
<1>3. \A u \in Threads : holder' = u <=> pc'[u] = "locked"
  BY <1>1, ThreadsAssumption DEF TypeOK
<1>4. \A u \in Threads : /\ pc'[u] = "locked" => Guarded(Current(u)'.op)
                         /\ pc'[u] = "unlocked" => ~Guarded(Current(u)'.op)
  BY <1>1 DEF TypeOK
<1>5. \A x \in access' : pc'[x[1]] \in {"locked", "unlocked"} /\ x[2] = MapOf(Current(x[1])'.op)
  BY <1>1 DEF TypeOK
<1>6. QED
  BY <1>2, <1>3, <1>4, <1>5

LEMMA NextIInv ==
  ASSUME OneFileMapUser, IInv, [Next]_vars
  PROVE  IInv'
<1> USE DEF IInv
<1>1. CASE UNCHANGED vars
  BY <1>1 DEF vars, TypeOK, Current
<1>2. ASSUME NEW t \in Threads, EnterLocked(t) PROVE IInv'
  <2> DEFINE c == Current(t)
  <2>1. c \in Calls /\ Guarded(c.op) /\ MapOf(c.op) = "delete"
    BY <1>2, CurrentCall, CallFields DEF EnterLocked
  <2>2. ASSUME NEW x \in access PROVE ~Conflict(x, <<t, "delete", KindOf(c.op)>>)
    <3> SUFFICES ASSUME x[2] = "delete" PROVE FALSE
      BY DEF Conflict
    <3>1. x[1] \in Threads /\ pc[x[1]] \in {"locked", "unlocked"} /\ next[x[1]] <= Len(prog[x[1]])
      BY DEF TypeOK
    <3>2. Guarded(Current(x[1]).op)
      BY <3>1, CurrentCall, CallFields
    <3>3. QED
      BY <3>1, <3>2, <1>2, ThreadsAssumption DEF EnterLocked, Lock
  <2>3. raced' = {}
    BY <2>2, <1>2 DEF EnterLocked, StartAccess
  <2>4. TypeOK'
    BY <1>2 DEF EnterLocked, StartAccess, Lock, TypeOK, KindOf
  <2>5. \A x \in access : x[1] # t
    BY <1>2 DEF EnterLocked, TypeOK
  <2>6. /\ prog' = prog /\ next' = next /\ pc' = [pc EXCEPT ![t] = "locked"] /\ holder' = t
        /\ access' = access \cup {<<t, "delete", KindOf(c.op)>>}
    BY <1>2 DEF EnterLocked, Lock, StartAccess
  <2>7. \A u \in Threads \ {t} : pc'[u] = pc[u] /\ next'[u] = next[u] /\ Current(u)' = Current(u)
    BY <2>6 DEF TypeOK, Current
  <2>8. \A u \in Threads : pc'[u] \in {"locked", "unlocked", "use"} => next'[u] <= Len(prog'[u])
    BY <1>2, <2>6, <2>7 DEF EnterLocked
  <2>9. \A u \in Threads : holder' = u <=> pc'[u] = "locked"
    BY <1>2, <2>6, <2>7, ThreadsAssumption DEF EnterLocked, Lock, TypeOK
  <2>10. \A u \in Threads : /\ pc'[u] = "locked" => Guarded(Current(u)'.op)
                            /\ pc'[u] = "unlocked" => ~Guarded(Current(u)'.op)
    BY <2>1, <2>6, <2>7 DEF TypeOK, Current
  <2>11. \A x \in access' : pc'[x[1]] \in {"locked", "unlocked"} /\ x[2] = MapOf(Current(x[1])'.op)
    BY <2>1, <2>5, <2>6, <2>7 DEF TypeOK, Current
  <2>12. QED
    BY <2>3, <2>4, <2>8, <2>9, <2>10, <2>11
<1>3. ASSUME NEW t \in Threads, EnterUnlocked(t) PROVE IInv'
  <2> DEFINE c == Current(t)
  <2>1. c \in Calls /\ ~Guarded(c.op) /\ MapOf(c.op) = "file"
    BY <1>3, CurrentCall, CallFields DEF EnterUnlocked, MapOf
  <2>2. UsesFileMap(prog, t)
    BY <1>3 DEF EnterUnlocked, UsesFileMap, Current, TypeOK
  <2>3. ASSUME NEW x \in access PROVE ~Conflict(x, <<t, "file", KindOf(c.op)>>)
    <3> SUFFICES ASSUME x[2] = "file", x[1] # t PROVE FALSE
      BY DEF Conflict
    <3>1. x[1] \in Threads /\ pc[x[1]] \in {"locked", "unlocked"} /\ next[x[1]] <= Len(prog[x[1]])
      BY DEF TypeOK
    <3>2. ~Guarded(Current(x[1]).op)
      BY <3>1, CurrentCall, CallFields
    <3>3. pc[x[1]] = "unlocked"
      BY <3>1, <3>2
    <3>4. UsesFileMap(prog, x[1])
      BY <3>1, <3>3, UnlockedUsesFileMap
    <3>5. QED
      BY <2>2, <3>1, <3>4 DEF OneFileMapUser, TypeOK
  <2>4. raced' = {}
    BY <2>1, <2>3, <1>3 DEF EnterUnlocked, StartAccess
  <2>5. TypeOK'
    BY <1>3, <2>1 DEF EnterUnlocked, StartAccess, TypeOK, KindOf
  <2>6. \A x \in access : x[1] # t
    BY <1>3 DEF EnterUnlocked, TypeOK
  <2>7. /\ prog' = prog /\ next' = next /\ pc' = [pc EXCEPT ![t] = "unlocked"] /\ holder' = holder
        /\ access' = access \cup {<<t, "file", KindOf(c.op)>>}
    BY <1>3, <2>1 DEF EnterUnlocked, StartAccess, MapOf
  <2>8. \A u \in Threads \ {t} : pc'[u] = pc[u] /\ next'[u] = next[u] /\ Current(u)' = Current(u)
    BY <2>7 DEF TypeOK, Current
  <2>9. \A u \in Threads : pc'[u] \in {"locked", "unlocked", "use"} => next'[u] <= Len(prog'[u])
    BY <1>3, <2>7, <2>8 DEF EnterUnlocked
  <2>10. \A u \in Threads : holder' = u <=> pc'[u] = "locked"
    BY <1>3, <2>7, <2>8 DEF EnterUnlocked, TypeOK
  <2>11. \A u \in Threads : /\ pc'[u] = "locked" => Guarded(Current(u)'.op)
                            /\ pc'[u] = "unlocked" => ~Guarded(Current(u)'.op)
    BY <2>1, <2>7, <2>8 DEF TypeOK, Current
  <2>12. \A x \in access' : pc'[x[1]] \in {"locked", "unlocked"} /\ x[2] = MapOf(Current(x[1])'.op)
    BY <2>1, <2>6, <2>7, <2>8 DEF TypeOK, Current
  <2>13. QED
    BY <2>4, <2>5, <2>9, <2>10, <2>11, <2>12
<1>4. ASSUME NEW t \in Threads, AddExtendedFileInfo(t) PROVE IInv'
  <2> DEFINE c == Current(t)
  <2>1. c \in Calls /\ c.op = "AddExtendedFileInfo" /\ pc[t] = "unlocked"
    BY <1>4, CurrentCall, CallFields DEF AddExtendedFileInfo, InCall, Guarded, TypeOK
  <2>2. c.art \in Artifacts /\ c.file \in Files
    BY <2>1, CallFields
  <2>3. fileMap' = Emplace(fileMap, c.art, c.file)
    BY <1>4 DEF AddExtendedFileInfo, Outcomes
  <2>4. TypeOK'
    <3>1. fileMap' \in [DOMAIN fileMap' -> Files] /\ DOMAIN fileMap' \subseteq Artifacts
      BY <2>2, <2>3 DEF TypeOK, Emplace
    <3>2. QED
      BY <1>4, <2>1, <3>1, ReturnType DEF AddExtendedFileInfo, EndAccess, TypeOK
  <2>5. QED
    BY <1>4, <2>1, <2>4, LeaveCall DEF AddExtendedFileInfo, EndAccess, Return
<1>5. ASSUME NEW t \in Threads, GetExtendedFileInfo(t) PROVE IInv'
  <2> DEFINE c == Current(t)
  <2>1. c \in Calls /\ c.op = "GetExtendedFileInfo" /\ pc[t] = "unlocked"
    BY <1>5, CurrentCall, CallFields DEF GetExtendedFileInfo, InCall, Guarded, TypeOK
  <2>2. PICK found \in BOOLEAN : Return(t, IF found THEN "idle" ELSE "error")
    BY <1>5 DEF GetExtendedFileInfo
  <2>3. TypeOK'
    BY <1>5, <2>1, <2>2, ReturnType DEF GetExtendedFileInfo, EndAccess, TypeOK
  <2>4. QED
    BY <1>5, <2>1, <2>2, <2>3, LeaveCall DEF GetExtendedFileInfo, EndAccess, Return
<1>6. ASSUME NEW t \in Threads, GetDeleteData(t) PROVE IInv'
  <2> DEFINE c == Current(t)
             found == IF c.file \in DOMAIN delMap THEN delMap[c.file] ELSE NoData
  <2>1. c \in Calls /\ c.op = "GetDeleteData" /\ pc[t] = "locked"
    BY <1>6, CurrentCall, CallFields DEF GetDeleteData, InCall, Guarded, TypeOK
  <2>2. /\ ptr' = [ptr EXCEPT ![t] = found]
        /\ Return(t, IF found = NoData THEN "idle" ELSE "use")
    BY <1>6 DEF GetDeleteData
  <2>3. found \in Data \cup {NoData}
    BY DEF TypeOK
  <2>4. TypeOK'
    <3>1. ptr' \in [Threads -> Data \cup {NoData}]
      BY <2>2, <2>3 DEF TypeOK
    <3>2. QED
      BY <1>6, <2>1, <2>2, <3>1, ReturnType, ThreadsAssumption DEF GetDeleteData, EndAccess, Unlock, TypeOK
  <2>5. QED
    BY <1>6, <2>1, <2>2, <2>4, LeaveCall DEF GetDeleteData, EndAccess, Return, Unlock
<1>7. ASSUME NEW t \in Threads, ClearDeletes(t) PROVE IInv'
  <2> DEFINE c == Current(t)
  <2>1. c \in Calls /\ c.op = "ClearDeletes" /\ pc[t] = "locked"
    BY <1>7, CurrentCall, CallFields DEF ClearDeletes, InCall, Guarded, TypeOK
  <2>2. c.file \in Files
    BY <2>1, CallFields
  <2>3. delMap' = [g \in DOMAIN delMap \ {c.file} |-> delMap[g]]
    BY <1>7 DEF ClearDeletes, Outcomes
  <2>4. TypeOK'
    <3>1. delMap' \in [DOMAIN delMap' -> Data] /\ DOMAIN delMap' \subseteq Files
      BY <2>3, EraseType DEF TypeOK
    <3>2. added' \in [Files -> SUBSET Data]
      BY <1>7, <2>2 DEF ClearDeletes, TypeOK
    <3>3. QED
      BY <1>7, <2>1, <3>1, <3>2, ReturnType, ThreadsAssumption DEF ClearDeletes, EndAccess, Unlock, TypeOK
  <2>5. QED
    BY <1>7, <2>1, <2>4, LeaveCall DEF ClearDeletes, EndAccess, Return, Unlock
<1>8. ASSUME NEW t \in Threads, AddDeleteData(t) PROVE IInv'
  <2> DEFINE c == Current(t)
  <2>1. c \in Calls /\ c.op = "AddDeleteData" /\ pc[t] = "locked"
    BY <1>8, CurrentCall, CallFields DEF AddDeleteData, InCall, Guarded, TypeOK
  <2>2. c.file \in Files /\ c.data \in Data
    BY <2>1, CallFields
  <2>3. delMap' = Emplace(delMap, c.file, c.data)
    BY <1>8 DEF AddDeleteData, Outcomes
  <2>4. TypeOK'
    <3>1. delMap' \in [DOMAIN delMap' -> Data] /\ DOMAIN delMap' \subseteq Files
      BY <2>2, <2>3 DEF TypeOK, Emplace
    <3>2. added' \in [Files -> SUBSET Data]
      BY <1>8, <2>2 DEF AddDeleteData, TypeOK
    <3>3. QED
      BY <1>8, <2>1, <3>1, <3>2, ReturnType, ThreadsAssumption DEF AddDeleteData, EndAccess, Unlock, TypeOK
  <2>5. QED
    BY <1>8, <2>1, <2>4, LeaveCall DEF AddDeleteData, EndAccess, Return, Unlock
<1>9. ASSUME NEW t \in Threads, UseDeleteData(t) PROVE IInv'
  <2>1. \A x \in access : x[1] # t
    BY <1>9 DEF UseDeleteData, TypeOK
  <2>2. \A u \in Threads \ {t} : pc'[u] = pc[u] /\ next'[u] = next[u] /\ Current(u)' = Current(u)
    BY <1>9 DEF UseDeleteData, Return, TypeOK, Current
  <2>3. TypeOK'
    BY <1>9 DEF UseDeleteData, Return, TypeOK
  <2>4. QED
    BY <1>9, <2>1, <2>2, <2>3 DEF UseDeleteData, Return, TypeOK
<1>10. QED
  BY <1>1, <1>2, <1>3, <1>4, <1>5, <1>6, <1>7, <1>8, <1>9 DEF Next, Step

-----------------------------------------------------------------------------
(* Type correctness holds for every program, races included: a racing     *)
(* write leaves the old map or the new one, a racing lookup returns some  *)
(* delete data or nullptr, and a thread inside a call has a call to run.  *)
InRange ==
  \A t \in Threads : pc[t] \in {"locked", "unlocked", "use"} => next[t] <= Len(prog[t])

TInv == TypeOK /\ InRange

(* A step of thread t leaves every other thread's position alone.        *)
LEMMA OthersInRange ==
  ASSUME TypeOK, InRange, NEW t \in Threads, prog' = prog,
         \A u \in Threads \ {t} : pc'[u] = pc[u] /\ next'[u] = next[u],
         pc'[t] \in {"locked", "unlocked", "use"} => next'[t] <= Len(prog[t])
  PROVE  InRange'
BY DEF InRange

LEMMA NextTInv ==
  ASSUME TInv, [Next]_vars
  PROVE  TInv'
<1> USE DEF TInv
<1>1. CASE UNCHANGED vars
  BY <1>1 DEF vars, TypeOK, InRange
<1>2. ASSUME NEW t \in Threads, EnterLocked(t) \/ EnterUnlocked(t) PROVE TInv'
  <2>1. /\ prog' = prog /\ next' = next /\ pc[t] = "idle" /\ next[t] <= Len(prog[t])
        /\ pc' \in {[pc EXCEPT ![t] = "locked"], [pc EXCEPT ![t] = "unlocked"]}
    BY <1>2 DEF EnterLocked, EnterUnlocked
  <2>2. TypeOK'
    <3>1. CASE EnterLocked(t)
      BY <3>1 DEF EnterLocked, StartAccess, Lock, TypeOK, KindOf
    <3>2. CASE EnterUnlocked(t)
      BY <3>2 DEF EnterUnlocked, StartAccess, TypeOK, KindOf, MapOf
    <3>3. QED
      BY <1>2, <3>1, <3>2
  <2>3. InRange'
    BY <2>1, OthersInRange DEF TypeOK
  <2>4. QED
    BY <2>2, <2>3
<1>3. ASSUME NEW t \in Threads, NEW op, InCall(t, op), Return(t, "idle") \/ Return(t, "error"),
             prog' = prog
      PROVE  InRange'
  BY <1>3, OthersInRange DEF InCall, Return, TypeOK
<1>4. ASSUME NEW t \in Threads, AddExtendedFileInfo(t) PROVE TInv'
  <2> DEFINE c == Current(t)
  <2>1. next[t] <= Len(prog[t]) /\ c \in Calls /\ c.op = "AddExtendedFileInfo"
    BY <1>4, CurrentCall DEF AddExtendedFileInfo, InCall, InRange
  <2>2. c.art \in Artifacts /\ c.file \in Files
    BY <2>1, CallFields
  <2>3. fileMap' \in {fileMap, Emplace(fileMap, c.art, c.file)}
    BY <1>4 DEF AddExtendedFileInfo, Outcomes
  <2>4. fileMap' \in [DOMAIN fileMap' -> Files] /\ DOMAIN fileMap' \subseteq Artifacts
    BY <2>2, <2>3 DEF TypeOK, Emplace
  <2>5. TypeOK'
    BY <1>4, <2>1, <2>4, ReturnType DEF AddExtendedFileInfo, EndAccess, TypeOK
  <2>6. QED
    BY <1>3, <1>4, <2>5 DEF AddExtendedFileInfo
<1>5. ASSUME NEW t \in Threads, GetExtendedFileInfo(t) PROVE TInv'
  <2>1. next[t] <= Len(prog[t])
    BY <1>5 DEF GetExtendedFileInfo, InCall, InRange
  <2>2. PICK found \in BOOLEAN : Return(t, IF found THEN "idle" ELSE "error")
    BY <1>5 DEF GetExtendedFileInfo
  <2>3. TypeOK'
    BY <1>5, <2>1, <2>2, ReturnType DEF GetExtendedFileInfo, EndAccess, TypeOK
  <2>4. Return(t, "idle") \/ Return(t, "error")
    BY <2>2
  <2>5. QED
    BY <1>3, <1>5, <2>3, <2>4 DEF GetExtendedFileInfo
<1>6. ASSUME NEW t \in Threads, GetDeleteData(t) PROVE TInv'
  <2>1. next[t] <= Len(prog[t]) /\ pc[t] \in {"locked", "unlocked"}
    BY <1>6 DEF GetDeleteData, InCall, InRange
  <2>2. PICK v \in Data \cup {NoData} :
          /\ ptr' = [ptr EXCEPT ![t] = v]
          /\ Return(t, IF v = NoData THEN "idle" ELSE "use")
    BY <1>6 DEF GetDeleteData, TypeOK
  <2>3. ptr' \in [Threads -> Data \cup {NoData}]
    BY <2>2 DEF TypeOK
  <2>4. TypeOK'
    BY <1>6, <2>1, <2>2, <2>3, ReturnType, ThreadsAssumption DEF GetDeleteData, EndAccess, Unlock, TypeOK
  <2>5. InRange'
    BY <1>6, <2>1, <2>2, OthersInRange DEF GetDeleteData, Return, TypeOK
  <2>6. QED
    BY <2>4, <2>5
<1>7. ASSUME NEW t \in Threads, ClearDeletes(t) PROVE TInv'
  <2> DEFINE c == Current(t)
  <2>1. next[t] <= Len(prog[t]) /\ c \in Calls /\ c.op = "ClearDeletes"
    BY <1>7, CurrentCall DEF ClearDeletes, InCall, InRange
  <2>2. c.file \in Files
    BY <2>1, CallFields
  <2>3. delMap' \in {delMap, [g \in DOMAIN delMap \ {c.file} |-> delMap[g]]}
    BY <1>7 DEF ClearDeletes, Outcomes
  <2>4. delMap' \in [DOMAIN delMap' -> Data] /\ DOMAIN delMap' \subseteq Files
    BY <2>3, EraseType DEF TypeOK
  <2>5. added' \in [Files -> SUBSET Data]
    BY <1>7, <2>2 DEF ClearDeletes, TypeOK
  <2>6. TypeOK'
    BY <1>7, <2>1, <2>4, <2>5, ReturnType, ThreadsAssumption DEF ClearDeletes, EndAccess, Unlock, TypeOK
  <2>7. QED
    BY <1>3, <1>7, <2>6 DEF ClearDeletes
<1>8. ASSUME NEW t \in Threads, AddDeleteData(t) PROVE TInv'
  <2> DEFINE c == Current(t)
  <2>1. next[t] <= Len(prog[t]) /\ c \in Calls /\ c.op = "AddDeleteData"
    BY <1>8, CurrentCall DEF AddDeleteData, InCall, InRange
  <2>2. c.file \in Files /\ c.data \in Data
    BY <2>1, CallFields
  <2>3. delMap' \in {delMap, Emplace(delMap, c.file, c.data)}
    BY <1>8 DEF AddDeleteData, Outcomes
  <2>4. delMap' \in [DOMAIN delMap' -> Data] /\ DOMAIN delMap' \subseteq Files
    BY <2>2, <2>3 DEF TypeOK, Emplace
  <2>5. added' \in [Files -> SUBSET Data]
    BY <1>8, <2>2 DEF AddDeleteData, TypeOK
  <2>6. TypeOK'
    BY <1>8, <2>1, <2>4, <2>5, ReturnType, ThreadsAssumption DEF AddDeleteData, EndAccess, Unlock, TypeOK
  <2>7. QED
    BY <1>3, <1>8, <2>6 DEF AddDeleteData
<1>9. ASSUME NEW t \in Threads, UseDeleteData(t) PROVE TInv'
  <2>1. next[t] <= Len(prog[t])
    BY <1>9 DEF UseDeleteData, InRange
  <2>2. TypeOK'
    BY <1>9, <2>1 DEF UseDeleteData, Return, TypeOK
  <2>3. InRange'
    BY <1>9, OthersInRange DEF UseDeleteData, Return, TypeOK
  <2>4. QED
    BY <2>2, <2>3
<1>10. QED
  BY <1>1, <1>2, <1>4, <1>5, <1>6, <1>7, <1>8, <1>9 DEF Next, Step

(* Type correctness (TypeOK, checked by run registry) for every program,  *)
(* whether or not several threads use file_map: a race may lose a write   *)
(* or return garbage, but every map stays a map from the registry's keys  *)
(* to its values and every thread's position stays within its program.    *)
THEOREM TypeCorrect == Spec => []TypeOK
<1>1. Init => TInv
  BY ProgramsAssumption, ThreadsAssumption DEF Init, TInv, TypeOK, InRange
<1>2. TInv => TypeOK
  BY DEF TInv
<1>3. QED
  BY <1>1, <1>2, NextTInv, PTL DEF Spec

-----------------------------------------------------------------------------
(* Race freedom (NoDataRace, checked by run registry): under the          *)
(* one-file_map-user discipline, no two accesses in progress to a map      *)
(* conflict, for every number of threads, files and delete data: the      *)
(* lock_guards of GetDeleteData, ClearDeletes and AddDeleteData exclude     *)
(* one another.                                                            *)
THEOREM RaceFree ==
  ASSUME OneFileMapUser
  PROVE  Spec => []NoDataRace
<1>1. IInv => NoDataRace
  <2> SUFFICES ASSUME IInv, NEW x \in access, NEW y \in access, Conflict(x, y) PROVE FALSE
    BY DEF NoDataRace
  <2>1. x[1] \in Threads /\ y[1] \in Threads /\ x[1] # y[1] /\ x[2] = y[2]
    BY DEF IInv, TypeOK, Conflict
  <2>2. /\ pc[x[1]] \in {"locked", "unlocked"} /\ next[x[1]] <= Len(prog[x[1]])
        /\ pc[y[1]] \in {"locked", "unlocked"} /\ next[y[1]] <= Len(prog[y[1]])
    BY <2>1 DEF IInv
  <2>3. Current(x[1]) \in Calls /\ Current(y[1]) \in Calls
    BY <2>1, <2>2, CurrentCall DEF IInv
  <2>4. CASE x[2] = "delete"
    <3>1. pc[x[1]] = "locked" /\ pc[y[1]] = "locked"
      BY <2>1, <2>2, <2>3, <2>4, CallFields DEF IInv
    <3>2. QED
      BY <2>1, <3>1 DEF IInv
  <2>5. CASE x[2] # "delete"
    <3>1. pc[x[1]] = "unlocked" /\ pc[y[1]] = "unlocked"
      BY <2>1, <2>2, <2>3, <2>5, CallFields DEF IInv
    <3>2. UsesFileMap(prog, x[1]) /\ UsesFileMap(prog, y[1])
      BY <2>1, <3>1, UnlockedUsesFileMap
    <3>3. QED
      BY <2>1, <3>2 DEF OneFileMapUser, IInv, TypeOK
  <2>6. QED
    BY <2>4, <2>5
<1>2. QED
  BY <1>1, InitIInv, NextIInv, PTL DEF Spec

=============================================================================
