------------------------ MODULE SessionManagerProofs ------------------------
(***************************************************************************)
(* Proofs about SessionManager, for every number of threads, sessions and  *)
(* ids: its types, that it never crashes, and that an id has one user.     *)
(***************************************************************************)
EXTENDS SessionManager, TLAPS

USE SessionManagerAssumption DEF Ids

-----------------------------------------------------------------------------
(***************************************************************************)
(* The inductive invariant.  IdHasOneUser does not say which session the    *)
(* call of a thread is about; that is what keeps two removals of one       *)
(* session, and a removal and an insertion under one id, apart.            *)
(***************************************************************************)

TaskInv ==
    \A t \in Threads :
        /\ pc[t] = "idle" <=> task[t] = None
        /\ \A u \in Threads : task[t] = task[u] /\ task[t] # None => t = u

ListInv ==
    \A t \in Threads :
        /\ pc[t] \in {"scan", "failed", "insert", "return"} =>
               \A i \in Ids : session_list_[i] # task[t]
        /\ pc[t] = "insert" => session_id_[task[t]] # -1
        /\ pc[t] = "erase" => session_list_[removed_id[t]] = task[t]

CountInv ==
    \A t \in Threads : pc[t] = "scan" => traverse_count[t] < max_traverse_count

Inv == TypeOK /\ NoCrash /\ TaskInv /\ ListInv /\ CountInv /\ IdHasOneUser

-----------------------------------------------------------------------------

\* The ids and the list are as before, and so is what each thread holds.
LEMMA UsersUnchanged ==
    ASSUME IdHasOneUser, UNCHANGED <<id_map_, session_list_>>,
           \A u \in Threads, i \in Ids : Holds(u, i)' <=> Holds(u, i),
           \A i \in Ids : session_list_[i] # None =>
               session_id_'[session_list_[i]] = session_id_[session_list_[i]]
    PROVE  IdHasOneUser'
<1> USE DEF IdHasOneUser, FindSession
<1> SUFFICES ASSUME NEW i \in Ids
             PROVE  /\ id_map_[i] <=> session_list_[i] # None \/ \E t \in Threads : Holds(t, i)
                    /\ session_list_[i] # None => \A t \in Threads : ~Holds(t, i)
                    /\ \A t, u \in Threads : Holds(t, i) /\ Holds(u, i) => t = u
                    /\ session_list_[i] # None => session_id_'[session_list_[i]] = i
  OBVIOUS
<1> QED OBVIOUS

LEMMA CreateSessionInv ==
    ASSUME Inv, NEW t \in Threads, NEW s \in Sessions, CreateSession(t, s)
    PROVE  Inv'
<1> USE DEF CreateSession, Unborn, Step
<1>0. /\ s # None /\ pc[t] = "idle"
      /\ \A u \in Threads : task[u] # s
      /\ \A i \in Ids : session_list_[i] # s
  OBVIOUS
<1>1. TypeOK'
  BY DEF Inv, TypeOK, ControlPoints, CountInv
<1>2. NoCrash'
  BY DEF Inv, TypeOK, NoCrash
<1>3. TaskInv'
  <2>1. pc'[t] = "scan" /\ task'[t] = s
    BY DEF Inv, TypeOK
  <2>2. \A u \in Threads : u # t => pc'[u] = pc[u] /\ task'[u] = task[u]
    BY DEF Inv, TypeOK
  <2> QED BY <1>0, <2>1, <2>2 DEF Inv, TaskInv
<1>4. ListInv'
  BY <1>0 DEF Inv, TypeOK, TaskInv, ListInv
<1>5. CountInv'
  BY DEF Inv, TypeOK, CountInv
<1>6. IdHasOneUser'
  <2>1. \A u \in Threads, i \in Ids : Holds(u, i)' <=> Holds(u, i)
    BY <1>0 DEF Inv, TypeOK, Holds
  <2>2. \A i \in Ids : session_list_[i] # None =>
            session_id_'[session_list_[i]] = session_id_[session_list_[i]]
    BY <1>0 DEF Inv, TypeOK
  <2> QED BY <2>1, <2>2, UsersUnchanged DEF Inv
<1> QED BY <1>1, <1>2, <1>3, <1>4, <1>5, <1>6 DEF Inv

LEMMA GetSessionIdTakeInv ==
    ASSUME Inv, NEW t \in Threads, GetSessionIdTake(t)
    PROVE  Inv'
<1> USE DEF GetSessionIdTake, Step
<1>1. TypeOK'
  <2>1. index[t] \in Ids
    BY DEF Inv, TypeOK
  <2>2. session_id_' \in [Sessions -> Ids \cup {-1}]
    BY <2>1 DEF Inv, TypeOK
  <2>3. unused' \in [Threads -> SUBSET Ids]
    BY DEF Inv, TypeOK
  <2> QED BY <2>1, <2>2, <2>3 DEF Inv, TypeOK, ControlPoints
<1>2. NoCrash'
  BY DEF Inv, TypeOK, NoCrash
<1>3. TaskInv'
  BY DEF Inv, TypeOK, TaskInv
<1>4. ListInv'
  BY DEF Inv, TypeOK, TaskInv, ListInv
<1>5. CountInv'
  BY DEF Inv, TypeOK, CountInv
<1>6. IdHasOneUser'
  <2> DEFINE id == index[t]
  <2>1. /\ id \in Ids /\ ~id_map_[id]
        /\ \A i \in Ids : id_map_'[i] <=> i = id \/ id_map_[i]
        /\ UNCHANGED <<session_list_, removed_id, task>>
    BY DEF Inv, TypeOK
  <2>2. /\ task[t] \in Sessions
        /\ \A i \in Ids : session_list_[i] # task[t]
        /\ \A u \in Threads : u # t => task[u] # task[t]
    BY DEF Inv, TypeOK, TaskInv, ListInv
  <2>3. /\ session_id_'[task[t]] = id
        /\ \A s \in Sessions : s # task[t] => session_id_'[s] = session_id_[s]
    BY <2>2 DEF Inv, TypeOK
  <2>4. \A i \in Ids : Holds(t, i)' <=> i = id
    BY <2>1, <2>3 DEF Inv, TypeOK, Holds
  <2>5. \A u \in Threads, i \in Ids : u # t => (Holds(u, i)' <=> Holds(u, i))
    <3> SUFFICES ASSUME NEW u \in Threads, NEW i \in Ids, u # t
                 PROVE  Holds(u, i)' <=> Holds(u, i)
      OBVIOUS
    <3>1. pc'[u] = pc[u] /\ (pc[u] = "insert" => task[u] \in Sessions)
      BY DEF Inv, TypeOK, TaskInv
    <3> QED BY <2>1, <2>2, <2>3, <3>1 DEF Holds
  <2>6. \A i \in Ids : ~Holds(t, i)
    BY DEF Holds
  <2>7. \A i \in Ids : session_list_[i] # None =>
            session_id_'[session_list_[i]] = session_id_[session_list_[i]]
    BY <2>2, <2>3 DEF Inv, TypeOK
  <2> HIDE DEF id
  <2> QED BY ONLY <2>1, <2>4, <2>5, <2>6, <2>7, Inv, t \in Threads
          DEF Inv, IdHasOneUser, FindSession
<1> QED BY <1>1, <1>2, <1>3, <1>4, <1>5, <1>6 DEF Inv

LEMMA GetSessionIdNextInv ==
    ASSUME Inv, NEW t \in Threads, GetSessionIdNext(t)
    PROVE  Inv'
<1> USE DEF GetSessionIdNext, Step
<1>1. TypeOK'
  BY DEF Inv, TypeOK, ControlPoints, CountInv
<1>2. NoCrash'
  BY DEF Inv, TypeOK, NoCrash
<1>3. TaskInv'
  BY DEF Inv, TypeOK, TaskInv
<1>4. ListInv'
  BY DEF Inv, TypeOK, TaskInv, ListInv
<1>5. CountInv'
  BY DEF Inv, TypeOK, CountInv
<1>6. IdHasOneUser'
  <2>1. \A u \in Threads, i \in Ids : Holds(u, i)' <=> Holds(u, i)
    BY DEF Inv, TypeOK, Holds
  <2> QED BY <2>1, UsersUnchanged DEF Inv
<1> QED BY <1>1, <1>2, <1>3, <1>4, <1>5, <1>6 DEF Inv

LEMMA GetSessionIdWrapInv ==
    ASSUME Inv, NEW t \in Threads, GetSessionIdWrap(t)
    PROVE  Inv'
<1> USE DEF GetSessionIdWrap, Step
<1>1. TypeOK'
  BY DEF Inv, TypeOK, ControlPoints, CountInv
<1>2. NoCrash'
  BY DEF Inv, TypeOK, NoCrash
<1>3. TaskInv'
  BY DEF Inv, TypeOK, TaskInv
<1>4. ListInv'
  BY DEF Inv, TypeOK, TaskInv, ListInv
<1>5. CountInv'
  BY DEF Inv, TypeOK, CountInv
<1>6. IdHasOneUser'
  <2>1. \A u \in Threads, i \in Ids : Holds(u, i)' <=> Holds(u, i)
    BY DEF Inv, TypeOK, Holds
  <2> QED BY <2>1, UsersUnchanged DEF Inv
<1> QED BY <1>1, <1>2, <1>3, <1>4, <1>5, <1>6 DEF Inv

LEMMA AddSessionFailedInv ==
    ASSUME Inv, NEW t \in Threads, AddSessionFailed(t)
    PROVE  Inv'
<1> USE DEF AddSessionFailed, Step
<1>1. TypeOK'
  BY DEF Inv, TypeOK, ControlPoints, CountInv
<1>2. NoCrash'
  BY DEF Inv, TypeOK, NoCrash
<1>3. TaskInv'
  BY DEF Inv, TypeOK, TaskInv
<1>4. ListInv'
  BY DEF Inv, TypeOK, TaskInv, ListInv
<1>5. CountInv'
  BY DEF Inv, TypeOK, CountInv
<1>6. IdHasOneUser'
  <2>1. \A u \in Threads, i \in Ids : Holds(u, i)' <=> Holds(u, i)
    BY DEF Inv, TypeOK, Holds
  <2> QED BY <2>1, UsersUnchanged DEF Inv
<1> QED BY <1>1, <1>2, <1>3, <1>4, <1>5, <1>6 DEF Inv


LEMMA AddSessionInsertInv ==
    ASSUME Inv, NEW t \in Threads, AddSessionInsert(t)
    PROVE  Inv'
<1> DEFINE id == session_id_[task[t]]
<1>0. /\ pc[t] = "insert" /\ task[t] \in Sessions /\ id \in Ids
      /\ Holds(t, id) /\ session_list_[id] = None
  BY DEF AddSessionInsert, Inv, TypeOK, TaskInv, ListInv, IdHasOneUser, Holds
<1>1. /\ pc' = [pc EXCEPT ![t] = "idle"]
      /\ session_list_' = [session_list_ EXCEPT ![id] = task[t]]
      /\ task' = [task EXCEPT ![t] = None]
      /\ UNCHANGED <<id_map_, session_id_, index, traverse_count, removed_id, unused>>
  BY <1>0 DEF AddSessionInsert, Step
<1> HIDE DEF id
<1>2. TypeOK'
  BY <1>0, <1>1 DEF Inv, TypeOK, ControlPoints
<1>3. NoCrash'
  BY <1>1 DEF Inv, TypeOK, NoCrash
<1>4. TaskInv'
  BY <1>1 DEF Inv, TypeOK, TaskInv
<1>5. ListInv'
  <2>1. \A u \in Threads : u # t => task'[u] = task[u] /\ pc'[u] = pc[u] /\ task[u] # task[t]
    BY <1>0, <1>1 DEF Inv, TypeOK, TaskInv
  <2>2. pc'[t] = "idle"
    BY <1>1 DEF Inv, TypeOK
  <2>3. ASSUME NEW u \in Threads, u # t, pc[u] = "erase" PROVE removed_id[u] # id
    BY <1>0, <2>1, <2>3 DEF Inv, TypeOK, TaskInv, ListInv
  <2>4. \A i \in Ids : session_list_'[i] = IF i = id THEN task[t] ELSE session_list_[i]
    BY <1>0, <1>1 DEF Inv, TypeOK
  <2>5. session_id_' = session_id_ /\ removed_id' = removed_id
    BY <1>1
  <2>6. \A u \in Threads : removed_id[u] \in Ids
    BY DEF Inv, TypeOK
  <2> QED BY <2>1, <2>2, <2>3, <2>4, <2>5, <2>6 DEF Inv, ListInv
<1>6. CountInv'
  BY <1>1 DEF Inv, TypeOK, CountInv
<1>7. IdHasOneUser'
  <2>1. \A u \in Threads, i \in Ids : Holds(u, i)' <=> u # t /\ Holds(u, i)
    BY <1>0, <1>1 DEF Inv, TypeOK, TaskInv, Holds
  <2>2. \A i \in Ids : Holds(t, i) => i = id
    BY <1>0 DEF Holds, id
  <2>3. \A i \in Ids : session_list_'[i] = IF i = id THEN task[t] ELSE session_list_[i]
    BY <1>0, <1>1 DEF Inv, TypeOK
  <2>4. session_id_'[task[t]] = id /\ session_id_' = session_id_ /\ id_map_' = id_map_
    BY <1>1 DEF id
  <2>5. task[t] # None
    BY <1>0
  <2> QED BY <1>0, <2>1, <2>2, <2>3, <2>4, <2>5 DEF Inv, IdHasOneUser, FindSession
<1> QED BY <1>2, <1>3, <1>4, <1>5, <1>6, <1>7 DEF Inv


LEMMA DestroySessionInv ==
    ASSUME Inv, NEW t \in Threads, NEW s \in Sessions, DestroySession(t, s)
    PROVE  Inv'
<1> USE DEF DestroySession, Step
<1>0. /\ session_id_[s] \in Ids /\ session_list_[session_id_[s]] = s
      /\ s # None /\ pc[t] = "idle" /\ \A u \in Threads : task[u] # s
  BY DEF Inv, TypeOK, IdHasOneUser, FindSession
<1>1. TypeOK'
  BY <1>0 DEF Inv, TypeOK, ControlPoints
<1>2. NoCrash'
  BY DEF Inv, TypeOK, NoCrash
<1>3. TaskInv'
  <2>1. pc'[t] = "erase" /\ task'[t] = s
    BY DEF Inv, TypeOK
  <2>2. \A u \in Threads : u # t => pc'[u] = pc[u] /\ task'[u] = task[u]
    BY DEF Inv, TypeOK
  <2> QED BY <1>0, <2>1, <2>2 DEF Inv, TaskInv
<1>4. ListInv'
  <2>1. pc'[t] = "erase" /\ task'[t] = s /\ removed_id'[t] = session_id_[s]
    BY DEF Inv, TypeOK
  <2>2. \A u \in Threads : u # t =>
            pc'[u] = pc[u] /\ task'[u] = task[u] /\ removed_id'[u] = removed_id[u]
    BY DEF Inv, TypeOK
  <2>3. UNCHANGED <<session_list_, session_id_>>
    OBVIOUS
  <2> QED BY <1>0, <2>1, <2>2, <2>3 DEF Inv, ListInv
<1>5. CountInv'
  BY DEF Inv, TypeOK, CountInv
<1>6. IdHasOneUser'
  <2>1. \A u \in Threads, i \in Ids : Holds(u, i)' <=> Holds(u, i)
    BY <1>0 DEF Inv, TypeOK, Holds
  <2> QED BY <2>1, UsersUnchanged DEF Inv
<1> QED BY <1>1, <1>2, <1>3, <1>4, <1>5, <1>6 DEF Inv

LEMMA RemoveSessionEraseInv ==
    ASSUME Inv, NEW t \in Threads, RemoveSessionErase(t)
    PROVE  Inv'
<1> USE DEF RemoveSessionErase, Step
<1>1. TypeOK'
  BY DEF Inv, TypeOK, ControlPoints, CountInv
<1>2. NoCrash'
  BY DEF Inv, TypeOK, NoCrash
<1>3. TaskInv'
  BY DEF Inv, TypeOK, TaskInv
<1>4. ListInv'
  <2>1. pc'[t] = "return" /\ \A u \in Threads : u # t => pc'[u] = pc[u]
    BY DEF Inv, TypeOK
  <2>2. \A i \in Ids : session_list_'[i] = IF i = removed_id[t] THEN None ELSE session_list_[i]
    BY DEF Inv, TypeOK
  <2>3. \A i \in Ids : session_list_[i] = task[t] => i = removed_id[t]
    <3>1. \A i \in Ids : session_list_[i] # None => session_id_[session_list_[i]] = i
      BY DEF Inv, IdHasOneUser, FindSession
    <3>2. task[t] # None /\ session_list_[removed_id[t]] = task[t]
      BY DEF Inv, TaskInv, ListInv
    <3>3. removed_id[t] \in Ids
      BY DEF Inv, TypeOK
    <3> QED BY <3>1, <3>2, <3>3
  <2>4. \A u \in Threads : pc[u] # "idle" => task[u] # None
    BY DEF Inv, TaskInv
  <2>5. \A u \in Threads : u # t /\ pc[u] = "erase" => removed_id[u] # removed_id[t]
    BY DEF Inv, TaskInv, ListInv
  <2>6. UNCHANGED <<session_id_, task, removed_id>> /\ pc[t] = "erase"
    OBVIOUS
  <2>7. \A u \in Threads : removed_id[u] \in Ids
    BY DEF Inv, TypeOK
  <2> QED BY <2>1, <2>2, <2>3, <2>4, <2>5, <2>6, <2>7 DEF Inv, ListInv
<1>5. CountInv'
  BY DEF Inv, TypeOK, CountInv
<1>6. IdHasOneUser'
  <2> DEFINE id == removed_id[t]
  <2>1. /\ id \in Ids /\ session_list_[id] # None
        /\ \A i \in Ids : session_list_'[i] = IF i = id THEN None ELSE session_list_[i]
        /\ UNCHANGED <<id_map_, session_id_, removed_id, task>>
    BY DEF Inv, TypeOK, TaskInv, ListInv
  <2>2. \A i \in Ids : Holds(t, i)' <=> i = id
    BY <2>1 DEF Inv, TypeOK, Holds
  <2>3. \A u \in Threads, i \in Ids : u # t => (Holds(u, i)' <=> Holds(u, i))
    BY <2>1 DEF Inv, TypeOK, Holds
  <2>4. \A i \in Ids : ~Holds(t, i)
    BY DEF Holds
  <2> HIDE DEF id
  <2> QED BY ONLY <2>1, <2>2, <2>3, <2>4, Inv, t \in Threads
          DEF Inv, IdHasOneUser, FindSession
<1> QED BY <1>1, <1>2, <1>3, <1>4, <1>5, <1>6 DEF Inv


LEMMA ReturnSessionIdInv ==
    ASSUME Inv, NEW t \in Threads, ReturnSessionId(t)
    PROVE  Inv'
<1> DEFINE id == removed_id[t]
<1>0. /\ pc[t] = "return" /\ id \in Ids
      /\ Holds(t, id) /\ id_map_[id] /\ session_list_[id] = None
  BY DEF ReturnSessionId, Inv, TypeOK, IdHasOneUser, Holds
<1>1. /\ pc' = [pc EXCEPT ![t] = "idle"]
      /\ id_map_' = [id_map_ EXCEPT ![id] = FALSE]
      /\ task' = [task EXCEPT ![t] = None]
      /\ UNCHANGED <<session_list_, session_id_, index, traverse_count, removed_id, unused>>
  BY <1>0 DEF ReturnSessionId, Step
<1> HIDE DEF id
<1>2. TypeOK'
  BY <1>0, <1>1 DEF Inv, TypeOK, ControlPoints
<1>3. NoCrash'
  BY <1>1 DEF Inv, TypeOK, NoCrash
<1>4. TaskInv'
  BY <1>1 DEF Inv, TypeOK, TaskInv
<1>5. ListInv'
  BY <1>1 DEF Inv, TypeOK, ListInv
<1>6. CountInv'
  BY <1>1 DEF Inv, TypeOK, CountInv
<1>7. IdHasOneUser'
  <2>1. \A u \in Threads, i \in Ids : Holds(u, i)' <=> u # t /\ Holds(u, i)
    BY <1>0, <1>1 DEF Inv, TypeOK, Holds
  <2>2. \A i \in Ids : Holds(t, i) => i = id
    BY <1>0 DEF Holds, id
  <2>3. \A i \in Ids : id_map_'[i] <=> i # id /\ id_map_[i]
    BY <1>0, <1>1 DEF Inv, TypeOK
  <2>4. UNCHANGED <<session_list_, session_id_>>
    BY <1>1
  <2> QED BY <1>0, <2>1, <2>2, <2>3, <2>4 DEF Inv, IdHasOneUser, FindSession
<1> QED BY <1>2, <1>3, <1>4, <1>5, <1>6, <1>7 DEF Inv

LEMMA InitInv == Init => Inv
BY DEF Init, Inv, TypeOK, ControlPoints, NoCrash, TaskInv, ListInv, CountInv,
       IdHasOneUser, Holds, FindSession

LEMMA NextInv == Inv /\ [Next]_vars => Inv'
<1> SUFFICES ASSUME Inv, [Next]_vars PROVE Inv'
  OBVIOUS
<1>1. CASE Next
  BY <1>1, CreateSessionInv, GetSessionIdTakeInv, GetSessionIdNextInv,
     GetSessionIdWrapInv, AddSessionFailedInv, AddSessionInsertInv,
     DestroySessionInv, RemoveSessionEraseInv, ReturnSessionIdInv
     DEF Next, Run, Add, Remove
<1>2. CASE UNCHANGED vars
  BY <1>2 DEF vars, Inv, TypeOK, NoCrash, TaskInv, ListInv, CountInv,
              IdHasOneUser, Holds, FindSession
<1> QED BY <1>1, <1>2

LEMMA Invariant == Spec => []Inv
BY InitInv, NextInv, PTL DEF Spec

\* Every variable keeps its type; no scan leaves id_map_.
THEOREM TypeCorrect == Spec => []TypeOK
BY Invariant, PTL DEF Inv

\* CRASH("SESSION ALREADY EXIST") and CRASH("SESSION ID MAP CORRUPTED") are
\* not reached, however many threads add and remove sessions.
THEOREM NeverCrashes == Spec => []NoCrash
BY Invariant, PTL DEF Inv

\* A taken id has one user and a free one none: none is leaked or shared.
THEOREM IdsAreOwned == Spec => []IdHasOneUser
BY Invariant, PTL DEF Inv

-----------------------------------------------------------------------------
(***************************************************************************)
(* A failed call.  An id that stayed free since the call began lies ahead  *)
(* in the first traversal, so there is none when that traversal ends.      *)
(***************************************************************************)

ScanInv ==
    \A t \in Threads :
        /\ \A i \in unused[t] : ~id_map_[i]
        /\ pc[t] = "scan" => \A i \in unused[t] : index[t] <= i
        /\ pc[t] = "failed" => unused[t] = {}

LEMMA ScanInit == Init => ScanInv
BY DEF Init, ScanInv

LEMMA ScanNext == TypeOK /\ ScanInv /\ [Next]_vars => ScanInv'
<1> SUFFICES ASSUME TypeOK, ScanInv, [Next]_vars PROVE ScanInv'
  OBVIOUS
<1> USE DEF TypeOK, ScanInv, Step
<1>1. ASSUME NEW t \in Threads, NEW s \in Sessions, CreateSession(t, s) PROVE ScanInv'
  BY <1>1 DEF CreateSession
<1>2. ASSUME NEW t \in Threads, GetSessionIdTake(t) PROVE ScanInv'
  BY <1>2 DEF GetSessionIdTake
<1>3. ASSUME NEW t \in Threads, GetSessionIdNext(t) PROVE ScanInv'
  <2>1. \A i \in unused[t] : i \in Ids /\ index[t] + 1 <= i
    BY <1>3 DEF GetSessionIdNext
  <2> QED BY <1>3, <2>1 DEF GetSessionIdNext
<1>4. ASSUME NEW t \in Threads, GetSessionIdWrap(t) PROVE ScanInv'
  <2>1. unused[t] = {}
    BY <1>4 DEF GetSessionIdWrap
  <2> QED BY <1>4, <2>1 DEF GetSessionIdWrap
<1>5. ASSUME NEW t \in Threads, AddSessionFailed(t) PROVE ScanInv'
  BY <1>5 DEF AddSessionFailed
<1>6. ASSUME NEW t \in Threads, AddSessionInsert(t) PROVE ScanInv'
  BY <1>6 DEF AddSessionInsert
<1>7. ASSUME NEW t \in Threads, NEW s \in Sessions, DestroySession(t, s) PROVE ScanInv'
  BY <1>7 DEF DestroySession
<1>8. ASSUME NEW t \in Threads, RemoveSessionErase(t) PROVE ScanInv'
  BY <1>8 DEF RemoveSessionErase
<1>9. ASSUME NEW t \in Threads, ReturnSessionId(t) PROVE ScanInv'
  <2>1. \A i \in Ids : ~id_map_[i] => ~id_map_'[i]
    BY <1>9 DEF ReturnSessionId
  <2>2. \A u \in Threads : pc'[u] \in {"scan", "failed"} => pc'[u] = pc[u]
    BY <1>9 DEF ReturnSessionId
  <2>3. UNCHANGED <<index, unused>>
    BY <1>9 DEF ReturnSessionId
  <2> QED BY <2>1, <2>2, <2>3
<1>10. CASE UNCHANGED vars
  BY <1>10 DEF vars
<1> QED BY <1>1, <1>2, <1>3, <1>4, <1>5, <1>6, <1>7, <1>8, <1>9, <1>10
        DEF Next, Run, Add, Remove

LEMMA ScanInvariant == Spec => []ScanInv
BY ScanInit, ScanNext, TypeCorrect, PTL DEF Spec

\* AddSession returns -1 only if each id was taken at some time during the
\* call, whatever the number of ids, threads and traversals.
THEOREM FailuresAreBusy == Spec => []FailsOnlyWhenBusy
<1>1. ScanInv => FailsOnlyWhenBusy
  BY DEF ScanInv, FailsOnlyWhenBusy
<1> QED BY <1>1, ScanInvariant, PTL

-----------------------------------------------------------------------------
(***************************************************************************)
(* What the steps of a call do, for the modules that make one.             *)
(***************************************************************************)

InList(s) == \E i \in Ids : session_list_[i] = s

Adding == {"scan", "failed", "insert"}
Removing == {"erase", "return"}

\* A step of t moves its own call only, puts the session of that call into the
\* list or takes it out, and leaves the other sessions where they are.
LEMMA RunEffect ==
    ASSUME Inv, ScanInv, NEW t \in Threads, Run(t)
    PROVE  /\ pc[t] \in Adding \cup Removing
           /\ pc[t] \in Adding => pc'[t] \in Adding \cup {"idle"}
           /\ pc[t] \in Removing => pc'[t] \in {"return", "idle"}
           /\ task'[t] = IF pc'[t] = "idle" THEN None ELSE task[t]
           /\ \A u \in Threads : u # t => pc'[u] = pc[u] /\ task'[u] = task[u]
           /\ \A s \in Sessions : s # task[t] => (InList(s)' <=> InList(s))
           /\ \A s \in Sessions : s = task[t] /\ pc'[t] = "idle" =>
                /\ pc[t] \in Removing => ~InList(s)'
                /\ pc[t] \in Adding => InList(s)' \/ unused'[t] = {}
           /\ \A u \in Threads : unused'[u] \subseteq unused[u]
<1> USE DEF Adding, Removing, Step, InList
<1>0. Inv'
  BY NextInv DEF Next
<1>1. /\ TypeOK /\ TypeOK' /\ \A u \in Threads : pc[u] = "failed" => unused[u] = {}
      /\ \A u \in Threads : pc[u] # "exists" /\ pc'[u] # "exists" /\ pc[u] # "corrupted"
                            /\ pc'[u] # "corrupted"
      /\ \A u \in Threads : pc[u] = "idle" <=> task[u] = None
  BY <1>0 DEF Inv, NoCrash, TaskInv, ScanInv
<1> USE DEF TypeOK
<1>2. CASE GetSessionIdTake(t)
  BY <1>1, <1>2 DEF GetSessionIdTake
<1>3. CASE GetSessionIdNext(t)
  BY <1>1, <1>3 DEF GetSessionIdNext
<1>4. CASE GetSessionIdWrap(t)
  BY <1>1, <1>4 DEF GetSessionIdWrap
<1>5. CASE AddSessionFailed(t)
  BY <1>1, <1>5 DEF AddSessionFailed
<1>6. CASE AddSessionInsert(t)
  <2> DEFINE id == session_id_[task[t]]
  <2>1. /\ pc[t] = "insert" /\ task[t] \in Sessions /\ id \in Ids /\ session_list_[id] = None
        /\ pc' = [pc EXCEPT ![t] = "idle"]
        /\ session_list_' = [session_list_ EXCEPT ![id] = task[t]]
        /\ task' = [task EXCEPT ![t] = None]
        /\ unused' = unused
    <3>1. pc[t] = "insert" /\ task[t] \in Sessions /\ id \in Ids
      BY <1>1, <1>6 DEF AddSessionInsert, Inv, ListInv
    <3>2. pc'[t] # "exists"
      BY <1>1
    <3> QED BY <1>1, <1>6, <3>1, <3>2 DEF AddSessionInsert
  <2> HIDE DEF id
  <2>2. \A i \in Ids : session_list_'[i] = IF i = id THEN task[t] ELSE session_list_[i]
    BY <1>1, <2>1
  <2>3. \A s \in Sessions : s # None
    OBVIOUS
  <2>4. \A s \in Sessions : IF s = task[t] THEN InList(s)' ELSE InList(s)' <=> InList(s)
    BY <2>1, <2>2, <2>3
  <2> QED BY <1>1, <2>1, <2>4
<1>7. CASE RemoveSessionErase(t)
  <2>1. removed_id[t] \in Ids /\ session_list_[removed_id[t]] = task[t]
    BY <1>1, <1>7 DEF RemoveSessionErase, Inv, ListInv
  <2>2. \A i \in Ids : session_list_'[i] = IF i = removed_id[t] THEN None
                                           ELSE session_list_[i]
    BY <1>1, <1>7 DEF RemoveSessionErase
  <2>3. \A s \in Sessions : s # None
    OBVIOUS
  <2>4. \A s \in Sessions : s # task[t] => (InList(s)' <=> InList(s))
    BY <2>1, <2>2, <2>3
  <2> QED BY <1>1, <1>7, <2>4 DEF RemoveSessionErase
<1>8. CASE ReturnSessionId(t)
  <2>1. pc[t] = "return" /\ ~InList(task[t]) /\ task[t] # None
    BY <1>1, <1>8 DEF ReturnSessionId, Inv, ListInv
  <2>2. pc'[t] # "corrupted"
    BY <1>1
  <2>3. \A s \in Sessions : /\ InList(s)' <=> InList(s)
                            /\ s = task[t] => ~InList(s)
    BY <1>8, <2>1 DEF ReturnSessionId
  <2> HIDE DEF InList
  <2> QED BY <1>1, <1>8, <2>1, <2>2, <2>3 DEF ReturnSessionId
<1> QED BY <1>2, <1>3, <1>4, <1>5, <1>6, <1>7, <1>8 DEF Run, Add, Remove

=============================================================================
