---------------------------- MODULE SessionManager ----------------------------
(***************************************************************************)
(* SessionManager.cpp: the threads that register and remove sessions.      *)
(* Session ids come from id_map_, an array of atomic flags that is scanned *)
(* without a lock; session_list_ is only touched under lock_session_list_, *)
(* so each of its critical sections is one action.                         *)
(*                                                                         *)
(* Service::CreateSession and Service::DestroySession are the only callers *)
(* of AddSession and RemoveSession.  A session is destroyed at most once,  *)
(* by its ProcessDisconnect (DisconnectOnce of module Session), and only   *)
(* after CreateSession has returned it.                                    *)
(***************************************************************************)
EXTENDS Integers, FiniteSets

CONSTANTS
    Threads,
    Sessions,               \* session objects; one that is gone may be reborn
    None,                   \* no session
    max_session_count_,
    max_traverse_count      \* 5 in GetSessionId

Ids == 0 .. max_session_count_ - 1

ASSUME SessionManagerAssumption ==
    /\ None \notin Sessions
    /\ max_session_count_ \in Nat \ {0}
    /\ max_traverse_count \in Nat \ {0}

VARIABLES
    id_map_,
    session_list_,
    session_id_,            \* Session::session_id_ of each session
    pc,
    task,                   \* the session the call of a thread is about
    index,
    traverse_count,
    removed_id,             \* argument of RemoveSession
    unused                  \* history: ids free since the call of a thread began

vars == <<id_map_, session_list_, session_id_, pc, task, index, traverse_count,
          removed_id, unused>>

-----------------------------------------------------------------------------

Step(t, from, to) ==
    /\ pc[t] = from
    /\ pc' = [pc EXCEPT ![t] = to]

\* The object is not in use: nothing has been done with it, or it is gone.
Unborn(s) ==
    /\ \A t \in Threads : task[t] # s
    /\ \A i \in Ids : session_list_[i] # s

Init ==
    /\ id_map_ = [i \in Ids |-> FALSE]
    /\ session_list_ = [i \in Ids |-> None]
    /\ session_id_ = [s \in Sessions |-> -1]
    /\ pc = [t \in Threads |-> "idle"]
    /\ task = [t \in Threads |-> None]
    /\ index = [t \in Threads |-> 0]
    /\ traverse_count = [t \in Threads |-> 0]
    /\ removed_id = [t \in Threads |-> 0]
    /\ unused = [t \in Threads |-> {}]

\* Service::CreateSession: SessionFactory makes a session, AddSession starts.
CreateSession(t, s) ==
    /\ Unborn(s)
    /\ Step(t, "idle", "scan")
    /\ task' = [task EXCEPT ![t] = s]
    /\ session_id_' = [session_id_ EXCEPT ![s] = -1]
    /\ index' = [index EXCEPT ![t] = 0]
    /\ traverse_count' = [traverse_count EXCEPT ![t] = 0]
    /\ unused' = [unused EXCEPT ![t] = {i \in Ids : ~id_map_[i]}]
    /\ UNCHANGED <<id_map_, session_list_, removed_id>>

\* compare_exchange_strong(false, true) succeeds on the current entry.
GetSessionIdTake(t) ==
    /\ pc[t] = "scan" /\ index[t] < max_session_count_ /\ ~id_map_[index[t]]
    /\ Step(t, "scan", "insert")
    /\ id_map_' = [id_map_ EXCEPT ![index[t]] = TRUE]
    /\ session_id_' = [session_id_ EXCEPT ![task[t]] = index[t]]
    /\ unused' = [u \in Threads |-> unused[u] \ {index[t]}]
    /\ UNCHANGED <<session_list_, task, index, traverse_count, removed_id>>

GetSessionIdNext(t) ==
    /\ pc[t] = "scan"
    /\ index[t] < max_session_count_ /\ id_map_[index[t]]
    /\ index' = [index EXCEPT ![t] = @ + 1]
    /\ UNCHANGED <<id_map_, session_list_, session_id_, pc, task, traverse_count,
                   removed_id, unused>>

\* Mutants of the next action: the last id is not tried; the traversals are
\* counted after the comparison; they are not counted at all.
GetSessionIdWrapEarly(t) ==
    /\ index[t] = max_session_count_ - 1
    /\ Step(t, "scan",
            IF traverse_count[t] + 1 = max_traverse_count THEN "failed" ELSE "scan")
    /\ index' = [index EXCEPT ![t] = 0]
    /\ traverse_count' = [traverse_count EXCEPT ![t] = @ + 1]
    /\ UNCHANGED <<id_map_, session_list_, session_id_, task, removed_id, unused>>

GetSessionIdWrapLate(t) ==
    /\ index[t] = max_session_count_
    /\ Step(t, "scan",
            IF traverse_count[t] = max_traverse_count THEN "failed" ELSE "scan")
    /\ index' = [index EXCEPT ![t] = 0]
    /\ traverse_count' = [traverse_count EXCEPT ![t] = @ + 1]
    /\ UNCHANGED <<id_map_, session_list_, session_id_, task, removed_id, unused>>

GetSessionIdWrapForever(t) ==
    /\ pc[t] = "scan" /\ index[t] = max_session_count_
    /\ index' = [index EXCEPT ![t] = 0]
    /\ UNCHANGED <<id_map_, session_list_, session_id_, pc, task, traverse_count,
                   removed_id, unused>>

\* One traversal found nothing: another one, or false after the last.
GetSessionIdWrap(t) ==
    /\ index[t] = max_session_count_
    /\ Step(t, "scan",
            IF traverse_count[t] + 1 = max_traverse_count THEN "failed" ELSE "scan")
    /\ index' = [index EXCEPT ![t] = 0]
    /\ traverse_count' = [traverse_count EXCEPT ![t] = @ + 1]
    /\ UNCHANGED <<id_map_, session_list_, session_id_, task, removed_id, unused>>

\* AddSession returns -1 and CreateSession nullptr: the session is gone.
AddSessionFailed(t) ==
    /\ Step(t, "failed", "idle")
    /\ task' = [task EXCEPT ![t] = None]
    /\ UNCHANGED <<id_map_, session_list_, session_id_, index, traverse_count,
                   removed_id, unused>>

\* Under lock_session_list_: CRASH("SESSION ALREADY EXIST") or the insertion.
AddSessionInsert(t) ==
    LET id == session_id_[task[t]] IN
    /\ pc[t] = "insert"
    /\ \/ /\ session_list_[id] = None
          /\ Step(t, "insert", "idle")
          /\ session_list_' = [session_list_ EXCEPT ![id] = task[t]]
          /\ task' = [task EXCEPT ![t] = None]
       \/ /\ session_list_[id] # None
          /\ Step(t, "insert", "exists")
          /\ UNCHANGED <<session_list_, task>>
    /\ UNCHANGED <<id_map_, session_id_, index, traverse_count, removed_id, unused>>

\* Service::DestroySession, once for a session in the list.
DestroySession(t, s) ==
    /\ \E i \in Ids : session_list_[i] = s
    /\ \A u \in Threads : task[u] # s
    /\ Step(t, "idle", "erase")
    /\ task' = [task EXCEPT ![t] = s]
    /\ removed_id' = [removed_id EXCEPT ![t] = session_id_[s]]
    /\ UNCHANGED <<id_map_, session_list_, session_id_, index, traverse_count, unused>>

\* Mutants: the session stays in the list; its id is not given back.
RemoveSessionKeeps(t) ==
    /\ Step(t, "erase", "return")
    /\ UNCHANGED <<id_map_, session_list_, session_id_, task, index,
                   traverse_count, removed_id, unused>>

RemoveSessionLeaks(t) ==
    /\ Step(t, "erase", "idle")
    /\ session_list_' = [session_list_ EXCEPT ![removed_id[t]] = None]
    /\ task' = [task EXCEPT ![t] = None]
    /\ UNCHANGED <<id_map_, session_id_, index, traverse_count, removed_id, unused>>

\* Under lock_session_list_; a session that is not found is no error.
RemoveSessionErase(t) ==
    /\ Step(t, "erase", "return")
    /\ session_list_' = [session_list_ EXCEPT ![removed_id[t]] = None]
    /\ UNCHANGED <<id_map_, session_id_, task, index, traverse_count, removed_id,
                   unused>>

\* compare_exchange_strong(true, false), or CRASH("SESSION ID MAP CORRUPTED").
ReturnSessionId(t) ==
    /\ pc[t] = "return"
    /\ \/ /\ id_map_[removed_id[t]]
          /\ Step(t, "return", "idle")
          /\ id_map_' = [id_map_ EXCEPT ![removed_id[t]] = FALSE]
          /\ task' = [task EXCEPT ![t] = None]
       \/ /\ ~id_map_[removed_id[t]]
          /\ Step(t, "return", "corrupted")
          /\ UNCHANGED <<id_map_, task>>
    /\ UNCHANGED <<session_list_, session_id_, index, traverse_count, removed_id,
                   unused>>

\* Under lock_session_list_, it changes nothing.
FindSession(i) == session_list_[i]

Add(t) == \/ GetSessionIdTake(t) \/ GetSessionIdNext(t) \/ GetSessionIdWrap(t)
          \/ AddSessionFailed(t) \/ AddSessionInsert(t)

Remove(t) == RemoveSessionErase(t) \/ ReturnSessionId(t)

Run(t) == Add(t) \/ Remove(t)

Next == \E t \in Threads :
            \/ Run(t)
            \/ \E s \in Sessions : CreateSession(t, s) \/ DestroySession(t, s)

Spec == Init /\ [][Next]_vars

\* A thread inside a call runs on; nobody has to make one.
FairSpec == Spec /\ \A t \in Threads : WF_vars(Run(t))

-----------------------------------------------------------------------------
(***************************************************************************)
(* Properties.                                                             *)
(***************************************************************************)

ControlPoints == {"idle", "scan", "failed", "insert", "exists",
                  "erase", "return", "corrupted"}

TypeOK ==
    /\ id_map_ \in [Ids -> BOOLEAN]
    /\ session_list_ \in [Ids -> Sessions \cup {None}]
    /\ session_id_ \in [Sessions -> Ids \cup {-1}]
    /\ pc \in [Threads -> ControlPoints]
    /\ task \in [Threads -> Sessions \cup {None}]
    /\ index \in [Threads -> 0 .. max_session_count_]
    /\ traverse_count \in [Threads -> 0 .. max_traverse_count]
    /\ removed_id \in [Threads -> Ids]
    /\ unused \in [Threads -> SUBSET Ids]

\* Neither CRASH of SessionManager is reached.
NoCrash == \A t \in Threads : pc[t] \notin {"exists", "corrupted"}

\* Thread t has the id i on its hands: taken and not yet listed, or removed
\* from the list and not yet given back.
Holds(t, i) ==
    \/ pc[t] = "insert" /\ session_id_[task[t]] = i
    \/ pc[t] = "return" /\ removed_id[t] = i

\* Each taken id has one user, a listed session or a thread, and each free
\* id none: no id is leaked, shared, or given back while its session can
\* still be found, and FindSession never returns a session that has another.
IdHasOneUser ==
    \A i \in Ids :
        /\ id_map_[i] <=> session_list_[i] # None \/ \E t \in Threads : Holds(t, i)
        /\ session_list_[i] # None => \A t \in Threads : ~Holds(t, i)
        /\ \A t, u \in Threads : Holds(t, i) /\ Holds(u, i) => t = u
        /\ FindSession(i) # None => session_id_[FindSession(i)] = i

\* AddSession fails only if each id was in use at some time during the call.
FailsOnlyWhenBusy == \A t \in Threads : pc[t] = "failed" => unused[t] = {}

\* Every call returns, however often the other threads take and return ids.
CallsReturn == \A t \in Threads : pc[t] # "idle" ~> pc[t] = "idle"

=============================================================================
