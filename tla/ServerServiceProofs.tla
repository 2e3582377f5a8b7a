------------------------- MODULE ServerServiceProofs -------------------------
(***************************************************************************)
(* Proofs about ServerService, for every number of workers, accept events, *)
(* sessions, ids and connections and every outcome of AcceptEx.  What is   *)
(* proved of SessionManager holds of the manager of the service, since the *)
(* listener, the connector and the sessions call it as module              *)
(* SessionManager expects.                                                 *)
(***************************************************************************)
EXTENDS ServerService, TLAPS

SM == INSTANCE SessionManagerProofs

-----------------------------------------------------------------------------
(***************************************************************************)
(* The inductive invariant.                                                *)
(***************************************************************************)

\* Where a thread is in the listener says what it does in the manager.
CallInv ==
    \A t \in Threads :
        /\ at[t] \in {"create", "dial"} =>
             /\ session[t] \in Sessions
             /\ pc[t] \in SM!Adding \cup {"idle"}
             /\ pc[t] # "idle" => task[t] = session[t]
        /\ at[t] = "destroy" => pc[t] \in SM!Removing
        /\ at[t] \notin {"create", "dial", "destroy"} => pc[t] = "idle"
        /\ at[t] \notin {"create", "dial", "null_session"} => session[t] = None
        /\ at[t] \in {"process", "destroy"} => t \in Workers
        /\ at[t] \in {"start", "deaf", "dial", "null_session"} => t = Main
        /\ at[t] \in {"start", "deaf"} => accept_event[t] = 1

InHand(t, s) == session[t] = s \/ task[t] = s

\* A session in the hand of a thread is in no other hand, does not wait for a
\* client and has none: no two threads destroy it, or start and destroy it.
SessionInv ==
    /\ \A t, u \in Threads, s \in Sessions : InHand(t, s) /\ InHand(u, s) => t = u
    /\ \A s \in started \cup leaked : Listed(s) /\ \A t \in Threads : ~InHand(t, s)
    /\ \A e \in AcceptEvents : Waits(e) =>
         \A t \in Threads : ~InHand(t, accept_session_[e])

\* A call of CreateSession that has returned nullptr.
BusyInv ==
    \A t \in Threads :
        \/ at[t] \in {"create", "dial"} /\ pc[t] = "idle" /\ ~Listed(session[t])
        \/ at[t] = "null_session"
        => unused[t] = {}

IInv ==
    /\ TypeOK /\ SM!Inv /\ SM!ScanInv
    /\ EventInOnePlace /\ CallInv /\ SessionInv /\ SessionInOnePlace /\ BusyInv

-----------------------------------------------------------------------------
(***************************************************************************)
(* The calls of SessionManager.                                            *)
(***************************************************************************)

LEMMA FreshSession ==
    ASSUME NEW t \in Threads, CallCreateSession(t)
    PROVE  \E s \in Fresh : /\ Manager!CreateSession(t, s)
                            /\ session' = [session EXCEPT ![t] = s]
<1> DEFINE s == CHOOSE s \in Fresh : TRUE
<1>1. s \in Fresh
  BY DEF CallCreateSession
<1> QED BY <1>1 DEF CallCreateSession

LEMMA ManagerStep ==
    ASSUME IInv, [Next]_vars PROVE [Manager!Next]_manager
<1> USE DEF Manager!Next
<1>1. ASSUME NEW t \in Threads, CallCreateSession(t) PROVE Manager!Next
  BY <1>1, FreshSession DEF Fresh
<1>2. ASSUME NEW w \in Workers, NEW s \in Sessions, ProcessDisconnect(w, s)
      PROVE  Manager!Next
  <2>1. Manager!DestroySession(w, s)
    <3>1. w \in Threads /\ at[w] = "idle" /\ s \in started
      BY <1>2 DEF ProcessDisconnect, Step, Threads
    <3>2. pc[w] = "idle" /\ Listed(s) /\ \A u \in Threads : task[u] # s
      BY <3>1 DEF IInv, CallInv, SessionInv, InHand
    <3> QED BY <1>2, <3>2
            DEF ProcessDisconnect, Manager!DestroySession, Manager!Step, Listed
  <2> QED BY <2>1 DEF Threads
<1>3. ASSUME NEW t \in Threads, CreateSession(t) \/ DestroySession(t) PROVE Manager!Next
  BY <1>3 DEF CreateSession, DestroySession
<1>4. ASSUME NEW t \in Threads, RegisterAcceptFails(t) \/ AcceptEx(t) \/ ProcessAccept(t)
      PROVE  UNCHANGED manager
  BY <1>4 DEF RegisterAcceptFails, AcceptEx, ProcessAccept
<1>5. ASSUME NEW t \in Threads, RegisterAccept(t) PROVE Manager!Next
  BY <1>1, <1>5 DEF RegisterAccept
<1>6. ASSUME Connect PROVE Manager!Next
  BY <1>1, <1>6 DEF Connect, Threads
<1>7. ASSUME Start \/ ConnectNull \/ Connected PROVE UNCHANGED manager
  BY <1>7 DEF Start, ConnectNull, Connected
<1>8. ASSUME NEW w \in Workers, NEW e \in AcceptEvents, Dispatch(w, e)
      PROVE  UNCHANGED manager
  BY <1>8 DEF Dispatch
<1>9. CASE UNCHANGED vars
  BY <1>9 DEF vars
<1> HIDE DEF Manager!Next
<1> QED BY <1>2, <1>3, <1>4, <1>5, <1>6, <1>7, <1>8, <1>9 DEF Next, Run

LEMMA ManagerInv ==
    ASSUME IInv, [Next]_vars PROVE SM!Inv' /\ SM!ScanInv' /\ Manager!TypeOK'
<1>1. [SM!Next]_SM!vars
  <2>1. [Manager!Next]_manager
    BY ManagerStep
  <2>2. SM!vars = manager
    BY DEF SM!vars, manager
  <2>3. Manager!Next => SM!Next
    BY DEF Manager!Next, SM!Next, Manager!Run, SM!Run, Manager!Add, SM!Add,
       Manager!Remove, SM!Remove, Manager!CreateSession, SM!CreateSession,
       Manager!DestroySession, SM!DestroySession, Manager!Unborn, SM!Unborn,
       Manager!Step, SM!Step, Manager!GetSessionIdTake, SM!GetSessionIdTake,
       Manager!GetSessionIdNext, SM!GetSessionIdNext, Manager!GetSessionIdWrap,
       SM!GetSessionIdWrap, Manager!AddSessionFailed, SM!AddSessionFailed,
       Manager!AddSessionInsert, SM!AddSessionInsert, Manager!RemoveSessionErase,
       SM!RemoveSessionErase, Manager!ReturnSessionId, SM!ReturnSessionId,
       Manager!Ids, SM!Ids
  <2> QED BY <2>1, <2>2, <2>3 DEF manager, SM!vars
<1>2. SM!Inv' /\ SM!ScanInv'
  <2>1. SM!TypeOK
    BY DEF IInv, SM!Inv
  <2> QED BY <1>1, <2>1, SM!NextInv, SM!ScanNext, ServerServiceAssumption DEF IInv
<1>3. SM!TypeOK' => Manager!TypeOK'
  BY DEF Manager!TypeOK, SM!TypeOK, Manager!Ids, SM!Ids, Manager!ControlPoints,
         SM!ControlPoints
<1> QED BY <1>2, <1>3 DEF SM!Inv

-----------------------------------------------------------------------------
(***************************************************************************)
(* The steps.  ManagerInv says what becomes of the manager's variables; a  *)
(* step preserves the rest of the invariant.                               *)
(***************************************************************************)

Rest == /\ EventInOnePlace /\ CallInv /\ SessionInv /\ SessionInOnePlace /\ BusyInv
        /\ TypeOK

\* The types that a step uses.
LEMMA Types ==
    ASSUME IInv
    PROVE  /\ at \in [Threads -> ControlPoints]
           /\ accept_event \in [Threads -> AcceptEvents]
           /\ session \in [Threads -> Sessions \cup {None}]
           /\ accept_session_ \in [AcceptEvents -> Sessions \cup {None}]
           /\ posted \subseteq AcceptEvents /\ closed \in BOOLEAN
           /\ started \subseteq Sessions
           /\ to_connect \in 0 .. MaxConnections
           /\ given_up \subseteq AcceptEvents /\ leaked \subseteq Sessions
           /\ pc \in [Threads -> SM!ControlPoints]
           /\ task \in [Threads -> Sessions \cup {None}]
           /\ unused \in [Threads -> SUBSET Manager!Ids]
           /\ None \notin Sessions /\ Main \in Threads /\ Main \notin Workers
           /\ Threads = Workers \cup {Main} /\ MaxConnections \in Nat
           /\ accept_count \in Nat \ {0} /\ AcceptEvents = 1 .. accept_count
BY ServerServiceAssumption
   DEF IInv, TypeOK, SM!Inv, SM!TypeOK, SM!Ids, Manager!Ids, Threads, AcceptEvents

\* Only the manager's variables say whether a session is listed.
LEMMA ListedKept ==
    ASSUME UNCHANGED manager PROVE \A s : Listed(s)' <=> Listed(s)
BY DEF manager, Listed

\* A step that leaves the events where they are.
LEMMA EventsKept ==
    ASSUME EventInOnePlace, UNCHANGED <<posted, given_up>>,
           \A t \in Threads, e \in AcceptEvents : WorksFor(t, e)' <=> WorksFor(t, e),
           \A e \in AcceptEvents : Ahead(e)' <=> Ahead(e)
    PROVE  EventInOnePlace'
BY DEF EventInOnePlace

\* A step that leaves the sessions where they are.
LEMMA SessionsKept ==
    ASSUME SessionInv, SessionInOnePlace,
           UNCHANGED <<accept_session_, started, leaked>>,
           \A s : Listed(s)' <=> Listed(s),
           \A t \in Threads : \A s : InHand(t, s)' <=> InHand(t, s),
           \A e \in AcceptEvents : Waits(e)' <=> Waits(e)
    PROVE  SessionInv' /\ SessionInOnePlace'
<1>1. SessionInv'
  BY DEF SessionInv
<1>2. SessionInOnePlace'
  <2>1. \A s \in Sessions :
            (\E t \in Threads : InHand(t, s)') <=> \E t \in Threads : InHand(t, s)
    OBVIOUS
  <2> QED BY <2>1 DEF SessionInOnePlace, InHand
<1> QED BY <1>1, <1>2

LEMMA StartRest ==
    ASSUME IInv, Manager!TypeOK', Start PROVE Rest'
<1> USE Types
<1>0. /\ at[Main] = "start" /\ at'[Main] \in {"register", "deaf"}
      /\ \A u \in Threads : u # Main => at'[u] = at[u]
      /\ UNCHANGED <<manager, accept_event, session, accept_session_, posted, closed,
                     started, to_connect, given_up, leaked>>
  BY DEF Start, Step
<1>1. EventInOnePlace'
  <2>1. accept_event[Main] = 1 /\ \A e \in AcceptEvents : Ahead(e)
    BY <1>0 DEF IInv, CallInv, Ahead
  <2>2. \A e \in AcceptEvents : Ahead(e)' \/ WorksFor(Main, e)'
    BY <1>0, <2>1 DEF Ahead, WorksFor
  <2>3. \A e \in AcceptEvents : Ahead(e)' => ~WorksFor(Main, e)'
    BY <1>0, <2>1 DEF Ahead, WorksFor
  <2>4. \A u \in Threads, e \in AcceptEvents : u # Main => ~WorksFor(u, e)'
    BY <1>0, <2>1 DEF IInv, EventInOnePlace, WorksFor
  <2> QED BY <1>0, <2>1, <2>2, <2>3, <2>4 DEF IInv, EventInOnePlace
<1>2. CallInv'
  BY <1>0 DEF IInv, CallInv, manager
<1>3. SessionInv' /\ SessionInOnePlace'
  <2>1. \A t \in Threads : \A s : InHand(t, s)' <=> InHand(t, s)
    BY <1>0 DEF InHand, manager
  <2>2. \A e \in AcceptEvents : Waits(e)' <=> Waits(e)
    BY <1>0 DEF Waits
  <2> QED BY <1>0, <2>1, <2>2, ListedKept, SessionsKept DEF IInv
<1>4. BusyInv'
  BY <1>0, ListedKept DEF IInv, BusyInv, manager
<1>5. TypeOK'
  BY <1>0 DEF Start, Step, TypeOK, ControlPoints
<1> QED BY <1>1, <1>2, <1>3, <1>4, <1>5 DEF Rest

-----------------------------------------------------------------------------

\* RegisterAccept returns from its call of CreateSession, or of AcceptEx.
LEMMA ReturnEffect ==
    ASSUME IInv, NEW t \in Threads, at[t] = "create", Return(t)
    PROVE  /\ at' \in [Threads -> ControlPoints]
           /\ accept_event' \in [Threads -> AcceptEvents]
           /\ session' \in [Threads -> Sessions \cup {None}]
           /\ at'[t] \in {"register", "idle"} /\ session'[t] = None
           /\ \A u \in Threads : u # t => /\ at'[u] = at[u] /\ session'[u] = session[u]
                                          /\ accept_event'[u] = accept_event[u]
           /\ \A e \in AcceptEvents : WorksFor(t, e)' => Ahead(e)
           /\ \A e \in AcceptEvents : Ahead(e)' <=> Ahead(e) /\ ~WorksFor(t, e)'
<1> USE Types
<1> DEFINE more == t = Main /\ accept_event[t] < accept_count
<1>1. /\ at' = [at EXCEPT ![t] = IF more THEN "register" ELSE "idle"]
      /\ accept_event' = [accept_event EXCEPT ![t] = IF more THEN @ + 1 ELSE 1]
      /\ session' = [session EXCEPT ![t] = None]
  BY DEF Return
<1>2. accept_event[t] + 1 \in AcceptEvents \/ ~more
  OBVIOUS
<1>3. /\ at'[t] = IF more THEN "register" ELSE "idle"
      /\ accept_event'[t] = IF more THEN accept_event[t] + 1 ELSE 1
      /\ session'[t] = None
      /\ \A u \in Threads : u # t => /\ at'[u] = at[u] /\ session'[u] = session[u]
                                     /\ accept_event'[u] = accept_event[u]
  BY <1>1
<1>4. /\ at' \in [Threads -> ControlPoints]
      /\ accept_event' \in [Threads -> AcceptEvents]
      /\ session' \in [Threads -> Sessions \cup {None}]
  BY <1>1, <1>2 DEF ControlPoints
<1>5. \A e \in AcceptEvents : WorksFor(t, e)' <=> more /\ e = accept_event[t] + 1
  BY <1>3 DEF WorksFor
<1>6. CASE t = Main
  <2>1. \A e \in AcceptEvents : Ahead(e) <=> e > accept_event[t]
    BY <1>6 DEF Ahead
  <2>2. \A e \in AcceptEvents : Ahead(e)' <=> more /\ e > accept_event[t] + 1
    BY <1>3, <1>6 DEF Ahead
  <2>3. \A e \in AcceptEvents : e > accept_event[t] => more
    BY <1>6
  <2>4. \A e \in AcceptEvents : /\ e > accept_event[t] + 1 => e > accept_event[t]
                                /\ e > accept_event[t] => \/ e = accept_event[t] + 1
                                                          \/ e > accept_event[t] + 1
                                /\ ~(accept_event[t] + 1 > accept_event[t] + 1)
                                /\ accept_event[t] + 1 > accept_event[t]
    OBVIOUS
  <2> HIDE DEF more
  <2> QED BY <1>3, <1>4, <1>5, <2>1, <2>2, <2>3, <2>4
<1>7. CASE t # Main
  <2>1. \A e \in AcceptEvents : Ahead(e)' <=> Ahead(e)
    BY <1>3, <1>7 DEF Ahead
  <2> QED BY <1>3, <1>4, <1>5, <1>7, <2>1
<1> QED BY <1>6, <1>7

\* The event that t works for is outstanding now, or given up.
LEMMA ReturnEvent ==
    ASSUME IInv, NEW t \in Threads, at[t] = "create", Return(t),
           \/ posted' = posted \cup {accept_event[t]} /\ given_up' = given_up
           \/ given_up' = given_up \cup {accept_event[t]} /\ posted' = posted
    PROVE  EventInOnePlace'
<1> USE Types
<1>1. WorksFor(t, accept_event[t]) /\ \A e \in AcceptEvents :
        WorksFor(t, e) => e = accept_event[t]
  BY DEF WorksFor
<1>2. \A u \in Threads, e \in AcceptEvents : u # t => (WorksFor(u, e)' <=> WorksFor(u, e))
  BY ReturnEffect DEF WorksFor
<1>3. \A e \in AcceptEvents : /\ WorksFor(t, e)' => Ahead(e)
                              /\ Ahead(e)' <=> Ahead(e) /\ ~WorksFor(t, e)'
  BY ReturnEffect
<1> HIDE DEF WorksFor, Ahead
<1> QED BY <1>1, <1>2, <1>3 DEF IInv, EventInOnePlace

LEMMA RegisterAcceptFailsRest ==
    ASSUME IInv, Manager!TypeOK', NEW t \in Threads, RegisterAcceptFails(t) PROVE Rest'
<1> USE Types
<1>0. /\ at[t] = "create" /\ pc[t] = "idle" /\ ~Listed(session[t]) /\ Return(t)
      /\ given_up' = given_up \cup {accept_event[t]}
      /\ UNCHANGED <<manager, accept_session_, posted, closed, started, to_connect, leaked>>
  BY DEF RegisterAcceptFails
<1>1. EventInOnePlace'
  <2>1. posted' = posted
    BY <1>0
  <2> QED BY <1>0, <2>1, ReturnEvent
<1>2. CallInv'
  <2>1. /\ at'[t] \in {"register", "idle"} /\ session'[t] = None
        /\ \A u \in Threads : u # t => /\ at'[u] = at[u] /\ session'[u] = session[u]
                                       /\ accept_event'[u] = accept_event[u]
    BY <1>0, ReturnEffect
  <2>2. pc' = pc /\ task' = task
    BY <1>0 DEF manager
  <2>3. pc'[t] = "idle" /\ \A u \in Threads : pc'[u] = pc[u] /\ task'[u] = task[u]
    BY <1>0, <2>2
  <2>4. CallInv
    BY DEF IInv
  <2> QED BY ONLY <2>1, <2>3, <2>4, t \in Threads DEF CallInv
<1>3. \A e \in AcceptEvents : Waits(e)' <=> Waits(e)
  BY <1>0, ReturnEffect DEF Waits
<1>4. \A u \in Threads, s \in Sessions : InHand(u, s)' <=> u # t /\ InHand(u, s)
  BY <1>0, ReturnEffect DEF InHand, manager, IInv, SM!Inv, SM!TaskInv
<1>5. \A s : Listed(s)' <=> Listed(s)
  BY <1>0, ListedKept
<1>6. SessionInv'
  BY <1>0, <1>3, <1>4, <1>5 DEF IInv, SessionInv, SessionInOnePlace
<1>7. SessionInOnePlace'
  <2>1. \A s \in Sessions : Listed(s) /\ (\E u \in Threads : InHand(u, s)) =>
            \E u \in Threads : InHand(u, s)'
    BY <1>0, <1>4 DEF InHand, IInv, SM!Inv, SM!TaskInv
  <2> QED BY <1>0, <1>3, <1>5, <2>1 DEF IInv, SessionInOnePlace, InHand
<1>8. BusyInv'
  BY <1>0, <1>5, ReturnEffect DEF IInv, BusyInv, manager
<1>9. TypeOK'
  BY <1>0, ReturnEffect DEF TypeOK
<1> QED BY <1>1, <1>2, <1>6, <1>7, <1>8, <1>9 DEF Rest

-----------------------------------------------------------------------------

\* A thread lets go of a listed session, which has a client now or was given up.
LEMMA LetGo ==
    ASSUME SessionInv, SessionInOnePlace, NEW t \in Threads, NEW s \in Sessions,
           InHand(t, s), Listed(s),
           \A e \in AcceptEvents : Waits(e) => accept_session_'[e] = accept_session_[e],
           \/ started' = started \cup {s} /\ leaked' = leaked
           \/ leaked' = leaked \cup {s} /\ started' = started,
           \A x : Listed(x)' <=> Listed(x),
           \A u \in Threads, x \in Sessions :
               InHand(u, x)' <=> InHand(u, x) /\ ~(u = t /\ x = s),
           \A e \in AcceptEvents : Waits(e)' <=> Waits(e),
           started \subseteq Sessions, leaked \subseteq Sessions
    PROVE  SessionInv' /\ SessionInOnePlace'
<1>1. s \notin started \cup leaked /\ \A u \in Threads : InHand(u, s) => u = t
  BY DEF SessionInv
<1>2. \A e \in AcceptEvents : Waits(e) =>
        /\ accept_session_[e] \in Sessions \ {s}
        /\ \A u \in Threads : ~InHand(u, accept_session_[e])
  BY DEF SessionInv, SessionInOnePlace
<1>3. SessionInv'
  <2>1. \A e \in AcceptEvents : Waits(e)' => \A u \in Threads :
            ~InHand(u, accept_session_[e])'
    <3>1. \A e \in AcceptEvents, u \in Threads, x \in Sessions :
              Waits(e)' /\ x = accept_session_'[e] => ~InHand(u, x)'
      BY <1>2
    <3> QED BY <1>2, <3>1 DEF InHand
  <2>2. \A u, v \in Threads, x \in Sessions : InHand(u, x)' /\ InHand(v, x)' => u = v
    BY DEF SessionInv
  <2>3. \A x \in (started \cup leaked)' : Listed(x)' /\ \A u \in Threads : ~InHand(u, x)'
    BY <1>1 DEF SessionInv
  <2> QED BY <2>1, <2>2, <2>3 DEF SessionInv
<1>4. SessionInOnePlace'
  <2>1. \A x \in Sessions : Listed(x) =>
            \/ x \in started \cup leaked
            \/ \E e \in AcceptEvents : Waits(e) /\ accept_session_[e] = x
            \/ \E u \in Threads : InHand(u, x)
    BY DEF SessionInOnePlace, InHand
  <2>2. \A x \in Sessions : Listed(x)' =>
            \/ x \in started' \cup leaked'
            \/ \E e \in AcceptEvents : Waits(e)' /\ accept_session_'[e] = x
            \/ \E u \in Threads : InHand(u, x)'
    BY <2>1
  <2>3. \A x \in started' : Listed(x)' /\ x \notin leaked'
    BY <1>1 DEF SessionInOnePlace
  <2>4. \A e \in AcceptEvents : Waits(e)' =>
          /\ accept_session_'[e] \in Sessions \ (started' \cup leaked')
          /\ Listed(accept_session_[e])
          /\ \A d \in AcceptEvents :
               Waits(d)' /\ accept_session_'[d] = accept_session_'[e] => d = e
    BY <1>2 DEF SessionInOnePlace
  <2>5. \A e \in AcceptEvents : Waits(e)' => Listed(accept_session_[e])'
    <3>1. \A e \in AcceptEvents : Waits(e)' => Listed(accept_session_'[e])
      BY <2>4
    <3> QED BY <3>1 DEF Listed
  <2> HIDE DEF InHand
  <2>6. \A x \in Sessions : Listed(x)' =>
            \/ x \in started' \cup leaked'
            \/ \E e \in AcceptEvents : Waits(e)' /\ accept_session_'[e] = x
            \/ \E u \in Threads : session'[u] = x \/ task'[u] = x
    BY <2>2 DEF InHand
  <2> QED BY <2>3, <2>4, <2>5, <2>6 DEF SessionInOnePlace
<1> QED BY <1>3, <1>4

\* A thread leaves a listed session in an event for the next client.
LEMMA LeaveInEvent ==
    ASSUME SessionInv, SessionInOnePlace, NEW t \in Threads, NEW s \in Sessions,
           NEW e \in AcceptEvents, InHand(t, s), Listed(s), ~Waits(e),
           accept_session_ \in [AcceptEvents -> Sessions \cup {None}],
           accept_session_' = [accept_session_ EXCEPT ![e] = s],
           UNCHANGED <<started, leaked>>,
           \A x : Listed(x)' <=> Listed(x),
           \A u \in Threads, x \in Sessions :
               InHand(u, x)' <=> InHand(u, x) /\ ~(u = t /\ x = s),
           \A d \in AcceptEvents : Waits(d)' <=> Waits(d) \/ d = e,
           started \subseteq Sessions, leaked \subseteq Sessions
    PROVE  SessionInv' /\ SessionInOnePlace'
<1>1. /\ s \notin started \cup leaked /\ \A u \in Threads : InHand(u, s) => u = t
      /\ \A u \in Threads : ~InHand(u, s)'
  BY DEF SessionInv
<1>2. \A d \in AcceptEvents : Waits(d) =>
        /\ accept_session_[d] \in Sessions \ {s}
        /\ \A u \in Threads : ~InHand(u, accept_session_[d])
  BY DEF SessionInv, SessionInOnePlace
<1>3. \A d \in AcceptEvents : accept_session_'[d] = IF d = e THEN s ELSE accept_session_[d]
  OBVIOUS
<1>4. SessionInv'
  <2>1. ASSUME NEW d \in AcceptEvents, Waits(d)', NEW u \in Threads
        PROVE  ~InHand(u, accept_session_[d])'
    <3>1. CASE d = e
      <4>1. accept_session_'[d] = s
        BY <1>3, <3>1
      <4>2. ~InHand(u, s)'
        BY <1>1
      <4> QED BY <4>1, <4>2 DEF InHand
    <3>2. CASE d # e
      <4>1. accept_session_'[d] = accept_session_[d] /\ accept_session_[d] \in Sessions
        BY <1>2, <1>3, <2>1, <3>2
      <4>2. ~InHand(u, accept_session_[d])
        BY <1>2, <2>1, <3>2
      <4>3. \A x \in Sessions : ~InHand(u, x) => ~InHand(u, x)'
        OBVIOUS
      <4>4. \A x \in Sessions : x = accept_session_'[d] => ~InHand(u, x)'
        BY <4>1, <4>2, <4>3
      <4> QED BY <4>1, <4>4 DEF InHand
    <3> QED BY <3>1, <3>2
  <2>2. \A u, v \in Threads, x \in Sessions : InHand(u, x)' /\ InHand(v, x)' => u = v
    BY DEF SessionInv
  <2>3. \A x \in (started \cup leaked)' : Listed(x)' /\ \A u \in Threads : ~InHand(u, x)'
    <3>1. \A x \in started \cup leaked : Listed(x) /\ \A u \in Threads : ~InHand(u, x)
      BY DEF SessionInv
    <3> QED BY <3>1
  <2> QED BY <2>1, <2>2, <2>3 DEF SessionInv
<1>5. SessionInOnePlace'
  <2>1. \A x \in Sessions : Listed(x) =>
            \/ x \in started \cup leaked
            \/ \E d \in AcceptEvents : Waits(d) /\ accept_session_[d] = x
            \/ \E u \in Threads : InHand(u, x)
    BY DEF SessionInOnePlace, InHand
  <2>2. \A x \in Sessions : Listed(x)' =>
            \/ x \in started' \cup leaked'
            \/ \E d \in AcceptEvents : Waits(d)' /\ accept_session_'[d] = x
            \/ \E u \in Threads : InHand(u, x)'
    BY <1>1, <1>3, <2>1
  <2>3. \A x \in Sessions : Listed(x)' =>
            \/ x \in started' \cup leaked'
            \/ \E d \in AcceptEvents : Waits(d)' /\ accept_session_'[d] = x
            \/ \E u \in Threads : session'[u] = x \/ task'[u] = x
    BY <2>2 DEF InHand
  <2>4. \A x \in started' : Listed(x)' /\ x \notin leaked'
    BY DEF SessionInOnePlace
  <2>5. \A d \in AcceptEvents : Waits(d)' =>
          /\ accept_session_'[d] \in Sessions \ (started' \cup leaked')
          /\ Listed(accept_session_[d])'
    <3>1. \A d \in AcceptEvents : Waits(d)' => Listed(accept_session_'[d])
      BY <1>3 DEF SessionInOnePlace
    <3>2. \A d \in AcceptEvents : Waits(d)' => Listed(accept_session_[d])'
      <4>1. \A x : Listed(x)' <=> \E i \in Manager!Ids : session_list_'[i] = x
        BY DEF Listed
      <4> QED BY <3>1, <4>1 DEF Listed
    <3> QED BY <1>1, <1>3, <3>2 DEF SessionInOnePlace
  <2>6. \A c, d \in AcceptEvents :
          Waits(c)' /\ Waits(d)' /\ accept_session_'[d] = accept_session_'[c] => d = c
    BY <1>2, <1>3 DEF SessionInOnePlace
  <2> QED BY <2>3, <2>4, <2>5, <2>6 DEF SessionInOnePlace
<1> QED BY <1>4, <1>5

LEMMA AcceptExRest ==
    ASSUME IInv, Manager!TypeOK', NEW t \in Threads, AcceptEx(t) PROVE Rest'
<1> USE Types
<1> DEFINE e == accept_event[t]  s == session[t]
<1>0. /\ at[t] = "create" /\ pc[t] = "idle" /\ Listed(s)
      /\ accept_session_' = [accept_session_ EXCEPT ![e] = s]
      /\ UNCHANGED <<manager, started, to_connect, given_up>>
  BY DEF AcceptEx
<1>1. s \in Sessions /\ e \in AcceptEvents /\ InHand(t, s) /\ task[t] = None
  BY <1>0 DEF IInv, CallInv, InHand, SM!Inv, SM!TaskInv
<1>2. ~Waits(e)
  <2>1. WorksFor(t, e)
    BY <1>0 DEF WorksFor
  <2>2. e \notin posted /\ \A u \in Threads : WorksFor(u, e) => u = t
    BY <1>1, <2>1 DEF IInv, EventInOnePlace
  <2> QED BY <1>0, <2>2 DEF Waits, WorksFor
<1>3. \A x : Listed(x)' <=> Listed(x)
  BY <1>0, ListedKept
<1>4. pc' = pc /\ task' = task /\ unused' = unused
  BY <1>0 DEF manager
<1>5. CASE posted' = posted \cup {e} /\ Return(t) /\ UNCHANGED <<closed, leaked>>
  <2>1. EventInOnePlace'
    <3>1. given_up' = given_up
      BY <1>0
    <3> QED BY <1>0, <1>5, <3>1, ReturnEvent
  <2>2. /\ at'[t] \in {"register", "idle"} /\ session'[t] = None
        /\ \A u \in Threads : u # t => /\ at'[u] = at[u] /\ session'[u] = session[u]
                                       /\ accept_event'[u] = accept_event[u]
        /\ at' \in [Threads -> ControlPoints]
        /\ accept_event' \in [Threads -> AcceptEvents]
        /\ session' \in [Threads -> Sessions \cup {None}]
    BY <1>0, <1>5, ReturnEffect
  <2>3. CallInv'
    BY <1>0, <1>4, <2>2 DEF IInv, CallInv
  <2>4. \A u \in Threads, x \in Sessions :
            InHand(u, x)' <=> InHand(u, x) /\ ~(u = t /\ x = s)
    BY <1>1, <1>4, <2>2 DEF InHand
  <2>5. \A d \in AcceptEvents : Waits(d)' <=> Waits(d) \/ d = e
    BY <1>0, <1>5, <2>2 DEF Waits
  <2>6. SessionInv' /\ SessionInOnePlace'
    <3> HIDE DEF e, s
    <3>1. SessionInv /\ SessionInOnePlace
      BY DEF IInv
    <3>2. UNCHANGED <<started, leaked>>
      BY <1>0, <1>5
    <3> QED BY <1>0, <1>1, <1>2, <1>3, <2>4, <2>5, <3>1, <3>2, LeaveInEvent
  <2>7. BusyInv'
    BY <1>3, <1>4, <2>2 DEF IInv, BusyInv
  <2>8. TypeOK'
    BY <1>0, <1>1, <1>5, <2>2 DEF TypeOK
  <2> QED BY <2>1, <2>3, <2>6, <2>7, <2>8 DEF Rest
<1>6. CASE /\ at' = [at EXCEPT ![t] = "register"]
           /\ leaked' = leaked \cup {s}
           /\ session' = [session EXCEPT ![t] = None]
           /\ closed' \in BOOLEAN
           /\ UNCHANGED <<posted, accept_event>>
  <2>1. /\ at'[t] = "register" /\ session'[t] = None
        /\ \A u \in Threads : u # t => at'[u] = at[u] /\ session'[u] = session[u]
    BY <1>6
  <2>2. EventInOnePlace'
    <3>1. \A u \in Threads, d \in AcceptEvents : WorksFor(u, d)' <=> WorksFor(u, d)
      BY <1>0, <1>6, <2>1 DEF WorksFor
    <3>2. \A d \in AcceptEvents : Ahead(d)' <=> Ahead(d)
      BY <1>0, <1>6, <2>1 DEF Ahead
    <3>3. UNCHANGED <<posted, given_up>> /\ EventInOnePlace
      BY <1>0, <1>6 DEF IInv
    <3> QED BY <3>1, <3>2, <3>3, EventsKept
  <2>3. CallInv'
    BY <1>0, <1>4, <1>6, <2>1 DEF IInv, CallInv
  <2>4. \A u \in Threads, x \in Sessions :
            InHand(u, x)' <=> InHand(u, x) /\ ~(u = t /\ x = s)
    BY <1>1, <1>4, <2>1 DEF InHand
  <2>5. SessionInv' /\ SessionInOnePlace'
    <3> HIDE DEF e, s
    <3>1. \A d \in AcceptEvents : Waits(d)' <=> Waits(d)
      BY <1>0, <1>6, <2>1 DEF Waits
    <3>2. SessionInv /\ SessionInOnePlace
      BY DEF IInv
    <3>3. \A d \in AcceptEvents : Waits(d) => accept_session_'[d] = accept_session_[d]
      BY <1>0, <1>1, <1>2
    <3> QED BY <1>0, <1>1, <1>3, <1>6, <2>4, <3>1, <3>2, <3>3, LetGo
  <2>6. BusyInv'
    BY <1>0, <1>3, <1>4, <2>1 DEF IInv, BusyInv
  <2>7. TypeOK'
    BY <1>0, <1>1, <1>6 DEF TypeOK, ControlPoints
  <2> QED BY <2>2, <2>3, <2>5, <2>6, <2>7 DEF Rest
<1> QED BY <1>0, <1>5, <1>6 DEF AcceptEx, Step

LEMMA DispatchRest ==
    ASSUME IInv, Manager!TypeOK', NEW w \in Workers, NEW e \in AcceptEvents, Dispatch(w, e)
    PROVE  Rest'
<1> USE Types
<1>0. /\ w \in Threads /\ at[w] = "idle" /\ e \in posted
      /\ at' = [at EXCEPT ![w] = "process"]
      /\ posted' = posted \ {e}
      /\ accept_event' = [accept_event EXCEPT ![w] = e]
      /\ UNCHANGED <<manager, session, accept_session_, closed, started, to_connect,
                     given_up, leaked>>
  BY DEF Dispatch, Step
<1>1. /\ at'[w] = "process" /\ accept_event'[w] = e
      /\ \A u \in Threads : u # w => at'[u] = at[u] /\ accept_event'[u] = accept_event[u]
  BY <1>0
<1>2. EventInOnePlace'
  <2>1. \A u \in Threads, d \in AcceptEvents :
            WorksFor(u, d)' <=> IF u = w THEN d = e ELSE WorksFor(u, d)
    BY <1>0, <1>1 DEF WorksFor
  <2>2. \A d \in AcceptEvents : Ahead(d)' <=> Ahead(d)
    BY <1>0, <1>1 DEF Ahead
  <2>3. ~Ahead(e) /\ e \notin given_up /\ \A u \in Threads : ~WorksFor(u, e)
    BY <1>0 DEF IInv, EventInOnePlace
  <2>4. \A d \in AcceptEvents : ~WorksFor(w, d)
    BY <1>0 DEF WorksFor
  <2>5. given_up' = given_up /\ posted' = posted \ {e}
    BY <1>0
  <2>6. EventInOnePlace
    BY DEF IInv
  <2> QED BY <1>0, <2>1, <2>2, <2>3, <2>4, <2>5, <2>6 DEF EventInOnePlace
<1>3. CallInv'
  BY <1>0, <1>1 DEF IInv, CallInv, manager
<1>4. SessionInv' /\ SessionInOnePlace'
  <2>1. \A t \in Threads : \A s : InHand(t, s)' <=> InHand(t, s)
    BY <1>0 DEF InHand, manager
  <2>2. \A d \in AcceptEvents : Waits(d)' <=> Waits(d)
    BY <1>0, <1>1 DEF Waits
  <2> QED BY <1>0, <2>1, <2>2, ListedKept, SessionsKept DEF IInv
<1>5. BusyInv'
  BY <1>0, <1>1, ListedKept DEF IInv, BusyInv, manager
<1>6. TypeOK'
  BY <1>0 DEF TypeOK, ControlPoints
<1> QED BY <1>2, <1>3, <1>4, <1>5, <1>6 DEF Rest

LEMMA ProcessAcceptRest ==
    ASSUME IInv, Manager!TypeOK', NEW t \in Threads, ProcessAccept(t) PROVE Rest'
<1> USE Types
<1> DEFINE e == accept_event[t]  s == accept_session_[e]
<1>0. /\ at[t] = "process" /\ at' = [at EXCEPT ![t] = "register"]
      /\ \/ started' = started \cup {s} /\ leaked' = leaked
         \/ leaked' = leaked \cup {s} /\ started' = started
      /\ UNCHANGED <<manager, accept_event, session, accept_session_, posted, closed,
                     to_connect, given_up>>
  BY DEF ProcessAccept, Step
<1>1. at'[t] = "register" /\ \A u \in Threads : u # t => at'[u] = at[u]
  BY <1>0
<1>2. e \in AcceptEvents /\ Waits(e) /\ s \in Sessions
  BY <1>0 DEF Waits, IInv, SessionInOnePlace
<1>3. EventInOnePlace'
  <2>1. \A u \in Threads, d \in AcceptEvents : WorksFor(u, d)' <=> WorksFor(u, d)
    BY <1>0, <1>1 DEF WorksFor
  <2>2. \A d \in AcceptEvents : Ahead(d)' <=> Ahead(d)
    BY <1>0, <1>1 DEF Ahead, IInv, CallInv
  <2>3. UNCHANGED <<posted, given_up>> /\ EventInOnePlace
    BY <1>0 DEF IInv
  <2> QED BY <2>1, <2>2, <2>3, EventsKept
<1>4. CallInv'
  BY <1>0, <1>1 DEF IInv, CallInv, manager
<1>5. \A u \in Threads, x \in Sessions : InHand(u, x)' <=> InHand(u, x)
  BY <1>0 DEF InHand, manager
<1>6. \A d \in AcceptEvents : Waits(d)' <=> Waits(d) /\ d # e
  <2>1. \A u \in Threads : at[u] = "process" /\ accept_event[u] = e => u = t
    <3>1. WorksFor(t, e)
      BY <1>0 DEF WorksFor
    <3>2. \A u \in Threads : WorksFor(u, e) => u = t
      BY <1>2, <3>1 DEF IInv, EventInOnePlace
    <3> QED BY <3>2 DEF WorksFor
  <2>2. e \notin posted
    <3>1. WorksFor(t, e)
      BY <1>0 DEF WorksFor
    <3> QED BY <1>2, <3>1 DEF IInv, EventInOnePlace
  <2> QED BY <1>0, <1>1, <2>1, <2>2 DEF Waits
<1>7. \A x : Listed(x)' <=> Listed(x)
  BY <1>0, ListedKept
<1>8. \A d \in AcceptEvents : Waits(d) =>
        /\ accept_session_[d] \in Sessions \ (started \cup leaked)
        /\ Listed(accept_session_[d])
        /\ accept_session_[d] = s => d = e
        /\ \A u \in Threads : ~InHand(u, accept_session_[d])
  BY <1>2 DEF IInv, SessionInOnePlace, SessionInv
<1>9. accept_session_' = accept_session_
  BY <1>0
<1> HIDE DEF e, s
<1>10. SessionInv'
  <2>1. \A d \in AcceptEvents : Waits(d)' => \A u \in Threads :
            ~InHand(u, accept_session_[d])'
    <3>1. \A d \in AcceptEvents, u \in Threads : Waits(d)' =>
              accept_session_[d] \in Sessions /\ ~InHand(u, accept_session_[d])
      BY <1>6, <1>8
    <3>2. session' = session /\ task' = task
      BY <1>0 DEF manager
    <3> QED BY <1>9, <3>1, <3>2 DEF InHand
  <2>2. \A u, v \in Threads, x \in Sessions : InHand(u, x)' /\ InHand(v, x)' => u = v
    BY <1>5 DEF IInv, SessionInv
  <2>3. \A x \in (started \cup leaked)' : Listed(x)' /\ \A u \in Threads : ~InHand(u, x)'
    <3>1. Listed(s) /\ \A u \in Threads : ~InHand(u, s)
      BY <1>2, <1>8 DEF s
    <3>2. \A x \in started \cup leaked : Listed(x) /\ \A u \in Threads : ~InHand(u, x)
      BY DEF IInv, SessionInv
    <3> QED BY <1>0, <1>2, <1>5, <1>7, <3>1, <3>2
  <2> QED BY <2>1, <2>2, <2>3 DEF SessionInv
<1>11. SessionInOnePlace'
  <2>1. \A x \in Sessions : Listed(x) =>
            \/ x \in started \cup leaked
            \/ \E d \in AcceptEvents : Waits(d) /\ accept_session_[d] = x
            \/ \E u \in Threads : session[u] = x \/ task[u] = x
    BY DEF IInv, SessionInOnePlace
  <2>2. \A x \in Sessions : Listed(x)' =>
            \/ x \in started' \cup leaked'
            \/ \E d \in AcceptEvents : Waits(d)' /\ accept_session_'[d] = x
            \/ \E u \in Threads : session'[u] = x \/ task'[u] = x
    <3>1. session' = session /\ task' = task
      BY <1>0 DEF manager
    <3>2. accept_session_[e] = s
      BY DEF s
    <3> QED BY <1>0, <1>6, <1>7, <1>9, <2>1, <3>1, <3>2, SMTT(20)
  <2>3. \A x \in started' : Listed(x)' /\ x \notin leaked'
    <3>1. s \notin started \cup leaked /\ Listed(s)
      BY <1>2, <1>8 DEF s
    <3> QED BY <1>0, <1>7, <3>1 DEF IInv, SessionInOnePlace
  <2>4. \A d \in AcceptEvents : Waits(d)' =>
          /\ accept_session_'[d] \in Sessions \ (started' \cup leaked')
          /\ Listed(accept_session_[d])'
    <3>1. \A d \in AcceptEvents : Waits(d)' =>
            accept_session_[d] # s /\ Listed(accept_session_[d])
      BY <1>6, <1>8
    <3>2. session_list_' = session_list_
      BY <1>0 DEF manager
    <3> QED BY <1>0, <1>6, <1>8, <1>9, <3>1, <3>2 DEF Listed
  <2>5. \A c, d \in AcceptEvents :
          Waits(c)' /\ Waits(d)' /\ accept_session_'[d] = accept_session_'[c] => d = c
    BY <1>6, <1>9 DEF IInv, SessionInOnePlace
  <2> QED BY <2>2, <2>3, <2>4, <2>5 DEF SessionInOnePlace
<1>12. BusyInv'
  BY <1>0, <1>1, <1>7 DEF IInv, BusyInv, manager
<1>13. TypeOK'
  BY <1>0, <1>2 DEF TypeOK, ControlPoints
<1> QED BY <1>3, <1>4, <1>10, <1>11, <1>12, <1>13 DEF Rest

LEMMA ConnectNullRest ==
    ASSUME IInv, Manager!TypeOK', ConnectNull PROVE Rest'
<1> USE Types
<1>0. /\ pc[Main] = "idle" /\ ~Listed(session[Main]) /\ at[Main] = "dial"
      /\ at' = [at EXCEPT ![Main] = "null_session"]
      /\ UNCHANGED <<manager, accept_event, session, accept_session_, posted, closed,
                     started, to_connect, given_up, leaked>>
  BY DEF ConnectNull, Step
<1>1. /\ at'[Main] = "null_session"
      /\ \A u \in Threads : u # Main => at'[u] = at[u]
  BY <1>0
<1>2. EventInOnePlace'
  <2>1. \A u \in Threads, d \in AcceptEvents : WorksFor(u, d)' <=> WorksFor(u, d)
    BY <1>0, <1>1 DEF WorksFor
  <2>2. \A d \in AcceptEvents : Ahead(d)' <=> Ahead(d)
    BY <1>0, <1>1 DEF Ahead
  <2>3. UNCHANGED <<posted, given_up>> /\ EventInOnePlace
    BY <1>0 DEF IInv
  <2> QED BY <2>1, <2>2, <2>3, EventsKept
<1>3. CallInv'
  BY <1>0, <1>1 DEF IInv, CallInv, manager
<1>4. SessionInv' /\ SessionInOnePlace'
  <2>1. \A t \in Threads : \A s : InHand(t, s)' <=> InHand(t, s)
    BY <1>0 DEF InHand, manager
  <2>2. \A d \in AcceptEvents : Waits(d)' <=> Waits(d)
    BY <1>0, <1>1 DEF Waits
  <2> QED BY <1>0, <2>1, <2>2, ListedKept, SessionsKept DEF IInv
<1>5. BusyInv'
  BY <1>0, <1>1, ListedKept DEF IInv, BusyInv, manager
<1>6. TypeOK'
  BY <1>0 DEF TypeOK, ControlPoints
<1> QED BY <1>2, <1>3, <1>4, <1>5, <1>6 DEF Rest

LEMMA ConnectedRest ==
    ASSUME IInv, Manager!TypeOK', Connected PROVE Rest'
<1> USE Types
<1> DEFINE s == session[Main]
<1>0. /\ pc[Main] = "idle" /\ Listed(s) /\ at[Main] = "dial"
      /\ at' = [at EXCEPT ![Main] = "idle"]
      /\ session' = [session EXCEPT ![Main] = None]
      /\ \/ started' = started \cup {s} /\ leaked' = leaked
         \/ leaked' = leaked \cup {s} /\ started' = started
      /\ to_connect' \in {to_connect, 0}
      /\ UNCHANGED <<manager, accept_event, accept_session_, posted, closed, given_up>>
  BY DEF Connected, Step
<1>1. /\ at'[Main] = "idle" /\ session'[Main] = None
      /\ \A u \in Threads : u # Main => at'[u] = at[u] /\ session'[u] = session[u]
  BY <1>0
<1>2. s \in Sessions /\ InHand(Main, s) /\ task[Main] = None
  BY <1>0 DEF IInv, CallInv, InHand, SM!Inv, SM!TaskInv
<1>3. EventInOnePlace'
  <2>1. \A u \in Threads, d \in AcceptEvents : WorksFor(u, d)' <=> WorksFor(u, d)
    BY <1>0, <1>1 DEF WorksFor
  <2>2. \A d \in AcceptEvents : Ahead(d)' <=> Ahead(d)
    BY <1>0, <1>1 DEF Ahead
  <2>3. UNCHANGED <<posted, given_up>> /\ EventInOnePlace
    BY <1>0 DEF IInv
  <2> QED BY <2>1, <2>2, <2>3, EventsKept
<1>4. CallInv'
  BY <1>0, <1>1 DEF IInv, CallInv, manager
<1>5. SessionInv' /\ SessionInOnePlace'
  <2>1. \A u \in Threads, x \in Sessions :
            InHand(u, x)' <=> InHand(u, x) /\ ~(u = Main /\ x = s)
    BY <1>0, <1>1, <1>2 DEF InHand, manager
  <2>2. \A d \in AcceptEvents : Waits(d)' <=> Waits(d)
    BY <1>0, <1>1 DEF Waits
  <2>3. \A x : Listed(x)' <=> Listed(x)
    BY <1>0, ListedKept
  <2>4. \A d \in AcceptEvents : Waits(d) => accept_session_'[d] = accept_session_[d]
    BY <1>0
  <2>5. SessionInv /\ SessionInOnePlace
    BY DEF IInv
  <2> HIDE DEF s
  <2> QED BY <1>0, <1>2, <2>1, <2>2, <2>3, <2>4, <2>5, LetGo
<1>6. BusyInv'
  BY <1>0, <1>1, ListedKept DEF IInv, BusyInv, manager
<1>7. TypeOK'
  <2>1. to_connect' \in 0 .. MaxConnections
    BY <1>0
  <2> QED BY <1>0, <1>2, <2>1 DEF TypeOK, ControlPoints
<1> QED BY <1>3, <1>4, <1>5, <1>6, <1>7 DEF Rest

-----------------------------------------------------------------------------

\* A fresh session comes into the hand of t.
LEMMA CreateEffect ==
    ASSUME IInv, NEW t \in Threads, CallCreateSession(t), session[t] = None,
           UNCHANGED <<accept_session_, started, leaked>>,
           \A e \in AcceptEvents : Waits(e)' <=> Waits(e)
    PROVE  /\ SessionInv' /\ SessionInOnePlace'
           /\ session' \in [Threads -> Sessions \cup {None}]
           /\ pc'[t] = "scan" /\ session'[t] \in Sessions /\ task'[t] = session'[t]
           /\ pc[t] = "idle"
           /\ \A u \in Threads : u # t => /\ pc'[u] = pc[u] /\ task'[u] = task[u]
                                          /\ session'[u] = session[u]
                                          /\ unused'[u] = unused[u]
           /\ session_list_' = session_list_
<1> USE Types
<1>1. PICK s \in Fresh : /\ Manager!CreateSession(t, s)
                         /\ session' = [session EXCEPT ![t] = s]
  BY FreshSession
<1>2. /\ s \in Sessions /\ ~Listed(s) /\ \A u \in Threads : ~InHand(u, s)
  BY DEF Fresh, InHand
<1>3. /\ pc[t] = "idle" /\ pc' = [pc EXCEPT ![t] = "scan"]
      /\ task' = [task EXCEPT ![t] = s]
      /\ \E f : unused' = [unused EXCEPT ![t] = f]
      /\ session_list_' = session_list_
  BY <1>1 DEF Manager!CreateSession, Manager!Step
<1>4. /\ session' \in [Threads -> Sessions \cup {None}]
      /\ pc'[t] = "scan" /\ session'[t] = s /\ task'[t] = s
      /\ \A u \in Threads : u # t => /\ pc'[u] = pc[u] /\ task'[u] = task[u]
                                     /\ session'[u] = session[u]
                                     /\ unused'[u] = unused[u]
  BY <1>1, <1>2, <1>3
<1>5. \A x : Listed(x)' <=> Listed(x)
  BY <1>3 DEF Listed
<1>6. task[t] = None
  BY <1>3 DEF IInv, SM!Inv, SM!TaskInv
<1>7. \A u \in Threads, x \in Sessions :
          InHand(u, x)' <=> InHand(u, x) \/ (u = t /\ x = s)
  BY <1>4, <1>6 DEF InHand
<1>8. SessionInv'
  <2>1. \A e \in AcceptEvents : Waits(e)' => \A u \in Threads :
            ~InHand(u, accept_session_[e])'
    <3>1. \A e \in AcceptEvents : Waits(e) =>
            /\ accept_session_[e] \in Sessions /\ accept_session_[e] # s
            /\ \A u \in Threads : ~InHand(u, accept_session_[e])
      BY <1>2 DEF IInv, SessionInOnePlace, SessionInv
    <3>2. \A e \in AcceptEvents, u \in Threads, x \in Sessions :
              Waits(e)' /\ x = accept_session_'[e] => ~InHand(u, x)'
      BY <1>7, <3>1
    <3> QED BY <3>1, <3>2 DEF InHand
  <2>2. \A u, v \in Threads, x \in Sessions : InHand(u, x)' /\ InHand(v, x)' => u = v
    <3>1. \A u, v \in Threads, x \in Sessions : InHand(u, x) /\ InHand(v, x) => u = v
      BY DEF IInv, SessionInv
    <3>2. ASSUME NEW u \in Threads, NEW v \in Threads, NEW x \in Sessions,
                 InHand(u, x)', InHand(v, x)'
          PROVE  u = v
      <4>1. CASE x = s
        <5>1. ~InHand(u, x) /\ ~InHand(v, x)
          BY <1>2, <4>1
        <5> QED BY <1>7, <3>2, <5>1
      <4>2. CASE x # s
        BY <1>7, <3>1, <3>2, <4>2
      <4> QED BY <4>1, <4>2
    <3> QED BY <3>2
  <2>3. \A x \in (started \cup leaked)' : Listed(x)' /\ \A u \in Threads : ~InHand(u, x)'
    BY <1>2, <1>5, <1>7 DEF IInv, SessionInv
  <2> QED BY <2>1, <2>2, <2>3 DEF SessionInv
<1>9. SessionInOnePlace'
  <2>1. \A x \in Sessions : Listed(x) =>
            \/ x \in started \cup leaked
            \/ \E e \in AcceptEvents : Waits(e) /\ accept_session_[e] = x
            \/ \E u \in Threads : InHand(u, x)
    BY DEF IInv, SessionInOnePlace, InHand
  <2>2. \A x \in Sessions : Listed(x)' =>
            \/ x \in started' \cup leaked'
            \/ \E e \in AcceptEvents : Waits(e)' /\ accept_session_'[e] = x
            \/ \E u \in Threads : InHand(u, x)'
    BY <1>5, <1>7, <2>1
  <2>3. \A x \in Sessions : Listed(x)' =>
            \/ x \in started' \cup leaked'
            \/ \E e \in AcceptEvents : Waits(e)' /\ accept_session_'[e] = x
            \/ \E u \in Threads : session'[u] = x \/ task'[u] = x
    BY <2>2 DEF InHand
  <2>4. \A e \in AcceptEvents : Waits(e)' =>
          /\ accept_session_'[e] \in Sessions \ (started' \cup leaked')
          /\ Listed(accept_session_[e])'
          /\ \A d \in AcceptEvents :
               Waits(d)' /\ accept_session_'[d] = accept_session_'[e] => d = e
    BY <1>3 DEF IInv, SessionInOnePlace, Listed
  <2>5. \A x \in started' : Listed(x)' /\ x \notin leaked'
    BY <1>5 DEF IInv, SessionInOnePlace
  <2> QED BY <2>3, <2>4, <2>5 DEF SessionInOnePlace
<1>10. pc[t] = "idle" /\ session_list_' = session_list_
  BY <1>3
<1>11. session'[t] \in Sessions /\ task'[t] = session'[t]
  BY <1>2, <1>4
<1> QED BY <1>4, <1>8, <1>9, <1>10, <1>11

LEMMA RegisterAcceptRest ==
    ASSUME IInv, Manager!TypeOK', NEW t \in Threads, RegisterAccept(t) PROVE Rest'
<1> USE Types
<1>0. /\ at[t] = "register" /\ at' = [at EXCEPT ![t] = "create"]
      /\ CallCreateSession(t)
      /\ UNCHANGED <<accept_event, accept_session_, posted, closed, started, to_connect,
                     given_up, leaked>>
  BY DEF RegisterAccept, Step
<1>1. at'[t] = "create" /\ \A u \in Threads : u # t => at'[u] = at[u]
  BY <1>0
<1>2. \A d \in AcceptEvents : Waits(d)' <=> Waits(d)
  BY <1>0, <1>1 DEF Waits
<1>3. session[t] = None
  BY <1>0 DEF IInv, CallInv
<1>4. /\ SessionInv' /\ SessionInOnePlace'
      /\ session' \in [Threads -> Sessions \cup {None}]
      /\ pc'[t] = "scan" /\ session'[t] \in Sessions /\ task'[t] = session'[t]
      /\ \A u \in Threads : u # t => /\ pc'[u] = pc[u] /\ task'[u] = task[u]
                                     /\ session'[u] = session[u]
                                     /\ unused'[u] = unused[u]
      /\ session_list_' = session_list_
  BY <1>0, <1>2, <1>3, CreateEffect
<1>5. EventInOnePlace'
  <2>1. \A u \in Threads, d \in AcceptEvents : WorksFor(u, d)' <=> WorksFor(u, d)
    BY <1>0, <1>1 DEF WorksFor
  <2>2. \A d \in AcceptEvents : Ahead(d)' <=> Ahead(d)
    BY <1>0, <1>1 DEF Ahead
  <2>3. UNCHANGED <<posted, given_up>> /\ EventInOnePlace
    BY <1>0 DEF IInv
  <2> QED BY <2>1, <2>2, <2>3, EventsKept
<1>6. CallInv'
  BY <1>0, <1>1, <1>4 DEF IInv, CallInv, SM!Adding
<1>7. BusyInv'
  BY <1>0, <1>1, <1>4 DEF IInv, BusyInv, Listed
<1>8. TypeOK'
  BY <1>0, <1>4 DEF TypeOK, ControlPoints
<1> QED BY <1>4, <1>5, <1>6, <1>7, <1>8 DEF Rest

LEMMA ConnectRest ==
    ASSUME IInv, Manager!TypeOK', Connect PROVE Rest'
<1> USE Types
<1>0. /\ at[Main] = "idle" /\ at' = [at EXCEPT ![Main] = "dial"]
      /\ to_connect > 0 /\ to_connect' = to_connect - 1
      /\ CallCreateSession(Main)
      /\ UNCHANGED <<accept_event, accept_session_, posted, closed, started,
                     given_up, leaked>>
  BY DEF Connect, Step
<1>1. at'[Main] = "dial" /\ \A u \in Threads : u # Main => at'[u] = at[u]
  BY <1>0
<1>2. \A d \in AcceptEvents : Waits(d)' <=> Waits(d)
  BY <1>0, <1>1 DEF Waits
<1>3. session[Main] = None
  BY <1>0 DEF IInv, CallInv
<1>4. /\ SessionInv' /\ SessionInOnePlace'
      /\ session' \in [Threads -> Sessions \cup {None}]
      /\ pc'[Main] = "scan" /\ session'[Main] \in Sessions
      /\ task'[Main] = session'[Main]
      /\ \A u \in Threads : u # Main => /\ pc'[u] = pc[u] /\ task'[u] = task[u]
                                        /\ session'[u] = session[u]
                                        /\ unused'[u] = unused[u]
      /\ session_list_' = session_list_
  BY <1>0, <1>2, <1>3, CreateEffect
<1>5. EventInOnePlace'
  <2>1. \A u \in Threads, d \in AcceptEvents : WorksFor(u, d)' <=> WorksFor(u, d)
    BY <1>0, <1>1 DEF WorksFor
  <2>2. \A d \in AcceptEvents : Ahead(d)' <=> Ahead(d)
    BY <1>0, <1>1 DEF Ahead
  <2>3. UNCHANGED <<posted, given_up>> /\ EventInOnePlace
    BY <1>0 DEF IInv
  <2> QED BY <2>1, <2>2, <2>3, EventsKept
<1>6. CallInv'
  BY <1>0, <1>1, <1>4 DEF IInv, CallInv, SM!Adding
<1>7. BusyInv'
  BY <1>0, <1>1, <1>4 DEF IInv, BusyInv, Listed
<1>8. TypeOK'
  <2>1. to_connect' \in 0 .. MaxConnections
    BY <1>0
  <2> QED BY <1>0, <1>4, <2>1 DEF TypeOK, ControlPoints
<1> QED BY <1>4, <1>5, <1>6, <1>7, <1>8 DEF Rest

-----------------------------------------------------------------------------

\* A call of SessionManager runs on.
LEMMA RunOn ==
    ASSUME IInv, NEW t \in Threads, Manager!Run(t)
    PROVE  /\ pc[t] \in SM!Adding \cup SM!Removing
           /\ pc[t] \in SM!Adding => pc'[t] \in SM!Adding \cup {"idle"}
           /\ pc[t] \in SM!Removing => pc'[t] \in {"return", "idle"}
           /\ task'[t] = IF pc'[t] = "idle" THEN None ELSE task[t]
           /\ \A u \in Threads : u # t => pc'[u] = pc[u] /\ task'[u] = task[u]
           /\ \A s \in Sessions : s # task[t] => (Listed(s)' <=> Listed(s))
           /\ \A s \in Sessions : s = task[t] /\ pc'[t] = "idle" =>
                /\ pc[t] \in SM!Removing => ~Listed(s)'
                /\ pc[t] \in SM!Adding => Listed(s)' \/ unused'[t] = {}
           /\ \A u \in Threads : unused'[u] \subseteq unused[u]
<1>1. SM!Run(t)
  BY DEF Manager!Run, SM!Run, Manager!Add, SM!Add, Manager!Remove, SM!Remove,
     Manager!Step, SM!Step, Manager!GetSessionIdTake, SM!GetSessionIdTake,
     Manager!GetSessionIdNext, SM!GetSessionIdNext, Manager!GetSessionIdWrap,
     SM!GetSessionIdWrap, Manager!AddSessionFailed, SM!AddSessionFailed,
     Manager!AddSessionInsert, SM!AddSessionInsert, Manager!RemoveSessionErase,
     SM!RemoveSessionErase, Manager!ReturnSessionId, SM!ReturnSessionId
<1>2. \A s : Listed(s) <=> SM!InList(s)
  BY DEF Listed, SM!InList, Manager!Ids, SM!Ids
<1>3. \A s : Listed(s)' <=> SM!InList(s)'
  BY DEF Listed, SM!InList, Manager!Ids, SM!Ids
<1>4. SM!Inv /\ SM!ScanInv
  BY DEF IInv
<1> QED BY <1>1, <1>2, <1>3, <1>4, SM!RunEffect, ServerServiceAssumption

LEMMA RunSessions ==
    ASSUME IInv, NEW t \in Threads, at[t] \in {"create", "dial", "destroy"},
           Manager!Run(t), UNCHANGED <<session, accept_session_, started, leaked>>,
           \A e \in AcceptEvents : Waits(e)' <=> Waits(e)
    PROVE  SessionInv' /\ SessionInOnePlace'
<1> USE Types
<1>1. /\ pc[t] \in SM!Adding \cup SM!Removing
      /\ task'[t] = IF pc'[t] = "idle" THEN None ELSE task[t]
      /\ \A u \in Threads : u # t => pc'[u] = pc[u] /\ task'[u] = task[u]
      /\ \A s \in Sessions : s # task[t] => (Listed(s)' <=> Listed(s))
      /\ \A s \in Sessions : s = task[t] /\ pc'[t] = "idle" /\ pc[t] \in SM!Removing =>
             ~Listed(s)'
  BY RunOn
<1>2. \A u \in Threads : \A s \in Sessions : InHand(u, s)' => InHand(u, s)
  BY <1>1 DEF InHand
<1>3. \A u \in Threads : \A s \in Sessions : s # task[t] => (InHand(u, s)' <=> InHand(u, s))
  BY <1>1 DEF InHand
<1>4. \A s \in Sessions : s = task[t] => InHand(t, s)
  BY DEF InHand
<1>5. \A s \in Sessions : s = task[t] /\ Listed(s)' => InHand(t, s)'
  <2>1. CASE pc'[t] # "idle"
    BY <1>1, <2>1 DEF InHand
  <2>2. CASE pc'[t] = "idle" /\ pc[t] \in SM!Removing
    BY <1>1, <2>2
  <2>3. CASE pc[t] \in SM!Adding
    <3>1. at[t] \in {"create", "dial"} /\ pc[t] # "idle"
      BY <2>3 DEF IInv, CallInv, SM!Adding, SM!Removing
    <3>2. task[t] = session[t]
      BY <3>1 DEF IInv, CallInv
    <3> QED BY <3>2 DEF InHand
  <2> QED BY <1>1, <2>1, <2>2, <2>3
<1>6. /\ \A s \in started \cup leaked : s \in Sessions /\ s # task[t] /\ Listed(s)
      /\ \A s \in started \cup leaked, u \in Threads : ~InHand(u, s)
      /\ \A e \in AcceptEvents : Waits(e) =>
           /\ accept_session_[e] \in Sessions /\ accept_session_[e] # task[t]
           /\ Listed(accept_session_[e])
           /\ \A u \in Threads : ~InHand(u, accept_session_[e])
  BY <1>4 DEF IInv, SessionInv, SessionInOnePlace
<1>7. SessionInv'
  <2>1. \A e \in AcceptEvents : Waits(e)' => \A u \in Threads :
            ~InHand(u, accept_session_[e])'
    <3>1. \A e \in AcceptEvents, u \in Threads, x \in Sessions :
              Waits(e)' /\ x = accept_session_'[e] => ~InHand(u, x)'
      BY <1>2, <1>6
    <3> QED BY <1>6, <3>1 DEF InHand
  <2>2. \A u, v \in Threads, x \in Sessions : InHand(u, x)' /\ InHand(v, x)' => u = v
    <3>1. \A u, v \in Threads, x \in Sessions : InHand(u, x) /\ InHand(v, x) => u = v
      BY DEF IInv, SessionInv
    <3> QED BY <1>2, <3>1
  <2>3. \A x \in (started \cup leaked)' : Listed(x)' /\ \A u \in Threads : ~InHand(u, x)'
    BY <1>1, <1>2, <1>6
  <2> QED BY <2>1, <2>2, <2>3 DEF SessionInv
<1>8. SessionInOnePlace'
  <2>1. \A x \in Sessions : Listed(x) =>
            \/ x \in started \cup leaked
            \/ \E e \in AcceptEvents : Waits(e) /\ accept_session_[e] = x
            \/ \E u \in Threads : InHand(u, x)
    BY DEF IInv, SessionInOnePlace, InHand
  <2>2. \A x \in Sessions : Listed(x)' =>
            \/ x \in started' \cup leaked'
            \/ \E e \in AcceptEvents : Waits(e)' /\ accept_session_'[e] = x
            \/ \E u \in Threads : InHand(u, x)'
    <3> TAKE x \in Sessions
    <3>1. CASE x = task[t]
      BY <1>5, <3>1
    <3>2. CASE x # task[t]
      BY <1>1, <1>3, <2>1, <3>2
    <3> QED BY <3>1, <3>2
  <2>3. \A x \in Sessions : Listed(x)' =>
            \/ x \in started' \cup leaked'
            \/ \E e \in AcceptEvents : Waits(e)' /\ accept_session_'[e] = x
            \/ \E u \in Threads : session'[u] = x \/ task'[u] = x
    BY <2>2 DEF InHand
  <2>4. \A e \in AcceptEvents : Waits(e)' =>
          /\ accept_session_'[e] \in Sessions \ (started' \cup leaked')
          /\ Listed(accept_session_[e])'
          /\ \A d \in AcceptEvents :
               Waits(d)' /\ accept_session_'[d] = accept_session_'[e] => d = e
    <3>1. \A e \in AcceptEvents : Waits(e) => Listed(accept_session_'[e])
      BY <1>6
    <3>2. \A e \in AcceptEvents, x \in Sessions :
              Waits(e) /\ x = accept_session_'[e] => Listed(x)'
      BY <1>1, <1>6
    <3>3. \A e \in AcceptEvents : Waits(e) => Listed(accept_session_[e])'
      BY <1>6, <3>2 DEF Listed
    <3> QED BY <3>3 DEF IInv, SessionInOnePlace
  <2>5. \A x \in started' : Listed(x)' /\ x \notin leaked'
    BY <1>1, <1>6 DEF IInv, SessionInOnePlace
  <2> QED BY <2>3, <2>4, <2>5 DEF SessionInOnePlace
<1> QED BY <1>7, <1>8

LEMMA CreateSessionRest ==
    ASSUME IInv, Manager!TypeOK', NEW t \in Threads, CreateSession(t) PROVE Rest'
<1> USE Types
<1>0. /\ at[t] \in {"create", "dial"} /\ Manager!Run(t)
      /\ UNCHANGED <<at, accept_event, session, accept_session_, posted, closed, started,
                     to_connect, given_up, leaked>>
  BY DEF CreateSession, listener
<1>1. \A d \in AcceptEvents : Waits(d)' <=> Waits(d)
  BY <1>0 DEF Waits
<1>2. SessionInv' /\ SessionInOnePlace'
  BY <1>0, <1>1, RunSessions
<1>3. EventInOnePlace'
  BY <1>0 DEF IInv, EventInOnePlace, WorksFor, Ahead
<1>4. pc[t] \in SM!Adding /\ task[t] = session[t] /\ session[t] \in Sessions
  BY <1>0, RunOn DEF IInv, CallInv, SM!Adding, SM!Removing
<1>5. /\ pc'[t] \in SM!Adding \cup {"idle"}
      /\ task'[t] = IF pc'[t] = "idle" THEN None ELSE task[t]
      /\ \A u \in Threads : u # t => pc'[u] = pc[u] /\ task'[u] = task[u]
      /\ \A s \in Sessions : s # task[t] => (Listed(s)' <=> Listed(s))
      /\ pc'[t] = "idle" => \A s \in Sessions :
             s = task[t] => Listed(s)' \/ unused'[t] = {}
      /\ \A u \in Threads : unused'[u] \subseteq unused[u]
  BY <1>0, <1>4, RunOn
<1>6. CallInv'
  BY <1>0, <1>4, <1>5 DEF IInv, CallInv
<1>7. BusyInv'
  <2>1. ASSUME NEW u \in Threads, at[u] \in {"create", "dial"}, pc'[u] = "idle",
               ~Listed(session[u])'
        PROVE  unused'[u] = {}
    <3>1. session'[u] = session[u] /\ session[u] \in Sessions
      BY <1>0, <2>1 DEF IInv, CallInv
    <3>2. \A s \in Sessions : s = session'[u] => ~Listed(s)'
      BY <1>0, <2>1 DEF Listed
    <3>3. CASE u = t
      BY <1>4, <1>5, <2>1, <3>1, <3>2, <3>3
    <3>4. CASE u # t
      <4>1. session[u] # session[t]
        <5>1. InHand(u, session[u]) /\ InHand(t, session[t])
          BY DEF InHand
        <5> QED BY <1>4, <3>4, <5>1 DEF IInv, SessionInv
      <4>2. ~Listed(session[u]) /\ pc[u] = "idle"
        BY <1>4, <1>5, <2>1, <3>1, <3>2, <3>4, <4>1
      <4>3. unused[u] = {}
        BY <2>1, <4>2 DEF IInv, BusyInv
      <4> QED BY <1>5, <4>3
    <3> QED BY <3>3, <3>4
  <2>2. \A u \in Threads : at[u] = "null_session" => unused'[u] = {}
    BY <1>5 DEF IInv, BusyInv
  <2> QED BY <1>0, <2>1, <2>2 DEF BusyInv
<1>8. TypeOK'
  BY <1>0 DEF TypeOK, ControlPoints
<1> QED BY <1>2, <1>3, <1>6, <1>7, <1>8 DEF Rest

LEMMA DestroySessionRest ==
    ASSUME IInv, Manager!TypeOK', NEW t \in Threads, DestroySession(t) PROVE Rest'
<1> USE Types
<1>0. /\ at[t] = "destroy" /\ Manager!Run(t)
      /\ at' = [at EXCEPT ![t] = IF pc'[t] = "idle" THEN "idle" ELSE @]
      /\ UNCHANGED <<accept_event, session, accept_session_, posted, closed, started,
                     to_connect, given_up, leaked>>
  BY DEF DestroySession
<1>1. /\ at'[t] = IF pc'[t] = "idle" THEN "idle" ELSE "destroy"
      /\ \A u \in Threads : u # t => at'[u] = at[u]
  BY <1>0
<1>2. \A d \in AcceptEvents : Waits(d)' <=> Waits(d)
  BY <1>0, <1>1 DEF Waits
<1>3. SessionInv' /\ SessionInOnePlace'
  BY <1>0, <1>2, RunSessions
<1>4. EventInOnePlace'
  <2>1. \A u \in Threads, d \in AcceptEvents : WorksFor(u, d)' <=> WorksFor(u, d)
    BY <1>0, <1>1 DEF WorksFor
  <2>2. \A d \in AcceptEvents : Ahead(d)' <=> Ahead(d)
    BY <1>0, <1>1 DEF Ahead
  <2>3. UNCHANGED <<posted, given_up>> /\ EventInOnePlace
    BY <1>0 DEF IInv
  <2> QED BY <2>1, <2>2, <2>3, EventsKept
<1>5. pc[t] \in SM!Removing
  BY <1>0 DEF IInv, CallInv
<1>6. /\ pc'[t] \in {"return", "idle"}
      /\ \A u \in Threads : u # t => pc'[u] = pc[u] /\ task'[u] = task[u]
      /\ \A s \in Sessions : s # task[t] => (Listed(s)' <=> Listed(s))
      /\ \A u \in Threads : unused'[u] \subseteq unused[u]
  BY <1>0, <1>5, RunOn
<1>7. CallInv'
  BY <1>0, <1>1, <1>6 DEF IInv, CallInv, SM!Removing
<1>8. BusyInv'
  <2>1. ASSUME NEW u \in Threads, at'[u] \in {"create", "dial"}, pc'[u] = "idle",
               ~Listed(session[u])'
        PROVE  unused'[u] = {}
    <3>1. /\ u # t /\ at[u] = at'[u] /\ pc[u] = "idle"
          /\ session'[u] = session[u] /\ session[u] \in Sessions
      BY <1>0, <1>1, <1>6, <2>1 DEF IInv, CallInv
    <3>2. \A s \in Sessions : s = session'[u] => ~Listed(s)'
      BY <1>0, <2>1 DEF Listed
    <3>3. session[u] # task[t]
      <4>1. InHand(u, session[u]) /\ InHand(t, task[t])
        BY DEF InHand
      <4> QED BY <3>1, <4>1 DEF IInv, SessionInv
    <3>4. ~Listed(session[u])
      BY <1>6, <3>1, <3>2, <3>3
    <3>5. unused[u] = {}
      BY <2>1, <3>1, <3>4 DEF IInv, BusyInv
    <3> QED BY <1>6, <3>5
  <2>2. \A u \in Threads : at'[u] = "null_session" => unused'[u] = {}
    BY <1>1, <1>6 DEF IInv, BusyInv
  <2> QED BY <2>1, <2>2 DEF BusyInv
<1>9. TypeOK'
  BY <1>0 DEF TypeOK, ControlPoints
<1> QED BY <1>3, <1>4, <1>7, <1>8, <1>9 DEF Rest

\* A session with a client comes into the hand of the thread that destroys it.
LEMMA ProcessDisconnectRest ==
    ASSUME IInv, Manager!TypeOK', NEW w \in Workers, NEW s \in Sessions,
           ProcessDisconnect(w, s)
    PROVE  Rest'
<1> USE Types
<1>0. /\ w \in Threads /\ s \in started /\ at[w] = "idle"
      /\ at' = [at EXCEPT ![w] = "destroy"]
      /\ pc' = [pc EXCEPT ![w] = "erase"]
      /\ task' = [task EXCEPT ![w] = s]
      /\ started' = started \ {s}
      /\ UNCHANGED <<session_list_, unused, accept_event, session, accept_session_, posted,
                     closed, to_connect, given_up, leaked>>
  BY DEF ProcessDisconnect, Step
<1>1. /\ at'[w] = "destroy" /\ pc'[w] = "erase" /\ task'[w] = s
      /\ \A u \in Threads : u # w => at'[u] = at[u] /\ pc'[u] = pc[u] /\ task'[u] = task[u]
  BY <1>0
<1>2. \A d \in AcceptEvents : Waits(d)' <=> Waits(d)
  BY <1>0, <1>1 DEF Waits
<1>3. EventInOnePlace'
  <2>1. \A u \in Threads, d \in AcceptEvents : WorksFor(u, d)' <=> WorksFor(u, d)
    BY <1>0, <1>1 DEF WorksFor
  <2>2. \A d \in AcceptEvents : Ahead(d)' <=> Ahead(d)
    BY <1>0, <1>1 DEF Ahead
  <2>3. UNCHANGED <<posted, given_up>> /\ EventInOnePlace
    BY <1>0 DEF IInv
  <2> QED BY <2>1, <2>2, <2>3, EventsKept
<1>4. CallInv'
  BY <1>0, <1>1 DEF IInv, CallInv, SM!Removing
<1>5. session[w] = None /\ task[w] = None
  BY <1>0 DEF IInv, CallInv, SM!Inv, SM!TaskInv
<1>6. \A u \in Threads, x \in Sessions :
          InHand(u, x)' <=> InHand(u, x) \/ (u = w /\ x = s)
  BY <1>0, <1>1, <1>5 DEF InHand
<1>7. \A x : Listed(x)' <=> Listed(x)
  BY <1>0 DEF Listed
<1>8. /\ \A u \in Threads : ~InHand(u, s)
      /\ s \notin leaked
      /\ \A e \in AcceptEvents : Waits(e) =>
           /\ accept_session_[e] \in Sessions /\ accept_session_[e] # s
           /\ \A u \in Threads : ~InHand(u, accept_session_[e])
  BY <1>0 DEF IInv, SessionInv, SessionInOnePlace
<1>9. SessionInv'
  <2>1. \A e \in AcceptEvents : Waits(e)' => \A u \in Threads :
            ~InHand(u, accept_session_[e])'
    <3>1. \A e \in AcceptEvents, u \in Threads, x \in Sessions :
              Waits(e)' /\ x = accept_session_'[e] => ~InHand(u, x)'
      BY <1>0, <1>2, <1>6, <1>8
    <3> QED BY <1>0, <1>2, <1>8, <3>1 DEF InHand
  <2>2. ASSUME NEW u \in Threads, NEW v \in Threads, NEW x \in Sessions,
               InHand(u, x)', InHand(v, x)'
        PROVE  u = v
    <3>1. CASE x = s
      <4>1. ~InHand(u, x) /\ ~InHand(v, x)
        BY <1>8, <3>1
      <4> QED BY <1>6, <2>2, <4>1
    <3>2. CASE x # s
      <4>1. InHand(u, x) /\ InHand(v, x)
        BY <1>6, <2>2, <3>2
      <4> QED BY <4>1 DEF IInv, SessionInv
    <3> QED BY <3>1, <3>2
  <2>3. \A x \in (started \cup leaked)' : Listed(x)' /\ \A u \in Threads : ~InHand(u, x)'
    <3>1. \A x \in started \cup leaked : Listed(x) /\ \A u \in Threads : ~InHand(u, x)
      BY DEF IInv, SessionInv
    <3> QED BY <1>0, <1>6, <1>7, <1>8, <3>1
  <2> QED BY <2>1, <2>2, <2>3 DEF SessionInv
<1>10. SessionInOnePlace'
  <2>1. \A x \in Sessions : Listed(x) =>
            \/ x \in started \cup leaked
            \/ \E d \in AcceptEvents : Waits(d) /\ accept_session_[d] = x
            \/ \E u \in Threads : InHand(u, x)
    BY DEF IInv, SessionInOnePlace, InHand
  <2>2. \A x \in Sessions : Listed(x)' =>
            \/ x \in started' \cup leaked'
            \/ \E d \in AcceptEvents : Waits(d)' /\ accept_session_'[d] = x
            \/ \E u \in Threads : InHand(u, x)'
    BY <1>0, <1>2, <1>6, <1>7, <2>1
  <2>3. \A x \in Sessions : Listed(x)' =>
            \/ x \in started' \cup leaked'
            \/ \E d \in AcceptEvents : Waits(d)' /\ accept_session_'[d] = x
            \/ \E u \in Threads : session'[u] = x \/ task'[u] = x
    BY <2>2 DEF InHand
  <2>4. \A e \in AcceptEvents : Waits(e)' =>
          /\ accept_session_'[e] \in Sessions \ (started' \cup leaked')
          /\ Listed(accept_session_[e])'
          /\ \A d \in AcceptEvents :
               Waits(d)' /\ accept_session_'[d] = accept_session_'[e] => d = e
    BY <1>0, <1>2 DEF IInv, SessionInOnePlace, Listed
  <2>5. \A x \in started' : Listed(x)' /\ x \notin leaked'
    BY <1>0, <1>7 DEF IInv, SessionInOnePlace
  <2> QED BY <2>3, <2>4, <2>5 DEF SessionInOnePlace
<1>11. BusyInv'
  BY <1>0, <1>1, <1>7 DEF IInv, BusyInv
<1>12. TypeOK'
  BY <1>0 DEF TypeOK, ControlPoints
<1> QED BY <1>3, <1>4, <1>9, <1>10, <1>11, <1>12 DEF Rest

LEMMA StutterRest ==
    ASSUME IInv, Manager!TypeOK', UNCHANGED vars PROVE Rest'
<1> USE DEF vars, listener, manager
<1>1. EventInOnePlace'
  BY DEF IInv, EventInOnePlace, WorksFor, Ahead
<1>2. CallInv'
  BY DEF IInv, CallInv
<1>3. SessionInv' /\ SessionInOnePlace'
  BY DEF IInv, SessionInv, SessionInOnePlace, InHand, Waits, Listed
<1>4. BusyInv'
  BY DEF IInv, BusyInv, Listed
<1>5. TypeOK'
  BY DEF IInv, TypeOK
<1> QED BY <1>1, <1>2, <1>3, <1>4, <1>5 DEF Rest

-----------------------------------------------------------------------------
(***************************************************************************)
(* The theorems.                                                           *)
(***************************************************************************)

LEMMA InitIInv == Init => IInv
<1> SUFFICES ASSUME Init PROVE IInv
  OBVIOUS
<1> USE ServerServiceAssumption DEF Init
<1>1. SM!Init
  BY DEF Manager!Init, SM!Init, Manager!Ids, SM!Ids
<1>2. SM!Inv /\ SM!ScanInv
  BY <1>1, SM!InitInv, SM!ScanInit
<1>3. \A t \in Threads : pc[t] = "idle" /\ task[t] = None
  BY DEF Manager!Init
<1>4. \A s \in Sessions : ~Listed(s)
  BY DEF Manager!Init, Listed
<1>5. \A e \in AcceptEvents : ~Waits(e)
  BY DEF Waits
<1>6. EventInOnePlace
  BY DEF EventInOnePlace, WorksFor, Ahead, Threads
<1>7. CallInv
  BY <1>3 DEF CallInv, Threads
<1>8. SessionInv
  BY <1>3, <1>5 DEF SessionInv, InHand
<1>9. SessionInOnePlace
  BY <1>4, <1>5 DEF SessionInOnePlace
<1>10. BusyInv
  BY DEF BusyInv
<1>11. TypeOK
  <2>1. Manager!TypeOK
    BY <1>2 DEF SM!Inv, Manager!TypeOK, SM!TypeOK, Manager!Ids, SM!Ids,
                Manager!ControlPoints, SM!ControlPoints
  <2>2. 1 \in AcceptEvents
    BY DEF AcceptEvents
  <2>3. to_connect \in 0 .. MaxConnections
    OBVIOUS
  <2>4. at \in [Threads -> ControlPoints]
    BY DEF ControlPoints
  <2>5. accept_event \in [Threads -> AcceptEvents]
    BY <2>2
  <2>6. /\ session \in [Threads -> Sessions \cup {None}]
        /\ accept_session_ \in [AcceptEvents -> Sessions \cup {None}]
    OBVIOUS
  <2> QED BY <2>1, <2>3, <2>4, <2>5, <2>6 DEF TypeOK
<1> QED BY <1>2, <1>6, <1>7, <1>8, <1>9, <1>10, <1>11 DEF IInv

LEMMA NextIInv == IInv /\ [Next]_vars => IInv'
<1> SUFFICES ASSUME IInv, [Next]_vars PROVE IInv'
  OBVIOUS
<1>1. SM!Inv' /\ SM!ScanInv' /\ Manager!TypeOK'
  BY ManagerInv
<1>2. Rest'
  <2>1. CASE Start \/ Connect \/ ConnectNull \/ Connected
    BY <1>1, <2>1, StartRest, ConnectRest, ConnectNullRest, ConnectedRest
  <2>2. ASSUME NEW t \in Threads, Run(t) PROVE Rest'
    BY <1>1, <2>2, RegisterAcceptRest, CreateSessionRest, RegisterAcceptFailsRest,
       AcceptExRest, ProcessAcceptRest, DestroySessionRest DEF Run
  <2>3. ASSUME NEW w \in Workers, NEW e \in AcceptEvents, Dispatch(w, e) PROVE Rest'
    BY <1>1, <2>3, DispatchRest
  <2>4. ASSUME NEW w \in Workers, NEW s \in Sessions, ProcessDisconnect(w, s) PROVE Rest'
    BY <1>1, <2>4, ProcessDisconnectRest
  <2>5. CASE UNCHANGED vars
    BY <1>1, <2>5, StutterRest
  <2> QED BY <2>1, <2>2, <2>3, <2>4, <2>5 DEF Next
<1> QED BY <1>1, <1>2 DEF IInv, Rest

THEOREM Invariance == Spec => []IInv
BY InitIInv, NextIInv, PTL DEF Spec

\* Every variable keeps its type, those of the manager included.
THEOREM TypeCorrect == Spec => []TypeOK
<1>1. IInv => TypeOK
  BY DEF IInv
<1> QED BY <1>1, Invariance, PTL

\* StartAccept and the workers neither lose an accept event nor register it
\* twice, however many there are of both.
THEOREM EventsInOnePlace == Spec => []EventInOnePlace
<1>1. IInv => EventInOnePlace
  BY DEF IInv
<1> QED BY <1>1, Invariance, PTL

\* No session is handed to two clients, or waits for one without being listed.
THEOREM SessionsInOnePlace == Spec => []SessionInOnePlace
<1>1. IInv => SessionInOnePlace
  BY DEF IInv
<1> QED BY <1>1, Invariance, PTL

\* Connect uses a null pointer only if every id was taken during its call.
THEOREM NullSessionsAreBusy == Spec => []NullSessionOnlyWhenBusy
<1>1. IInv => NullSessionOnlyWhenBusy
  BY ServerServiceAssumption DEF IInv, BusyInv, NullSessionOnlyWhenBusy, Threads
<1> QED BY <1>1, Invariance, PTL

\* The service calls SessionManager as module SessionManager expects it:
\* DestroySession once, for a listed session, and never during another call.
THEOREM UsesManager == Spec => ImplementsManager
<1>1. Init => Manager!Init
  BY DEF Init
<1>2. IInv /\ [Next]_vars => [Manager!Next]_Manager!vars
  BY ManagerStep DEF Manager!vars, manager
<1> QED BY <1>1, <1>2, Invariance, PTL DEF Spec, Manager!Spec, ImplementsManager

=============================================================================
