---------------------------- MODULE ServerService ----------------------------
(***************************************************************************)
(* ServerService with its Listener (Listener.cpp), a Connector and         *)
(* SessionManager: the accept events, the sessions that wait in them, and  *)
(* the ids the sessions take.  The main thread registers the accept events *)
(* while the workers it has started before already handle the first        *)
(* connections; then it may connect sessions of its own.                   *)
(*                                                                         *)
(* Calls of SessionManager are its own actions.  A session that has been   *)
(* started is left to module Session: it is destroyed once, on a worker.   *)
(***************************************************************************)
EXTENDS Integers, FiniteSets

CONSTANTS
    Workers, Main,          \* threads
    Sessions, None,
    max_session_count_,
    max_traverse_count,     \* 5 in GetSessionId
    accept_count,           \* 8 in Listener::Start
    AcceptOutcomes,         \* what AcceptEx may answer
    MaxConnections          \* bound: the count of Connector::Connect

Threads == Workers \cup {Main}
AcceptEvents == 1 .. accept_count

ASSUME ServerServiceAssumption ==
    /\ Main \notin Workers
    /\ None \notin Sessions
    /\ max_session_count_ \in Nat \ {0}
    /\ max_traverse_count \in Nat \ {0}
    /\ accept_count \in Nat \ {0}
    /\ AcceptOutcomes \subseteq {"pending", "error", "reset"}
    /\ MaxConnections \in Nat

VARIABLES
    id_map_, session_list_, session_id_, pc, task, index, traverse_count,
    removed_id, unused,     \* those of SessionManager
    at,                     \* control point of each thread in the listener
    accept_event,           \* the event a thread works for
    session,                \* its local variable session
    accept_session_,        \* IocpEventAccept::accept_session_
    posted,                 \* events with an AcceptEx outstanding
    closed,                 \* Listener::Close has deleted the events
    started,                \* sessions that are connected
    to_connect,             \* connections that Connect has still to make
    given_up,               \* history: events that no session could be made for
    leaked                  \* history: sessions of accepts and connects that failed

manager == <<id_map_, session_list_, session_id_, pc, task, index, traverse_count,
             removed_id, unused>>
listener == <<at, accept_event, session, accept_session_, posted, closed, started,
              to_connect, given_up, leaked>>
vars == <<manager, listener>>

Manager == INSTANCE SessionManager

Listed(s) == \E i \in Manager!Ids : session_list_[i] = s

-----------------------------------------------------------------------------

Init ==
    /\ Manager!Init
    /\ at = [t \in Threads |-> IF t = Main THEN "start" ELSE "idle"]
    /\ accept_event = [t \in Threads |-> 1]
    /\ session = [t \in Threads |-> None]
    /\ accept_session_ = [e \in AcceptEvents |-> None]
    /\ posted = {} /\ closed = FALSE
    /\ started = {} /\ given_up = {} /\ leaked = {}
    /\ to_connect = MaxConnections

Step(t, from, to) ==
    /\ at[t] = from
    /\ at' = [at EXCEPT ![t] = to]

\* Mutant: StartAccept goes on after the last event.
ReturnLate(t) ==
    /\ at' = [at EXCEPT ![t] = IF t = Main THEN "register" ELSE "idle"]
    /\ accept_event' = [accept_event EXCEPT ![t] = IF t = Main THEN @ + 1 ELSE 1]
    /\ session' = [session EXCEPT ![t] = None]

\* The end of RegisterAccept: the main thread goes on with the next event of
\* StartAccept's loop, a worker leaves Dispatch.
Return(t) ==
    LET more == t = Main /\ accept_event[t] < accept_count IN
    /\ at' = [at EXCEPT ![t] = IF more THEN "register" ELSE "idle"]
    /\ accept_event' = [accept_event EXCEPT ![t] = IF more THEN @ + 1 ELSE 1]
    /\ session' = [session EXCEPT ![t] = None]

\* Listener::Start makes the events and StartAccept enters its loop, unless
\* the listen socket or one of its options is not to be had.
Start ==
    /\ Step(Main, "start", "register") \/ Step(Main, "start", "deaf")
    /\ UNCHANGED <<manager, accept_event, session, accept_session_, posted, closed,
                   started, to_connect, given_up, leaked>>

\* What the factory can make: a session object that is not in the list and
\* that no thread has in hand.  An event may still refer to a session that is
\* gone, but overwrites accept_session_ before it is read again.
Fresh == {s \in Sessions : ~Listed(s) /\ \A t \in Threads : s \notin {session[t], task[t]}}

\* Service::CreateSession is called.  Which of the fresh sessions it is makes
\* no difference.
CallCreateSession(t) ==
    LET s == CHOOSE s \in Fresh : TRUE IN
    /\ Fresh # {}
    /\ Manager!CreateSession(t, s)
    /\ session' = [session EXCEPT ![t] = s]

RegisterAccept(t) ==
    /\ ~closed
    /\ Step(t, "register", "create")
    /\ CallCreateSession(t)
    /\ UNCHANGED <<accept_event, accept_session_, posted, closed, started, to_connect,
                   given_up, leaked>>

CreateSession(t) ==
    /\ at[t] \in {"create", "dial"} /\ Manager!Run(t)
    /\ UNCHANGED listener

\* Mutant: another try until a session can be made.
RegisterAcceptRetries(t) ==
    /\ pc[t] = "idle" /\ ~Listed(session[t])
    /\ Step(t, "create", "register")
    /\ session' = [session EXCEPT ![t] = None]
    /\ UNCHANGED <<manager, accept_event, accept_session_, posted, closed, started,
                   to_connect, given_up, leaked>>

\* CreateSession has returned nullptr: the event is not used again.
RegisterAcceptFails(t) ==
    /\ at[t] = "create" /\ pc[t] = "idle" /\ ~Listed(session[t])
    /\ Return(t)
    /\ given_up' = given_up \cup {accept_event[t]}
    /\ UNCHANGED <<manager, accept_session_, posted, closed, started, to_connect,
                   leaked>>

\* Mutants: accept_session_ is not set; an error ends RegisterAccept.
AcceptExKeepsSession(t) ==
    /\ at[t] = "create" /\ pc[t] = "idle" /\ Listed(session[t])
    /\ Return(t)
    /\ posted' = posted \cup {accept_event[t]}
    /\ UNCHANGED <<manager, accept_session_, closed, started, to_connect, given_up,
                   leaked>>

AcceptExForgets(t) ==
    /\ at[t] = "create" /\ pc[t] = "idle" /\ Listed(session[t])
    /\ Return(t)
    /\ accept_session_' = [accept_session_ EXCEPT ![accept_event[t]] = session[t]]
    /\ leaked' = leaked \cup {session[t]}
    /\ UNCHANGED <<manager, posted, closed, started, to_connect, given_up>>

\* The session waits in the event and AcceptEx is called; a call that
\* succeeds at once queues its packet like one that is pending.  After an
\* error SocketIOErrorHandler prints it, or calls Listener::Close when the
\* connection was reset or aborted, and RegisterAccept starts over with a new
\* session.
AcceptEx(t) ==
    /\ at[t] = "create" /\ pc[t] = "idle" /\ Listed(session[t])
    /\ accept_session_' = [accept_session_ EXCEPT ![accept_event[t]] = session[t]]
    /\ \/ /\ "pending" \in AcceptOutcomes
          /\ posted' = posted \cup {accept_event[t]}
          /\ Return(t)
          /\ UNCHANGED <<closed, leaked>>
       \/ /\ AcceptOutcomes \cap {"error", "reset"} # {}
          /\ \/ "error" \in AcceptOutcomes /\ UNCHANGED closed
             \/ "reset" \in AcceptOutcomes /\ closed' = TRUE
          /\ Step(t, "create", "register")
          /\ leaked' = leaked \cup {session[t]}
          /\ session' = [session EXCEPT ![t] = None]
          /\ UNCHANGED <<posted, accept_event>>
    /\ UNCHANGED <<manager, started, to_connect, given_up>>

-----------------------------------------------------------------------------

\* A worker takes the packet of an AcceptEx.
Dispatch(w, e) ==
    /\ w \in Workers /\ e \in posted
    /\ Step(w, "idle", "process")
    /\ posted' = posted \ {e}
    /\ accept_event' = [accept_event EXCEPT ![w] = e]
    /\ UNCHANGED <<manager, session, accept_session_, closed, started, to_connect,
                   given_up, leaked>>

\* ProcessAccept: the session is started, or given up without a call of
\* DestroySession when its context or its address cannot be had.
ProcessAccept(w) ==
    LET s == accept_session_[accept_event[w]] IN
    /\ ~closed
    /\ Step(w, "process", "register")
    /\ \/ started' = started \cup {s} /\ UNCHANGED leaked
       \/ leaked' = leaked \cup {s} /\ UNCHANGED started
    /\ UNCHANGED <<manager, accept_event, session, accept_session_, posted, closed,
                   to_connect, given_up>>

\* Mutant: a session can be disconnected again.
ProcessDisconnectTwice(w, s) ==
    /\ w \in Workers /\ s \in started
    /\ Step(w, "idle", "destroy")
    /\ pc' = [pc EXCEPT ![w] = "erase"]
    /\ task' = [task EXCEPT ![w] = s]
    /\ removed_id' = [removed_id EXCEPT ![w] = session_id_[s]]
    /\ UNCHANGED <<id_map_, session_list_, session_id_, index, traverse_count, unused,
                   accept_event, session, accept_session_, posted, closed, started,
                   to_connect, given_up, leaked>>

\* ProcessDisconnect of a session: Service::DestroySession.
ProcessDisconnect(w, s) ==
    /\ w \in Workers /\ s \in started
    /\ Step(w, "idle", "destroy")
    /\ pc' = [pc EXCEPT ![w] = "erase"]
    /\ task' = [task EXCEPT ![w] = s]
    /\ removed_id' = [removed_id EXCEPT ![w] = session_id_[s]]
    /\ started' = started \ {s}
    /\ UNCHANGED <<id_map_, session_list_, session_id_, index, traverse_count, unused,
                   accept_event, session, accept_session_, posted, closed, to_connect, given_up,
                   leaked>>

DestroySession(w) ==
    /\ at[w] = "destroy" /\ Manager!Run(w)
    /\ at' = [at EXCEPT ![w] = IF pc'[w] = "idle" THEN "idle" ELSE @]
    /\ UNCHANGED <<accept_event, session, accept_session_, posted, closed, started,
                   to_connect, given_up, leaked>>

-----------------------------------------------------------------------------

\* Connector::Connect on the main thread: a session for the next connection.
Connect ==
    /\ to_connect > 0
    /\ Step(Main, "idle", "dial")
    /\ CallCreateSession(Main)
    /\ to_connect' = to_connect - 1
    /\ UNCHANGED <<accept_event, accept_session_, posted, closed, started, given_up,
                   leaked>>

\* A session that could not be made is reported and then used like any other:
\* its socket is asked for through a null pointer.
ConnectNull ==
    /\ pc[Main] = "idle" /\ ~Listed(session[Main])
    /\ Step(Main, "dial", "null_session")
    /\ UNCHANGED <<manager, accept_event, session, accept_session_, posted, closed,
                   started, to_connect, given_up, leaked>>

\* connect succeeds and the session is connected, or fails, and Connect leaves
\* the session and the connections that were still to come.
Connected ==
    /\ pc[Main] = "idle" /\ Listed(session[Main])
    /\ Step(Main, "dial", "idle")
    /\ session' = [session EXCEPT ![Main] = None]
    /\ \/ started' = started \cup {session[Main]} /\ UNCHANGED <<to_connect,
                                                                 leaked>>
       \/ /\ leaked' = leaked \cup {session[Main]} /\ to_connect' = 0
          /\ UNCHANGED started
    /\ UNCHANGED <<manager, accept_event, accept_session_, posted, closed,
                   given_up>>

Run(t) == \/ RegisterAccept(t) \/ CreateSession(t) \/ RegisterAcceptFails(t)
          \/ AcceptEx(t) \/ ProcessAccept(t) \/ DestroySession(t)

Next == \/ Start \/ Connect \/ ConnectNull \/ Connected
        \/ \E t \in Threads : Run(t)
        \/ \E w \in Workers : \/ \E e \in AcceptEvents : Dispatch(w, e)
                              \/ \E s \in Sessions : ProcessDisconnect(w, s)

Spec == Init /\ [][Next]_vars

\* A thread inside a call runs on; nobody has to connect or disconnect.
FairSpec == Spec /\ WF_vars(Start) /\ \A t \in Threads : WF_vars(Run(t))

-----------------------------------------------------------------------------
(***************************************************************************)
(* Properties.                                                             *)
(***************************************************************************)

ControlPoints ==
    {"start", "deaf", "register", "create", "idle", "process", "destroy",
     "dial", "null_session"}

\* Every variable has its type, those of SessionManager included.
TypeOK ==
    /\ Manager!TypeOK
    /\ at \in [Threads -> ControlPoints]
    /\ accept_event \in [Threads -> AcceptEvents]
    /\ session \in [Threads -> Sessions \cup {None}]
    /\ accept_session_ \in [AcceptEvents -> Sessions \cup {None}]
    /\ posted \subseteq AcceptEvents
    /\ closed \in BOOLEAN
    /\ started \subseteq Sessions
    /\ to_connect \in 0 .. MaxConnections
    /\ given_up \subseteq AcceptEvents
    /\ leaked \subseteq Sessions

\* Thread t works for the accept event e.
WorksFor(t, e) == at[t] \in {"register", "create", "process"} /\ accept_event[t] = e

\* StartAccept has not come to the event e.
Ahead(e) ==
    \/ at[Main] \in {"start", "deaf"}
    \/ at[Main] \in {"register", "create"} /\ e > accept_event[Main]

\* Every accept event is in one place: ahead in StartAccept's loop, with one
\* thread, with an AcceptEx outstanding, or given up for want of a session.
EventInOnePlace ==
    \A e \in AcceptEvents :
        /\ Ahead(e) \/ e \in posted \/ e \in given_up \/ \E t \in Threads : WorksFor(t, e)
        /\ Ahead(e) => /\ e \notin posted \cup given_up
                       /\ \A t \in Threads : ~WorksFor(t, e)
        /\ e \in posted => e \notin given_up
        /\ \A t \in Threads : WorksFor(t, e) =>
             /\ e \notin posted \cup given_up
             /\ \A u \in Threads : WorksFor(u, e) => u = t

\* A session waits in the event e for its client, or is about to be handed to
\* it in ProcessAccept.
Waits(e) == e \in posted \/ \E t \in Threads : at[t] = "process" /\ accept_event[t] = e

\* A listed session waits for one connection, serves one, is being made or
\* destroyed, or belongs to an accept that failed: it is never handed out
\* twice, nor is one that waits or serves missing from the list.
SessionInOnePlace ==
    /\ \A e \in AcceptEvents : Waits(e) =>
         /\ accept_session_[e] \in Sessions \ (started \cup leaked)
         /\ Listed(accept_session_[e])
         /\ \A d \in AcceptEvents :
              Waits(d) /\ accept_session_[d] = accept_session_[e] => d = e
    /\ \A s \in started : Listed(s) /\ s \notin leaked
    /\ \A s \in Sessions : Listed(s) =>
         \/ s \in started \cup leaked
         \/ \E e \in AcceptEvents : Waits(e) /\ accept_session_[e] = s
         \/ \E t \in Threads : session[t] = s \/ task[t] = s

\* Connector::Connect goes on with a null pointer only if each id of the
\* service was in use at some time since it asked for a session.
NullSessionOnlyWhenBusy == at[Main] = "null_session" => unused[Main] = {}

\* ASSERT_CRASH in Listener::Dispatch: the event of a packet is an accept
\* event that this listener owns, hence not one that Close has deleted.
DispatchedEventIsOurs ==
    [][\A w \in Workers, e \in AcceptEvents : Dispatch(w, e) => ~closed]_vars

\* The listener and the sessions call SessionManager as module SessionManager
\* expects it: DestroySession once for a session in the list.
ImplementsManager == Manager!Spec

\* An accept event a thread works for is registered again or given up.
EventComesBack ==
    \A e \in AcceptEvents :
        (\E t \in Threads : WorksFor(t, e)) ~> (e \in posted \cup given_up)

=============================================================================
