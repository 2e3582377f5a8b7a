------------------------------- MODULE Session -------------------------------
(***************************************************************************)
(* One Session (Session.cpp): the threads that run its member functions,  *)
(* the three overlapped operations it can have outstanding, and the       *)
(* shared_ptr references that keep it alive.                              *)
(*                                                                        *)
(* A handler is cut into one action per access to state that another      *)
(* thread can see; pc[t] names the next access of thread t.  A critical   *)
(* section on lock_send_queue_ is one action: every access to send_queue_ *)
(* is inside one, and none of them blocks.                                *)
(***************************************************************************)
EXTENDS Naturals, SequencesExt

CONSTANTS
    Workers,            \* threads that run IocpManager::WorkerThreadFunction
    Apps,               \* application threads that call Send and Disconnect
    MaxSends,           \* bound: buffers the application sends in a behaviour
    MaxPackets,         \* bound: overlapped operations of one kind, see Room
    \* A call that succeeds at once queues no completion packet, as if the
    \* handle had FILE_SKIP_COMPLETION_PORT_ON_SUCCESS.  The code never sets
    \* that mode, yet its inline ProcessRecv/ProcessSend need it.
    SkipPacketOnSuccess,
    RecvOutcomes,       \* what WSARecv, WSASend and DisconnectEx may answer
    SendOutcomes,
    DisconnectOutcomes

Threads == Workers \cup Apps
Events == {"recv", "send", "disconnect"}
Outcomes == {"pending", "done", "error"}

ASSUME SessionAssumption ==
    /\ Workers \cap Apps = {}
    /\ MaxSends \in Nat
    /\ MaxPackets \in Nat
    /\ SkipPacketOnSuccess \in BOOLEAN
    /\ RecvOutcomes \subseteq Outcomes
    /\ SendOutcomes \subseteq Outcomes
    /\ DisconnectOutcomes \subseteq Outcomes

VARIABLES
    fresh,              \* neither Start nor ProcessConnect has run
    is_connected_,
    is_register_send_,
    send_queue_,
    send_buffer_list_,  \* iocp_event_send_.send_buffer_list_
    owner,              \* which IocpEvent::owner_ holds a reference
    listed,             \* the reference in SessionManager::session_list_
    held,               \* threads with a local SessionRef
    posted,             \* operations the system has accepted and not completed
    queued,             \* packets of operations that had succeeded at once
    pc,
    in_on_recv,         \* threads inside OnRecv, which returns to ProcessRecv
    num_of_bytes,       \* argument of the handler: 0, or 1 for "some"
    accepted,           \* history: buffers pushed by Send, numbered from 1
    submitted,          \* history: buffers taken by WSASend, in stream order
    lost                \* history: buffers dropped when WSASend failed

send_vars == <<is_register_send_, send_queue_, send_buffer_list_, accepted,
               submitted, lost>>
ref_vars == <<owner, listed, held>>
io_vars == <<posted, queued, num_of_bytes>>
vars == <<fresh, is_connected_, send_vars, ref_vars, io_vars, pc, in_on_recv>>

-----------------------------------------------------------------------------
(***************************************************************************)
(* Control points.                                                         *)
(***************************************************************************)

RecvPC == {"start", "rr_check", "rr_own", "rr_post",
           "pr_reset", "pr_data", "on_recv", "pr_rest"}
SendPC == {"rs_own", "rs_drain", "rs_post", "ps_reset", "ps_bytes", "ps_check"}
CallPC == {"send_check", "send_push", "io_error", "dc_exchange"}
DisconnectPC == {"rd_own", "rd_post", "pd_reset", "pd_remove"}
ControlPoints == {"idle"} \cup RecvPC \cup SendPC \cup CallPC \cup DisconnectPC

Step(t, from, to) ==
    /\ pc[t] = from
    /\ pc' = [pc EXCEPT ![t] = to]

\* The end of a call chain: back into ProcessRecv if OnRecv made the call,
\* otherwise out of the member functions of the session.
Caller(t) == IF in_on_recv[t] THEN "pr_rest" ELSE "idle"

\* Some shared_ptr refers to the session.  When the last one goes the
\* destructor runs, and a later access to the object is undefined: every
\* action below except Dispatch's hand-over is guarded by Referenced.
Referenced == \/ listed
              \/ \E e \in Events : owner[e]
              \/ \E t \in Threads : held[t]

\* ~Session runs as the last reference goes, with these values of the flags.
Destroyed == ~Referenced

Room(e) == posted[e] + queued[e] < MaxPackets

-----------------------------------------------------------------------------
(***************************************************************************)
(* Creation, and the calls that threads outside the session make.          *)
(***************************************************************************)

\* Service::CreateSession has listed the session; accept_session_ and the
\* local variable of ProcessAccept (or of Connector::Connect) refer to it.
Init ==
    /\ fresh = TRUE
    /\ is_connected_ = FALSE
    /\ is_register_send_ = FALSE
    /\ send_queue_ = <<>>
    /\ send_buffer_list_ = <<>>
    /\ owner = [e \in Events |-> FALSE]
    /\ listed = TRUE
    /\ held = [t \in Threads |-> FALSE]
    /\ posted = [e \in Events |-> 0]
    /\ queued = [e \in Events |-> 0]
    /\ pc = [t \in Threads |-> "idle"]
    /\ in_on_recv = [t \in Threads |-> FALSE]
    /\ num_of_bytes = [t \in Threads |-> 0]
    /\ accepted = 0
    /\ submitted = <<>>
    /\ lost = <<>>

\* ProcessAccept on a worker takes a SessionRef and calls Session::Start.
AcceptSession(w) ==
    /\ w \in Workers /\ fresh /\ ~held[w]
    /\ Step(w, "idle", "start")
    /\ fresh' = FALSE
    /\ held' = [held EXCEPT ![w] = TRUE]
    /\ UNCHANGED <<is_connected_, send_vars, owner, listed, io_vars, in_on_recv>>

\* Connector::Connect on an application thread: ProcessConnect marks the
\* session connected and, unlike Start, posts no receive.
ProcessConnect(a) ==
    /\ a \in Apps /\ fresh /\ pc[a] = "idle"
    /\ fresh' = FALSE
    /\ is_connected_' = TRUE
    /\ held' = [held EXCEPT ![a] = TRUE]
    /\ UNCHANGED <<send_vars, owner, listed, io_vars, pc, in_on_recv>>

\* SessionManager::FindSession: a SessionRef for whoever knows the id.
FindSession(a) ==
    /\ a \in Apps /\ pc[a] = "idle" /\ ~held[a] /\ listed
    /\ held' = [held EXCEPT ![a] = TRUE]
    /\ UNCHANGED <<fresh, is_connected_, send_vars, owner, listed, io_vars, pc,
                   in_on_recv>>

CallSend(a) ==
    /\ a \in Apps /\ held[a] /\ accepted < MaxSends
    /\ Step(a, "idle", "send_check")
    /\ UNCHANGED <<fresh, is_connected_, send_vars, ref_vars, io_vars, in_on_recv>>

CallDisconnect(a) ==
    /\ a \in Apps /\ held[a]
    /\ Step(a, "idle", "dc_exchange")
    /\ UNCHANGED <<fresh, is_connected_, send_vars, ref_vars, io_vars, in_on_recv>>

\* A local SessionRef goes out of scope: an application's, the one of
\* ProcessAccept, or the temporary of ProcessDisconnect.
DropRef(t) ==
    /\ pc[t] = "idle" /\ held[t]
    /\ held' = [held EXCEPT ![t] = FALSE]
    /\ UNCHANGED <<fresh, is_connected_, send_vars, owner, listed, io_vars, pc,
                   in_on_recv>>

Handler(e) == CASE e = "recv" -> "pr_reset"
                [] e = "send" -> "ps_reset"
                [] e = "disconnect" -> "pd_reset"

\* Mutant: the handler of an event runs though nothing is outstanding.
DispatchSpurious(w, e) ==
    /\ w \in Workers /\ ~held[w]
    /\ Step(w, "idle", Handler(e))
    /\ posted' = [posted EXCEPT ![e] = @ - 1]
    /\ \E n \in {0, 1} : num_of_bytes' = [num_of_bytes EXCEPT ![w] = n]
    /\ UNCHANGED <<fresh, is_connected_, send_vars, ref_vars, queued, in_on_recv>>

\* GetQueuedCompletionStatus returns a packet of event e and the worker calls
\* Session::Dispatch: the operation completes now, or its packet had been
\* queued when the call succeeded at once.
Dispatch(w, e) ==
    /\ w \in Workers /\ ~held[w]
    /\ Step(w, "idle", Handler(e))
    /\ \/ /\ posted[e] > 0
          /\ posted' = [posted EXCEPT ![e] = @ - 1]
          /\ UNCHANGED queued
       \/ /\ queued[e] > 0
          /\ queued' = [queued EXCEPT ![e] = @ - 1]
          /\ UNCHANGED posted
    /\ \E n \in {0, 1} : num_of_bytes' = [num_of_bytes EXCEPT ![w] = n]
    /\ UNCHANGED <<fresh, is_connected_, send_vars, ref_vars, in_on_recv>>

-----------------------------------------------------------------------------
(***************************************************************************)
(* Overlapped calls.  owner_ was set before the call; an immediate error   *)
(* resets it, an immediate success runs the handler inline.                *)
(***************************************************************************)

\* The call is accepted and completes later.
Pending(t, e) ==
    /\ Room(e)
    /\ Step(t, pc[t], Caller(t))
    /\ posted' = [posted EXCEPT ![e] = @ + 1]
    /\ UNCHANGED <<queued, num_of_bytes>>

\* The call succeeds at once.  Unless the packet is skipped, one is queued
\* as well.
Done(t, e, next) ==
    /\ Room(e)
    /\ Step(t, pc[t], next)
    /\ queued' = IF SkipPacketOnSuccess THEN queued
                 ELSE [queued EXCEPT ![e] = @ + 1]
    /\ \E n \in {0, 1} : num_of_bytes' = [num_of_bytes EXCEPT ![t] = n]
    /\ UNCHANGED posted

SetOwner(e) == owner' = [owner EXCEPT ![e] = TRUE]
ResetOwner(e) == owner' = [owner EXCEPT ![e] = FALSE]

\* IocpObject::SocketIOErrorHandler: a reset or aborted connection is closed,
\* any other error code is only printed.
SocketIOErrorHandler(t) ==
    /\ Referenced
    /\ \/ Step(t, "io_error", "dc_exchange")
       \/ Step(t, "io_error", Caller(t))
    /\ UNCHANGED <<fresh, is_connected_, send_vars, ref_vars, io_vars, in_on_recv>>

-----------------------------------------------------------------------------
(***************************************************************************)
(* Recv.                                                                   *)
(***************************************************************************)

\* Session::Start, the socket being valid: the handle joins the completion
\* port, is_connected_ is stored, RegisterRecv is called.
Start(t) ==
    /\ Referenced
    /\ Step(t, "start", "rr_check")
    /\ is_connected_' = TRUE
    /\ UNCHANGED <<fresh, send_vars, ref_vars, io_vars, in_on_recv>>

RegisterRecvCheck(t) ==
    /\ Referenced
    /\ Step(t, "rr_check", IF is_connected_ THEN "rr_own" ELSE Caller(t))
    /\ UNCHANGED <<fresh, is_connected_, send_vars, ref_vars, io_vars, in_on_recv>>

RegisterRecvOwn(t) ==
    /\ Referenced
    /\ Step(t, "rr_own", "rr_post")
    /\ SetOwner("recv")
    /\ UNCHANGED <<fresh, is_connected_, send_vars, listed, held, io_vars,
                   in_on_recv>>

\* Mutant: WSA_IO_PENDING is taken for an immediate success.
RegisterRecvPostInline(t) ==
    /\ Referenced /\ Room("recv")
    /\ Step(t, "rr_post", "pr_reset")
    /\ posted' = [posted EXCEPT !["recv"] = @ + 1]
    /\ num_of_bytes' = [num_of_bytes EXCEPT ![t] = 1]
    /\ UNCHANGED <<fresh, is_connected_, send_vars, ref_vars, queued, in_on_recv>>

RegisterRecvPost(t) ==
    /\ Referenced /\ pc[t] = "rr_post"
    /\ \/ "pending" \in RecvOutcomes /\ Pending(t, "recv") /\ UNCHANGED owner
       \/ "done" \in RecvOutcomes /\ Done(t, "recv", "pr_reset") /\ UNCHANGED owner
       \/ /\ "error" \in RecvOutcomes
          /\ Step(t, "rr_post", "io_error")
          /\ ResetOwner("recv")
          /\ UNCHANGED io_vars
    /\ UNCHANGED <<fresh, is_connected_, send_vars, listed, held, in_on_recv>>

ProcessRecvReset(t) ==
    /\ Referenced
    /\ Step(t, "pr_reset", "pr_data")
    /\ ResetOwner("recv")
    /\ UNCHANGED <<fresh, is_connected_, send_vars, listed, held, io_vars,
                   in_on_recv>>

\* No bytes: Close.  Otherwise recv_buffer_ takes them and OnRecv is called.
ProcessRecvData(t) ==
    /\ Referenced
    /\ Step(t, "pr_data", IF num_of_bytes[t] = 0 THEN "dc_exchange" ELSE "on_recv")
    /\ UNCHANGED <<fresh, is_connected_, send_vars, ref_vars, io_vars, in_on_recv>>

\* OnRecv is virtual: it may send (the default echoes), disconnect, or
\* neither, and then returns to ProcessRecv.
OnRecv(t) ==
    /\ Referenced
    /\ \/ /\ \/ accepted < MaxSends /\ Step(t, "on_recv", "send_check")
             \/ Step(t, "on_recv", "dc_exchange")
          /\ in_on_recv' = [in_on_recv EXCEPT ![t] = TRUE]
       \/ /\ Step(t, "on_recv", "pr_rest")
          /\ UNCHANGED in_on_recv
    /\ UNCHANGED <<fresh, is_connected_, send_vars, ref_vars, io_vars>>

\* OnRecv returned a length: outside the data it closes the session,
\* otherwise the data is consumed and the next receive registered.
ProcessRecvRest(t) ==
    /\ Referenced
    /\ \/ Step(t, "pr_rest", "dc_exchange")
       \/ Step(t, "pr_rest", "rr_check")
    /\ in_on_recv' = [in_on_recv EXCEPT ![t] = FALSE]
    /\ UNCHANGED <<fresh, is_connected_, send_vars, ref_vars, io_vars>>

-----------------------------------------------------------------------------
(***************************************************************************)
(* Send.                                                                   *)
(***************************************************************************)

SendCheck(t) ==
    /\ Referenced
    /\ Step(t, "send_check", IF is_connected_ THEN "send_push" ELSE Caller(t))
    /\ UNCHANGED <<fresh, is_connected_, send_vars, ref_vars, io_vars, in_on_recv>>

\* Mutant: the answer of is_register_send_.exchange(true) is ignored.
SendPushRegisters(t) ==
    /\ Referenced
    /\ Step(t, "send_push", "rs_own")
    /\ accepted' = accepted + 1
    /\ send_queue_' = Append(send_queue_, accepted + 1)
    /\ is_register_send_' = TRUE
    /\ UNCHANGED <<fresh, is_connected_, send_buffer_list_, submitted, lost,
                   ref_vars, io_vars, in_on_recv>>

\* Under lock_send_queue_: push the buffer and take the registration flag.
SendPush(t) ==
    /\ Referenced
    /\ Step(t, "send_push", IF is_register_send_ THEN Caller(t) ELSE "rs_own")
    /\ accepted' = accepted + 1
    /\ send_queue_' = Append(send_queue_, accepted + 1)
    /\ is_register_send_' = TRUE
    /\ UNCHANGED <<fresh, is_connected_, send_buffer_list_, submitted, lost,
                   ref_vars, io_vars, in_on_recv>>

\* Mutant: SetOwner is forgotten.
RegisterSendOwnMissing(t) ==
    /\ Referenced
    /\ Step(t, "rs_own", "rs_drain")
    /\ UNCHANGED <<fresh, is_connected_, send_vars, ref_vars, io_vars, in_on_recv>>

RegisterSendOwn(t) ==
    /\ Referenced
    /\ Step(t, "rs_own", "rs_drain")
    /\ SetOwner("send")
    /\ UNCHANGED <<fresh, is_connected_, send_vars, listed, held, io_vars,
                   in_on_recv>>

\* Under lock_send_queue_: move every buffer to the event's list.
RegisterSendDrain(t) ==
    /\ Referenced
    /\ Step(t, "rs_drain", "rs_post")
    /\ send_buffer_list_' = send_buffer_list_ \o send_queue_
    /\ send_queue_' = <<>>
    /\ UNCHANGED <<fresh, is_connected_, is_register_send_, accepted, submitted,
                   lost, ref_vars, io_vars, in_on_recv>>

\* Mutant: the list is cleared as soon as WSASend has taken the buffers.
RegisterSendPostClears(t) ==
    /\ Referenced /\ pc[t] = "rs_post"
    /\ Pending(t, "send")
    /\ submitted' = submitted \o send_buffer_list_
    /\ send_buffer_list_' = <<>>
    /\ UNCHANGED <<fresh, is_connected_, is_register_send_, send_queue_, accepted,
                   lost, ref_vars, in_on_recv>>

\* wsabufs_ is built from the list and WSASend is called.  A failure drops
\* the list and leaves is_register_send_ as it is.
RegisterSendPost(t) ==
    /\ Referenced /\ pc[t] = "rs_post"
    /\ \/ /\ \/ "pending" \in SendOutcomes /\ Pending(t, "send")
             \/ "done" \in SendOutcomes /\ Done(t, "send", "ps_reset")
          /\ submitted' = submitted \o send_buffer_list_
          /\ UNCHANGED <<send_buffer_list_, lost, owner>>
       \/ /\ "error" \in SendOutcomes
          /\ Step(t, "rs_post", "io_error")
          /\ ResetOwner("send")
          /\ send_buffer_list_' = <<>>
          /\ lost' = lost \o send_buffer_list_
          /\ UNCHANGED <<submitted, io_vars>>
    /\ UNCHANGED <<fresh, is_connected_, is_register_send_, send_queue_, accepted,
                   listed, held, in_on_recv>>

\* Mutant: send_buffer_list_ is not cleared.
ProcessSendResetKeeps(t) ==
    /\ Referenced
    /\ Step(t, "ps_reset", "ps_bytes")
    /\ ResetOwner("send")
    /\ UNCHANGED <<fresh, is_connected_, send_vars, listed, held, io_vars,
                   in_on_recv>>

ProcessSendReset(t) ==
    /\ Referenced
    /\ Step(t, "ps_reset", "ps_bytes")
    /\ ResetOwner("send")
    /\ send_buffer_list_' = <<>>
    /\ UNCHANGED <<fresh, is_connected_, is_register_send_, send_queue_, accepted,
                   submitted, lost, listed, held, io_vars, in_on_recv>>

\* No bytes: Close, and is_register_send_ stays set.  OnSend has no effect on
\* the session.
ProcessSendBytes(t) ==
    /\ Referenced
    /\ Step(t, "ps_bytes", IF num_of_bytes[t] = 0 THEN "dc_exchange" ELSE "ps_check")
    /\ UNCHANGED <<fresh, is_connected_, send_vars, ref_vars, io_vars, in_on_recv>>

\* Mutant: the flag is cleared without a look at the queue.
ProcessSendCheckBlind(t) ==
    /\ Referenced
    /\ Step(t, "ps_check", Caller(t))
    /\ is_register_send_' = FALSE
    /\ UNCHANGED <<fresh, is_connected_, send_queue_, send_buffer_list_, accepted,
                   submitted, lost, ref_vars, io_vars, in_on_recv>>

\* Mutant: the flag is not cleared when the queue is empty.
ProcessSendCheckStuck(t) ==
    /\ Referenced
    /\ Step(t, "ps_check", IF send_queue_ = <<>> THEN Caller(t) ELSE "rs_own")
    /\ UNCHANGED <<fresh, is_connected_, send_vars, ref_vars, io_vars, in_on_recv>>

\* Under lock_send_queue_: clear the flag, or go on with what was pushed
\* meanwhile.
ProcessSendCheck(t) ==
    /\ Referenced
    /\ \/ /\ send_queue_ = <<>>
          /\ Step(t, "ps_check", Caller(t))
          /\ is_register_send_' = FALSE
       \/ /\ send_queue_ # <<>>
          /\ Step(t, "ps_check", "rs_own")
          /\ UNCHANGED is_register_send_
    /\ UNCHANGED <<fresh, is_connected_, send_queue_, send_buffer_list_, accepted,
                   submitted, lost, ref_vars, io_vars, in_on_recv>>

-----------------------------------------------------------------------------
(***************************************************************************)
(* Disconnect.                                                             *)
(***************************************************************************)

\* Mutant: the answer of is_connected_.exchange(false) is ignored.
DisconnectAgain(t) ==
    /\ Referenced
    /\ Step(t, "dc_exchange", "rd_own")
    /\ is_connected_' = FALSE
    /\ UNCHANGED <<fresh, send_vars, ref_vars, io_vars, in_on_recv>>

\* Session::Disconnect, also reached through Close as the socket stays valid
\* until the destructor.
Disconnect(t) ==
    /\ Referenced
    /\ Step(t, "dc_exchange", IF is_connected_ THEN "rd_own" ELSE Caller(t))
    /\ is_connected_' = FALSE
    /\ UNCHANGED <<fresh, send_vars, ref_vars, io_vars, in_on_recv>>

RegisterDisconnectOwn(t) ==
    /\ Referenced
    /\ Step(t, "rd_own", "rd_post")
    /\ SetOwner("disconnect")
    /\ UNCHANGED <<fresh, is_connected_, send_vars, listed, held, io_vars,
                   in_on_recv>>

\* DisconnectEx: whatever it answers, the code goes on and keeps owner_.
RegisterDisconnectPost(t) ==
    /\ Referenced /\ pc[t] = "rd_post"
    /\ \/ "pending" \in DisconnectOutcomes /\ Pending(t, "disconnect")
       \/ "done" \in DisconnectOutcomes /\ Done(t, "disconnect", Caller(t))
       \/ /\ "error" \in DisconnectOutcomes
          /\ Step(t, "rd_post", Caller(t))
          /\ UNCHANGED io_vars
    /\ UNCHANGED <<fresh, is_connected_, send_vars, ref_vars, in_on_recv>>

\* Mutant: ResetOwner is forgotten, the session refers to itself for ever.
ProcessDisconnectKeeps(t) ==
    /\ Referenced
    /\ Step(t, "pd_reset", "pd_remove")
    /\ UNCHANGED <<fresh, is_connected_, send_vars, ref_vars, io_vars, in_on_recv>>

ProcessDisconnectReset(t) ==
    /\ Referenced
    /\ Step(t, "pd_reset", "pd_remove")
    /\ ResetOwner("disconnect")
    /\ UNCHANGED <<fresh, is_connected_, send_vars, listed, held, io_vars,
                   in_on_recv>>

\* Service::DestroySession(GetSessionRef()): the temporary reference outlives
\* the entry of session_list_ and goes last.
ProcessDisconnectRemove(t) ==
    /\ Referenced
    /\ Step(t, "pd_remove", "idle")
    /\ listed' = FALSE
    /\ held' = [held EXCEPT ![t] = TRUE]
    /\ UNCHANGED <<fresh, is_connected_, send_vars, owner, io_vars, in_on_recv>>

-----------------------------------------------------------------------------
RunRecv(t) ==
    \/ Start(t) \/ RegisterRecvCheck(t) \/ RegisterRecvOwn(t) \/ RegisterRecvPost(t)
    \/ ProcessRecvReset(t) \/ ProcessRecvData(t) \/ OnRecv(t) \/ ProcessRecvRest(t)

RunSend(t) ==
    \/ SendCheck(t) \/ SendPush(t)
    \/ RegisterSendOwn(t) \/ RegisterSendDrain(t) \/ RegisterSendPost(t)
    \/ ProcessSendReset(t) \/ ProcessSendBytes(t) \/ ProcessSendCheck(t)

RunDisconnect(t) ==
    \/ Disconnect(t) \/ RegisterDisconnectOwn(t) \/ RegisterDisconnectPost(t)
    \/ ProcessDisconnectReset(t) \/ ProcessDisconnectRemove(t)
    \/ SocketIOErrorHandler(t)

Run(t) == RunRecv(t) \/ RunSend(t) \/ RunDisconnect(t)

Call(a) == \/ ProcessConnect(a) \/ FindSession(a) \/ CallSend(a) \/ CallDisconnect(a)

Next ==
    \/ \E t \in Threads : Run(t) \/ DropRef(t)
    \/ \E a \in Apps : Call(a)
    \/ \E w \in Workers : AcceptSession(w) \/ \E e \in Events : Dispatch(w, e)

Spec == Init /\ [][Next]_vars

\* Threads run; the completion port hands out packets in the order they were
\* queued, so one that stays queued is taken even though workers are
\* intermittently busy; a receive completes at the latest when the socket
\* has been disconnected.  Application threads need not make further calls.
Fairness ==
    /\ \A t \in Threads : WF_vars(Run(t))
    /\ \A w \in Workers : WF_vars(DropRef(w))
    /\ SF_vars(\E w \in Workers : Dispatch(w, "send"))
    /\ SF_vars(\E w \in Workers : Dispatch(w, "disconnect"))
    /\ SF_vars(~is_connected_ /\ \E w \in Workers : Dispatch(w, "recv"))

FairSpec == Spec /\ Fairness

-----------------------------------------------------------------------------
(***************************************************************************)
(* Properties.                                                             *)
(***************************************************************************)

TypeOK ==
    /\ fresh \in BOOLEAN
    /\ is_connected_ \in BOOLEAN
    /\ is_register_send_ \in BOOLEAN
    /\ send_queue_ \in Seq(Nat)
    /\ send_buffer_list_ \in Seq(Nat)
    /\ owner \in [Events -> BOOLEAN]
    /\ listed \in BOOLEAN
    /\ held \in [Threads -> BOOLEAN]
    /\ posted \in [Events -> Nat]
    /\ queued \in [Events -> Nat]
    /\ pc \in [Threads -> ControlPoints]
    /\ in_on_recv \in [Threads -> BOOLEAN]
    /\ num_of_bytes \in [Threads -> {0, 1}]
    /\ accepted \in Nat
    /\ submitted \in Seq(Nat)
    /\ lost \in Seq(Nat)

\* Thread t runs RegisterSend or ProcessSend, that is, uses iocp_event_send_.
Sending(t) == pc[t] \in SendPC

\* iocp_event_send_ has one user at a time: a thread in RegisterSend or
\* ProcessSend, or the system with a WSASend outstanding, and only while
\* is_register_send_ is set.  The send list and the WSABUF array are touched
\* without a lock, so this is what protects them.
SendExclusive ==
    /\ \A t, u \in Threads : Sending(t) /\ Sending(u) => t = u
    /\ (\E t \in Threads : Sending(t)) => posted["send"] + queued["send"] = 0
    /\ posted["send"] + queued["send"] <= 1
    /\ (posted["send"] + queued["send"] = 1 \/ \E t \in Threads : Sending(t))
           => is_register_send_

\* Thread t owns the receive loop: RegisterRecv or ProcessRecv is on its
\* stack and has not posted the next receive.
Receiving(t) == pc[t] \in RecvPC \/ in_on_recv[t]

\* The receive loop (iocp_event_recv_ and recv_buffer_, both without a lock)
\* is in one place: on one thread's stack, or in one outstanding WSARecv.
RecvExclusive ==
    /\ \A t, u \in Threads : Receiving(t) /\ Receiving(u) => t = u
    /\ (\E t \in Threads : Receiving(t)) => posted["recv"] + queued["recv"] = 0
    /\ posted["recv"] + queued["recv"] <= 1

\* Thread t is between taking is_connected_ and the end of ProcessDisconnect.
Disconnecting(t) == pc[t] \in DisconnectPC

\* A session is disconnected once: whoever clears is_connected_ is the only
\* one to call DisconnectEx, and the entry in session_list_ and its id are
\* given back by the one ProcessDisconnect that follows.
DisconnectOnce ==
    /\ \A t, u \in Threads : Disconnecting(t) /\ Disconnecting(u) => t = u
    /\ (\E t \in Threads : Disconnecting(t))
           => posted["disconnect"] + queued["disconnect"] = 0
    /\ posted["disconnect"] + queued["disconnect"] <= 1
    /\ (posted["disconnect"] + queued["disconnect"] = 1
            \/ \E t \in Threads : Disconnecting(t))
           => listed /\ ~is_connected_

\* The completion key of a packet is a bare IocpObject pointer: while an
\* operation is outstanding its event holds a reference to the session.
PacketHasOwner == \A e \in Events : posted[e] + queued[e] > 0 => owner[e]

\* "For reference count": while WSASend is outstanding the event's list holds
\* the buffers the system is reading, the last ones submitted.
BuffersHeld ==
    posted["send"] > 0 =>
        /\ send_buffer_list_ # <<>>
        /\ IsSuffix(send_buffer_list_, submitted)

\* Buffers in send_buffer_list_ that WSASend has not taken yet.
Unsent == IF \E t \in Threads : pc[t] = "rs_post" THEN send_buffer_list_ ELSE <<>>

\* Buffers leave in the order Send pushed them, none twice and none missing,
\* up to the first WSASend that fails, after which none leaves.
SendOrder == submitted \o lost \o Unsent \o send_queue_ = [i \in 1 .. accepted |-> i]

\* The system works on a WSASend, or the handler of its completion has been
\* called and has not let go of the buffers.
InFlight == \/ posted["send"] + queued["send"] > 0
            \/ \E t \in Threads : pc[t] = "ps_reset"

\* What the system may still read: kept until the handler has let go of it.
Batches == IF InFlight THEN send_buffer_list_ ELSE <<>>

\* The send path behaves as an ordered channel with one batch in flight: no
\* buffer overtakes another or is handed over twice, each batch is kept until
\* its WSASend has completed, and none follows one that failed.
Channel == INSTANCE SendChannel WITH
    waiting <- Unsent \o send_queue_,
    in_flight <- Batches,
    done <- SubSeq(submitted, 1, Len(submitted) - Len(Batches))
ImplementsSendChannel == Channel!Spec

\* No wake-up is lost: a pushed buffer has someone who will send it, unless
\* the session is closing or a WSASend has failed.
QueueHasSender ==
    send_queue_ # <<>> =>
        \/ \E t \in Threads : Sending(t) \/ pc[t] = "dc_exchange"
        \/ posted["send"] > 0
        \/ ~is_connected_
        \/ lost # <<>>

\* The assertion of ~Session, CRASH("WRONG SESSION DESTROY").
DestroyAssertion == Destroyed => ~is_connected_ /\ ~is_register_send_

\* Every buffer Send accepted is handed to WSASend, unless the session
\* disconnects or a WSASend fails first.
EventuallySent ==
    \A k \in 1 .. MaxSends :
        (accepted >= k) ~> (Len(submitted) >= k \/ ~is_connected_ \/ lost # <<>>)

\* Start or ProcessConnect has run and the session is disconnected.
Closing == ~fresh /\ ~is_connected_ /\ \A t \in Threads : pc[t] # "start"

\* Only application threads may still refer to the session.  An accept event
\* that was given up (Listener.cpp:62) keeps its last session as well: that
\* reference belongs to module ServerService and is not counted here.
CoreReleased == ~listed /\ \A e \in Events : ~owner[e]

\* DisconnectEx queued no packet, and RegisterDisconnect kept the reference:
\* ProcessDisconnect never runs.
DisconnectStranded ==
    /\ owner["disconnect"] /\ listed
    /\ posted["disconnect"] + queued["disconnect"] = 0
    /\ \A t \in Threads : pc[t] \notin {"rd_post", "pd_reset", "pd_remove"}

\* A disconnected session leaves session_list_ and every event lets go of it,
\* unless DisconnectEx did not start.
DisconnectReleases == Closing ~> (CoreReleased \/ DisconnectStranded)

=============================================================================
