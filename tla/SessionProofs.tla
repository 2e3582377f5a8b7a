---------------------------- MODULE SessionProofs ----------------------------
(***************************************************************************)
(* Proofs about Session: its type invariant, and, for every number of      *)
(* threads and sends, that each overlapped operation has one user at a     *)
(* time and keeps the session alive while it is outstanding.               *)
(***************************************************************************)
EXTENDS Session, TLAPS

USE SessionAssumption DEF Threads, Events, Outcomes

-----------------------------------------------------------------------------
(***************************************************************************)
(* Type correctness.                                                       *)
(***************************************************************************)

LEMMA CallerType ==
    ASSUME NEW t \in Threads, TypeOK
    PROVE  Caller(t) \in ControlPoints
BY DEF Caller, TypeOK, ControlPoints, RecvPC

\* What an overlapped call that is accepted leaves of the typed state.
LEMMA PostType ==
    ASSUME TypeOK, NEW t \in Threads, NEW e \in Events,
           NEW next \in ControlPoints,
           Pending(t, e) \/ Done(t, e, next)
    PROVE  /\ pc' \in [Threads -> ControlPoints]
           /\ posted' \in [Events -> Nat]
           /\ queued' \in [Events -> Nat]
           /\ num_of_bytes' \in [Threads -> {0, 1}]
<1>0. Caller(t) \in ControlPoints  BY CallerType
<1> USE DEF TypeOK, Step
<1>1. CASE Pending(t, e)        BY <1>0, <1>1 DEF Pending
<1>2. CASE Done(t, e, next)     BY <1>2 DEF Done
<1> QED BY <1>1, <1>2

LEMMA RunRecvType ==
    ASSUME TypeOK, NEW t \in Threads, RunRecv(t)
    PROVE  TypeOK'
<1>0. Caller(t) \in ControlPoints  BY CallerType
<1> USE <1>0 DEF TypeOK, Step, ControlPoints, RecvPC, SendPC, CallPC,
        DisconnectPC, send_vars, ref_vars, io_vars
<1>1. CASE Start(t)                 BY <1>1 DEF Start
<1>2. CASE RegisterRecvCheck(t)     BY <1>2 DEF RegisterRecvCheck
<1>3. CASE RegisterRecvOwn(t)       BY <1>3 DEF RegisterRecvOwn, SetOwner
<1>4. CASE RegisterRecvPost(t)
  <2>1. CASE Pending(t, "recv") \/ Done(t, "recv", "pr_reset")
    <3>1. /\ pc' \in [Threads -> ControlPoints]
          /\ posted' \in [Events -> Nat]
          /\ queued' \in [Events -> Nat]
          /\ num_of_bytes' \in [Threads -> {0, 1}]
      BY <2>1, PostType, "pr_reset" \in ControlPoints
    <3>2. owner' \in [Events -> BOOLEAN]
      BY <1>4, ZenonT(60) DEF RegisterRecvPost, ResetOwner
    <3> QED BY <1>4, <3>1, <3>2 DEF RegisterRecvPost
  <2>2. CASE Step(t, "rr_post", "io_error") /\ ResetOwner("recv") /\ UNCHANGED io_vars
    BY <1>4, <2>2 DEF RegisterRecvPost, ResetOwner
  <2> QED BY <1>4, <2>1, <2>2 DEF RegisterRecvPost
<1>5. CASE ProcessRecvReset(t)      BY <1>5 DEF ProcessRecvReset, ResetOwner
<1>6. CASE ProcessRecvData(t)       BY <1>6 DEF ProcessRecvData
<1>7. CASE OnRecv(t)                BY <1>7, ZenonT(60) DEF OnRecv
<1>8. CASE ProcessRecvRest(t)       BY <1>8, ZenonT(60) DEF ProcessRecvRest
<1> QED BY <1>1, <1>2, <1>3, <1>4, <1>5, <1>6, <1>7, <1>8 DEF RunRecv

LEMMA RunSendType ==
    ASSUME TypeOK, NEW t \in Threads, RunSend(t)
    PROVE  TypeOK'
<1>0. Caller(t) \in ControlPoints  BY CallerType
<1> USE <1>0 DEF TypeOK, Step, ControlPoints, RecvPC, SendPC, CallPC,
        DisconnectPC, send_vars, ref_vars, io_vars
<1>1. CASE SendCheck(t)             BY <1>1 DEF SendCheck
<1>2. CASE SendPush(t)              BY <1>2 DEF SendPush
<1>3. CASE RegisterSendOwn(t)       BY <1>3 DEF RegisterSendOwn, SetOwner
<1>4. CASE RegisterSendDrain(t)     BY <1>4 DEF RegisterSendDrain
<1>5. CASE RegisterSendPost(t)
  <2>1. /\ owner' \in [Events -> BOOLEAN]
        /\ send_buffer_list_' \in Seq(Nat)
        /\ submitted' \in Seq(Nat)
        /\ lost' \in Seq(Nat)
    <3>1. /\ submitted \o send_buffer_list_ \in Seq(Nat)
          /\ lost \o send_buffer_list_ \in Seq(Nat)
          /\ <<>> \in Seq(Nat)
      OBVIOUS
    <3>2. \/ submitted' = submitted \o send_buffer_list_
             /\ UNCHANGED <<send_buffer_list_, lost, owner>>
          \/ send_buffer_list_' = <<>> /\ lost' = lost \o send_buffer_list_
             /\ UNCHANGED submitted /\ owner' = [owner EXCEPT !["send"] = FALSE]
      BY ONLY <1>5 DEF RegisterSendPost, ResetOwner
    <3> QED BY <3>1, <3>2, ZenonT(60)
  <2>2. CASE Pending(t, "send") \/ Done(t, "send", "ps_reset")
    <3>1. /\ pc' \in [Threads -> ControlPoints]
          /\ posted' \in [Events -> Nat]
          /\ queued' \in [Events -> Nat]
          /\ num_of_bytes' \in [Threads -> {0, 1}]
      BY <2>2, PostType, "ps_reset" \in ControlPoints
    <3> QED BY <1>5, <2>1, <3>1 DEF RegisterSendPost
  <2>3. CASE Step(t, "rs_post", "io_error") /\ UNCHANGED io_vars
    BY <1>5, <2>1, <2>3 DEF RegisterSendPost
  <2>4. \/ Pending(t, "send") \/ Done(t, "send", "ps_reset")
        \/ Step(t, "rs_post", "io_error") /\ UNCHANGED io_vars
    BY ONLY <1>5 DEF RegisterSendPost
  <2> QED BY ONLY <2>2, <2>3, <2>4
<1>6. CASE ProcessSendReset(t)      BY <1>6 DEF ProcessSendReset, ResetOwner
<1>7. CASE ProcessSendBytes(t)      BY <1>7 DEF ProcessSendBytes
<1>8. CASE ProcessSendCheck(t)
  <2>1. pc' \in [Threads -> ControlPoints]     BY <1>8, ZenonT(60) DEF ProcessSendCheck
  <2>2. is_register_send_' \in BOOLEAN         BY <1>8 DEF ProcessSendCheck
  <2> QED BY <1>8, <2>1, <2>2 DEF ProcessSendCheck
<1> QED BY <1>1, <1>2, <1>3, <1>4, <1>5, <1>6, <1>7, <1>8 DEF RunSend

LEMMA RunDisconnectType ==
    ASSUME TypeOK, NEW t \in Threads, RunDisconnect(t)
    PROVE  TypeOK'
<1>0. Caller(t) \in ControlPoints  BY CallerType
<1> USE <1>0 DEF TypeOK, Step, ControlPoints, RecvPC, SendPC, CallPC,
        DisconnectPC, send_vars, ref_vars, io_vars
<1>1. CASE Disconnect(t)               BY <1>1 DEF Disconnect
<1>2. CASE RegisterDisconnectOwn(t)    BY <1>2 DEF RegisterDisconnectOwn, SetOwner
<1>3. CASE RegisterDisconnectPost(t)
  <2>1. CASE Pending(t, "disconnect") \/ Done(t, "disconnect", Caller(t))
    <3>1. /\ pc' \in [Threads -> ControlPoints]
          /\ posted' \in [Events -> Nat]
          /\ queued' \in [Events -> Nat]
          /\ num_of_bytes' \in [Threads -> {0, 1}]
      BY <1>0, <2>1, PostType
    <3> QED BY <1>3, <3>1 DEF RegisterDisconnectPost
  <2>2. CASE Step(t, "rd_post", Caller(t)) /\ UNCHANGED io_vars
    BY <1>3, <2>2 DEF RegisterDisconnectPost
  <2>3. \/ Pending(t, "disconnect") \/ Done(t, "disconnect", Caller(t))
        \/ Step(t, "rd_post", Caller(t)) /\ UNCHANGED io_vars
    BY ONLY <1>3 DEF RegisterDisconnectPost
  <2> QED BY ONLY <2>1, <2>2, <2>3
<1>4. CASE ProcessDisconnectReset(t)   BY <1>4 DEF ProcessDisconnectReset, ResetOwner
<1>5. CASE ProcessDisconnectRemove(t)  BY <1>5 DEF ProcessDisconnectRemove
<1>6. CASE SocketIOErrorHandler(t)
  <2>1. pc' \in [Threads -> ControlPoints]     BY <1>6, ZenonT(60) DEF SocketIOErrorHandler
  <2> QED BY <1>6, <2>1 DEF SocketIOErrorHandler
<1> QED BY <1>1, <1>2, <1>3, <1>4, <1>5, <1>6 DEF RunDisconnect

LEMMA OutsideType ==
    ASSUME TypeOK,
           \/ \E t \in Threads : DropRef(t)
           \/ \E a \in Apps : Call(a)
           \/ \E w \in Workers : AcceptSession(w) \/ \E e \in Events : Dispatch(w, e)
    PROVE  TypeOK'
<1> USE DEF TypeOK, Step, ControlPoints, RecvPC, SendPC, CallPC,
        DisconnectPC, send_vars, ref_vars, io_vars
<1>1. ASSUME NEW t \in Threads, DropRef(t) PROVE TypeOK'
  BY <1>1 DEF DropRef
<1>2. ASSUME NEW a \in Apps, Call(a) PROVE TypeOK'
  <2>1. CASE ProcessConnect(a)   BY <2>1 DEF ProcessConnect
  <2>2. CASE FindSession(a)      BY <2>2 DEF FindSession
  <2>3. CASE CallSend(a)         BY <2>3 DEF CallSend
  <2>4. CASE CallDisconnect(a)   BY <2>4 DEF CallDisconnect
  <2> QED BY <1>2, <2>1, <2>2, <2>3, <2>4 DEF Call
<1>3. ASSUME NEW w \in Workers, AcceptSession(w) PROVE TypeOK'
  BY <1>3 DEF AcceptSession
<1>4. ASSUME NEW w \in Workers, NEW e \in Events, Dispatch(w, e) PROVE TypeOK'
  <2>1. Handler(e) \in ControlPoints
    BY DEF Handler
  <2>2. /\ pc' \in [Threads -> ControlPoints]
        /\ num_of_bytes' \in [Threads -> {0, 1}]
    BY <1>4, <2>1 DEF Dispatch
  <2>3. posted' \in [Events -> Nat] /\ queued' \in [Events -> Nat]
    BY <1>4, SMTT(20) DEF Dispatch
  <2> QED BY <1>4, <2>2, <2>3 DEF Dispatch
<1> QED BY <1>1, <1>2, <1>3, <1>4

\* Every variable keeps its type in every behaviour of Session.cpp's handlers.
THEOREM TypeCorrect == Spec => []TypeOK
<1>1. Init => TypeOK
  <2> SUFFICES ASSUME Init PROVE TypeOK
    OBVIOUS
  <2>1. <<>> \in Seq(Nat) /\ "idle" \in ControlPoints
    BY DEF ControlPoints
  <2> QED BY <2>1 DEF Init, TypeOK
<1>2. TypeOK /\ [Next]_vars => TypeOK'
  <2> SUFFICES ASSUME TypeOK, [Next]_vars PROVE TypeOK'
    OBVIOUS
  <2>1. CASE Next
    BY <2>1, RunRecvType, RunSendType, RunDisconnectType, OutsideType DEF Next, Run
  <2>2. CASE UNCHANGED vars
    BY <2>2 DEF vars, TypeOK, send_vars, ref_vars, io_vars
  <2> QED BY <2>1, <2>2
<1> QED BY <1>1, <1>2, PTL DEF Spec

-----------------------------------------------------------------------------
(***************************************************************************)
(* Where the condition holds.  Only a WSASend or WSARecv that succeeds at   *)
(* once, without SkipPacketOnSuccess, queues a second packet, so the runs   *)
(* of the properties proved below meet it in all of their behaviours.       *)
(***************************************************************************)

\* No packet of a WSASend that succeeded at once is in the port.  In the code's
\* own mode, without SkipPacketOnSuccess, this holds until a WSASend does.
NoSecondSendPacket == queued["send"] = 0

\* The same of WSARecv.
NoSecondRecvPacket == queued["recv"] = 0

LEMMA SecondPacketStep ==
    ASSUME TypeOK, [Next]_vars
    PROVE  /\ \/ ~SkipPacketOnSuccess /\ "done" \in SendOutcomes
              \/ queued'["send"] <= queued["send"]
           /\ \/ ~SkipPacketOnSuccess /\ "done" \in RecvOutcomes
              \/ queued'["recv"] <= queued["recv"]
<1>1. ASSUME NEW t \in Threads, RegisterSendPost(t)
      PROVE  \/ UNCHANGED queued
             \/ /\ ~SkipPacketOnSuccess /\ "done" \in SendOutcomes
                /\ queued'["recv"] = queued["recv"]
  <2>1. \/ UNCHANGED queued
        \/ "done" \in SendOutcomes /\ Done(t, "send", "ps_reset")
    BY ONLY <1>1 DEF RegisterSendPost, Pending, io_vars
  <2> QED BY <2>1 DEF Done, TypeOK
<1>2. ASSUME NEW t \in Threads, RegisterRecvPost(t)
      PROVE  \/ UNCHANGED queued
             \/ /\ ~SkipPacketOnSuccess /\ "done" \in RecvOutcomes
                /\ queued'["send"] = queued["send"]
  <2>1. \/ UNCHANGED queued
        \/ "done" \in RecvOutcomes /\ Done(t, "recv", "pr_reset")
    BY ONLY <1>2 DEF RegisterRecvPost, Pending, io_vars
  <2> QED BY <2>1 DEF Done, TypeOK
<1>3. ASSUME NEW t \in Threads, RegisterDisconnectPost(t)
      PROVE  queued'["send"] = queued["send"] /\ queued'["recv"] = queued["recv"]
  <2>1. \/ UNCHANGED queued
        \/ Done(t, "disconnect", Caller(t))
    BY ONLY <1>3 DEF RegisterDisconnectPost, Pending, io_vars
  <2> QED BY <2>1 DEF Done, TypeOK
<1>4. ASSUME NEW w \in Workers, NEW e \in Events, Dispatch(w, e)
      PROVE  queued'["send"] <= queued["send"] /\ queued'["recv"] <= queued["recv"]
  BY <1>4 DEF Dispatch, TypeOK
<1>5. ASSUME NEW t \in Threads, Run(t) \/ DropRef(t),
             ~RegisterSendPost(t), ~RegisterRecvPost(t), ~RegisterDisconnectPost(t)
      PROVE  UNCHANGED queued
  BY ONLY <1>5
     DEF Run, RunRecv, RunSend, RunDisconnect, DropRef, io_vars, Start,
         RegisterRecvCheck, RegisterRecvOwn, ProcessRecvReset, ProcessRecvData, OnRecv,
         ProcessRecvRest, SendCheck, SendPush, RegisterSendOwn, RegisterSendDrain,
         ProcessSendReset, ProcessSendBytes, ProcessSendCheck, Disconnect,
         RegisterDisconnectOwn, ProcessDisconnectReset, ProcessDisconnectRemove,
         SocketIOErrorHandler
<1>6. ASSUME NEW a \in Apps, Call(a) PROVE UNCHANGED queued
  BY ONLY <1>6 DEF Call, ProcessConnect, FindSession, CallSend, CallDisconnect, io_vars
<1>7. ASSUME NEW w \in Workers, AcceptSession(w) PROVE UNCHANGED queued
  BY ONLY <1>7 DEF AcceptSession, io_vars
<1>8. queued["send"] \in Nat /\ queued["recv"] \in Nat
  BY DEF TypeOK
<1>9. CASE UNCHANGED queued
  BY ONLY <1>8, <1>9
<1>10. CASE UNCHANGED vars
  BY <1>10, <1>9 DEF vars, io_vars
<1>11. CASE \E t \in Threads : RegisterSendPost(t)
  BY <1>1, <1>8, <1>9, <1>11
<1>12. CASE \E t \in Threads : RegisterRecvPost(t)
  BY <1>2, <1>8, <1>9, <1>12
<1>13. CASE \E t \in Threads : RegisterDisconnectPost(t)
  BY <1>3, <1>8, <1>13
<1>14. CASE \E w \in Workers, e \in Events : Dispatch(w, e)
  BY <1>4, <1>14
<1> QED
  BY <1>5, <1>6, <1>7, <1>10, <1>9, <1>11, <1>12, <1>13, <1>14, ZenonT(60) DEF Next

LEMMA SendPacketsUnique ==
    ASSUME SkipPacketOnSuccess \/ "done" \notin SendOutcomes
    PROVE  Spec => []NoSecondSendPacket
<1>1. Init => NoSecondSendPacket
  BY DEF Init, NoSecondSendPacket
<1>2. ASSUME TypeOK, TypeOK', NoSecondSendPacket, [Next]_vars PROVE NoSecondSendPacket'
  <2>1. queued'["send"] <= queued["send"]
    BY <1>2, SecondPacketStep
  <2>2. queued'["send"] \in Nat
    BY <1>2 DEF TypeOK
  <2> QED BY ONLY <1>2, <2>1, <2>2 DEF NoSecondSendPacket
<1> QED BY <1>1, <1>2, TypeCorrect, PTL DEF Spec

LEMMA RecvPacketsUnique ==
    ASSUME SkipPacketOnSuccess \/ "done" \notin RecvOutcomes
    PROVE  Spec => []NoSecondRecvPacket
<1>1. Init => NoSecondRecvPacket
  BY DEF Init, NoSecondRecvPacket
<1>2. ASSUME TypeOK, TypeOK', NoSecondRecvPacket, [Next]_vars PROVE NoSecondRecvPacket'
  <2>1. queued'["recv"] <= queued["recv"]
    BY <1>2, SecondPacketStep
  <2>2. queued'["recv"] \in Nat
    BY <1>2 DEF TypeOK
  <2> QED BY ONLY <1>2, <2>1, <2>2 DEF NoSecondRecvPacket
<1> QED BY <1>1, <1>2, TypeCorrect, PTL DEF Spec

-----------------------------------------------------------------------------
(***************************************************************************)
(* iocp_event_send_ has one user.  SendExclusive is inductive: taking the   *)
(* flag starts the only activity, and each step of the activity hands it   *)
(* on, to the same thread, to the system or, with a packet, to a worker.   *)
(***************************************************************************)

LEMMA CallerLeaves ==
    ASSUME NEW t \in Threads
    PROVE  Caller(t) \in {"idle", "pr_rest"}
BY DEF Caller

\* Nothing that SendExclusive speaks of starts.
LEMMA SendQuiet ==
    ASSUME SendExclusive,
           \A u \in Threads : Sending(u)' => Sending(u),
           posted'["send"] = posted["send"],
           queued'["send"] = queued["send"],
           is_register_send_' = is_register_send_
    PROVE  SendExclusive'
BY DEF SendExclusive

LEMMA RunRecvSendExclusive ==
    ASSUME TypeOK, SendExclusive, NEW t \in Threads, RunRecv(t)
    PROVE  SendExclusive'
<1>0. Caller(t) \in {"idle", "pr_rest"}  BY CallerLeaves
<1> USE <1>0 DEF TypeOK, Step, SendPC, Sending, send_vars, ref_vars, io_vars
<1> SUFFICES
      /\ \A u \in Threads : Sending(u)' => Sending(u)
      /\ posted'["send"] = posted["send"]
      /\ queued'["send"] = queued["send"]
      /\ is_register_send_' = is_register_send_
  BY SendQuiet
<1>1. CASE Start(t)                 BY <1>1 DEF Start
<1>2. CASE RegisterRecvCheck(t)     BY <1>2 DEF RegisterRecvCheck
<1>3. CASE RegisterRecvOwn(t)       BY <1>3 DEF RegisterRecvOwn
<1>4. CASE RegisterRecvPost(t)      BY <1>4 DEF RegisterRecvPost, Pending, Done
<1>5. CASE ProcessRecvReset(t)      BY <1>5 DEF ProcessRecvReset
<1>6. CASE ProcessRecvData(t)       BY <1>6 DEF ProcessRecvData
<1>7. CASE OnRecv(t)                BY <1>7 DEF OnRecv
<1>8. CASE ProcessRecvRest(t)       BY <1>8 DEF ProcessRecvRest
<1> QED BY <1>1, <1>2, <1>3, <1>4, <1>5, <1>6, <1>7, <1>8 DEF RunRecv

LEMMA RunSendSendExclusive ==
    ASSUME TypeOK, SendExclusive, NEW t \in Threads, RunSend(t), NoSecondSendPacket'
    PROVE  SendExclusive'
<1>0. Caller(t) \in {"idle", "pr_rest"}  BY CallerLeaves
<1> USE <1>0 DEF TypeOK, Step, SendPC, Sending, SendExclusive, send_vars, ref_vars, io_vars
<1>1. CASE SendCheck(t)             BY <1>1 DEF SendCheck
<1>2. CASE SendPush(t)              BY <1>2 DEF SendPush
<1>3. CASE RegisterSendOwn(t)       BY <1>3 DEF RegisterSendOwn
<1>4. CASE RegisterSendDrain(t)     BY <1>4 DEF RegisterSendDrain
<1>5. CASE RegisterSendPost(t)
  <2>1. pc[t] = "rs_post" /\ is_register_send_' = is_register_send_
    BY <1>5 DEF RegisterSendPost
  <2>2. /\ posted["send"] + queued["send"] = 0 /\ is_register_send_
        /\ posted["send"] = 0 /\ queued["send"] = 0
        /\ \A u \in Threads : Sending(u) => u = t
    BY <2>1
  <2>3. CASE Pending(t, "send")
    <3>1. \A u \in Threads : ~Sending(u)'
      BY <2>2, <2>3 DEF Pending
    <3>2. posted'["send"] = 1 /\ queued'["send"] = 0
      BY <2>2, <2>3 DEF Pending
    <3> QED BY <2>1, <2>2, <3>1, <3>2
  <2>4. CASE Done(t, "send", "ps_reset")
    <3>1. \A u \in Threads : Sending(u)' => u = t
      BY <2>2, <2>4 DEF Done
    <3>2. posted'["send"] = 0 /\ queued'["send"] = 0
      BY <2>2, <2>4 DEF Done, NoSecondSendPacket
    <3> QED BY <2>1, <2>2, <3>1, <3>2
  <2>5. CASE Step(t, "rs_post", "io_error") /\ UNCHANGED io_vars
    BY <2>1, <2>2, <2>5
  <2>6. \/ Pending(t, "send")
        \/ Done(t, "send", "ps_reset")
        \/ Step(t, "rs_post", "io_error") /\ UNCHANGED io_vars
    BY ONLY <1>5 DEF RegisterSendPost
  <2> QED BY ONLY <2>3, <2>4, <2>5, <2>6
<1>6. CASE ProcessSendReset(t)      BY <1>6 DEF ProcessSendReset
<1>7. CASE ProcessSendBytes(t)      BY <1>7 DEF ProcessSendBytes
<1>8. CASE ProcessSendCheck(t)
  <2>1. CASE send_queue_ = <<>>
    <3>1. \A u \in Threads : ~Sending(u)'
      BY <1>8, <2>1 DEF ProcessSendCheck
    <3> QED BY <1>8, <3>1 DEF ProcessSendCheck
  <2>2. CASE send_queue_ # <<>>
    <3>1. Sending(t) /\ \A u \in Threads : Sending(u)' => Sending(u)
      BY <1>8, <2>2 DEF ProcessSendCheck
    <3>2. is_register_send_' = is_register_send_
      BY ONLY <1>8, <2>2 DEF ProcessSendCheck
    <3>3. posted' = posted /\ queued' = queued
      BY ONLY <1>8 DEF ProcessSendCheck, io_vars
    <3> QED BY <3>1, <3>2, <3>3, SendQuiet
  <2> QED BY <2>1, <2>2
<1> QED BY <1>1, <1>2, <1>3, <1>4, <1>5, <1>6, <1>7, <1>8 DEF RunSend

LEMMA RunDisconnectSendExclusive ==
    ASSUME TypeOK, SendExclusive, NEW t \in Threads, RunDisconnect(t)
    PROVE  SendExclusive'
<1>0. Caller(t) \in {"idle", "pr_rest"}  BY CallerLeaves
<1> USE <1>0 DEF TypeOK, Step, SendPC, Sending, send_vars, ref_vars, io_vars
<1> SUFFICES
      /\ \A u \in Threads : Sending(u)' => Sending(u)
      /\ posted'["send"] = posted["send"]
      /\ queued'["send"] = queued["send"]
      /\ is_register_send_' = is_register_send_
  BY SendQuiet
<1>1. CASE Disconnect(t)               BY <1>1 DEF Disconnect
<1>2. CASE RegisterDisconnectOwn(t)    BY <1>2 DEF RegisterDisconnectOwn
<1>3. CASE RegisterDisconnectPost(t)   BY <1>3 DEF RegisterDisconnectPost, Pending, Done
<1>4. CASE ProcessDisconnectReset(t)   BY <1>4 DEF ProcessDisconnectReset
<1>5. CASE ProcessDisconnectRemove(t)  BY <1>5 DEF ProcessDisconnectRemove
<1>6. CASE SocketIOErrorHandler(t)     BY <1>6 DEF SocketIOErrorHandler
<1> QED BY <1>1, <1>2, <1>3, <1>4, <1>5, <1>6 DEF RunDisconnect

LEMMA OutsideSendExclusive ==
    ASSUME TypeOK, SendExclusive,
           \/ \E t \in Threads : DropRef(t)
           \/ \E a \in Apps : Call(a)
           \/ \E w \in Workers : AcceptSession(w) \/ \E e \in Events : Dispatch(w, e)
    PROVE  SendExclusive'
<1> USE DEF TypeOK, Step, SendPC, Sending, SendExclusive, send_vars, ref_vars, io_vars
<1>1. ASSUME NEW t \in Threads, DropRef(t) PROVE SendExclusive'
  BY <1>1 DEF DropRef
<1>2. ASSUME NEW a \in Apps, Call(a) PROVE SendExclusive'
  BY <1>2, ZenonT(60) DEF Call, ProcessConnect, FindSession, CallSend, CallDisconnect
<1>3. ASSUME NEW w \in Workers, AcceptSession(w) PROVE SendExclusive'
  BY <1>3 DEF AcceptSession
<1>4. ASSUME NEW w \in Workers, NEW e \in Events, Dispatch(w, e) PROVE SendExclusive'
  <2>1. CASE e = "send"
    <3>1. posted["send"] \in Nat /\ queued["send"] \in Nat
      OBVIOUS
    <3>2. posted["send"] > 0 \/ queued["send"] > 0
      BY <1>4, <2>1 DEF Dispatch
    <3>3. posted["send"] + queued["send"] = 1
      BY <3>1, <3>2
    <3>4. posted'["send"] + queued'["send"] = 0 /\ is_register_send_'
      BY <1>4, <2>1, <3>3 DEF Dispatch
    <3>5. \A u \in Threads : Sending(u)' => u = w
      BY <1>4, <2>1, <3>3 DEF Dispatch
    <3> QED BY <3>4, <3>5
  <2>2. CASE e # "send"
    BY <1>4, <2>2, SendQuiet, ZenonT(60) DEF Dispatch, Handler
  <2> QED BY <2>1, <2>2
<1> QED BY <1>1, <1>2, <1>3, <1>4

\* The send event, its list and its buffers have one user at a time, in every
\* behaviour in which no WSASend that succeeds at once has its packet queued as
\* well: RegisterSend and ProcessSend need no lock for them then.
THEOREM SendExclusion == Spec /\ []NoSecondSendPacket => []SendExclusive
<1>1. Init => SendExclusive
  BY DEF Init, SendExclusive, Sending, SendPC
<1>2. TypeOK /\ SendExclusive /\ NoSecondSendPacket' /\ [Next]_vars => SendExclusive'
  <2> SUFFICES ASSUME TypeOK, SendExclusive, NoSecondSendPacket', [Next]_vars
               PROVE  SendExclusive'
    OBVIOUS
  <2>1. CASE Next
    BY <2>1, RunRecvSendExclusive, RunSendSendExclusive, RunDisconnectSendExclusive,
       OutsideSendExclusive DEF Next, Run
  <2>2. CASE UNCHANGED vars
    BY <2>2 DEF vars, SendExclusive, Sending, send_vars, io_vars
  <2> QED BY <2>1, <2>2
<1> QED BY <1>1, <1>2, TypeCorrect, PTL DEF Spec

-----------------------------------------------------------------------------
(***************************************************************************)
(* A session is disconnected once.  DisconnectOnce is not inductive: it     *)
(* needs to know that before is_connected_ is cleared nobody has started    *)
(* to disconnect, and that it is set only once, by Start or ProcessConnect. *)
(***************************************************************************)

\* Nobody has cleared is_connected_ yet.
Unclosed == fresh \/ is_connected_ \/ \E t \in Threads : pc[t] = "start"

DisconnectInv ==
    /\ DisconnectOnce
    /\ fresh => ~is_connected_ /\ \A t \in Threads : pc[t] # "start"
    /\ \A t \in Threads : pc[t] = "start" => ~is_connected_
    /\ \A t, u \in Threads : pc[t] = "start" /\ pc[u] = "start" => t = u
    /\ Unclosed => /\ listed
                   /\ posted["disconnect"] + queued["disconnect"] = 0
                   /\ \A t \in Threads : ~Disconnecting(t)

\* Nothing that DisconnectInv speaks of changes, but a thread may have left.
LEMMA DisconnectQuiet ==
    ASSUME DisconnectInv,
           \A u \in Threads : Disconnecting(u)' => Disconnecting(u),
           \A u \in Threads : (pc[u] = "start")' => pc[u] = "start",
           posted'["disconnect"] = posted["disconnect"],
           queued'["disconnect"] = queued["disconnect"],
           UNCHANGED <<fresh, is_connected_, listed>>
    PROVE  DisconnectInv'
BY DEF DisconnectInv, DisconnectOnce, Unclosed

LEMMA RunRecvDisconnectInv ==
    ASSUME TypeOK, DisconnectInv, NEW t \in Threads, RunRecv(t)
    PROVE  DisconnectInv'
<1>0. Caller(t) \in {"idle", "pr_rest"}  BY CallerLeaves
<1> USE <1>0 DEF TypeOK, Step, DisconnectPC, Disconnecting, send_vars, ref_vars, io_vars
<1>1. CASE Start(t)
  BY <1>1 DEF Start, DisconnectInv, DisconnectOnce, Unclosed
<1>2. ASSUME ~Start(t) PROVE DisconnectInv'
  <2> SUFFICES
        /\ \A u \in Threads : Disconnecting(u)' => Disconnecting(u)
        /\ \A u \in Threads : (pc[u] = "start")' => pc[u] = "start"
        /\ posted'["disconnect"] = posted["disconnect"]
        /\ queued'["disconnect"] = queued["disconnect"]
        /\ UNCHANGED <<fresh, is_connected_, listed>>
    BY DisconnectQuiet
  <2>1. CASE RegisterRecvCheck(t)     BY <2>1 DEF RegisterRecvCheck
  <2>2. CASE RegisterRecvOwn(t)       BY <2>2 DEF RegisterRecvOwn
  <2>3. CASE RegisterRecvPost(t)      BY <2>3 DEF RegisterRecvPost, Pending, Done
  <2>4. CASE ProcessRecvReset(t)      BY <2>4 DEF ProcessRecvReset
  <2>5. CASE ProcessRecvData(t)       BY <2>5 DEF ProcessRecvData
  <2>6. CASE OnRecv(t)                BY <2>6 DEF OnRecv
  <2>7. CASE ProcessRecvRest(t)       BY <2>7 DEF ProcessRecvRest
  <2> QED BY <1>2, <2>1, <2>2, <2>3, <2>4, <2>5, <2>6, <2>7 DEF RunRecv
<1> QED BY <1>1, <1>2

LEMMA RunSendDisconnectInv ==
    ASSUME TypeOK, DisconnectInv, NEW t \in Threads, RunSend(t)
    PROVE  DisconnectInv'
<1>0. Caller(t) \in {"idle", "pr_rest"}  BY CallerLeaves
<1> USE <1>0 DEF TypeOK, Step, DisconnectPC, Disconnecting, send_vars, ref_vars, io_vars
<1> SUFFICES
      /\ \A u \in Threads : Disconnecting(u)' => Disconnecting(u)
      /\ \A u \in Threads : (pc[u] = "start")' => pc[u] = "start"
      /\ posted'["disconnect"] = posted["disconnect"]
      /\ queued'["disconnect"] = queued["disconnect"]
      /\ UNCHANGED <<fresh, is_connected_, listed>>
  BY DisconnectQuiet
<1>1. CASE SendCheck(t)             BY <1>1 DEF SendCheck
<1>2. CASE SendPush(t)              BY <1>2 DEF SendPush
<1>3. CASE RegisterSendOwn(t)       BY <1>3 DEF RegisterSendOwn
<1>4. CASE RegisterSendDrain(t)     BY <1>4 DEF RegisterSendDrain
<1>5. CASE RegisterSendPost(t)
  <2>1. \/ Pending(t, "send") \/ Done(t, "send", "ps_reset")
        \/ Step(t, "rs_post", "io_error") /\ UNCHANGED io_vars
    BY ONLY <1>5 DEF RegisterSendPost
  <2>2. pc[t] = "rs_post" /\ UNCHANGED <<fresh, is_connected_, listed>>
    BY ONLY <1>5 DEF RegisterSendPost
  <2> QED BY <2>1, <2>2 DEF Pending, Done
<1>6. CASE ProcessSendReset(t)      BY <1>6 DEF ProcessSendReset
<1>7. CASE ProcessSendBytes(t)      BY <1>7 DEF ProcessSendBytes
<1>8. CASE ProcessSendCheck(t)
  <2>1. Step(t, "ps_check", Caller(t)) \/ Step(t, "ps_check", "rs_own")
    BY ONLY <1>8 DEF ProcessSendCheck
  <2>2. UNCHANGED <<fresh, is_connected_, listed, posted, queued>>
    BY ONLY <1>8 DEF ProcessSendCheck, ref_vars, io_vars
  <2> QED BY <2>1, <2>2
<1> QED BY <1>1, <1>2, <1>3, <1>4, <1>5, <1>6, <1>7, <1>8 DEF RunSend

LEMMA RunDisconnectDisconnectInv ==
    ASSUME TypeOK, DisconnectInv, NEW t \in Threads, RunDisconnect(t)
    PROVE  DisconnectInv'
<1>0. Caller(t) \in {"idle", "pr_rest"}  BY CallerLeaves
<1> USE <1>0 DEF TypeOK, Step, DisconnectPC, Disconnecting, DisconnectInv,
        DisconnectOnce, Unclosed, send_vars, ref_vars, io_vars
<1>1. CASE Disconnect(t)               BY <1>1 DEF Disconnect
<1>2. CASE RegisterDisconnectOwn(t)    BY <1>2 DEF RegisterDisconnectOwn
<1>3. CASE RegisterDisconnectPost(t)
  <2>1. /\ posted["disconnect"] = 0 /\ queued["disconnect"] = 0
        /\ pc[t] = "rd_post" /\ ~Unclosed /\ listed
        /\ \A u \in Threads : Disconnecting(u) => u = t
    BY <1>3 DEF RegisterDisconnectPost
  <2>2. /\ \A u \in Threads : ~Disconnecting(u)'
        /\ \A u \in Threads : (pc[u] = "start")' => pc[u] = "start"
        /\ UNCHANGED <<fresh, is_connected_, listed>>
    BY <1>3, <2>1 DEF RegisterDisconnectPost, Pending, Done
  <2>3. posted'["disconnect"] + queued'["disconnect"] <= 1
    BY <1>3, <2>1 DEF RegisterDisconnectPost, Pending, Done
  <2> QED BY <2>1, <2>2, <2>3
<1>4. CASE ProcessDisconnectReset(t)   BY <1>4 DEF ProcessDisconnectReset
<1>5. CASE ProcessDisconnectRemove(t)  BY <1>5 DEF ProcessDisconnectRemove
<1>6. CASE SocketIOErrorHandler(t)     BY <1>6, ZenonT(60) DEF SocketIOErrorHandler
<1> QED BY <1>1, <1>2, <1>3, <1>4, <1>5, <1>6 DEF RunDisconnect

LEMMA OutsideDisconnectInv ==
    ASSUME TypeOK, DisconnectInv,
           \/ \E t \in Threads : DropRef(t)
           \/ \E a \in Apps : Call(a)
           \/ \E w \in Workers : AcceptSession(w) \/ \E e \in Events : Dispatch(w, e)
    PROVE  DisconnectInv'
<1> USE DEF TypeOK, Step, DisconnectPC, Disconnecting, send_vars, ref_vars, io_vars
<1>1. ASSUME NEW t \in Threads, DropRef(t) PROVE DisconnectInv'
  BY <1>1, DisconnectQuiet DEF DropRef
<1>2. ASSUME NEW a \in Apps, Call(a) PROVE DisconnectInv'
  <2>1. CASE ProcessConnect(a)
    BY <2>1 DEF ProcessConnect, DisconnectInv, DisconnectOnce, Unclosed
  <2>2. CASE FindSession(a)     BY <2>2, DisconnectQuiet DEF FindSession
  <2>3. CASE CallSend(a)        BY <2>3, DisconnectQuiet DEF CallSend
  <2>4. CASE CallDisconnect(a)  BY <2>4, DisconnectQuiet DEF CallDisconnect
  <2> QED BY <1>2, <2>1, <2>2, <2>3, <2>4 DEF Call
<1>3. ASSUME NEW w \in Workers, AcceptSession(w) PROVE DisconnectInv'
  BY <1>3 DEF AcceptSession, DisconnectInv, DisconnectOnce, Unclosed
<1>4. ASSUME NEW w \in Workers, NEW e \in Events, Dispatch(w, e) PROVE DisconnectInv'
  <2>1. CASE e = "disconnect"
    <3>0. posted[e] \in Nat /\ queued[e] \in Nat
      OBVIOUS
    <3>1. posted[e] + queued[e] > 0
      <4>1. posted[e] > 0 \/ queued[e] > 0
        BY ONLY <1>4 DEF Dispatch
      <4> QED BY ONLY <3>0, <4>1
    <3>2. /\ posted[e] + queued[e] = 1
          /\ listed /\ ~Unclosed
          /\ \A u \in Threads : ~Disconnecting(u)
      BY <2>1, <3>0, <3>1 DEF DisconnectInv, DisconnectOnce
    <3>3. posted'[e] + queued'[e] = 0
      BY <1>4, <3>0, <3>2, SMTT(20) DEF Dispatch
    <3>4. /\ \A u \in Threads : Disconnecting(u)' => u = w
          /\ \A u \in Threads : (pc[u] = "start")' => pc[u] = "start"
          /\ UNCHANGED <<fresh, is_connected_, listed>>
      BY <1>4, <2>1, <3>2 DEF Dispatch, Handler
    <3> QED BY <2>1, <3>2, <3>3, <3>4 DEF DisconnectInv, DisconnectOnce, Unclosed
  <2>2. CASE e # "disconnect"
    BY <1>4, <2>2, DisconnectQuiet DEF Dispatch, Handler
  <2> QED BY <2>1, <2>2
<1> QED BY <1>1, <1>2, <1>3, <1>4

LEMMA DisconnectInvariant == Spec => []DisconnectInv
<1>1. Init => DisconnectInv
  BY DEF Init, DisconnectInv, DisconnectOnce, Unclosed, Disconnecting, DisconnectPC
<1>2. TypeOK /\ DisconnectInv /\ [Next]_vars => DisconnectInv'
  <2> SUFFICES ASSUME TypeOK, DisconnectInv, [Next]_vars PROVE DisconnectInv'
    OBVIOUS
  <2>1. CASE Next
    BY <2>1, RunRecvDisconnectInv, RunSendDisconnectInv, RunDisconnectDisconnectInv,
       OutsideDisconnectInv DEF Next, Run
  <2>2. CASE UNCHANGED vars
    BY <2>2, DisconnectQuiet DEF vars, Disconnecting, ref_vars, io_vars
  <2> QED BY <2>1, <2>2
<1> QED BY <1>1, <1>2, TypeCorrect, PTL DEF Spec

\* However Close, Disconnect and the error handlers race, one of them calls
\* DisconnectEx, and ProcessDisconnect gives the session back once.
THEOREM DisconnectedOnce == Spec => []DisconnectOnce
<1>1. DisconnectInv => DisconnectOnce
  BY DEF DisconnectInv
<1> QED BY <1>1, DisconnectInvariant, PTL

-----------------------------------------------------------------------------
(***************************************************************************)
(* The receive loop has one place.  Before Start it has none, and Start     *)
(* runs once; then ProcessRecv hands it to RegisterRecv, RegisterRecv to    *)
(* the system, and the system to a worker.                                 *)
(***************************************************************************)

\* A thread inside OnRecv is not also in another part of the receive loop.
NestedCall(t) == in_on_recv[t] => pc[t] \notin RecvPC \ {"pr_rest"}

RecvInv ==
    /\ RecvExclusive
    /\ \A t \in Threads : NestedCall(t)
    /\ fresh => /\ \A t \in Threads : ~Receiving(t)
                /\ posted["recv"] + queued["recv"] = 0

LEMMA CallerReceives ==
    ASSUME NEW t \in Threads
    PROVE  /\ Caller(t) \in {"idle", "pr_rest"}
           /\ Caller(t) = "pr_rest" => in_on_recv[t]
BY DEF Caller

\* Nothing that RecvInv speaks of changes, but a thread may have left.
LEMMA RecvQuiet ==
    ASSUME RecvInv,
           \A u \in Threads : (Receiving(u)' => Receiving(u)) /\ NestedCall(u)',
           posted'["recv"] = posted["recv"],
           queued'["recv"] = queued["recv"],
           fresh' => fresh
    PROVE  RecvInv'
BY DEF RecvInv, RecvExclusive

LEMMA RunRecvRecvInv ==
    ASSUME TypeOK, RecvInv, NEW t \in Threads, RunRecv(t), NoSecondRecvPacket'
    PROVE  RecvInv'
<1>0. /\ Caller(t) \in {"idle", "pr_rest"}
      /\ Caller(t) = "pr_rest" => in_on_recv[t]
  BY CallerReceives
<1>9. \A u \in Threads : NestedCall(u)
  BY DEF RecvInv
<1> USE <1>0, <1>9, RecvQuiet DEF TypeOK, Step, RecvPC, Receiving, NestedCall,
        send_vars, ref_vars, io_vars
<1>1. CASE Start(t)                 BY <1>1 DEF Start
<1>2. CASE RegisterRecvCheck(t)     BY <1>2 DEF RegisterRecvCheck
<1>3. CASE RegisterRecvOwn(t)       BY <1>3 DEF RegisterRecvOwn
<1>4. CASE RegisterRecvPost(t)
  <2>1. pc[t] = "rr_post" /\ fresh' = fresh /\ in_on_recv' = in_on_recv
    BY <1>4 DEF RegisterRecvPost
  <2>2. /\ posted["recv"] = 0 /\ queued["recv"] = 0 /\ ~fresh
        /\ \A u \in Threads : Receiving(u) => u = t
    BY <2>1 DEF RecvInv, RecvExclusive
  <2>3. CASE Pending(t, "recv")
    <3>1. \A u \in Threads : ~Receiving(u)'
      BY <2>1, <2>2, <2>3 DEF Pending
    <3>2. posted'["recv"] = 1 /\ queued'["recv"] = 0
      BY <2>2, <2>3 DEF Pending
    <3> QED BY <2>1, <2>2, <3>1, <3>2 DEF RecvInv, RecvExclusive
  <2>4. CASE Done(t, "recv", "pr_reset")
    <3>1. \A u \in Threads : Receiving(u)' => u = t
      BY <2>1, <2>2, <2>4 DEF Done
    <3>2. posted'["recv"] = 0 /\ queued'["recv"] = 0
      BY <2>2, <2>4 DEF Done, NoSecondRecvPacket
    <3> QED BY <2>1, <2>2, <3>1, <3>2 DEF RecvInv, RecvExclusive
  <2>5. CASE Step(t, "rr_post", "io_error") /\ UNCHANGED io_vars
    BY <2>1, <2>2, <2>5
  <2>6. \/ Pending(t, "recv")
        \/ Done(t, "recv", "pr_reset")
        \/ Step(t, "rr_post", "io_error") /\ UNCHANGED io_vars
    BY ONLY <1>4 DEF RegisterRecvPost
  <2> QED BY ONLY <2>3, <2>4, <2>5, <2>6
<1>5. CASE ProcessRecvReset(t)      BY <1>5 DEF ProcessRecvReset
<1>6. CASE ProcessRecvData(t)       BY <1>6 DEF ProcessRecvData
<1>7. CASE OnRecv(t)                BY <1>7 DEF OnRecv
<1>8. CASE ProcessRecvRest(t)       BY <1>8 DEF ProcessRecvRest
<1> QED BY <1>1, <1>2, <1>3, <1>4, <1>5, <1>6, <1>7, <1>8 DEF RunRecv

LEMMA RunSendRecvInv ==
    ASSUME TypeOK, RecvInv, NEW t \in Threads, RunSend(t)
    PROVE  RecvInv'
<1>0. /\ Caller(t) \in {"idle", "pr_rest"}
      /\ Caller(t) = "pr_rest" => in_on_recv[t]
  BY CallerReceives
<1>9. \A u \in Threads : NestedCall(u)
  BY DEF RecvInv
<1> USE <1>0, <1>9 DEF TypeOK, Step, RecvPC, Receiving, NestedCall,
        send_vars, ref_vars, io_vars
<1> SUFFICES
      /\ \A u \in Threads : (Receiving(u)' => Receiving(u)) /\ NestedCall(u)'
      /\ posted'["recv"] = posted["recv"]
      /\ queued'["recv"] = queued["recv"]
      /\ fresh' => fresh
  BY RecvQuiet
<1>1. CASE SendCheck(t)             BY <1>1 DEF SendCheck
<1>2. CASE SendPush(t)              BY <1>2 DEF SendPush
<1>3. CASE RegisterSendOwn(t)       BY <1>3 DEF RegisterSendOwn
<1>4. CASE RegisterSendDrain(t)     BY <1>4 DEF RegisterSendDrain
<1>5. CASE RegisterSendPost(t)
  <2>1. \/ Pending(t, "send") \/ Done(t, "send", "ps_reset")
        \/ Step(t, "rs_post", "io_error") /\ UNCHANGED io_vars
    BY ONLY <1>5 DEF RegisterSendPost
  <2>2. pc[t] = "rs_post" /\ UNCHANGED <<fresh, in_on_recv>>
    BY ONLY <1>5 DEF RegisterSendPost
  <2> QED BY <2>1, <2>2 DEF Pending, Done
<1>6. CASE ProcessSendReset(t)      BY <1>6 DEF ProcessSendReset
<1>7. CASE ProcessSendBytes(t)      BY <1>7 DEF ProcessSendBytes
<1>8. CASE ProcessSendCheck(t)
  <2>1. Step(t, "ps_check", Caller(t)) \/ Step(t, "ps_check", "rs_own")
    BY ONLY <1>8 DEF ProcessSendCheck
  <2>2. UNCHANGED <<fresh, in_on_recv, posted, queued>>
    BY ONLY <1>8 DEF ProcessSendCheck, io_vars
  <2> QED BY <2>1, <2>2
<1> QED BY <1>1, <1>2, <1>3, <1>4, <1>5, <1>6, <1>7, <1>8 DEF RunSend

LEMMA RunDisconnectRecvInv ==
    ASSUME TypeOK, RecvInv, NEW t \in Threads, RunDisconnect(t)
    PROVE  RecvInv'
<1>0. /\ Caller(t) \in {"idle", "pr_rest"}
      /\ Caller(t) = "pr_rest" => in_on_recv[t]
  BY CallerReceives
<1>9. \A u \in Threads : NestedCall(u)
  BY DEF RecvInv
<1> USE <1>0, <1>9 DEF TypeOK, Step, RecvPC, Receiving, NestedCall,
        send_vars, ref_vars, io_vars
<1> SUFFICES
      /\ \A u \in Threads : (Receiving(u)' => Receiving(u)) /\ NestedCall(u)'
      /\ posted'["recv"] = posted["recv"]
      /\ queued'["recv"] = queued["recv"]
      /\ fresh' => fresh
  BY RecvQuiet
<1>1. CASE Disconnect(t)               BY <1>1 DEF Disconnect
<1>2. CASE RegisterDisconnectOwn(t)    BY <1>2 DEF RegisterDisconnectOwn
<1>3. CASE RegisterDisconnectPost(t)
  <2>1. pc[t] = "rd_post" /\ UNCHANGED <<fresh, in_on_recv>>
    BY ONLY <1>3 DEF RegisterDisconnectPost
  <2>2. pc' = [pc EXCEPT ![t] = Caller(t)]
    BY ONLY <1>3 DEF RegisterDisconnectPost, Pending, Done, Step
  <2>3. posted'["recv"] = posted["recv"] /\ queued'["recv"] = queued["recv"]
    BY <1>3 DEF RegisterDisconnectPost, Pending, Done
  <2> QED BY <2>1, <2>2, <2>3
<1>4. CASE ProcessDisconnectReset(t)   BY <1>4 DEF ProcessDisconnectReset
<1>5. CASE ProcessDisconnectRemove(t)  BY <1>5 DEF ProcessDisconnectRemove
<1>6. CASE SocketIOErrorHandler(t)     BY <1>6 DEF SocketIOErrorHandler
<1> QED BY <1>1, <1>2, <1>3, <1>4, <1>5, <1>6 DEF RunDisconnect

LEMMA OutsideRecvInv ==
    ASSUME TypeOK, RecvInv,
           \/ \E t \in Threads : DropRef(t)
           \/ \E a \in Apps : Call(a)
           \/ \E w \in Workers : AcceptSession(w) \/ \E e \in Events : Dispatch(w, e)
    PROVE  RecvInv'
<1>9. \A u \in Threads : NestedCall(u)
  BY DEF RecvInv
<1> USE <1>9 DEF TypeOK, Step, RecvPC, Receiving, NestedCall, send_vars, ref_vars, io_vars
<1>1. ASSUME NEW t \in Threads, DropRef(t) PROVE RecvInv'
  BY <1>1, RecvQuiet DEF DropRef
<1>2. ASSUME NEW a \in Apps, Call(a) PROVE RecvInv'
  <2>1. CASE ProcessConnect(a)  BY <2>1, RecvQuiet DEF ProcessConnect
  <2>2. CASE FindSession(a)     BY <2>2, RecvQuiet DEF FindSession
  <2>3. CASE CallSend(a)        BY <2>3, RecvQuiet DEF CallSend
  <2>4. CASE CallDisconnect(a)  BY <2>4, RecvQuiet DEF CallDisconnect
  <2> QED BY <1>2, <2>1, <2>2, <2>3, <2>4 DEF Call
<1>3. ASSUME NEW w \in Workers, AcceptSession(w) PROVE RecvInv'
  BY <1>3 DEF AcceptSession, RecvInv, RecvExclusive
<1>4. ASSUME NEW w \in Workers, NEW e \in Events, Dispatch(w, e) PROVE RecvInv'
  <2>1. CASE e = "recv"
    <3>1. posted[e] \in Nat /\ queued[e] \in Nat
      OBVIOUS
    <3>2. posted[e] + queued[e] > 0
      <4>1. posted[e] > 0 \/ queued[e] > 0
        BY ONLY <1>4 DEF Dispatch
      <4> QED BY ONLY <3>1, <4>1
    <3>3. /\ posted[e] + queued[e] = 1 /\ ~fresh
          /\ \A u \in Threads : ~Receiving(u)
      BY <2>1, <3>1, <3>2 DEF RecvInv, RecvExclusive
    <3>4. posted'[e] + queued'[e] = 0
      BY <1>4, <3>1, <3>3, SMTT(20) DEF Dispatch
    <3>5. /\ \A u \in Threads : Receiving(u)' => u = w
          /\ \A u \in Threads : NestedCall(u)'
          /\ UNCHANGED fresh
      BY <1>4, <2>1, <3>3 DEF Dispatch, Handler
    <3> QED BY <2>1, <3>3, <3>4, <3>5 DEF RecvInv, RecvExclusive
  <2>2. CASE e # "recv"
    BY <1>4, <2>2, RecvQuiet DEF Dispatch, Handler
  <2> QED BY <2>1, <2>2
<1> QED BY <1>1, <1>2, <1>3, <1>4

LEMMA RecvInvariant == Spec /\ []NoSecondRecvPacket => []RecvInv
<1>1. Init => RecvInv
  BY DEF Init, RecvInv, RecvExclusive, Receiving, NestedCall, RecvPC
<1>2. TypeOK /\ RecvInv /\ NoSecondRecvPacket' /\ [Next]_vars => RecvInv'
  <2> SUFFICES ASSUME TypeOK, RecvInv, NoSecondRecvPacket', [Next]_vars PROVE RecvInv'
    OBVIOUS
  <2>1. CASE Next
    BY <2>1, RunRecvRecvInv, RunSendRecvInv, RunDisconnectRecvInv, OutsideRecvInv
       DEF Next, Run
  <2>2. CASE UNCHANGED vars
    BY <2>2, RecvQuiet DEF vars, RecvInv, Receiving, NestedCall, io_vars
  <2> QED BY <2>1, <2>2
<1> QED BY <1>1, <1>2, TypeCorrect, PTL DEF Spec

\* The receive event and recv_buffer_ are in one place, in every behaviour in
\* which no WSARecv that succeeds at once has its packet queued as well: OnRecv
\* never runs twice at a time then.
THEOREM RecvExclusion == Spec /\ []NoSecondRecvPacket => []RecvExclusive
<1>1. RecvInv => RecvExclusive
  BY DEF RecvInv
<1> QED BY <1>1, RecvInvariant, PTL

-----------------------------------------------------------------------------
(***************************************************************************)
(* An outstanding operation keeps the session alive.  The three exclusion   *)
(* theorems say that nobody but its thread resets owner_ between SetOwner   *)
(* and the call, and nobody but the handler of its packet afterwards.       *)
(***************************************************************************)

OwnerInv ==
    /\ PacketHasOwner
    /\ \A t \in Threads :
         /\ pc[t] = "rr_post" => owner["recv"]
         /\ pc[t] \in {"rs_drain", "rs_post"} => owner["send"]
         /\ pc[t] = "rd_post" => owner["disconnect"]

LEMMA OwnerStep ==
    ASSUME TypeOK, SendExclusive, RecvExclusive, DisconnectOnce, OwnerInv,
           TypeOK', SendExclusive', RecvExclusive', DisconnectOnce', Next
    PROVE  OwnerInv'
<1> USE DEF TypeOK, Step, OwnerInv, PacketHasOwner, send_vars, ref_vars, io_vars
<1>1. ASSUME NEW t \in Threads, RunRecv(t) PROVE OwnerInv'
  <2>0. Caller(t) \in {"idle", "pr_rest"}  BY CallerLeaves
  <2> USE <2>0
  <2>1. CASE Start(t)                 BY <2>1 DEF Start
  <2>2. CASE RegisterRecvCheck(t)     BY <2>2 DEF RegisterRecvCheck
  <2>3. CASE RegisterRecvOwn(t)       BY <2>3 DEF RegisterRecvOwn, SetOwner
  <2>4. CASE RegisterRecvPost(t)
    <3>1. Receiving(t) /\ owner["recv"] /\ pc[t] = "rr_post"
      BY <2>4 DEF RegisterRecvPost, Receiving, RecvPC
    <3>2. CASE Pending(t, "recv") /\ UNCHANGED owner
      BY <3>1, <3>2 DEF Pending
    <3>3. CASE Done(t, "recv", "pr_reset") /\ UNCHANGED owner
      BY <3>1, <3>3 DEF Done
    <3>4. CASE Step(t, "rr_post", "io_error") /\ ResetOwner("recv") /\ UNCHANGED io_vars
      BY <3>1, <3>4, SMTT(20) DEF ResetOwner, RecvExclusive, Receiving, RecvPC
    <3> QED BY ONLY <2>4, <3>2, <3>3, <3>4 DEF RegisterRecvPost
  <2>5. CASE ProcessRecvReset(t)
    BY <2>5 DEF ProcessRecvReset, ResetOwner, RecvExclusive, Receiving, RecvPC
  <2>6. CASE ProcessRecvData(t)       BY <2>6 DEF ProcessRecvData
  <2>7. CASE OnRecv(t)                BY <2>7 DEF OnRecv
  <2>8. CASE ProcessRecvRest(t)       BY <2>8 DEF ProcessRecvRest
  <2> QED BY <1>1, <2>1, <2>2, <2>3, <2>4, <2>5, <2>6, <2>7, <2>8 DEF RunRecv
<1>2. ASSUME NEW t \in Threads, RunSend(t) PROVE OwnerInv'
  <2>0. Caller(t) \in {"idle", "pr_rest"}  BY CallerLeaves
  <2> USE <2>0
  <2>1. CASE SendCheck(t)             BY <2>1 DEF SendCheck
  <2>2. CASE SendPush(t)              BY <2>2 DEF SendPush
  <2>3. CASE RegisterSendOwn(t)       BY <2>3 DEF RegisterSendOwn, SetOwner
  <2>4. CASE RegisterSendDrain(t)     BY <2>4 DEF RegisterSendDrain
  <2>5. CASE RegisterSendPost(t)
    <3>1. Sending(t) /\ owner["send"] /\ pc[t] = "rs_post"
      BY <2>5 DEF RegisterSendPost, Sending, SendPC
    <3>2. CASE Pending(t, "send") /\ UNCHANGED owner
      BY <3>1, <3>2 DEF Pending
    <3>3. CASE Done(t, "send", "ps_reset") /\ UNCHANGED owner
      BY <3>1, <3>3 DEF Done
    <3>4. CASE Step(t, "rs_post", "io_error") /\ ResetOwner("send") /\ UNCHANGED io_vars
      BY <3>1, <3>4, SMTT(20) DEF ResetOwner, SendExclusive, Sending, SendPC
    <3> QED BY ONLY <2>5, <3>2, <3>3, <3>4 DEF RegisterSendPost
  <2>6. CASE ProcessSendReset(t)
    BY <2>6 DEF ProcessSendReset, ResetOwner, SendExclusive, Sending, SendPC
  <2>7. CASE ProcessSendBytes(t)      BY <2>7 DEF ProcessSendBytes
  <2>8. CASE ProcessSendCheck(t)
    <3>1. Step(t, "ps_check", Caller(t)) \/ Step(t, "ps_check", "rs_own")
      BY ONLY <2>8 DEF ProcessSendCheck
    <3>2. UNCHANGED <<owner, posted, queued>>
      BY ONLY <2>8 DEF ProcessSendCheck, ref_vars, io_vars
    <3> QED BY <3>1, <3>2, SMTT(20)
  <2> QED BY <1>2, <2>1, <2>2, <2>3, <2>4, <2>5, <2>6, <2>7, <2>8 DEF RunSend
<1>3. ASSUME NEW t \in Threads, RunDisconnect(t) PROVE OwnerInv'
  <2>0. Caller(t) \in {"idle", "pr_rest"}  BY CallerLeaves
  <2> USE <2>0
  <2>1. CASE Disconnect(t)               BY <2>1 DEF Disconnect
  <2>2. CASE RegisterDisconnectOwn(t)    BY <2>2 DEF RegisterDisconnectOwn, SetOwner
  <2>3. CASE RegisterDisconnectPost(t)   BY <2>3, ZenonT(60) DEF RegisterDisconnectPost, Pending, Done
  <2>4. CASE ProcessDisconnectReset(t)
    BY <2>4 DEF ProcessDisconnectReset, ResetOwner, DisconnectOnce, Disconnecting, DisconnectPC
  <2>5. CASE ProcessDisconnectRemove(t)  BY <2>5 DEF ProcessDisconnectRemove
  <2>6. CASE SocketIOErrorHandler(t)     BY <2>6 DEF SocketIOErrorHandler
  <2> QED BY <1>3, <2>1, <2>2, <2>3, <2>4, <2>5, <2>6 DEF RunDisconnect
<1>4. ASSUME NEW t \in Threads, DropRef(t) PROVE OwnerInv'
  BY <1>4 DEF DropRef
<1>5. ASSUME NEW a \in Apps, Call(a) PROVE OwnerInv'
  <2>1. CASE ProcessConnect(a)  BY <2>1 DEF ProcessConnect
  <2>2. CASE FindSession(a)     BY <2>2 DEF FindSession
  <2>3. CASE CallSend(a)        BY <2>3 DEF CallSend
  <2>4. CASE CallDisconnect(a)  BY <2>4 DEF CallDisconnect
  <2> QED BY <1>5, <2>1, <2>2, <2>3, <2>4 DEF Call
<1>6. ASSUME NEW w \in Workers, AcceptSession(w) PROVE OwnerInv'
  BY <1>6 DEF AcceptSession
<1>7. ASSUME NEW w \in Workers, NEW e \in Events, Dispatch(w, e) PROVE OwnerInv'
  <2>1. /\ owner' = owner
        /\ \A t \in Threads : pc'[t] = pc[t] \/ pc'[t] \in {"pr_reset", "ps_reset", "pd_reset"}
    BY <1>7 DEF Dispatch, Handler
  <2>2. posted[e] + queued[e] > 0
    <3>1. posted[e] \in Nat /\ queued[e] \in Nat
      OBVIOUS
    <3>2. posted[e] > 0 \/ queued[e] > 0
      BY ONLY <1>7 DEF Dispatch
    <3> QED BY ONLY <3>1, <3>2
  <2>3. \A x \in Events : x # e => posted'[x] = posted[x] /\ queued'[x] = queued[x]
    BY <1>7 DEF Dispatch
  <2> QED BY <2>1, <2>2, <2>3
<1> QED BY <1>1, <1>2, <1>3, <1>4, <1>5, <1>6, <1>7, ZenonT(60) DEF Next, Run

\* The completion key is a bare pointer, but the event of every operation
\* outstanding refers to the session, so a packet never finds it destroyed: in
\* every behaviour in which no WSASend or WSARecv that succeeds at once has its
\* packet queued as well.
THEOREM PacketsKeepSession ==
    Spec /\ []NoSecondSendPacket /\ []NoSecondRecvPacket => []PacketHasOwner
<1>1. Init => OwnerInv
  BY DEF Init, OwnerInv, PacketHasOwner
<1>2. ASSUME TypeOK, SendExclusive, RecvExclusive, DisconnectOnce, OwnerInv,
             TypeOK', SendExclusive', RecvExclusive', DisconnectOnce', [Next]_vars
      PROVE  OwnerInv'
  <2>1. CASE Next
    BY <1>2, <2>1, OwnerStep
  <2>2. CASE UNCHANGED vars
    BY <1>2, <2>2 DEF vars, OwnerInv, PacketHasOwner, ref_vars, io_vars
  <2> QED BY <1>2, <2>1, <2>2
<1>3. OwnerInv => PacketHasOwner
  BY DEF OwnerInv
<1> QED
  BY <1>1, <1>2, <1>3, TypeCorrect, SendExclusion, RecvExclusion, DisconnectedOnce, PTL
     DEF Spec

=============================================================================
