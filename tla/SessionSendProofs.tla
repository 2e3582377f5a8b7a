--------------------------- MODULE SessionSendProofs ---------------------------
(***************************************************************************)
(* Proofs about the send path of Session, for every number of threads and  *)
(* buffers: the stream keeps its order, the buffers of a WSASend are kept, *)
(* no wake-up is lost, and all that is what SendChannel promises.  As in   *)
(* SessionProofs, this is so in the behaviours in which no WSASend that    *)
(* succeeds at once has its packet queued as well (NoSecondSendPacket).    *)
(***************************************************************************)
EXTENDS SessionProofs, SequenceTheorems

-----------------------------------------------------------------------------
(***************************************************************************)
(* Sequences.                                                              *)
(***************************************************************************)

\* A suffix is what is left behind the part in front of it.
LEMMA SuffixIsRest ==
    ASSUME NEW S, NEW s \in Seq(S), NEW r \in Seq(S)
    PROVE  /\ SubSeq(s \o r, 1, Len(s \o r) - Len(r)) = s
           /\ IsSuffix(r, s \o r)
<1>1. /\ s \o r \in Seq(S) /\ Len(s \o r) = Len(s) + Len(r)
      /\ Len(s) \in Nat /\ Len(r) \in Nat
      /\ \A i \in 1 .. Len(s) + Len(r) :
            (s \o r)[i] = IF i <= Len(s) THEN s[i] ELSE r[i - Len(s)]
  BY ConcatProperties, LenProperties
<1>2. SubSeq(s \o r, 1, Len(s \o r) - Len(r)) = s
  <2>1. \A i \in 1 .. Len(s) : (s \o r)[i] \in S
    BY <1>1, ElementOfSeq
  <2>2. Len(s \o r) - Len(r) = Len(s)
    BY <1>1
  <2>3. /\ SubSeq(s \o r, 1, Len(s)) \in Seq(S)
        /\ Len(SubSeq(s \o r, 1, Len(s))) = IF 1 <= Len(s) THEN Len(s) - 1 + 1 ELSE 0
        /\ \A i \in 1 .. Len(s) - 1 + 1 : SubSeq(s \o r, 1, Len(s))[i] = (s \o r)[1 + i - 1]
    BY <1>1, <2>1, SubSeqProperties
  <2> QED BY <1>1, <2>2, <2>3, SeqEqual
<1>3. IsSuffix(r, s \o r)
  BY <1>1 DEF IsSuffix, IsPrefix, Reverse
<1> QED BY <1>2, <1>3

\* What has been numbered up to n is numbered up to n + 1.
LEMMA AppendNumber ==
    ASSUME NEW n \in Nat
    PROVE  Append([i \in 1 .. n |-> i], n + 1) = [i \in 1 .. n + 1 |-> i]
OBVIOUS

LEMMA AppendBehind ==
    ASSUME NEW S, NEW s \in Seq(S), NEW r \in Seq(S), NEW e \in S
    PROVE  s \o Append(r, e) = Append(s \o r, e)
<1>1. /\ Append(r, e) = r \o <<e>> /\ s \o r \in Seq(S) /\ <<e>> \in Seq(S)
      /\ Append(s \o r, e) = (s \o r) \o <<e>>
  BY AppendIsConcat, ConcatProperties
<1> QED BY <1>1, ConcatAssociative

\* The first n of a sequence, and the rest.
LEMMA SplitConcat ==
    ASSUME NEW S, NEW s \in Seq(S), NEW r \in Seq(S), s # <<>>
    PROVE  /\ Len(s) \in 1 .. Len(s \o r)
           /\ SubSeq(s \o r, 1, Len(s)) = s
           /\ SubSeq(s \o r, Len(s) + 1, Len(s \o r)) = r
<1>1. /\ s \o r \in Seq(S) /\ Len(s \o r) = Len(s) + Len(r)
      /\ Len(s) \in Nat \ {0} /\ Len(r) \in Nat
  BY ConcatProperties, LenProperties, EmptySeq
<1>2. SubSeq(s \o r, 1, Len(s)) = s
  BY <1>1, SubSeqOfConcat1, SubSeqFull
<1>3. CASE r = <<>>
  <2>1. Len(r) = 0
    BY <1>3
  <2> QED BY <1>1, <1>2, <1>3, <2>1, SubSeqEmpty
<1>4. CASE r # <<>>
  <2>1. Len(r) \in Nat \ {0}
    BY <1>4, EmptySeq
  <2>2. SubSeq(s \o r, Len(s) + 1, Len(s) + Len(r)) = SubSeq(r, 1, Len(r))
    BY <1>1, <2>1, SubSeqOfConcat2
  <2> QED BY <1>1, <1>2, <2>2, SubSeqFull
<1> QED BY <1>3, <1>4

-----------------------------------------------------------------------------
(***************************************************************************)
(* The inductive invariant.  The flag is set exactly when somebody sends   *)
(* or sending has stopped for good, and while somebody sends the buffers   *)
(* of the list are the last ones submitted or the next ones to be.         *)
(***************************************************************************)

Posting == \E t \in Threads : pc[t] = "rs_post"

\* Nobody will send what is in the queue.
Stopped == \/ ~is_connected_ \/ lost # <<>>
           \/ \E t \in Threads : pc[t] = "dc_exchange"

NotStarted == fresh \/ \E t \in Threads : pc[t] = "start"

ListInv ==
    /\ InFlight \/ Posting <=> send_buffer_list_ # <<>>
    /\ \E d \in Seq(Nat) : submitted = d \o Batches
    /\ \A t \in Threads : pc[t] \in {"rs_own", "rs_drain"} => send_queue_ # <<>>

FlagInv ==
    /\ queued["send"] = 0
    /\ send_queue_ # <<>> => is_register_send_
    /\ is_register_send_ => Stopped \/ posted["send"] > 0 \/ \E t \in Threads : Sending(t)
    /\ lost # <<>> => /\ is_register_send_ /\ posted["send"] = 0
                      /\ \A t \in Threads : ~Sending(t)
    /\ NotStarted => ~is_register_send_ /\ \A t \in Threads : pc[t] # "send_push"

SendPathInv == SendOrder /\ ListInv /\ FlagInv

\* Together with what is known of the send flag and of Start.
SendInv == TypeOK /\ SendExclusive /\ DisconnectInv /\ SendPathInv

USE SessionAssumption DEF Threads, Events, Outcomes

-----------------------------------------------------------------------------
(***************************************************************************)
(* Steps that the channel does not see.                                    *)
(***************************************************************************)

\* Only t moves, and not into or out of a call that works on the buffers; if
\* it stops sending the session is disconnected, or it will do that.
LEMMA SendPathQuiet ==
    ASSUME SendInv, NEW t \in Threads,
           UNCHANGED send_vars,
           posted'["send"] = posted["send"], queued'["send"] = queued["send"],
           \A u \in Threads \ {t} : pc'[u] = pc[u],
           pc[t] \notin {"rs_post", "ps_reset"},
           pc'[t] \notin {"rs_own", "rs_post", "ps_reset"},
           pc'[t] = "rs_drain" => pc[t] = "rs_own",
           pc'[t] \in SendPC => pc[t] \in SendPC,
           pc[t] \in SendPC \cup {"dc_exchange"} =>
               pc'[t] \in SendPC \cup {"dc_exchange"} \/ ~is_connected_',
           is_register_send_ /\ is_connected_' => is_connected_,
           fresh' => fresh,
           pc'[t] = "start" => pc[t] = "start" \/ fresh,
           pc'[t] = "send_push" => pc[t] = "send_push" \/ is_connected_
    PROVE  SendPathInv' /\ UNCHANGED Channel!channel
<1>1. (Posting' <=> Posting) /\ (InFlight' <=> InFlight)
  BY DEF Posting, InFlight
<1>2. /\ Unsent' = Unsent /\ Batches' = Batches
      /\ UNCHANGED <<is_register_send_, send_queue_, send_buffer_list_, accepted,
                     submitted, lost>>
  BY <1>1 DEF Unsent, Posting, Batches, send_vars
<1>3. UNCHANGED Channel!channel
  BY <1>2 DEF Channel!channel
<1>4. SendOrder'
  BY <1>2 DEF SendInv, SendPathInv, SendOrder
<1>5. ListInv'
  BY <1>1, <1>2 DEF SendInv, SendPathInv, ListInv
<1>6. NotStarted' => NotStarted /\ ~is_connected_
  BY DEF NotStarted, SendInv, DisconnectInv
<1>7. FlagInv'
  <2> USE <1>2, <1>6 DEF SendInv, SendPathInv, FlagInv
  <2>1. queued'["send"] = 0
    OBVIOUS
  <2>2. (send_queue_ # <<>> => is_register_send_)'
    OBVIOUS
  <2>3. \A u \in Threads : Sending(u)' => Sending(u)
    BY DEF Sending
  <2>4. (is_register_send_ => Stopped \/ posted["send"] > 0 \/ \E u \in Threads : Sending(u))'
    BY DEF Stopped, Sending
  <2>5. (lost # <<>> => /\ is_register_send_ /\ posted["send"] = 0
                        /\ \A u \in Threads : ~Sending(u))'
    BY <2>3
  <2>6. NotStarted' => ~is_register_send_' /\ \A u \in Threads : pc'[u] # "send_push"
    OBVIOUS
  <2> QED BY <2>1, <2>2, <2>4, <2>5, <2>6
<1> QED BY <1>3, <1>4, <1>5, <1>7 DEF SendPathInv

LEMMA RunRecvSendPath ==
    ASSUME SendInv, NEW t \in Threads, RunRecv(t)
    PROVE  SendPathInv' /\ UNCHANGED Channel!channel
<1>0. Caller(t) \in {"idle", "pr_rest"}  BY CallerLeaves
<1> USE <1>0, SendPathQuiet DEF SendInv, SendPathInv, FlagInv, NotStarted, TypeOK,
        Step, SendPC, ref_vars, io_vars
<1>1. CASE Start(t)                 BY <1>1 DEF Start
<1>2. CASE RegisterRecvCheck(t)     BY <1>2 DEF RegisterRecvCheck
<1>3. CASE RegisterRecvOwn(t)       BY <1>3 DEF RegisterRecvOwn
<1>4. CASE RegisterRecvPost(t)      BY <1>4, ZenonT(60) DEF RegisterRecvPost, Pending, Done
<1>5. CASE ProcessRecvReset(t)      BY <1>5 DEF ProcessRecvReset
<1>6. CASE ProcessRecvData(t)       BY <1>6 DEF ProcessRecvData
<1>7. CASE OnRecv(t)                BY <1>7 DEF OnRecv
<1>8. CASE ProcessRecvRest(t)       BY <1>8 DEF ProcessRecvRest
<1> QED BY <1>1, <1>2, <1>3, <1>4, <1>5, <1>6, <1>7, <1>8 DEF RunRecv

LEMMA RunDisconnectSendPath ==
    ASSUME SendInv, NEW t \in Threads, RunDisconnect(t)
    PROVE  SendPathInv' /\ UNCHANGED Channel!channel
<1>0. Caller(t) \in {"idle", "pr_rest"}  BY CallerLeaves
<1> USE <1>0, SendPathQuiet DEF SendInv, SendPathInv, FlagInv, NotStarted, TypeOK,
        Step, SendPC, ref_vars, io_vars
<1>1. CASE Disconnect(t)               BY <1>1 DEF Disconnect
<1>2. CASE RegisterDisconnectOwn(t)    BY <1>2 DEF RegisterDisconnectOwn
<1>3. CASE RegisterDisconnectPost(t)   BY <1>3 DEF RegisterDisconnectPost, Pending, Done
<1>4. CASE ProcessDisconnectReset(t)   BY <1>4 DEF ProcessDisconnectReset
<1>5. CASE ProcessDisconnectRemove(t)  BY <1>5 DEF ProcessDisconnectRemove
<1>6. CASE SocketIOErrorHandler(t)     BY <1>6 DEF SocketIOErrorHandler
<1> QED BY <1>1, <1>2, <1>3, <1>4, <1>5, <1>6 DEF RunDisconnect

LEMMA CallSendPath ==
    ASSUME SendInv, NEW a \in Apps, Call(a)
    PROVE  SendPathInv' /\ UNCHANGED Channel!channel
<1> USE SendPathQuiet DEF SendInv, SendPathInv, FlagInv, NotStarted, TypeOK, Step,
        SendPC, ref_vars, io_vars
<1>1. CASE ProcessConnect(a)  BY <1>1 DEF ProcessConnect
<1>2. CASE FindSession(a)     BY <1>2 DEF FindSession
<1>3. CASE CallSend(a)        BY <1>3 DEF CallSend
<1>4. CASE CallDisconnect(a)  BY <1>4 DEF CallDisconnect
<1> QED BY <1>1, <1>2, <1>3, <1>4 DEF Call

LEMMA WorkerSendPath ==
    ASSUME SendInv,
           \/ \E t \in Threads : DropRef(t)
           \/ \E w \in Workers : AcceptSession(w)
           \/ \E w \in Workers, e \in Events \ {"send"} : Dispatch(w, e)
    PROVE  SendPathInv' /\ UNCHANGED Channel!channel
<1> USE SendPathQuiet DEF SendInv, SendPathInv, FlagInv, NotStarted, TypeOK, Step,
        SendPC, ref_vars, io_vars
<1>1. ASSUME NEW t \in Threads, DropRef(t) PROVE SendPathInv' /\ UNCHANGED Channel!channel
  BY <1>1 DEF DropRef
<1>2. ASSUME NEW w \in Workers, AcceptSession(w)
      PROVE  SendPathInv' /\ UNCHANGED Channel!channel
  BY <1>2 DEF AcceptSession
<1>3. ASSUME NEW w \in Workers, NEW e \in Events \ {"send"}, Dispatch(w, e)
      PROVE  SendPathInv' /\ UNCHANGED Channel!channel
  BY <1>3 DEF Dispatch, Handler
<1> QED BY <1>1, <1>2, <1>3

-----------------------------------------------------------------------------
(***************************************************************************)
(* Steps of the send path.                                                 *)
(***************************************************************************)

\* While a thread sends it is alone.
LEMMA OnlySender ==
    ASSUME SendInv, NEW t \in Threads, Sending(t)
    PROVE  /\ posted["send"] = 0 /\ queued["send"] = 0
           /\ lost = <<>> /\ is_register_send_ /\ ~NotStarted
           /\ \A u \in Threads \ {t} : ~Sending(u)
BY DEF SendInv, SendPathInv, FlagInv, SendExclusive, TypeOK

\* ... so, outside of WSASend and of the start of its handler, no buffer is
\* with the system.
LEMMA NothingOut ==
    ASSUME SendInv, NEW t \in Threads, Sending(t), pc[t] \notin {"rs_post", "ps_reset"}
    PROVE  /\ ~InFlight /\ ~Posting /\ send_buffer_list_ = <<>>
           /\ Unsent = <<>> /\ Batches = <<>>
<1>1. /\ posted["send"] = 0 /\ queued["send"] = 0
      /\ \A u \in Threads : pc[u] \notin {"rs_post", "ps_reset"}
  BY OnlySender DEF Sending, SendPC
<1>2. ~InFlight /\ ~Posting
  BY <1>1 DEF InFlight, Posting
<1> QED BY <1>2 DEF SendInv, SendPathInv, ListInv, Unsent, Posting, Batches

LEMMA SendCheckPath ==
    ASSUME SendInv, NEW t \in Threads,
           SendCheck(t) \/ RegisterSendOwn(t) \/ ProcessSendBytes(t)
    PROVE  SendPathInv' /\ UNCHANGED Channel!channel
<1>0. Caller(t) \in {"idle", "pr_rest"}  BY CallerLeaves
<1> USE <1>0, SendPathQuiet DEF SendInv, SendPathInv, FlagInv, NotStarted, TypeOK,
        Step, SendPC, ref_vars, io_vars
<1>1. CASE SendCheck(t)         BY <1>1 DEF SendCheck
<1>2. CASE RegisterSendOwn(t)   BY <1>2 DEF RegisterSendOwn
<1>3. CASE ProcessSendBytes(t)  BY <1>3 DEF ProcessSendBytes
<1> QED BY <1>1, <1>2, <1>3

LEMMA SendPushPath ==
    ASSUME SendInv, NEW t \in Threads, SendPush(t)
    PROVE  SendPathInv' /\ Channel!Send
<1>0. Caller(t) \in {"idle", "pr_rest"}  BY CallerLeaves
<1>1. /\ pc[t] = "send_push" /\ ~Sending(t) /\ ~NotStarted
      /\ accepted' = accepted + 1
      /\ send_queue_' = Append(send_queue_, accepted + 1)
      /\ is_register_send_' = TRUE
      /\ UNCHANGED <<send_buffer_list_, submitted, lost, posted, queued, fresh,
                     is_connected_>>
      /\ \A u \in Threads \ {t} : pc'[u] = pc[u]
      /\ pc'[t] = IF is_register_send_ THEN Caller(t) ELSE "rs_own"
  BY DEF SendPush, Step, Sending, SendPC, io_vars, SendInv, SendPathInv, FlagInv,
         NotStarted, TypeOK
<1>2. (Posting' <=> Posting) /\ (InFlight' <=> InFlight)
  BY <1>0, <1>1 DEF Posting, InFlight
<1>3. Unsent' = Unsent /\ Batches' = Batches
  BY <1>1, <1>2 DEF Unsent, Posting, Batches
<1>4. /\ accepted \in Nat /\ accepted + 1 \in Nat
      /\ send_queue_ \in Seq(Nat) /\ Unsent \in Seq(Nat)
      /\ submitted \in Seq(Nat) /\ lost \in Seq(Nat)
  BY DEF SendInv, TypeOK, Unsent
<1>5. SendOrder'
  <2>1. (submitted \o lost) \o Unsent \in Seq(Nat)
    BY <1>4
  <2>2. ((submitted \o lost) \o Unsent) \o Append(send_queue_, accepted + 1)
          = Append(((submitted \o lost) \o Unsent) \o send_queue_, accepted + 1)
    BY <1>4, <2>1, AppendBehind, SMTT(20)
  <2>3. ((submitted \o lost) \o Unsent) \o send_queue_ = [i \in 1 .. accepted |-> i]
    BY DEF SendInv, SendPathInv, SendOrder
  <2>4. Append([i \in 1 .. accepted |-> i], accepted + 1) = [i \in 1 .. accepted + 1 |-> i]
    BY <1>4, AppendNumber
  <2> QED BY <1>1, <1>3, <2>2, <2>3, <2>4 DEF SendOrder
<1>6. ListInv'
  <2>1. send_queue_' # <<>>
    BY <1>1, <1>4
  <2> QED BY <1>1, <1>2, <1>3, <2>1 DEF SendInv, SendPathInv, ListInv
<1>7. FlagInv'
  <2> USE <1>0, <1>1 DEF SendInv, SendPathInv, FlagInv
  <2>1. ~NotStarted'
    BY DEF NotStarted
  <2>2. \A u \in Threads \ {t} : Sending(u)' <=> Sending(u)
    BY DEF Sending
  <2>3. (is_register_send_ => Stopped \/ posted["send"] > 0 \/ \E u \in Threads : Sending(u))'
    <3>1. CASE is_register_send_
      BY <2>2, <3>1 DEF Stopped
    <3>2. CASE ~is_register_send_
      BY <3>2 DEF Sending, SendPC
    <3> QED BY <3>1, <3>2
  <2>4. (lost # <<>> => /\ is_register_send_ /\ posted["send"] = 0
                        /\ \A u \in Threads : ~Sending(u))'
    BY <2>2 DEF Sending, SendPC
  <2> QED BY <2>1, <2>3, <2>4
<1>8. Channel!Send
  <2>1. (Unsent \o send_queue_)' = Append(Unsent \o send_queue_, accepted + 1)
    BY <1>1, <1>3, <1>4, AppendBehind, SMTT(20)
  <2> QED BY <1>1, <1>3, <2>1 DEF Channel!Send
<1> QED BY <1>5, <1>6, <1>7, <1>8 DEF SendPathInv

LEMMA RegisterSendDrainPath ==
    ASSUME SendInv, NEW t \in Threads, RegisterSendDrain(t)
    PROVE  SendPathInv' /\ UNCHANGED Channel!channel
<1>1. /\ pc[t] = "rs_drain" /\ Sending(t)
      /\ send_buffer_list_' = send_buffer_list_ \o send_queue_
      /\ send_queue_' = <<>>
      /\ UNCHANGED <<is_register_send_, accepted, submitted, lost, posted, queued,
                     fresh, is_connected_>>
      /\ \A u \in Threads \ {t} : pc'[u] = pc[u]
      /\ pc'[t] = "rs_post"
  BY DEF RegisterSendDrain, Step, Sending, SendPC, io_vars, SendInv, TypeOK
<1>2. /\ ~InFlight /\ send_buffer_list_ = <<>> /\ Unsent = <<>> /\ Batches = <<>>
  BY <1>1, NothingOut
<1>3. /\ posted["send"] = 0 /\ queued["send"] = 0
      /\ lost = <<>> /\ is_register_send_ /\ ~NotStarted
      /\ \A u \in Threads \ {t} : ~Sending(u)
  BY <1>1, OnlySender
<1>4. /\ send_queue_ \in Seq(Nat) /\ send_queue_ # <<>>
      /\ submitted \in Seq(Nat)
  BY <1>1 DEF SendInv, SendPathInv, TypeOK, ListInv
<1>5. send_buffer_list_' = send_queue_
  BY <1>1, <1>2, <1>4
<1>6. Posting' /\ ~InFlight'
  <2>1. \A u \in Threads : pc'[u] # "ps_reset"
    BY <1>1, <1>3 DEF Sending, SendPC
  <2> QED BY <1>1, <1>3, <2>1 DEF Posting, InFlight
<1>7. Unsent' = send_queue_ /\ Batches' = <<>>
  BY <1>5, <1>6 DEF Unsent, Posting, Batches
<1>8. (Unsent \o send_queue_)' = Unsent \o send_queue_
  BY <1>1, <1>2, <1>4, <1>7
<1>9. SendOrder'
  <2>1. submitted \o lost = submitted
    BY <1>3, <1>4
  <2>2. submitted \o <<>> = submitted
    BY <1>4
  <2>3. submitted \o send_queue_ \in Seq(Nat) /\ (submitted \o send_queue_) \o <<>> = submitted \o send_queue_
    BY <1>4
  <2>4. ((submitted \o lost) \o Unsent) \o send_queue_ = submitted \o send_queue_
    BY <1>2, <2>1, <2>2
  <2>5. (((submitted \o lost) \o Unsent) \o send_queue_)' = submitted \o send_queue_
    BY <1>1, <1>7, <2>1, <2>3
  <2> QED BY <1>1, <2>4, <2>5 DEF SendInv, SendPathInv, SendOrder
<1>10. ListInv'
  <2>1. \A u \in Threads : pc'[u] \notin {"rs_own", "rs_drain"}
    BY <1>1, <1>3 DEF Sending, SendPC
  <2>2. (InFlight \/ Posting <=> send_buffer_list_ # <<>>)'
    BY <1>4, <1>5, <1>6
  <2>3. (\E d \in Seq(Nat) : submitted = d \o Batches)'
    BY <1>1, <1>4, <1>7
  <2> QED BY <2>1, <2>2, <2>3 DEF ListInv
<1>11. FlagInv'
  <2>1. ~NotStarted'
    BY <1>1, <1>3 DEF NotStarted
  <2>2. Sending(t)'
    BY <1>1 DEF Sending, SendPC
  <2> QED BY <1>1, <1>3, <2>1, <2>2 DEF FlagInv
<1>12. UNCHANGED Channel!channel
  BY <1>1, <1>2, <1>7, <1>8 DEF Channel!channel
<1> QED BY <1>9, <1>10, <1>11, <1>12 DEF SendPathInv

LEMMA RegisterSendPostPath ==
    ASSUME SendInv, NEW t \in Threads, RegisterSendPost(t), NoSecondSendPacket'
    PROVE  SendPathInv' /\ \E n \in 1 .. Len(Unsent \o send_queue_) :
                              Channel!Submit(n) \/ Channel!Lose(n)
<1>1. /\ pc[t] = "rs_post" /\ Sending(t)
      /\ UNCHANGED <<fresh, is_connected_, is_register_send_, send_queue_, accepted>>
  BY DEF RegisterSendPost, Sending, SendPC
<1>2. /\ posted["send"] = 0 /\ queued["send"] = 0
      /\ lost = <<>> /\ is_register_send_ /\ ~NotStarted
      /\ \A u \in Threads \ {t} : ~Sending(u)
  BY <1>1, OnlySender
<1>3. /\ send_queue_ \in Seq(Nat) /\ send_buffer_list_ \in Seq(Nat)
      /\ submitted \in Seq(Nat) /\ pc \in [Threads -> ControlPoints]
      /\ posted \in [Events -> Nat] /\ queued \in [Events -> Nat]
  BY DEF SendInv, TypeOK
<1>4. Posting /\ ~InFlight
  BY <1>1, <1>2 DEF Posting, InFlight, Sending, SendPC
<1>5. /\ send_buffer_list_ # <<>>
      /\ Unsent = send_buffer_list_ /\ Batches = <<>>
  BY <1>4 DEF SendInv, SendPathInv, ListInv, Unsent, Posting, Batches
<1>6. /\ Len(send_buffer_list_) \in 1 .. Len(Unsent \o send_queue_)
      /\ SubSeq(Unsent \o send_queue_, 1, Len(send_buffer_list_)) = send_buffer_list_
      /\ SubSeq(Unsent \o send_queue_, Len(send_buffer_list_) + 1, Len(Unsent \o send_queue_))
            = send_queue_
  BY <1>3, <1>5, SplitConcat, SMTT(20)
<1>7. SubSeq(submitted, 1, Len(submitted) - Len(Batches)) = submitted
  BY <1>3, <1>5
<1>8. /\ submitted \o lost = submitted
      /\ (submitted \o send_buffer_list_) \o send_queue_ = [i \in 1 .. accepted |-> i]
  BY <1>2, <1>3, <1>5 DEF SendInv, SendPathInv, SendOrder
<1>9. ~NotStarted' /\ \A u \in Threads \ {t} : pc'[u] = pc[u] /\ ~Sending(u)'
  <2>1. /\ \A u \in Threads \ {t} : pc'[u] = pc[u]
        /\ pc'[t] \in {"idle", "pr_rest", "ps_reset", "io_error"}
    <3>1. Caller(t) \in {"idle", "pr_rest"}
      BY CallerLeaves
    <3>2. Pending(t, "send") \/ Done(t, "send", "ps_reset") \/ Step(t, "rs_post", "io_error")
      BY ONLY RegisterSendPost(t) DEF RegisterSendPost
    <3> QED BY <1>3, <3>1, <3>2 DEF Pending, Done, Step
  <2> QED BY <1>1, <1>2, <2>1 DEF NotStarted, Sending
<1>10. CASE /\ \/ Pending(t, "send")
               \/ "done" \in SendOutcomes /\ Done(t, "send", "ps_reset")
            /\ submitted' = submitted \o send_buffer_list_
            /\ UNCHANGED <<send_buffer_list_, lost, owner>>
  <2>1. /\ queued'["send"] = 0
        /\ \/ posted'["send"] = 1 /\ ~Sending(t)'
           \/ posted'["send"] = 0 /\ pc'[t] = "ps_reset"
    <3>1. CASE Pending(t, "send")
      <4>1. Caller(t) \in {"idle", "pr_rest"}
        BY CallerLeaves
      <4> QED BY <1>2, <1>3, <3>1, <4>1 DEF Pending, Step, Sending, SendPC
    <3>2. CASE "done" \in SendOutcomes /\ Done(t, "send", "ps_reset")
      BY <1>2, <1>3, <3>2 DEF Done, Step, NoSecondSendPacket
    <3> QED BY <1>10, <3>1, <3>2
  <2>2. InFlight' /\ ~Posting'
    BY <1>9, <2>1 DEF InFlight, Posting, Sending, SendPC
  <2>3. Unsent' = <<>> /\ Batches' = send_buffer_list_
    BY <1>10, <2>2 DEF Unsent, Posting, Batches
  <2>4. /\ SubSeq(submitted', 1, Len(submitted') - Len(Batches')) = submitted
        /\ submitted' = submitted \o Batches'
    BY <1>3, <1>10, <2>3, SuffixIsRest
  <2>5. (Unsent \o send_queue_)' = send_queue_
    BY <1>1, <1>3, <2>3
  <2>6. Channel!Submit(Len(send_buffer_list_))
    BY <1>1, <1>2, <1>5, <1>6, <1>7, <1>10, <2>3, <2>4, <2>5 DEF Channel!Submit, Channel!Batch
  <2>7. SendOrder'
    <3>1. submitted \o send_buffer_list_ \in Seq(Nat)
      BY <1>3
    <3>2. (submitted \o send_buffer_list_) \o <<>> = submitted \o send_buffer_list_
      BY <3>1
    <3> QED BY <1>1, <1>2, <1>8, <1>10, <2>3, <3>2 DEF SendOrder
  <2>8. ListInv'
    <3>1. \A u \in Threads : pc'[u] \notin {"rs_own", "rs_drain"}
      BY <1>9, <2>1 DEF Sending, SendPC
    <3>2. (InFlight \/ Posting <=> send_buffer_list_ # <<>>)'
      BY <1>5, <1>10, <2>2
    <3>3. (\E d \in Seq(Nat) : submitted = d \o Batches)'
      BY <1>3, <2>4
    <3> QED BY <3>1, <3>2, <3>3 DEF ListInv
  <2>9. FlagInv'
    <3>1. Sending(t)' \/ posted'["send"] > 0
      BY <2>1 DEF Sending, SendPC
    <3> QED BY <1>1, <1>2, <1>9, <1>10, <2>1, <3>1 DEF FlagInv
  <2> QED BY <1>6, <2>6, <2>7, <2>8, <2>9 DEF SendPathInv
<1>11. CASE /\ Step(t, "rs_post", "io_error")
            /\ send_buffer_list_' = <<>>
            /\ lost' = lost \o send_buffer_list_
            /\ UNCHANGED <<submitted, io_vars>>
  <2>1. lost' = send_buffer_list_ /\ UNCHANGED <<posted, queued>>
    BY <1>2, <1>3, <1>11 DEF io_vars
  <2>2. pc'[t] = "io_error" /\ ~Sending(t)'
    BY <1>3, <1>11 DEF Step, Sending, SendPC
  <2>3. ~InFlight' /\ ~Posting'
    BY <1>2, <1>9, <2>1, <2>2 DEF InFlight, Posting, Sending, SendPC
  <2>4. Unsent' = <<>> /\ Batches' = <<>>
    BY <2>3 DEF Unsent, Posting, Batches
  <2>5. (Unsent \o send_queue_)' = send_queue_
    BY <1>1, <1>3, <2>4
  <2>6. Channel!Lose(Len(send_buffer_list_))
    BY <1>1, <1>2, <1>5, <1>6, <1>7, <1>11, <2>1, <2>4, <2>5 DEF Channel!Lose, Channel!Batch
  <2>7. SendOrder'
    <3>1. submitted \o send_buffer_list_ \in Seq(Nat)
      BY <1>3
    <3>2. (submitted \o send_buffer_list_) \o <<>> = submitted \o send_buffer_list_
      BY <3>1
    <3> QED BY <1>1, <1>8, <1>11, <2>1, <2>4, <3>2 DEF SendOrder
  <2>8. ListInv'
    <3>1. \A u \in Threads : pc'[u] \notin {"rs_own", "rs_drain"}
      BY <1>9, <2>2 DEF Sending, SendPC
    <3>2. (\E d \in Seq(Nat) : submitted = d \o Batches)'
      BY <1>3, <1>11, <2>4
    <3> QED BY <1>11, <2>3, <3>1, <3>2 DEF ListInv
  <2>9. FlagInv'
    <3>1. Stopped'
      BY <1>5, <2>1 DEF Stopped
    <3> QED BY <1>1, <1>2, <1>9, <2>1, <2>2, <3>1 DEF FlagInv
  <2> QED BY <1>6, <2>6, <2>7, <2>8, <2>9 DEF SendPathInv
<1> QED BY ONLY RegisterSendPost(t), <1>10, <1>11 DEF RegisterSendPost

LEMMA ProcessSendResetPath ==
    ASSUME SendInv, NEW t \in Threads, ProcessSendReset(t)
    PROVE  SendPathInv' /\ Channel!Complete
<1>1. /\ pc[t] = "ps_reset" /\ Sending(t)
      /\ send_buffer_list_' = <<>>
      /\ UNCHANGED <<is_register_send_, send_queue_, accepted, submitted, lost,
                     posted, queued, fresh, is_connected_>>
      /\ \A u \in Threads \ {t} : pc'[u] = pc[u]
      /\ pc'[t] = "ps_bytes"
  BY DEF ProcessSendReset, Step, Sending, SendPC, io_vars, SendInv, TypeOK
<1>2. /\ posted["send"] = 0 /\ queued["send"] = 0
      /\ lost = <<>> /\ is_register_send_ /\ ~NotStarted
      /\ \A u \in Threads \ {t} : ~Sending(u)
  BY <1>1, OnlySender
<1>3. /\ submitted \in Seq(Nat) /\ send_buffer_list_ \in Seq(Nat)
  BY DEF SendInv, TypeOK
<1>4. InFlight /\ ~Posting /\ ~InFlight' /\ ~Posting'
  BY <1>1, <1>2 DEF InFlight, Posting, Sending, SendPC
<1>5. /\ Batches = send_buffer_list_ /\ Batches # <<>> /\ Unsent = <<>>
      /\ Batches' = <<>> /\ Unsent' = <<>>
  BY <1>4 DEF SendInv, SendPathInv, ListInv, Batches, Unsent, Posting
<1>6. /\ SubSeq(submitted, 1, Len(submitted) - Len(Batches)) \o Batches = submitted
      /\ SubSeq(submitted', 1, Len(submitted') - Len(Batches')) = submitted
  <2>1. PICK d \in Seq(Nat) : submitted = d \o Batches
    BY DEF SendInv, SendPathInv, ListInv
  <2>2. SubSeq(submitted, 1, Len(submitted) - Len(Batches)) = d
    BY <1>3, <1>5, <2>1, SuffixIsRest
  <2>3. SubSeq(submitted, 1, Len(submitted) - 0) = submitted
    BY <1>3
  <2> QED BY <1>1, <1>5, <2>1, <2>2, <2>3
<1>7. SendOrder'
  BY <1>1, <1>5 DEF SendInv, SendPathInv, SendOrder
<1>8. ListInv'
  <2>1. \A u \in Threads : pc'[u] \notin {"rs_own", "rs_drain"}
    BY <1>1, <1>2 DEF Sending, SendPC
  <2>2. (\E d \in Seq(Nat) : submitted = d \o Batches)'
    BY <1>1, <1>3, <1>5
  <2> QED BY <1>1, <1>4, <2>1, <2>2 DEF ListInv
<1>9. FlagInv'
  <2>1. ~NotStarted'
    BY <1>1, <1>2 DEF NotStarted
  <2>2. Sending(t)'
    BY <1>1 DEF Sending, SendPC
  <2> QED BY <1>1, <1>2, <2>1, <2>2 DEF FlagInv
<1>10. Channel!Complete
  BY <1>1, <1>5, <1>6 DEF Channel!Complete
<1> QED BY <1>7, <1>8, <1>9, <1>10 DEF SendPathInv

LEMMA ProcessSendCheckPath ==
    ASSUME SendInv, NEW t \in Threads, ProcessSendCheck(t)
    PROVE  SendPathInv' /\ UNCHANGED Channel!channel
<1>0. Caller(t) \in {"idle", "pr_rest"}  BY CallerLeaves
<1>1. /\ pc[t] = "ps_check" /\ Sending(t)
      /\ UNCHANGED <<send_queue_, send_buffer_list_, accepted, submitted, lost,
                     posted, queued, fresh, is_connected_>>
      /\ \A u \in Threads \ {t} : pc'[u] = pc[u]
      /\ \/ send_queue_ = <<>> /\ ~is_register_send_' /\ pc'[t] = Caller(t)
         \/ send_queue_ # <<>> /\ is_register_send_' /\ pc'[t] = "rs_own"
  <2>1. /\ pc[t] = "ps_check" /\ pc \in [Threads -> ControlPoints]
        /\ UNCHANGED <<send_queue_, send_buffer_list_, accepted, submitted, lost,
                     io_vars, fresh, is_connected_>>
        /\ \/ send_queue_ = <<>> /\ ~is_register_send_' /\ Step(t, "ps_check", Caller(t))
           \/ /\ send_queue_ # <<>> /\ is_register_send_' = is_register_send_
              /\ Step(t, "ps_check", "rs_own")
    <3>1. pc[t] = "ps_check"
      BY ONLY ProcessSendCheck(t) DEF ProcessSendCheck, Step
    <3>2. pc \in [Threads -> ControlPoints]
      BY DEF SendInv, TypeOK
    <3> QED BY ONLY ProcessSendCheck(t), <3>1, <3>2 DEF ProcessSendCheck
  <2>2. Sending(t) /\ is_register_send_
    BY <2>1, OnlySender DEF Sending, SendPC
  <2> QED BY <2>1, <2>2 DEF Step, io_vars
<1>2. /\ posted["send"] = 0 /\ queued["send"] = 0
      /\ lost = <<>> /\ is_register_send_ /\ ~NotStarted
      /\ \A u \in Threads \ {t} : ~Sending(u)
  BY <1>1, OnlySender
<1>3. /\ ~InFlight /\ ~Posting /\ send_buffer_list_ = <<>>
      /\ Unsent = <<>> /\ Batches = <<>>
  BY <1>1, NothingOut
<1>4. ~InFlight' /\ ~Posting'
  BY <1>0, <1>1, <1>2 DEF InFlight, Posting, Sending, SendPC
<1>5. Unsent' = <<>> /\ Batches' = <<>>
  BY <1>4 DEF Unsent, Posting, Batches
<1>6. SendOrder'
  BY <1>1, <1>3, <1>5 DEF SendInv, SendPathInv, SendOrder
<1>7. ListInv'
  <2>1. \A u \in Threads : pc'[u] \in {"rs_own", "rs_drain"} => send_queue_ # <<>>
    BY <1>0, <1>1, <1>2 DEF Sending, SendPC
  <2>2. (\E d \in Seq(Nat) : submitted = d \o Batches)'
    BY <1>1, <1>3, <1>5 DEF SendInv, SendPathInv, ListInv
  <2> QED BY <1>1, <1>3, <1>4, <2>1, <2>2 DEF ListInv
<1>8. FlagInv'
  <2>1. ~NotStarted'
    BY <1>0, <1>1, <1>2 DEF NotStarted
  <2>2. is_register_send_' => Sending(t)'
    BY <1>1 DEF Sending, SendPC
  <2> QED BY <1>1, <1>2, <2>1, <2>2 DEF FlagInv
<1>9. UNCHANGED Channel!channel
  BY <1>1, <1>3, <1>5 DEF Channel!channel
<1> QED BY <1>6, <1>7, <1>8, <1>9 DEF SendPathInv

LEMMA DispatchSendPath ==
    ASSUME SendInv, NEW w \in Workers, Dispatch(w, "send")
    PROVE  SendPathInv' /\ UNCHANGED Channel!channel
<1>1. /\ posted["send"] > 0 /\ posted' = [posted EXCEPT !["send"] = @ - 1]
      /\ UNCHANGED <<queued, fresh, is_connected_, is_register_send_, send_queue_,
                     send_buffer_list_, accepted, submitted, lost>>
      /\ \A u \in Threads \ {w} : pc'[u] = pc[u]
      /\ pc[w] = "idle" /\ pc'[w] = "ps_reset"
  BY DEF Dispatch, Handler, Step, send_vars, SendInv, SendPathInv, FlagInv, TypeOK
<1>2. /\ posted["send"] = 1 /\ posted'["send"] = 0 /\ queued["send"] = 0
      /\ lost = <<>> /\ is_register_send_ /\ ~NotStarted
      /\ \A u \in Threads : ~Sending(u)
  <2>1. posted["send"] \in Nat /\ queued["send"] = 0 /\ posted \in [Events -> Nat]
    BY DEF SendInv, SendPathInv, FlagInv, TypeOK
  <2>2. posted["send"] = 1 /\ posted'["send"] = 0
    BY <1>1, <2>1 DEF SendInv, SendExclusive
  <2>3. is_register_send_ /\ \A u \in Threads : ~Sending(u)
    BY <2>1, <2>2 DEF SendInv, SendExclusive
  <2> QED BY <2>1, <2>2, <2>3 DEF SendInv, SendPathInv, FlagInv
<1>3. InFlight /\ InFlight' /\ ~Posting /\ ~Posting'
  BY <1>1, <1>2 DEF InFlight, Posting, Sending, SendPC
<1>4. Unsent' = Unsent /\ Batches' = Batches
  BY <1>1, <1>3 DEF Unsent, Posting, Batches
<1>5. SendOrder'
  BY <1>1, <1>4 DEF SendInv, SendPathInv, SendOrder
<1>6. ListInv'
  <2>1. \A u \in Threads : pc'[u] \notin {"rs_own", "rs_drain"}
    BY <1>1, <1>2 DEF Sending, SendPC
  <2> QED BY <1>1, <1>3, <1>4, <2>1 DEF SendInv, SendPathInv, ListInv
<1>7. FlagInv'
  <2>1. ~NotStarted'
    BY <1>1, <1>2 DEF NotStarted
  <2>2. Sending(w)'
    BY <1>1 DEF Sending, SendPC
  <2> QED BY <1>1, <1>2, <2>1, <2>2 DEF FlagInv
<1>8. UNCHANGED Channel!channel
  BY <1>1, <1>4 DEF Channel!channel
<1> QED BY <1>5, <1>6, <1>7, <1>8 DEF SendPathInv

-----------------------------------------------------------------------------
(***************************************************************************)
(* Every step, and the theorems.                                           *)
(***************************************************************************)

LEMMA SendPathStep ==
    ASSUME SendInv, [Next]_vars, NoSecondSendPacket'
    PROVE  SendPathInv' /\ [Channel!Next]_(Channel!channel)
<1>1. ASSUME NEW t \in Threads, RunSend(t)
      PROVE  SendPathInv' /\ [Channel!Next]_(Channel!channel)
  <2>1. CASE SendCheck(t) \/ RegisterSendOwn(t) \/ ProcessSendBytes(t)
    BY <2>1, SendCheckPath
  <2>2. CASE SendPush(t)
    BY <2>2, SendPushPath DEF Channel!Next
  <2>3. CASE RegisterSendDrain(t)
    BY <2>3, RegisterSendDrainPath
  <2>4. CASE RegisterSendPost(t)
    BY <2>4, RegisterSendPostPath DEF Channel!Next
  <2>5. CASE ProcessSendReset(t)
    BY <2>5, ProcessSendResetPath DEF Channel!Next
  <2>6. CASE ProcessSendCheck(t)
    BY <2>6, ProcessSendCheckPath
  <2> QED BY <1>1, <2>1, <2>2, <2>3, <2>4, <2>5, <2>6 DEF RunSend
<1>2. ASSUME NEW w \in Workers, NEW e \in Events, Dispatch(w, e)
      PROVE  SendPathInv' /\ [Channel!Next]_(Channel!channel)
  <2>1. CASE e = "send"
    BY <1>2, <2>1, DispatchSendPath
  <2>2. CASE e # "send"
    BY <1>2, <2>2, WorkerSendPath
  <2> QED BY <2>1, <2>2
<1>3. CASE \/ \E t \in Threads : RunRecv(t) \/ RunDisconnect(t) \/ DropRef(t)
           \/ \E a \in Apps : Call(a)
           \/ \E w \in Workers : AcceptSession(w)
  BY <1>3, RunRecvSendPath, RunDisconnectSendPath, CallSendPath, WorkerSendPath
<1>4. CASE UNCHANGED vars
  <2>1. /\ UNCHANGED <<fresh, is_connected_, is_register_send_, send_queue_,
                       send_buffer_list_, accepted, submitted, lost, posted, queued, pc>>
        /\ \A t \in Threads : Sending(t)' <=> Sending(t)
    BY <1>4 DEF vars, send_vars, io_vars, Sending
  <2>2. (Posting' <=> Posting) /\ (InFlight' <=> InFlight)
    BY <2>1 DEF Posting, InFlight
  <2>3. Unsent' = Unsent /\ Batches' = Batches
    BY <2>1, <2>2 DEF Unsent, Posting, Batches
  <2>4. SendOrder' /\ ListInv' /\ FlagInv'
    BY <2>1, <2>2, <2>3
       DEF SendInv, SendPathInv, SendOrder, ListInv, FlagInv, Stopped, NotStarted
  <2> QED BY <2>1, <2>3, <2>4 DEF SendPathInv, Channel!channel
<1> QED BY <1>1, <1>2, <1>3, <1>4 DEF Next, Run

LEMMA SendPathInit == Init => SendPathInv /\ Channel!Init
<1> SUFFICES ASSUME Init PROVE SendPathInv /\ Channel!Init
  OBVIOUS
<1>1. /\ send_queue_ = <<>> /\ send_buffer_list_ = <<>> /\ submitted = <<>>
      /\ lost = <<>> /\ accepted = 0 /\ is_register_send_ = FALSE
      /\ posted["send"] = 0 /\ queued["send"] = 0
      /\ \A t \in Threads : pc[t] = "idle"
  BY DEF Init
<1>2. ~Posting /\ ~InFlight /\ Unsent = <<>> /\ Batches = <<>>
  BY <1>1 DEF Posting, InFlight, Unsent, Batches
<1>3. <<>> \in Seq(Nat) /\ <<>> \o <<>> = <<>> /\ SubSeq(<<>>, 1, Len(<<>>) - Len(<<>>)) = <<>>
  OBVIOUS
<1>4. SendOrder
  BY <1>1, <1>2, <1>3 DEF SendOrder
<1>5. ListInv
  BY <1>1, <1>2, <1>3 DEF ListInv
<1>6. FlagInv
  BY <1>1 DEF FlagInv, Sending, SendPC
<1> QED BY <1>1, <1>2, <1>3, <1>4, <1>5, <1>6 DEF SendPathInv, Channel!Init

LEMMA SendPathInvariant == Spec /\ []NoSecondSendPacket => []SendInv
<1>1. SendInv /\ [Next]_vars /\ NoSecondSendPacket' => SendPathInv'
  BY SendPathStep
<1>2. TypeOK /\ SendExclusive /\ DisconnectInv /\ SendPathInv <=> SendInv
  BY DEF SendInv
<1>3. Init => SendPathInv
  BY SendPathInit
<1> QED
  BY <1>1, <1>2, <1>3, TypeCorrect, SendExclusion, DisconnectInvariant, PTL DEF Spec

\* Buffers leave in the order in which Send pushed them, none twice and none
\* missing, whichever threads register, complete and push: in every behaviour
\* in which no WSASend that succeeds at once has its packet queued as well.
THEOREM SentInOrder == Spec /\ []NoSecondSendPacket => []SendOrder
<1>1. SendInv => SendOrder
  BY DEF SendInv, SendPathInv
<1> QED BY <1>1, SendPathInvariant, PTL

\* The event's list keeps the buffers of an outstanding WSASend referenced
\* until its handler runs, as long as no WSASend that succeeds at once has its
\* packet queued as well.  Without that condition it is false, as run
\* session_unskipped shows: the handler of the packet that should not be there
\* clears the list of the next WSASend.
THEOREM BatchesHeld == Spec /\ []NoSecondSendPacket => []BuffersHeld
<1>1. SendInv => BuffersHeld
  <2> SUFFICES ASSUME SendInv, posted["send"] > 0
               PROVE  /\ send_buffer_list_ # <<>>
                      /\ IsSuffix(send_buffer_list_, submitted)
    BY DEF BuffersHeld
  <2>1. posted["send"] \in Nat /\ queued["send"] \in Nat /\ send_buffer_list_ \in Seq(Nat)
    BY DEF SendInv, TypeOK
  <2>2. InFlight
    BY <2>1 DEF InFlight
  <2>3. send_buffer_list_ # <<>> /\ Batches = send_buffer_list_
    BY <2>2 DEF SendInv, SendPathInv, ListInv, Batches
  <2>4. PICK d \in Seq(Nat) : submitted = d \o send_buffer_list_
    BY <2>3 DEF SendInv, SendPathInv, ListInv
  <2> QED BY <2>1, <2>3, <2>4, SuffixIsRest
<1> QED BY <1>1, SendPathInvariant, PTL

\* A Send that finds the flag taken may leave its buffer in the queue: somebody
\* is sending, or is about to disconnect, unless the session is disconnected or
\* a WSASend has failed, after which nobody sends.  On the condition of
\* BatchesHeld.
THEOREM WakeUpsKept == Spec /\ []NoSecondSendPacket => []QueueHasSender
<1>1. SendInv => QueueHasSender
  BY DEF SendInv, SendPathInv, FlagInv, Stopped, QueueHasSender
<1> QED BY <1>1, SendPathInvariant, PTL

\* Session's send path is an ordered channel with one batch in flight, for
\* every number of threads and buffers, when a WSASend is pending or fails, and
\* when it succeeds at once without a packet of its own.
THEOREM KeepsChannel == Spec /\ []NoSecondSendPacket => ImplementsSendChannel
<1>1. Init => Channel!Init
  BY SendPathInit
<1>2. SendInv /\ [Next]_vars /\ NoSecondSendPacket' => [Channel!Next]_(Channel!channel)
  BY SendPathStep
<1> QED
  BY <1>1, <1>2, SendPathInvariant, PTL DEF Spec, ImplementsSendChannel, Channel!Spec

=============================================================================
