--------------------------- MODULE ConnectionProofs ---------------------------
(***************************************************************************)
(* For every number of senders and every size of the channels: nobody puts *)
(* a message into a closed channel, and a connection is a pipe. For any    *)
(* number of links between a gate and a back-end server: the entries of    *)
(* both sides are live, and the gate pings where it is registered.         *)
(***************************************************************************)
EXTENDS Connection, GateLink, SequenceTheorems, FiniteSetTheorems, TLAPS

\* The bound on the messages counts those that are about to be put.
Bounded == sent + Cardinality(readers) <= MaxSent

\* The inductive invariant: readers keep Close out, and each goroutine is in
\* one place.
IInv == TypeOK /\ NoPanic /\ Bounded

LEMMA NobodyIsNoMessage == Nobody \notin Nat
  BY ConnectionAssumption

LEMMA ReadersFinite ==
  ASSUME TypeOK
  PROVE  /\ IsFiniteSet(readers)
         /\ Cardinality(readers) \in Nat
<1>1. IsFiniteSet(readers)
  BY ConnectionAssumption, FS_Subset DEF TypeOK
<1> QED
  BY <1>1, FS_CardinalityType

LEMMA InitOK == Init => IInv
<1> SUFFICES ASSUME Init PROVE IInv
  OBVIOUS
<1>1. TypeOK
  <2>1. <<>> \in Seq(Nat) /\ Len(<<>>) = 0
    OBVIOUS
  <2>2. 0 <= SendBuf /\ 0 <= Wire /\ 0 \in 0 .. RecvBuf
    BY ConnectionAssumption
  <2> QED
    BY <2>1, <2>2 DEF Init, TypeOK
<1>2. Bounded
  BY FS_EmptySet, ConnectionAssumption DEF Init, Bounded
<1> QED
  BY <1>1, <1>2 DEF Init, IInv, NoPanic

-----------------------------------------------------------------------------
(* The type invariant, action by action.                                   *)

LEMMA TypeStep ==
  ASSUME TypeOK, [Next]_vars
  PROVE  TypeOK'
<1> USE NobodyIsNoMessage, ConnectionAssumption
<1>1. ASSUME NEW s \in Senders, SendLock(s) PROVE TypeOK'
  BY <1>1 DEF SendLock, TypeOK, peerVars
<1>2. ASSUME NEW s \in Senders, SendPut(s) PROVE TypeOK'
  <2>1. sent + 1 \in Nat
    BY DEF TypeOK
  <2>2. CASE Len(chanSendMsg) < SendBuf
    <3>1. /\ Append(chanSendMsg, sent + 1) \in Seq(Nat)
          /\ Len(Append(chanSendMsg, sent + 1)) = Len(chanSendMsg) + 1
      BY <2>1, AppendProperties DEF TypeOK
    <3>2. Len(chanSendMsg) \in Nat
      BY LenProperties DEF TypeOK
    <3>3. Len(Append(chanSendMsg, sent + 1)) <= SendBuf
      BY <2>2, <3>1, <3>2
    <3> QED
      BY <1>2, <2>1, <2>2, <3>1, <3>3 DEF SendPut, TypeOK, peerVars
  <2>3. CASE ~(Len(chanSendMsg) < SendBuf)
    BY <1>2, <2>3 DEF SendPut, TypeOK, peerVars
  <2> QED
    BY <2>2, <2>3
<1>3. ASSUME NEW c \in Closers \cup {RecvLoop}, CloseLock(c) PROVE TypeOK'
  BY <1>3 DEF CloseLock, TypeOK, peerVars
<1>4. CASE CloseUnlock
  BY <1>4 DEF CloseUnlock, TypeOK, peerVars
<1>5. CASE TakeSend
  <2>1. /\ Head(chanSendMsg) \in Nat /\ Tail(chanSendMsg) \in Seq(Nat)
        /\ Len(Tail(chanSendMsg)) = Len(chanSendMsg) - 1
    BY <1>5, HeadTailProperties DEF TakeSend, TypeOK
  <2>2. Len(chanSendMsg) \in Nat
    BY LenProperties DEF TypeOK
  <2>3. Len(Tail(chanSendMsg)) <= SendBuf
    BY <2>1, <2>2 DEF TypeOK
  <2> QED
    BY <1>5, <2>1, <2>3 DEF TakeSend, TypeOK, lockVars, peerVars
<1>6. CASE Write
  <2>1. CASE peer = "there"
    <3>1. sending \in Nat /\ Len(out) < Wire /\ out' = Append(out, sending)
      BY <1>6, <2>1 DEF Write, TypeOK
    <3>2. out' \in Seq(Nat) /\ Len(out') = Len(out) + 1
      BY <3>1, AppendProperties DEF TypeOK
    <3>3. Len(out) \in Nat
      BY LenProperties DEF TypeOK
    <3>4. Len(out') <= Wire
      BY <3>1, <3>2, <3>3
    <3> QED
      BY <1>6, <3>2, <3>4 DEF Write, TypeOK, lockVars, peerVars
  <2>2. CASE peer = "gone"
    BY <1>6, <2>2 DEF Write, TypeOK, lockVars, peerVars
  <2> QED
    BY <1>6, <2>1, <2>2 DEF Write
<1>7. CASE SendLoopEnd
  BY <1>7 DEF SendLoopEnd, TypeOK, lockVars, peerVars
<1>8. CASE ReadOne
  BY <1>8 DEF ReadOne, TypeOK, lockVars
<1>9. CASE ReadFails
  BY <1>9 DEF ReadFails, TypeOK, lockVars, peerVars
<1>10. CASE TakeRecv
  BY <1>10 DEF TakeRecv, TypeOK, lockVars, peerVars
<1>11. CASE PeerWrite
  BY <1>11 DEF PeerWrite, TypeOK, lockVars
<1>12. CASE PeerRead
  <2>1. /\ Head(out) \in Nat /\ Tail(out) \in Seq(Nat)
        /\ Len(Tail(out)) = Len(out) - 1
    BY <1>12, HeadTailProperties DEF PeerRead, TypeOK
  <2>2. Append(peerGot, Head(out)) \in Seq(Nat)
    BY <2>1, AppendProperties DEF TypeOK
  <2>3. Len(out) \in Nat
    BY LenProperties DEF TypeOK
  <2>4. Len(Tail(out)) <= Wire
    BY <2>1, <2>3 DEF TypeOK
  <2> QED
    BY <1>12, <2>1, <2>2, <2>4 DEF PeerRead, TypeOK, lockVars
<1>13. CASE PeerLeave
  BY <1>13 DEF PeerLeave, TypeOK, lockVars
<1>14. CASE UNCHANGED vars
  BY <1>14 DEF vars, TypeOK, lockVars, peerVars
<1> QED
  BY <1>1, <1>2, <1>3, <1>4, <1>5, <1>6, <1>7, <1>8, <1>9, <1>10, <1>11, <1>12, <1>13, <1>14
  DEF Next, SendLoopNext, RecvLoopNext

-----------------------------------------------------------------------------
(* The other two parts.                                                    *)

\* Only Close closes, and it waits until nobody is in Send; nobody enters
\* Send while the connection is closed.
LEMMA NoPanicStep ==
  ASSUME NoPanic, [Next]_vars
  PROVE  NoPanic'
<1>1. ASSUME NEW c \in Closers \cup {RecvLoop}, CloseLock(c) PROVE NoPanic'
  BY <1>1 DEF CloseLock, NoPanic
<1>2. ASSUME NEW s \in Senders, SendLock(s) PROVE NoPanic'
  BY <1>2 DEF SendLock, NoPanic
<1>3. ASSUME NEW s \in Senders, SendPut(s) PROVE NoPanic'
  BY <1>3 DEF SendPut, NoPanic
<1>4. CASE UNCHANGED <<isClosed, readers>>
  BY <1>4 DEF NoPanic
<1>5. \/ UNCHANGED <<isClosed, readers>>
      \/ \E s \in Senders : SendLock(s) \/ SendPut(s)
      \/ \E c \in Closers \cup {RecvLoop} : CloseLock(c)
  BY DEF Next, vars, lockVars, SendLoopNext, RecvLoopNext, CloseUnlock, TakeSend, Write,
         SendLoopEnd, ReadOne, ReadFails, TakeRecv, PeerWrite, PeerRead, PeerLeave
<1> QED
  BY <1>1, <1>2, <1>3, <1>4, <1>5

LEMMA BoundedStep ==
  ASSUME TypeOK, Bounded, [Next]_vars
  PROVE  Bounded'
<1>0. IsFiniteSet(readers) /\ Cardinality(readers) \in Nat /\ sent \in Nat /\ MaxSent \in Nat
  BY ReadersFinite, ConnectionAssumption DEF TypeOK
<1>1. ASSUME NEW s \in Senders, SendLock(s) PROVE Bounded'
  <2>1. sent + Cardinality(readers) < MaxSent /\ sent' = sent
    BY <1>1 DEF SendLock
  <2>2. Cardinality(readers') = Cardinality(readers) + 1
    BY <1>0, <1>1, FS_AddElement DEF SendLock
  <2> QED
    BY <1>0, <2>1, <2>2 DEF Bounded
<1>2. ASSUME NEW s \in Senders, SendPut(s) PROVE Bounded'
  <2>1. sent' \in {sent, sent + 1}
    BY <1>2 DEF SendPut
  <2>2. Cardinality(readers') = Cardinality(readers) - 1
    BY <1>0, <1>2, FS_RemoveElement DEF SendPut
  <2> QED
    BY <1>0, <2>1, <2>2 DEF Bounded
<1>3. CASE UNCHANGED <<readers, sent>>
  BY <1>3 DEF Bounded
<1>4. UNCHANGED <<readers, sent>> \/ \E s \in Senders : SendLock(s) \/ SendPut(s)
  BY DEF Next, vars, lockVars, peerVars, SendLoopNext, RecvLoopNext, CloseLock, CloseUnlock,
         TakeSend, Write, SendLoopEnd, ReadOne, ReadFails, TakeRecv, PeerWrite, PeerRead,
         PeerLeave
<1> QED
  BY <1>1, <1>2, <1>3, <1>4

LEMMA StepOK ==
  ASSUME IInv, [Next]_vars
  PROVE  IInv'
BY TypeStep, NoPanicStep, BoundedStep DEF IInv

THEOREM Invariance == Spec => []IInv
BY InitOK, StepOK, PTL DEF Spec

\* Every state of a connection is well-typed, no channel holds more than its size.
THEOREM TypeCorrect == Spec => []TypeOK
<1>1. IInv => TypeOK
  BY DEF IInv
<1> QED
  BY <1>1, Invariance, PTL

\* Send: the read lock keeps every goroutine from a closed channel.
THEOREM NeverPanics == Spec => []NoPanic
<1>1. IInv => NoPanic
  BY DEF IInv
<1> QED
  BY <1>1, Invariance, PTL

-----------------------------------------------------------------------------
(* The refinement. While the peer is there, what is not delivered is the    *)
(* sequence out \o Held \o chanSendMsg; the steps that move a message       *)
(* within it leave it as it is.                                            *)

\* The first message of a sequence and the others make up the sequence.
LEMMA HeadAndTail ==
  ASSUME NEW s \in Seq(Nat), s # <<>>
  PROVE  s = <<Head(s)>> \o Tail(s)
OBVIOUS

LEMMA TypesUsed ==
  ASSUME TypeOK
  PROVE  /\ out \in Seq(Nat) /\ Held \in Seq(Nat) /\ chanSendMsg \in Seq(Nat)
         /\ Held \o chanSendMsg \in Seq(Nat)
         /\ sent \in Nat
<1>1. Held \in Seq(Nat)
  BY DEF TypeOK, Held
<1> QED
  BY <1>1, ConcatProperties DEF TypeOK

\* Of what is to be delivered, the first message in the socket is the first.
LEMMA FirstOut ==
  ASSUME NEW s \in Seq(Nat), NEW t \in Seq(Nat), s # <<>>
  PROVE  /\ s \o t # <<>>
         /\ Head(s \o t) = Head(s)
         /\ Tail(s \o t) = Tail(s) \o t
OBVIOUS

LEMMA Regroup ==
  ASSUME NEW s \in Seq(Nat), NEW t \in Seq(Nat), NEW u \in Seq(Nat)
  PROVE  (s \o t) \o u = s \o (t \o u)
BY ConcatAssociative

LEMMA UndeliveredIs ==
  ASSUME TypeOK, peer = "there"
  PROVE  Undelivered = out \o (Held \o chanSendMsg)
<1>1. Undelivered = (out \o Held) \o chanSendMsg
  BY DEF Undelivered
<1> QED
  BY <1>1, TypesUsed, Regroup

LEMMA TakeSendStutters ==
  ASSUME TypeOK, TakeSend, peer = "there"
  PROVE  Undelivered' = Undelivered
<1>1. chanSendMsg # <<>> /\ Held = <<>> /\ Held' = <<Head(chanSendMsg)>>
  BY NobodyIsNoMessage, HeadTailProperties DEF TakeSend, Held, TypeOK
<1>2. Held \o chanSendMsg = chanSendMsg
  BY <1>1, ConcatEmptySeq DEF TypeOK
<1>3. Held' \o chanSendMsg' = chanSendMsg
  BY <1>1, HeadAndTail DEF TakeSend, TypeOK
<1>4. peer' = "there" /\ out' = out
  BY DEF TakeSend, peerVars
<1>5. Undelivered = out \o (Held \o chanSendMsg)
  BY UndeliveredIs
<1>6. Undelivered' = out' \o (Held' \o chanSendMsg')
  <2>1. Head(chanSendMsg) \in Nat /\ Tail(chanSendMsg) \in Seq(Nat)
    BY <1>1, HeadTailProperties DEF TypeOK
  <2>2. out' \in Seq(Nat) /\ Held' \in Seq(Nat) /\ chanSendMsg' \in Seq(Nat)
    BY <1>1, <1>4, <2>1 DEF TakeSend, TypeOK
  <2>3. Undelivered' = (out' \o Held') \o chanSendMsg'
    BY <1>4 DEF Undelivered
  <2> QED
    BY <2>2, <2>3, Regroup, Zenon
<1> QED
  BY <1>2, <1>3, <1>4, <1>5, <1>6

LEMMA WriteStutters ==
  ASSUME TypeOK, Write, peer = "there"
  PROVE  Undelivered' = Undelivered
<1>1. /\ sending \in Nat /\ Held = <<sending>> /\ Held' = <<>>
      /\ out' = Append(out, sending) /\ chanSendMsg' = chanSendMsg /\ peer' = peer
  BY NobodyIsNoMessage DEF Write, Held, TypeOK, peerVars
<1>2. out' = out \o Held /\ out' \in Seq(Nat)
  BY <1>1, AppendIsConcat, AppendProperties DEF TypeOK
<1>3. out' \o Held' = out \o Held
  BY <1>1, <1>2, ConcatEmptySeq
<1> QED
  BY <1>1, <1>3 DEF Undelivered

LEMMA PeerReadGets ==
  ASSUME TypeOK, PeerRead
  PROVE  Pipe!Get
<1>1. peer = "there" /\ peer' = "there" /\ out # <<>> /\ isClosed' = isClosed
  BY DEF PeerRead, lockVars
<1>2. Held' = Held /\ chanSendMsg' = chanSendMsg /\ out' = Tail(out)
  BY DEF PeerRead, Held
<1>3. out' \in Seq(Nat)
  BY <1>1, <1>2, HeadTailProperties DEF TypeOK
<1>4. Undelivered = out \o (Held \o chanSendMsg)
  BY <1>1, UndeliveredIs
<1>5. Undelivered' = out' \o (Held \o chanSendMsg)
  <2>1. Undelivered' = (out' \o Held) \o chanSendMsg
    BY <1>1, <1>2 DEF Undelivered
  <2> QED
    BY <1>3, <2>1, TypesUsed, Regroup
<1>6. /\ Undelivered # <<>> /\ Head(Undelivered) = Head(out)
      /\ Tail(Undelivered) = Undelivered'
  BY <1>1, <1>2, <1>4, <1>5, TypesUsed, FirstOut
<1> QED
  BY <1>1, <1>6 DEF PeerRead, Pipe!Get, Line

\* What the pipe sees.
PipeView == <<Undelivered, peerGot, Line>>

LEMMA SendPutPuts ==
  ASSUME IInv, NEW s \in Senders, SendPut(s)
  PROVE  [Pipe!PipeNext]_PipeView
<1>0. TypeOK /\ NoPanic /\ Bounded
  BY DEF IInv
<1>1. ~isClosed /\ isClosed' = isClosed /\ peer' = peer /\ peerGot' = peerGot
  BY <1>0 DEF SendPut, NoPanic, peerVars
<1>2. out' = out /\ Held' = Held
  BY DEF SendPut, Held
<1>3. CASE chanSendMsg' = chanSendMsg
  BY <1>1, <1>2, <1>3 DEF Undelivered, PipeView, Line
<1>4. CASE peer = "gone"
  BY <1>1, <1>2, <1>4 DEF Undelivered, PipeView, Line
<1>5. CASE peer = "there" /\ chanSendMsg' = Append(chanSendMsg, sent + 1)
  <2>1. sent + 1 \in 1 .. MaxSent
    <3>1. Cardinality(readers) \in Nat /\ IsFiniteSet(readers)
      BY <1>0, ReadersFinite
    <3>2. Cardinality(readers) # 0
      BY <3>1, FS_EmptySet DEF SendPut
    <3>3. sent \in Nat /\ MaxSent \in Nat
      BY <1>0, ConnectionAssumption DEF TypeOK
    <3> QED
      BY <1>0, <3>1, <3>2, <3>3 DEF Bounded
  <2>2. chanSendMsg' = chanSendMsg \o <<sent + 1>>
    BY <1>0, <1>5, AppendIsConcat DEF TypeOK
  <2>3. out \o Held \in Seq(Nat) /\ <<sent + 1>> \in Seq(Nat)
    BY <1>0, TypesUsed, ConcatProperties
  <2>4. Undelivered' = (out \o Held) \o (chanSendMsg \o <<sent + 1>>)
    BY <1>1, <1>2, <1>5, <2>2 DEF Undelivered
  <2>5. Undelivered = (out \o Held) \o chanSendMsg /\ Undelivered \in Seq(Nat)
    BY <1>0, <1>5, <2>3, TypesUsed, ConcatProperties DEF Undelivered
  <2>6. Undelivered' = Undelivered \o <<sent + 1>>
    <3>1. chanSendMsg \in Seq(Nat)
      BY <1>0, TypesUsed
    <3>2. ((out \o Held) \o chanSendMsg) \o <<sent + 1>>
            = (out \o Held) \o (chanSendMsg \o <<sent + 1>>)
      BY <2>3, <3>1, Regroup, Zenon
    <3> QED
      BY <2>4, <2>5, <3>2, Zenon
  <2>7. Undelivered' = Append(Undelivered, sent + 1)
    BY <1>0, <2>5, <2>6, TypesUsed, AppendIsConcat
  <2>8. Pipe!Put(sent + 1)
    BY <1>1, <1>5, <2>7 DEF Pipe!Put, Line
  <2> QED
    BY <2>1, <2>8 DEF Pipe!PipeNext
<1> QED
  BY <1>0, <1>3, <1>4, <1>5 DEF SendPut, TypeOK

LEMMA StepRefines ==
  ASSUME IInv, [Next]_vars
  PROVE  [Pipe!PipeNext]_PipeView
<1>0. TypeOK /\ NoPanic /\ Bounded
  BY DEF IInv
<1>1. ASSUME NEW s \in Senders, SendPut(s) PROVE [Pipe!PipeNext]_PipeView
  BY <1>1, SendPutPuts DEF PipeView
<1>2. ASSUME NEW c \in Closers \cup {RecvLoop}, CloseLock(c)
      PROVE  [Pipe!PipeNext]_PipeView
  <2>1. Undelivered' = Undelivered /\ peerGot' = peerGot /\ peer' = peer
    BY <1>2 DEF CloseLock, Undelivered, Held, peerVars
  <2>2. CASE isClosed' = isClosed
    BY <2>1, <2>2 DEF PipeView, Line
  <2>3. CASE ~isClosed /\ isClosed' /\ peer = "there"
    <3>1. Pipe!Shut
      BY <2>1, <2>3 DEF Pipe!Shut, Line
    <3> QED
      BY <3>1 DEF Pipe!PipeNext
  <2>4. CASE peer = "gone"
    BY <2>1, <2>4, <1>2 DEF PipeView, CloseLock, Line
  <2> QED
    BY <1>0, <1>2, <2>2, <2>3, <2>4 DEF CloseLock, TypeOK
<1>3. CASE PeerRead
  BY <1>0, <1>3, PeerReadGets DEF Pipe!PipeNext
<1>4. CASE PeerLeave
  <2>1. Pipe!Break
    BY <1>4 DEF PeerLeave, Pipe!Break, Undelivered, lockVars, Line
  <2> QED
    BY <2>1 DEF Pipe!PipeNext
<1>5. CASE TakeSend
  BY <1>0, <1>5, TakeSendStutters DEF PipeView, TypeOK, TakeSend, peerVars, lockVars, Undelivered, Line
<1>6. CASE Write
  BY <1>0, <1>6, WriteStutters DEF PipeView, TypeOK, Write, peerVars, lockVars, Undelivered, Line
<1> DEFINE Seen == <<out, sending, chanSendMsg, peerGot, peer, isClosed>>
<1>7. CASE UNCHANGED Seen
  BY <1>7 DEF PipeView, Undelivered, Held, Line
<1>8. \/ UNCHANGED Seen \/ TakeSend \/ Write \/ PeerRead \/ PeerLeave
      \/ \E s \in Senders : SendPut(s)
      \/ \E c \in Closers \cup {RecvLoop} : CloseLock(c)
  BY DEF Next, vars, lockVars, peerVars, SendLoopNext, RecvLoopNext, SendLock, CloseUnlock,
         SendLoopEnd, ReadOne, ReadFails, TakeRecv, PeerWrite
<1> QED
  BY <1>1, <1>2, <1>3, <1>4, <1>5, <1>6, <1>7, <1>8

LEMMA InitRefines == Init => Pipe!PipeInit
BY ConcatEmptySeq DEF Init, Pipe!PipeInit, Undelivered, Held, Line

\* The connection implements the pipe: what Send takes is delivered in order,
\* once and without gaps until the peer is gone, Close or no Close.
THEOREM Implements == Spec => ImplementsPipe
<1>1. IInv /\ [Next]_vars => [Pipe!PipeNext]_PipeView
  BY StepRefines
<1> QED
  BY <1>1, InitRefines, Invariance, PTL DEF Spec, ImplementsPipe, Pipe!PipeSpec, PipeView

-----------------------------------------------------------------------------
(* GateLink, for any number of connections between a gate and a back-end    *)
(* server, of crashes and of cuts.                                          *)

\* A link the server has accepted the gate on: the gate pings, or will when it has
\* handled the answer.
Told(l) ==
  \/ pinging[l]
  \/ \E k \in 1 .. Len(toGate[l]) : toGate[l][k] = "lobby2GateRegisterSucc"

\* Why a ping means registered: whoever has been told so has its entry until the
\* server's loop on that link ends.
ToldIsRegistered ==
  /\ \A l \in Links : pinging[l] => gate[l] = "running"
  /\ \A l \in Links : server[l] = "backlog" => toGate[l] = <<>> /\ ~pinging[l]
  /\ \A l \in Links : server[l] = "running" /\ Told(l) => mapGate = l

LinkInv == LinkTypeOK /\ EntriesLive /\ ToldIsRegistered

Answers == {"lobby2GateRegisterSucc", "lobby2GateRegisterFail"}

-----------------------------------------------------------------------------
(* Types.                                                                   *)

LEMMA LinkTypeInit == LinkInit => LinkTypeOK
BY LinkAssumption DEF LinkInit, LinkTypeOK, LinkAssumption

\* What is sent to a link is queued there or lost.
LEMMA SentType ==
  ASSUME NEW M, NEW queue \in [Links -> Seq(M)], NEW l \in Links, NEW m \in M,
         NEW heard \in BOOLEAN
  PROVE  Sent(queue, l, m, heard) \in [Links -> Seq(M)]
<1>1. Append(queue[l], m) \in Seq(M)
  OBVIOUS
<1>2. QED
  BY <1>1 DEF Sent

\* No step of either process, of the network or of a crash leaves the types.
LEMMA LinkTypeStep ==
  ASSUME LinkTypeOK, [LinkNext]_linkVars
  PROVE  LinkTypeOK'
<1>1. ASSUME NEW l \in Links, KeepAlive(l)
      PROVE  LinkTypeOK'
  BY <1>1 DEF KeepAlive, LinkTypeOK
<1>2. ASSUME NEW l \in Links, Run(l)
      PROVE  LinkTypeOK'
  <2>1. toServer' \in [Links -> Seq({"gate2LobbyRegister"})]
    BY <1>2, SentType DEF Run, LinkTypeOK
  <2>2. QED
    BY <1>2, <2>1 DEF Run, LinkTypeOK, serverVars
<1>3. ASSUME NEW l \in Links, GateReadFails(l)
      PROVE  LinkTypeOK'
  BY <1>3 DEF GateReadFails, LinkTypeOK, serverVars, netVars
<1>4. ASSUME NEW l \in Links, HandleBinData(l)
      PROVE  LinkTypeOK'
  <2>1. toGate' \in [Links -> Seq(Answers)]
    BY <1>4 DEF HandleBinData, LinkTypeOK, Answers
  <2>2. pinging' \in [Links -> BOOLEAN] /\ gateOpen' \in [Links -> BOOLEAN]
    BY <1>4 DEF HandleBinData, LinkTypeOK
  <2>3. QED
    BY <1>4, <2>1, <2>2 DEF HandleBinData, LinkTypeOK, Answers, serverVars
<1>5. ASSUME NEW l \in Links, ForwardLoopExit(l)
      PROVE  LinkTypeOK'
  BY <1>5 DEF ForwardLoopExit, LinkTypeOK, serverVars, netVars
<1>6. ASSUME NEW l \in Links, Accept(l)
      PROVE  LinkTypeOK'
  BY <1>6 DEF Accept, LinkTypeOK, gateVars, netVars
<1>7. ASSUME NEW l \in Links, ServerReadFails(l)
      PROVE  LinkTypeOK'
  BY <1>7 DEF ServerReadFails, LinkTypeOK, gateVars, netVars
<1>8. ASSUME NEW l \in Links, HandleRegister(l)
      PROVE  LinkTypeOK'
  <2>1. \A m \in Answers : Answer(l, m) => toGate' \in [Links -> Seq(Answers)]
    <3>1. toGate \in [Links -> Seq(Answers)]
      BY DEF LinkTypeOK, Answers
    <3>2. (serverOpen[l] /\ gateOpen[l]) \in BOOLEAN
      OBVIOUS
    <3>3. \A m \in Answers : Sent(toGate, l, m, serverOpen[l] /\ gateOpen[l]) \in [Links -> Seq(Answers)]
      BY <3>1, <3>2, SentType
    <3>4. QED
      BY <3>3 DEF Answer
  <2>2. toGate' \in [Links -> Seq(Answers)]
    BY <1>8, <2>1 DEF HandleRegister, Answers
  <2>3. toServer' \in [Links -> Seq({"gate2LobbyRegister"})]
    BY <1>8 DEF HandleRegister, LinkTypeOK
  <2>4. QED
    BY <1>8, <2>2, <2>3 DEF HandleRegister, LinkTypeOK, Answers, gateVars
<1>9. ASSUME NEW l \in Links, HandleLoopExit(l)
      PROVE  LinkTypeOK'
  BY <1>9 DEF HandleLoopExit, LinkTypeOK, gateVars, netVars
<1>10. ASSUME NEW l \in Links, Cut(l)
       PROVE  LinkTypeOK'
  <2>1. faults' \in 0 .. MaxFaults
    BY <1>10, LinkAssumption DEF Cut, Fault, LinkTypeOK, LinkAssumption
  <2>2. toServer' \in [Links -> Seq({"gate2LobbyRegister"})]
    <3>1. <<>> \in Seq({"gate2LobbyRegister"})
      OBVIOUS
    <3>2. toServer' = toServer \/ toServer' = [toServer EXCEPT ![l] = <<>>]
      BY <1>10 DEF Cut
    <3>3. QED
      BY <3>1, <3>2 DEF LinkTypeOK
  <2>3. toGate' \in [Links -> Seq(Answers)]
    <3>1. <<>> \in Seq(Answers)
      OBVIOUS
    <3>2. toGate' = toGate \/ toGate' = [toGate EXCEPT ![l] = <<>>]
      BY <1>10 DEF Cut
    <3>3. toGate \in [Links -> Seq(Answers)]
      BY DEF LinkTypeOK, Answers
    <3>4. QED
      BY <3>1, <3>2, <3>3
  <2>4. QED
    BY <1>10, <2>1, <2>2, <2>3 DEF Cut, LinkTypeOK, Answers, gateVars, serverVars
<1>11. CASE GateCrash
  BY <1>11, LinkAssumption DEF GateCrash, Fault, LinkTypeOK, LinkAssumption, serverVars
<1>12. CASE ServerCrash
  BY <1>12, LinkAssumption DEF ServerCrash, Fault, LinkTypeOK, LinkAssumption, gateVars
<1>13. CASE UNCHANGED linkVars
  BY <1>13 DEF LinkTypeOK, linkVars, gateVars, serverVars, netVars
<1>14. QED
  BY <1>1, <1>2, <1>3, <1>4, <1>5, <1>6, <1>7, <1>8, <1>9, <1>10, <1>11, <1>12, <1>13
  DEF LinkNext, GateStep, ServerStep

-----------------------------------------------------------------------------
(* Entries and what runs behind them.                                       *)

LEMMA EntriesInit == LinkInit => EntriesLive /\ ToldIsRegistered
BY LinkAssumption DEF LinkInit, EntriesLive, ToldIsRegistered, Told, LinkAssumption

\* Each entry stays a connection whose loop runs.
LEMMA EntriesStep ==
  ASSUME LinkTypeOK, EntriesLive, [LinkNext]_linkVars
  PROVE  EntriesLive'
<1>1. ASSUME NEW l \in Links, KeepAlive(l)
      PROVE  EntriesLive'
  BY <1>1, LinkAssumption DEF KeepAlive, LinkTypeOK, EntriesLive, LinkAssumption
<1>2. ASSUME NEW l \in Links, Run(l)
      PROVE  EntriesLive'
  BY <1>2 DEF Run, LinkTypeOK, EntriesLive, serverVars
<1>3. ASSUME NEW l \in Links, GateReadFails(l)
      PROVE  EntriesLive'
  BY <1>3 DEF GateReadFails, EntriesLive, serverVars
<1>4. ASSUME NEW l \in Links, HandleBinData(l)
      PROVE  EntriesLive'
  BY <1>4 DEF HandleBinData, EntriesLive, serverVars
<1>5. ASSUME NEW l \in Links, ForwardLoopExit(l)
      PROVE  EntriesLive'
  BY <1>5, LinkAssumption DEF ForwardLoopExit, LinkTypeOK, EntriesLive, LinkAssumption, serverVars
<1>6. ASSUME NEW l \in Links, Accept(l)
      PROVE  EntriesLive'
  BY <1>6 DEF Accept, LinkTypeOK, EntriesLive, gateVars
<1>7. ASSUME NEW l \in Links, ServerReadFails(l)
      PROVE  EntriesLive'
  BY <1>7 DEF ServerReadFails, EntriesLive, gateVars
<1>8. ASSUME NEW l \in Links, HandleRegister(l)
      PROVE  EntriesLive'
  BY <1>8, LinkAssumption DEF HandleRegister, LinkTypeOK, EntriesLive, LinkAssumption, gateVars
<1>9. ASSUME NEW l \in Links, HandleLoopExit(l)
      PROVE  EntriesLive'
  BY <1>9, LinkAssumption DEF HandleLoopExit, LinkTypeOK, EntriesLive, LinkAssumption, gateVars
<1>10. ASSUME NEW l \in Links, Cut(l)
       PROVE  EntriesLive'
  BY <1>10 DEF Cut, EntriesLive, gateVars, serverVars
<1>11. CASE GateCrash
  BY <1>11, LinkAssumption DEF GateCrash, EntriesLive, LinkAssumption, serverVars
<1>12. CASE ServerCrash
  BY <1>12, LinkAssumption DEF ServerCrash, EntriesLive, LinkAssumption, gateVars
<1>13. CASE UNCHANGED linkVars
  BY <1>13 DEF EntriesLive, linkVars, gateVars, serverVars
<1>14. QED
  BY <1>1, <1>2, <1>3, <1>4, <1>5, <1>6, <1>7, <1>8, <1>9, <1>10, <1>11, <1>12, <1>13
  DEF LinkNext, GateStep, ServerStep

\* A link that has been told it is registered was so before, unless the step is the
\* server's own answer to it.
LEMMA ToldKept ==
  ASSUME LinkTypeOK, ToldIsRegistered, NEW l \in Links,
         pinging'[l] => pinging[l], toGate'[l] = toGate[l] \/ toGate'[l] = <<>>
  PROVE  Told(l)' => Told(l)
BY DEF Told

LEMMA ToldStep ==
  ASSUME LinkTypeOK, EntriesLive, ToldIsRegistered, [LinkNext]_linkVars
  PROVE  ToldIsRegistered'
<1>1. ASSUME NEW l \in Links, KeepAlive(l)
      PROVE  ToldIsRegistered'
  <2>1. ~pinging[l]
    BY <1>1 DEF KeepAlive, ToldIsRegistered
  <2>2. \A k \in Links : Told(k)' => Told(k)
    BY <1>1, ToldKept DEF KeepAlive, LinkTypeOK
  <2>3. QED
    BY <1>1, <2>1, <2>2 DEF KeepAlive, LinkTypeOK, ToldIsRegistered
<1>2. ASSUME NEW l \in Links, Run(l)
      PROVE  ToldIsRegistered'
  BY <1>2 DEF Run, LinkTypeOK, ToldIsRegistered, Told, serverVars
<1>3. ASSUME NEW l \in Links, GateReadFails(l)
      PROVE  ToldIsRegistered'
  BY <1>3 DEF GateReadFails, ToldIsRegistered, Told, serverVars, netVars
<1>4. ASSUME NEW l \in Links, HandleBinData(l)
      PROVE  ToldIsRegistered'
  <2>1. toGate[l] \in Seq(Answers) /\ toGate[l] # <<>> /\ toGate'[l] = Tail(toGate[l])
    BY <1>4 DEF HandleBinData, LinkTypeOK, Answers
  <2>2. \A k \in 1 .. Len(toGate'[l]) : k + 1 \in 1 .. Len(toGate[l]) /\ toGate'[l][k] = toGate[l][k + 1]
    BY <2>1
  <2>3. Len(toGate[l]) \in Nat /\ 1 \in 1 .. Len(toGate[l]) /\ Head(toGate[l]) = toGate[l][1]
    BY <2>1
  <2>4. pinging'[l] => pinging[l] \/ toGate[l][1] = "lobby2GateRegisterSucc"
    BY <1>4, <2>3 DEF HandleBinData, LinkTypeOK
  <2>5. Told(l)' => Told(l)
    BY <2>2, <2>3, <2>4 DEF Told
  <2>6. \A k \in Links \ {l} : pinging'[k] = pinging[k] /\ toGate'[k] = toGate[k]
    BY <1>4 DEF HandleBinData, LinkTypeOK
  <2>7. \A k \in Links : Told(k)' => Told(k)
    BY <2>5, <2>6, ToldKept
  <2>8. server[l] # "backlog"
    BY <2>1 DEF ToldIsRegistered
  <2>9. \A k \in Links : pinging'[k] => gate'[k] = "running"
    BY <1>4, <2>6 DEF HandleBinData, ToldIsRegistered
  <2>10. server' = server /\ mapGate' = mapGate
    BY <1>4 DEF HandleBinData, serverVars
  <2>11. QED
    BY <2>6, <2>7, <2>8, <2>9, <2>10 DEF ToldIsRegistered
<1>5. ASSUME NEW l \in Links, ForwardLoopExit(l)
      PROVE  ToldIsRegistered'
  <2>1. \A k \in Links : Told(k)' => Told(k)
    BY <1>5, ToldKept DEF ForwardLoopExit, LinkTypeOK, netVars
  <2>2. QED
    BY <1>5, <2>1 DEF ForwardLoopExit, LinkTypeOK, ToldIsRegistered, serverVars, netVars
<1>6. ASSUME NEW l \in Links, Accept(l)
      PROVE  ToldIsRegistered'
  <2>1. ~Told(l)
    <3>1. toGate[l] = <<>> /\ ~pinging[l]
      BY <1>6 DEF Accept, ToldIsRegistered
    <3>2. QED
      BY <3>1 DEF Told
  <2>2. \A k \in Links : Told(k)' => Told(k)
    BY <1>6, ToldKept DEF Accept, gateVars, netVars
  <2>3. QED
    BY <1>6, <2>1, <2>2 DEF Accept, LinkTypeOK, ToldIsRegistered, gateVars, netVars
<1>7. ASSUME NEW l \in Links, ServerReadFails(l)
      PROVE  ToldIsRegistered'
  BY <1>7 DEF ServerReadFails, ToldIsRegistered, Told, gateVars, netVars
<1>8. ASSUME NEW l \in Links, HandleRegister(l)
      PROVE  ToldIsRegistered'
  <2>1. \A k \in Links \ {l} : pinging'[k] = pinging[k] /\ toGate'[k] = toGate[k]
    BY <1>8 DEF HandleRegister, Answer, Sent, LinkTypeOK, gateVars
  <2>2. \A k \in Links \ {l} : Told(k)' => Told(k)
    BY <2>1, ToldKept
  <2>3. pinging' = pinging /\ gate' = gate /\ server' = server
    BY <1>8 DEF HandleRegister, gateVars
  <2>4. CASE mapGate = None
    <3>1. \A k \in Links : server[k] = "running" => ~Told(k)
      BY <2>4, LinkAssumption DEF ToldIsRegistered, LinkAssumption
    <3>2. mapGate' = l
      BY <1>8, <2>4 DEF HandleRegister
    <3>3. QED
      BY <1>8, <2>1, <2>2, <2>3, <3>1, <3>2 DEF HandleRegister, ToldIsRegistered
  <2>5. CASE mapGate # None
    <3>1. Answer(l, "lobby2GateRegisterFail") /\ mapGate' = mapGate
      BY <1>8, <2>5 DEF HandleRegister
    <3>2. Told(l)' => Told(l)
      <4>1. CASE toGate' = toGate
        BY <2>3, <4>1 DEF Told
      <4>2. CASE toGate' = [toGate EXCEPT ![l] = Append(@, "lobby2GateRegisterFail")]
        <5>1. toGate[l] \in Seq(Answers)
          BY DEF LinkTypeOK, Answers
        <5>2. toGate'[l] = Append(toGate[l], "lobby2GateRegisterFail")
          BY <4>2 DEF LinkTypeOK
        <5>3. \A k \in 1 .. Len(toGate'[l]) :
                toGate'[l][k] = "lobby2GateRegisterSucc" =>
                  k \in 1 .. Len(toGate[l]) /\ toGate[l][k] = toGate'[l][k]
          BY <5>1, <5>2
        <5>4. QED
          BY <2>3, <5>3 DEF Told
      <4>3. QED
        BY <3>1, <4>1, <4>2 DEF Answer, Sent
    <3>3. QED
      BY <1>8, <2>1, <2>2, <2>3, <3>1, <3>2 DEF HandleRegister, ToldIsRegistered
  <2>6. QED
    BY <2>4, <2>5
<1>9. ASSUME NEW l \in Links, HandleLoopExit(l)
      PROVE  ToldIsRegistered'
  <2>1. \A k \in Links : Told(k)' = Told(k)
    BY <1>9 DEF HandleLoopExit, Told, gateVars, netVars
  <2>2. server' = [server EXCEPT ![l] = "over"] /\ pinging' = pinging /\ gate' = gate /\ toGate' = toGate
    BY <1>9 DEF HandleLoopExit, gateVars, netVars
  <2>3. \A k \in Links : k # l /\ mapGate = k => mapGate' = k
    BY <1>9 DEF HandleLoopExit, EntriesLive
  <2>4. QED
    BY <2>1, <2>2, <2>3 DEF LinkTypeOK, ToldIsRegistered
<1>10. ASSUME NEW l \in Links, Cut(l)
       PROVE  ToldIsRegistered'
  <2>1. \A k \in Links : toGate'[k] = toGate[k] \/ toGate'[k] = <<>>
    BY <1>10 DEF Cut, LinkTypeOK
  <2>2. \A k \in Links : Told(k)' => Told(k)
    BY <1>10, <2>1, ToldKept DEF Cut, gateVars
  <2>3. QED
    BY <1>10, <2>1, <2>2 DEF Cut, ToldIsRegistered, gateVars, serverVars
<1>11. CASE GateCrash
  <2>1. \A k \in Links : ~pinging'[k] /\ toGate'[k] = toGate[k]
    BY <1>11 DEF GateCrash
  <2>2. \A k \in Links : Told(k)' => Told(k)
    BY <2>1, ToldKept
  <2>3. QED
    BY <1>11, <2>1, <2>2 DEF GateCrash, ToldIsRegistered, serverVars
<1>12. CASE ServerCrash
  BY <1>12 DEF ServerCrash, ToldIsRegistered, gateVars
<1>13. CASE UNCHANGED linkVars
  BY <1>13 DEF ToldIsRegistered, Told, linkVars, gateVars, serverVars, netVars
<1>14. QED
  BY <1>1, <1>2, <1>3, <1>4, <1>5, <1>6, <1>7, <1>8, <1>9, <1>10, <1>11, <1>12, <1>13
  DEF LinkNext, GateStep, ServerStep

-----------------------------------------------------------------------------
(* The theorems.                                                            *)

\* The inductive invariant holds whatever crashes and cuts there are.
THEOREM LinkInvariance == LinkSpec => []LinkInv
<1>1. LinkInit => LinkInv
  BY LinkTypeInit, EntriesInit DEF LinkInv
<1>2. LinkInv /\ [LinkNext]_linkVars => LinkInv'
  BY LinkTypeStep, EntriesStep, ToldStep DEF LinkInv
<1>3. QED
  BY <1>1, <1>2, PTL DEF LinkSpec

\* Gate, server and network stay in the states that their code and tcp give them.
THEOREM LinkTypeCorrect == LinkSpec => []LinkTypeOK
BY LinkInvariance, PTL DEF LinkInv

\* Each side's entry is a connection whose loop runs: deleting by server id never takes
\* the entry of another connection, nor leaves one behind.
THEOREM EntriesStayLive == LinkSpec => []EntriesLive
BY LinkInvariance, PTL DEF LinkInv

\* A gate that pings over an open link is registered by that link.
THEOREM PingsAreRegistered == LinkSpec => []PingedIsRegistered
<1>1. LinkInv => PingedIsRegistered
  BY DEF LinkInv, ToldIsRegistered, Told, PingedIsRegistered
<1>2. QED
  BY <1>1, LinkInvariance, PTL
=============================================================================
