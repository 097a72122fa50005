----------------------------- MODULE Connection -----------------------------
(***************************************************************************)
(* A connection of the servers (base-library/base_net): the goroutines     *)
(* recvLoop and sendLoop, the two bounded channels between them and the    *)
(* rest of the program, Send and Close as any goroutine may call them, and *)
(* the peer at the other end of the socket.                                *)
(***************************************************************************)
EXTENDS Naturals, Sequences, FiniteSets

CONSTANTS
  Senders,      \* goroutines that call Send
  Closers,      \* goroutines that call Close, beside recvLoop
  RecvLoop,     \* recvLoop, when it calls Close
  Nobody,       \* no goroutine, no message
  SendBuf,      \* sendBufSize
  RecvBuf,      \* recvBufSize
  Wire,         \* messages that the socket's own buffer holds
  MaxSent,      \* bound: messages put into chanSendMsg
  MaxRead       \* bound: messages that the peer writes

ASSUME ConnectionAssumption ==
  /\ IsFiniteSet(Senders)
  /\ {SendBuf, RecvBuf, Wire, MaxSent, MaxRead} \subseteq Nat
  /\ RecvLoop \notin Closers /\ Nobody \notin Closers \cup {RecvLoop} \cup Nat

VARIABLES
  isClosed,     \* and chanSendMsg is closed: the two go together under the lock
  canceled,     \* the exit signal
  readers,      \* goroutines in Send that hold the read lock and found it open
  writer,       \* who holds the lock in Close
  chanSendMsg, chanRecvMsg,
  sendLoop,     \* running or done
  sending,      \* the message in sendLoop's hands
  recvLoop,     \* reading, closing or done
  socket,       \* open or closed, on this side
  out, in,      \* what is on its way to the peer, and how much from it
  peer,         \* there or gone
  peerGot,      \* what the peer read
  sent, read    \* counters for the bounds

lockVars == <<isClosed, canceled, readers, writer>>
peerVars == <<peer, peerGot, in, read>>
vars == <<lockVars, chanSendMsg, chanRecvMsg, sendLoop, sending, recvLoop, socket,
          out, peerVars, sent>>

TypeOK ==
  /\ isClosed \in BOOLEAN /\ canceled \in BOOLEAN
  /\ readers \subseteq Senders
  /\ writer \in Closers \cup {RecvLoop, Nobody}
  /\ chanSendMsg \in Seq(Nat) /\ Len(chanSendMsg) <= SendBuf
  /\ chanRecvMsg \in 0 .. RecvBuf
  /\ sendLoop \in {"running", "done"}
  /\ sending \in Nat \cup {Nobody}
  /\ recvLoop \in {"reading", "closing", "done"}
  /\ socket \in {"open", "closed"}
  /\ out \in Seq(Nat) /\ Len(out) <= Wire
  /\ in \in Nat
  /\ peer \in {"there", "gone"}
  /\ peerGot \in Seq(Nat)
  /\ sent \in Nat /\ read \in Nat

Init ==
  /\ isClosed = FALSE /\ canceled = FALSE /\ readers = {} /\ writer = Nobody
  /\ chanSendMsg = <<>> /\ chanRecvMsg = 0
  /\ sendLoop = "running" /\ sending = Nobody /\ recvLoop = "reading"
  /\ socket = "open" /\ out = <<>>
  /\ peer = "there" /\ peerGot = <<>> /\ in = 0
  /\ sent = 0 /\ read = 0

-----------------------------------------------------------------------------
(* Send, under the read lock.                                              *)

\* Takes the read lock; where the connection is closed there is nothing to do.
SendLock(s) ==
  /\ s \notin readers /\ writer = Nobody /\ ~isClosed
  /\ sent + Cardinality(readers) < MaxSent
  /\ readers' = readers \cup {s}
  /\ UNCHANGED <<isClosed, canceled, writer, chanSendMsg, chanRecvMsg, sendLoop, sending,
                 recvLoop, socket, out, peerVars, sent>>

\* Mutant of SendPut: a full channel loses its oldest message to the new one.
SendPut_Oldest(s) ==
  /\ s \in readers
  /\ readers' = readers \ {s}
  /\ chanSendMsg' = Append(IF Len(chanSendMsg) < SendBuf THEN chanSendMsg
                           ELSE Tail(chanSendMsg), sent + 1)
  /\ sent' = sent + 1
  /\ UNCHANGED <<isClosed, canceled, writer, chanRecvMsg, sendLoop, sending,
                 recvLoop, socket, out, peerVars>>

\* Puts the message into the channel unless it is full, and unlocks.
SendPut(s) ==
  /\ s \in readers
  /\ readers' = readers \ {s}
  /\ IF Len(chanSendMsg) < SendBuf
     THEN chanSendMsg' = Append(chanSendMsg, sent + 1) /\ sent' = sent + 1
     ELSE UNCHANGED <<chanSendMsg, sent>>
  /\ UNCHANGED <<isClosed, canceled, writer, chanRecvMsg, sendLoop, sending,
                 recvLoop, socket, out, peerVars>>

-----------------------------------------------------------------------------
(* Close, under the lock, once.                                            *)

\* Mutant of CloseLock: Close does not wait for those who are in Send.
CloseLock_Now(c) ==
  /\ writer = Nobody
  /\ IF isClosed THEN UNCHANGED <<isClosed, writer>> ELSE isClosed' = TRUE /\ writer' = c
  /\ recvLoop' = IF c = RecvLoop /\ isClosed THEN "done" ELSE recvLoop
  /\ UNCHANGED <<canceled, readers, chanSendMsg, chanRecvMsg, sendLoop, sending,
                 socket, out, peerVars, sent>>

CloseLock(c) ==
  /\ readers = {} /\ writer = Nobody
  /\ IF isClosed THEN UNCHANGED <<isClosed, writer>> ELSE isClosed' = TRUE /\ writer' = c
  /\ recvLoop' = IF c = RecvLoop /\ isClosed THEN "done" ELSE recvLoop
  /\ UNCHANGED <<canceled, readers, chanSendMsg, chanRecvMsg, sendLoop, sending,
                 socket, out, peerVars, sent>>

\* Mutant of CloseUnlock: the context is not cancelled.
CloseUnlock_Silent ==
  /\ writer # Nobody
  /\ writer' = Nobody
  /\ recvLoop' = IF writer = RecvLoop THEN "done" ELSE recvLoop
  /\ UNCHANGED <<isClosed, canceled, readers, chanSendMsg, chanRecvMsg, sendLoop, sending,
                 socket, out, peerVars, sent>>

\* Cancels the context and unlocks.
CloseUnlock ==
  /\ writer # Nobody
  /\ canceled' = TRUE /\ writer' = Nobody
  /\ recvLoop' = IF writer = RecvLoop THEN "done" ELSE recvLoop
  /\ UNCHANGED <<isClosed, readers, chanSendMsg, chanRecvMsg, sendLoop, sending,
                 socket, out, peerVars, sent>>

-----------------------------------------------------------------------------
(* sendLoop                                                                *)

TakeSend ==
  /\ sendLoop = "running" /\ sending = Nobody /\ chanSendMsg # <<>>
  /\ sending' = Head(chanSendMsg) /\ chanSendMsg' = Tail(chanSendMsg)
  /\ UNCHANGED <<lockVars, chanRecvMsg, sendLoop, recvLoop, socket, out, peerVars, sent>>

\* Socket.Send returns when the socket has taken the message, or with an error
\* that nobody looks at; it has no deadline, so it waits for room as long as
\* the peer is there and reads nothing.
Write ==
  /\ sending # Nobody
  /\ \/ peer = "there" /\ Len(out) < Wire /\ out' = Append(out, sending)
     \/ peer = "gone" /\ UNCHANGED out
  /\ sending' = Nobody
  /\ UNCHANGED <<lockVars, chanSendMsg, chanRecvMsg, sendLoop, recvLoop, socket, peerVars, sent>>

\* Mutant of SendLoopEnd: what is left in the closed channel is not sent.
SendLoopEnd_Drop ==
  /\ sendLoop = "running" /\ sending = Nobody /\ isClosed
  /\ socket' = "closed" /\ sendLoop' = "done"
  /\ UNCHANGED <<lockVars, chanSendMsg, chanRecvMsg, sending, recvLoop, out, peerVars, sent>>

\* Mutant of SendLoopEnd: the socket is left open.
SendLoopEnd_Open ==
  /\ sendLoop = "running" /\ sending = Nobody
  /\ isClosed /\ chanSendMsg = <<>>
  /\ sendLoop' = "done"
  /\ UNCHANGED <<lockVars, chanSendMsg, chanRecvMsg, sending, recvLoop, socket, out, peerVars, sent>>

\* The channel is closed and drained.
SendLoopEnd ==
  /\ sendLoop = "running" /\ sending = Nobody
  /\ isClosed /\ chanSendMsg = <<>>
  /\ socket' = "closed" /\ sendLoop' = "done"
  /\ UNCHANGED <<lockVars, chanSendMsg, chanRecvMsg, sending, recvLoop, out, peerVars, sent>>

-----------------------------------------------------------------------------
(* recvLoop, and those who take from chanRecvMsg                           *)

\* A message is read; it is dropped when the channel is full.
ReadOne ==
  /\ recvLoop = "reading" /\ socket = "open" /\ in > 0
  /\ in' = in - 1
  /\ chanRecvMsg' = IF chanRecvMsg < RecvBuf THEN chanRecvMsg + 1 ELSE chanRecvMsg
  /\ UNCHANGED <<lockVars, chanSendMsg, sendLoop, sending, recvLoop, socket, out,
                 peer, peerGot, read, sent>>

\* The socket is closed on this side, the peer is gone, or it has been silent
\* for the minute that a read may last.
ReadFails ==
  /\ recvLoop = "reading"
  /\ socket = "closed" \/ peer = "gone" \/ in = 0
  /\ recvLoop' = "closing"
  /\ UNCHANGED <<lockVars, chanSendMsg, chanRecvMsg, sendLoop, sending, socket, out,
                 peerVars, sent>>

TakeRecv ==
  /\ chanRecvMsg > 0
  /\ chanRecvMsg' = chanRecvMsg - 1
  /\ UNCHANGED <<lockVars, chanSendMsg, sendLoop, sending, recvLoop, socket, out,
                 peerVars, sent>>

-----------------------------------------------------------------------------
(* The peer                                                                *)

PeerWrite ==
  /\ peer = "there" /\ read < MaxRead
  /\ in' = in + 1 /\ read' = read + 1
  /\ UNCHANGED <<lockVars, chanSendMsg, chanRecvMsg, sendLoop, sending, recvLoop, socket,
                 out, peer, peerGot, sent>>

PeerRead ==
  /\ peer = "there" /\ out # <<>>
  /\ peerGot' = Append(peerGot, Head(out)) /\ out' = Tail(out)
  /\ UNCHANGED <<lockVars, chanSendMsg, chanRecvMsg, sendLoop, sending, recvLoop, socket,
                 peer, in, read, sent>>

\* The peer closes or is cut off, with what was on its way to it.
PeerLeave ==
  /\ peer = "there"
  /\ peer' = "gone" /\ out' = <<>>
  /\ UNCHANGED <<lockVars, chanSendMsg, chanRecvMsg, sendLoop, sending, recvLoop, socket,
                 peerGot, in, read, sent>>

-----------------------------------------------------------------------------
SendLoopNext == TakeSend \/ Write \/ SendLoopEnd
RecvLoopNext == ReadOne \/ ReadFails \/ (recvLoop = "closing" /\ CloseLock(RecvLoop))

Next ==
  \/ \E s \in Senders : SendLock(s) \/ SendPut(s)
  \/ \E c \in Closers : CloseLock(c)
  \/ CloseUnlock
  \/ SendLoopNext \/ RecvLoopNext
  \/ TakeRecv
  \/ PeerWrite \/ PeerRead \/ PeerLeave

Spec == Init /\ [][Next]_vars

\* Goroutines run, a lock that is held is given back, and a Lock that waits
\* keeps new readers out (RWMutex), so that Close gets its turn.
LoopsRun ==
  /\ WF_vars(SendLoopNext) /\ SF_vars(RecvLoopNext) /\ WF_vars(CloseUnlock)
  /\ \A s \in Senders : WF_vars(SendPut(s))

FairSpec == Spec /\ LoopsRun

\* With a peer that reads what is sent to it.
ReadingSpec == FairSpec /\ WF_vars(PeerRead)

-----------------------------------------------------------------------------
(* Properties                                                              *)

\* Nobody puts a message into the closed channel, which would end the whole
\* process: who found the connection open under the read lock still finds it
\* open when it puts the message (connection.go, the comment of Send).
NoPanic == readers # {} => ~isClosed

\* A message is handled by one goroutine at a time and in order: from the
\* channel, through sendLoop and the socket, to the peer.
Held == IF sending = Nobody THEN <<>> ELSE <<sending>>

Undelivered == IF peer = "gone" THEN <<>> ELSE out \o Held \o chanSendMsg

Line == IF peer = "gone" THEN "broken" ELSE IF isClosed THEN "shut" ELSE "open"

Pipe == INSTANCE MessagePipe WITH
  Message <- 1 .. MaxSent, queue <- Undelivered, got <- peerGot, line <- Line

\* The connection is a pipe without gaps, in order, that Close does not empty.
ImplementsPipe == Pipe!PipeSpec

\* What was taken arrives, also what was taken just before a Close (a kick,
\* say), unless the peer is gone.
TakenArrives ==
  \A m \in 1 .. MaxSent :
    sent >= m ~> (peer = "gone" \/ \E i \in DOMAIN peerGot : peerGot[i] = m)

\* The comment of Close: Close ends sendLoop, which closes the socket, which
\* ends recvLoop. True of a peer that reads, and only of such a peer.
CloseEndsLoops ==
  isClosed ~> (sendLoop = "done" /\ socket = "closed" /\ recvLoop = "done")

\* Either loop's end brings about the other's, and the exit signal.
LoopsEndTogether ==
  (recvLoop # "reading" \/ sendLoop = "done")
    ~> (recvLoop = "done" /\ sendLoop = "done" /\ canceled)
=============================================================================
