----------------------------- MODULE MessagePipe -----------------------------
(***************************************************************************)
(* What the sending side of a Connection promises to those who call Send:  *)
(* what it takes, the peer gets in the order it was taken, once each and   *)
(* without gaps, until the peer is gone; after Close it takes nothing more *)
(* but still delivers what it took.                                        *)
(***************************************************************************)
EXTENDS Naturals, Sequences

CONSTANT Message

VARIABLES
  queue,     \* taken and not yet delivered
  got,       \* what the peer got
  line       \* open, shut (it takes no more) or broken (the peer is gone)

PipeInit == queue = <<>> /\ got = <<>> /\ line = "open"

Put(m) ==
  /\ line = "open"
  /\ queue' = Append(queue, m)
  /\ UNCHANGED <<got, line>>

Get ==
  /\ line # "broken" /\ queue # <<>>
  /\ got' = Append(got, Head(queue))
  /\ queue' = Tail(queue)
  /\ UNCHANGED line

Shut ==
  /\ line = "open"
  /\ line' = "shut"
  /\ UNCHANGED <<queue, got>>

Break ==
  /\ line # "broken"
  /\ line' = "broken" /\ queue' = <<>>
  /\ UNCHANGED got

PipeNext == (\E m \in Message : Put(m)) \/ Get \/ Shut \/ Break

PipeSpec == PipeInit /\ [][PipeNext]_<<queue, got, line>>
=============================================================================
