--------------------------- MODULE MessageChannel ---------------------------
(***************************************************************************)
(* What the message layer of an ACL link promises to the two applications  *)
(* at its ends: a queue of messages, received in the order in which they   *)
(* were sent, each once and unchanged.  A message leaves the queue without *)
(* being received for two reasons only: the receiver has no channel for it *)
(* or the channel does not take messages of that length, or the controller *)
(* flushed it.  One flush costs one message at most: the oldest, or the    *)
(* next one when the oldest has reached the receiving host already.        *)
(***************************************************************************)
EXTENDS Naturals, Sequences, SequencesExt

CONSTANTS
  Messages,             \* what may be sent: records with a field channel
  Accepts(_, _)         \* whether a message is taken by these open channels

VARIABLES
  queue,    \* messages sent and not yet received
  got,      \* messages received
  open,     \* the channels that the receiver has
  flushes   \* how often the controller gave up a message
vars == <<queue, got, open, flushes>>

Init ==
  /\ queue = << >>
  /\ got = << >>
  /\ flushes = 0

Send ==
  /\ \E m \in Messages : queue' = Append(queue, m)
  /\ UNCHANGED <<got, open, flushes>>

Receive ==
  /\ queue # << >>
  /\ Accepts(Head(queue), open)
  /\ got' = Append(got, Head(queue))
  /\ queue' = Tail(queue)
  /\ UNCHANGED <<open, flushes>>

Discard ==
  /\ queue # << >>
  /\ ~Accepts(Head(queue), open)
  /\ queue' = Tail(queue)
  /\ UNCHANGED <<got, open, flushes>>

ChangeChannels ==
  /\ open' # open
  /\ UNCHANGED <<queue, got, flushes>>

Flush ==
  /\ flushes' = flushes + 1
  /\ \/ queue' = queue
     \/ \E i \in 1 .. 2 : i <= Len(queue) /\ queue' = RemoveAt(queue, i)
  /\ UNCHANGED <<got, open>>

(* The first three change the queue. *)
Next ==
  \/ queue' # queue /\ (Send \/ Receive \/ Discard)
  \/ ChangeChannels
  \/ Flush

Spec == Init /\ [][Next]_vars
=============================================================================
