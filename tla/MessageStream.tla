--------------------------- MODULE MessageStream ---------------------------
(***************************************************************************)
(* What the handlers of class Connection assume of the bytes below them:   *)
(* the messages of the peer come one by one, whole, each once and in the   *)
(* order they were sent, until the connection is dropped.  No bytes, no    *)
(* buffer, no length.                                                      *)
(***************************************************************************)
EXTENDS Naturals, Sequences

CONSTANTS Messages,     \* what a peer may send
          Heeded        \* those the switch of ProcessBuffer has a case for

VARIABLES sent,         \* every message the peer has sent, in order
          passed,       \* how many of them have been dealt with
          handled,      \* the messages given to a handler, in order
          open          \* FALSE once the socket has been dropped

streamVars == <<sent, passed, handled, open>>

StreamInit == sent = <<>> /\ passed = 0 /\ handled = <<>> /\ open = TRUE

\* A peer may go on sending to a socket that is not there any more.
Put(m) ==
  /\ sent' = Append(sent, m)
  /\ UNCHANGED <<passed, handled, open>>

\* The next message, whole; it may be the one whose handler drops the socket.
Deal ==
  /\ open /\ passed < Len(sent)
  /\ passed' = passed + 1
  /\ open' \in BOOLEAN
  /\ UNCHANGED sent

Handle ==
  /\ Deal /\ sent[passed + 1] \in Heeded
  /\ handled' = Append(handled, sent[passed + 1])

Ignore ==
  /\ Deal /\ sent[passed + 1] \notin Heeded
  /\ UNCHANGED handled

Drop == open /\ open' = FALSE /\ UNCHANGED <<sent, passed, handled>>

StreamNext == (\E m \in Messages : Put(m)) \/ Handle \/ Ignore \/ Drop

StreamSpec == StreamInit /\ [][StreamNext]_streamVars

=============================================================================
