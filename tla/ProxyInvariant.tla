---------------------------- MODULE ProxyInvariant ----------------------------
(***************************************************************************)
(* Why the proxy keeps the order of messages and loses none before a close  *)
(* message: the messages of one direction are numbered from the browser's   *)
(* end of the pipe to the component's, and before one of the two ends the   *)
(* conversation nothing fails.                                              *)
(***************************************************************************)
EXTENDS WebSocketProxy

\* The goroutines start with the upgrade, and report once.
Started ==
  /\ pc \in Before \cup {"answered", "died"} => \A d \in Peer : copier[d] = "none"
  /\ \A d \in Peer : channel[d] > 0 => copier[d] \in {"bye", "ended"}

\* What was written to a peer: received, or on its way.
Way(s) == Len(received[s]) + Len(down[s])

\* It is numbered and not ahead of what was sent; a close message is the last.
WrittenTo(s) ==
  /\ \A i \in 1..Len(received[s]) :
       /\ received[s][i] \in {i, Close} /\ received[s][i] <= sent[Other(s)]
       /\ received[s][i] = Close =>
            s \in closeSent /\ i = Len(received[s]) /\ down[s] = <<>>
  /\ \A i \in 1..Len(down[s]) :
       /\ down[s][i] \in {Len(received[s]) + i, Close} /\ down[s][i] <= sent[Other(s)]
       /\ down[s][i] = Close => s \in closeSent /\ i = Len(down[s])

\* A goroutine that still copies.
Copies(d) == copier[d] \in {"none", "read", "write"}

\* The number of the last message it has read.
ReadUpTo(d) == Way(To(d)) + (IF copier[d] = "write" THEN 1 ELSE 0)

\* What a peer sent and its goroutine has not read: numbered from there on, with
\* a close message at the end if it sent one.
WaitingFrom(d) ==
  /\ \A i \in 1..Len(up[d]) : up[d][i] = Close => peer[d] # "open"
  /\ Copies(d) /\ To(d) \notin closeSent =>
       /\ copier[d] = "write" => held[d] = ReadUpTo(d) /\ held[d] <= sent[d]
       /\ \A i \in 1..Len(up[d]) :
            \/ up[d][i] = ReadUpTo(d) + i /\ up[d][i] <= sent[d]
            \/ up[d][i] = Close /\ i = Len(up[d])
       /\ peer[d] = "open" => sent[d] = ReadUpTo(d) + Len(up[d])
       /\ peer[d] = "closing" =>
            /\ up[d] # <<>> /\ up[d][Len(up[d])] = Close
            /\ sent[d] + 1 = ReadUpTo(d) + Len(up[d])

\* Nothing has failed.
Calm ==
  /\ pc \notin {"return", "returned"} /\ ~closed /\ closeSent = {}
  /\ \A d \in Peer : Copies(d) /\ channel[d] = 0

\* A peer ends the conversation with the other: calm until its close message is
\* read, which is after everything else.
Ending(d) ==
  peer[d] = "closing" /\ peer[To(d)] = "open" =>
    /\ copier[d] # "fail"
    /\ Copies(d) => Calm
    /\ copier[d] \in {"report", "bye"} => To(d) \notin closeSent /\ sent[d] = Way(To(d))
    /\ copier[d] = "ended" /\ To(d) \in closeSent => sent[d] + 1 = Way(To(d))

\* The two directions together; nothing fails while both peers are there.
Conversation ==
  /\ \A s \in Peer : WrittenTo(s)
  /\ \A d \in Peer : WaitingFrom(d)
  /\ (\A s \in Peer : peer[s] = "open") => Calm
  /\ \A d \in Peer : Ending(d)

ProxyInv == TypeOK /\ Started /\ Conversation

-----------------------------------------------------------------------------
Relay == INSTANCE WebSocketRelay

\* The handler and its two goroutines relay the conversation: each side gets the
\* next message or, at the end and once, a close message, and nothing after it,
\* although either goroutine may answer a peer that the other writes to.
KeepsRelay == Relay!Spec
=============================================================================
