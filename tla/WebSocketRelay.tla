---------------------------- MODULE WebSocketRelay ----------------------------
(***************************************************************************)
(* What the proxy of websockets promises the browser and the component,     *)
(* whatever goroutines, queues and channels it takes: each receives what    *)
(* the other has sent, in that order and nothing twice, and at the end one   *)
(* close message, after which it receives nothing more.                     *)
(*                                                                         *)
(* Nobody is told of the end before one of them has ended the conversation. *)
(* Who waits for the answer to a close message it has not sent itself has    *)
(* received all that was sent before that message.                          *)
(***************************************************************************)
EXTENDS Naturals, Sequences

CONSTANT MaxMessages  \* bound: messages each peer sends

VARIABLES
  sent,      \* how many messages each peer has sent
  received,  \* the messages each peer has received
  peer       \* open; closing: it has sent a close message; gone

vars == <<sent, received, peer>>

Peer == {"client", "backend"}
Other(s) == IF s = "client" THEN "backend" ELSE "client"
Close == 0

Told(s) == Close \in {received[s][i] : i \in DOMAIN received[s]}
Gets(s, m) == received' = [received EXCEPT ![s] = Append(@, m)]

Init ==
  /\ sent = [s \in Peer |-> 0]
  /\ received = [s \in Peer |-> <<>>]
  /\ peer = [s \in Peer |-> "open"]

Send(s) ==
  /\ peer[s] = "open" /\ sent[s] < MaxMessages
  /\ sent' = [sent EXCEPT ![s] = @ + 1]
  /\ UNCHANGED <<received, peer>>

\* The message that comes next, and no later one.
Deliver(s) ==
  /\ peer[s] # "gone" /\ ~Told(s)
  /\ Len(received[s]) < sent[Other(s)]
  /\ Gets(s, Len(received[s]) + 1)
  /\ UNCHANGED <<sent, peer>>

Tell(s) ==
  /\ peer[s] # "gone" /\ ~Told(s)
  /\ \E t \in Peer : peer[t] # "open"
  /\ peer[s] = "open" /\ peer[Other(s)] = "closing" =>
       Len(received[s]) = sent[Other(s)]
  /\ Gets(s, Close)
  /\ UNCHANGED <<sent, peer>>

End(s) ==
  /\ \/ peer[s] = "open" /\ peer' = [peer EXCEPT ![s] = "closing"]
     \/ peer[s] # "gone" /\ peer' = [peer EXCEPT ![s] = "gone"]
  /\ UNCHANGED <<sent, received>>

Next == \E s \in Peer : Send(s) \/ Deliver(s) \/ Tell(s) \/ End(s)

Spec == Init /\ [][Next]_vars
=============================================================================
