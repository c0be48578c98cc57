---------------------------- MODULE WebSocketProxy ----------------------------
(***************************************************************************)
(* One run of webSocketProxy (secureServer.go): the handler dials the      *)
(* component (the backend), upgrades the connection of the browser (the    *)
(* client), starts a goroutine per direction that copies messages, and     *)
(* returns as soon as one of them reports an error, which closes the       *)
(* connection to the backend and no other.                                 *)
(*                                                                         *)
(* Each direction of each connection is a bounded queue: writing to a peer  *)
(* that does not read blocks.                                               *)
(***************************************************************************)
EXTENDS Naturals, Sequences

CONSTANTS
  MaxMessages,  \* bound: messages each peer sends
  Capacity,     \* of a connection, per direction
  ErrorBuffer   \* the capacity of errClient and errBackend

ASSUME ProxyAssumption ==
  /\ MaxMessages \in Nat /\ Capacity \in Nat \ {0} /\ ErrorBuffer \in Nat

VARIABLES
  pc,         \* of the handler
  copier,     \* where the goroutine that reads from each peer is
  held,       \* the message it has read
  channel,    \* what is in errClient and errBackend
  closed,     \* has the proxy closed the connection to the backend?
  closeSent,  \* the peers to which a close message was written
  up,         \* each peer's queue towards the proxy
  down,       \* the proxy's queue towards each peer
  sent,       \* how many messages each peer has sent
  received,   \* the messages each peer has received
  peer        \* open; closing: it has sent a close message; gone

proxy == <<pc, copier, held, channel, closed, closeSent>>
peers == <<sent, received, peer>>
vars  == <<proxy, up, down, peers>>

Peer == {"client", "backend"}
Other(s) == IF s = "client" THEN "backend" ELSE "client"

Close == 0    \* a close message; the others are numbered as they are sent
Message == 0 .. MaxMessages

Before == {"check", "dial", "upgrade"}
Ended  == {"returned", "answered", "died"}

TypeOK ==
  /\ pc \in Before \cup {"select", "return"} \cup Ended
  /\ copier \in [Peer -> {"none", "read", "write", "report", "fail", "bye", "ended"}]
  /\ held \in [Peer -> Message] /\ \A d \in Peer : copier[d] = "write" => held[d] # Close
  /\ channel \in [Peer -> 0 .. 1]
  /\ closed \in BOOLEAN
  /\ closeSent \subseteq Peer
  /\ up \in [Peer -> Seq(Message)] /\ down \in [Peer -> Seq(Message)]
  /\ sent \in [Peer -> Message]
  /\ received \in [Peer -> Seq(Message)]
  /\ peer \in [Peer -> {"open", "closing", "gone"}]

-----------------------------------------------------------------------------
At(l) == pc = l
Goto(l) == pc' = l
Moves(d, l) == copier' = [copier EXCEPT ![d] = l]
Append1(q, s, m) == [q EXCEPT ![s] = Append(@, m)]
Room(s) == Len(down[s]) < Capacity

\* Nothing can be read from, or written to, a connection that the proxy closed.
ClosedTo(s) == s = "backend" /\ closed

-----------------------------------------------------------------------------
(* The handler *)

\* IsInstalled is false: 404.
NotInstalled ==
  /\ At("check")
  /\ Goto("answered")
  /\ UNCHANGED <<copier, held, channel, closed, closeSent, up, down, peers>>

Installed ==
  /\ At("check")
  /\ Goto("dial")
  /\ UNCHANGED <<copier, held, channel, closed, closeSent, up, down, peers>>

\* The component was there when IsInstalled was asked and may be gone: 400.
DialFails ==
  /\ At("dial")
  /\ Goto("answered")
  /\ UNCHANGED <<copier, held, channel, closed, closeSent, up, down, peers>>

\* The backend may send from now on.
Dial ==
  /\ At("dial")
  /\ Goto("upgrade")
  /\ UNCHANGED <<copier, held, channel, closed, closeSent, up, down, peers>>

\* The handshake is bad, or the client has gone.  The handler goes on without a
\* connection to it, and the first goroutine that uses it ends the process.
UpgradeFails ==
  /\ At("upgrade")
  /\ Goto("died")
  /\ UNCHANGED <<copier, held, channel, closed, closeSent, up, down, peers>>

Upgrade ==
  /\ At("upgrade")
  /\ copier' = [d \in Peer |-> "read"]
  /\ Goto("select")
  /\ UNCHANGED <<held, channel, closed, closeSent, up, down, peers>>

Select(d) ==
  /\ At("select") /\ channel[d] > 0
  /\ channel' = [channel EXCEPT ![d] = @ - 1]
  /\ Goto("return")
  /\ UNCHANGED <<copier, held, closed, closeSent, up, down, peers>>

\* Mutant: the second deferred call closes the client's connection.
CloseBoth ==
  /\ At("return")
  /\ closed' = TRUE
  /\ closeSent' = Peer
  /\ Goto("returned")
  /\ UNCHANGED <<copier, held, channel, up, down, peers>>

\* Both deferred calls close the backend.
CloseBackend ==
  /\ At("return")
  /\ closed' = TRUE
  /\ Goto("returned")
  /\ UNCHANGED <<copier, held, channel, closeSent, up, down, peers>>

-----------------------------------------------------------------------------
(* copy(from, to, errorChan), where from is peer d *)

\* Mutant: both goroutines read from the client.
FromClient(d) == "client"

From(d) == d
To(d) == Other(From(d))

CanRead(d) == copier[d] = "read" /\ up[From(d)] # <<>> /\ ~ClosedTo(From(d))

\* Mutant: a close message is a message.
ReadAny(d) ==
  /\ CanRead(d)
  /\ held' = [held EXCEPT ![d] = Head(up[From(d)])]
  /\ up' = [up EXCEPT ![From(d)] = Tail(@)]
  /\ Moves(d, "write")
  /\ UNCHANGED <<pc, channel, closed, closeSent, down, peers>>

Read(d) ==
  /\ CanRead(d) /\ Head(up[From(d)]) # Close
  /\ held' = [held EXCEPT ![d] = Head(up[From(d)])]
  /\ up' = [up EXCEPT ![From(d)] = Tail(@)]
  /\ Moves(d, "write")
  /\ UNCHANGED <<pc, channel, closed, closeSent, down, peers>>

\* ReadMessage answers a close message with one, which fails, once or for good,
\* when there is no room; and returns an error.
ReadClose(d) ==
  /\ CanRead(d) /\ Head(up[From(d)]) = Close
  /\ up' = [up EXCEPT ![From(d)] = Tail(@)]
  /\ \/ /\ From(d) \notin closeSent /\ Room(From(d))
        /\ down' = Append1(down, From(d), Close)
        /\ closeSent' = closeSent \cup {From(d)}
     \/ /\ From(d) \in closeSent \/ ~Room(From(d))
        /\ closeSent' \in {closeSent, closeSent \cup {From(d)}}
        /\ UNCHANGED down
  /\ Moves(d, "report")
  /\ UNCHANGED <<pc, held, channel, closed, peers>>

\* Mutant: a peer that says nothing for long has failed.
ReadTimesOut(d) ==
  /\ copier[d] = "read"
  /\ Moves(d, "report")
  /\ UNCHANGED <<pc, held, channel, closed, closeSent, up, down, peers>>

\* What a peer sent before it went may be lost.
ReadFails(d) ==
  /\ copier[d] = "read" /\ (ClosedTo(From(d)) \/ peer[From(d)] = "gone")
  /\ Moves(d, "report")
  /\ UNCHANGED <<pc, held, channel, closed, closeSent, up, down, peers>>

\* Mutant: what does not fit is dropped.
WriteOrDrop(d) ==
  /\ copier[d] = "write" /\ ~ClosedTo(To(d)) /\ To(d) \notin closeSent
  /\ down' = IF Room(To(d)) THEN Append1(down, To(d), held[d]) ELSE down
  /\ Moves(d, "read")
  /\ UNCHANGED <<pc, held, channel, closed, closeSent, up, peers>>

Write(d) ==
  /\ copier[d] = "write" /\ ~ClosedTo(To(d)) /\ To(d) \notin closeSent /\ Room(To(d))
  /\ down' = Append1(down, To(d), held[d])
  /\ Moves(d, "read")
  /\ UNCHANGED <<pc, held, channel, closed, closeSent, up, peers>>

WriteFails(d) ==
  /\ copier[d] = "write"
  /\ ClosedTo(To(d)) \/ To(d) \in closeSent \/ peer[To(d)] = "gone"
  /\ Moves(d, "fail")
  /\ UNCHANGED <<pc, held, channel, closed, closeSent, up, down, peers>>

\* Mutant: the channels are not buffered.
ReportToSelect(d) ==
  /\ copier[d] \in {"report", "fail"} /\ At("select")
  /\ channel' = [channel EXCEPT ![d] = 1]
  /\ Moves(d, IF copier[d] = "report" THEN "bye" ELSE "ended")
  /\ UNCHANGED <<pc, held, closed, closeSent, up, down, peers>>

\* errorChan <- err blocks when the channel is full.
Report(d) ==
  /\ copier[d] \in {"report", "fail"} /\ channel[d] < ErrorBuffer
  /\ channel' = [channel EXCEPT ![d] = @ + 1]
  /\ Moves(d, IF copier[d] = "report" THEN "bye" ELSE "ended")
  /\ UNCHANGED <<pc, held, closed, closeSent, up, down, peers>>

\* The error of reading is passed on as a close message, after the report: the
\* handler may have closed the backend by then.
SayBye(d) ==
  /\ copier[d] = "bye" /\ ~ClosedTo(To(d)) /\ To(d) \notin closeSent /\ Room(To(d))
  /\ down' = Append1(down, To(d), Close)
  /\ closeSent' = closeSent \cup {To(d)}
  /\ Moves(d, "ended")
  /\ UNCHANGED <<pc, held, channel, closed, up, peers>>

ByeFails(d) ==
  /\ copier[d] = "bye"
  /\ ClosedTo(To(d)) \/ To(d) \in closeSent \/ peer[To(d)] = "gone"
  /\ Moves(d, "ended")
  /\ UNCHANGED <<pc, held, channel, closed, closeSent, up, down, peers>>

-----------------------------------------------------------------------------
(* The browser and the component *)

Connected(s) == IF s = "client" THEN pc \notin Before ELSE pc \notin {"check", "dial"}

Send(s) ==
  /\ Connected(s) /\ peer[s] = "open" /\ sent[s] < MaxMessages /\ Len(up[s]) < Capacity
  /\ sent' = [sent EXCEPT ![s] = @ + 1]
  /\ up' = Append1(up, s, sent'[s])
  /\ UNCHANGED <<proxy, down, received, peer>>

SendClose(s) ==
  /\ Connected(s) /\ peer[s] = "open" /\ Len(up[s]) < Capacity
  /\ up' = Append1(up, s, Close)
  /\ peer' = [peer EXCEPT ![s] = "closing"]
  /\ UNCHANGED <<proxy, down, sent, received>>

Receive(s) ==
  /\ peer[s] # "gone" /\ down[s] # <<>>
  /\ down' = [down EXCEPT ![s] = Tail(@)]
  /\ received' = Append1(received, s, Head(down[s]))
  /\ UNCHANGED <<proxy, up, sent, peer>>

Told(s) == Close \in {received[s][i] : i \in DOMAIN received[s]}

\* A peer may go at any time, and does when it was told to.
HangUp(s) ==
  /\ peer[s] # "gone"
  /\ peer' = [peer EXCEPT ![s] = "gone"]
  /\ UNCHANGED <<proxy, up, down, sent, received>>

-----------------------------------------------------------------------------
Init ==
  /\ pc = "check" /\ copier = [d \in Peer |-> "none"] /\ held = [d \in Peer |-> Close]
  /\ channel = [d \in Peer |-> 0] /\ closed = FALSE /\ closeSent = {}
  /\ up = [s \in Peer |-> <<>>] /\ down = [s \in Peer |-> <<>>]
  /\ sent = [s \in Peer |-> 0] /\ received = [s \in Peer |-> <<>>]
  /\ peer = [s \in Peer |-> "open"]

Handler ==
  \/ NotInstalled \/ Installed \/ DialFails \/ Dial \/ UpgradeFails \/ Upgrade
  \/ \E d \in Peer : Select(d)
  \/ CloseBackend

Copy(d) ==
  \/ Read(d) \/ ReadClose(d) \/ ReadFails(d) \/ Write(d) \/ WriteFails(d)
  \/ Report(d) \/ SayBye(d) \/ ByeFails(d)

Copied == pc \in Ended /\ \A d \in Peer : copier[d] \in {"none", "ended"}
Quiet == pc \in Ended /\ UNCHANGED vars

Next ==
  \/ Handler
  \/ pc # "died" /\ \E d \in Peer : Copy(d)
  \/ \E s \in Peer : Send(s) \/ SendClose(s) \/ Receive(s) \/ HangUp(s)
  \/ Quiet

Spec == Init /\ [][Next]_vars

-----------------------------------------------------------------------------
(* Properties *)

\* Each side receives what the other sent, in the order it was sent and nothing
\* twice: one goroutine copies each direction.  Only the end may be missing, and
\* nothing follows a close message, which either goroutine may write.
InOrder ==
  \A s \in Peer : \A i \in DOMAIN received[s] :
    received[s][i] = i \/ (received[s][i] = Close /\ i = Len(received[s]))

\* When one side ends the conversation with a close message and waits for the
\* answer, the other has received all that was sent by the time it is told,
\* although the handler returns as soon as the first goroutine fails.
NothingLost ==
  \A s \in Peer :
    Told(s) /\ peer[s] = "open" /\ peer[Other(s)] = "closing" =>
      Len(received[s]) = sent[Other(s)] + 1

-----------------------------------------------------------------------------
(* Liveness *)

HangUpWhenTold(s) == Told(s) /\ HangUp(s)

\* The goroutines run; peers read what reaches them, and go when they are told.
Fairness ==
  /\ WF_vars(Handler)
  /\ \A d \in Peer : WF_vars(pc # "died" /\ Copy(d))
  /\ \A s \in Peer : WF_vars(Receive(s)) /\ WF_vars(HangUpWhenTold(s))

FairSpec == Spec /\ Fairness

\* The browser is told that the component has ended the conversation or has gone,
\* whichever goroutine notices first: the handler does not close its connection.
ClientIsTold ==
  At("select") /\ peer["backend"] # "open" ~> Told("client") \/ peer["client"] # "open"

\* Once either side ends the conversation, the handler returns and no goroutine
\* is left behind, not even the one whose error nobody reads.
Ends == (\E s \in Peer : peer[s] # "open") ~> Copied
=============================================================================
