------------------------ MODULE WebSocketProxy_proofs ------------------------
(***************************************************************************)
(* Proofs that the proxy keeps the order of messages, loses none before a   *)
(* close message and relays the conversation as WebSocketRelay says, for    *)
(* any number of messages and any capacity of connections and channels.     *)
(***************************************************************************)
EXTENDS ProxyInvariant, TLAPS

\* There are two peers.
LEMMA Peers ==
  ASSUME NEW d \in Peer
  PROVE  /\ From(d) = d /\ To(d) \in Peer /\ To(d) = Other(d) /\ To(d) # d /\ To(To(d)) = d
         /\ \A t \in Peer : t = d \/ t = To(d)
BY DEF Peer, From, To, Other

\* A message is put at the end of a queue,
LEMMA Put ==
  ASSUME NEW q \in [Peer -> Seq(Message)], NEW s \in Peer, NEW m \in Message
  PROVE  /\ Append1(q, s, m) \in [Peer -> Seq(Message)]
         /\ Len(q[s]) \in Nat /\ Len(Append1(q, s, m)[s]) = Len(q[s]) + 1
         /\ \A i \in 1..Len(q[s]) : Append1(q, s, m)[s][i] = q[s][i]
         /\ Append1(q, s, m)[s][Len(q[s]) + 1] = m
         /\ \A t \in Peer \ {s} : Append1(q, s, m)[t] = q[t]
BY DEF Append1

\* and taken from its front.
LEMMA Take ==
  ASSUME NEW q \in [Peer -> Seq(Message)], NEW s \in Peer, q[s] # <<>>,
         NEW r, r = [q EXCEPT ![s] = Tail(@)]
  PROVE  /\ r \in [Peer -> Seq(Message)]
         /\ Head(q[s]) \in Message /\ Head(q[s]) = q[s][1]
         /\ Len(q[s]) \in Nat \ {0} /\ Len(r[s]) = Len(q[s]) - 1
         /\ \A i \in 1..Len(r[s]) : i + 1 \in 1..Len(q[s]) /\ r[s][i] = q[s][i + 1]
         /\ \A t \in Peer \ {s} : r[t] = q[t]
OBVIOUS

\* A close message is a message.
LEMMA CloseType == Close \in Message /\ Message \subseteq Nat
BY ProxyAssumption DEF Close, Message

\* Messages are numbers.
LEMMA Numbers ==
  ASSUME NEW q \in Seq(Message)
  PROVE  Len(q) \in Nat /\ \A i \in 1..Len(q) : q[i] \in Nat
<1>1. Len(q) \in Nat /\ \A i \in 1..Len(q) : q[i] \in Message
  OBVIOUS
<1> QED  BY <1>1, CloseType

-----------------------------------------------------------------------------
(* Types *)

\* Steps of the handler.
LEMMA TypeHandler ==
  ASSUME TypeOK, Started, Handler
  PROVE  TypeOK' /\ Started'
<1> USE DEF TypeOK, Started, At, Goto, peers, Before, Ended
<1>1. CASE NotInstalled \/ Installed \/ DialFails \/ Dial \/ UpgradeFails \/ CloseBackend
  BY <1>1 DEF NotInstalled, Installed, DialFails, Dial, UpgradeFails, CloseBackend
<1>2. CASE Upgrade
  BY <1>2 DEF Upgrade
<1>3. ASSUME NEW d \in Peer, Select(d)
      PROVE  TypeOK' /\ Started'
  BY <1>3 DEF Select
<1> QED  BY <1>1, <1>2, <1>3 DEF Handler

\* Steps of the goroutines.
LEMMA TypeCopy ==
  ASSUME TypeOK, Started, NEW d \in Peer, pc # "died", Copy(d)
  PROVE  TypeOK' /\ Started'
<1> USE DEF Moves, peers, CanRead
<1>0. copier[d] # "none" => pc \notin Before \cup {"answered", "died"}
  BY DEF Started
<1>1. CASE Read(d)
  <2>1. /\ up' \in [Peer -> Seq(Message)]
        /\ Head(up[d]) \in Message
    BY <1>1, Take, Peers DEF Read, TypeOK
  <2> QED  BY <1>0, <1>1, <2>1, Peers DEF Read, TypeOK, Started
<1>2. CASE ReadClose(d)
  <2>1. up' \in [Peer -> Seq(Message)]
    BY <1>2, Take, Peers DEF ReadClose, TypeOK
  <2>2. down' \in [Peer -> Seq(Message)]
    <3>1. down \in [Peer -> Seq(Message)] /\ From(d) \in Peer
      BY Peers DEF TypeOK
    <3>2. down' = down \/ down' = Append1(down, From(d), Close)
      BY <1>2 DEF ReadClose
    <3> QED  BY <3>1, <3>2, Put, CloseType
  <2>3. closeSent' \subseteq Peer
    BY <1>2, Peers DEF ReadClose, TypeOK
  <2> QED  BY <1>0, <1>2, <2>1, <2>2, <2>3 DEF ReadClose, TypeOK, Started
<1>3. CASE ReadFails(d)
  BY <1>0, <1>3 DEF ReadFails, TypeOK, Started
<1>4. CASE Write(d)
  <2>1. down' \in [Peer -> Seq(Message)]
    BY <1>4, Put, Peers DEF Write, TypeOK
  <2> QED  BY <1>0, <1>4, <2>1 DEF Write, TypeOK, Started
<1>5. CASE WriteFails(d)
  BY <1>0, <1>5 DEF WriteFails, TypeOK, Started
<1>6. CASE Report(d)
  <2>0. channel[d] \in 0..1 /\ copier[d] \in {"report", "fail"}
    BY <1>6 DEF Report, TypeOK
  <2>1. channel[d] = 0
    BY <2>0 DEF Started
  <2>2. channel' = [channel EXCEPT ![d] = 1]
    BY <1>6, <2>1 DEF Report, TypeOK
  <2>3. copier' = [copier EXCEPT ![d] = "bye"] \/ copier' = [copier EXCEPT ![d] = "ended"]
    BY <1>6 DEF Report
  <2>4. UNCHANGED <<pc, held, closed, closeSent, up, down, sent, received, peer>>
    BY <1>6 DEF Report
  <2>5. channel' \in [Peer -> 0 .. 1]
    BY <2>2 DEF TypeOK
  <2>6. TypeOK'
    BY <2>0, <2>3, <2>4, <2>5 DEF TypeOK
  <2>7. \A e \in Peer : channel'[e] > 0 => copier'[e] \in {"bye", "ended"}
    BY <2>2, <2>3 DEF TypeOK, Started
  <2> QED  BY <1>0, <2>0, <2>4, <2>6, <2>7 DEF Started
<1>7. CASE SayBye(d)
  <2>1. down' \in [Peer -> Seq(Message)]
    BY <1>7, Put, Peers, CloseType DEF SayBye, TypeOK
  <2>2. closeSent' \subseteq Peer
    BY <1>7, Peers DEF SayBye, TypeOK
  <2> QED  BY <1>0, <1>7, <2>1, <2>2 DEF SayBye, TypeOK, Started
<1>8. CASE ByeFails(d)
  BY <1>0, <1>8 DEF ByeFails, TypeOK, Started
<1> QED  BY <1>1, <1>2, <1>3, <1>4, <1>5, <1>6, <1>7, <1>8 DEF Copy

\* Steps of the peers.
LEMMA TypePeer ==
  ASSUME TypeOK, Started, NEW s \in Peer, Send(s) \/ SendClose(s) \/ Receive(s) \/ HangUp(s)
  PROVE  TypeOK' /\ Started'
<1> USE DEF proxy
<1>1. CASE Send(s)
  <2>1. sent'[s] \in Message
    BY <1>1, ProxyAssumption DEF Send, TypeOK, Message
  <2>2. sent' \in [Peer -> Message]
    BY <1>1, <2>1 DEF Send, TypeOK
  <2>3. up' \in [Peer -> Seq(Message)]
    BY <1>1, <2>1, Put DEF Send, TypeOK
  <2> QED  BY <1>1, <2>2, <2>3 DEF Send, TypeOK, Started
<1>2. CASE SendClose(s)
  <2>1. up' \in [Peer -> Seq(Message)]
    BY <1>2, Put, CloseType DEF SendClose, TypeOK
  <2> QED  BY <1>2, <2>1 DEF SendClose, TypeOK, Started
<1>3. CASE Receive(s)
  <2>1. down' \in [Peer -> Seq(Message)] /\ Head(down[s]) \in Message
    BY <1>3, Take DEF Receive, TypeOK
  <2>2. received' \in [Peer -> Seq(Message)]
    BY <1>3, <2>1, Put DEF Receive, TypeOK
  <2> QED  BY <1>3, <2>1, <2>2 DEF Receive, TypeOK, Started
<1>4. CASE HangUp(s)
  BY <1>4 DEF HangUp, TypeOK, Started
<1> QED  BY <1>1, <1>2, <1>3, <1>4

\* The types are those declared, and the goroutines report once.
LEMMA TypeStep ==
  ASSUME TypeOK, Started, [Next]_vars
  PROVE  TypeOK' /\ Started'
<1>1. CASE Handler
  BY <1>1, TypeHandler
<1>2. ASSUME pc # "died", NEW d \in Peer, Copy(d)
      PROVE  TypeOK' /\ Started'
  BY <1>2, TypeCopy
<1>3. ASSUME NEW s \in Peer, Send(s) \/ SendClose(s) \/ Receive(s) \/ HangUp(s)
      PROVE  TypeOK' /\ Started'
  BY <1>3, TypePeer
<1>4. CASE UNCHANGED vars
  BY <1>4 DEF TypeOK, Started, vars, proxy, peers
<1> QED  BY <1>1, <1>2, <1>3, <1>4 DEF Next, Quiet

-----------------------------------------------------------------------------
(* What a step leaves as it was *)

\* What was written to a peer is as it was when nothing was written or received.
LEMMA WrittenStays ==
  ASSUME TypeOK, TypeOK', NEW s \in Peer, WrittenTo(s),
         received'[s] = received[s], down'[s] = down[s],
         sent'[Other(s)] >= sent[Other(s)], closeSent \subseteq closeSent'
  PROVE  WrittenTo(s)'
<1>1. /\ received[s] \in Seq(Message) /\ down[s] \in Seq(Message)
      /\ sent[Other(s)] \in Nat /\ sent'[Other(s)] \in Nat
  BY Peers, CloseType DEF TypeOK
<1>2. \A n \in Nat : n <= sent[Other(s)] => n <= sent'[Other(s)]
  BY <1>1
<1>3. /\ \A i \in 1..Len(received[s]) : received[s][i] \in Nat
      /\ \A i \in 1..Len(down[s]) : down[s][i] \in Nat
  BY <1>1, Numbers
<1>4. \A i \in 1..Len(received[s]) : received[s][i] <= sent'[Other(s)]
  BY <1>2, <1>3 DEF WrittenTo
<1>5. \A i \in 1..Len(down[s]) : down[s][i] <= sent'[Other(s)]
  BY <1>2, <1>3 DEF WrittenTo
<1> QED  BY <1>4, <1>5 DEF WrittenTo

\* What waits to be read is as it was when neither queue of its way was touched.
LEMMA WaitingStays ==
  ASSUME NEW d \in Peer, WaitingFrom(d), up'[d] = up[d], sent'[d] = sent[d],
         closeSent \subseteq closeSent', peer'[d] \in {peer[d], "gone"},
         Copies(d)' /\ To(d) \notin closeSent' =>
           /\ Copies(d) /\ ReadUpTo(d)' = ReadUpTo(d)
           /\ copier'[d] = "write" => copier[d] = "write" /\ held'[d] = held[d]
  PROVE  WaitingFrom(d)'
<1>1. \A i \in 1..Len(up'[d]) : up'[d][i] = Close => peer'[d] # "open"
  BY DEF WaitingFrom
<1>2. ASSUME Copies(d)', To(d) \notin closeSent'
      PROVE  /\ Copies(d) /\ To(d) \notin closeSent
             /\ ReadUpTo(d)' = ReadUpTo(d)
             /\ copier'[d] = "write" => copier[d] = "write" /\ held'[d] = held[d]
  BY <1>2
<1> QED  BY <1>1, <1>2 DEF WaitingFrom

\* The end of a conversation is as it was when the goroutine of that side and the
\* queue it writes to are, or the goroutine only copies,
LEMMA EndingStays ==
  ASSUME NEW d \in Peer, Ending(d), peer'[d] = "closing" => peer[d] = "closing",
         peer'[To(d)] = "open" => peer[To(d)] = "open",
         \/ Copies(d) /\ Copies(d)'
         \/ /\ copier'[d] = copier[d] /\ sent'[d] = sent[d] /\ Way(To(d))' = Way(To(d))
            /\ (To(d) \in closeSent) <=> (To(d) \in closeSent'),
         peer'[d] = "closing" /\ peer'[To(d)] = "open" /\ Copies(d)' /\ Calm => Calm'
  PROVE  Ending(d)'
<1> SUFFICES ASSUME peer'[d] = "closing", peer'[To(d)] = "open"
             PROVE  /\ copier'[d] # "fail"
                    /\ Copies(d)' => Calm'
                    /\ copier'[d] \in {"report", "bye"} =>
                         To(d) \notin closeSent' /\ sent'[d] = Way(To(d))'
                    /\ copier'[d] = "ended" /\ To(d) \in closeSent' =>
                         sent'[d] + 1 = Way(To(d))'
  BY DEF Ending
<1>1. peer[d] = "closing" /\ peer[To(d)] = "open"
  OBVIOUS
<1>2. CASE Copies(d) /\ Copies(d)'
  BY <1>1, <1>2 DEF Ending, Copies
<1>3. CASE /\ copier'[d] = copier[d] /\ sent'[d] = sent[d] /\ Way(To(d))' = Way(To(d))
           /\ (To(d) \in closeSent) <=> (To(d) \in closeSent')
  BY <1>1, <1>3 DEF Ending, Copies
<1> QED  BY <1>2, <1>3

-----------------------------------------------------------------------------
(* What fails *)

\* While both peers are there, nothing fails until a close message is read.
LEMMA CalmStep ==
  ASSUME TypeOK, Started, Calm, Next, \A p \in Peer : peer[p] # "gone",
         \A p \in Peer : ~ReadClose(p)
  PROVE  Calm'
<1> USE DEF Calm, Copies
<1>1. CASE Handler
  <2>1. CASE NotInstalled \/ Installed \/ DialFails \/ Dial \/ UpgradeFails
    BY <1>1, <2>1 DEF NotInstalled, Installed, DialFails, Dial, UpgradeFails, At, Goto
  <2>2. CASE Upgrade
    BY <2>2 DEF Upgrade, Goto
  <2>3. ASSUME NEW d \in Peer, Select(d)
        PROVE  FALSE
    BY <2>3 DEF Select
  <2>4. CASE CloseBackend
    BY <2>4 DEF CloseBackend, At
  <2> QED  BY <1>1, <2>1, <2>2, <2>3, <2>4 DEF Handler
<1>2. ASSUME NEW d \in Peer, Copy(d)
      PROVE  Calm'
  <2>1. To(d) \in Peer /\ From(d) = d
    BY Peers
  <2>2. CASE Read(d) \/ Write(d)
    <3>1. PICK l \in {"read", "write"} : copier' = [copier EXCEPT ![d] = l]
      BY <2>2 DEF Read, Write, Moves
    <3>2. UNCHANGED <<pc, channel, closed, closeSent>>
      BY <2>2 DEF Read, Write
    <3>3. \A e \in Peer : copier'[e] \in {"none", "read", "write"}
      BY <3>1 DEF TypeOK
    <3> QED  BY <3>2, <3>3
  <2>3. \A p \in Peer : ~ClosedTo(p) /\ peer[p] # "gone" /\ p \notin closeSent
    BY DEF ClosedTo
  <2>4. ~ReadFails(d) /\ ~WriteFails(d)
    BY <2>1, <2>3 DEF ReadFails, WriteFails
  <2>5. CASE Report(d) \/ SayBye(d) \/ ByeFails(d)
    BY <2>5 DEF Report, SayBye, ByeFails
  <2> QED  BY <1>2, <2>2, <2>4, <2>5 DEF Copy
<1>3. ASSUME NEW s \in Peer, Send(s) \/ SendClose(s) \/ Receive(s) \/ HangUp(s)
      PROVE  Calm'
  BY <1>3 DEF Send, SendClose, Receive, HangUp, proxy
<1>4. CASE Quiet
  BY <1>4 DEF Quiet, vars, proxy
<1> QED  BY <1>1, <1>2, <1>3, <1>4 DEF Next

\* A close message is read from a peer that has ended the conversation.
LEMMA CloseEnds ==
  ASSUME NEW d \in Peer, TypeOK, WaitingFrom(d), ReadClose(d)
  PROVE  /\ peer[d] # "open" /\ up[d][1] = Close /\ 1 \in 1..Len(up[d])
         /\ copier[d] = "read" /\ copier'[d] = "report"
<1>1. up[d] \in Seq(Message) /\ up[d] # <<>>
  BY Peers DEF ReadClose, CanRead, TypeOK
<1>2. Len(up[d]) \in Nat \ {0} /\ Head(up[d]) = up[d][1]
  BY <1>1
<1>3. up[d][1] = Close /\ 1 \in 1..Len(up[d])
  BY <1>2, Peers DEF ReadClose
<1>4. copier[d] = "read" /\ copier'[d] = "report"
  BY DEF ReadClose, CanRead, Moves, TypeOK
<1> QED  BY <1>3, <1>4 DEF WaitingFrom

\* So nothing fails while neither has ended it,
LEMMA OpenCalm ==
  ASSUME ProxyInv, Next, \A p \in Peer : peer'[p] = "open", \A p \in Peer : peer[p] = "open"
  PROVE  Calm'
<1>1. Calm /\ TypeOK /\ Started
  BY DEF ProxyInv, Conversation
<1>2. \A p \in Peer : ~ReadClose(p)
  BY CloseEnds DEF ProxyInv, Conversation
<1> QED  BY <1>1, <1>2, CalmStep

\* nor, when one has and the other waits, while what the first sent is being read.
LEMMA EndingCalm ==
  ASSUME ProxyInv, Next, NEW d \in Peer,
         peer[d] = "closing", peer[To(d)] = "open", Calm, Copies(d)'
  PROVE  Calm'
<1>1. TypeOK /\ Started /\ WaitingFrom(d) /\ WaitingFrom(To(d))
  BY Peers DEF ProxyInv, Conversation
<1>2. ~ReadClose(d)
  BY <1>1, CloseEnds DEF Copies
<1>3. ~ReadClose(To(d))
  BY <1>1, Peers, CloseEnds
<1>4. \A p \in Peer : ~ReadClose(p)
  BY <1>2, <1>3, Peers
<1>5. \A p \in Peer : peer[p] # "gone"
  BY Peers
<1> QED  BY <1>1, <1>4, <1>5, CalmStep

-----------------------------------------------------------------------------
(* The steps of the handler and of the goroutines *)

\* A step that touches no queue and writes nothing: only goroutines that fail or
\* have failed may disturb the conversation.
LEMMA StillStep ==
  ASSUME ProxyInv, TypeOK', Next, UNCHANGED <<held, closeSent, up, down, peers>>,
         \A e \in Peer : \/ copier'[e] = copier[e]
                         \/ copier[e] = "none" /\ copier'[e] = "read"
                         \/ ~Copies(e)' /\ Ending(e)'
  PROVE  Conversation'
<1> USE DEF peers
<1>1. ASSUME NEW s \in Peer
      PROVE  WrittenTo(s)'
  <2>1. sent'[Other(s)] \in Nat /\ sent'[Other(s)] = sent[Other(s)]
    BY Peers, CloseType DEF TypeOK
  <2>2. sent'[Other(s)] >= sent[Other(s)]
    BY <2>1
  <2> QED  BY <2>2, WrittenStays DEF ProxyInv, Conversation
<1>2. \A d \in Peer : Way(d)' = Way(d)
  BY DEF Way
<1>3. ASSUME NEW d \in Peer
      PROVE  WaitingFrom(d)'
  <2>1. Copies(d)' => /\ Copies(d) /\ ReadUpTo(d)' = ReadUpTo(d)
                      /\ copier'[d] = "write" => copier[d] = "write"
    BY Peers, <1>2 DEF Copies, ReadUpTo
  <2> QED  BY <2>1, WaitingStays DEF ProxyInv, Conversation
<1>4. (\A p \in Peer : peer'[p] = "open") => Calm'
  BY OpenCalm
<1>5. ASSUME NEW d \in Peer
      PROVE  Ending(d)'
  <2>1. CASE ~Copies(d)' /\ Ending(d)'
    BY <2>1
  <2>2. CASE copier'[d] = copier[d] \/ (copier[d] = "none" /\ copier'[d] = "read")
    <3>1. \/ Copies(d) /\ Copies(d)'
          \/ copier'[d] = copier[d] /\ sent'[d] = sent[d] /\ Way(To(d))' = Way(To(d))
      BY <2>2, Peers, <1>2 DEF Copies
    <3>2. peer[d] = "closing" /\ peer[To(d)] = "open" /\ Copies(d)' /\ Calm => Calm'
      BY EndingCalm
    <3> QED  BY <3>1, <3>2, EndingStays DEF ProxyInv, Conversation
  <2> QED  BY <2>1, <2>2
<1> QED  BY <1>1, <1>3, <1>4, <1>5 DEF Conversation

\* Steps of the handler.
LEMMA HandlerStep ==
  ASSUME ProxyInv, TypeOK', Next, Handler
  PROVE  Conversation'
<1>1. UNCHANGED <<held, closeSent, up, down, peers>>
  BY DEF Handler, NotInstalled, Installed, DialFails, Dial, UpgradeFails, Upgrade, Select,
         CloseBackend
<1>2. CASE Upgrade
  <2>1. \A e \in Peer : copier[e] = "none" /\ copier'[e] = "read"
    BY <1>2 DEF Upgrade, At, Before, ProxyInv, Started
  <2> QED  BY <1>1, <2>1, StillStep
<1>3. CASE ~Upgrade
  <2>1. UNCHANGED copier
    BY <1>3 DEF Handler, NotInstalled, Installed, DialFails, Dial, UpgradeFails, Select,
                CloseBackend
  <2> QED  BY <1>1, <2>1, StillStep
<1> QED  BY <1>2, <1>3

\* Steps of a goroutine that has failed, or fails: while one peer ends the
\* conversation and the other waits, only a close message makes it fail.
LEMMA FailStep ==
  ASSUME ProxyInv, TypeOK', Next, NEW d \in Peer,
         ReadFails(d) \/ WriteFails(d) \/ Report(d) \/ ByeFails(d)
  PROVE  Conversation'
<1>1. UNCHANGED <<held, closeSent, up, down, peers>>
  BY DEF ReadFails, WriteFails, Report, ByeFails
<1>2. To(d) \in Peer /\ From(d) = d /\ TypeOK /\ Ending(d)
  BY Peers DEF ProxyInv, Conversation
<1>3. PICK l \in {"report", "fail", "bye", "ended"} : copier' = [copier EXCEPT ![d] = l]
  BY DEF ReadFails, WriteFails, Report, ByeFails, Moves
<1>4. copier'[d] = l /\ \A e \in Peer \ {d} : copier'[e] = copier[e]
  BY <1>2, <1>3 DEF TypeOK
<1>5. UNCHANGED <<sent, peer>> /\ Way(To(d))' = Way(To(d))
  BY <1>1 DEF peers, Way
<1>6. ASSUME peer[d] = "closing", peer[To(d)] = "open"
      PROVE  Ending(d)'
  <2>1. Calm => ~ReadFails(d) /\ ~WriteFails(d)
    BY <1>2, <1>6 DEF Calm, ClosedTo, ReadFails, WriteFails
  <2>2. CASE ReadFails(d) \/ WriteFails(d)
    BY <1>2, <1>6, <2>1, <2>2 DEF Ending, Copies, ReadFails, WriteFails
  <2>3. CASE Report(d)
    <3>1. copier[d] = "report" /\ copier'[d] = "bye"
      BY <1>2, <1>6, <2>3 DEF Report, Moves, Ending, TypeOK
    <3> QED  BY <1>1, <1>2, <1>5, <1>6, <3>1 DEF Ending, Copies
  <2>4. CASE ByeFails(d)
    <3>1. copier[d] = "bye" /\ copier'[d] = "ended"
      BY <1>2, <2>4 DEF ByeFails, Moves, TypeOK
    <3> QED  BY <1>1, <1>2, <1>5, <1>6, <3>1 DEF Ending, Copies
  <2> QED  BY <2>2, <2>3, <2>4
<1>7. ~Copies(d)' /\ Ending(d)'
  BY <1>4, <1>5, <1>6 DEF Copies, Ending
<1> QED  BY <1>1, <1>4, <1>7, StillStep

\* A message is written to a peer that has not been told of the end.
LEMMA WrittenPut ==
  ASSUME TypeOK, NEW s \in Peer, WrittenTo(s), s \notin closeSent,
         NEW m \in Message, down' = Append1(down, s, m),
         received' = received, sent' = sent, closeSent \subseteq closeSent',
         \/ m = Close /\ s \in closeSent'
         \/ m = Way(s) + 1 /\ m <= sent[Other(s)]
  PROVE  /\ WrittenTo(s)' /\ Way(s)' = Way(s) + 1
         /\ \A t \in Peer \ {s} : down'[t] = down[t] /\ Way(t)' = Way(t)
<1>1. down \in [Peer -> Seq(Message)] /\ received[s] \in Seq(Message) /\ sent[Other(s)] \in Nat
  BY Peers, CloseType DEF TypeOK
<1>2. PICK r \in Nat : r = Len(received[s])
  BY <1>1
<1>3. PICK k \in Nat : k = Len(down[s])
  BY <1>1
<1>4. /\ Len(down'[s]) = k + 1 /\ down'[s][k + 1] = m
      /\ \A i \in 1..k : down'[s][i] = down[s][i]
      /\ \A t \in Peer \ {s} : down'[t] = down[t]
  BY <1>1, <1>3, Put
<1>5. Way(s) = r + k /\ Way(s)' = r + (k + 1) /\ \A t \in Peer \ {s} : Way(t)' = Way(t)
  BY <1>2, <1>3, <1>4 DEF Way
<1>6. m <= sent[Other(s)] /\ (m = Close \/ m = r + (k + 1)) /\ (m = Close => s \in closeSent')
  BY <1>1, <1>5 DEF Close
<1>7. /\ \A i \in 1..r : /\ received[s][i] \in {i, Close} /\ received[s][i] <= sent[Other(s)]
                         /\ received[s][i] # Close
      /\ \A i \in 1..k : /\ down[s][i] \in {r + i, Close} /\ down[s][i] <= sent[Other(s)]
                         /\ down[s][i] # Close
  BY <1>2, <1>3 DEF WrittenTo
<1>8. ASSUME NEW i \in 1..(k + 1)
      PROVE  /\ down'[s][i] \in {r + i, Close} /\ down'[s][i] <= sent[Other(s)]
             /\ down'[s][i] = Close => s \in closeSent' /\ i = k + 1
  <2>1. CASE i \in 1..k
    BY <1>4, <1>7, <2>1
  <2>2. CASE i = k + 1
    BY <1>4, <1>6, <2>2
  <2> QED  BY <2>1, <2>2
<1>9. WrittenTo(s)'
  BY <1>2, <1>4, <1>7, <1>8 DEF WrittenTo
<1> QED  BY <1>4, <1>5, <1>9

\* Lengths are numbers.
LEMMA WayNat ==
  ASSUME TypeOK, NEW s \in Peer
  PROVE  /\ Way(s) \in Nat /\ Len(received[s]) \in Nat /\ Len(down[s]) \in Nat
         /\ Len(up[s]) \in Nat /\ sent[s] \in Nat
<1>1. /\ received[s] \in Seq(Message) /\ down[s] \in Seq(Message) /\ up[s] \in Seq(Message)
      /\ sent[s] \in Nat
  BY CloseType DEF TypeOK
<1>2. Len(received[s]) \in Nat /\ Len(down[s]) \in Nat /\ Len(up[s]) \in Nat
  BY <1>1, Numbers
<1>3. Way(s) \in Nat
  <2>1. \A m, n \in Nat : m + n \in Nat
    OBVIOUS
  <2> QED  BY <1>2, <2>1 DEF Way
<1> QED  BY <1>1, <1>2, <1>3

\* A message is written to the other peer: the next one, since nothing fails
\* between a goroutine's reading and writing.
LEMMA WriteStep ==
  ASSUME ProxyInv, TypeOK', Next, NEW d \in Peer, Write(d)
  PROVE  Conversation'
<1>1. PICK s \in Peer : s = To(d)
  BY Peers
<1>2. /\ s # d /\ To(s) = d /\ Other(s) = d /\ Other(d) = s
      /\ \A p \in Peer : p = d \/ p = s
  BY <1>1, Peers
<1>3. /\ copier[d] = "write" /\ copier'[d] = "read" /\ copier'[s] = copier[s]
      /\ s \notin closeSent /\ down' = Append1(down, s, held[d])
      /\ UNCHANGED <<held, closeSent, up, sent, received, peer>>
  BY <1>1, <1>2 DEF Write, Moves, ProxyInv, TypeOK, peers
<1>4. /\ TypeOK /\ held[d] \in Message /\ Way(s) \in Nat
      /\ \A p \in Peer : WrittenTo(p) /\ WaitingFrom(p) /\ Ending(p)
  BY WayNat DEF ProxyInv, Conversation, TypeOK
<1>5. held[d] = Way(s) + 1 /\ held[d] <= sent[d]
  BY <1>1, <1>3, <1>4 DEF WaitingFrom, ReadUpTo, Copies
<1>6. /\ WrittenTo(s)' /\ Way(s)' = Way(s) + 1 /\ down'[d] = down[d] /\ Way(d)' = Way(d)
  BY <1>2, <1>3, <1>4, <1>5, WrittenPut
<1>7. WrittenTo(d)'
  <2>1. sent'[Other(d)] >= sent[Other(d)]
    BY <1>2, <1>3, <1>4, WayNat
  <2> QED  BY <1>3, <1>4, <1>6, <2>1, WrittenStays
<1>8. WaitingFrom(d)'
  <2>1. ReadUpTo(d)' = ReadUpTo(d)
    BY <1>1, <1>3, <1>4, <1>6 DEF ReadUpTo
  <2> QED  BY <1>3, <1>4, <2>1, WaitingStays DEF Copies
<1>9. WaitingFrom(s)'
  <2>1. ReadUpTo(s)' = ReadUpTo(s) /\ (Copies(s)' <=> Copies(s))
    BY <1>2, <1>3, <1>6 DEF ReadUpTo, Copies
  <2> QED  BY <1>3, <1>4, <2>1, WaitingStays
<1>10. \A p \in Peer : peer[p] = "closing" /\ peer[To(p)] = "open" /\ Copies(p)' /\ Calm => Calm'
  BY EndingCalm
<1>11. Ending(d)'
  <2>1. Copies(d) /\ Copies(d)'
    BY <1>3 DEF Copies
  <2> QED  BY <1>3, <1>4, <1>10, <2>1, EndingStays
<1>12. Ending(s)'
  <2>1. Way(To(s))' = Way(To(s))
    BY <1>2, <1>6
  <2>2. peer[s] = "closing" /\ peer[To(s)] = "open" /\ Copies(s)' /\ Calm => Calm'
    BY <1>10
  <2>3. Ending(s)
    BY <1>4
  <2> QED  BY <1>3, <2>1, <2>2, <2>3, EndingStays
<1> QED  BY <1>2, <1>3, <1>6, <1>7, <1>8, <1>9, <1>11, <1>12, OpenCalm DEF Conversation

\* A message is read: it is the next one, and the others wait as before.
LEMMA ReadWaiting ==
  ASSUME TypeOK, NEW d \in Peer, WaitingFrom(d), Read(d)
  PROVE  WaitingFrom(d)'
<1>1. /\ up \in [Peer -> Seq(Message)] /\ Way(To(d)) \in Nat /\ sent[d] \in Nat
  BY Peers, WayNat DEF TypeOK
<1>2. /\ copier[d] = "read" /\ copier'[d] = "write" /\ up[d] # <<>>
      /\ up' = [up EXCEPT ![d] = Tail(@)] /\ Head(up[d]) # Close /\ held'[d] = Head(up[d])
      /\ UNCHANGED <<closeSent, down, sent, received, peer>>
  BY Peers DEF Read, CanRead, Moves, TypeOK, peers
<1>3. PICK n \in Nat \ {0} : n = Len(up[d])
  BY <1>1, <1>2, Take
<1>4. /\ up[d][1] # Close /\ held'[d] = up[d][1] /\ Len(up'[d]) = n - 1
      /\ \A i \in 1..(n - 1) : i + 1 \in 1..n /\ up'[d][i] = up[d][i + 1]
      /\ up'[d] \in Seq(Message)
  BY <1>1, <1>2, <1>3, Take
<1>5. PICK k \in Nat : k = Way(To(d))
  BY <1>1
<1>6. ReadUpTo(d) = k /\ ReadUpTo(d)' = k + 1
  BY <1>2, <1>5 DEF ReadUpTo, Way
<1>7. \A i \in 1..(n - 1) : up'[d][i] = Close => peer'[d] # "open"
  BY <1>2, <1>3, <1>4 DEF WaitingFrom
<1>8. ASSUME To(d) \notin closeSent
      PROVE  /\ held'[d] = k + 1 /\ held'[d] <= sent[d]
             /\ \A i \in 1..(n - 1) :
                  \/ up'[d][i] = k + 1 + i /\ up'[d][i] <= sent[d]
                  \/ up'[d][i] = Close /\ i = n - 1
             /\ peer[d] = "open" => sent[d] = k + 1 + (n - 1)
             /\ peer[d] = "closing" => /\ n - 1 >= 1 /\ up'[d][n - 1] = Close
                                       /\ sent[d] + 1 = k + 1 + (n - 1)
  <2>1. /\ \A i \in 1..n : \/ up[d][i] = k + i /\ up[d][i] <= sent[d]
                           \/ up[d][i] = Close /\ i = n
        /\ peer[d] = "open" => sent[d] = k + n
        /\ peer[d] = "closing" => up[d][n] = Close /\ sent[d] + 1 = k + n
    BY <1>2, <1>3, <1>6, <1>8 DEF WaitingFrom, Copies
  <2>2. 1 \in 1..n
    OBVIOUS
  <2>3. held'[d] = k + 1 /\ held'[d] <= sent[d]
    BY <1>4, <2>1, <2>2
  <2>4. ASSUME NEW i \in 1..(n - 1)
        PROVE  \/ up'[d][i] = k + 1 + i /\ up'[d][i] <= sent[d]
               \/ up'[d][i] = Close /\ i = n - 1
    <3>1. i + 1 \in 1..n /\ up'[d][i] = up[d][i + 1]
      BY <1>4
    <3>2. \/ up[d][i + 1] = k + (i + 1) /\ up[d][i + 1] <= sent[d]
          \/ up[d][i + 1] = Close /\ i + 1 = n
      BY <2>1, <3>1
    <3> QED  BY <3>1, <3>2
  <2>5. ASSUME peer[d] = "closing"
        PROVE  n - 1 >= 1 /\ up'[d][n - 1] = Close
    <3>1. up[d][n] = Close /\ n # 1
      BY <1>4, <2>1, <2>5
    <3>2. n - 1 \in 1..(n - 1)
      BY <3>1
    <3> QED  BY <1>4, <3>1, <3>2
  <2> QED  BY <2>1, <2>3, <2>4, <2>5
<1>9. n - 1 >= 1 => up'[d] # <<>>
  BY <1>4
<1> QED  BY <1>2, <1>4, <1>6, <1>7, <1>8, <1>9 DEF WaitingFrom

\* A message is read.
LEMMA ReadStep ==
  ASSUME ProxyInv, TypeOK', Next, NEW d \in Peer, Read(d)
  PROVE  Conversation'
<1>1. PICK s \in Peer : s = To(d)
  BY Peers
<1>2. s # d /\ To(s) = d /\ \A p \in Peer : p = d \/ p = s
  BY <1>1, Peers
<1>3. /\ TypeOK /\ \A p \in Peer : WrittenTo(p) /\ WaitingFrom(p) /\ Ending(p)
  BY DEF ProxyInv, Conversation
<1>4. /\ copier[d] = "read" /\ copier'[d] = "write"
      /\ copier'[s] = copier[s] /\ held'[s] = held[s] /\ up'[s] = up[s]
      /\ UNCHANGED <<closeSent, down, sent, received, peer>>
  BY <1>2, <1>3, Peers DEF Read, CanRead, Moves, TypeOK, peers
<1>5. \A p \in Peer : Way(p)' = Way(p)
  BY <1>4 DEF Way
<1>6. ASSUME NEW p \in Peer
      PROVE  WrittenTo(p)'
  <2>1. sent'[Other(p)] >= sent[Other(p)]
    BY <1>3, <1>4, Peers, WayNat
  <2> QED  BY <1>3, <1>4, <2>1, WrittenStays
<1>7. WaitingFrom(d)'
  BY <1>3, ReadWaiting
<1>8. WaitingFrom(s)'
  <2>1. ReadUpTo(s)' = ReadUpTo(s) /\ (Copies(s)' <=> Copies(s))
    BY <1>2, <1>4, <1>5 DEF ReadUpTo, Copies
  <2> QED  BY <1>3, <1>4, <2>1, WaitingStays
<1>9. \A p \in Peer : peer[p] = "closing" /\ peer[To(p)] = "open" /\ Copies(p)' /\ Calm => Calm'
  BY EndingCalm
<1>10. Ending(d)'
  <2>1. Copies(d) /\ Copies(d)'
    BY <1>4 DEF Copies
  <2> QED  BY <1>3, <1>4, <1>9, <2>1, EndingStays
<1>11. Ending(s)'
  <2>1. Way(To(s))' = Way(To(s))
    BY <1>2, <1>5
  <2>2. peer[s] = "closing" /\ peer[To(s)] = "open" /\ Copies(s)' /\ Calm => Calm'
    BY <1>9
  <2>3. Ending(s)
    BY <1>3
  <2> QED  BY <1>4, <2>1, <2>2, <2>3, EndingStays
<1> QED  BY <1>2, <1>4, <1>6, <1>7, <1>8, <1>10, <1>11, OpenCalm DEF Conversation

\* A close message is read: it is the last thing its peer sent, and was calm till
\* then.
LEMMA ReadCloseStep ==
  ASSUME ProxyInv, TypeOK', Next, NEW d \in Peer, ReadClose(d)
  PROVE  Conversation'
<1>1. PICK s \in Peer : s = To(d)
  BY Peers
<1>2. s # d /\ To(s) = d /\ \A p \in Peer : p = d \/ p = s
  BY <1>1, Peers
<1>3. /\ TypeOK /\ \A p \in Peer : WrittenTo(p) /\ WaitingFrom(p) /\ Ending(p)
  BY DEF ProxyInv, Conversation
<1>4. /\ peer[d] # "open" /\ up[d][1] = Close /\ 1 \in 1..Len(up[d])
      /\ copier[d] = "read" /\ copier'[d] = "report"
  BY <1>3, CloseEnds
<1>5. /\ copier'[s] = copier[s] /\ up' = [up EXCEPT ![d] = Tail(@)] /\ up'[s] = up[s]
      /\ UNCHANGED <<held, sent, received, peer>>
  <2>1. /\ copier' = [copier EXCEPT ![d] = "report"] /\ up' = [up EXCEPT ![d] = Tail(@)]
        /\ UNCHANGED <<held, sent, received, peer>>
    BY Peers DEF ReadClose, Moves, peers
  <2> QED  BY <1>2, <1>3, <2>1 DEF TypeOK
<1>6. /\ closeSent \subseteq closeSent' /\ closeSent' \subseteq closeSent \cup {d}
      /\ \/ d \notin closeSent /\ d \in closeSent' /\ down' = Append1(down, d, Close)
         \/ down' = down
  BY Peers DEF ReadClose
<1>7. /\ WrittenTo(d)' /\ down'[s] = down[s] /\ Way(s)' = Way(s)
      /\ (d \notin closeSent' => Way(d)' = Way(d))
  <2>1. CASE d \notin closeSent /\ d \in closeSent' /\ down' = Append1(down, d, Close)
    <3>1. WrittenTo(d)' /\ \A t \in Peer \ {d} : down'[t] = down[t] /\ Way(t)' = Way(t)
      BY <1>3, <1>5, <1>6, <2>1, CloseType, WrittenPut
    <3> QED  BY <1>2, <2>1, <3>1
  <2>2. CASE down' = down
    <3>1. sent'[Other(d)] >= sent[Other(d)]
      BY <1>3, <1>5, Peers, WayNat
    <3>2. \A p \in Peer : Way(p)' = Way(p)
      BY <1>5, <2>2 DEF Way
    <3>3. WrittenTo(d)'
      BY <1>3, <1>5, <1>6, <2>2, <3>1, WrittenStays
    <3> QED  BY <2>2, <3>2, <3>3
  <2> QED  BY <1>6, <2>1, <2>2
<1>8. WrittenTo(s)'
  <2>1. sent'[Other(s)] >= sent[Other(s)]
    BY <1>3, <1>5, Peers, WayNat
  <2> QED  BY <1>3, <1>5, <1>6, <1>7, <2>1, WrittenStays
<1>9. WaitingFrom(d)'
  BY <1>4, <1>5 DEF WaitingFrom, Copies
<1>10. WaitingFrom(s)'
  <2>1. d \notin closeSent' => ReadUpTo(s)' = ReadUpTo(s) /\ (Copies(s)' <=> Copies(s))
    BY <1>2, <1>5, <1>7 DEF ReadUpTo, Copies
  <2> QED  BY <1>2, <1>3, <1>5, <1>6, <2>1, WaitingStays
<1>11. Ending(d)'
  <2>1. SUFFICES ASSUME peer[d] = "closing", peer[s] = "open"
                 PROVE  s \notin closeSent' /\ sent'[d] = Way(s)'
    BY <1>1, <1>4, <1>5 DEF Ending, Copies
  <2>2. Calm
    BY <1>1, <1>3, <1>4, <2>1 DEF Ending, Copies
  <2>3. s \notin closeSent'
    BY <1>2, <1>6, <2>2 DEF Calm
  <2>4. Way(s) \in Nat /\ sent[d] \in Nat
    BY <1>3, WayNat
  <2>5. ReadUpTo(d) = Way(s)
    BY <1>1, <1>4, <2>4 DEF ReadUpTo
  <2>6. /\ \/ up[d][1] = Way(s) + 1
           \/ 1 = Len(up[d])
        /\ sent[d] + 1 = Way(s) + Len(up[d])
    BY <1>1, <1>3, <1>4, <1>6, <2>1, <2>3, <2>5 DEF WaitingFrom, Copies
  <2>7. Way(s) + 1 # Close
    BY <2>4 DEF Close
  <2>8. 1 = Len(up[d])
    BY <1>4, <2>6, <2>7
  <2>9. sent[d] = Way(s)
    <3>1. sent[d] + 1 = Way(s) + 1
      BY <2>6, <2>8
    <3> QED  BY <2>4, <3>1
  <2> QED  BY <1>5, <1>7, <2>3, <2>9
<1>12. Ending(s)'
  BY <1>2, <1>4, <1>5 DEF Ending
<1> QED  BY <1>2, <1>4, <1>5, <1>7, <1>8, <1>9, <1>10, <1>11, <1>12 DEF Conversation

\* A close message is passed on, once everything before it was.
LEMMA ByeStep ==
  ASSUME ProxyInv, TypeOK', Next, NEW d \in Peer, SayBye(d)
  PROVE  Conversation'
<1>1. PICK s \in Peer : s = To(d)
  BY Peers
<1>2. s # d /\ To(s) = d /\ Other(d) = s /\ \A p \in Peer : p = d \/ p = s
  BY <1>1, Peers
<1>3. /\ TypeOK /\ \A p \in Peer : WrittenTo(p) /\ WaitingFrom(p) /\ Ending(p)
  BY DEF ProxyInv, Conversation
<1>4. /\ copier[d] = "bye" /\ s \notin closeSent /\ down' = Append1(down, s, Close)
      /\ copier' = [copier EXCEPT ![d] = "ended"] /\ closeSent' = closeSent \cup {s}
      /\ UNCHANGED <<held, up, sent, received, peer>>
  BY <1>1 DEF SayBye, Moves, peers
<1>5. copier'[d] = "ended" /\ copier'[s] = copier[s]
  BY <1>2, <1>3, <1>4 DEF TypeOK
<1>6. /\ WrittenTo(s)' /\ Way(s)' = Way(s) + 1 /\ down'[d] = down[d] /\ Way(d)' = Way(d)
  BY <1>2, <1>3, <1>4, CloseType, WrittenPut
<1>7. WrittenTo(d)'
  <2>1. sent'[Other(d)] >= sent[Other(d)]
    BY <1>2, <1>3, <1>4, WayNat
  <2> QED  BY <1>3, <1>4, <1>6, <2>1, WrittenStays
<1>8. WaitingFrom(d)'
  BY <1>3, <1>4, <1>5 DEF WaitingFrom, Copies
<1>9. WaitingFrom(s)'
  <2>1. ReadUpTo(s)' = ReadUpTo(s) /\ (Copies(s)' <=> Copies(s))
    BY <1>2, <1>5, <1>6 DEF ReadUpTo, Copies
  <2> QED  BY <1>3, <1>4, <1>5, <2>1, WaitingStays
<1>10. Ending(d)'
  <2>1. SUFFICES ASSUME peer[d] = "closing", peer[s] = "open"
                 PROVE  sent'[d] + 1 = Way(s)'
    BY <1>1, <1>4, <1>5 DEF Ending, Copies
  <2>2. sent[d] = Way(s)
    BY <1>1, <1>3, <1>4, <2>1 DEF Ending
  <2> QED  BY <1>4, <1>6, <2>2
<1>11. Ending(s)'
  <2>1. Way(To(s))' = Way(To(s)) /\ ((To(s) \in closeSent) <=> (To(s) \in closeSent'))
    BY <1>2, <1>4, <1>6
  <2>2. peer[s] = "closing" /\ peer[To(s)] = "open" /\ Copies(s)' /\ Calm => Calm'
    BY EndingCalm
  <2>3. Ending(s)
    BY <1>3
  <2> QED  BY <1>4, <1>5, <2>1, <2>2, <2>3, EndingStays
<1> QED  BY <1>2, <1>4, <1>6, <1>7, <1>8, <1>9, <1>10, <1>11, OpenCalm DEF Conversation

-----------------------------------------------------------------------------
(* The steps of the browser and the component *)

\* A message or a close message is sent behind what waits, in which there is no
\* close message yet.
LEMMA SendWaiting ==
  ASSUME TypeOK, NEW d \in Peer, WaitingFrom(d), peer[d] = "open", NEW m \in Message,
         up' = Append1(up, d, m), UNCHANGED <<copier, held, closeSent, down, received>>,
         \/ peer'[d] = "open" /\ sent'[d] = sent[d] + 1 /\ m = sent[d] + 1
         \/ peer'[d] = "closing" /\ sent'[d] = sent[d] /\ m = Close
  PROVE  WaitingFrom(d)'
<1>1. up \in [Peer -> Seq(Message)] /\ Way(To(d)) \in Nat /\ sent[d] \in Nat
  BY Peers, WayNat DEF TypeOK
<1>2. PICK n \in Nat : n = Len(up[d])
  BY <1>1, Put
<1>3. /\ up'[d] \in Seq(Message) /\ Len(up'[d]) = n + 1 /\ up'[d][n + 1] = m
      /\ \A i \in 1..n : up'[d][i] = up[d][i]
  BY <1>1, <1>2, Put
<1>4. \A i \in 1..n : up[d][i] # Close
  BY <1>2 DEF WaitingFrom
<1>5. PICK k \in Nat : k = ReadUpTo(d)
  BY <1>1 DEF ReadUpTo
<1>6. ReadUpTo(d)' = k
  BY <1>5 DEF ReadUpTo, Way
<1>7. \A i \in 1..(n + 1) : up'[d][i] = Close => peer'[d] # "open"
  <2>1. sent[d] + 1 # Close
    BY <1>1 DEF Close
  <2>2. \A i \in 1..(n + 1) : i \in 1..n \/ i = n + 1
    OBVIOUS
  <2> QED  BY <1>3, <1>4, <2>1, <2>2
<1>8. ASSUME Copies(d), To(d) \notin closeSent
      PROVE  /\ copier[d] = "write" => held[d] = k /\ held[d] <= sent'[d]
             /\ \A i \in 1..(n + 1) :
                  \/ up'[d][i] = k + i /\ up'[d][i] <= sent'[d]
                  \/ up'[d][i] = Close /\ i = n + 1
             /\ peer'[d] = "open" => sent'[d] = k + (n + 1)
             /\ peer'[d] = "closing" => sent'[d] + 1 = k + (n + 1) /\ up'[d][n + 1] = Close
  <2>1. /\ copier[d] = "write" => held[d] = k /\ held[d] <= sent[d]
        /\ \A i \in 1..n : up[d][i] = k + i
        /\ sent[d] = k + n
    BY <1>2, <1>4, <1>5, <1>8 DEF WaitingFrom
  <2>2. sent'[d] \in {k + n, k + (n + 1)} /\ (m = Close \/ m = k + (n + 1))
    BY <2>1
  <2>3. copier[d] = "write" => held[d] = k /\ held[d] <= sent'[d]
    BY <2>1, <2>2
  <2>4. ASSUME NEW i \in 1..n
        PROVE  up'[d][i] = k + i /\ up'[d][i] <= sent'[d]
    BY <1>3, <2>1, <2>2
  <2>5. \/ up'[d][n + 1] = k + (n + 1) /\ up'[d][n + 1] <= sent'[d]
        \/ up'[d][n + 1] = Close
    BY <1>1, <1>3, <2>1
  <2>6. \A i \in 1..(n + 1) : i \in 1..n \/ i = n + 1
    OBVIOUS
  <2>7. /\ peer'[d] = "open" => sent'[d] = k + (n + 1)
        /\ peer'[d] = "closing" => sent'[d] + 1 = k + (n + 1) /\ up'[d][n + 1] = Close
    BY <1>1, <1>3, <2>1
  <2> QED  BY <2>3, <2>4, <2>5, <2>6, <2>7
<1>9. up'[d] # <<>>
  BY <1>3
<1>10. Copies(d)' => Copies(d)
  BY DEF Copies
<1> QED  BY <1>3, <1>6, <1>7, <1>8, <1>9, <1>10 DEF WaitingFrom

\* A peer sends a message or a close message.
LEMMA SendStep ==
  ASSUME ProxyInv, TypeOK', Next, NEW d \in Peer, Send(d) \/ SendClose(d)
  PROVE  Conversation'
<1>1. PICK s \in Peer : s = To(d)
  BY Peers
<1>2. s # d /\ To(s) = d /\ Other(d) = s /\ \A p \in Peer : p = d \/ p = s
  BY <1>1, Peers
<1>3. /\ TypeOK /\ \A p \in Peer : WrittenTo(p) /\ WaitingFrom(p) /\ Ending(p)
      /\ sent[d] \in Nat
  BY WayNat DEF ProxyInv, Conversation
<1>4. /\ peer[d] = "open" /\ UNCHANGED <<pc, copier, held, channel, closed, closeSent>>
      /\ UNCHANGED <<down, received>>
  BY DEF Send, SendClose, proxy
<1>5. PICK m \in Message :
        /\ up' = Append1(up, d, m)
        /\ \/ peer'[d] = "open" /\ sent'[d] = sent[d] + 1 /\ m = sent[d] + 1
           \/ peer'[d] = "closing" /\ sent'[d] = sent[d] /\ m = Close
  <2>1. CASE Send(d)
    <3>1. sent' = [sent EXCEPT ![d] = @ + 1] /\ peer' = peer /\ up' = Append1(up, d, sent'[d])
      BY <2>1 DEF Send
    <3>2. sent'[d] = sent[d] + 1 /\ sent'[d] \in Message
      BY <1>3, <3>1 DEF TypeOK
    <3> QED  BY <1>4, <3>1, <3>2
  <2>2. CASE SendClose(d)
    BY <1>3, <2>2, CloseType DEF SendClose, TypeOK
  <2> QED  BY <2>1, <2>2
<1>6. /\ sent'[s] = sent[s] /\ peer'[s] = peer[s] /\ up'[s] = up[s]
      /\ \A p \in Peer : Way(p)' = Way(p)
  <2>1. sent'[s] = sent[s] /\ peer'[s] = peer[s]
    BY <1>2, <1>3 DEF Send, SendClose, TypeOK
  <2>2. up'[s] = up[s]
    <3>1. up \in [Peer -> Seq(Message)]
      BY <1>3 DEF TypeOK
    <3> QED  BY <1>2, <1>5, <3>1, Put
  <2> QED  BY <1>4, <2>1, <2>2 DEF Way
<1>7. ASSUME NEW p \in Peer
      PROVE  WrittenTo(p)'
  <2>1. sent[Other(p)] \in Nat /\ (Other(p) = d \/ Other(p) = s)
    BY <1>2, <1>3, Peers, WayNat
  <2>2. sent'[Other(p)] >= sent[Other(p)]
    BY <1>5, <1>6, <2>1
  <2> QED  BY <1>3, <1>4, <2>2, WrittenStays
<1>8. WaitingFrom(d)'
  BY <1>3, <1>4, <1>5, SendWaiting
<1>9. WaitingFrom(s)'
  <2>1. ReadUpTo(s)' = ReadUpTo(s) /\ (Copies(s)' <=> Copies(s))
    BY <1>2, <1>4, <1>6 DEF ReadUpTo, Copies
  <2> QED  BY <1>3, <1>4, <1>6, <2>1, WaitingStays
<1>10. Calm' <=> Calm
  BY <1>4 DEF Calm, Copies
<1>11. (\A p \in Peer : peer'[p] = "open") => Calm'
  BY <1>2, <1>4, <1>6, <1>10 DEF ProxyInv, Conversation
<1>12. Ending(d)'
  <2>1. peer'[s] = "open" => Calm'
    BY <1>2, <1>4, <1>6, <1>10 DEF ProxyInv, Conversation
  <2>2. Calm' => copier'[d] \in {"none", "read", "write"}
    BY DEF Calm, Copies
  <2> QED  BY <1>1, <2>1, <2>2 DEF Ending
<1>13. Ending(s)'
  <2>1. CASE Send(d)
    <3>1. peer' = peer
      BY <2>1 DEF Send
    <3>2. Way(To(s))' = Way(To(s))
      BY <1>2, <1>6
    <3>3. Ending(s)
      BY <1>3
    <3> QED  BY <1>4, <1>6, <1>10, <3>1, <3>2, <3>3, EndingStays
  <2>2. CASE SendClose(d)
    <3>1. peer'[d] = "closing"
      BY <1>3, <2>2 DEF SendClose, TypeOK
    <3> QED  BY <1>2, <3>1 DEF Ending
  <2> QED  BY <2>1, <2>2
<1> QED  BY <1>2, <1>7, <1>8, <1>9, <1>11, <1>12, <1>13 DEF Conversation

\* What was written to a peer is the same when it receives some of it.
LEMMA Received ==
  ASSUME TypeOK, NEW s \in Peer, WrittenTo(s), Receive(s)
  PROVE  /\ WrittenTo(s)' /\ \A p \in Peer : Way(p)' = Way(p)
         /\ ~Told(s)
         /\ Head(down[s]) = Close => s \in closeSent /\ Len(down[s]) = 1
         /\ Head(down[s]) # Close =>
              Head(down[s]) = Len(received[s]) + 1 /\ Head(down[s]) <= sent[Other(s)]
<1>1. /\ down \in [Peer -> Seq(Message)] /\ received \in [Peer -> Seq(Message)]
      /\ sent[Other(s)] \in Nat /\ down[s] # <<>> /\ down' = [down EXCEPT ![s] = Tail(@)]
      /\ received' = Append1(received, s, Head(down[s]))
      /\ UNCHANGED <<closeSent, sent>>
  BY Peers, WayNat DEF Receive, TypeOK, proxy
<1>2. PICK m \in Message : m = Head(down[s])
  BY <1>1, Take
<1>3. PICK k \in Nat \ {0} : k = Len(down[s])
  BY <1>1, Take
<1>4. PICK r \in Nat : r = Len(received[s])
  BY <1>1, Put, CloseType
<1>5. /\ down[s][1] = m /\ Len(down'[s]) = k - 1 /\ down'[s] \in Seq(Message)
      /\ \A i \in 1..(k - 1) : i + 1 \in 1..k /\ down'[s][i] = down[s][i + 1]
      /\ \A t \in Peer \ {s} : down'[t] = down[t]
  BY <1>1, <1>2, <1>3, Take
<1>6. /\ Len(received'[s]) = r + 1 /\ received'[s][r + 1] = m
      /\ \A i \in 1..r : received'[s][i] = received[s][i]
      /\ \A t \in Peer \ {s} : received'[t] = received[t]
  <2>1. received' = Append1(received, s, m) /\ received \in [Peer -> Seq(Message)]
    BY <1>1, <1>2
  <2>2. /\ Len(Append1(received, s, m)[s]) = r + 1 /\ Append1(received, s, m)[s][r + 1] = m
        /\ \A i \in 1..r : Append1(received, s, m)[s][i] = received[s][i]
        /\ \A t \in Peer \ {s} : Append1(received, s, m)[t] = received[t]
    BY <1>4, <2>1, Put
  <2> QED  BY <2>1, <2>2
<1>7. /\ \A i \in 1..r : /\ received[s][i] \in {i, Close} /\ received[s][i] <= sent[Other(s)]
                         /\ received[s][i] # Close
      /\ \A i \in 1..k : /\ down[s][i] \in {r + i, Close} /\ down[s][i] <= sent[Other(s)]
                         /\ down[s][i] = Close => s \in closeSent /\ i = k
  BY <1>1, <1>3, <1>4 DEF WrittenTo
<1>8. /\ m \in {r + 1, Close} /\ m <= sent[Other(s)]
      /\ m = Close => s \in closeSent /\ k = 1
  <2>1. 1 \in 1..k
    OBVIOUS
  <2> QED  BY <1>5, <1>7, <2>1
<1>9. ASSUME NEW i \in 1..(r + 1)
      PROVE  /\ received'[s][i] \in {i, Close} /\ received'[s][i] <= sent[Other(s)]
             /\ received'[s][i] = Close => s \in closeSent /\ i = r + 1 /\ down'[s] = <<>>
  <2>1. CASE i \in 1..r
    BY <1>6, <1>7, <2>1
  <2>2. CASE i = r + 1
    <3>1. m = Close => down'[s] = <<>>
      BY <1>5, <1>8
    <3> QED  BY <1>6, <1>8, <2>2, <3>1
  <2> QED  BY <2>1, <2>2
<1>10. ASSUME NEW i \in 1..(k - 1)
       PROVE  /\ down'[s][i] \in {(r + 1) + i, Close} /\ down'[s][i] <= sent[Other(s)]
              /\ down'[s][i] = Close => s \in closeSent /\ i = k - 1
  <2>1. i + 1 \in 1..k /\ down'[s][i] = down[s][i + 1]
    BY <1>5
  <2>2. /\ down[s][i + 1] \in {r + (i + 1), Close} /\ down[s][i + 1] <= sent[Other(s)]
        /\ down[s][i + 1] = Close => s \in closeSent /\ i + 1 = k
    BY <1>7, <2>1
  <2> QED  BY <2>1, <2>2
<1>11. WrittenTo(s)'
  BY <1>1, <1>5, <1>6, <1>9, <1>10 DEF WrittenTo
<1>12. Way(s)' = Way(s)
  <2>1. (r + 1) + (k - 1) = r + k
    OBVIOUS
  <2> QED  BY <1>3, <1>4, <1>5, <1>6, <2>1 DEF Way
<1>13. \A t \in Peer \ {s} : Way(t)' = Way(t)
  BY <1>5, <1>6 DEF Way
<1>14. ~Told(s)
  <2>1. DOMAIN received[s] = 1..r
    BY <1>1, <1>4
  <2> QED  BY <1>7, <2>1 DEF Told
<1> QED  BY <1>2, <1>3, <1>4, <1>8, <1>11, <1>12, <1>13, <1>14

\* A peer receives a message.
LEMMA ReceiveStep ==
  ASSUME ProxyInv, TypeOK', Next, NEW s \in Peer, Receive(s)
  PROVE  Conversation'
<1>1. /\ TypeOK /\ \A p \in Peer : WrittenTo(p) /\ WaitingFrom(p) /\ Ending(p)
  BY DEF ProxyInv, Conversation
<1>2. /\ UNCHANGED <<pc, copier, held, channel, closed, closeSent>>
      /\ UNCHANGED <<up, sent, peer>>
  BY DEF Receive, proxy
<1>3. WrittenTo(s)' /\ \A p \in Peer : Way(p)' = Way(p)
  BY <1>1, Received
<1>4. ASSUME NEW p \in Peer
      PROVE  WrittenTo(p)'
  <2>1. CASE p = s
    BY <1>3, <2>1
  <2>2. CASE p # s
    <3>1. sent'[Other(p)] >= sent[Other(p)]
      BY <1>1, <1>2, Peers, WayNat
    <3>2. received'[p] = received[p] /\ down'[p] = down[p]
      BY <1>1, <2>2 DEF Receive, Append1, TypeOK
    <3> QED  BY <1>1, <1>2, <3>1, <3>2, WrittenStays
  <2> QED  BY <2>1, <2>2
<1>5. ASSUME NEW p \in Peer
      PROVE  WaitingFrom(p)'
  <2>1. ReadUpTo(p)' = ReadUpTo(p) /\ (Copies(p)' <=> Copies(p))
    BY <1>2, <1>3, Peers DEF ReadUpTo, Copies
  <2> QED  BY <1>1, <1>2, <2>1, WaitingStays
<1>6. Calm' <=> Calm
  BY <1>2 DEF Calm, Copies
<1>7. ASSUME NEW p \in Peer
      PROVE  Ending(p)'
  <2>1. Way(To(p))' = Way(To(p))
    BY <1>3, Peers
  <2>2. Ending(p)
    BY <1>1
  <2> QED  BY <1>2, <1>6, <2>1, <2>2, EndingStays
<1> QED  BY <1>2, <1>4, <1>5, <1>6, <1>7 DEF ProxyInv, Conversation

\* A peer goes.
LEMMA HangUpStep ==
  ASSUME ProxyInv, TypeOK', Next, NEW s \in Peer, HangUp(s)
  PROVE  Conversation'
<1>1. /\ TypeOK /\ \A p \in Peer : WrittenTo(p) /\ WaitingFrom(p) /\ Ending(p)
  BY DEF ProxyInv, Conversation
<1>2. /\ UNCHANGED <<pc, copier, held, channel, closed, closeSent>>
      /\ UNCHANGED <<up, down, sent, received>>
      /\ peer'[s] = "gone" /\ \A p \in Peer : peer'[p] \in {peer[p], "gone"}
  BY <1>1 DEF HangUp, proxy, TypeOK
<1>3. (\A p \in Peer : Way(p)' = Way(p)) /\ (Calm' <=> Calm)
  BY <1>2 DEF Way, Calm, Copies
<1>4. ASSUME NEW p \in Peer
      PROVE  WrittenTo(p)'
  <2>1. sent'[Other(p)] >= sent[Other(p)]
    BY <1>1, <1>2, Peers, WayNat
  <2> QED  BY <1>1, <1>2, <2>1, WrittenStays
<1>5. ASSUME NEW p \in Peer
      PROVE  WaitingFrom(p)'
  <2>1. ReadUpTo(p)' = ReadUpTo(p) /\ (Copies(p)' <=> Copies(p))
    BY <1>2, <1>3, Peers DEF ReadUpTo, Copies
  <2> QED  BY <1>1, <1>2, <2>1, WaitingStays
<1>6. ASSUME NEW p \in Peer
      PROVE  Ending(p)'
  <2>1. Way(To(p))' = Way(To(p)) /\ peer'[To(p)] \in {peer[To(p)], "gone"}
    BY <1>2, <1>3, Peers
  <2>2. Ending(p) /\ peer'[p] \in {peer[p], "gone"}
    BY <1>1, <1>2
  <2> QED  BY <1>2, <1>3, <2>1, <2>2, EndingStays
<1>7. ~\A p \in Peer : peer'[p] = "open"
  BY <1>2
<1> QED  BY <1>4, <1>5, <1>6, <1>7 DEF Conversation

-----------------------------------------------------------------------------
(* Theorems *)

\* Nobody has sent anything.
LEMMA InitInv == Init => ProxyInv
<1> SUFFICES ASSUME Init
             PROVE  ProxyInv
  OBVIOUS
<1>1. TypeOK
  <2>1. 0 \in Message /\ Close \in Message
    BY CloseType DEF Close
  <2>2. <<>> \in Seq(Message) /\ 0 \in 0 .. 1
    OBVIOUS
  <2>3. /\ held \in [Peer -> Message] /\ sent \in [Peer -> Message] /\ channel \in [Peer -> 0 .. 1]
        /\ up \in [Peer -> Seq(Message)] /\ down \in [Peer -> Seq(Message)]
        /\ received \in [Peer -> Seq(Message)]
    BY <2>1, <2>2 DEF Init
  <2>4. /\ pc \in Before /\ closed \in BOOLEAN /\ closeSent \subseteq Peer
        /\ copier = [d \in Peer |-> "none"] /\ peer \in [Peer -> {"open", "closing", "gone"}]
    BY DEF Init, Before
  <2> QED  BY <2>3, <2>4 DEF TypeOK
<1>2. Started /\ Calm
  BY DEF Init, Started, Calm, Copies
<1>3. ASSUME NEW d \in Peer
      PROVE  WrittenTo(d) /\ WaitingFrom(d) /\ Ending(d)
  <2>1. /\ received[d] = <<>> /\ down[d] = <<>> /\ up[d] = <<>> /\ sent[d] = 0
        /\ received[To(d)] = <<>> /\ down[To(d)] = <<>> /\ copier[d] = "none" /\ peer[d] = "open"
    BY Peers DEF Init
  <2> QED  BY <2>1 DEF WrittenTo, WaitingFrom, Ending, ReadUpTo, Way, Copies
<1> QED  BY <1>1, <1>2, <1>3 DEF ProxyInv, Conversation

\* Every step of the handler, a goroutine or a peer keeps the conversation.
LEMMA NextInv == ProxyInv /\ [Next]_vars => ProxyInv'
<1> SUFFICES ASSUME ProxyInv, [Next]_vars
             PROVE  ProxyInv'
  OBVIOUS
<1>1. TypeOK' /\ Started'
  <2>1. TypeOK /\ Started
    BY DEF ProxyInv
  <2> QED  BY <2>1, TypeStep
<1>2. CASE UNCHANGED vars
  <2>1. /\ UNCHANGED <<pc, copier, held, channel, closed, closeSent, up, down>>
        /\ UNCHANGED <<sent, received, peer>>
    BY <1>2 DEF vars, proxy, peers
  <2>2. /\ Calm' <=> Calm
        /\ \A p \in Peer : (Copies(p)' <=> Copies(p)) /\ Way(p)' = Way(p)
    BY <2>1 DEF Calm, Copies, Way
  <2>3. \A p \in Peer : WrittenTo(p)' <=> WrittenTo(p)
    BY <2>1 DEF WrittenTo
  <2>4. \A p \in Peer : ReadUpTo(p)' = ReadUpTo(p)
    BY <2>1, <2>2, Peers DEF ReadUpTo
  <2>5. \A p \in Peer : WaitingFrom(p)' <=> WaitingFrom(p)
    BY <2>1, <2>2, <2>4 DEF WaitingFrom
  <2>6. \A p \in Peer : Ending(p)' <=> Ending(p)
    BY <2>1, <2>2, Peers DEF Ending
  <2> QED  BY <1>1, <2>1, <2>2, <2>3, <2>5, <2>6 DEF ProxyInv, Conversation
<1>3. CASE Next
  <2>1. CASE Handler
    BY <1>1, <1>3, <2>1, HandlerStep DEF ProxyInv
  <2>2. ASSUME NEW d \in Peer, Copy(d)
        PROVE  Conversation'
    BY <1>1, <1>3, <2>2, ReadStep, ReadCloseStep, WriteStep, ByeStep, FailStep DEF Copy
  <2>3. ASSUME NEW s \in Peer, Send(s) \/ SendClose(s) \/ Receive(s) \/ HangUp(s)
        PROVE  Conversation'
    BY <1>1, <1>3, <2>3, SendStep, ReceiveStep, HangUpStep
  <2>4. CASE Quiet
    BY <1>1, <1>2, <2>4 DEF Quiet, ProxyInv
  <2> QED  BY <1>1, <1>3, <2>1, <2>2, <2>3, <2>4 DEF Next, ProxyInv
<1> QED  BY <1>2, <1>3

\* The inductive invariant holds of every behaviour, whatever the capacity of the
\* connections and of the channels of errors.
LEMMA Invariance == Spec => []ProxyInv
BY InitInv, NextInv, PTL DEF Spec

\* The variables have their types; a channel of errors never holds more than one.
THEOREM ProxyTypeCorrect == Spec => []TypeOK
<1>1. ProxyInv => TypeOK
  BY DEF ProxyInv
<1> QED  BY Invariance, <1>1, PTL

\* Each side receives what the other sent, in order and nothing twice.
THEOREM ProxyInOrder == Spec => []InOrder
<1>1. ProxyInv => InOrder
  <2> SUFFICES ASSUME ProxyInv, NEW s \in Peer, NEW i \in DOMAIN received[s]
               PROVE  received[s][i] = i \/ (received[s][i] = Close /\ i = Len(received[s]))
    BY DEF InOrder
  <2>1. received[s] \in Seq(Message) /\ WrittenTo(s)
    BY DEF ProxyInv, Conversation, TypeOK
  <2>2. i \in 1..Len(received[s])
    BY <2>1
  <2> QED  BY <2>1, <2>2 DEF WrittenTo
<1> QED  BY Invariance, <1>1, PTL

\* Who has been told of the end by a peer that waits for the answer has received
\* all that the peer sent: the handler's early return loses nothing.
THEOREM ProxyLosesNothing == Spec => []NothingLost
<1>1. ProxyInv => NothingLost
  <2> SUFFICES ASSUME ProxyInv, NEW s \in Peer, Told(s), peer[s] = "open",
                      peer[Other(s)] = "closing"
               PROVE  Len(received[s]) = sent[Other(s)] + 1
    BY DEF NothingLost
  <2>1. PICK d \in Peer : d = Other(s) /\ To(d) = s
    BY Peers
  <2>2. TypeOK /\ WrittenTo(s) /\ Ending(d)
    BY DEF ProxyInv, Conversation
  <2>3. s \in closeSent /\ down[s] = <<>>
    <3>1. received[s] \in Seq(Message)
      BY <2>2 DEF TypeOK
    <3>2. PICK i \in 1..Len(received[s]) : received[s][i] = Close
      BY <3>1 DEF Told
    <3> QED  BY <2>2, <3>2 DEF WrittenTo
  <2>4. copier[d] = "ended"
    <3>1. ~Calm
      BY <2>3 DEF Calm
    <3> QED  BY <2>1, <2>2, <2>3, <3>1 DEF Ending, Copies, TypeOK
  <2>5. sent[d] + 1 = Way(s) /\ Way(s) = Len(received[s]) /\ sent[d] \in Nat
    <3>1. sent[d] + 1 = Way(s)
      BY <2>1, <2>2, <2>3, <2>4 DEF Ending
    <3>2. Len(received[s]) \in Nat /\ sent[d] \in Nat
      BY <2>2, WayNat
    <3>3. Way(s) = Len(received[s])
      BY <2>3, <3>2 DEF Way
    <3> QED  BY <3>1, <3>2, <3>3
  <2> QED  BY <2>1, <2>5
<1> QED  BY Invariance, <1>1, PTL

\* The relay delivers, or tells of the end, when a peer receives.
LEMMA RelayReceives ==
  ASSUME ProxyInv, NEW s \in Peer, Receive(s)
  PROVE  Relay!Deliver(s) \/ Relay!Tell(s)
<1>1. /\ TypeOK /\ WrittenTo(s)
  BY DEF ProxyInv, Conversation
<1>2. PICK d \in Peer : d = Other(s) /\ To(d) = s
  BY Peers
<1>3. PICK m \in Message : m = Head(down[s])
  BY <1>1, Take DEF Receive, TypeOK
<1>4. /\ peer[s] # "gone" /\ received' = [received EXCEPT ![s] = Append(@, m)]
      /\ UNCHANGED <<sent, peer>>
  BY <1>3 DEF Receive, Append1
<1>5. /\ ~Told(s)
      /\ m = Close => s \in closeSent /\ Len(down[s]) = 1
      /\ m # Close => m = Len(received[s]) + 1 /\ m <= sent[d]
  BY <1>1, <1>2, <1>3, Received
<1>6. Len(received[s]) \in Nat /\ sent[d] \in Nat /\ Len(down[s]) \in Nat
  BY <1>1, WayNat
<1>7. CASE m # Close
  <2>1. Len(received[s]) < sent[d]
    BY <1>5, <1>6, <1>7
  <2>2. received' = [received EXCEPT ![s] = Append(@, Len(received[s]) + 1)]
    BY <1>4, <1>5, <1>7
  <2>3. Relay!Deliver(s)
    BY <1>2, <1>4, <1>5, <2>1, <2>2
       DEF Relay!Deliver, Relay!Gets, Relay!Told, Told, Relay!Other, Other, Relay!Close, Close
  <2> QED  BY <2>3
<1>8. CASE m = Close
  <2>1. ~Calm
    BY <1>5, <1>8 DEF Calm
  <2>2. PICK t \in Peer : peer[t] # "open"
    BY <2>1 DEF ProxyInv, Conversation
  <2>3. ASSUME peer[s] = "open", peer[d] = "closing"
        PROVE  Len(received[s]) = sent[d]
    <3>1. Ending(d)
      BY DEF ProxyInv, Conversation
    <3>2. copier[d] = "ended"
      BY <1>1, <1>2, <1>5, <1>8, <2>1, <2>3, <3>1 DEF Ending, Copies, TypeOK
    <3>3. sent[d] + 1 = Way(s)
      BY <1>2, <1>5, <1>8, <2>3, <3>1, <3>2 DEF Ending
    <3>4. Way(s) = Len(received[s]) + 1
      BY <1>5, <1>6, <1>8 DEF Way
    <3> QED  BY <1>6, <3>3, <3>4
  <2>4. Relay!Tell(s)
    BY <1>2, <1>4, <1>5, <1>8, <2>2, <2>3
       DEF Relay!Tell, Relay!Gets, Relay!Told, Told, Relay!Other, Other, Relay!Close, Close,
           Relay!Peer, Peer
  <2> QED  BY <2>4
<1> QED  BY <1>7, <1>8

\* The handler, its goroutines, queues and channels implement the relay: what a
\* peer sends, receives or ends is a step of it, and all the rest changes nothing
\* that the browser or the component sees.
THEOREM ImplementsRelay == Spec => KeepsRelay
<1>1. Init => Relay!Init
  BY DEF Init, Relay!Init, Relay!Peer, Peer
<1>2. ProxyInv /\ [Next]_vars => [Relay!Next]_(Relay!vars)
  <2> SUFFICES ASSUME ProxyInv, [Next]_vars
               PROVE  Relay!Next \/ UNCHANGED Relay!vars
    OBVIOUS
  <2>1. CASE UNCHANGED vars
    BY <2>1 DEF vars, peers, Relay!vars
  <2>2. CASE Handler
    BY <2>2 DEF Handler, NotInstalled, Installed, DialFails, Dial, UpgradeFails, Upgrade, Select,
                CloseBackend, peers, Relay!vars
  <2>3. ASSUME NEW d \in Peer, Copy(d)
        PROVE  UNCHANGED Relay!vars
    BY <2>3 DEF Copy, Read, ReadClose, ReadFails, Write, WriteFails, Report, SayBye, ByeFails,
                peers, Relay!vars
  <2>4. ASSUME NEW s \in Peer, Send(s) \/ SendClose(s) \/ Receive(s) \/ HangUp(s)
        PROVE  Relay!Next
    <3>1. CASE Send(s)
      BY <3>1 DEF Send, Relay!Next, Relay!Send, Relay!Peer, Peer
    <3>2. CASE SendClose(s) \/ HangUp(s)
      BY <3>2 DEF SendClose, HangUp, Relay!Next, Relay!End, Relay!Peer, Peer
    <3>3. CASE Receive(s)
      BY <3>3, RelayReceives DEF Relay!Next, Relay!Peer, Peer
    <3> QED  BY <2>4, <3>1, <3>2, <3>3
  <2> QED  BY <2>1, <2>2, <2>3, <2>4 DEF Next, Quiet
<1> QED  BY Invariance, <1>1, <1>2, PTL DEF Spec, KeepsRelay, Relay!Spec

-----------------------------------------------------------------------------
(* What the relay promises *)

\* The types of its variables, and why it loses nothing: who has been told of the
\* end and not ended it has been told by a peer that has, and after its messages.
Relayed ==
  /\ sent \in [Peer -> Nat] /\ peer \in [Peer -> {"open", "closing", "gone"}]
  /\ received \in [Peer -> Seq(Nat)]
  /\ InOrder
  /\ \A s \in Peer : Told(s) /\ peer[s] = "open" =>
       /\ peer[Other(s)] # "open"
       /\ peer[Other(s)] = "closing" => Len(received[s]) = sent[Other(s)] + 1

\* A step of the relay keeps it.
LEMMA RelayStep == Relayed /\ [Relay!Next]_(Relay!vars) => Relayed'
<1> SUFFICES ASSUME Relayed, [Relay!Next]_(Relay!vars)
             PROVE  Relayed'
  OBVIOUS
<1>1. CASE UNCHANGED Relay!vars
  BY <1>1 DEF Relay!vars, Relayed, InOrder, Told
<1>2. ASSUME NEW s \in Peer, Relay!Send(s) \/ Relay!End(s)
      PROVE  Relayed'
  <2>1. UNCHANGED received /\ sent' \in [Peer -> Nat]
    <3>1. \A n \in Nat : n + 1 \in Nat
      OBVIOUS
    <3> QED  BY <1>2, <3>1 DEF Relay!Send, Relay!End, Relayed
  <2>2. /\ peer' \in [Peer -> {"open", "closing", "gone"}]
        /\ \A t \in Peer : /\ peer'[t] = "open" => peer[t] = "open"
                           /\ peer[t] # "open" => peer'[t] # "open" /\ sent'[t] = sent[t]
                           /\ peer'[t] = "closing" => peer[t] # "gone" /\ sent'[t] = sent[t]
    BY <1>2 DEF Relay!Send, Relay!End, Relayed
  <2>3. InOrder' /\ \A t \in Peer : Told(t)' <=> Told(t)
    BY <2>1 DEF Relayed, InOrder, Told
  <2>4. \A t \in Peer : Other(t) \in Peer
    BY Peers
  <2> QED  BY <2>1, <2>2, <2>3, <2>4 DEF Relayed
<1>3. ASSUME NEW s \in Peer, Relay!Deliver(s) \/ Relay!Tell(s)
      PROVE  Relayed'
  <2>1. PICK m \in Nat :
          /\ received' = [received EXCEPT ![s] = Append(@, m)] /\ ~Told(s)
          /\ m # Close => m = Len(received[s]) + 1
          /\ m = Close => Relay!Tell(s)
    <3>1. CASE Relay!Deliver(s)
      <4>1. Len(received[s]) \in Nat
        BY DEF Relayed
      <4>2. Len(received[s]) + 1 \in Nat /\ Len(received[s]) + 1 # Close
        BY <4>1 DEF Close
      <4> QED  BY <3>1, <4>2 DEF Relay!Deliver, Relay!Gets, Relay!Told, Told, Relay!Close, Close
    <3>2. CASE Relay!Tell(s)
      BY <3>2 DEF Relay!Tell, Relay!Gets, Relay!Told, Told, Relay!Close, Close
    <3> QED  BY <1>3, <3>1, <3>2
  <2>2. UNCHANGED <<sent, peer>>
    BY <1>3 DEF Relay!Deliver, Relay!Tell
  <2>3. PICK r \in Nat : r = Len(received[s])
    BY DEF Relayed
  <2>4. /\ received' \in [Peer -> Seq(Nat)] /\ received[s] \in Seq(Nat)
        /\ Len(received'[s]) = r + 1 /\ received'[s][r + 1] = m
        /\ \A i \in 1..r : received'[s][i] = received[s][i]
        /\ \A t \in Peer \ {s} : received'[t] = received[t]
    BY <2>1, <2>3 DEF Relayed
  <2>5. DOMAIN received[s] = 1..r /\ DOMAIN received'[s] = 1..(r + 1)
    BY <2>3, <2>4
  <2>6. \A i \in 1..r : received[s][i] = i /\ received[s][i] # Close
    BY <2>1, <2>5 DEF Relayed, InOrder, Told
  <2>7. \A i \in 1..(r + 1) :
          received'[s][i] = i \/ (received'[s][i] = Close /\ i = r + 1)
    <3>1. \A i \in 1..(r + 1) : i \in 1..r \/ i = r + 1
      OBVIOUS
    <3> QED  BY <2>1, <2>3, <2>4, <2>6, <3>1
  <2>8. InOrder'
    <3>1. ASSUME NEW t \in Peer, NEW i \in DOMAIN received'[t]
          PROVE  received'[t][i] = i \/ (received'[t][i] = Close /\ i = Len(received'[t]))
      <4>1. CASE t = s
        BY <2>4, <2>5, <2>7, <4>1
      <4>2. CASE t # s
        BY <2>4, <4>2 DEF Relayed, InOrder
      <4> QED  BY <4>1, <4>2
    <3> QED  BY <3>1 DEF InOrder
  <2>9. ASSUME Told(s)', peer[s] = "open"
        PROVE  /\ peer[Other(s)] # "open"
               /\ peer[Other(s)] = "closing" => r + 1 = sent[Other(s)] + 1
    <3>1. PICK i \in 1..(r + 1) : received'[s][i] = Close
      BY <2>5, <2>9 DEF Told
    <3>2. m = Close
      BY <2>4, <2>6, <3>1
    <3>3. Relay!Tell(s)
      BY <2>1, <3>2
    <3> QED  BY <2>3, <2>9, <3>3, Peers
             DEF Relay!Tell, Relay!Peer, Peer, Relay!Other, Other
  <2>10. \A t \in Peer \ {s} : Told(t)' <=> Told(t)
    BY <2>4 DEF Told
  <2> QED  BY <2>2, <2>4, <2>8, <2>9, <2>10 DEF Relayed
<1> QED  BY <1>1, <1>2, <1>3 DEF Relay!Next, Relay!Peer, Peer

\* Whatever relays the conversation keeps the order and loses nothing: what the
\* proxy implements is enough for the two properties it is there for.
THEOREM RelayPromises == KeepsRelay => [](InOrder /\ NothingLost)
<1>1. Relay!Init => Relayed
  <2> SUFFICES ASSUME Relay!Init
               PROVE  Relayed
    OBVIOUS
  <2>1. /\ sent = [s \in Peer |-> 0] /\ received = [s \in Peer |-> <<>>]
        /\ peer = [s \in Peer |-> "open"]
    BY DEF Relay!Init, Relay!Peer, Peer
  <2>2. \A s \in Peer : DOMAIN received[s] = {}
    BY <2>1
  <2> QED  BY <2>1, <2>2 DEF Relayed, InOrder, Told
<1>2. Relayed => InOrder /\ NothingLost
  BY DEF Relayed, NothingLost
<1> QED  BY <1>1, <1>2, RelayStep, PTL DEF KeepsRelay, Relay!Spec
=============================================================================
