-------------------------- MODULE SessionHubProofs --------------------------
(***************************************************************************)
(* What SessionHub promises for any number of connections, users and       *)
(* updates and any channel capacity.                                       *)
(***************************************************************************)
EXTENDS MCSessionHub, TLAPS

\* Why a broadcast cannot meet a closed channel: only a client that joined the
\* registry ever has its channel closed, and from then on it is out of the
\* registry, so the channel of a registered client is open.
ClosedAfterJoining == \A c \in closed : handler[c] \in {"reading", "gone"}

\* The pump starts with the registration, and holds an update exactly while it
\* writes one.
PumpExact ==
  \A c \in Clients :
    /\ handler[c] \in {"none", "auth"} => pump[c] = "off"
    /\ held[c] # <<>> <=> pump[c] = "writing"

IInv == TypeOK /\ NoPanic /\ RegistryExact /\ ClosedAfterJoining /\ PumpExact

USE CapAssumption, NoUserAssumption

\* The initial state satisfies the inductive invariant.
LEMMA InitInv == Init => IInv
  BY DEF Init, IInv, TypeOK, NoPanic, RegistryExact, ClosedAfterJoining, PumpExact

\* A fan-out leaves every queue within the channel's capacity, takes whom it drops
\* out of the registry and meets no closed channel.
LEMMA BroadcastStep ==
  ASSUME IInv, NEW u \in Users, NEW m \in Updates, Broadcast(u, m)
  PROVE  IInv'
<1>1. ~Panics(u)
  BY DEF IInv, TypeOK, RegistryExact, Panics, Targets
<1>2. FanOut(u, m)
  BY <1>1 DEF Broadcast
<1> DEFINE dropped == {c \in Targets(u) : Full(c)}
<1>3. dropped \subseteq registered
  BY DEF Targets
<1>4. registered' = registered \ dropped /\ closed' = closed \cup dropped /\ process' = process
  BY <1>2 DEF FanOut, UnregisterLocked
<1>5. send' = [c \in Clients |->
                IF c \in Targets(u) \ dropped THEN Append(send[c], m) ELSE send[c]]
  BY <1>2 DEF FanOut
<1>6. UNCHANGED <<handler, user, pump, held, conn, peer, wire>>
  BY DEF Broadcast
<1>7. send' \in [Clients -> Seq(Updates)] /\ \A c \in Clients : Len(send'[c]) <= Cap
  <2> SUFFICES ASSUME NEW c \in Clients
               PROVE  /\ (IF c \in Targets(u) \ dropped THEN Append(send[c], m) ELSE send[c]) \in Seq(Updates)
                      /\ Len(IF c \in Targets(u) \ dropped THEN Append(send[c], m) ELSE send[c]) <= Cap
    BY <1>5
  <2>1. send[c] \in Seq(Updates) /\ Len(send[c]) <= Cap /\ Len(send[c]) \in Nat
    BY DEF IInv, TypeOK
  <2>2. CASE c \in Targets(u) \ dropped
    <3>1. Len(send[c]) < Cap
      BY <2>1, <2>2 DEF Full
    <3>2. Append(send[c], m) \in Seq(Updates) /\ Len(Append(send[c], m)) = Len(send[c]) + 1
      BY <2>1
    <3> QED BY <2>1, <2>2, <3>1, <3>2
  <2>3. CASE c \notin Targets(u) \ dropped
    BY <2>1, <2>3
  <2> QED BY <2>2, <2>3
<1>8. evicted' = evicted \cup dropped
  BY <1>2 DEF FanOut
<1>9. TypeOK'
  BY <1>3, <1>4, <1>6, <1>7, <1>8 DEF IInv, TypeOK
<1>10. NoPanic' /\ RegistryExact' /\ ClosedAfterJoining' /\ PumpExact'
  BY <1>3, <1>4, <1>6 DEF IInv, TypeOK, NoPanic, RegistryExact, ClosedAfterJoining, PumpExact
<1> QED BY <1>9, <1>10 DEF IInv

\* The handler goroutine and the close of an evicted connection.
LEMMA HandlerStep ==
  ASSUME IInv, NEW c \in Clients,
         \/ Upgrade(c) \/ AuthFails(c) \/ (\E u \in Users : Register(c, u))
         \/ ReadFails(c) \/ CloseEvicted(c)
  PROVE  IInv'
<1> USE DEF IInv, TypeOK, NoPanic, RegistryExact, ClosedAfterJoining, PumpExact
<1>1. CASE Upgrade(c)
  BY <1>1 DEF Upgrade
<1>2. CASE AuthFails(c)
  BY <1>2 DEF AuthFails, CloseConn
<1>3. CASE \E u \in Users : Register(c, u)
  <2> PICK u \in Users : Register(c, u)
    BY <1>3
  <2>1. c \notin closed /\ c \notin registered
    BY DEF Register
  <2> QED BY <2>1 DEF Register
<1>4. CASE ReadFails(c)
  BY <1>4 DEF ReadFails, UnregisterLocked, CloseConn
<1>5. CASE CloseEvicted(c)
  BY <1>5 DEF CloseEvicted, CloseConn
<1> QED BY <1>1, <1>2, <1>3, <1>4, <1>5

\* writePump changes neither the registry nor who is closed, and never grows a queue.
LEMMA PumpStep ==
  ASSUME IInv, NEW c \in Clients,
         PumpTakes(c) \/ PumpWrites(c) \/ PumpWriteFails(c) \/ PumpTickFails(c) \/ PumpSaysGoodbye(c)
  PROVE  IInv'
<1> USE DEF IInv, TypeOK, NoPanic, RegistryExact, ClosedAfterJoining, PumpExact
<1>0. pump[c] \notin {"off"} => handler[c] \notin {"none", "auth"}
  OBVIOUS
<1>1. CASE PumpTakes(c)
  <2>1. /\ Head(send[c]) \in Updates /\ Tail(send[c]) \in Seq(Updates)
        /\ Len(Tail(send[c])) <= Cap
        /\ <<Head(send[c])>> \in Seq(Updates) /\ <<Head(send[c])>> # <<>>
    BY <1>1 DEF PumpTakes
  <2> QED BY <1>0, <1>1, <2>1 DEF PumpTakes
<1>2. CASE PumpWrites(c)
  <2>1. wire[c] \o held[c] \in Seq(Updates)
    OBVIOUS
  <2>2. <<>> \in Seq(Updates)
    OBVIOUS
  <2> QED BY <1>0, <1>2, <2>1, <2>2 DEF PumpWrites
<1>3. ASSUME pump[c] \in {"waiting", "writing"}, PumpStops(c) PROVE IInv'
  <2>1. <<>> \in Seq(Updates)
    OBVIOUS
  <2> QED BY <1>0, <1>3, <2>1 DEF PumpStops, CloseConn
<1> QED BY <1>1, <1>2, <1>3 DEF PumpWriteFails, PumpTickFails, PumpSaysGoodbye

\* The invariant is inductive: each step of the hub, a pump or a browser keeps it.
LEMMA Inductive ==
  ASSUME IInv, [Next]_vars PROVE IInv'
<1>1. CASE UNCHANGED vars
  BY <1>1 DEF vars, IInv, TypeOK, NoPanic, RegistryExact, ClosedAfterJoining, PumpExact
<1>2. ASSUME NEW c \in Clients, Server(c) PROVE IInv'
  BY <1>2, HandlerStep, PumpStep DEF Server
<1>3. ASSUME NEW c \in Clients, PeerLost(c) \/ PeerLeaves(c) PROVE IInv'
  BY <1>3 DEF PeerLost, PeerLeaves, IInv, TypeOK, NoPanic, RegistryExact,
              ClosedAfterJoining, PumpExact
<1>4. ASSUME NEW u \in Users, NEW m \in Updates, Broadcast(u, m) PROVE IInv'
  BY <1>4, BroadcastStep
<1> QED BY <1>1, <1>2, <1>3, <1>4 DEF Next

\* It holds in every reachable state.
THEOREM Invariance == Spec => []IInv
  BY InitInv, Inductive, PTL DEF Spec

\* Types are respected, and no queue ever outgrows its channel.
THEOREM TypeCorrect == Spec => []TypeOK
  BY Invariance, PTL DEF IInv

\* No order of broadcasts, evictions and disconnects sends on a closed channel or
\* closes one twice.
THEOREM ChannelsSafe == Spec => []NoPanic
  BY Invariance, PTL DEF IInv

\* The registry always holds exactly the listening clients with an open channel.
THEOREM RegistryCorrect == Spec => []RegistryExact
  BY Invariance, PTL DEF IInv

-----------------------------------------------------------------------------
(* What a browser receives, against everything that was broadcast to it.   *)

\* Until it registers a client is owed nothing and has nothing on the way.
BeforeJoining ==
  \A c \in Clients :
    handler[c] \in {"none", "auth"} =>
      feed[c] = <<>> /\ send[c] = <<>> /\ held[c] = <<>> /\ wire[c] = <<>>

\* What the browser has (w), what writePump holds (k) and what is queued (s) stand one
\* after the other at the front of the feed (f); Tight when they reach its end.
Got(w, f) == Len(w) <= Len(f) /\ \A i \in 1 .. Len(w) : w[i] = f[i]
Way(w, k, s, f) ==
  /\ \A i \in 1 .. Len(k) : k[i] = f[Len(w) + i]
  /\ \A i \in 1 .. Len(s) : s[i] = f[Len(w) + Len(k) + i]
  /\ Len(w) + Len(k) + Len(s) <= Len(f)
Tight(w, k, s, f) == Len(w) + Len(k) + Len(s) = Len(f)

OnTheWay(c) ==
  /\ Way(wire[c], held[c], send[c], feed[c])
  /\ c \in registered => Tight(wire[c], held[c], send[c], feed[c])
Received(c) == Got(wire[c], feed[c])

GapInv ==
  /\ feed \in [Clients -> Seq(Updates)]
  /\ BeforeJoining
  /\ \A c \in Clients : Received(c)
  /\ \A c \in Clients : peer[c] = "up" /\ pump[c] # "done" => OnTheWay(c)

\* Lengths moved by one.
LEMMA Lengths ==
  /\ \A a, b, c, d \in Nat : a + b + c = d => a + b + (c + 1) = d + 1
  /\ \A a, c, d \in Nat : a + 0 + c = d => a + 1 + (c - 1) = d
  OBVIOUS

\* The feed grows and the queue does not.
LEMMA WayMissed ==
  ASSUME NEW w \in Seq(Updates), NEW k \in Seq(Updates), NEW s \in Seq(Updates),
         NEW f \in Seq(Updates), NEW m \in Updates
  PROVE  /\ Got(w, f) => Got(w, Append(f, m))
         /\ Way(w, k, s, f) => Way(w, k, s, Append(f, m))
<1> DEFINE f2 == Append(f, m)
<1>1. /\ Len(f2) = Len(f) + 1 /\ Len(f) \in Nat /\ Len(w) \in Nat /\ Len(k) \in Nat /\ Len(s) \in Nat
      /\ \A i \in 1 .. Len(f) : f2[i] = f[i]
  OBVIOUS
<1> HIDE DEF f2
<1>2. Got(w, f) => Got(w, f2)
  BY <1>1 DEF Got
<1>3. ASSUME Way(w, k, s, f) PROVE Way(w, k, s, f2)
  <2>0. Len(w) + Len(k) + Len(s) <= Len(f)
    BY <1>3 DEF Way
  <2>1. ASSUME NEW i \in 1 .. Len(k) PROVE k[i] = f2[Len(w) + i]
    <3>1. Len(w) + i \in 1 .. Len(f)
      BY <1>1, <2>0
    <3>2. k[i] = f[Len(w) + i]
      BY <1>3 DEF Way
    <3> QED BY <1>1, <3>1, <3>2
  <2>2. ASSUME NEW i \in 1 .. Len(s) PROVE s[i] = f2[Len(w) + Len(k) + i]
    <3>1. Len(w) + Len(k) + i \in 1 .. Len(f)
      BY <1>1, <2>0
    <3>2. s[i] = f[Len(w) + Len(k) + i]
      BY <1>3 DEF Way
    <3> QED BY <1>1, <3>1, <3>2
  <2> QED BY <1>1, <1>3, <2>1, <2>2 DEF Way
<1> QED BY <1>2, <1>3 DEF f2

\* Both grow, the queue having reached the end of the feed.
LEMMA WayQueued ==
  ASSUME NEW w \in Seq(Updates), NEW k \in Seq(Updates), NEW s \in Seq(Updates),
         NEW f \in Seq(Updates), NEW m \in Updates, Way(w, k, s, f), Tight(w, k, s, f)
  PROVE  Way(w, k, Append(s, m), Append(f, m)) /\ Tight(w, k, Append(s, m), Append(f, m))
<1> DEFINE f2 == Append(f, m)
           s2 == Append(s, m)
<1>1. /\ Len(f2) = Len(f) + 1 /\ Len(f) \in Nat /\ Len(w) \in Nat /\ Len(k) \in Nat /\ Len(s) \in Nat
      /\ \A i \in 1 .. Len(f) : f2[i] = f[i]
      /\ Len(s2) = Len(s) + 1 /\ \A i \in 1 .. Len(s) : s2[i] = s[i]
      /\ f2[Len(f) + 1] = m /\ s2[Len(s) + 1] = m
  OBVIOUS
<1> HIDE DEF f2, s2
<1>2. Len(w) + Len(k) + Len(s) = Len(f)
  BY DEF Tight
<1>0. Len(w) + Len(k) + (Len(s) + 1) = Len(f) + 1
  <2> DEFINE a == Len(w)
             b == Len(k)
             c == Len(s)
             d == Len(f)
  <2>1. a \in Nat /\ b \in Nat /\ c \in Nat /\ d \in Nat /\ a + b + c = d
    BY <1>1, <1>2
  <2> HIDE DEF a, b, c, d
  <2>2. a + b + (c + 1) = d + 1
    BY <2>1, Lengths
  <2> QED BY <2>2 DEF a, b, c, d
<1>3. ASSUME NEW i \in 1 .. Len(k) PROVE k[i] = f2[Len(w) + i]
  <2>1. Len(w) + i \in 1 .. Len(f)
    BY <1>1, <1>2
  <2>2. k[i] = f[Len(w) + i]
    BY DEF Way
  <2> QED BY <1>1, <2>1, <2>2
<1>4. ASSUME NEW i \in 1 .. Len(s2) PROVE s2[i] = f2[Len(w) + Len(k) + i]
  <2>1. CASE i \in 1 .. Len(s)
    <3>1. Len(w) + Len(k) + i \in 1 .. Len(f)
      BY <1>1, <1>2, <2>1
    <3>2. s[i] = f[Len(w) + Len(k) + i]
      BY <2>1 DEF Way
    <3> QED BY <1>1, <2>1, <3>1, <3>2
  <2>2. CASE i = Len(s) + 1
    <3>1. Len(w) + Len(k) + i = Len(f) + 1
      BY <1>0, <2>2
    <3> QED BY <1>1, <2>2, <3>1
  <2> QED BY <1>1, <2>1, <2>2
<1>5. Len(w) + Len(k) + Len(s2) = Len(f2)
  BY <1>0, <1>1
<1>6. Len(w) + Len(k) + Len(s2) <= Len(f2)
  BY <1>1, <1>5
<1>7. Way(w, k, s2, f2)
  BY <1>3, <1>4, <1>6 DEF Way
<1>8. Tight(w, k, s2, f2)
  BY <1>5 DEF Tight
<1> QED BY <1>7, <1>8 DEF f2, s2

\* The head of the queue moves on to writePump.
LEMMA WayTaken ==
  ASSUME NEW w \in Seq(Updates), NEW k \in Seq(Updates), NEW s \in Seq(Updates),
         NEW f \in Seq(Updates), k = <<>>, s # <<>>
  PROVE  /\ Way(w, k, s, f) => Way(w, <<Head(s)>>, Tail(s), f)
         /\ Tight(w, k, s, f) => Tight(w, <<Head(s)>>, Tail(s), f)
<1> DEFINE k2 == <<Head(s)>>
           s2 == Tail(s)
<1>1. /\ Len(f) \in Nat /\ Len(w) \in Nat /\ Len(s) \in Nat /\ Len(s) >= 1
      /\ Len(k) = 0 /\ Len(k2) = 1 /\ k2[1] = s[1]
      /\ Len(s2) = Len(s) - 1 /\ \A i \in 1 .. Len(s2) : s2[i] = s[i + 1]
  OBVIOUS
<1> HIDE DEF k2, s2
<1>2. ASSUME Way(w, k, s, f) PROVE Way(w, k2, s2, f)
  <2>1. \A i \in 1 .. Len(s) : s[i] = f[Len(w) + i]
    BY <1>1, <1>2 DEF Way
  <2>2. \A i \in 1 .. Len(k2) : k2[i] = f[Len(w) + i]
    BY <1>1, <2>1
  <2>3. \A i \in 1 .. Len(s2) : s2[i] = f[Len(w) + Len(k2) + i]
    <3> TAKE i \in 1 .. Len(s2)
    <3>1. i + 1 \in 1 .. Len(s) /\ Len(w) + (i + 1) = Len(w) + Len(k2) + i /\ s2[i] = s[i + 1]
      BY <1>1
    <3> QED BY <2>1, <3>1
  <2> QED BY <1>1, <1>2, <2>2, <2>3 DEF Way
<1>3. ASSUME Tight(w, k, s, f) PROVE Tight(w, k2, s2, f)
  <2>1. Len(w) + Len(k) + Len(s) = Len(f)
    BY <1>3 DEF Tight
  <2>2. Len(w) + 1 + (Len(s) - 1) = Len(f)
    <3>1. Len(w) \in Nat /\ Len(s) \in Nat /\ Len(f) \in Nat /\ Len(w) + 0 + Len(s) = Len(f)
      BY <1>1, <2>1
    <3> QED BY <3>1, Lengths
  <2>3. Len(w) + Len(k2) + Len(s2) = Len(f)
    BY <1>1, <2>2
  <2> QED BY <2>3 DEF Tight
<1> QED BY <1>2, <1>3 DEF k2, s2

\* What writePump held is with the browser.
LEMMA WayWritten ==
  ASSUME NEW w \in Seq(Updates), NEW k \in Seq(Updates), NEW s \in Seq(Updates),
         NEW f \in Seq(Updates), Got(w, f), Way(w, k, s, f)
  PROVE  /\ Got(w \o k, f) /\ Way(w \o k, <<>>, s, f)
         /\ Tight(w, k, s, f) => Tight(w \o k, <<>>, s, f)
<1> DEFINE w2 == w \o k
<1>1. /\ Len(f) \in Nat /\ Len(w) \in Nat /\ Len(s) \in Nat /\ Len(k) \in Nat
      /\ Len(w2) = Len(w) + Len(k) /\ Len(<<>>) = 0
      /\ \A i \in 1 .. Len(w) : w2[i] = w[i]
      /\ \A i \in 1 .. Len(w2) : i > Len(w) => w2[i] = k[i - Len(w)]
  OBVIOUS
<1> HIDE DEF w2
<1>2. \A i \in 1 .. Len(w2) : w2[i] = f[i]
  <2> TAKE i \in 1 .. Len(w2)
  <2>1. CASE i \in 1 .. Len(w)
    BY <1>1, <2>1 DEF Got
  <2>2. CASE i > Len(w)
    <3>1. i - Len(w) \in 1 .. Len(k) /\ Len(w) + (i - Len(w)) = i
      BY <1>1, <2>2
    <3>2. k[i - Len(w)] = f[Len(w) + (i - Len(w))]
      BY <3>1 DEF Way
    <3> QED BY <1>1, <2>2, <3>1, <3>2
  <2> QED BY <1>1, <2>1, <2>2
<1>3. Got(w2, f)
  BY <1>1, <1>2 DEF Got, Way
<1>4. Way(w2, <<>>, s, f)
  BY <1>1 DEF Way
<1>5. Tight(w, k, s, f) => Tight(w2, <<>>, s, f)
  BY <1>1 DEF Tight
<1> QED BY <1>3, <1>4, <1>5 DEF w2

\* A step that touches no queue of a client whose pump runs.
LEMMA GapAside ==
  ASSUME IInv, GapInv, UNCHANGED <<send, held, wire, feed>>,
         registered' \subseteq registered,
         \A c \in Clients : /\ handler'[c] \in {"none", "auth"} => handler[c] \in {"none", "auth"}
                            /\ peer'[c] = "up" => peer[c] = "up"
                            /\ pump'[c] # "done" => pump[c] # "done"
  PROVE  GapInv'
  BY DEF GapInv, BeforeJoining, OnTheWay, Received

\* The handler goroutine and the browser's comings and goings.
LEMMA GapHandler ==
  ASSUME IInv, GapInv, UNCHANGED feed, NEW c \in Clients,
         \/ Upgrade(c) \/ AuthFails(c) \/ ReadFails(c) \/ CloseEvicted(c)
         \/ PeerLost(c) \/ PeerLeaves(c)
  PROVE  GapInv'
<1> USE DEF IInv, TypeOK
<1>1. CASE Upgrade(c) \/ AuthFails(c)
  BY <1>1, GapAside DEF Upgrade, AuthFails
<1>2. CASE ReadFails(c) \/ CloseEvicted(c)
  BY <1>2, GapAside DEF ReadFails, CloseEvicted, UnregisterLocked
<1>3. CASE PeerLost(c) \/ PeerLeaves(c)
  BY <1>3, GapAside DEF PeerLost, PeerLeaves
<1> QED BY <1>1, <1>2, <1>3

\* A client registers with everything empty.
LEMMA GapRegister ==
  ASSUME IInv, GapInv, UNCHANGED feed, NEW c \in Clients, NEW u \in Users, Register(c, u)
  PROVE  GapInv'
<1>1. feed[c] = <<>> /\ send[c] = <<>> /\ held[c] = <<>> /\ wire[c] = <<>>
  BY DEF GapInv, BeforeJoining, Register
<1>2. UNCHANGED <<send, held, wire, peer>> /\ registered' = registered \cup {c}
  BY DEF Register
<1>3. OnTheWay(c)'
  <2>1. Len(feed[c]) = 0 /\ Len(send[c]) = 0 /\ Len(held[c]) = 0 /\ Len(wire[c]) = 0
    BY <1>1
  <2> QED BY <1>2, <2>1 DEF OnTheWay, Way, Tight
<1>4. \A d \in Clients : d # c => handler'[d] = handler[d] /\ pump'[d] = pump[d]
  BY DEF Register, IInv, TypeOK
<1>5. handler'[c] = "reading"
  BY DEF Register, IInv, TypeOK
<1>6. ASSUME NEW d \in Clients, d # c, OnTheWay(d) PROVE OnTheWay(d)'
  BY <1>2, <1>6 DEF OnTheWay
<1> QED BY <1>2, <1>3, <1>4, <1>5, <1>6 DEF GapInv, BeforeJoining, Received

\* The sequences a client has to do with.
LEMMA GapTypes ==
  ASSUME IInv, GapInv, NEW c \in Clients
  PROVE  /\ wire[c] \in Seq(Updates) /\ held[c] \in Seq(Updates) /\ send[c] \in Seq(Updates)
         /\ feed[c] \in Seq(Updates)
  BY DEF IInv, TypeOK, GapInv

\* A step of c's pump leaves the others' queues alone.
LEMMA GapOthers ==
  ASSUME IInv, GapInv, UNCHANGED <<feed, handler, registered, peer>>, NEW c \in Clients,
         handler[c] \notin {"none", "auth"},
         \A d \in Clients : d # c => /\ held'[d] = held[d] /\ send'[d] = send[d]
                                     /\ wire'[d] = wire[d] /\ pump'[d] = pump[d],
         Received(c)', peer[c] = "up" /\ pump'[c] # "done" => OnTheWay(c)'
  PROVE  GapInv'
<1>1. ASSUME NEW d \in Clients, d # c PROVE Received(d)' /\ (OnTheWay(d) => OnTheWay(d)')
  BY <1>1 DEF GapInv, Received, OnTheWay
<1>2. BeforeJoining'
  BY DEF GapInv, BeforeJoining
<1> QED BY <1>1, <1>2 DEF GapInv

\* writePump takes the front of the queue, writes it or returns.
LEMMA GapPump ==
  ASSUME IInv, GapInv, UNCHANGED feed, NEW c \in Clients,
         \/ PumpTakes(c) \/ PumpWrites(c)
         \/ pump[c] \in {"waiting", "writing"} /\ PumpStops(c)
  PROVE  GapInv'
<1>0. /\ UNCHANGED <<feed, handler, registered, peer>>
      /\ \A d \in Clients : d # c => /\ held'[d] = held[d] /\ send'[d] = send[d]
                                     /\ wire'[d] = wire[d] /\ pump'[d] = pump[d]
  BY DEF PumpTakes, PumpWrites, PumpStops, IInv, TypeOK
<1>1. pump[c] \in {"waiting", "writing"} /\ handler[c] \notin {"none", "auth"}
  BY DEF PumpTakes, PumpWrites, IInv, PumpExact
<1>2. Received(c) /\ (peer[c] = "up" => OnTheWay(c))
  BY <1>1 DEF GapInv
<1>3. CASE PumpTakes(c)
  <2>1. held[c] = <<>> /\ send[c] # <<>>
    BY <1>3 DEF PumpTakes, IInv, TypeOK, PumpExact
  <2>2. held'[c] = <<Head(send[c])>> /\ send'[c] = Tail(send[c]) /\ wire'[c] = wire[c]
    BY <1>3 DEF PumpTakes, IInv, TypeOK
  <2>3. OnTheWay(c) => OnTheWay(c)'
    BY <1>0, <2>1, <2>2, GapTypes, WayTaken DEF OnTheWay
  <2>4. Received(c)'
    BY <1>0, <1>2, <2>2 DEF Received
  <2> QED BY <1>0, <1>1, <1>2, <2>3, <2>4, GapOthers
<1>4. CASE PumpWrites(c) /\ peer[c] = "up"
  <2>1. held'[c] = <<>> /\ send'[c] = send[c] /\ wire'[c] = wire[c] \o held[c]
    BY <1>4 DEF PumpWrites, IInv, TypeOK
  <2>2. Received(c)' /\ OnTheWay(c)'
    BY <1>0, <1>2, <1>4, <2>1, GapTypes, WayWritten DEF OnTheWay, Received
  <2> QED BY <1>0, <1>1, <2>2, GapOthers
<1>5. CASE PumpWrites(c) /\ peer[c] # "up"
  <2>1. wire'[c] = wire[c]
    BY <1>5 DEF PumpWrites
  <2>2. Received(c)'
    BY <1>0, <1>2, <2>1 DEF Received
  <2> QED BY <1>0, <1>1, <1>5, <2>2, GapOthers
<1>6. CASE PumpStops(c)
  <2>1. wire'[c] = wire[c] /\ pump'[c] = "done"
    BY <1>6 DEF PumpStops, IInv, TypeOK
  <2>2. Received(c)'
    BY <1>0, <1>2, <2>1 DEF Received
  <2> QED BY <1>0, <1>1, <2>1, <2>2, GapOthers
<1> QED BY <1>3, <1>4, <1>5, <1>6

\* A broadcast goes to the end of the queue and of the feed, or the client is dropped
\* and its queue grows no more.
LEMMA GapBroadcast ==
  ASSUME IInv, GapInv, NEW u \in Users, NEW m \in Updates, HBroadcast(u, m)
  PROVE  GapInv'
<1> DEFINE dropped == {c \in Targets(u) : Full(c)}
<1>0. UNCHANGED <<handler, user, pump, held, peer, wire>>
  BY DEF HBroadcast, Broadcast
<1>1. FanOut(u, m)
  BY DEF HBroadcast, Broadcast, Panics, Targets, IInv, TypeOK, RegistryExact
<1>2. /\ registered' = registered \ dropped
      /\ \A c \in Clients : send'[c] = IF c \in Targets(u) \ dropped THEN Append(send[c], m) ELSE send[c]
  BY <1>1 DEF FanOut, UnregisterLocked
<1>3. \A c \in Clients :
        feed'[c] = IF handler[c] = "reading" /\ user[c] = u THEN Append(feed[c], m) ELSE feed[c]
  BY DEF HBroadcast
<1>4. \A c \in registered : handler[c] = "reading"
  BY DEF IInv, TypeOK, RegistryExact
<1> HIDE DEF dropped
<1>5. feed' \in [Clients -> Seq(Updates)]
  <2>1. feed' = [c \in Clients |-> feed'[c]]
    BY DEF HBroadcast
  <2>2. ASSUME NEW c \in Clients PROVE feed'[c] \in Seq(Updates)
    <3>1. feed[c] \in Seq(Updates)
      BY GapTypes
    <3>2. Append(feed[c], m) \in Seq(Updates)
      BY <3>1
    <3> QED BY <1>3, <3>1, <3>2
  <2> QED BY <2>1, <2>2
<1>6. BeforeJoining'
  BY <1>0, <1>2, <1>3, <1>4 DEF GapInv, BeforeJoining, Targets
<1>7. ASSUME NEW c \in Clients PROVE Received(c)' /\ (OnTheWay(c) => OnTheWay(c)')
  <2>0. Received(c)
    BY DEF GapInv
  <2>1. wire'[c] = wire[c] /\ held'[c] = held[c]
    BY <1>0
  <2>2. CASE c \in Targets(u) \ dropped
    <3>1. send'[c] = Append(send[c], m) /\ feed'[c] = Append(feed[c], m) /\ c \in registered
      BY <1>2, <1>3, <1>4, <2>2 DEF Targets
    <3>2. Received(c)'
      BY <2>0, <2>1, <3>1, GapTypes, WayMissed DEF Received
    <3>3. OnTheWay(c) => OnTheWay(c)'
      BY <2>1, <3>1, GapTypes, WayQueued DEF OnTheWay
    <3> QED BY <3>2, <3>3
  <2>3. CASE c \notin Targets(u) \ dropped /\ feed'[c] = Append(feed[c], m)
    <3>1. send'[c] = send[c]
      BY <1>2, <2>3
    <3>2. feed'[c] # feed[c] => c \notin registered'
      BY <1>2, <1>3, <2>3 DEF Targets
    <3>3. Received(c)' /\ (Way(wire[c], held[c], send[c], feed[c]) => Way(wire[c], held[c], send[c], feed[c])')
      BY <2>0, <2>1, <2>3, <3>1, GapTypes, WayMissed DEF Received
    <3>4. c \in registered' => c \in registered
      BY <1>2
    <3> QED BY <2>1, <3>1, <3>2, <3>3, <3>4 DEF OnTheWay
  <2>4. CASE c \notin Targets(u) \ dropped /\ feed'[c] = feed[c]
    <3>1. send'[c] = send[c] /\ (c \in registered' => c \in registered)
      BY <1>2, <2>4
    <3> QED BY <2>0, <2>1, <2>4, <3>1 DEF Received, OnTheWay
  <2> QED BY <1>3, <2>2, <2>3, <2>4
<1> QED BY <1>0, <1>5, <1>6, <1>7 DEF GapInv

\* No browser ever sees a gap: for any capacity of the channels, what it has received is
\* a prefix of what was broadcast to its user since it registered.
THEOREM NoGap == HSpec => []NoSilentGap
<1>1. HInit => IInv /\ GapInv
  <2> SUFFICES ASSUME HInit PROVE IInv /\ GapInv
    OBVIOUS
  <2>1. Init
    BY DEF HInit
  <2>2. Len(<<>>) = 0 /\ <<>> \in Seq(Updates)
    OBVIOUS
  <2>3. GapInv
    BY <2>2 DEF HInit, Init, GapInv, BeforeJoining, OnTheWay, Received, Got, Way, Tight
  <2> QED BY <2>1, <2>3, InitInv
<1>2. IInv /\ GapInv /\ [HNext]_hvars => IInv' /\ GapInv'
  <2> SUFFICES ASSUME IInv, GapInv, [HNext]_hvars PROVE IInv' /\ GapInv'
    OBVIOUS
  <2>0. [Next]_vars
    BY UpdatesAssumption DEF HNext, HBroadcast, Next, hvars, vars
  <2>1. IInv'
    BY <2>0, Inductive
  <2>2. CASE UNCHANGED hvars
    BY <2>1, <2>2, GapAside DEF hvars, vars
  <2>3. ASSUME NEW c \in Clients, Server(c), UNCHANGED feed PROVE GapInv'
    BY <2>3, GapHandler, GapRegister, GapPump
       DEF Server, PumpWriteFails, PumpTickFails, PumpSaysGoodbye
  <2>4. ASSUME NEW c \in Clients, PeerLost(c) \/ PeerLeaves(c), UNCHANGED feed PROVE GapInv'
    BY <2>4, GapHandler
  <2>5. ASSUME NEW u \in Users, NEW m \in MCUpdates, HBroadcast(u, m) PROVE GapInv'
    BY <2>5, GapBroadcast, UpdatesAssumption
  <2> QED BY <2>1, <2>2, <2>3, <2>4, <2>5 DEF HNext
<1>3. IInv /\ GapInv => NoSilentGap
  <2> SUFFICES ASSUME IInv, GapInv, NEW c \in Clients PROVE IsPrefix(wire[c], feed[c])
    BY DEF NoSilentGap
  <2>1. wire[c] \in Seq(Updates) /\ feed[c] \in Seq(Updates) /\ Received(c)
    BY DEF IInv, TypeOK, GapInv
  <2> QED BY <2>1 DEF IsPrefix, Received, Got
<1> QED BY <1>1, <1>2, <1>3, PTL DEF HSpec

=============================================================================
