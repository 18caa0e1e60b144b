-------------------------- MODULE EnrollmentProofs --------------------------
(***************************************************************************)
(* Proofs about Enrollment, for any number of codes, submits, cancels,      *)
(* losses and failures: A's success is real.                               *)
(***************************************************************************)
EXTENDS Enrollment, TLAPS

-----------------------------------------------------------------------------
(* The inductive invariant.                                                *)

Kinds   == {"error", "received", "peer_connected", "spake2_a", "spake2_b", "master_key"}
Keys    == Nat \cup {None}
Msgs    == [kind : Kinds, key : Keys]
BAwaits == {"create", "init", "finish", "decrypt", "begin", "existing", "mint"}
Tasks   == [at : {"auth", "spake2", "fetch", "confirm"} \cup BAwaits, sock : Socks,
            key : Keys, opts : Keys]
Webs     == {"none", "connecting", "open", "closing", "aborted", "closed"}
Srvs     == {"none", "asked", "checked", "on", "off"}
Handlers == {"none", "first", "second"}
SockType == [code : Codes \cup {None}, web : Webs, srv : Srvs, up : Seq(Msgs),
             down : Seq(Msgs), on : Handlers, told : BOOLEAN,
             late : BOOLEAN, dropped : BOOLEAN]
AStats   == ABusy \cup {"idle", "success", "error"}
BStats   == {"idle", "waiting", "handshaking", "ready", "registering", "success", "error"}

AType    == [status : AStats, ws : ASocks \cup {None}, key : Keys, done : Codes \cup {None},
             here : BOOLEAN]
BType    == [status : BStats, ws : BSocks \cup {None}, key : Keys, master : BOOLEAN,
             opts : Keys, cancelling : BOOLEAN, timer : BOOLEAN, here : BOOLEAN]
UsedType == [starts : 0 .. MaxStarts, submits : 0 .. MaxSubmits, keys : Nat, moves : Nat]

Types ==
  /\ a \in AType /\ b \in BType /\ todo \subseteq Tasks /\ used \in UsedType
  /\ pair \in [Codes -> [A : ASocks \cup {None}, B : BSocks \cup {None}]]
  /\ enrolled \in [Codes -> SUBSET {"blob", "passkey"}]

\* A "received" travels only for a code that has put something in the database (e), and
\* only B sends it; A hears nothing that its onmessage does not know.
AHears == {"error", "spake2_b", "received"}
SockOK(s, r, e) ==
  /\ s \in BSocks => r.code \in {None, s[2]}
  /\ r.code = None => r.web = "none" /\ r.srv = "none" /\ r.up = <<>> /\ r.down = <<>>
  /\ \A i \in DOMAIN r.up : r.up[i].kind = "received" => s \in BSocks /\ e[r.code] # {}
  /\ \A i \in DOMAIN r.down : r.down[i].kind = "received" => e[r.code] # {}
  /\ \A i \in DOMAIN r.up : s \in BSocks => r.up[i].kind \in AHears
  /\ \A i \in DOMAIN r.down : s \in ASocks => r.down[i].kind \in AHears

SocksOK(k, e) == k \in [Socks -> SockType] /\ \A s \in Socks : SockOK(s, k[s], e)

\* The hub pairs only sockets of the same code.
PairOK == \A c \in Codes, s \in Socks : s \in {pair[c].A, pair[c].B} => sock[s].code = c

\* An await of A before its socket is open is the only one with that socket; a confirmation
\* that is being decrypted is real.
TaskOK(t) ==
  /\ t.at = "auth" => /\ t.sock \in ASocks /\ t.opts \in Codes /\ t.sock[2] <= used.submits
                      /\ sock[t.sock].code = None
  /\ t.at = "confirm" => /\ t.sock \in ASocks /\ sock[t.sock].code # None
                         /\ enrolled[sock[t.sock].code] # {}
  /\ t.at \in {"spake2", "fetch"} => t.sock \in ASocks
  /\ t.at \in BAwaits => t.sock \in BSocks
TasksOK == \A t \in todo : TaskOK(t)
OneAuth == \A t, u \in todo : t.at = "auth" /\ u.at = "auth" /\ t.sock = u.sock => t = u
Unasked == \A s \in ASocks : s[2] > used.submits => sock[s].code = None

\* B has a socket before it awaits anything but its code.
BHasSock ==
  b.ws = None => /\ b.opts = None /\ \A t \in todo : t.at \notin BAwaits \ {"create"}
                 /\ \A s \in BSocks : sock[s].code = None

IInv ==
  /\ Types /\ SocksOK(sock, enrolled) /\ PairOK /\ TasksOK /\ OneAuth /\ Unasked /\ BHasSock
  /\ SuccessIsReal

-----------------------------------------------------------------------------
(* Sockets.                                                                *)

\* What the names stand for.
LEMMA Apart ==
  /\ None \notin Nat /\ None \notin Socks /\ None \notin Codes /\ Codes \subseteq Nat
  /\ Socks = ASocks \cup BSocks /\ ASocks \cap BSocks = {}
  /\ \A s \in ASocks : s[1] = "A" /\ s[2] \in Nat
  /\ \A s \in BSocks : s[1] = "B" /\ s[2] \in Codes
  BY EnrollmentAssumption DEF Codes, Socks, ASocks, BSocks

SameCodes(k2, k) == \A s \in Socks : k2[s].code = k[s].code

\* A socket changes and keeps its code.
LEMMA PutOK ==
  ASSUME NEW e, NEW k, SocksOK(k, e), NEW s \in Socks, NEW r \in SockType, SockOK(s, r, e),
         r.code = k[s].code
  PROVE  SocksOK([k EXCEPT ![s] = r], e) /\ SameCodes([k EXCEPT ![s] = r], k)
  BY DEF SocksOK, SameCodes

\* Messages at the end of a queue, and from its front.
LEMMA Queue ==
  ASSUME NEW q \in Seq(Msgs)
  PROVE  /\ \A m \in Msgs : /\ Append(q, m) \in Seq(Msgs)
                            /\ \A i \in DOMAIN Append(q, m) :
                                 Append(q, m)[i] = m \/ (i \in DOMAIN q /\ Append(q, m)[i] = q[i])
         /\ q # <<>> => /\ Head(q) = q[1] /\ 1 \in DOMAIN q /\ Head(q) \in Msgs
                        /\ Tail(q) \in Seq(Msgs)
                        /\ \A i \in DOMAIN Tail(q) : i + 1 \in DOMAIN q /\ Tail(q)[i] = q[i + 1]
         /\ <<>> \in Seq(Msgs) /\ DOMAIN <<>> = {}
  OBVIOUS

\* ws.send
LEMMA SendOK ==
  ASSUME NEW e, NEW k, SocksOK(k, e), NEW s \in Socks \cup {None}, NEW m \in Msgs,
         m.kind = "received" => s \in BSocks /\ e[s[2]] # {}, s \in BSocks => m.kind \in AHears
  PROVE  SocksOK(Send(k, s, m), e) /\ SameCodes(Send(k, s, m), k)
<1>1. CASE s = None \/ k[s].web # "open"
  BY <1>1 DEF Send, SameCodes
<1>2. CASE s # None /\ k[s].web = "open"
  <2> DEFINE r == [k[s] EXCEPT !.up = Append(@, m)]
  <2>1. s \in Socks /\ k[s] \in SockType /\ SockOK(s, k[s], e)
    BY <1>2 DEF SocksOK
  <2>2. Send(k, s, m) = [k EXCEPT ![s] = r]
    BY <1>2 DEF Send
  <2>3. r \in SockType /\ r.code = k[s].code
    BY <2>1, Queue DEF SockType
  <2>4. k[s].code # None /\ (s \in BSocks => k[s].code = s[2])
    BY <1>2, <2>1 DEF SockOK
  <2>5. SockOK(s, r, e)
    <3>1. /\ r.web = k[s].web /\ r.srv = k[s].srv /\ r.down = k[s].down
          /\ r.up = Append(k[s].up, m) /\ k[s].up \in Seq(Msgs)
      BY <2>1 DEF SockType
    <3>2. \A i \in DOMAIN r.up : r.up[i] = m \/ (i \in DOMAIN k[s].up /\ r.up[i] = k[s].up[i])
      BY <3>1, Queue
    <3> HIDE DEF r
    <3> QED BY <2>1, <2>3, <2>4, <3>1, <3>2 DEF SockOK
  <2> HIDE DEF r
  <2>6. SocksOK([k EXCEPT ![s] = r], e) /\ SameCodes([k EXCEPT ![s] = r], k)
    BY <2>1, <2>3, <2>5, PutOK
  <2> QED BY <2>2, <2>6
<1> QED BY <1>1, <1>2

\* ws.close
LEMMA CloseOK ==
  ASSUME NEW e, NEW k, SocksOK(k, e), NEW s \in Socks \cup {None}
  PROVE  SocksOK(Close(k, s), e) /\ SameCodes(Close(k, s), k)
<1>1. CASE s = None
  BY <1>1 DEF Close, SameCodes
<1>2. CASE s # None
  <2> DEFINE w == CASE k[s].web = "open" -> "closing" [] k[s].web = "connecting" -> "aborted"
                    [] OTHER -> k[s].web
             r == [k[s] EXCEPT !.web = w, !.down = <<>>]
  <2>1. s \in Socks /\ k[s] \in SockType /\ SockOK(s, k[s], e)
    BY <1>2 DEF SocksOK
  <2>2. Close(k, s) = [k EXCEPT ![s] = r]
    BY <1>2 DEF Close
  <2>3. w \in Webs /\ (k[s].web = "none" => w = "none")
    <3>1. k[s].web \in Webs
      BY <2>1 DEF SockType
    <3> USE DEF Webs
    <3>2. CASE k[s].web = "open"
      <4>1. w = "closing"
        BY <3>2
      <4> HIDE DEF w
      <4> QED BY <3>2, <4>1
    <3>3. CASE k[s].web = "connecting"
      <4>1. w = "aborted"
        BY <3>3
      <4> HIDE DEF w
      <4> QED BY <3>3, <4>1
    <3>4. CASE k[s].web \notin {"open", "connecting"}
      <4>1. w = k[s].web
        BY <3>4
      <4> HIDE DEF w
      <4> QED BY <3>1, <4>1
    <3> QED BY <3>2, <3>3, <3>4
  <2> HIDE DEF w
  <2>4. r \in SockType /\ r.code = k[s].code
    BY <2>1, <2>3, Queue DEF SockType
  <2>5. SockOK(s, r, e)
    <3>1. r.web = w /\ r.srv = k[s].srv /\ r.down = <<>> /\ r.up = k[s].up
      BY <2>1 DEF SockType
    <3> HIDE DEF r
    <3> QED BY <2>1, <2>3, <2>4, <3>1, Queue DEF SockOK
  <2> HIDE DEF r
  <2>6. SocksOK([k EXCEPT ![s] = r], e) /\ SameCodes([k EXCEPT ![s] = r], k)
    BY <2>1, <2>4, <2>5, PutOK
  <2> QED BY <2>2, <2>6
<1> QED BY <1>1, <1>2

\* The server's send
LEMMA DeliverOK ==
  ASSUME NEW e, NEW k, SocksOK(k, e), NEW s \in Socks, NEW m \in Msgs,
         m.kind = "received" => e[k[s].code] # {}, s \in ASocks => m.kind \in AHears
  PROVE  SocksOK(Deliver(k, s, m), e) /\ SameCodes(Deliver(k, s, m), k)
<1>1. CASE k[s].web \notin {"connecting", "open"}
  BY <1>1 DEF Deliver, SameCodes
<1>2. CASE k[s].web \in {"connecting", "open"}
  <2> DEFINE r == [k[s] EXCEPT !.down = Append(@, m), !.told = @ \/ m.kind \in {"error", "received"}]
  <2>1. k[s] \in SockType /\ SockOK(s, k[s], e)
    BY DEF SocksOK
  <2>2. Deliver(k, s, m) = [k EXCEPT ![s] = r]
    BY <1>2 DEF Deliver
  <2>3. r \in SockType /\ r.code = k[s].code
    BY <2>1, Queue DEF SockType
  <2>4. k[s].code # None
    BY <1>2, <2>1 DEF SockOK
  <2>5. SockOK(s, r, e)
    <3>1. /\ r.web = k[s].web /\ r.srv = k[s].srv /\ r.up = k[s].up
          /\ r.down = Append(k[s].down, m) /\ k[s].down \in Seq(Msgs)
      BY <2>1 DEF SockType
    <3>2. \A i \in DOMAIN r.down :
            r.down[i] = m \/ (i \in DOMAIN k[s].down /\ r.down[i] = k[s].down[i])
      BY <3>1, Queue
    <3> HIDE DEF r
    <3> QED BY <2>1, <2>3, <2>4, <3>1, <3>2 DEF SockOK
  <2> HIDE DEF r
  <2>6. SocksOK([k EXCEPT ![s] = r], e) /\ SameCodes([k EXCEPT ![s] = r], k)
    BY <2>3, <2>5, PutOK
  <2> QED BY <2>2, <2>6
<1> QED BY <1>1, <1>2

\* new WebSocket
LEMMA OpenOK ==
  ASSUME NEW e, NEW k, SocksOK(k, e), NEW s \in Socks, NEW c \in Codes,
         s \in BSocks => c = s[2]
  PROVE  /\ SocksOK(Open(k, s, c), e) /\ Open(k, s, c)[s].code = c
         /\ \A u \in Socks : u # s => Open(k, s, c)[u].code = k[u].code
<1> DEFINE r == [Unused EXCEPT !.code = c, !.web = "connecting", !.srv = "asked"]
<1>1. /\ r.code = c /\ r.up = <<>> /\ r.down = <<>> /\ r.web = "connecting"
  BY DEF Unused
<1>2. r \in SockType
  <2>1. Unused \in SockType
    BY Queue DEF Unused, SockType, Webs, Srvs, Handlers
  <2> QED BY <2>1 DEF SockType, Webs, Srvs
<1>3. SockOK(s, r, e)
  <2> HIDE DEF r
  <2> QED BY <1>1, Apart, Queue DEF SockOK
<1>4. Open(k, s, c) = [k EXCEPT ![s] = r]
  BY DEF Open
<1> HIDE DEF r
<1> QED BY <1>1, <1>2, <1>3, <1>4 DEF SocksOK

\* A socket's state, handler or ends change, and nothing else of it.
LEMMA MarkOK ==
  ASSUME NEW e, NEW k, SocksOK(k, e), NEW s \in Socks, k[s].code # None, NEW v \in Srvs,
         NEW w \in Webs
  PROVE  /\ SocksOK([k EXCEPT ![s].srv = v], e) /\ SameCodes([k EXCEPT ![s].srv = v], k)
         /\ SocksOK([k EXCEPT ![s].web = w], e) /\ SameCodes([k EXCEPT ![s].web = w], k)
<1>1. k[s] \in SockType /\ SockOK(s, k[s], e)
  BY DEF SocksOK
<1>2. ASSUME NEW r \in SockType, r.code = k[s].code, r.up = k[s].up, r.down = k[s].down
      PROVE  SockOK(s, r, e)
  BY <1>1, <1>2 DEF SockOK
<1>3. SocksOK([k EXCEPT ![s].srv = v], e) /\ SameCodes([k EXCEPT ![s].srv = v], k)
  <2> DEFINE r == [k[s] EXCEPT !.srv = v]
  <2>1. r \in SockType /\ r.code = k[s].code /\ r.up = k[s].up /\ r.down = k[s].down
    BY <1>1 DEF SockType
  <2>2. SockOK(s, r, e)
    BY <1>2, <2>1
  <2>3. [k EXCEPT ![s].srv = v] = [k EXCEPT ![s] = r]
    OBVIOUS
  <2> HIDE DEF r
  <2> QED BY <2>1, <2>2, <2>3, PutOK
<1>4. SocksOK([k EXCEPT ![s].web = w], e) /\ SameCodes([k EXCEPT ![s].web = w], k)
  <2> DEFINE r == [k[s] EXCEPT !.web = w]
  <2>1. r \in SockType /\ r.code = k[s].code /\ r.up = k[s].up /\ r.down = k[s].down
    BY <1>1 DEF SockType
  <2>2. SockOK(s, r, e)
    BY <1>2, <2>1
  <2>3. [k EXCEPT ![s].web = w] = [k EXCEPT ![s] = r]
    OBVIOUS
  <2> HIDE DEF r
  <2> QED BY <2>1, <2>2, <2>3, PutOK
<1> QED BY <1>3, <1>4

\* B's handler is installed.
LEMMA HandlerOK ==
  ASSUME NEW e, NEW k, SocksOK(k, e), NEW s \in Socks, NEW w \in Handlers
  PROVE  SocksOK([k EXCEPT ![s].on = w], e) /\ SameCodes([k EXCEPT ![s].on = w], k)
<1> DEFINE r == [k[s] EXCEPT !.on = w]
<1>1. k[s] \in SockType /\ SockOK(s, k[s], e)
  BY DEF SocksOK
<1>2. /\ r \in SockType /\ r.code = k[s].code /\ r.up = k[s].up /\ r.down = k[s].down
      /\ r.web = k[s].web /\ r.srv = k[s].srv
  BY <1>1 DEF SockType
<1>3. [k EXCEPT ![s].on = w] = [k EXCEPT ![s] = r]
  OBVIOUS
<1> HIDE DEF r
<1>4. SockOK(s, r, e)
  BY <1>1, <1>2 DEF SockOK
<1> QED BY <1>2, <1>3, <1>4, PutOK

\* What is noted of a socket.
LEMMA NoteOK ==
  ASSUME NEW e, NEW k, SocksOK(k, e), NEW s \in Socks, NEW x \in BOOLEAN
  PROVE  /\ SocksOK([k EXCEPT ![s].late = x], e) /\ SameCodes([k EXCEPT ![s].late = x], k)
         /\ SocksOK([k EXCEPT ![s].dropped = x], e) /\ SameCodes([k EXCEPT ![s].dropped = x], k)
<1>1. k[s] \in SockType /\ SockOK(s, k[s], e)
  BY DEF SocksOK
<1>2. ASSUME NEW r \in SockType, r.code = k[s].code, r.up = k[s].up, r.down = k[s].down,
             r.web = k[s].web, r.srv = k[s].srv
      PROVE  SocksOK([k EXCEPT ![s] = r], e) /\ SameCodes([k EXCEPT ![s] = r], k)
  <2>1. SockOK(s, r, e)
    BY <1>1, <1>2 DEF SockOK
  <2> QED BY <1>2, <2>1, PutOK
<1>3. SocksOK([k EXCEPT ![s].late = x], e) /\ SameCodes([k EXCEPT ![s].late = x], k)
  <2> DEFINE r == [k[s] EXCEPT !.late = x]
  <2>1. /\ r \in SockType /\ r.code = k[s].code /\ r.up = k[s].up /\ r.down = k[s].down
        /\ r.web = k[s].web /\ r.srv = k[s].srv
    BY <1>1 DEF SockType
  <2>2. [k EXCEPT ![s].late = x] = [k EXCEPT ![s] = r]
    OBVIOUS
  <2> HIDE DEF r
  <2> QED BY <1>2, <2>1, <2>2
<1>4. SocksOK([k EXCEPT ![s].dropped = x], e) /\ SameCodes([k EXCEPT ![s].dropped = x], k)
  <2> DEFINE r == [k[s] EXCEPT !.dropped = x]
  <2>1. /\ r \in SockType /\ r.code = k[s].code /\ r.up = k[s].up /\ r.down = k[s].down
        /\ r.web = k[s].web /\ r.srv = k[s].srv
    BY <1>1 DEF SockType
  <2>2. [k EXCEPT ![s].dropped = x] = [k EXCEPT ![s] = r]
    OBVIOUS
  <2> HIDE DEF r
  <2> QED BY <1>2, <2>1, <2>2
<1> QED BY <1>3, <1>4

\* A message is taken from a queue, or the queue is lost.
LEMMA TakeOK ==
  ASSUME NEW e, NEW k, SocksOK(k, e), NEW s \in Socks
  PROVE  /\ k[s].up # <<>> => /\ SocksOK([k EXCEPT ![s].up = Tail(@)], e)
                              /\ SameCodes([k EXCEPT ![s].up = Tail(@)], k)
         /\ k[s].down # <<>> => /\ SocksOK([k EXCEPT ![s].down = Tail(@)], e)
                                /\ SameCodes([k EXCEPT ![s].down = Tail(@)], k)
         /\ SocksOK([k EXCEPT ![s].up = <<>>], e) /\ SameCodes([k EXCEPT ![s].up = <<>>], k)
<1>1. k[s] \in SockType /\ SockOK(s, k[s], e) /\ k[s].up \in Seq(Msgs) /\ k[s].down \in Seq(Msgs)
  BY DEF SocksOK, SockType
<1>2. ASSUME k[s].up # <<>>
      PROVE  /\ SocksOK([k EXCEPT ![s].up = Tail(@)], e)
             /\ SameCodes([k EXCEPT ![s].up = Tail(@)], k)
  <2> DEFINE r == [k[s] EXCEPT !.up = Tail(@)]
  <2>1. Tail(k[s].up) \in Seq(Msgs)
    BY <1>1, <1>2, Queue
  <2>2. /\ r \in SockType /\ r.code = k[s].code /\ r.up = Tail(k[s].up) /\ r.down = k[s].down
        /\ r.web = k[s].web /\ r.srv = k[s].srv
    BY <1>1, <2>1 DEF SockType
  <2>3. \A i \in DOMAIN r.up : i + 1 \in DOMAIN k[s].up /\ r.up[i] = k[s].up[i + 1]
    BY <1>1, <1>2, <2>2, Queue
  <2>4. [k EXCEPT ![s].up = Tail(@)] = [k EXCEPT ![s] = r]
    OBVIOUS
  <2> HIDE DEF r
  <2>5. SockOK(s, r, e)
    BY <1>1, <1>2, <2>2, <2>3 DEF SockOK
  <2> QED BY <2>2, <2>4, <2>5, PutOK
<1>3. ASSUME k[s].down # <<>>
      PROVE  /\ SocksOK([k EXCEPT ![s].down = Tail(@)], e)
             /\ SameCodes([k EXCEPT ![s].down = Tail(@)], k)
  <2> DEFINE r == [k[s] EXCEPT !.down = Tail(@)]
  <2>1. Tail(k[s].down) \in Seq(Msgs)
    BY <1>1, <1>3, Queue
  <2>2. /\ r \in SockType /\ r.code = k[s].code /\ r.down = Tail(k[s].down) /\ r.up = k[s].up
        /\ r.web = k[s].web /\ r.srv = k[s].srv
    BY <1>1, <2>1 DEF SockType
  <2>3. \A i \in DOMAIN r.down : i + 1 \in DOMAIN k[s].down /\ r.down[i] = k[s].down[i + 1]
    BY <1>1, <1>3, <2>2, Queue
  <2>4. [k EXCEPT ![s].down = Tail(@)] = [k EXCEPT ![s] = r]
    OBVIOUS
  <2> HIDE DEF r
  <2>5. SockOK(s, r, e)
    BY <1>1, <1>3, <2>2, <2>3 DEF SockOK
  <2> QED BY <2>2, <2>4, <2>5, PutOK
<1>4. SocksOK([k EXCEPT ![s].up = <<>>], e) /\ SameCodes([k EXCEPT ![s].up = <<>>], k)
  <2> DEFINE r == [k[s] EXCEPT !.up = <<>>]
  <2>1. /\ r \in SockType /\ r.code = k[s].code /\ r.up = <<>> /\ r.down = k[s].down
        /\ r.web = k[s].web /\ r.srv = k[s].srv
    BY <1>1, Queue DEF SockType
  <2>2. [k EXCEPT ![s].up = <<>>] = [k EXCEPT ![s] = r]
    OBVIOUS
  <2> HIDE DEF r
  <2>3. SockOK(s, r, e)
    BY <1>1, <2>1, Queue DEF SockOK
  <2> QED BY <2>1, <2>2, <2>3, PutOK
<1> QED BY <1>2, <1>3, <1>4

-----------------------------------------------------------------------------
(* Steps.                                                                  *)

\* What is saved stays saved.
LEMMA Saved ==
  ASSUME NEW e, NEW e2, NEW k, SocksOK(k, e), \A c \in Codes : e[c] # {} => e2[c] # {}
  PROVE  SocksOK(k, e2)
<1> SUFFICES ASSUME NEW s \in Socks PROVE SockOK(s, k[s], e2)
  BY DEF SocksOK
<1>1. SockOK(s, k[s], e) /\ k[s].code \in Codes \cup {None}
  BY DEF SocksOK, SockType
<1>2. CASE k[s].code = None
  BY <1>1, <1>2, Queue DEF SockOK
<1>3. CASE k[s].code \in Codes
  BY <1>1, <1>3 DEF SockOK
<1> QED BY <1>1, <1>2, <1>3

\* A step that opens no socket and asks for none.
LEMMA Frame ==
  ASSUME IInv, Types', SocksOK(sock', enrolled'), SameCodes(sock', sock), PairOK', SuccessIsReal',
         used'.submits = used.submits, \A c \in Codes : enrolled[c] # {} => enrolled'[c] # {},
         \A t \in todo' :
           \/ t \in todo
           \/ /\ t.at # "auth" /\ TaskOK(t)' /\ (t.at \in BAwaits \ {"create"} => b'.ws # None),
         b'.ws = None => b.ws = None /\ b'.opts = None
  PROVE  IInv'
<1>1. TasksOK'
  <2> SUFFICES ASSUME NEW t \in todo' PROVE TaskOK(t)'
    BY DEF TasksOK
  <2>1. CASE t \in todo
    <3>1. TaskOK(t) /\ t.sock \in Socks
      BY <2>1 DEF IInv, TasksOK, Types, Tasks
    <3>2. sock'[t.sock].code = sock[t.sock].code
      BY <3>1 DEF SameCodes
    <3>3. sock[t.sock].code \in Codes \cup {None}
      BY <3>1 DEF IInv, SocksOK, SockType
    <3> QED BY <3>1, <3>2, <3>3 DEF TaskOK
  <2> QED BY <2>1
<1>2. OneAuth'
  BY DEF IInv, OneAuth
<1>3. Unasked'
  BY Apart DEF IInv, Unasked, SameCodes
<1>4. BHasSock'
  BY Apart DEF IInv, BHasSock, SameCodes
<1> QED BY <1>1, <1>2, <1>3, <1>4 DEF IInv

\* The same when neither the hub's pairs nor the database change.
LEMMA Aside ==
  ASSUME IInv, Types', SocksOK(sock', enrolled), SameCodes(sock', sock), pair' = pair,
         enrolled' = enrolled, a'.done \in {a.done, None}, used'.submits = used.submits,
         \A t \in todo' :
           \/ t \in todo
           \/ /\ t.at # "auth" /\ TaskOK(t)' /\ (t.at \in BAwaits \ {"create"} => b'.ws # None),
         b'.ws = None => b.ws = None /\ b'.opts = None
  PROVE  IInv'
<1>1. PairOK'
  BY DEF IInv, PairOK, SameCodes
<1>2. SuccessIsReal'
  BY DEF IInv, SuccessIsReal
<1> QED BY <1>1, <1>2, Frame

\* A socket's code once it is on its way.
LEMMA Coded ==
  ASSUME IInv, NEW s \in Socks
  PROVE  /\ sock[s].web # "none" \/ sock[s].srv # "none" => sock[s].code \in Codes
         /\ sock[s].up \in Seq(Msgs) /\ sock[s].down \in Seq(Msgs)
  BY DEF IInv, SocksOK, SockOK, SockType

\* Counting a move.
LEMMA Moved ==
  ASSUME Types, Move \/ used' = used
  PROVE  used' \in UsedType /\ used'.submits = used.submits
  BY DEF Types, UsedType, Move

-----------------------------------------------------------------------------
(* The server's steps.                                                     *)

\* The handler refuses a socket or goes on to the upgrade.
LEMMA CheckStep ==
  ASSUME IInv, NEW s \in Socks, Check(s)
  PROVE  IInv'
<1>1. sock[s].code # None /\ SocksOK(sock, enrolled)
  BY Coded, Apart DEF Check, IInv
<1> DEFINE off == [sock EXCEPT ![s].srv = "off"]
           on  == [sock EXCEPT ![s].srv = "checked"]
<1>2. SocksOK(off, enrolled) /\ SameCodes(off, sock) /\ SocksOK(on, enrolled) /\ SameCodes(on, sock)
  BY <1>1, MarkOK DEF Srvs, Webs
<1>3. SocksOK(Close(off, s), enrolled) /\ SameCodes(Close(off, s), off)
  BY <1>2, CloseOK
<1>4. sock' = on \/ sock' = Close(off, s)
  BY DEF Check
<1> HIDE DEF off, on
<1>5. SocksOK(sock', enrolled) /\ SameCodes(sock', sock)
  BY <1>2, <1>3, <1>4 DEF SameCodes
<1>6. UNCHANGED <<a, b, todo, pair, enrolled, used>>
  BY DEF Check
<1>7. Types' /\ (b'.ws = None => b.ws = None /\ b'.opts = None)
  BY <1>6 DEF IInv, Types, BHasSock
<1> QED BY <1>5, <1>6, <1>7, Aside

\* A socket takes its slot.
LEMMA JoinStep ==
  ASSUME IInv, NEW s \in Socks, Join(s)
  PROVE  IInv'
<1> DEFINE c == sock[s].code
           on == [sock EXCEPT ![s].srv = "on"]
<1>1. c \in Codes /\ c # None /\ SocksOK(sock, enrolled)
  BY Coded, Apart DEF Join, IInv
<1>2. SocksOK(on, enrolled) /\ SameCodes(on, sock)
  BY <1>1, MarkOK DEF Srvs, Webs
<1>3. pair[c].B \in Socks \cup {None}
  BY <1>1, Apart DEF IInv, Types
<1>4. ASSUME pair[c].B # None
      PROVE  /\ SocksOK(Deliver(on, pair[c].B, Msg("peer_connected", None)), enrolled)
             /\ SameCodes(Deliver(on, pair[c].B, Msg("peer_connected", None)), on)
  <2>1. /\ Msg("peer_connected", None) \in Msgs
        /\ Msg("peer_connected", None).kind # "received"
        /\ pair[c].B \notin ASocks
    BY <1>1, Apart DEF Msg, Msgs, Kinds, Keys, IInv, Types
  <2> QED BY <1>2, <1>3, <1>4, <2>1, DeliverOK
<1>5. /\ sock' = on \/ (pair[c].B # None /\ sock' = Deliver(on, pair[c].B, Msg("peer_connected", None)))
      /\ UNCHANGED <<a, b, todo, enrolled, used>>
      /\ pair' = [pair EXCEPT ![c][s[1]] = s]
  BY DEF Join
<1> HIDE DEF on
<1>6. SocksOK(sock', enrolled) /\ SameCodes(sock', sock)
  BY <1>2, <1>4, <1>5 DEF SameCodes
<1>7. /\ pair' \in [Codes -> [A : ASocks \cup {None}, B : BSocks \cup {None}]]
      /\ \A d \in Codes : pair'[d].A = pair[d].A \/ (d = c /\ pair'[d].A = s)
      /\ \A d \in Codes : pair'[d].B = pair[d].B \/ (d = c /\ pair'[d].B = s)
  <2>1. CASE s \in ASocks
    <3>1. pair' = [pair EXCEPT ![c].A = s]
      BY <1>5, <2>1, Apart
    <3> QED BY <1>1, <2>1, <3>1 DEF IInv, Types
  <2>2. CASE s \in BSocks
    <3>1. pair' = [pair EXCEPT ![c].B = s]
      BY <1>5, <2>2, Apart
    <3> QED BY <1>1, <2>2, <3>1 DEF IInv, Types
  <2> QED BY <2>1, <2>2, Apart
<1>8. PairOK'
  BY <1>6, <1>7 DEF IInv, PairOK, SameCodes
<1>9. Types' /\ SuccessIsReal' /\ (b'.ws = None => b.ws = None /\ b'.opts = None)
  BY <1>5, <1>7 DEF IInv, Types, BHasSock, SuccessIsReal
<1> QED BY <1>5, <1>6, <1>8, <1>9, Frame

\* A message is relayed between two sockets of one code.
LEMMA RelayStep ==
  ASSUME IInv, NEW s \in Socks, ReadPump(s)
  PROVE  IInv'
<1> DEFINE c    == sock[s].code
           peer == pair[c][IF s[1] = "A" THEN "B" ELSE "A"]
           k    == [sock EXCEPT ![s].up = Tail(@)]
           m    == Head(sock[s].up)
<1>1. /\ c \in Codes /\ c # None /\ SocksOK(sock, enrolled)
      /\ sock[s].up # <<>> /\ sock[s].up \in Seq(Msgs)
  BY Coded, Apart DEF ReadPump, IInv
<1>2. SocksOK(k, enrolled) /\ SameCodes(k, sock)
  BY <1>1, TakeOK
<1>3. peer = pair[c].A \/ peer = pair[c].B
  OBVIOUS
<1>4. peer \in Socks \cup {None} /\ (peer # None => sock[peer].code = c)
  BY <1>1, <1>3, Apart DEF IInv, Types, PairOK
<1>5. /\ m \in Msgs /\ (m.kind = "received" => enrolled[c] # {})
      /\ s \in BSocks => m.kind \in AHears
  BY <1>1, Queue DEF SocksOK, SockOK
<1>0. peer \in ASocks => s \in BSocks
  <2>1. CASE s \in ASocks
    <3>1. peer = pair[c].B
      BY <2>1, Apart
    <3> QED BY <3>1, <1>1, Apart DEF IInv, Types
  <2> QED BY <2>1, Apart
<1>6. sock' = k \/ (peer # None /\ sock' = Deliver(k, peer, m))
  BY DEF ReadPump
<1>7. UNCHANGED <<a, b, todo, pair, enrolled, used>>
  BY DEF ReadPump, server
<1> HIDE DEF k, peer, m
<1>8. peer # None => /\ SocksOK(Deliver(k, peer, m), enrolled)
                     /\ SameCodes(Deliver(k, peer, m), k)
  <2> SUFFICES ASSUME peer # None
               PROVE  SocksOK(Deliver(k, peer, m), enrolled) /\ SameCodes(Deliver(k, peer, m), k)
    OBVIOUS
  <2>1. peer \in Socks /\ k[peer].code = c
    BY <1>2, <1>4 DEF SameCodes
  <2>2. m.kind = "received" => enrolled[k[peer].code] # {}
    BY <1>5, <2>1
  <2>3. peer \in ASocks => m.kind \in AHears
    BY <1>0, <1>5
  <2> QED BY <1>2, <1>5, <2>1, <2>2, <2>3, DeliverOK
<1>9. SocksOK(sock', enrolled) /\ SameCodes(sock', sock)
  BY <1>2, <1>6, <1>8 DEF SameCodes
<1>10. Types' /\ (b'.ws = None => b.ws = None /\ b'.opts = None)
  BY <1>7 DEF IInv, Types, BHasSock
<1> QED BY <1>7, <1>9, <1>10, Aside

\* A slot is emptied.
LEMMA RemoveStep ==
  ASSUME IInv, NEW s \in Socks, RemoveClient(s)
  PROVE  IInv'
<1> DEFINE c   == sock[s].code
           off == [sock EXCEPT ![s].srv = "off"]
<1>1. c \in Codes /\ c # None /\ SocksOK(sock, enrolled)
  BY Coded, Apart DEF RemoveClient, IInv
<1>2. SocksOK(off, enrolled) /\ SameCodes(off, sock)
  BY <1>1, MarkOK DEF Srvs, Webs
<1>3. /\ pair' = [pair EXCEPT ![c][s[1]] = None] /\ sock' = Close(off, pair[c][s[1]])
      /\ UNCHANGED <<a, b, todo, enrolled, used>>
  BY DEF RemoveClient
<1> HIDE DEF off
<1>4. /\ pair[c][s[1]] \in Socks \cup {None}
      /\ pair' \in [Codes -> [A : ASocks \cup {None}, B : BSocks \cup {None}]]
      /\ \A d \in Codes : /\ pair'[d].A \in {pair[d].A, None}
                          /\ pair'[d].B \in {pair[d].B, None}
  <2>1. CASE s \in ASocks
    <3>1. pair' = [pair EXCEPT ![c].A = None] /\ pair[c][s[1]] = pair[c].A
      BY <1>3, <2>1, Apart
    <3> QED BY <1>1, <2>1, <3>1, Apart DEF IInv, Types
  <2>2. CASE s \in BSocks
    <3>1. pair' = [pair EXCEPT ![c].B = None] /\ pair[c][s[1]] = pair[c].B
      BY <1>3, <2>2, Apart
    <3> QED BY <1>1, <2>2, <3>1, Apart DEF IInv, Types
  <2> QED BY <2>1, <2>2, Apart
<1>5. SocksOK(sock', enrolled) /\ SameCodes(sock', sock)
  <2>1. SocksOK(Close(off, pair[c][s[1]]), enrolled) /\ SameCodes(Close(off, pair[c][s[1]]), off)
    BY <1>2, <1>4, CloseOK
  <2> QED BY <1>2, <1>3, <2>1 DEF SameCodes
<1>6. PairOK'
  <2> SUFFICES ASSUME NEW d \in Codes, NEW u \in Socks, u \in {pair'[d].A, pair'[d].B}
               PROVE  sock'[u].code = d
    BY DEF PairOK
  <2>1. u \in {pair[d].A, pair[d].B}
    BY <1>4, Apart
  <2>2. sock[u].code = d
    BY <2>1 DEF IInv, PairOK
  <2> QED BY <1>5, <2>2 DEF SameCodes
<1>7. Types' /\ SuccessIsReal' /\ (b'.ws = None => b.ws = None /\ b'.opts = None)
  BY <1>3, <1>4 DEF IInv, Types, BHasSock, SuccessIsReal
<1> QED BY <1>3, <1>5, <1>6, <1>7, Frame

-----------------------------------------------------------------------------
(* A's steps.                                                              *)

\* A new submit takes a socket that nobody has.
LEMMA SubmitStep ==
  ASSUME IInv, NEW c \in Codes, ASubmit(c)
  PROVE  IInv'
<1> DEFINE n == used.submits + 1
           s == <<"A", n>>
           t == Task("auth", s, None, c)
<1>1. n \in 1 .. MaxSubmits /\ used'.submits = n /\ used' \in UsedType
  BY EnrollmentAssumption DEF ASubmit, IInv, Types, UsedType
<1>2. s \in ASocks /\ s[2] = n
  BY <1>1 DEF ASocks
<1>3. /\ t \in Tasks /\ t.at = "auth" /\ t.sock = s /\ t.opts = c
  BY <1>2, Apart DEF Task, Tasks, Keys
<1>4. todo' = todo \cup {t} /\ UNCHANGED <<b, sock, pair, enrolled>>
  BY DEF ASubmit, server
<1>5. a' \in AType /\ a'.done = None
  BY DEF ASubmit, IInv, Types, AType, AStats, ABusy
<1> HIDE DEF s, t
<1>6. Types' /\ PairOK' /\ SuccessIsReal' /\ SocksOK(sock, enrolled)' /\ BHasSock'
  BY <1>1, <1>3, <1>4, <1>5 DEF IInv, Types, PairOK, SuccessIsReal, BHasSock, BAwaits
<1>7. used.submits \in Nat /\ n = used.submits + 1 /\ sock[s].code = None
  BY <1>1, <1>2 DEF IInv, Unasked, Types, UsedType
<1> HIDE DEF n
<1>8. TasksOK'
  <2> SUFFICES ASSUME NEW u \in todo' PROVE TaskOK(u)'
    BY DEF TasksOK
  <2>1. CASE u = t
    BY <2>1, <1>1, <1>2, <1>3, <1>4, <1>7 DEF TaskOK, BAwaits
  <2>2. CASE u \in todo
    <3>1. TaskOK(u)
      BY <2>2 DEF IInv, TasksOK
    <3>2. u.at = "auth" => u.sock[2] <= used'.submits
      BY <3>1, <1>1, <1>7, Apart DEF TaskOK
    <3> QED BY <3>1, <3>2, <1>4 DEF TaskOK
  <2> QED BY <1>4, <2>1, <2>2
<1>9. \A u \in todo : u.at = "auth" => u.sock # s
  BY <1>2, <1>7, Apart DEF IInv, TasksOK, TaskOK
<1>10. OneAuth'
  BY <1>3, <1>4, <1>9 DEF IInv, OneAuth
<1>11. Unasked'
  BY <1>1, <1>4, <1>7, Apart DEF IInv, Unasked
<1> QED BY <1>6, <1>8, <1>10, <1>11 DEF IInv

\* The socket of a submit is opened.
LEMMA AuthenticatedStep ==
  ASSUME IInv, NEW t \in todo, t.at = "auth", AAuthenticated(t)
  PROVE  IInv'
<1>1. t \in Tasks /\ TaskOK(t) /\ SocksOK(sock, enrolled)
  BY DEF IInv, TasksOK, Types
<1> DEFINE s == t.sock
           c == t.opts
<1>2. s \in ASocks /\ s \in Socks /\ s \notin BSocks /\ c \in Codes /\ s[2] <= used.submits /\ sock[s].code = None
  BY <1>1, Apart DEF TaskOK
<1> DEFINE k == Open(sock, s, c)
           x == Beside(s)
<1>3. /\ sock' = [k EXCEPT ![s].late = x] /\ todo' = todo \ {t}
      /\ UNCHANGED <<b, pair, enrolled, used>>
      /\ a' = [a EXCEPT !.status = "connecting", !.ws = s]
  BY DEF AAuthenticated, server
<1> HIDE DEF s, c
<1>4. /\ SocksOK(sock', enrolled) /\ sock'[s].code = c
      /\ \A u \in Socks : u # s => sock'[u].code = sock[u].code
  <2>1. /\ SocksOK(k, enrolled) /\ k[s].code = c
        /\ \A u \in Socks : u # s => k[u].code = sock[u].code
    BY <1>1, <1>2, OpenOK
  <2>2. x \in BOOLEAN
    BY DEF Beside
  <2> HIDE DEF k, x
  <2>3. SocksOK([k EXCEPT ![s].late = x], enrolled) /\ SameCodes([k EXCEPT ![s].late = x], k)
    BY <1>2, <2>1, <2>2, NoteOK
  <2> QED BY <1>2, <1>3, <2>1, <2>3 DEF SameCodes
<1> HIDE DEF k, x
<1>5. a' \in AType /\ a'.done = a.done
  BY <1>2, <1>3 DEF IInv, Types, AType, AStats, ABusy
<1>6. Types' /\ SuccessIsReal'
  BY <1>3, <1>5 DEF IInv, Types, SuccessIsReal
<1>7. PairOK'
  BY <1>2, <1>3, <1>4, Apart DEF IInv, PairOK
<1>8. TasksOK'
  <2> SUFFICES ASSUME NEW u \in todo' PROVE TaskOK(u)'
    BY DEF TasksOK
  <2>1. u \in todo /\ u # t /\ TaskOK(u) /\ u.sock \in Socks
    BY <1>3 DEF IInv, TasksOK, Types, Tasks
  <2>2. u.at = "auth" => u.sock # s
    BY <2>1 DEF IInv, OneAuth, s
  <2>3. u.at = "confirm" => u.sock # s
    BY <1>2, <2>1 DEF TaskOK
  <2>4. u.sock # s => sock'[u.sock].code = sock[u.sock].code
    BY <1>4, <2>1
  <2> QED BY <1>3, <2>1, <2>2, <2>3, <2>4 DEF TaskOK
<1>9. OneAuth'
  BY <1>3 DEF IInv, OneAuth
<1>10. Unasked'
  BY <1>2, <1>3, <1>4, Apart DEF IInv, Unasked, Types, UsedType
<1>11. BHasSock'
  BY <1>2, <1>3, <1>4, Apart DEF IInv, BHasSock
<1> QED BY <1>3, <1>4, <1>6, <1>7, <1>8, <1>9, <1>10, <1>11 DEF IInv

\* The end of an await of A, but for the confirmation's.
LEMMA AAwaits ==
  ASSUME IInv, NEW t \in todo, t.at \in {"auth", "spake2", "fetch"},
         \/ AAuthFails(t) \/ ASpake2Done(t) \/ ATransfers(t) \/ ATransferFails(t)
  PROVE  IInv'
<1>1. /\ t.sock \in Socks /\ t.key \in Keys /\ Types /\ SocksOK(sock, enrolled)
      /\ t.sock \in ASocks /\ t.sock \notin BSocks
  BY Apart DEF IInv, Types, Tasks, TasksOK, TaskOK
<1>2. \A key \in Keys : \A kind \in {"spake2_a", "master_key", "error"} :
        Msg(kind, key) \in Msgs /\ Msg(kind, key).kind # "received"
  BY DEF Msg, Msgs, Kinds
<1>3. None \in Keys /\ used.keys + 1 \in Keys
  BY <1>1 DEF Keys, Types, UsedType
<1>4. SocksOK(sock', enrolled) /\ SameCodes(sock', sock)
  <2>1. CASE AAuthFails(t)
    BY <1>1, <2>1 DEF AAuthFails, SameCodes
  <2>2. CASE ASpake2Done(t)
    <3>1. sock' = Send(sock, t.sock, Msg("spake2_a", used.keys + 1))
      BY <2>2 DEF ASpake2Done
    <3> QED BY <1>1, <1>2, <1>3, <3>1, SendOK
  <2>3. CASE ATransfers(t)
    <3>1. sock' = Send(sock, t.sock, Msg("master_key", t.key))
      BY <2>3 DEF ATransfers
    <3> QED BY <1>1, <1>2, <1>3, <3>1, SendOK
  <2>4. CASE ATransferFails(t)
    <3> DEFINE k == Send(sock, t.sock, Msg("error", None))
    <3>1. sock' = Close(k, t.sock)
      BY <2>4 DEF ATransferFails
    <3>2. SocksOK(k, enrolled) /\ SameCodes(k, sock)
      BY <1>1, <1>2, <1>3, SendOK
    <3> HIDE DEF k
    <3>3. SocksOK(Close(k, t.sock), enrolled) /\ SameCodes(Close(k, t.sock), k)
      BY <1>1, <3>2, CloseOK
    <3> QED BY <3>1, <3>2, <3>3 DEF SameCodes
  <2> QED BY <2>1, <2>2, <2>3, <2>4
<1>5. UNCHANGED <<b, pair, enrolled>>
  BY DEF AAuthFails, ASpake2Done, ATransfers, ATransferFails, server
<1>6. /\ a' \in AType /\ a'.done = a.done
  <2>1. CASE AAuthFails(t) \/ ATransferFails(t)
    BY <1>1, <2>1 DEF AAuthFails, ATransferFails, Types, AType, AStats
  <2>2. CASE ASpake2Done(t)
    BY <1>1, <1>3, <2>2 DEF ASpake2Done, Types, AType, AStats, ABusy
  <2>3. CASE ATransfers(t)
    BY <1>1, <2>3 DEF ATransfers, Types
  <2> QED BY <2>1, <2>2, <2>3
<1>7. used' \in UsedType /\ used'.submits = used.submits
  <2>1. CASE ASpake2Done(t)
    BY <1>1, <2>1 DEF ASpake2Done, Types, UsedType
  <2>2. CASE Move \/ used' = used
    BY <1>1, <2>2, Moved
  <2> QED BY <2>1, <2>2 DEF AAuthFails, ATransfers, ATransferFails
<1>0. PICK f : f = Task("fetch", t.sock, used.keys + 1, None)
  OBVIOUS
<1>8. f \in Tasks /\ f.at = "fetch" /\ f.sock \in ASocks
  BY <1>0, <1>1, <1>3 DEF Task, Tasks
<1>9. todo' \subseteq todo \cup {f}
  BY <1>0 DEF AAuthFails, ASpake2Done, ATransfers, ATransferFails
<1>10. TaskOK(f)' /\ f.at \notin BAwaits
  BY <1>8 DEF TaskOK, BAwaits
<1>11. Types' /\ (b'.ws = None => b.ws = None /\ b'.opts = None)
  BY <1>5, <1>6, <1>7, <1>8, <1>9 DEF IInv, Types, BHasSock
<1> QED BY <1>4, <1>5, <1>6, <1>7, <1>8, <1>9, <1>10, <1>11, Aside

\* A message of A.
LEMMA AMessageStep ==
  ASSUME IInv, NEW s \in ASocks, AMessage(s)
  PROVE  IInv'
<1> DEFINE m == Head(sock[s].down)
           k == [sock EXCEPT ![s].down = Tail(@)]
           p == Task("spake2", s, None, None)
<1>0. PICK q : q = Task("confirm", s, m.key, a.key)
  OBVIOUS
<1>1. /\ s \in Socks /\ sock[s].down # <<>> /\ sock[s].down \in Seq(Msgs) /\ Types
      /\ sock[s].code \in Codes /\ sock[s].code # None /\ SocksOK(sock, enrolled)
  BY Coded, Apart DEF AMessage, IInv
<1>2. SocksOK(k, enrolled) /\ SameCodes(k, sock)
  BY <1>1, TakeOK
<1>3. SocksOK(Close(k, s), enrolled) /\ SameCodes(Close(k, s), k)
  BY <1>1, <1>2, CloseOK
<1>4. m \in Msgs /\ (m.kind = "received" => enrolled[sock[s].code] # {}) /\ m.kind \in AHears
  BY <1>1, Queue DEF SocksOK, SockOK
<1>5. UNCHANGED <<b, pair, enrolled, used>>
  BY DEF AMessage, server
<1>6. /\ p \in Tasks /\ p.at = "spake2" /\ p.sock = s
      /\ q \in Tasks /\ q.at = "confirm" /\ q.sock = s
  BY <1>0, <1>1, <1>4 DEF Task, Tasks, Keys, Types, AType, Msgs
<1>7. \/ m.kind = "error" /\ AHearsError(s)
      \/ /\ sock' = k
         /\ \/ todo' = todo \cup {p} /\ a' = a
            \/ m.kind = "received" /\ todo' = todo \cup {q} /\ a' = a
            \/ todo' = todo /\ a' = [a EXCEPT !.status = "error"]
  <2> HIDE DEF k, p
  <2>1. CASE m.kind = "error"
    BY ONLY <2>1, AMessage(s) DEF AMessage, m
  <2>2. CASE m.kind = "spake2_b"
    BY ONLY <2>2, AMessage(s) DEF AMessage, m, k, p
  <2>3. CASE m.kind = "received" /\ a.key # None
    BY ONLY <1>0, <2>3, AMessage(s) DEF AMessage, m, k
  <2>4. CASE m.kind = "received" /\ a.key = None
    BY ONLY <2>4, AMessage(s) DEF AMessage, m, k
  <2> QED BY <1>4, <2>1, <2>2, <2>3, <2>4 DEF AHears
<1>8. /\ sock' \in {k, Close(k, s)} /\ todo' \subseteq todo \cup {p, q}
      /\ q \in todo' => q \in todo \/ m.kind = "received"
      /\ a' = a \/ a' = [a EXCEPT !.status = "error"]
  BY <1>6, <1>7 DEF AHearsError
<1>9. a' \in AType /\ a'.done = a.done
  BY <1>1, <1>8 DEF Types, AType, AStats
<1> HIDE DEF k, p, m
<1>10. SocksOK(sock', enrolled) /\ SameCodes(sock', sock)
  BY <1>2, <1>3, <1>8 DEF SameCodes
<1>11. TaskOK(p)'
  BY <1>6 DEF TaskOK, BAwaits
<1>12. m.kind = "received" => TaskOK(q)'
  <2>1. sock'[s].code = sock[s].code
    BY <1>1, <1>10 DEF SameCodes
  <2> QED BY <1>1, <1>4, <1>5, <1>6, <2>1 DEF TaskOK, BAwaits
<1>13. Types' /\ (b'.ws = None => b.ws = None /\ b'.opts = None)
  BY <1>5, <1>6, <1>8, <1>9 DEF IInv, Types, BHasSock
<1>14. p.at \notin BAwaits /\ q.at \notin BAwaits
  BY <1>6 DEF BAwaits
<1> QED BY <1>5, <1>6, <1>8, <1>9, <1>10, <1>11, <1>12, <1>13, <1>14, Aside

\* A confirmation that opens is of a code that has saved something.
LEMMA ConfirmedStep ==
  ASSUME IInv, NEW t \in todo, t.at = "confirm", AConfirmed(t)
  PROVE  IInv'
<1>1. /\ TaskOK(t) /\ t.sock \in Socks /\ sock[t.sock].code \in Codes \cup {None}
      /\ SocksOK(sock, enrolled) /\ Types
  BY DEF IInv, TasksOK, Types, Tasks, SocksOK, SockType
<1>2. enrolled[sock[t.sock].code] # {} /\ sock[t.sock].code \in Codes
  BY <1>1 DEF TaskOK
<1> DEFINE x == sock[t.sock].late \/ Agreeing(t.sock)
           k == [sock EXCEPT ![t.sock].late = x]
<1>3. SocksOK(Close(k, t.sock), enrolled) /\ SameCodes(Close(k, t.sock), sock)
  <2>1. x \in BOOLEAN
    BY DEF Agreeing
  <2> HIDE DEF x
  <2>2. SocksOK(k, enrolled) /\ SameCodes(k, sock)
    BY <1>1, <2>1, NoteOK
  <2> HIDE DEF k
  <2>3. SocksOK(Close(k, t.sock), enrolled) /\ SameCodes(Close(k, t.sock), k)
    BY <1>1, <2>2, CloseOK
  <2> QED BY <2>2, <2>3 DEF SameCodes
<1>4. /\ sock' \in {sock, Close(k, t.sock)} /\ todo' = todo \ {t}
      /\ UNCHANGED <<b, pair, enrolled, used>>
      /\ \/ a' = [a EXCEPT !.done = sock[t.sock].code, !.status = "success"]
         \/ a' = [a EXCEPT !.status = "error"]
  BY DEF AConfirmed, server
<1> HIDE DEF k, x
<1>5. a' \in AType /\ a'.done \in {a.done, sock[t.sock].code}
  BY <1>1, <1>2, <1>4 DEF Types, AType, AStats
<1>6. SocksOK(sock', enrolled) /\ SameCodes(sock', sock)
  BY <1>1, <1>3, <1>4 DEF SameCodes
<1>7. SuccessIsReal'
  BY <1>2, <1>4, <1>5 DEF IInv, SuccessIsReal
<1>8. PairOK'
  BY <1>4, <1>6 DEF IInv, PairOK, SameCodes
<1>9. Types' /\ (b'.ws = None => b.ws = None /\ b'.opts = None)
  BY <1>4, <1>5 DEF IInv, Types, BHasSock
<1> QED BY <1>4, <1>6, <1>7, <1>8, <1>9, Frame

\* A's user cancels or leaves.
LEMMA AUserStep ==
  ASSUME IInv, ACancel \/ ALeave
  PROVE  IInv'
<1>1. Types /\ a.ws \in Socks \cup {None} /\ SocksOK(sock, enrolled)
  BY Apart DEF IInv, Types, AType
<1>2. SocksOK(Close(sock, a.ws), enrolled) /\ SameCodes(Close(sock, a.ws), sock)
  BY <1>1, CloseOK
<1>3. sock' = Close(sock, a.ws) /\ UNCHANGED <<b, todo, pair, enrolled>> /\ Move
  BY DEF ACancel, ALeave, server
<1>4. a' \in AType /\ a'.done \in {a.done, None}
  <2>1. CASE ACancel
    BY <1>1, <2>1 DEF ACancel, Types, AType, AStats, Keys
  <2>2. CASE ALeave
    BY <1>1, <2>2 DEF ALeave, Types, AType
  <2> QED BY <2>1, <2>2
<1>5. used' \in UsedType /\ used'.submits = used.submits
  BY <1>1, <1>3, Moved
<1>6. Types' /\ (b'.ws = None => b.ws = None /\ b'.opts = None)
  BY <1>3, <1>4, <1>5 DEF IInv, Types, BHasSock
<1> QED BY <1>2, <1>3, <1>4, <1>5, <1>6, Aside

-----------------------------------------------------------------------------
(* B's steps.                                                              *)

\* What B's page says of a failure.
LEMMA BSays ==
  ASSUME IInv, NEW k, SocksOK(k, enrolled), SameCodes(k, sock)
  PROVE  /\ SocksOK(Send(k, b.ws, Msg("error", None)), enrolled)
         /\ SameCodes(Send(k, b.ws, Msg("error", None)), sock)
<1>1. /\ Msg("error", None) \in Msgs /\ Msg("error", None).kind = "error"
      /\ b.ws \in Socks \cup {None}
  BY Apart DEF Msg, Msgs, Kinds, Keys, IInv, Types, BType
<1>2. /\ SocksOK(Send(k, b.ws, Msg("error", None)), enrolled)
      /\ SameCodes(Send(k, b.ws, Msg("error", None)), k)
  BY <1>1, SendOK DEF AHears
<1> QED BY <1>2 DEF SameCodes

\* A step of B that adds at most the await t, saves nothing and keeps its socket.
LEMMA BAside ==
  ASSUME IInv, UNCHANGED <<a, pair, enrolled>>, SocksOK(sock', enrolled), SameCodes(sock', sock),
         used' \in UsedType, used'.submits = used.submits, b' \in BType,
         b'.ws = b.ws, b.ws = None => b'.opts = None,
         NEW t, todo' \subseteq todo \cup {t},
         t \in todo' \ todo => /\ t \in Tasks /\ t.sock \in BSocks /\ t.at \in BAwaits
                               /\ t.at # "create" => b.ws # None
  PROVE  IInv'
<1>1. Types' /\ (b'.ws = None => b.ws = None /\ b'.opts = None)
  BY DEF IInv, Types
<1>2. t \in todo' \ todo => t.at # "auth" /\ TaskOK(t)'
  BY DEF TaskOK, BAwaits
<1> QED BY <1>1, <1>2, Aside

\* B's button.
LEMMA StartStep ==
  ASSUME IInv, BStart
  PROVE  IInv'
<1>1. Types /\ SocksOK(sock, enrolled)
  BY DEF IInv
<1>2. used' \in UsedType /\ used'.submits = used.submits /\ used.starts + 1 \in Codes
  <2>1. used \in UsedType /\ used.starts \in Nat /\ used.starts < MaxStarts /\ MaxStarts \in Nat
    BY <1>1, EnrollmentAssumption DEF BStart, Types, UsedType
  <2>2. used.starts + 1 \in 0 .. MaxStarts /\ used.starts + 1 \in Codes
    BY <2>1 DEF Codes
  <2>3. used' = [used EXCEPT !.starts = used.starts + 1]
    BY DEF BStart
  <2> QED BY <2>1, <2>2, <2>3 DEF UsedType
<1>3. PICK t : t = Task("create", <<"B", used.starts + 1>>, None, None)
  OBVIOUS
<1>4. t \in Tasks /\ t.sock \in BSocks /\ t.at = "create"
  BY <1>2, <1>3, Apart DEF Task, Tasks, Keys, BSocks, BAwaits
<1>5. b' \in BType /\ b'.ws = b.ws /\ b'.opts = b.opts
  BY <1>1 DEF BStart, Types, BType
<1>6. UNCHANGED <<a, sock, pair, enrolled>> /\ todo' = todo \cup {t} /\ (b.ws = None => b.opts = None)
  BY <1>3 DEF BStart, server, IInv, BHasSock
<1> QED BY <1>1, <1>2, <1>4, <1>5, <1>6, BAside DEF SameCodes, BAwaits

\* B has its code: it opens the socket of that code.
LEMMA CreatedStep ==
  ASSUME IInv, NEW t \in todo, t.at = "create", BCreated(t)
  PROVE  IInv'
<1>1. t \in Tasks /\ TaskOK(t) /\ Types /\ SocksOK(sock, enrolled)
  BY DEF IInv, TasksOK, Types
<1>2. PICK s : s = t.sock
  OBVIOUS
<1>3. s \in BSocks /\ s \in Socks /\ s[2] \in Codes /\ s \notin ASocks
  BY <1>1, <1>2, Apart DEF TaskOK, BAwaits
<1>4. PICK u : u = Task("init", s, None, None)
  OBVIOUS
<1>5. u \in Tasks /\ u.at = "init" /\ u.sock = s
  BY <1>3, <1>4 DEF Task, Tasks, Keys, BAwaits
<1>6. /\ sock' = Open(sock, s, s[2]) /\ todo' = (todo \ {t}) \cup {u}
      /\ UNCHANGED <<a, pair, enrolled, used>>
      /\ b' = [b EXCEPT !.ws = s, !.status = "waiting", !.timer = TRUE]
  BY <1>2, <1>4 DEF BCreated
<1>7. /\ SocksOK(sock', enrolled) /\ sock'[s].code = s[2]
      /\ \A v \in Socks : v # s => sock'[v].code = sock[v].code
  BY <1>1, <1>3, <1>6, OpenOK
<1>8. sock[s].code \in {None, s[2]}
  BY <1>1, <1>3 DEF SocksOK, SockOK
<1>9. b' \in BType /\ b'.ws = s
  BY <1>1, <1>3, <1>6 DEF Types, BType, BStats
<1>10. Types' /\ SuccessIsReal' /\ BHasSock'
  BY <1>3, <1>5, <1>6, <1>9, Apart DEF IInv, Types, SuccessIsReal, BHasSock
<1>11. PairOK'
  BY <1>3, <1>6, <1>7, <1>8, Apart DEF IInv, PairOK
<1>12. TasksOK'
  <2> SUFFICES ASSUME NEW v \in todo' PROVE TaskOK(v)'
    BY DEF TasksOK
  <2>1. CASE v = u
    BY <2>1, <1>3, <1>5 DEF TaskOK, BAwaits
  <2>2. CASE v \in todo
    <3>1. TaskOK(v) /\ v.sock \in Socks
      BY <2>2 DEF IInv, TasksOK, Types, Tasks
    <3>2. v.sock # s => sock'[v.sock].code = sock[v.sock].code
      BY <1>7, <3>1
    <3>3. v.at \in {"auth", "confirm"} => v.sock # s
      BY <1>3, <3>1 DEF TaskOK
    <3> QED BY <1>6, <3>1, <3>2, <3>3 DEF TaskOK
  <2> QED BY <1>6, <2>1, <2>2
<1>13. OneAuth' /\ Unasked'
  BY <1>3, <1>5, <1>6, <1>7, Apart DEF IInv, OneAuth, Unasked
<1> QED BY <1>6, <1>7, <1>10, <1>11, <1>12, <1>13 DEF IInv

\* The other awaits of B that save nothing.
LEMMA BAwaitStep ==
  ASSUME IInv, NEW t \in todo, t.at \in BAwaits,
         \/ BCreateFails(t) \/ BInit(t) \/ BFinished(t) \/ BDecrypted(t) \/ BBegun(t)
         \/ BBeginFails(t) \/ BFinishFails(t),
         t.at \in BAwaits \ {"create"} \/ BCreateFails(t)
  PROVE  IInv'
<1>1. /\ t \in Tasks /\ t.sock \in BSocks /\ t.sock \in Socks /\ t.key \in Keys /\ t.sock[2] \in Keys
      /\ Types /\ SocksOK(sock, enrolled) /\ SameCodes(sock, sock)
  BY Apart DEF IInv, TasksOK, TaskOK, Types, Tasks, SameCodes, Keys
<1>2. t.at # "create" => b.ws # None
  BY <1>1 DEF IInv, BHasSock
<1>3. SocksOK(sock', enrolled) /\ SameCodes(sock', sock)
  <2>1. CASE sock' = sock
    BY <1>1, <2>1
  <2>2. CASE \E w \in Handlers : sock' = [sock EXCEPT ![t.sock].on = w]
    <3>1. PICK w \in Handlers : sock' = [sock EXCEPT ![t.sock].on = w]
      BY <2>2
    <3>2. /\ SocksOK([sock EXCEPT ![t.sock].on = w], enrolled)
          /\ SameCodes([sock EXCEPT ![t.sock].on = w], sock)
      BY <1>1, HandlerOK
    <3> QED BY <3>1, <3>2
  <2>3. CASE BFails(t, sock)
    <3>1. sock' = Send(sock, b.ws, Msg("error", None))
      BY <2>3 DEF BFails
    <3> QED BY <1>1, <3>1, BSays
  <2> QED BY <2>1, <2>2, <2>3
          DEF BCreateFails, BInit, BFinished, BDecrypted, BBegun, BBeginFails, BFinishFails, Handlers
<1>4. UNCHANGED <<a, pair, enrolled>>
  BY DEF BCreateFails, BInit, BFinished, BDecrypted, BBegun, BBeginFails, BFinishFails, server
<1>5. used' \in UsedType /\ used'.submits = used.submits
  <2>1. Move \/ used' = used
    BY DEF BCreateFails, BInit, BFinished, BDecrypted, BBegun, BBeginFails, BFinishFails
  <2> QED BY <1>1, <2>1, Moved
<1>6. b' \in BType /\ b'.ws = b.ws /\ (b.ws = None => b'.opts = None)
  <2>0. b \in BType /\ (b.ws = None => b.opts = None)
    BY <1>1 DEF Types, IInv, BHasSock
  <2>1. CASE b' = b
    BY <2>0, <2>1
  <2>2. CASE b' = [b EXCEPT !.status = "error"]
    BY <2>0, <2>2 DEF BType, BStats
  <2>3. CASE b' = [b EXCEPT !.key = t.key, !.status = "waiting"]
    BY <1>1, <2>0, <2>3 DEF BType, BStats
  <2>4. CASE b' = [b EXCEPT !.master = TRUE]
    BY <2>0, <2>4 DEF BType
  <2>5. CASE b' = [b EXCEPT !.opts = t.sock[2], !.status = "ready"] /\ t.at # "create"
    BY <1>1, <1>2, <2>0, <2>5 DEF BType, BStats
  <2>6. BBegun(t) => b' = [b EXCEPT !.opts = t.sock[2], !.status = "ready"]
    BY DEF BBegun
  <2>7. BCreateFails(t) => b' = [b EXCEPT !.status = "error"]
    BY DEF BCreateFails
  <2> QED BY <2>1, <2>2, <2>3, <2>4, <2>5, <2>6, <2>7
          DEF BInit, BFinished, BDecrypted, BBeginFails, BFinishFails, BFails
<1>7. PICK u : u = Task("begin", t.sock, None, None)
  OBVIOUS
<1>8. u \in Tasks /\ u.sock \in BSocks /\ u.at = "begin"
  BY <1>1, <1>7 DEF Task, Tasks, Keys, BAwaits
<1>9. todo' \subseteq todo \cup {u} /\ (u \in todo' \ todo => t.at # "create")
  BY <1>7 DEF BCreateFails, BInit, BFinished, BDecrypted, BBegun, BBeginFails, BFinishFails, BFails
<1> QED BY <1>2, <1>3, <1>4, <1>5, <1>6, <1>8, <1>9, BAside DEF BAwaits

\* A message of B.
LEMMA BMessageStep ==
  ASSUME IInv, NEW s \in BSocks, BMessage(s)
  PROVE  IInv'
<1> DEFINE m == Head(sock[s].down)
           k == [sock EXCEPT ![s].down = Tail(@)]
<1>1. /\ s \in Socks /\ sock[s].down # <<>> /\ sock[s].down \in Seq(Msgs) /\ Types
      /\ sock[s].code # None /\ SocksOK(sock, enrolled)
  BY Coded, Apart DEF BMessage, IInv
<1>2. b.ws # None /\ b \in BType
  BY <1>1 DEF IInv, BHasSock, Types
<1>3. SocksOK(k, enrolled) /\ SameCodes(k, sock)
  BY <1>1, TakeOK
<1>4. m \in Msgs
  BY <1>1, Queue
<1>5. PICK p : p = Task("finish", s, m.key, None)
  OBVIOUS
<1>6. PICK q : q = Task("decrypt", s, m.key, b.key)
  OBVIOUS
<1>7. /\ p \in Tasks /\ p.sock \in BSocks /\ p.at = "finish"
      /\ q \in Tasks /\ q.sock \in BSocks /\ q.at = "decrypt"
  BY <1>1, <1>2, <1>4, <1>5, <1>6 DEF Task, Tasks, BType, Msgs, Keys, BAwaits
<1>8. UNCHANGED <<a, pair, enrolled, used>>
  BY DEF BMessage, server
<1>9. \/ b' = [b EXCEPT !.status = "error"] /\ sock' = k /\ todo' = todo
      \/ /\ b' = [b EXCEPT !.status = "handshaking"] /\ todo' = todo
         /\ sock' = Send(k, s, Msg("spake2_b", None))
      \/ todo' = todo \cup {p} /\ sock' = k /\ b' = b
      \/ todo' = todo \cup {q} /\ sock' = k /\ b' = b
      \/ BFails(None, k)
      \/ b' = b /\ sock' = k /\ todo' = todo
  <2> DEFINE C1 == sock[s].on # "none" /\ m.kind = "error"
             C2 == sock[s].on = "first" /\ m.kind = "peer_connected"
             C3 == sock[s].on = "first" /\ m.kind = "spake2_a"
             C4 == sock[s].on = "second" /\ m.kind = "master_key" /\ b.key # None
             C5 == sock[s].on = "second" /\ m.kind = "master_key" /\ b.key = None
  <2> HIDE DEF k
  <2>1. CASE C1
    BY ONLY <2>1, BMessage(s) DEF BMessage, m, k
  <2>2. CASE C2
    BY ONLY <2>2, BMessage(s) DEF BMessage, m, k
  <2>3. CASE C3
    BY ONLY <1>5, <2>3, BMessage(s) DEF BMessage, m, k
  <2>4. CASE C4
    BY ONLY <1>6, <2>4, BMessage(s) DEF BMessage, m, k
  <2>5. CASE C5
    BY ONLY <2>5, BMessage(s) DEF BMessage, m, k
  <2>6. CASE ~C1 /\ ~C2 /\ ~C3 /\ ~C4 /\ ~C5
    BY ONLY <2>6, BMessage(s) DEF BMessage, m, k
  <2> QED BY ONLY <2>1, <2>2, <2>3, <2>4, <2>5, <2>6
<1> HIDE DEF k, m
<1>10. SocksOK(sock', enrolled) /\ SameCodes(sock', sock)
  <2>1. CASE sock' = Send(k, s, Msg("spake2_b", None))
    <3>1. Msg("spake2_b", None) \in Msgs /\ Msg("spake2_b", None).kind = "spake2_b"
      BY DEF Msg, Msgs, Kinds, Keys
    <3>2. SocksOK(sock', enrolled) /\ SameCodes(sock', k)
      BY <1>1, <1>3, <2>1, <3>1, SendOK DEF AHears
    <3> QED BY <1>3, <3>2 DEF SameCodes
  <2>2. CASE sock' = Send(k, b.ws, Msg("error", None))
    BY <1>3, <2>2, BSays
  <2>3. CASE sock' = k
    BY <1>3, <2>3
  <2> QED BY <1>9, <2>1, <2>2, <2>3 DEF BFails
<1>11. b' \in BType /\ b'.ws = b.ws
  BY <1>2, <1>9 DEF BFails, BType, BStats
<1>12. todo' \subseteq todo \cup {p} \/ todo' \subseteq todo \cup {q}
  BY <1>9 DEF BFails
<1>13. used' \in UsedType /\ used'.submits = used.submits
  BY <1>1, <1>8, Moved
<1> QED BY <1>2, <1>7, <1>8, <1>10, <1>11, <1>12, <1>13, BAside DEF BAwaits

\* The "Create Passkey" tap: an await with B's socket, which it has by then.
LEMMA TapStep ==
  ASSUME IInv, BTap
  PROVE  IInv'
<1>1. Types /\ SocksOK(sock, enrolled) /\ SameCodes(sock, sock) /\ (b.ws = None => b.opts = None)
  BY DEF IInv, BHasSock, SameCodes
<1>2. PICK t : t = Task("existing", b.ws, b.key, b.opts)
  OBVIOUS
<1>3. UNCHANGED <<a, sock, pair, enrolled, used>> /\ used' \in UsedType
  BY <1>1 DEF BTap, server, Types
<1>4. b' \in BType /\ b'.ws = b.ws /\ b'.opts = b.opts
  BY <1>1 DEF BTap, Types, BType, BStats
<1>5. todo' = todo \/ (todo' = todo \cup {t} /\ b.opts # None)
  BY <1>2 DEF BTap, StateKept
<1>6. b.opts # None => t \in Tasks /\ t.sock \in BSocks /\ t.at = "existing" /\ b.ws # None
  BY <1>1, <1>2, Apart DEF Task, Tasks, Types, BType, BAwaits
<1> QED BY <1>1, <1>3, <1>4, <1>5, <1>6, BAside DEF BAwaits

\* What saving adds.
LEMMA SavedMore ==
  ASSUME Types, NEW c \in Codes, NEW x \in {"blob", "passkey"},
         enrolled' = [enrolled EXCEPT ![c] = @ \cup {x}]
  PROVE  /\ enrolled' \in [Codes -> SUBSET {"blob", "passkey"}] /\ enrolled'[c] # {}
         /\ \A d \in Codes : enrolled[d] # {} => enrolled'[d] # {}
  BY DEF Types

\* An await of B that may save the blob or the credential of its code, and that says
\* "received" only when something is saved.
LEMMA SaveStep ==
  ASSUME IInv, NEW t \in todo, t.at \in {"existing", "mint"},
         BExisting(t) \/ BNoExisting(t) \/ BMinted(t) \/ BMintFails(t)
  PROVE  IInv'
<1> DEFINE c == t.sock[2]
<1>1. /\ t \in Tasks /\ t.sock \in BSocks /\ t.sock \in Socks /\ c \in Codes /\ t.key \in Keys
      /\ Types /\ SocksOK(sock, enrolled) /\ SameCodes(sock, sock)
  BY Apart DEF IInv, TasksOK, TaskOK, Types, Tasks, SameCodes, BAwaits
<1>2. b.ws # None /\ b \in BType
  BY <1>1 DEF IInv, BHasSock, BAwaits, Types
<1>3. /\ enrolled' \in [Codes -> SUBSET {"blob", "passkey"}]
      /\ \A d \in Codes : enrolled[d] # {} => enrolled'[d] # {}
      /\ BExisting(t) \/ BMinted(t) => enrolled'[c] # {}
  <2>1. CASE \E x \in {"blob", "passkey"} : enrolled' = [enrolled EXCEPT ![c] = @ \cup {x}]
    BY <1>1, <2>1, SavedMore
  <2>2. CASE enrolled' = enrolled /\ ~BExisting(t) /\ ~BMinted(t)
    BY <1>1, <2>2 DEF Types
  <2> QED BY <2>1, <2>2
          DEF BExisting, BNoExisting, BMinted, BMintFails, BlobSaved, Complete
<1>4. SocksOK(sock, enrolled')
  BY <1>1, <1>3, Saved
<1> HIDE DEF c
<1>5. SocksOK(sock', enrolled') /\ SameCodes(sock', sock)
  <2>1. CASE BExisting(t) \/ BMinted(t)
    <3>1. sock' = Send(sock, t.sock, Msg("received", t.key))
      BY <2>1 DEF BExisting, BMinted, BConfirms
    <3>2. Msg("received", t.key) \in Msgs /\ Msg("received", t.key).kind = "received"
      BY <1>1 DEF Msg, Msgs, Kinds
    <3>3. enrolled'[t.sock[2]] # {}
      BY <1>3, <2>1 DEF c
    <3> QED BY <1>1, <1>4, <3>1, <3>2, <3>3, SendOK DEF AHears
  <2>2. CASE BNoExisting(t)
    BY <1>1, <1>4, <2>2 DEF BNoExisting
  <2>3. CASE BMintFails(t)
    <3>1. sock' = Send(sock, b.ws, Msg("error", None))
      BY <2>3 DEF BMintFails, BFails
    <3>2. SocksOK(sock', enrolled) /\ SameCodes(sock', sock)
      BY <1>1, <3>1, BSays
    <3> QED BY <1>3, <3>2, Saved
  <2> QED BY <2>1, <2>2, <2>3
<1>6. UNCHANGED <<a, pair>> /\ (Move \/ used' = used)
  BY DEF BExisting, BNoExisting, BMinted, BMintFails
<1>7. used' \in UsedType /\ used'.submits = used.submits
  BY <1>1, <1>6, Moved
<1>8. b' \in BType /\ b'.ws = b.ws
  <2>1. b' = b \/ b' = [b EXCEPT !.status = "error"] \/ b' = [b EXCEPT !.status = "success"]
    BY DEF BExisting, BNoExisting, BMinted, BMintFails, BFails, BConfirms
  <2> QED BY <1>2, <2>1 DEF BType, BStats
<1>9. PICK u : u = [t EXCEPT !.at = "mint"]
  OBVIOUS
<1>10. u \in Tasks /\ u.at = "mint" /\ u.sock \in BSocks
  BY <1>1, <1>9 DEF Tasks, BAwaits
<1>11. todo' \subseteq todo \cup {u}
  BY <1>9 DEF BExisting, BNoExisting, BMinted, BMintFails, BFails, BConfirms
<1>12. TaskOK(u)' /\ u.at # "auth"
  BY <1>10 DEF TaskOK, BAwaits
<1>13. PairOK'
  BY <1>5, <1>6 DEF IInv, PairOK, SameCodes
<1>14. SuccessIsReal'
  BY <1>1, <1>3, <1>6 DEF IInv, SuccessIsReal, Types, AType
<1>15. Types'
  BY <1>3, <1>6, <1>7, <1>8, <1>10, <1>11 DEF IInv, Types
<1> QED BY <1>2, <1>3, <1>5, <1>7, <1>8, <1>11, <1>12, <1>13, <1>14, <1>15, Frame

\* The countdown, and B's user cancels or leaves.
LEMMA BUserStep ==
  ASSUME IInv, BTick \/ BCancel \/ BLeave
  PROVE  IInv'
<1>1. /\ Types /\ b \in BType /\ b.ws \in Socks \cup {None} /\ SocksOK(sock, enrolled)
      /\ b.ws = None => b.opts = None
  BY Apart DEF IInv, Types, BType, BHasSock
<1>2. SocksOK(sock', enrolled) /\ SameCodes(sock', sock)
  <2>1. CASE sock' = Close(sock, b.ws)
    BY <1>1, <2>1, CloseOK
  <2>2. CASE sock' = sock
    BY <1>1, <2>2 DEF SameCodes
  <2>3. CASE BCancel /\ b.ws # None
    <3> DEFINE x == sock[b.ws].dropped \/ Untapped(b.ws)
               k == [sock EXCEPT ![b.ws].dropped = x]
    <3>1. sock' = Close(k, b.ws)
      BY <2>3 DEF BCancel
    <3>2. x \in BOOLEAN
      BY DEF Untapped
    <3> HIDE DEF x
    <3>3. SocksOK(k, enrolled) /\ SameCodes(k, sock)
      BY <1>1, <2>3, <3>2, NoteOK
    <3> HIDE DEF k
    <3>4. SocksOK(Close(k, b.ws), enrolled) /\ SameCodes(Close(k, b.ws), k)
      BY <1>1, <3>3, CloseOK
    <3> QED BY <3>1, <3>3, <3>4 DEF SameCodes
  <2> QED BY <2>1, <2>2, <2>3 DEF BTick, BCancel, BLeave
<1>3. UNCHANGED <<a, todo, pair, enrolled>> /\ (Move \/ used' = used)
  BY DEF BTick, BCancel, BLeave, server
<1>4. b' \in BType /\ b'.ws = b.ws /\ (b.ws = None => b'.opts = None)
  <2>1. CASE BTick
    BY <1>1, <2>1 DEF BTick, BType, BStats
  <2>2. CASE BCancel
    <3>1. BIdle \in BType /\ BIdle.opts = None
      BY DEF BIdle, BType, BStats, Keys
    <3> QED BY <1>1, <2>2, <3>1 DEF BCancel, BType
  <2>3. CASE BLeave
    BY <1>1, <2>3 DEF BLeave, BType
  <2> QED BY <2>1, <2>2, <2>3
<1>5. used' \in UsedType /\ used'.submits = used.submits
  BY <1>1, <1>3, Moved
<1> QED BY <1>2, <1>3, <1>4, <1>5, BAside

-----------------------------------------------------------------------------
(* Events of the sockets, and the whole.                                   *)

\* A socket opens, closes or is lost.
LEMMA EventStep ==
  ASSUME IInv, NEW s \in Socks, OpenEvent(s) \/ CloseEvent(s) \/ Lost(s)
  PROVE  IInv'
<1>1. Types /\ sock[s].code # None /\ SocksOK(sock, enrolled) /\ (b.ws = None => b.opts = None)
  BY Coded, Apart DEF IInv, OpenEvent, CloseEvent, Lost, BHasSock
<1>2. SocksOK(sock', enrolled) /\ SameCodes(sock', sock)
  <2>1. CASE OpenEvent(s)
    <3>1. sock' = [sock EXCEPT ![s].web = "open"]
      BY <2>1 DEF OpenEvent
    <3> QED BY <1>1, <3>1, MarkOK DEF Webs, Srvs
  <2>2. CASE CloseEvent(s)
    <3> DEFINE k == [sock EXCEPT ![s].web = "closed"]
               x == sock[s].late \/ Agreeing(s)
    <3>1. sock' = [k EXCEPT ![s].late = x]
      BY <2>2 DEF CloseEvent
    <3>2. x \in BOOLEAN
      BY DEF Agreeing
    <3>3. SocksOK(k, enrolled) /\ SameCodes(k, sock)
      BY <1>1, MarkOK DEF Webs, Srvs
    <3> HIDE DEF k, x
    <3>4. SocksOK([k EXCEPT ![s].late = x], enrolled) /\ SameCodes([k EXCEPT ![s].late = x], k)
      BY <3>2, <3>3, NoteOK
    <3> QED BY <3>1, <3>3, <3>4 DEF SameCodes
  <2>3. CASE Lost(s)
    <3> DEFINE k == [sock EXCEPT ![s].up = <<>>]
    <3>1. sock' = Close(k, s)
      BY <2>3 DEF Lost
    <3>2. SocksOK(k, enrolled) /\ SameCodes(k, sock)
      BY <1>1, TakeOK
    <3> HIDE DEF k
    <3>3. SocksOK(Close(k, s), enrolled) /\ SameCodes(Close(k, s), k)
      BY <3>2, CloseOK
    <3> QED BY <3>1, <3>2, <3>3 DEF SameCodes
  <2> QED BY <2>1, <2>2, <2>3
<1>3. UNCHANGED <<todo, pair, enrolled>> /\ (Move \/ used' = used)
  BY DEF OpenEvent, CloseEvent, Lost, server
<1>4. used' \in UsedType /\ used'.submits = used.submits
  BY <1>1, <1>3, Moved
<1>5. a' \in AType /\ a'.done = a.done
  BY <1>1 DEF OpenEvent, CloseEvent, Lost, Types, AType, AStats, ABusy
<1>6. b' \in BType /\ b'.ws = b.ws /\ b'.opts = b.opts
  <2>1. b' = b \/ b' = [b EXCEPT !.status = "waiting"] \/ b' = [b EXCEPT !.status = "error"]
    BY DEF OpenEvent, CloseEvent, Lost
  <2> QED BY <1>1, <2>1 DEF Types, BType, BStats
<1>7. Types' /\ (b'.ws = None => b.ws = None /\ b'.opts = None)
  BY <1>1, <1>3, <1>4, <1>5, <1>6 DEF Types
<1> QED BY <1>2, <1>3, <1>4, <1>5, <1>7, Aside

\* The end of any await.
LEMMA RunStep ==
  ASSUME IInv, NEW t \in todo, Run(t)
  PROVE  IInv'
<1>1. t.at \in {"auth", "spake2", "fetch", "confirm"} \cup BAwaits
  BY DEF IInv, Types, Tasks
<1>2. CASE t.at = "auth"
  <2>1. AAuthenticated(t) \/ AAuthFails(t)
    BY ONLY Run(t), <1>2 DEF Run
  <2> QED BY <1>2, <2>1, AuthenticatedStep, AAwaits
<1>3. CASE t.at = "spake2"
  <2>1. ASpake2Done(t) \/ AAuthFails(t)
    BY ONLY Run(t), <1>3 DEF Run, ASpake2Fails, AAuthFails
  <2> QED BY <1>3, <2>1, AAwaits
<1>4. CASE t.at = "fetch"
  <2>1. ATransfers(t) \/ ATransferFails(t)
    BY ONLY Run(t), <1>4 DEF Run
  <2> QED BY <1>4, <2>1, AAwaits
<1>5. CASE t.at = "confirm"
  <2>1. AConfirmed(t)
    BY ONLY Run(t), <1>5 DEF Run
  <2> QED BY <1>5, <2>1, ConfirmedStep
<1>6. CASE t.at = "create"
  <2>1. BCreated(t) \/ BCreateFails(t)
    BY ONLY Run(t), <1>6 DEF Run
  <2> QED BY <1>6, <2>1, CreatedStep, BAwaitStep DEF BAwaits
<1>7. CASE t.at = "init"
  <2>1. BInit(t) \/ BCreateFails(t)
    BY ONLY Run(t), <1>7 DEF Run, BInitFails, BCreateFails
  <2> QED BY <1>7, <2>1, BAwaitStep DEF BAwaits
<1>8. CASE t.at = "finish"
  <2>1. BFinished(t) \/ BFinishFails(t)
    BY ONLY Run(t), <1>8 DEF Run
  <2> QED BY <1>8, <2>1, BAwaitStep DEF BAwaits
<1>9. CASE t.at = "decrypt"
  <2>1. BDecrypted(t)
    BY ONLY Run(t), <1>9 DEF Run
  <2> QED BY <1>9, <2>1, BAwaitStep DEF BAwaits
<1>10. CASE t.at = "begin"
  <2>1. BBegun(t) \/ BBeginFails(t)
    BY ONLY Run(t), <1>10 DEF Run
  <2> QED BY <1>10, <2>1, BAwaitStep DEF BAwaits
<1>11. CASE t.at = "existing"
  <2>1. BExisting(t) \/ BNoExisting(t)
    BY ONLY Run(t), <1>11 DEF Run
  <2> QED BY <1>11, <2>1, SaveStep
<1>12. CASE t.at = "mint"
  <2>1. BMinted(t) \/ BMintFails(t)
    BY ONLY Run(t), <1>12 DEF Run
  <2> QED BY <1>12, <2>1, SaveStep
<1> QED BY <1>1, <1>2, <1>3, <1>4, <1>5, <1>6, <1>7, <1>8, <1>9, <1>10, <1>11, <1>12 DEF BAwaits

\* At first there is nothing.
LEMMA InitInv == Init => IInv
<1> SUFFICES ASSUME Init PROVE IInv
  OBVIOUS
<1>1. Types
  BY EnrollmentAssumption
     DEF Init, Types, AIdle, BIdle, AType, BType, UsedType, AStats, BStats, Keys
<1>2. Unused \in SockType
  BY Queue DEF Unused, SockType, Webs, Srvs, Handlers
<1>3. \A s \in Socks : sock[s] = Unused
  BY DEF Init
<1>4. SocksOK(sock, enrolled)
  <2>1. sock \in [Socks -> SockType]
    BY <1>2 DEF Init
  <2>2. /\ Unused.code = None /\ Unused.web = "none" /\ Unused.srv = "none"
        /\ Unused.up = <<>> /\ Unused.down = <<>>
    BY DEF Unused
  <2> QED BY <1>3, <2>1, <2>2, Queue DEF SocksOK, SockOK
<1>5. \A s \in Socks : sock[s].code = None
  BY <1>3 DEF Unused
<1>6. PairOK
  BY Apart DEF Init, PairOK
<1>7. TasksOK /\ OneAuth /\ Unasked /\ BHasSock /\ SuccessIsReal
  BY <1>5, Apart DEF Init, TasksOK, OneAuth, Unasked, BHasSock, SuccessIsReal, AIdle, BIdle
<1> QED BY <1>1, <1>4, <1>6, <1>7 DEF IInv

(* Every enrollment keeps in order: sockets of one code only are paired, a  *)
(* "received" travels only for a code that has put something in the         *)
(* database, and A opens each socket once.                                 *)
THEOREM EnrollmentInOrder == Spec => []IInv
<1>1. IInv /\ [Next]_vars => IInv'
  <2> SUFFICES ASSUME IInv, [Next]_vars PROVE IInv'
    OBVIOUS
  <2>1. ASSUME NEW s \in Socks, Relay(s) \/ Event(s) \/ Lost(s) PROVE IInv'
    BY <2>1, CheckStep, JoinStep, RelayStep, RemoveStep, EventStep, AMessageStep, BMessageStep
       DEF Relay, Event
  <2>2. ASSUME NEW c \in Codes, Expire(c) \/ ASubmit(c) PROVE IInv'
    <3>1. CASE Expire(c)
      BY <3>1 DEF Expire, IInv, Types, PairOK, TasksOK, TaskOK, OneAuth, Unasked, BHasSock,
                  SuccessIsReal
    <3> QED BY <2>2, <3>1, SubmitStep
  <2>3. CASE UNCHANGED vars
    BY <2>3 DEF vars, IInv, Types, PairOK, TasksOK, TaskOK, OneAuth, Unasked, BHasSock,
                SuccessIsReal
  <2>4. ASSUME BTick \/ BCancel \/ BLeave \/ ACancel \/ ALeave \/ BStart \/ BTap PROVE IInv'
    BY <2>4, BUserStep, AUserStep, StartStep, TapStep
  <2> QED BY <2>1, <2>2, <2>3, <2>4, RunStep DEF Next, System
<1> QED BY <1>1, InitInv, PTL DEF Spec

(* "Passkey added successfully!" is true however many codes were made, with *)
(* whatever was cancelled, lost or restarted on either side.               *)
THEOREM SuccessHolds == Spec => []SuccessIsReal
  BY EnrollmentInOrder, PTL DEF IInv

=============================================================================
