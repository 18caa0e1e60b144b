----------------------------- MODULE Enrollment -----------------------------
(***************************************************************************)
(* Passkey enrollment: machine B shows a code (RegisterPasskeyPage.tsx),    *)
(* machine A enters it (AddPasskeyPage.tsx), the server relays between them *)
(* (internal/auth/enrollment_ws.go), A hands over the master key under a    *)
(* SPAKE2 key and B registers a passkey or adds a blob (enrollment.go).    *)
(*                                                                         *)
(* A page's handler runs to its next await; what follows the await is a    *)
(* task of its own, which runs whatever happened meanwhile.  A code is the  *)
(* number of the start that made it, a session key the number of A's       *)
(* ephemeral key pair: the keys agree iff B answered that pair.            *)
(***************************************************************************)
EXTENDS Integers, Sequences

CONSTANTS
  MaxStarts,   \* bound on B's starts, hence on the codes
  MaxSubmits,  \* bound on A's submits
  MaxMoves,    \* bound on cancels, departures, losses and failures
  None         \* no socket, no key, no code

ASSUME EnrollmentAssumption ==
  /\ MaxStarts \in Nat /\ MaxSubmits \in Nat /\ MaxMoves \in Nat
  /\ None \notin Nat /\ None \notin {"A", "B"} \X Nat

Codes == 1 .. MaxStarts
ASocks == {"A"} \X (1 .. MaxSubmits)
BSocks == {"B"} \X Codes
Socks  == ASocks \cup BSocks

VARIABLES
  a,         \* machine A: status, wsRef, sessionKeyRef, completedRef, mounted
  b,         \* machine B: status, wsRef, refs, countdown, mounted
  sock,      \* each socket: its code, its ends, what travels each way, B's onmessage;
             \* and as history whether the other device's last word came over it,
             \* another attempt or A's key agreement outlives it, B cancelled it
             \* before the tap
  todo,      \* the awaits of the pages
  row,       \* the flags of each enrollment row and its challenge
  pair,      \* the hub's pair of each code
  enrolled,  \* what each code has put in the database
  used       \* starts, submits, key pairs and moves so far

server == <<row, pair, enrolled>>
vars   == <<a, b, sock, todo, row, pair, enrolled, used>>

AIdle == [status |-> "idle", ws |-> None, key |-> None, done |-> None, here |-> TRUE]
BIdle == [status |-> "idle", ws |-> None, key |-> None, master |-> FALSE, opts |-> None,
          cancelling |-> FALSE, timer |-> FALSE, here |-> TRUE]
Unused == [code |-> None, web |-> "none", srv |-> "none", up |-> <<>>, down |-> <<>>, on |-> "none",
           told |-> FALSE, late |-> FALSE, dropped |-> FALSE]

Init ==
  /\ a = AIdle /\ b = BIdle /\ todo = {}
  /\ sock = [s \in Socks |-> Unused]
  /\ row = [c \in Codes |-> {}] /\ enrolled = [c \in Codes |-> {}]
  /\ pair = [c \in Codes |-> [A |-> None, B |-> None]]
  /\ used = [starts |-> 0, submits |-> 0, keys |-> 0, moves |-> 0]

Move == used.moves < MaxMoves /\ used' = [used EXCEPT !.moves = @ + 1]

Msg(kind, key) == [kind |-> kind, key |-> key]
Task(at, s, key, opts) == [at |-> at, sock |-> s, key |-> key, opts |-> opts]

\* ws.send: nothing leaves a socket that is not open.
Send(k, s, m) ==
  IF s # None /\ k[s].web = "open" THEN [k EXCEPT ![s].up = Append(@, m)] ELSE k

\* ws.close: no message event follows it.
Close(k, s) ==
  IF s = None THEN k
  ELSE [k EXCEPT ![s].web = CASE @ = "open" -> "closing" [] @ = "connecting" -> "aborted" [] OTHER -> @,
                 ![s].down = <<>>]

\* The server's send to a client, and its writePump.
Deliver(k, s, m) ==
  IF k[s].web \in {"connecting", "open"} THEN [k EXCEPT ![s].down = Append(@, m), ![s].told = @ \/ m.kind \in {"error", "received"}]
  ELSE k

Open(k, s, c) == [k EXCEPT ![s] = [Unused EXCEPT !.code = c, !.web = "connecting", !.srv = "asked"]]

-----------------------------------------------------------------------------
(* The server.                                                             *)

Live(c) == "made" \in row[c] /\ row[c] \cap {"expired", "done"} = {}

\* EnrollmentWebSocketHandler up to the upgrade: A links the code to its account.
Check(s) ==
  LET c == sock[s].code
      ok == /\ Live(c) /\ pair[c][s[1]] = None
            /\ s[1] = "A" => pair[c].B # None IN
  /\ sock[s].srv = "asked"
  /\ sock' = IF ok THEN [sock EXCEPT ![s].srv = "checked"]
                   ELSE Close([sock EXCEPT ![s].srv = "off"], s)
  /\ row' = IF ok /\ s[1] = "A" THEN [row EXCEPT ![c] = @ \cup {"linked"}] ELSE row
  /\ UNCHANGED <<a, b, todo, pair, enrolled, used>>

\* The upgrade and what follows it: the slot is taken whoever is in it by now.
Join(s) ==
  LET c == sock[s].code
      peer == pair[c].B
      on == [sock EXCEPT ![s].srv = "on"] IN
  /\ sock[s].srv = "checked"
  /\ pair' = [pair EXCEPT ![c][s[1]] = s]
  /\ sock' = IF s[1] = "A" /\ peer # None
             THEN Deliver(on, peer, Msg("peer_connected", None)) ELSE on
  /\ UNCHANGED <<a, b, todo, row, enrolled, used>>

\* readPump: a message goes to whoever is the peer now, if anyone.
ReadPump(s) ==
  LET peer == pair[sock[s].code][IF s[1] = "A" THEN "B" ELSE "A"]
      k == [sock EXCEPT ![s].up = Tail(@)] IN
  /\ sock[s].srv = "on" /\ sock[s].up # <<>>
  /\ sock' = IF peer = None THEN k ELSE Deliver(k, peer, Head(sock[s].up))
  /\ UNCHANGED <<a, b, todo, server, used>>

\* readPump's end, removeClient: the slot is emptied and whoever is in it is closed;
\* the peer is told nothing.
RemoveClient(s) ==
  LET c == sock[s].code IN
  /\ sock[s].srv = "on" /\ sock[s].web \notin {"connecting", "open"} /\ sock[s].up = <<>>
  /\ pair' = [pair EXCEPT ![c][s[1]] = None]
  /\ sock' = Close([sock EXCEPT ![s].srv = "off"], pair[c][s[1]])
  /\ UNCHANGED <<a, b, todo, row, enrolled, used>>

\* Five minutes pass.
Expire(c) ==
  /\ "made" \in row[c] /\ "expired" \notin row[c]
  /\ row' = [row EXCEPT ![c] = @ \cup {"expired"}]
  /\ UNCHANGED <<a, b, sock, todo, pair, enrolled, used>>

-----------------------------------------------------------------------------
(* Machine A.                                                              *)

ABusy == {"authenticating", "connecting", "handshaking", "transferring"}

\* handleSubmit up to the WebAuthn ceremony.
ASubmit(c) ==
  LET s == <<"A", used.submits + 1>> IN
  /\ a.here /\ a.status \in {"idle", "error"} /\ used.submits < MaxSubmits /\ "made" \in row[c]
  /\ used' = [used EXCEPT !.submits = @ + 1]
  /\ a' = [a EXCEPT !.status = "authenticating", !.done = None]
  /\ todo' = todo \cup {Task("auth", s, None, c)}
  /\ UNCHANGED <<b, sock, server>>

\* A's key agreement over socket s is under way.
Agreeing(s) == \E t \in todo : t.at = "spake2" /\ t.sock = s

\* An attempt of A that was cancelled lives on: its socket, or one of its awaits.
Beside(s) ==
  \E o \in ASocks \ {s} : sock[o].web \notin {"none", "closed"} \/ \E t \in todo : t.sock = o

\* The ceremony is verified: the socket is opened, cancelled or not.
AAuthenticated(t) ==
  /\ a' = [a EXCEPT !.status = "connecting", !.ws = t.sock]
  /\ sock' = [Open(sock, t.sock, t.opts) EXCEPT ![t.sock].late = Beside(t.sock)]
  /\ todo' = todo \ {t} /\ UNCHANGED <<b, server, used>>

AAuthFails(t) ==
  /\ Move /\ a' = [a EXCEPT !.status = "error"]
  /\ todo' = todo \ {t} /\ UNCHANGED <<b, sock, server>>

AErrorIgnored(s) == a' = a /\ sock' = [sock EXCEPT ![s].down = Tail(@)] /\ todo' = todo

AHearsError(s) ==
  /\ a' = [a EXCEPT !.status = "error"]
  /\ sock' = Close([sock EXCEPT ![s].down = Tail(@)], s)
  /\ todo' = todo

\* onmessage of A; a confirmation is decrypted with the key A has now.
AMessage(s) ==
  LET m == Head(sock[s].down)
      k == [sock EXCEPT ![s].down = Tail(@)] IN
  /\ sock[s].web = "open" /\ sock[s].down # <<>>
  /\ CASE m.kind = "error" -> AHearsError(s)
       [] m.kind = "spake2_b" ->
            /\ todo' = todo \cup {Task("spake2", s, None, None)} /\ sock' = k /\ a' = a
       [] m.kind = "received" /\ a.key # None ->
            /\ todo' = todo \cup {Task("confirm", s, m.key, a.key)} /\ sock' = k /\ a' = a
       [] m.kind = "received" /\ a.key = None ->
            /\ a' = [a EXCEPT !.status = "error"] /\ sock' = k /\ todo' = todo
  /\ UNCHANGED <<b, server, used>>

\* spake2Init and spake2Finish are done: A answers and fetches the master key.
ASpake2Done(t) ==
  LET n == used.keys + 1 IN
  /\ used' = [used EXCEPT !.keys = n]
  /\ a' = [a EXCEPT !.key = n, !.status = "transferring"]
  /\ sock' = Send(sock, t.sock, Msg("spake2_a", n))
  /\ todo' = (todo \ {t}) \cup {Task("fetch", t.sock, n, None)}
  /\ UNCHANGED <<b, server>>

\* One of them throws.
ASpake2Fails(t) ==
  /\ Move /\ a' = [a EXCEPT !.status = "error"]
  /\ todo' = todo \ {t} /\ UNCHANGED <<b, sock, server>>

\* getMasterKey answered and one of its blobs opened with this device's PRF.
ATransfers(t) ==
  /\ sock' = Send(sock, t.sock, Msg("master_key", t.key))
  /\ todo' = todo \ {t} /\ UNCHANGED <<a, b, server, used>>

ATransferFails(t) ==
  /\ Move /\ a' = [a EXCEPT !.status = "error"]
  /\ sock' = Close(Send(sock, t.sock, Msg("error", None)), t.sock)
  /\ todo' = todo \ {t} /\ UNCHANGED <<b, server>>

\* "received" is decrypted, or does not open.
AConfirmed(t) ==
  /\ IF t.key = t.opts
     THEN /\ a' = [a EXCEPT !.done = sock[t.sock].code, !.status = "success"]
          /\ sock' = Close([sock EXCEPT ![t.sock].late = @ \/ Agreeing(t.sock)], t.sock)
     ELSE a' = [a EXCEPT !.status = "error"] /\ sock' = sock
  /\ todo' = todo \ {t} /\ UNCHANGED <<b, server, used>>

ACancel ==
  /\ a.here /\ a.status \in ABusy /\ Move
  /\ a' = [a EXCEPT !.ws = None, !.status = "idle", !.key = None, !.done = None]
  /\ sock' = Close(sock, a.ws)
  /\ UNCHANGED <<b, todo, server>>

ALeave ==
  /\ a.here /\ Move
  /\ a' = [a EXCEPT !.here = FALSE] /\ sock' = Close(sock, a.ws)
  /\ UNCHANGED <<b, todo, server>>

-----------------------------------------------------------------------------
(* Machine B.                                                              *)

\* handleStart; the button stays until the code is there.
BStart ==
  /\ b.here /\ b.status = "idle" /\ used.starts < MaxStarts
  /\ used' = [used EXCEPT !.starts = @ + 1]
  /\ b' = [b EXCEPT !.cancelling = FALSE]
  /\ todo' = todo \cup {Task("create", <<"B", used.starts + 1>>, None, None)}
  /\ UNCHANGED <<a, sock, server>>

\* createPasskeyEnrollment answered: the countdown starts, the socket is opened.
BCreated(t) ==
  /\ row' = [row EXCEPT ![t.sock[2]] = {"made"}]
  /\ b' = [b EXCEPT !.ws = t.sock, !.status = "waiting", !.timer = TRUE]
  /\ sock' = Open(sock, t.sock, t.sock[2])
  /\ todo' = (todo \ {t}) \cup {Task("init", t.sock, None, None)}
  /\ UNCHANGED <<a, pair, enrolled, used>>

BCreateFails(t) ==
  /\ Move /\ b' = [b EXCEPT !.status = "error"]
  /\ todo' = todo \ {t} /\ UNCHANGED <<a, sock, server>>

\* spake2InitB is done: only now has the socket its handlers.
BInit(t) ==
  /\ sock' = [sock EXCEPT ![t.sock].on = "first"]
  /\ todo' = todo \ {t} /\ UNCHANGED <<a, b, server, used>>

\* It throws: the socket stays without handlers.
BInitFails(t) ==
  /\ Move /\ b' = [b EXCEPT !.status = "error"]
  /\ todo' = todo \ {t} /\ UNCHANGED <<a, sock, server>>

\* A catch of B: the failure goes to the peer over the current socket.
BFails(t, k) ==
  /\ b' = [b EXCEPT !.status = "error"]
  /\ sock' = Send(k, b.ws, Msg("error", None))
  /\ todo' = todo \ {t}

\* onmessage of B.  The first handler knows the handshake, the second, installed when
\* spake2Finish is done, the payload; what the present one does not know is dropped.
BMessage(s) ==
  LET m == Head(sock[s].down)
      k == [sock EXCEPT ![s].down = Tail(@)] IN
  /\ sock[s].web = "open" /\ sock[s].down # <<>>
  /\ CASE sock[s].on # "none" /\ m.kind = "error" ->
            b' = [b EXCEPT !.status = "error"] /\ sock' = k /\ todo' = todo
       [] sock[s].on = "first" /\ m.kind = "peer_connected" ->
            /\ b' = [b EXCEPT !.status = "handshaking"] /\ todo' = todo
            /\ sock' = Send(k, s, Msg("spake2_b", None))
       [] sock[s].on = "first" /\ m.kind = "spake2_a" ->
            todo' = todo \cup {Task("finish", s, m.key, None)} /\ sock' = k /\ b' = b
       [] sock[s].on = "second" /\ m.kind = "master_key" /\ b.key # None ->
            todo' = todo \cup {Task("decrypt", s, m.key, b.key)} /\ sock' = k /\ b' = b
       [] sock[s].on = "second" /\ m.kind = "master_key" /\ b.key = None ->
            BFails(None, k)
       [] OTHER -> b' = b /\ sock' = k /\ todo' = todo
  /\ UNCHANGED <<a, server, used>>

BFinished(t) ==
  /\ b' = [b EXCEPT !.key = t.key, !.status = "waiting"]
  /\ sock' = [sock EXCEPT ![t.sock].on = "second"]
  /\ todo' = todo \ {t} /\ UNCHANGED <<a, server, used>>

BFinishFails(t) ==
  /\ Move /\ BFails(t, sock) /\ UNCHANGED <<a, server>>

\* decrypt, then enrollmentBegin.
BDecrypted(t) ==
  /\ IF t.key = t.opts
     THEN /\ b' = [b EXCEPT !.master = TRUE] /\ sock' = sock
          /\ todo' = (todo \ {t}) \cup {Task("begin", t.sock, None, None)}
     ELSE BFails(t, sock)
  /\ UNCHANGED <<a, server, used>>

\* EnrollmentBeginHandler and its answer.
MayBegin(c) == Live(c) /\ "linked" \in row[c]

BBegun(t) ==
  LET c == t.sock[2] IN
  /\ MayBegin(c)
  /\ row' = [row EXCEPT ![c] = @ \cup {"begun"}]
  /\ b' = [b EXCEPT !.opts = c, !.status = "ready"]
  /\ todo' = todo \ {t} /\ UNCHANGED <<a, sock, pair, enrolled, used>>

\* The handler refuses, or there is no answer.
BBeginFails(t) ==
  /\ IF MayBegin(t.sock[2]) THEN Move ELSE used' = used
  /\ BFails(t, sock) /\ UNCHANGED <<a, server>>

OptionsOnly == b.opts # None

\* Nothing of the attempt was lost.
StateKept == b.master /\ b.key # None /\ b.opts # None

\* The "Create Passkey" tap: completeRegistration.
BTap ==
  /\ b.here /\ b.status = "ready"
  /\ IF StateKept
     THEN /\ b' = [b EXCEPT !.status = "registering"]
          /\ todo' = todo \cup {Task("existing", b.ws, b.key, b.opts)}
     ELSE b' = [b EXCEPT !.status = "error"] /\ todo' = todo
  /\ UNCHANGED <<a, sock, server, used>>

\* B's last word: A is told under the session key.
BConfirms(t) ==
  /\ sock' = Send(sock, t.sock, Msg("received", t.key))
  /\ b' = [b EXCEPT !.status = "success"]
  /\ todo' = todo \ {t}

BlobSaved(c) == enrolled' = [enrolled EXCEPT ![c] = @ \cup {"blob"}]

\* The device has a passkey of this account: a blob is added to it.
BExisting(t) ==
  /\ BlobSaved(t.sock[2]) /\ BConfirms(t)
  /\ UNCHANGED <<a, row, pair, used>>

\* It has none, or addMasterKeyBlob failed, before or after the server saved the blob.
BNoExisting(t) ==
  /\ \/ UNCHANGED <<enrolled, used>>
     \/ BlobSaved(t.sock[2]) /\ Move
  /\ todo' = (todo \ {t}) \cup {[t EXCEPT !.at = "mint"]}
  /\ UNCHANGED <<a, b, sock, row, pair>>

ConfirmUnsaved(t) ==
  /\ enrolled' = enrolled
  /\ row' = [row EXCEPT ![t.sock[2]] = (@ \ {"begun"}) \cup {"done"}]

\* EnrollmentCompleteHandler: the credential and the end of the code.
Complete(t) ==
  LET c == t.sock[2] IN
  /\ enrolled' = [enrolled EXCEPT ![c] = @ \cup {"passkey"}]
  /\ row' = [row EXCEPT ![c] = (@ \ {"begun"}) \cup {"done"}]

MayComplete(t) ==
  LET c == t.sock[2] IN Live(c) /\ {"linked", "begun"} \subseteq row[c] /\ t.opts = c

BMinted(t) ==
  /\ MayComplete(t) /\ Complete(t) /\ BConfirms(t)
  /\ UNCHANGED <<a, pair, used>>

\* The ceremony fails, the server refuses, the code is not marked, the answer is lost.
BMintFails(t) ==
  /\ IF MayComplete(t) THEN Move ELSE used' = used
  /\ BFails(t, sock)
  /\ \/ UNCHANGED <<row, enrolled>>
     \/ MayComplete(t) /\ Complete(t)
     \/ /\ MayComplete(t) /\ row' = row
        /\ enrolled' = [enrolled EXCEPT ![t.sock[2]] = @ \cup {"passkey"}]
  /\ UNCHANGED <<a, pair>>

\* The countdown, once a second: it goes on when it has reached zero.
BTick ==
  /\ b.here /\ b.timer /\ "expired" \in row[b.ws[2]]
  /\ b' = [b EXCEPT !.status = "error"]
  /\ sock' = Close(sock, b.ws)
  /\ UNCHANGED <<a, todo, server, used>>

\* B's attempt over socket s is short of its tap and alone, with at most one await open.
Untapped(s) ==
  /\ enrolled[s[2]] = {}
  /\ \A o \in BSocks \ {s} : sock[o].web \notin {"connecting", "open"}
  /\ \A t, u \in {x \in todo : x.sock \in BSocks} : t = u /\ t.at \notin {"existing", "mint"}

BCancel ==
  /\ b.here /\ b.status \notin {"idle", "success"} /\ Move
  /\ b' = [BIdle EXCEPT !.ws = b.ws, !.cancelling = TRUE]
  /\ sock' = IF b.ws = None THEN sock
             ELSE Close([sock EXCEPT ![b.ws].dropped = @ \/ Untapped(b.ws)], b.ws)
  /\ UNCHANGED <<a, todo, server>>

\* Unmount: by the user, or two seconds after the success.
BLeave ==
  /\ b.here
  /\ (Move \/ (b.status = "success" /\ used' = used))
  /\ b' = [b EXCEPT !.here = FALSE, !.timer = FALSE] /\ sock' = Close(sock, b.ws)
  /\ UNCHANGED <<a, todo, server>>

-----------------------------------------------------------------------------
(* Sockets.                                                                *)

\* onopen.
OpenEvent(s) ==
  /\ sock[s].web = "connecting" /\ sock[s].srv = "on"
  /\ sock' = [sock EXCEPT ![s].web = "open"]
  /\ IF s[1] = "A" THEN a' = [a EXCEPT !.status = "handshaking"] /\ b' = b
     ELSE a' = a /\ b' = IF sock[s].on # "none" THEN [b EXCEPT !.status = "waiting"] ELSE b
  /\ UNCHANGED <<todo, server, used>>

\* onclose, and before it onerror when the socket never opened.
CloseEvent(s) ==
  LET aborted == sock[s].web = "aborted" IN
  /\ sock[s].web \in {"closing", "aborted"}
  /\ sock' = [sock EXCEPT ![s].web = "closed",
                          ![s].late = @ \/ Agreeing(s)]
  /\ IF s[1] = "A"
     THEN /\ a' = IF aborted \/ a.done = None THEN [a EXCEPT !.status = "error"] ELSE a
          /\ b' = b
     ELSE /\ b' = IF /\ sock[s].on # "none"
                     /\ aborted \/ (~b.cancelling /\ b.status # "success")
                  THEN [b EXCEPT !.status = "error"] ELSE b
          /\ a' = a
  /\ UNCHANGED <<todo, server, used>>

\* The network or the server's read deadline ends a socket.
Lost(s) ==
  /\ sock[s].web \in {"connecting", "open"} /\ Move
  /\ sock' = Close([sock EXCEPT ![s].up = <<>>], s)
  /\ UNCHANGED <<a, b, todo, server>>

Run(t) ==
  CASE t.at = "auth"     -> AAuthenticated(t) \/ AAuthFails(t)
    [] t.at = "spake2"   -> ASpake2Done(t) \/ ASpake2Fails(t)
    [] t.at = "fetch"    -> ATransfers(t) \/ ATransferFails(t)
    [] t.at = "confirm"  -> AConfirmed(t)
    [] t.at = "create"   -> BCreated(t) \/ BCreateFails(t)
    [] t.at = "init"     -> BInit(t) \/ BInitFails(t)
    [] t.at = "finish"   -> BFinished(t) \/ BFinishFails(t)
    [] t.at = "decrypt"  -> BDecrypted(t)
    [] t.at = "begin"    -> BBegun(t) \/ BBeginFails(t)
    [] t.at = "existing" -> BExisting(t) \/ BNoExisting(t)
    [] t.at = "mint"     -> BMinted(t) \/ BMintFails(t)

Relay(s) == Check(s) \/ Join(s) \/ ReadPump(s) \/ RemoveClient(s)
Event(s) == OpenEvent(s) \/ CloseEvent(s) \/ (s \in ASocks /\ AMessage(s)) \/ (s \in BSocks /\ BMessage(s))

\* What happens by itself: the server's goroutines, events, answers, ceremonies, time.
System ==
  \/ \E s \in Socks : Relay(s) \/ Event(s)
  \/ \E t \in todo : Run(t)
  \/ BTick \/ \E c \in Codes : Expire(c)

Next ==
  \/ System
  \/ \E s \in Socks : Lost(s)
  \/ \E c \in Codes : ASubmit(c)
  \/ ACancel \/ ALeave \/ BStart \/ BTap \/ BCancel \/ BLeave

Spec == Init /\ [][Next]_vars

-----------------------------------------------------------------------------
(* Properties.                                                             *)

(* A's "Passkey added successfully!" is true: for the code of the socket it *)
(* came over the server has a new credential or a new blob, whatever was    *)
(* cancelled, lost or restarted on either side.                            *)
SuccessIsReal == a.done # None => enrolled[a.done] # {}

\* Nothing more happens until a user, the network or the server acts up.
Quiet == ~ENABLED <<System>>_vars

(* The word that B failed or finished ends the attempt of A that hears it:  *)
(* when all is quiet, A's page is not left in a handshake or a transfer     *)
(* over a socket that carried it, unless an attempt that the user cancelled *)
(* lived on beside it, or A was done with the socket while a key agreement  *)
(* was under way: its await ends in "transferring", and nothing follows.   *)
PeerLearns ==
  Quiet /\ a.here /\ a.status \in ABusy => a.ws = None \/ ~sock[a.ws].told \/ sock[a.ws].late

(* A cancel of B sticks: what B cancels before its tap enrolls nothing,     *)
(* although the await that was open runs on, and its answer may show        *)
(* "Create Passkey" for the attempt again.  Two awaits open at once, as     *)
(* when B answers two sockets of A, or a second start beside it, may bring  *)
(* all of it back.                                                         *)
CancelSticks == \A s \in BSocks : sock[s].dropped => enrolled[s[2]] = {}

=============================================================================
