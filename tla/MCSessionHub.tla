---------------------------- MODULE MCSessionHub ----------------------------
(***************************************************************************)
(* SessionHub with a history of what was broadcast to each client's user   *)
(* since the client registered, for TLC.                                   *)
(***************************************************************************)
EXTENDS SessionHub, SequencesExt

CONSTANTS
  MaxUpdates,  \* bound on the broadcasts; updates are numbered
  MaxLost      \* bound on the browsers that leave or fall silent

VARIABLE
  feed      \* feed[c]: every update broadcast to c's user since c registered

MCUpdates == 1..MaxUpdates

ASSUME UpdatesAssumption == MaxUpdates \in Nat /\ MCUpdates \subseteq Updates

hvars == <<vars, feed>>

Sent == UNION {Range(feed[c]) : c \in Clients}

HInit == Init /\ feed = [c \in Clients |-> <<>>]

HBroadcast(u, m) ==
  /\ Sent = 1..(m - 1)
  /\ \E c \in Clients : handler[c] = "reading" /\ user[c] = u
  /\ Broadcast(u, m)
  /\ feed' = [c \in Clients |->
                IF handler[c] = "reading" /\ user[c] = u THEN Append(feed[c], m) ELSE feed[c]]

HNext ==
  \/ \E c \in Clients : Server(c) /\ UNCHANGED feed
  \/ /\ Cardinality({c \in Clients : peer[c] # "up"}) < MaxLost
     /\ \E c \in Clients : PeerLost(c) \/ PeerLeaves(c)
     /\ UNCHANGED feed
  \/ \E u \in Users, m \in MCUpdates : HBroadcast(u, m)

HSpec == HInit /\ [][HNext]_hvars /\ Fairness

\* No browser sees a gap: what it has received, in order, is a prefix of what was
\* broadcast to its user since it registered.  A client that misses an update
\* because its queue was full gets none after it.
NoSilentGap == \A c \in Clients : IsPrefix(wire[c], feed[c])

\* Every update broadcast to a registered client reaches the browser unless its
\* connection ends.
EventualDelivery ==
  \A c \in Clients : \A n \in 1..MaxUpdates :
    (Len(feed[c]) >= n /\ handler[c] = "reading")
      ~> (Len(wire[c]) >= n \/ handler[c] = "gone")

=============================================================================
