----------------------------- MODULE CertPromise -----------------------------
(***************************************************************************)
(* What FROSTClient.requestCertificate promises its callers: whoever asks  *)
(* while a certificate is being made waits for that one, all who wait are  *)
(* answered together, a certificate answers one such group only and was    *)
(* issued by the authority, and nobody waits forever.                      *)
(***************************************************************************)
CONSTANTS Hosts,  \* who asks: the hosts of the user
          Certs   \* the certificates that may be issued

VARIABLES
  waiting,  \* the hosts whose caller awaits the promise
  issued,   \* the certificates issued
  spent     \* the certificates that answered somebody

vars == <<waiting, issued, spent>>

Init == waiting = {} /\ issued = {} /\ spent = {}

Ask(h) ==
  /\ h \notin waiting /\ waiting' = waiting \cup {h}
  /\ UNCHANGED <<issued, spent>>

Issue(c) ==
  /\ c \notin issued /\ issued' = issued \cup {c}
  /\ UNCHANGED <<waiting, spent>>

Grant(c) ==
  /\ waiting # {} /\ c \in issued \ spent
  /\ waiting' = {} /\ spent' = spent \cup {c}
  /\ UNCHANGED issued

Refuse == waiting # {} /\ waiting' = {} /\ UNCHANGED <<issued, spent>>

Answer == Refuse \/ \E c \in Certs : Grant(c)

Next == Answer \/ (\E h \in Hosts : Ask(h)) \/ (\E c \in Certs : Issue(c))

Spec == Init /\ [][Next]_vars /\ WF_vars(Answer)
=============================================================================
