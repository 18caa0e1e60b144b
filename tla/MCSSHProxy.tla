---------------------------- MODULE MCSSHProxy ----------------------------
(***************************************************************************)
(* SSHProxy with a history of whether two connections of the user were     *)
(* ever between CanConnect and AddConnection together, for TLC.            *)
(***************************************************************************)
EXTENDS SSHProxy

VARIABLE overlapped

hvars == <<vars, overlapped>>

\* Connections that have passed CanConnect and do not count yet.
Passing == admitted + (IF handler = "admitted" THEN 1 ELSE 0)

HInit == Init /\ overlapped = FALSE
HNext == Next /\ overlapped' = (overlapped \/ Passing' > 1)
HSpec == HInit /\ [][HNext]_hvars /\ Fairness

\* DEVSESH_SSH_MAX_CONNECTIONS "caps a user's simultaneous proxy connections"
\* (doc/ARCHITECTURE.md) as long as no two of them were between the two critical
\* sections of ProxyHandler together, however they come, fail and go otherwise.
LimitKept == ~overlapped => active <= MaxConns
=============================================================================
