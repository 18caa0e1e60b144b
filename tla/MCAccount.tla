----------------------------- MODULE MCAccount ------------------------------
(***************************************************************************)
(* Account with a history of whether deletions of two passkeys were ever   *)
(* between the count and the delete together, for TLC.                     *)
(***************************************************************************)
EXTENDS Account, TLC

VARIABLE raced

hvars == <<vars, raced>>

\* The passkeys whose deletion has been let through.
Leaving == {d.id : d \in {e \in deletes : e.counted}}

HInit == Init /\ raced = FALSE
HNext == Next /\ raced' = (raced \/ \E i, j \in Leaving' : i # j)
HSpec == HInit /\ [][HNext]_hvars

TabSymmetry == Permutations(Tabs)

(* "At least one passkey must remain." (doc/SERVER_ENDPOINTS.md): an account *)
(* keeps one, whatever the tabs delete on lists that are out of date and    *)
(* while passkeys are added, as long as no two passkeys were between the    *)
(* count and the delete of DeletePasskeyHandler together.                   *)
PasskeyRemains == user /\ ~raced => creds # {}
=============================================================================
