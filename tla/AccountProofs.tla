---------------------------- MODULE AccountProofs ---------------------------
(***************************************************************************)
(* Proofs about Account, for any number of tabs, hosts, forms and faults: a *)
(* registration that ended at the dashboard can sign, a pairing code yields *)
(* one token unless polls overlap, and the last passkey stays unless        *)
(* deletions overlap.                                                      *)
(***************************************************************************)
EXTENDS MCAccount, FiniteSetTheorems, TLAPS

-----------------------------------------------------------------------------
(* Pairing: unless polls overlap, one at most is in the handler, and while   *)
(* it is there no token was answered: the code is spent with the first.     *)

PairInv ==
  /\ DOMAIN pairing = {"made", "host", "used", "expired", "polls", "sent", "overlapped"}
  /\ DOMAIN cli = {"at", "poll"}
  /\ pairing.used \in BOOLEAN /\ pairing.overlapped \in BOOLEAN /\ pairing.sent \in Nat
  /\ pairing.sent > 0 => pairing.used
  /\ pairing.used => pairing.sent > 0
  /\ ~pairing.overlapped => /\ \A m, n \in polls : m = n
                            /\ polls # {} => pairing.sent = 0
                            /\ pairing.sent <= 1
  /\ cli.at = "paired" => pairing.sent > 0

LEMMA PairInit == Init => PairInv
  BY DEF Init, PairInv, NoCode

\* Every step outside pairing leaves the code and the command line alone.
LEMMA PairStep == PairInv /\ [Next]_vars => PairInv'
<1> SUFFICES ASSUME PairInv, [Next]_vars PROVE PairInv'
  OBVIOUS
<1>1. ASSUME UNCHANGED pair PROVE PairInv'
  BY <1>1 DEF pair, PairInv
<1>2. ASSUME NEW t \in Tabs, TabStep(t) PROVE PairInv'
  <2>1. ASSUME NEW h \in Hosts, PairApprove(t, h) PROVE PairInv'
    BY <2>1 DEF PairApprove, PairInv
  <2> QED
    BY <1>1, <1>2, <2>1 DEF TabStep, Begin, Prompt, Finish, FinishRefused, Upload,
                            UploadUnauthorized, PairRead
<1>3. ASSUME NEW t \in Tabs, Fails(t) \/ AnswerLost(t) \/ ListPasskeys(t) PROVE PairInv'
  BY <1>1, <1>3 DEF Fails, AnswerLost, ListPasskeys
<1>4. ASSUME NEW t \in Tabs, NEW kind, Submit(t, kind) PROVE PairInv'
  BY <1>1, <1>4 DEF Submit
<1>5. ASSUME NEW t \in Tabs, NEW id \in Forms, Delete(t, id) PROVE PairInv'
  BY <1>1, <1>5 DEF Delete
<1>6. ASSUME NEW d \in deletes, CountPasskeys(d) \/ DeleteCredential(d) PROVE PairInv'
  BY <1>1, <1>6 DEF CountPasskeys, DeleteCredential
<1>7. CASE ChallengeExpires \/ TokenExpires \/ Logout
  BY <1>1, <1>7 DEF ChallengeExpires, TokenExpires, Logout
<1>8. CASE PairStart
  BY <1>8 DEF PairStart, PairInv
<1>9. CASE PollRead
  <2> DEFINE n == pairing.polls + 1
             o == pairing.overlapped \/ polls # {}
  <2>1. /\ pairing' = [pairing EXCEPT !.polls = n, !.overlapped = o] /\ polls' = polls \cup {n}
        /\ cli' = [at |-> "waiting", poll |-> n] /\ ~pairing.used
    BY <1>9 DEF PollRead, CodeValid
  <2>2. o \in BOOLEAN /\ (~o => ~pairing.overlapped /\ polls = {})
    OBVIOUS
  <2> HIDE DEF n, o
  <2> QED BY <2>1, <2>2 DEF PairInv
<1>10. ASSUME NEW n \in polls, PollMark(n) PROVE PairInv'
  BY <1>10 DEF PollMark, Answer, PairInv
<1>11. ASSUME NEW n \in polls, PollFails(n) PROVE PairInv'
  BY <1>11 DEF PollFails, Answer, PairInv
<1>12. CASE CodeExpires
  BY <1>12 DEF CodeExpires, PairInv
<1>13. CASE PollTimeout \/ PollGivesUp
  BY <1>13 DEF PollTimeout, PollGivesUp, PairInv
<1>14. CASE UNCHANGED vars
  BY <1>1, <1>14 DEF vars, pair
<1> QED
  BY <1>2, <1>3, <1>4, <1>5, <1>6, <1>7, <1>8, <1>9, <1>10, <1>11, <1>12, <1>13, <1>14 DEF Next

(* However the exchange, the polls, failing handlers, lost answers and the   *)
(* expiry interleave, no token is answered while the code could be redeemed *)
(* again, and no second one unless two polls overlapped in the handler.     *)
THEOREM CodesSafe == Spec => []OneTokenPerCode
<1>1. PairInv => OneTokenPerCode
  BY DEF PairInv, OneTokenPerCode
<1> QED
  BY <1>1, PairInit, PairStep, PTL DEF Spec

-----------------------------------------------------------------------------
(* Registration.  A form's number belongs to one tab, and its challenge      *)
(* knows whether it is a registration; so only the first registration to    *)
(* finish makes the account, and its number is the CA's for good.          *)

TypeInv ==
  /\ user \in BOOLEAN
  /\ DOMAIN tab = Tabs /\ \A t \in Tabs : DOMAIN tab[t] = {"kind", "at", "n"}
  /\ DOMAIN env = {"open", "discoverable", "forms", "faults"}
  /\ env.forms \in 0 .. MaxForms

Active(t) == tab[t].at # "idle"

FormInv ==
  /\ \A t \in Tabs : Active(t) => tab[t].n \in 1 .. env.forms
  /\ \A t, u \in Tabs : Active(t) /\ Active(u) /\ tab[t].n = tab[u].n => t = u
  /\ challenge # None => challenge.n \in 1 .. env.forms
  /\ \A t \in Tabs : challenge # None /\ Active(t) /\ challenge.n = tab[t].n
                       => challenge.id = (tab[t].kind # "register")

CAInv ==
  /\ ~user => ca = None /\ creds = {} /\ share = None /\ welcomed = {}
  /\ user => ca \in 1 .. env.forms
  /\ \A t \in Tabs : tab[t].at = "upload" => user /\ tab[t].n = ca
  /\ \A t \in Tabs : user /\ Active(t) /\ tab[t].n = ca => tab[t].at = "upload"
  /\ \A c \in creds : c.id = ca => c.master = ca
  /\ welcomed \subseteq {ca} /\ (welcomed # {} => share # None)
  /\ share # None => share.gen = ca /\ share.master = ca

RegInv == TypeInv /\ FormInv /\ CAInv

LEMMA RegInit == Init => RegInv
<1> SUFFICES ASSUME Init PROVE RegInv
  OBVIOUS
<1>1. DOMAIN env = {"open", "discoverable", "forms", "faults"} /\ env.forms = 0
  BY DEF Init
<1>2. DOMAIN tab = Tabs /\ \A t \in Tabs : tab[t] = Idle
  BY DEF Init
<1>3. TypeInv
  <2>1. DOMAIN Idle = {"kind", "at", "n"}
    BY DEF Idle
  <2>2. user \in BOOLEAN
    BY DEF Init
  <2>3. 0 \in 0 .. MaxForms
    BY AccountAssumption
  <2> QED
    BY <1>1, <1>2, <2>1, <2>2, <2>3 DEF TypeInv
<1>4. FormInv /\ CAInv
  BY <1>1, <1>2 DEF Init, FormInv, CAInv, Active, Idle
<1> QED
  BY <1>3, <1>4 DEF RegInv

\* A step that moves no form and makes no secret.
LEMMA Elsewhere ==
  ASSUME RegInv, UNCHANGED <<user, ca, share, welcomed, tab>>,
         challenge' \in {challenge, None}, creds' \subseteq creds,
         env' = env \/ env' = [env EXCEPT !.faults = @ + 1]
  PROVE  RegInv'
<1>1. TypeInv' /\ env'.forms = env.forms
  BY DEF RegInv, TypeInv
<1> QED
  BY <1>1 DEF RegInv, FormInv, CAInv, Active

\* A form ends.
LEMMA Ends ==
  ASSUME RegInv, NEW t \in Tabs, End(t), UNCHANGED <<user, ca, share, creds, welcomed>>,
         challenge' \in {challenge, None},
         env' = env \/ env' = [env EXCEPT !.faults = @ + 1]
  PROVE  RegInv'
<1>1. TypeInv' /\ env'.forms = env.forms
  BY AccountAssumption DEF RegInv, TypeInv, End, Idle
<1>2. ~Active(t)' /\ \A u \in Tabs \ {t} : tab'[u] = tab[u]
  BY DEF End, Idle, Active, RegInv, TypeInv
<1>3. FormInv'
  BY <1>1, <1>2 DEF RegInv, TypeInv, FormInv, Active
<1>4. CAInv'
  BY <1>1, <1>2 DEF RegInv, TypeInv, CAInv, Active
<1> QED
  BY <1>1, <1>3, <1>4 DEF RegInv

\* A form goes on to its next await.
LEMMA GoesOn ==
  ASSUME RegInv, NEW t \in Tabs, Active(t), tab[t].at # "upload",
         NEW where \in {"prompt", "finish", "approve"}, tab' = [tab EXCEPT ![t].at = where],
         UNCHANGED <<user, ca, share, creds, welcomed, env>>,
         \/ challenge' = challenge
         \/ challenge' = [n |-> tab[t].n, id |-> tab[t].kind # "register", allowed |-> Ids]
  PROVE  RegInv'
<1>1. TypeInv'
  BY DEF RegInv, TypeInv
<1>2. /\ tab'[t].n = tab[t].n /\ tab'[t].kind = tab[t].kind /\ tab'[t].at = where
      /\ \A u \in Tabs \ {t} : tab'[u] = tab[u]
  BY DEF RegInv, TypeInv
<1>3. \A u \in Tabs : Active(u)' <=> Active(u)
  BY <1>2 DEF Active
<1>4. FormInv'
  BY <1>2, <1>3 DEF RegInv, TypeInv, FormInv
<1>5. CAInv'
  BY <1>2, <1>3 DEF RegInv, TypeInv, CAInv
<1> QED
  BY <1>1, <1>4, <1>5 DEF RegInv

LEMMA SubmitStep ==
  ASSUME RegInv, NEW t \in Tabs, NEW kind, Submit(t, kind)
  PROVE  RegInv'
<1> DEFINE n == env.forms + 1
<1>1. /\ env'.forms = n /\ n \in 1 .. MaxForms
      /\ tab'[t] = [kind |-> kind, at |-> "begin", n |-> n]
      /\ \A u \in Tabs \ {t} : tab'[u] = tab[u]
  BY AccountAssumption DEF Submit, RegInv, TypeInv
<1>2. TypeInv'
  BY <1>1 DEF Submit, RegInv, TypeInv, secrets
<1>3. FormInv'
  BY <1>1 DEF Submit, RegInv, TypeInv, FormInv, Active
<1>4. CAInv'
  BY <1>1 DEF Submit, RegInv, TypeInv, CAInv, Active, secrets
<1> QED
  BY <1>2, <1>3, <1>4 DEF RegInv

\* Only the first registration passes SameUser.
LEMMA RegisterStep ==
  ASSUME RegInv, NEW t \in Tabs, tab[t].at = "finish", tab[t].kind = "register", Intact(t),
         SaveRegistration(tab[t].n), challenge' = None, welcomed' = welcomed,
         \/ tab' = [tab EXCEPT ![t].at = "upload"] /\ env' = env
         \/ End(t) /\ env' = [env EXCEPT !.faults = @ + 1]
  PROVE  RegInv'
<1> DEFINE n == tab[t].n
<1>1. ~user
  BY DEF Intact, SameUser, RegInv, TypeInv, FormInv, Active
<1>2. n \in 1 .. env.forms /\ user' = TRUE /\ ca' = n /\ share' = None /\ welcomed' = {}
  BY <1>1 DEF SaveRegistration, RegInv, CAInv, FormInv, Active
<1>3. \A c \in creds' : c.id = n /\ c.master = n
  BY <1>1 DEF SaveRegistration, Passkey, RegInv, CAInv
<1>4. TypeInv' /\ env'.forms = env.forms
  BY <1>2, AccountAssumption DEF RegInv, TypeInv, End, Idle
<1>5. /\ \A u \in Tabs \ {t} : tab'[u] = tab[u]
      /\ tab'[t].at = "idle" \/ (tab'[t].at = "upload" /\ tab'[t].n = n)
  BY DEF RegInv, TypeInv, End, Idle
<1>6. FormInv'
  BY <1>4, <1>5 DEF RegInv, TypeInv, FormInv, Active
<1>7. \A u \in Tabs \ {t} : tab[u].at # "upload" /\ (Active(u) => tab[u].n # n)
  BY <1>1 DEF RegInv, CAInv, FormInv, Active
<1>8. CAInv'
  BY <1>2, <1>3, <1>4, <1>5, <1>7 DEF CAInv, Active
<1> QED
  BY <1>4, <1>6, <1>8 DEF RegInv

\* Adding a passkey: its number is not the one of the registration.
LEMMA AddStep ==
  ASSUME RegInv, NEW t \in Tabs, tab[t].at = "finish", AddFinish(t), env' = env
  PROVE  RegInv'
<1>1. user
  BY DEF AddFinish, Intact, SameUser, RegInv, FormInv, Active
<1>2. tab[t].n # ca /\ ~Active(t)' /\ \A u \in Tabs \ {t} : tab'[u] = tab[u]
  BY <1>1 DEF AddFinish, End, Idle, RegInv, TypeInv, CAInv, Active
<1>3. TypeInv'
  BY DEF AddFinish, RegInv, TypeInv, End, Idle
<1>4. FormInv'
  BY <1>2 DEF AddFinish, RegInv, TypeInv, FormInv, Active
<1>5. \A c \in creds' : c.id = ca => c.master = ca
  BY <1>2 DEF AddFinish, Passkey, RegInv, CAInv
<1>6. CAInv'
  BY <1>1, <1>2, <1>5 DEF AddFinish, RegInv, TypeInv, CAInv, Active
<1> QED
  BY <1>3, <1>4, <1>6 DEF RegInv

LEMMA UploadStep ==
  ASSUME RegInv, NEW t \in Tabs, Upload(t)
  PROVE  RegInv'
<1>1. user /\ tab[t].n = ca /\ ca \in 1 .. env.forms
  BY DEF Upload, RegInv, CAInv
<1>2. /\ share' = [gen |-> ca, master |-> ca] /\ welcomed' \subseteq {ca}
      /\ UNCHANGED <<user, ca, creds, challenge, env>>
  BY <1>1 DEF Upload, RegInv, CAInv
<1>3. share' # None
  BY <1>1, <1>2, AccountAssumption DEF Forms, RegInv, TypeInv
<1>4. TypeInv' /\ ~Active(t)' /\ \A u \in Tabs \ {t} : tab'[u] = tab[u]
  BY <1>2 DEF Upload, RegInv, TypeInv, End, Idle, Active
<1>5. FormInv'
  BY <1>2, <1>4 DEF RegInv, TypeInv, FormInv, Active
<1>6. CAInv'
  BY <1>1, <1>2, <1>3, <1>4 DEF RegInv, TypeInv, CAInv, Active
<1> QED
  BY <1>4, <1>5, <1>6 DEF RegInv

LEMMA TabStepKeeps ==
  ASSUME RegInv, NEW t \in Tabs, TabStep(t)
  PROVE  RegInv'
<1>1. CASE Begin(t)
  BY <1>1, GoesOn, Ends DEF Begin, Unauthorized, Active, secrets
<1>2. CASE Prompt(t)
  BY <1>2, GoesOn DEF Prompt, Active, secrets
<1>3. CASE Finish(t)
  <2>1. CASE RegisterFinish(t)
    BY <1>3, <2>1, RegisterStep DEF Finish, RegisterFinish
  <2>2. CASE LoginFinish(t)
    BY <1>3, <2>2, Ends DEF Finish, LoginFinish, secrets
  <2>3. CASE AddFinish(t)
    BY <1>3, <2>3, AddStep DEF Finish
  <2> QED
    BY <1>3, <2>1, <2>2, <2>3 DEF Finish
<1>4. CASE FinishRefused(t)
  BY <1>4, Ends DEF FinishRefused, secrets
<1>5. CASE Upload(t)
  BY <1>5, UploadStep
<1>6. CASE UploadUnauthorized(t)
  BY <1>6, Ends DEF UploadUnauthorized, Unauthorized, secrets
<1>7. CASE PairRead(t)
  BY <1>7, GoesOn, Ends DEF PairRead, Unauthorized, Active, others, secrets
<1>8. ASSUME NEW h \in Hosts, PairApprove(t, h) PROVE RegInv'
  BY <1>8, Ends DEF PairApprove, others, secrets
<1> QED
  BY <1>1, <1>2, <1>3, <1>4, <1>5, <1>6, <1>7, <1>8 DEF TabStep

LEMMA RegStep == RegInv /\ [Next]_vars => RegInv'
<1> SUFFICES ASSUME RegInv, [Next]_vars PROVE RegInv'
  OBVIOUS
<1>1. ASSUME NEW t \in Tabs, TabStep(t) PROVE RegInv'
  BY <1>1, TabStepKeeps
<1>2. ASSUME NEW t \in Tabs, Fails(t) PROVE RegInv'
  BY <1>2, Ends DEF Fails, Fault, secrets
<1>3. ASSUME NEW t \in Tabs, AnswerLost(t) PROVE RegInv'
  BY <1>3, RegisterStep DEF AnswerLost, Fault
<1>4. ASSUME NEW t \in Tabs, ListPasskeys(t) PROVE RegInv'
  BY <1>4, Elsewhere DEF ListPasskeys, secrets
<1>5. ASSUME NEW t \in Tabs, NEW kind, Submit(t, kind) PROVE RegInv'
  BY <1>5, SubmitStep
<1>6. ASSUME NEW t \in Tabs, NEW id \in Forms, Delete(t, id) PROVE RegInv'
  <2>1. TypeInv' /\ env'.forms = env.forms + 1
    BY <1>6, AccountAssumption DEF Delete, RegInv, TypeInv, secrets
  <2> QED
    BY <1>6, <2>1 DEF Delete, RegInv, TypeInv, FormInv, CAInv, Active, secrets
<1>7. ASSUME NEW d \in deletes, CountPasskeys(d) PROVE RegInv'
  BY <1>7, Elsewhere DEF CountPasskeys, secrets
<1>8. ASSUME NEW d \in deletes, DeleteCredential(d) PROVE RegInv'
  BY <1>8, Elsewhere DEF DeleteCredential
<1>9. CASE ChallengeExpires \/ TokenExpires \/ Logout
  BY <1>9, Elsewhere DEF ChallengeExpires, TokenExpires, Logout, Fault, secrets
<1>10. CASE PairStart \/ PollRead \/ PollGivesUp \/ CodeExpires \/ PollTimeout
  BY <1>10, Elsewhere
     DEF PairStart, PollRead, PollGivesUp, CodeExpires, PollTimeout, Fault, others, secrets
<1>11. CASE UNCHANGED vars
  BY <1>11, Elsewhere DEF vars
<1>12. ASSUME NEW n \in polls, PollMark(n) \/ PollFails(n) PROVE RegInv'
  BY <1>12, Elsewhere DEF PollMark, PollFails, Fault, others, secrets
<1> QED
  BY <1>1, <1>2, <1>3, <1>4, <1>5, <1>6, <1>7, <1>8, <1>9, <1>10, <1>11, <1>12 DEF Next

(* A registration that ended at the dashboard left an account whose client   *)
(* share is the half of its CA and opens with its passkey, for any number   *)
(* of tabs, retries, lost answers and expiries.                            *)
THEOREM RegistrationSafe == Spec => []RegisteredUsable
<1>1. RegInv => RegisteredUsable
  BY DEF RegInv, CAInv, RegisteredUsable, CanSign
<1> QED
  BY <1>1, RegInit, RegStep, PTL DEF Spec

-----------------------------------------------------------------------------
(* The last passkey.  A form that may still make a passkey has a number no   *)
(* passkey has, so passkeys have different ids, and a count above one means  *)
(* that another one than the one deleted is there.                          *)

MayMake(t) == Active(t) /\ tab[t].at # "upload"

CredInv ==
  /\ IsFiniteSet(creds)
  /\ \A c \in creds : c.id \in 1 .. env.forms
  /\ \A c, e \in creds : c.id = e.id => c = e
  /\ \A t \in Tabs : MayMake(t) => \A c \in creds : c.id # tab[t].n
  /\ deletes \subseteq [id : Forms, tab : Tabs, counted : BOOLEAN]

\* As long as deletions do not overlap, there is a passkey besides the one that goes.
SpareInv ==
  ~raced => /\ user => creds # {}
            /\ \A i, j \in Leaving : i = j
            /\ \A i \in Leaving : \E c \in creds : c.id # i

\* What the steps that neither count nor delete do to the passkeys: nothing, while
\* forms go on, end or are begun; or one form makes one.
Rests ==
  /\ creds' = creds /\ user' = user /\ env'.forms \in {env.forms, env.forms + 1}
  /\ \A t \in Tabs : MayMake(t)' => \/ MayMake(t) /\ tab'[t].n = tab[t].n
                                    \/ tab'[t].n = env.forms + 1 /\ env'.forms = env.forms + 1
Makes(t) ==
  /\ MayMake(t) /\ ~MayMake(t)' /\ env'.forms = env.forms
  /\ \A u \in Tabs \ {t} : tab'[u] = tab[u]
  /\ \E c : c.id = tab[t].n /\ creds' = creds \cup {c}

LEMMA EndRests ==
  ASSUME RegInv, NEW t \in Tabs, End(t), UNCHANGED <<user, creds>>,
         env' = env \/ env' = [env EXCEPT !.faults = @ + 1]
  PROVE  Rests
<1>1. ~Active(t)' /\ \A u \in Tabs \ {t} : tab'[u] = tab[u]
  BY DEF End, Idle, Active, RegInv, TypeInv
<1>2. env'.forms = env.forms
  BY DEF RegInv, TypeInv
<1> QED
  BY <1>1, <1>2 DEF Rests, MayMake, Active

LEMMA GoingOnRests ==
  ASSUME RegInv, NEW t \in Tabs, MayMake(t), NEW where, tab' = [tab EXCEPT ![t].at = where],
         UNCHANGED <<user, creds, env>>
  PROVE  Rests
<1>1. tab'[t].n = tab[t].n /\ \A u \in Tabs \ {t} : tab'[u] = tab[u]
  BY DEF RegInv, TypeInv
<1> QED
  BY <1>1 DEF Rests, MayMake, Active

LEMMA SavingMakes ==
  ASSUME RegInv, NEW t \in Tabs, tab[t].at = "finish", NEW m,
         creds' = creds \cup {Passkey(tab[t].n, m)},
         \/ tab' = [tab EXCEPT ![t].at = "upload"] /\ env' = env
         \/ End(t) /\ (env' = env \/ env' = [env EXCEPT !.faults = @ + 1])
  PROVE  Makes(t)
<1>1. MayMake(t) /\ ~MayMake(t)' /\ \A u \in Tabs \ {t} : tab'[u] = tab[u]
  BY DEF MayMake, Active, End, Idle, RegInv, TypeInv
<1>2. env'.forms = env.forms
  BY DEF RegInv, TypeInv
<1>3. Passkey(tab[t].n, m).id = tab[t].n
  BY DEF Passkey
<1> QED
  BY <1>1, <1>2, <1>3 DEF Makes

LEMMA TabStepKinds ==
  ASSUME RegInv, NEW t \in Tabs, TabStep(t)
  PROVE  (Rests \/ Makes(t)) /\ deletes' = deletes
<1>1. CASE Begin(t)
  BY <1>1, EndRests, GoingOnRests DEF Begin, Unauthorized, secrets, MayMake, Active
<1>2. CASE Prompt(t)
  BY <1>2, GoingOnRests DEF Prompt, secrets, MayMake, Active
<1>3. CASE Finish(t)
  <2>1. CASE RegisterFinish(t)
    BY <1>3, <2>1, SavingMakes DEF Finish, RegisterFinish, SaveRegistration
  <2>2. CASE LoginFinish(t)
    BY <1>3, <2>2, EndRests DEF Finish, LoginFinish, secrets
  <2>3. CASE AddFinish(t)
    BY <1>3, <2>3, SavingMakes DEF Finish, AddFinish
  <2> QED
    BY <1>3, <2>1, <2>2, <2>3 DEF Finish
<1>4. CASE FinishRefused(t)
  BY <1>4, EndRests DEF FinishRefused, secrets
<1>5. CASE Upload(t) \/ UploadUnauthorized(t)
  BY <1>5, EndRests DEF Upload, UploadUnauthorized, Unauthorized, secrets
<1>6. CASE PairRead(t)
  BY <1>6, EndRests, GoingOnRests DEF PairRead, Unauthorized, others, secrets, MayMake, Active
<1>7. ASSUME NEW h \in Hosts, PairApprove(t, h) PROVE Rests /\ deletes' = deletes
  BY <1>7, EndRests DEF PairApprove, others, secrets
<1> QED
  BY <1>1, <1>2, <1>3, <1>4, <1>5, <1>6, <1>7 DEF TabStep

\* Every step rests, makes a passkey, or is one of DeletePasskeyHandler's two.
LEMMA StepKinds ==
  ASSUME RegInv, [Next]_vars
  PROVE  \/ Rests /\ deletes' = deletes
         \/ Rests /\ \E t \in Tabs, id \in Forms :
                       deletes' = deletes \cup {[id |-> id, tab |-> t, counted |-> FALSE]}
         \/ deletes' = deletes /\ \E t \in Tabs : Makes(t)
         \/ \E d \in deletes : CountPasskeys(d) \/ DeleteCredential(d)
<1>1. ASSUME NEW t \in Tabs, TabStep(t) PROVE (Rests \/ Makes(t)) /\ deletes' = deletes
  BY <1>1, TabStepKinds
<1>2. ASSUME NEW t \in Tabs, Fails(t) PROVE Rests /\ deletes' = deletes
  BY <1>2, EndRests DEF Fails, Fault, secrets
<1>3. ASSUME NEW t \in Tabs, AnswerLost(t) PROVE Makes(t) /\ deletes' = deletes
  BY <1>3, SavingMakes DEF AnswerLost, Fault, SaveRegistration
<1>4. ASSUME tab' = tab, UNCHANGED secrets, env' = env \/ env' = [env EXCEPT !.faults = @ + 1]
      PROVE  Rests
  <2>1. env'.forms = env.forms
    BY <1>4 DEF RegInv, TypeInv
  <2> QED
    BY <1>4, <2>1 DEF Rests, MayMake, Active, secrets
<1>5. ASSUME NEW t \in Tabs, ListPasskeys(t) PROVE Rests /\ deletes' = deletes
  BY <1>4, <1>5 DEF ListPasskeys
<1>6. ASSUME NEW t \in Tabs, NEW kind, Submit(t, kind) PROVE Rests /\ deletes' = deletes
  <2>1. /\ env'.forms = env.forms + 1 /\ tab'[t].n = env.forms + 1
        /\ \A u \in Tabs \ {t} : tab'[u] = tab[u]
    BY <1>6 DEF Submit, RegInv, TypeInv
  <2> QED
    BY <1>6, <2>1 DEF Submit, Rests, MayMake, Active, secrets
<1>7. ASSUME NEW t \in Tabs, NEW id \in Forms, Delete(t, id)
      PROVE  Rests /\ deletes' = deletes \cup {[id |-> id, tab |-> t, counted |-> FALSE]}
  <2>1. env'.forms = env.forms + 1 /\ tab' = tab
    BY <1>7 DEF Delete, RegInv, TypeInv
  <2> QED
    BY <1>7, <2>1 DEF Delete, Rests, MayMake, Active, secrets
<1>8. CASE ChallengeExpires \/ TokenExpires \/ Logout
  BY <1>4, <1>8 DEF ChallengeExpires, TokenExpires, Logout, Fault
<1>9. CASE PairStart \/ PollRead \/ PollGivesUp \/ CodeExpires \/ PollTimeout
  BY <1>4, <1>9
     DEF PairStart, PollRead, PollGivesUp, CodeExpires, PollTimeout, Fault, others
<1>10. CASE UNCHANGED vars
  BY <1>4, <1>10 DEF vars, secrets
<1>11. ASSUME NEW n \in polls, PollMark(n) \/ PollFails(n) PROVE Rests /\ deletes' = deletes
  BY <1>4, <1>11 DEF PollMark, PollFails, Fault, others
<1> QED
  BY <1>1, <1>2, <1>3, <1>5, <1>6, <1>7, <1>8, <1>9, <1>10, <1>11 DEF Next

LEMMA CredStep == RegInv /\ CredInv /\ [Next]_vars => CredInv'
<1> SUFFICES ASSUME RegInv, CredInv, [Next]_vars PROVE CredInv'
  OBVIOUS
<1> DEFINE Deletes == [id : Forms, tab : Tabs, counted : BOOLEAN]
<1>0. env.forms \in Nat
  BY DEF RegInv, TypeInv
<1>1. ASSUME Rests, deletes' \subseteq Deletes PROVE CredInv'
  BY <1>0, <1>1 DEF CredInv, Rests
<1>2. ASSUME NEW t \in Tabs, Makes(t), deletes' = deletes PROVE CredInv'
  <2> PICK c : c.id = tab[t].n /\ creds' = creds \cup {c}
    BY <1>2 DEF Makes
  <2>1. IsFiniteSet(creds')
    BY FS_AddElement DEF CredInv
  <2>2. tab[t].n \in 1 .. env.forms /\ \A u \in Tabs \ {t} : MayMake(u) => tab[u].n # tab[t].n
    BY <1>2 DEF Makes, MayMake, RegInv, FormInv
  <2>3. \A e \in creds : e.id # c.id
    BY <1>2 DEF Makes, CredInv
  <2>4. \A e \in creds' : e.id \in 1 .. env'.forms
    BY <1>2, <2>2 DEF Makes, CredInv
  <2>5. \A e, f \in creds' : e.id = f.id => e = f
    BY <2>3 DEF CredInv
  <2>6. ASSUME NEW u \in Tabs, MayMake(u)', NEW e \in creds' PROVE e.id # tab'[u].n
    <3>1. u # t /\ tab'[u] = tab[u] /\ MayMake(u)
      BY <1>2, <2>6 DEF Makes, MayMake, Active
    <3> QED
      BY <2>2, <3>1 DEF CredInv
  <2> QED
    BY <1>2, <2>1, <2>4, <2>5, <2>6 DEF CredInv
<1>3. ASSUME NEW d \in deletes, CountPasskeys(d) PROVE CredInv'
  <2>1. [d EXCEPT !.counted = TRUE] \in Deletes /\ deletes \subseteq Deletes
    BY DEF CredInv
  <2>2. deletes' \subseteq Deletes
    BY <1>3, <2>1 DEF CountPasskeys
  <2> QED
    BY <1>3, <2>2 DEF CountPasskeys, CredInv, secrets, MayMake, Active
<1>4. ASSUME NEW d \in deletes, DeleteCredential(d) PROVE CredInv'
  <2>1. creds' \subseteq creds /\ deletes' \subseteq deletes /\ UNCHANGED <<tab, env>>
    BY <1>4 DEF DeleteCredential
  <2>2. IsFiniteSet(creds')
    BY <2>1, FS_Subset DEF CredInv
  <2> QED
    BY <2>1, <2>2 DEF CredInv, MayMake, Active
<1>5. deletes \subseteq Deletes
  BY DEF CredInv
<1>6. ASSUME NEW t \in Tabs, NEW id \in Forms
      PROVE  [id |-> id, tab |-> t, counted |-> FALSE] \in Deletes
  OBVIOUS
<1> QED
  BY <1>1, <1>2, <1>3, <1>4, <1>5, <1>6, StepKinds

\* A count above one: whichever passkey goes, there is another.
LEMMA CountMeansSpare ==
  ASSUME CredInv, Cardinality(creds) > 1, NEW i
  PROVE  \E c \in creds : c.id # i
<1> SUFFICES ASSUME \A c \in creds : c.id = i PROVE FALSE
  OBVIOUS
<1>1. creds # {}
  BY FS_EmptySet
<1>2. PICK c \in creds : TRUE
  BY <1>1
<1>3. creds = {c}
  BY <1>2 DEF CredInv
<1>4. Cardinality({c}) = 1
  BY FS_Singleton
<1> QED
  BY <1>3, <1>4

LEMMA SpareStep ==
  ASSUME RegInv, CredInv, SpareInv, [HNext]_hvars
  PROVE  SpareInv'
<1> SUFFICES ASSUME ~raced'
             PROVE  /\ user' => creds' # {}
                    /\ \A i, j \in Leaving' : i = j
                    /\ \A i \in Leaving' : \E c \in creds' : c.id # i
  BY DEF SpareInv
<1>1. [Next]_vars
  BY DEF HNext, hvars, vars
<1>2. ~raced
  BY Zenon DEF HNext, hvars
<1>3. /\ user => creds # {}
      /\ \A i, j \in Leaving : i = j
      /\ \A i \in Leaving : \E c \in creds : c.id # i
  BY <1>2 DEF SpareInv
<1>4. \A i, j \in Leaving' : i = j
  <2>1. CASE HNext
    BY <2>1, Zenon DEF HNext
  <2>2. CASE UNCHANGED hvars
    <3>1. Leaving' = Leaving
      BY <2>2 DEF hvars, vars, Leaving
    <3> QED
      BY <1>3, <3>1
  <2> QED
    BY <2>1, <2>2
<1>5. ASSUME creds \subseteq creds', user' = user \/ creds' # {}, Leaving' \subseteq Leaving
      PROVE  (user' => creds' # {}) /\ \A i \in Leaving' : \E c \in creds' : c.id # i
  BY <1>3, <1>5
<1>6. ASSUME Rests \/ \E t \in Tabs : Makes(t)
      PROVE  creds \subseteq creds' /\ (user' = user \/ creds' # {})
  BY <1>6 DEF Rests, Makes
<1>7. deletes' = deletes => Leaving' = Leaving
  BY DEF Leaving
<1>8. ASSUME NEW t \in Tabs, NEW id \in Forms,
             deletes' = deletes \cup {[id |-> id, tab |-> t, counted |-> FALSE]}
      PROVE  Leaving' \subseteq Leaving
  BY <1>8 DEF Leaving
<1>9. ASSUME NEW d \in deletes, CountPasskeys(d)
      PROVE  (user' => creds' # {}) /\ \A i \in Leaving' : \E c \in creds' : c.id # i
  <2>1. creds' = creds /\ user' = user
    BY <1>9 DEF CountPasskeys, secrets
  <2>2. CASE Cardinality(creds) > 1
    BY <2>1, <2>2, <1>3, CountMeansSpare
  <2>3. CASE ~(Cardinality(creds) > 1)
    <3>1. deletes' \subseteq deletes
      BY <1>9, <2>3 DEF CountPasskeys
    <3>2. Leaving' \subseteq Leaving
      BY <3>1 DEF Leaving
    <3> QED
      BY <1>3, <2>1, <3>2
  <2> QED
    BY <2>2, <2>3
<1>10. ASSUME NEW d \in deletes, DeleteCredential(d)
       PROVE  (user' => creds' # {}) /\ \A i \in Leaving' : \E c \in creds' : c.id # i
  <2>1. d.id \in Leaving /\ Leaving' \subseteq Leaving
    BY <1>10 DEF DeleteCredential, Leaving
  <2>2. PICK c \in creds : c.id # d.id
    BY <1>3, <2>1
  <2>3. c \in creds'
    BY <1>10, <2>2 DEF DeleteCredential
  <2>4. \A i \in Leaving' : i = d.id
    BY <1>3, <2>1
  <2> QED
    BY <2>2, <2>3, <2>4
<1> QED
  BY <1>1, <1>4, <1>5, <1>6, <1>7, <1>8, <1>9, <1>10, StepKinds

(* An account keeps a passkey, for any number of tabs, forms and lists out   *)
(* of date, unless deletions of two passkeys were both past the count of     *)
(* DeletePasskeyHandler at a time.                                          *)
THEOREM LastPasskeyStays == HSpec => []PasskeyRemains
<1>1. HInit => RegInv /\ CredInv /\ SpareInv
  <2> SUFFICES ASSUME HInit PROVE CredInv /\ SpareInv
    BY RegInit DEF HInit
  <2>1. creds = {} /\ deletes = {} /\ user = FALSE
    BY DEF HInit, Init
  <2>2. Leaving = {}
    BY <2>1 DEF Leaving
  <2> QED
    BY <2>1, <2>2, FS_EmptySet DEF CredInv, SpareInv
<1>2. RegInv /\ CredInv /\ SpareInv /\ [HNext]_hvars => (RegInv /\ CredInv /\ SpareInv)'
  <2>1. [HNext]_hvars => [Next]_vars
    BY DEF HNext, hvars, vars
  <2> QED
    BY <2>1, RegStep, CredStep, SpareStep
<1>3. SpareInv => PasskeyRemains
  BY DEF SpareInv, PasskeyRemains
<1> QED
  BY <1>1, <1>2, <1>3, PTL DEF HSpec
=============================================================================
