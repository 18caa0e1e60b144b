------------------------------ MODULE Account -------------------------------
(***************************************************************************)
(* The account and its secrets: registration (pages/RegisterPage.tsx), sign *)
(* in (LoginPage.tsx), passkeys (PasskeyManagementPage.tsx), the token of   *)
(* the browser (contexts/AuthContext.tsx, lib/api.ts) and pairing of the    *)
(* command line (PairPage.tsx), with the handlers of internal/auth and      *)
(* internal/ssh/ca they call.                                              *)
(*                                                                         *)
(* A form of a page is numbered; its number names the challenge it was      *)
(* given, the credential made for it, the master key and the key shares     *)
(* generated for it.  One account, whose challenges share one slot; the     *)
(* tabs of one browser share the stored token.  WebAuthn knows the account  *)
(* by its id, and by 0 until it has one; a discoverable passkey keeps the   *)
(* id it was made for and returns it as the userHandle.                    *)
(***************************************************************************)
EXTENDS Integers, FiniteSets

CONSTANTS
  Tabs,               \* pages open in the browser
  Hosts,              \* hosts a pairing may name
  AllowUserCreation,  \* the values of cfg.AllowUserCreation
  Discoverable,       \* whether the user's passkeys are discoverable: the cases
  MaxForms,           \* bound on the forms submitted and the deletions asked for
  MaxFaults,          \* bound on lost answers, refused prompts and expiries
  None

Forms == 1 .. MaxForms

ASSUME AccountAssumption ==
  /\ AllowUserCreation \subseteq BOOLEAN /\ Discoverable \subseteq BOOLEAN
  /\ MaxForms \in Nat /\ MaxFaults \in Nat /\ None \notin Nat /\ None \notin Hosts
  /\ None \notin [gen : Forms, master : Forms]

VARIABLES
  user,       \* the account exists
  ca,         \* whose server share ssh_ca holds
  share,      \* whose client share ssh_ca_client_shares holds, under which master key
  creds,      \* the passkeys: id, the master key the blob wraps, the user handle
  challenge,  \* the challenge store's entry: its form, for an account with an id,
              \* for which passkeys
  token,      \* localStorage's token: "none", "live", "expired"
  tab,        \* the form each tab is at
  listed,     \* the passkeys each tab shows
  deletes,    \* deletions the server is at
  welcomed,   \* registrations that ended at the dashboard
  pairing,    \* the pairing code; as history the polls that found it approved, the
              \* tokens answered, and whether two polls were past the read together
  polls,      \* the polls PairCompleteHandler is at
  cli,        \* devsesh login: its phase and the poll it waits for
  env         \* cfg.AllowUserCreation; the authenticator; forms and faults so far

secrets == <<user, ca, share, creds>>
pair    == <<pairing, polls, cli>>
vars    == <<user, ca, share, creds, challenge, token, tab, listed, deletes, welcomed,
             pairing, polls, cli, env>>

Idle   == [kind |-> "none", at |-> "idle", n |-> None]
NoCode == [made |-> FALSE, host |-> None, used |-> FALSE, expired |-> FALSE,
           polls |-> 0, sent |-> 0, overlapped |-> FALSE]

Init ==
  /\ user = FALSE /\ ca = None /\ share = None /\ creds = {} /\ challenge = None
  /\ token = "none" /\ tab = [t \in Tabs |-> Idle] /\ listed = [t \in Tabs |-> {}]
  /\ deletes = {} /\ welcomed = {} /\ pairing = NoCode /\ polls = {}
  /\ cli = [at |-> "off", poll |-> None]
  /\ \E open \in AllowUserCreation, d \in Discoverable :
       env = [open |-> open, discoverable |-> d, forms |-> 0, faults |-> 0]

Fault == env.faults < MaxFaults /\ env' = [env EXCEPT !.faults = @ + 1]

Ids == {c.id : c \in creds}

-----------------------------------------------------------------------------
(* Forms: begin, the browser's prompt, finish.                             *)

\* A form is filled in; its button is disabled until it ends.
Submit(t, kind) ==
  /\ tab[t].at = "idle" /\ env.forms < MaxForms
  /\ kind \in {"add", "pair"} => token # "none"
  /\ env' = [env EXCEPT !.forms = @ + 1]
  /\ tab' = [tab EXCEPT ![t] = [kind |-> kind, at |-> "begin", n |-> env.forms + 1]]
  /\ UNCHANGED <<secrets, challenge, token, listed, deletes, welcomed, pair>>

\* The form ends, with an error shown or on another page.
End(t) == tab' = [tab EXCEPT ![t] = Idle]

\* What the begin handlers let through: registration only while it is open.
MayBegin(kind) ==
  CASE kind = "register" -> ~user \/ env.open
    [] kind = "login"    -> creds # {}
    [] OTHER             -> user /\ token = "live"

\* fetchApi, answered 401: the token is dropped and the browser goes to /login.
Unauthorized(t) == token' = "none" /\ End(t)

\* RegisterBegin, LoginBegin, AddPasskeyBegin: the challenge replaces any other.
Begin(t) ==
  /\ tab[t].at = "begin" /\ tab[t].kind # "pair"
  /\ IF MayBegin(tab[t].kind)
     THEN /\ challenge' = [n |-> tab[t].n, id |-> tab[t].kind # "register", allowed |-> Ids]
          /\ tab' = [tab EXCEPT ![t].at = "prompt"] /\ token' = token
     ELSE /\ challenge' = challenge
          /\ IF tab[t].kind = "add" THEN Unauthorized(t) ELSE End(t) /\ token' = token
  /\ UNCHANGED <<secrets, listed, deletes, welcomed, pair, env>>

\* navigator.credentials.create or get, and get again for the PRF.
Prompt(t) ==
  /\ tab[t].at = "prompt"
  /\ tab' = [tab EXCEPT ![t].at = "finish"]
  /\ UNCHANGED <<secrets, challenge, token, listed, deletes, welcomed, pair, env>>

\* What the passkey of form n keeps: a discoverable one, the id of its challenge.
Passkey(n, master) ==
  [id |-> n, master |-> master,
   handle |-> IF ~env.discoverable THEN "none" ELSE IF challenge.id THEN "id" ELSE "zero"]

AnyUser == TRUE

\* CreateCredential and ValidateLogin: the challenge was given for the account's id,
\* or for 0 and there is no account yet.
SameUser == challenge.id = user

\* The challenge is the one of this form, for this account.
Intact(t) == challenge # None /\ challenge.n = tab[t].n /\ SameUser

\* RegisterUserWithSSHCA, or AddCredentialToExistingUser, which keeps the CA there is.
SaveRegistration(n) ==
  /\ user' = TRUE
  /\ creds' = creds \cup {Passkey(n, n)}
  /\ ca' = IF ca = None THEN n ELSE ca
  /\ share' = share

\* RegisterFinishHandler: its answer carries a token and the client share just made.
RegisterFinish(t) ==
  /\ tab[t].kind = "register" /\ Intact(t)
  /\ SaveRegistration(tab[t].n) /\ challenge' = None
  /\ token' = "live" /\ tab' = [tab EXCEPT ![t].at = "upload"]
  /\ UNCHANGED <<listed, welcomed>>

\* ValidateLogin of passkey c: the account still has every passkey the challenge
\* allowed, and the handle c returns, if any, is the account's id.
ValidLogin(c) ==
  /\ challenge.allowed \subseteq Ids /\ c.id \in challenge.allowed
  /\ c.handle \in {"none", "id"}

LoginFinish(t) ==
  /\ tab[t].kind = "login" /\ Intact(t) /\ \E c \in creds : ValidLogin(c)
  /\ challenge' = None /\ token' = "live" /\ End(t)
  /\ UNCHANGED <<secrets, listed, welcomed>>

\* AddPasskeyFinishHandler: a credential with no blob; then loadPasskeys.
AddFinish(t) ==
  /\ tab[t].kind = "add" /\ Intact(t) /\ token = "live"
  /\ creds' = creds \cup {Passkey(tab[t].n, None)} /\ challenge' = None
  /\ listed' = [listed EXCEPT ![t] = {c.id : c \in creds'}] /\ End(t)
  /\ UNCHANGED <<user, ca, share, token, welcomed>>

Finish(t) ==
  /\ tab[t].at = "finish"
  /\ RegisterFinish(t) \/ LoginFinish(t) \/ AddFinish(t)
  /\ UNCHANGED <<deletes, pair, env>>

\* The challenge was replaced, has expired or is for another id, or the passkey the
\* user chose is not valid: the handler refuses.
FinishRefused(t) ==
  /\ tab[t].at = "finish"
  /\ \/ ~Intact(t)
     \/ /\ tab[t].kind = "login" /\ Intact(t)
        /\ \E id \in challenge.allowed : ~\E c \in creds : c.id = id /\ ValidLogin(c)
     \/ tab[t].kind = "add" /\ token # "live"
  /\ End(t) /\ UNCHANGED <<secrets, challenge, token, listed, deletes, welcomed, pair, env>>

\* updateSSHCAClientShare, under the master key of this form; then the dashboard.
Upload(t) ==
  /\ tab[t].at = "upload" /\ token = "live"
  /\ share' = [gen |-> tab[t].n, master |-> tab[t].n]
  /\ welcomed' = welcomed \cup {tab[t].n} /\ End(t)
  /\ UNCHANGED <<user, ca, creds, challenge, token, listed, deletes, pair, env>>

UploadUnauthorized(t) ==
  /\ tab[t].at = "upload" /\ token # "live" /\ Unauthorized(t)
  /\ UNCHANGED <<secrets, challenge, listed, deletes, welcomed, pair, env>>

\* A request fails or the prompt is dismissed: the catch shows it.
Fails(t) ==
  /\ tab[t].at # "idle" /\ Fault /\ End(t)
  /\ UNCHANGED <<secrets, challenge, token, listed, deletes, welcomed, pair>>

\* The server has saved the registration and its answer is lost.
AnswerLost(t) ==
  /\ tab[t].at = "finish" /\ tab[t].kind = "register" /\ Intact(t)
  /\ Fault /\ SaveRegistration(tab[t].n) /\ challenge' = None /\ End(t)
  /\ UNCHANGED <<token, listed, deletes, welcomed, pair>>

ChallengeExpires ==
  /\ challenge # None /\ Fault /\ challenge' = None
  /\ UNCHANGED <<secrets, token, tab, listed, deletes, welcomed, pair>>

TokenExpires ==
  /\ token = "live" /\ Fault /\ token' = "expired"
  /\ UNCHANGED <<secrets, challenge, tab, listed, deletes, welcomed, pair>>

Logout ==
  /\ token # "none" /\ Fault /\ token' = "none"
  /\ UNCHANGED <<secrets, challenge, tab, listed, deletes, welcomed, pair>>

-----------------------------------------------------------------------------
(* Deleting a passkey.                                                     *)

ListPasskeys(t) ==
  /\ token = "live" /\ listed[t] # Ids /\ listed' = [listed EXCEPT ![t] = Ids]
  /\ UNCHANGED <<secrets, challenge, token, tab, deletes, welcomed, pair, env>>

\* handleDeletePasskey: the button is disabled for the only one listed.
Delete(t, id) ==
  /\ id \in listed[t] /\ Cardinality(listed[t]) > 1 /\ token = "live"
  /\ env.forms < MaxForms /\ env' = [env EXCEPT !.forms = @ + 1]
  /\ deletes' = deletes \cup {[id |-> id, tab |-> t, counted |-> FALSE]}
  /\ UNCHANGED <<secrets, challenge, token, tab, listed, welcomed, pair>>

\* A handler that leaves it to the page's button to spare the only passkey.
CountNothing(d) ==
  /\ d \in deletes /\ ~d.counted
  /\ deletes' = (deletes \ {d}) \cup IF d.id \in Ids THEN {[d EXCEPT !.counted = TRUE]} ELSE {}
  /\ UNCHANGED <<secrets, challenge, token, tab, listed, welcomed, pair, env>>

\* DeletePasskeyHandler reads the credentials, then deletes one.
CountPasskeys(d) ==
  /\ d \in deletes /\ ~d.counted
  /\ deletes' = (deletes \ {d}) \cup
                  IF Cardinality(creds) > 1 /\ d.id \in Ids THEN {[d EXCEPT !.counted = TRUE]} ELSE {}
  /\ UNCHANGED <<secrets, challenge, token, tab, listed, welcomed, pair, env>>

DeleteCredential(d) ==
  /\ d \in deletes /\ d.counted
  /\ creds' = {c \in creds : c.id # d.id} /\ deletes' = deletes \ {d}
  /\ listed' = [listed EXCEPT ![d.tab] = {c.id : c \in creds'}]
  /\ UNCHANGED <<user, ca, share, challenge, token, tab, welcomed, pair, env>>

-----------------------------------------------------------------------------
(* Pairing.                                                                *)

others == <<secrets, challenge, listed, deletes, welcomed>>

\* devsesh login: PairStartHandler.
PairStart ==
  /\ cli.at = "off" /\ ~pairing.made
  /\ pairing' = [pairing EXCEPT !.made = TRUE] /\ cli' = [cli EXCEPT !.at = "polling"]
  /\ UNCHANGED <<others, token, tab, polls, env>>

CodeValid(p) == p.made /\ ~p.used /\ ~p.expired

\* PairExchangeHandler reads the code, then approves it for the host chosen.
PairRead(t) ==
  /\ tab[t].kind = "pair" /\ tab[t].at = "begin"
  /\ \/ token = "live" /\ CodeValid(pairing) /\ token' = token
        /\ tab' = [tab EXCEPT ![t].at = "approve"]
     \/ token = "live" /\ ~CodeValid(pairing) /\ End(t) /\ token' = token
     \/ token # "live" /\ Unauthorized(t)
  /\ UNCHANGED <<others, pair, env>>

PairApprove(t, h) ==
  /\ tab[t].at = "approve"
  /\ pairing' = [pairing EXCEPT !.host = h]
  /\ End(t) /\ UNCHANGED <<others, token, polls, cli, env>>

\* PairCompleteHandler reads the code.  A poll that finds it unapproved or spent is
\* answered 400 and changes nothing.
PollRead ==
  LET n == pairing.polls + 1 IN
  /\ cli.at = "polling" /\ CodeValid(pairing) /\ pairing.host # None
  /\ pairing' = [pairing EXCEPT !.polls = n, !.overlapped = @ \/ polls # {}]
  /\ polls' = polls \cup {n} /\ cli' = [at |-> "waiting", poll |-> n]
  /\ UNCHANGED <<others, token, tab, env>>

\* The answer to poll n, if the command line still waits for it.
Answer(n, at) ==
  /\ polls' = polls \ {n}
  /\ cli' = IF cli.at = "waiting" /\ cli.poll = n THEN [cli EXCEPT !.at = at] ELSE cli

AnswerUnmarked(n) ==
  /\ n \in polls /\ Answer(n, "paired")
  /\ pairing' = [pairing EXCEPT !.sent = @ + 1]
  /\ UNCHANGED <<others, token, tab, env>>

\* It mints the token, marks the code used, whoever marked it meanwhile, and answers.
PollMark(n) ==
  /\ n \in polls /\ Answer(n, "paired")
  /\ pairing' = [pairing EXCEPT !.used = TRUE, !.sent = @ + 1]
  /\ UNCHANGED <<others, token, tab, env>>

\* The user, the host or the token cannot be had, or the code is not marked: the code
\* stays as it is and the next poll may have it.
PollFails(n) ==
  /\ n \in polls /\ Fault /\ Answer(n, "polling")
  /\ UNCHANGED <<others, token, tab, pairing>>

\* The request times out or its answer is lost; the handler runs on.
PollGivesUp ==
  /\ cli.at = "waiting" /\ Fault /\ cli' = [cli EXCEPT !.at = "polling"]
  /\ UNCHANGED <<others, token, tab, pairing, polls>>

\* Five minutes pass: the code is refused, and cleared away.
CodeExpires ==
  /\ pairing.made /\ ~pairing.expired /\ Fault /\ pairing' = [pairing EXCEPT !.expired = TRUE]
  /\ UNCHANGED <<others, token, tab, polls, cli>>

\* PollForJWT gives up.
PollTimeout ==
  /\ cli.at = "polling" /\ pairing.expired /\ cli' = [cli EXCEPT !.at = "timeout"]
  /\ UNCHANGED <<others, token, tab, pairing, polls, env>>

TabStep(t) ==
  \/ Begin(t) \/ Prompt(t) \/ Finish(t) \/ FinishRefused(t) \/ Upload(t) \/ UploadUnauthorized(t)
  \/ PairRead(t) \/ \E h \in Hosts : PairApprove(t, h)

Next ==
  \/ \E t \in Tabs : \/ TabStep(t) \/ Fails(t) \/ AnswerLost(t) \/ ListPasskeys(t)
                     \/ \E kind \in {"register", "login", "add", "pair"} : Submit(t, kind)
                     \/ \E id \in Forms : Delete(t, id)
  \/ \E d \in deletes : CountPasskeys(d) \/ DeleteCredential(d)
  \/ ChallengeExpires \/ TokenExpires \/ Logout
  \/ PairStart \/ PollRead \/ \E n \in polls : PollMark(n) \/ PollFails(n)
  \/ PollGivesUp \/ CodeExpires \/ PollTimeout

Spec == Init /\ [][Next]_vars

-----------------------------------------------------------------------------
(* Properties.                                                             *)

\* The client share kept is the other half of the CA's server share, and the
\* passkey's blob wraps the master key the share is under.
CanSign(n) ==
  /\ share # None /\ share.gen = ca
  /\ \A c \in creds : c.id = n => c.master = share.master

(* A registration that ended at the dashboard left an account that can sign *)
(* certificates, whatever was lost, retried or expired before, also on a    *)
(* server open to new users, where the form may be sent again: the share it *)
(* uploads is the half of the CA the server keeps.                         *)
RegisteredUsable == \A n \in welcomed : CanSign(n)

(* "After registration, user can login with passkey" (doc/ARCHITECTURE.md): *)
(* once a registration has ended at the dashboard, a sign-in with a passkey *)
(* its challenge allowed, where none was deleted and nothing failed or      *)
(* expired, ends with a token.                                             *)
SignInWorks ==
  [][\A t \in Tabs :
       (/\ tab[t].kind = "login" /\ tab[t].at = "finish" /\ tab'[t] = Idle /\ env' = env
        /\ welcomed # {} /\ Intact(t) /\ challenge.allowed \subseteq Ids) => token' = "live"]_vars

(* "Pairing codes ... are single-use" (doc/SERVER_ENDPOINTS.md), as far as  *)
(* the code keeps it: no token is answered while the code could be redeemed *)
(* again, although a handler may fail after it minted one, and at most one  *)
(* is answered unless two polls were both past the read of the code, the    *)
(* first given up by the command line and still in the handler.  A paired   *)
(* command line has the token of a code that is spent.                     *)
OneTokenPerCode ==
  /\ pairing.sent > 0 => pairing.used
  /\ ~pairing.overlapped => pairing.sent <= 1
  /\ cli.at = "paired" => pairing.sent > 0
=============================================================================
