------------------------------ MODULE Accounts ------------------------------
(***************************************************************************)
(* Accounts, sign-in and sessions: one-time codes and the chat bot that     *)
(* shows them, registration, OAuth and rotating refresh sessions            *)
(* (application/services/auth_service.py, api/v1/auth.py,                   *)
(* channels/telegram/registry.py).                                          *)
(*                                                                         *)
(* Each endpoint runs in one transaction.  Where it waits between a read    *)
(* and its commit it is two steps, so that other requests come in between;  *)
(* SELECT FOR UPDATE is the set held of row locks.  A check that fails      *)
(* raises and rolls back: it is the absence of a step.  So is a deadline    *)
(* that has passed: no property here depends on when a step is taken, and   *)
(* nothing brings an expired row back.  No code of the repository           *)
(* deactivates a user or a merchant, so those checks are left out.          *)
(***************************************************************************)
EXTENDS Naturals, Sequences, FiniteSets

CONSTANTS
    Worker,           \* requests that run at the same time
    Phone,            \* telephone numbers, in normal form
    Email,            \* addresses, in lower case
    Gstin,            \* tax numbers
    Configured,       \* delivery channels that are configured
    Development,      \* app_env is development or test
    IdentifierLimit,  \* codes per identifier and hour (5 in the code)
    IpLimit,          \* codes per client address and hour (20 in the code)
    MaxAttempts,      \* auth_otp_max_attempts
    MaxResends,       \* auth_otp_max_resends
    MaxChallenges, MaxSessions, MaxRotations   \* bounds of the model

ASSUME AccountsAssumption ==
    /\ IsFiniteSet(Worker)
    /\ Phone \cap Email = {}
    /\ Configured \subseteq {"telegram", "whatsapp", "email"} /\ Configured # {}
    /\ Development \in BOOLEAN
    /\ {IdentifierLimit, IpLimit, MaxAttempts} \subseteq Nat \ {0}
    /\ {MaxResends, MaxChallenges, MaxSessions, MaxRotations} \subseteq Nat

VARIABLES
    accounts,    \* users with their merchants, in the order of creation
    identities,  \* oauth_identities
    sessions,    \* refresh_sessions, in the order of creation
    otps,        \* otp_challenges: committed rows by id
    nextOtp,     \* how many ids were drawn, those of rolled back rows included
    oauths,      \* oauth_challenges, in the order of creation
    tokens,      \* registration tokens signed for an OAuth challenge
    shown,       \* _ACTIVE_OTPS: the code the bot shows for an identifier
    held,        \* row locks of each request
    tx,          \* what each request will commit
    wrong,       \* history: wrong guesses at the current code of a challenge
    unsent       \* history: codes the bot shows whose transaction was undone

vars == <<accounts, identities, sessions, otps, nextOtp, oauths, tokens, shown,
          held, tx, wrong, unsent>>
accountVars == <<accounts, identities>>
otpVars == <<otps, nextOtp, shown, wrong, unsent>>

Identifier == Phone \cup Email
None == 0          \* no row
NoValue == "none"
Purpose == {"LOGIN", "REGISTRATION"}

Account == [email : Email, phone : Phone \cup {NoValue}, gstin : Gstin \cup {NoValue},
            password : BOOLEAN, phone_verified : BOOLEAN]
Identity == [subject : Email, account : Nat]
RefreshSession == [account : Nat, status : {"active", "revoked"},
                   parent : Nat, origin : {"password", "refresh", "otp", "oauth"},
                   challenge : Nat]
OtpChallenge == [identifier : Identifier, purpose : Purpose, attempts : Nat, resend_count : Nat,
                 verified : BOOLEAN, consumed : BOOLEAN]
OAuthChallenge == [verified : BOOLEAN, consumed : BOOLEAN]

\* A code is named by its challenge and by how often that was resent.
Code == (1..MaxChallenges) \X (0..MaxResends)
NoCode == <<0, 0>>

Idle == [kind |-> "idle"]
Row(table, id) == [table |-> table, id |-> id]

-----------------------------------------------------------------------------
(* Lookups.                                                                 *)

\* SELECT ... FOR UPDATE returns at once: no other request holds the row.
Free(row) == \A w \in Worker : row \notin held[w]

ByPhone(p) == {a \in DOMAIN accounts : accounts[a].phone = p}
ByEmail(e) == {a \in DOMAIN accounts : accounts[a].email = e}
UserForIdentifier(i) == IF i \in Email THEN ByEmail(i) ELSE ByPhone(i)
IdentityOf(e) == {i \in identities : i.subject = e}

OtpsFor(i) == {c \in DOMAIN otps : otps[c].identifier = i}

\* get_current_principal: the session named by the access token is active.
Principal(s) == s \in DOMAIN sessions /\ sessions[s].status = "active"

\* _resolve_delivery_info: the chat the number is connected to (/connect keeps
\* it in the registry and with the merchant), else the account's address.
Fallback(i) == i \in Phone /\ ByPhone(i) # {}
Target(i, chat) == IF i \in Email \/ (Fallback(i) /\ ~chat) THEN "address" ELSE "phone"

\* MultiChannelOtpDelivery.send, with the channels of up answering: Telegram,
\* then the account's address, then WhatsApp, then the console of a
\* development server.  A failure of the last resort is raised.
Delivers(i, chat, up) ==
    LET Works(channel) == channel \in Configured \cap up
    IN IF Target(i, chat) = "address"
       THEN Works("email") \/ ("email" \notin Configured /\ Development)
       ELSE \/ Works("telegram")
            \/ "telegram" \in Configured /\ Fallback(i) /\ Works("email")
            \/ Works("whatsapp")
            \/ "whatsapp" \notin Configured /\ ((Fallback(i) /\ Works("email")) \/ Development)

-----------------------------------------------------------------------------
(* Sessions.                                                                *)

\* SessionService.issue
Issue(account, parent, origin, challenge) ==
    Append(sessions, [account |-> account, status |-> "active", parent |-> parent,
                      origin |-> origin, challenge |-> challenge])
CanIssue == Len(sessions) < MaxSessions
CanChallenge == nextOtp + Len(oauths) < MaxChallenges

\* POST /auth/token
Login(a) ==
    /\ a \in DOMAIN accounts /\ accounts[a].password /\ CanIssue
    /\ sessions' = Issue(a, None, "password", None)
    /\ UNCHANGED <<accountVars, otpVars, oauths, tokens, held, tx>>

\* Mutant of Refresh: SELECT without FOR UPDATE.
RefreshUnlocked(w, s) ==
    /\ tx[w] = Idle
    /\ Principal(s)
    /\ tx' = [tx EXCEPT ![w] = [kind |-> "refresh", session |-> s]]
    /\ UNCHANGED <<accountVars, sessions, otpVars, oauths, tokens, held>>

\* SessionService.refresh up to the commit: the row is locked and checked.
Refresh(w, s) ==
    /\ tx[w] = Idle
    /\ Principal(s) /\ Free(Row("session", s))
    /\ held' = [held EXCEPT ![w] = {Row("session", s)}]
    /\ tx' = [tx EXCEPT ![w] = [kind |-> "refresh", session |-> s]]
    /\ UNCHANGED <<accountVars, sessions, otpVars, oauths, tokens>>

\* The old session is revoked and its replacement inserted in one commit.
CommitRefresh(w) ==
    /\ tx[w].kind = "refresh" /\ Len(sessions) < MaxSessions + MaxRotations
    /\ LET s == tx[w].session IN
       sessions' = [Issue(sessions[s].account, s, "refresh", None)
                       EXCEPT ![s].status = "revoked"]
    /\ held' = [held EXCEPT ![w] = {}] /\ tx' = [tx EXCEPT ![w] = Idle]
    /\ UNCHANGED <<accountVars, otpVars, oauths, tokens>>

\* POST /auth/logout: the session of the access token and, if given, the one of
\* the refresh token.  revoke and revoke_token wait for the row locks.
Logout(s, t) ==
    /\ Principal(s) /\ t \in DOMAIN sessions
    /\ Free(Row("session", s)) /\ Free(Row("session", t))
    /\ sessions' = [sessions EXCEPT ![s].status = "revoked", ![t].status = "revoked"]
    /\ UNCHANGED <<accountVars, otpVars, oauths, tokens, held, tx>>

-----------------------------------------------------------------------------
(* One-time codes.                                                          *)

\* The two counts of OtpService.request.  They see committed rows, without a
\* lock.  All rows of the model are from one address and less than an hour old.
BelowLimits(i) ==
    /\ Cardinality(OtpsFor(i)) < IdentifierLimit
    /\ Cardinality(DOMAIN otps) < IpLimit

\* store_active_otp: the bot shows the latest code of an identifier.
Show(i, code) ==
    /\ shown' = [shown EXCEPT ![i] = code]
    /\ unsent' = unsent \ {shown[i]}

\* Mutant of RequestOtp: the code is not put where the bot finds it.
RequestOtpNotShown(w, i, purpose) ==
    /\ tx[w] = Idle /\ CanChallenge
    /\ BelowLimits(i)
    /\ nextOtp' = nextOtp + 1
    /\ tx' = [tx EXCEPT ![w] =
                 [kind |-> "request", id |-> nextOtp', identifier |-> i, purpose |-> purpose]]
    /\ Show(i, <<nextOtp', MaxResends>>)
    /\ UNCHANGED <<accountVars, sessions, otps, wrong, oauths, tokens, held>>

\* OtpService.request up to the delivery: the row is flushed, not committed;
\* the code is already in the registry of the bot.
RequestOtp(w, i, purpose) ==
    /\ tx[w] = Idle /\ CanChallenge
    /\ BelowLimits(i)
    /\ nextOtp' = nextOtp + 1
    /\ tx' = [tx EXCEPT ![w] =
                 [kind |-> "request", id |-> nextOtp', identifier |-> i, purpose |-> purpose]]
    /\ Show(i, <<nextOtp', 0>>)
    /\ UNCHANGED <<accountVars, sessions, otps, wrong, oauths, tokens, held>>

Challenge(i, purpose) ==
    [identifier |-> i, purpose |-> purpose, attempts |-> 0, resend_count |-> 0,
     verified |-> FALSE, consumed |-> FALSE]

CommitOtp(w, chat, up) ==
    /\ tx[w].kind = "request" /\ Delivers(tx[w].identifier, chat, up)
    /\ otps' = [c \in DOMAIN otps \cup {tx[w].id} |->
                   IF c = tx[w].id THEN Challenge(tx[w].identifier, tx[w].purpose) ELSE otps[c]]
    /\ tx' = [tx EXCEPT ![w] = Idle]
    /\ UNCHANGED <<accountVars, sessions, nextOtp, shown, wrong, unsent,
                   oauths, tokens, held>>

\* OtpService.resend up to the delivery
ResendOtp(w, c) ==
    /\ tx[w] = Idle
    /\ c \in DOMAIN otps /\ Free(Row("otp", c))
    /\ ~otps[c].consumed /\ ~otps[c].verified
    /\ otps[c].resend_count < MaxResends
    /\ held' = [held EXCEPT ![w] = {Row("otp", c)}]
    /\ tx' = [tx EXCEPT ![w] = [kind |-> "resend", id |-> c]]
    /\ Show(otps[c].identifier, <<c, otps[c].resend_count + 1>>)
    /\ UNCHANGED <<accountVars, sessions, otps, nextOtp, wrong, oauths, tokens>>

\* The new code replaces the old one and gets attempts of its own.
Resent(row) == [row EXCEPT !.attempts = 0, !.resend_count = @ + 1]

CommitResend(w, chat, up) ==
    /\ tx[w].kind = "resend" /\ Delivers(otps[tx[w].id].identifier, chat, up)
    /\ LET c == tx[w].id IN
       /\ otps' = [otps EXCEPT ![c] = Resent(@)]
       /\ wrong' = IF otps'[c].resend_count = otps[c].resend_count THEN wrong
                   ELSE [wrong EXCEPT ![c] = 0]
    /\ held' = [held EXCEPT ![w] = {}] /\ tx' = [tx EXCEPT ![w] = Idle]
    /\ UNCHANGED <<accountVars, sessions, nextOtp, shown, unsent, oauths, tokens>>

\* The delivery raises because no channel answers, or the commit fails after
\* it: the transaction is rolled back, the registry is not.
RollbackOtp(w) ==
    /\ tx[w].kind \in {"request", "resend"}
    /\ unsent' = unsent \cup ({shown[i] : i \in Identifier} \cap
          {<<tx[w].id, IF tx[w].kind = "request" THEN 0 ELSE otps[tx[w].id].resend_count + 1>>})
    /\ held' = [held EXCEPT ![w] = {}] /\ tx' = [tx EXCEPT ![w] = Idle]
    /\ UNCHANGED <<accountVars, sessions, otps, nextOtp, shown, wrong, oauths, tokens>>

\* Mutant of Failed: InvalidOtpError rolls the attempt back.
FailedUncounted(row) == row

\* A wrong guess is committed too; the one that reaches the limit ends the
\* challenge, so no challenge is ever found with its attempts used up.
Failed(row) == [row EXCEPT !.attempts = @ + 1, !.consumed = row.attempts + 1 >= MaxAttempts]

\* OtpService.verify under the row lock.  A right code signs an existing
\* account in, or opens a registration, or (LOGIN without account) is used up.
VerifyOtp(c, right) ==
    /\ c \in DOMAIN otps /\ Free(Row("otp", c))
    /\ ~otps[c].consumed /\ ~otps[c].verified
    /\ LET users == UserForIdentifier(otps[c].identifier) IN
       \/ /\ ~right
          /\ otps' = [otps EXCEPT ![c] = Failed(@)]
          /\ wrong' = [wrong EXCEPT ![c] = @ + 1]
          /\ UNCHANGED sessions
       \/ /\ right /\ users # {} /\ CanIssue
          /\ otps' = [otps EXCEPT ![c].attempts = @ + 1, ![c].verified = TRUE, ![c].consumed = TRUE]
          /\ \E a \in users : sessions' = Issue(a, None, "otp", c)
          /\ UNCHANGED wrong
       \/ /\ right /\ users = {}
          /\ otps' = [otps EXCEPT ![c].attempts = @ + 1, ![c].verified = TRUE,
                                  ![c].consumed = otps[c].purpose # "REGISTRATION"]
          /\ UNCHANGED <<sessions, wrong>>
    /\ UNCHANGED <<accountVars, nextOtp, shown, unsent, oauths, tokens, held, tx>>

-----------------------------------------------------------------------------
(* Registration and OAuth.                                                  *)

NewAccount(e, p, g, byOtp, withPassword) ==
    [email |-> e, phone |-> p, gstin |-> g, password |-> withPassword,
     phone_verified |-> byOtp]

\* The duplicate checks of RegistrationService.register: committed rows only.
NoDuplicate(e, p, g) ==
    /\ ByEmail(e) = {}
    /\ p # NoValue => ByPhone(p) = {}
    /\ g # NoValue => \A a \in DOMAIN accounts : accounts[a].gstin # g

\* Mutant of RegisterByOtp: the phone is not compared with the verified one.
RegisterByOtpAnyPhone(w, c, e, p, g) ==
    /\ tx[w] = Idle
    /\ c \in DOMAIN otps /\ Free(Row("otp", c))
    /\ otps[c].verified /\ ~otps[c].consumed /\ otps[c].purpose = "REGISTRATION"
    /\ NoDuplicate(e, p, g)
    /\ held' = [held EXCEPT ![w] = {Row("otp", c)}]
    /\ tx' = [tx EXCEPT ![w] = [kind |-> "register", table |-> "otp", id |-> c,
                                account |-> NewAccount(e, p, g, TRUE, TRUE)]]
    /\ UNCHANGED <<accountVars, sessions, otpVars, oauths, tokens>>

\* RegistrationService.register with a token of a verified code.  Such a token
\* exists exactly while the challenge is verified and not consumed.
RegisterByOtp(w, c, e, p, g) ==
    /\ tx[w] = Idle
    /\ c \in DOMAIN otps /\ Free(Row("otp", c))
    /\ otps[c].verified /\ ~otps[c].consumed /\ otps[c].purpose = "REGISTRATION"
    /\ p = otps[c].identifier
    /\ NoDuplicate(e, p, g)
    /\ held' = [held EXCEPT ![w] = {Row("otp", c)}]
    /\ tx' = [tx EXCEPT ![w] = [kind |-> "register", table |-> "otp", id |-> c,
                                account |-> NewAccount(e, p, g, TRUE, TRUE)]]
    /\ UNCHANGED <<accountVars, sessions, otpVars, oauths, tokens>>

\* The same with a token of an OAuth challenge: the e-mail is the provider's.
RegisterByOAuth(w, token, p, g) ==
    /\ tx[w] = Idle
    /\ token \in tokens /\ Free(Row("oauth", token.challenge))
    /\ oauths[token.challenge].verified /\ ~oauths[token.challenge].consumed
    /\ NoDuplicate(token.subject, p, g)
    /\ held' = [held EXCEPT ![w] = {Row("oauth", token.challenge)}]
    /\ tx' = [tx EXCEPT ![w] = [kind |-> "register", table |-> "oauth", id |-> token.challenge,
                                account |-> NewAccount(token.subject, p, g, FALSE, FALSE)]]
    /\ UNCHANGED <<accountVars, sessions, otpVars, oauths, tokens>>

\* The unique constraints of users.email and merchants.phone_number.
Unique(account) ==
    /\ ByEmail(account.email) = {}
    /\ account.phone # NoValue => ByPhone(account.phone) = {}

\* Mutant of CommitRegister: the challenge of an OAuth registration stays open.
CommitRegisterStaysOpen(w) ==
    /\ tx[w].kind = "register" /\ Unique(tx[w].account) /\ CanIssue
    /\ accounts' = Append(accounts, tx[w].account)
    /\ identities' = identities \cup
          (IF tx[w].table = "oauth"
           THEN {[subject |-> tx[w].account.email, account |-> Len(accounts')]} ELSE {})
    /\ otps' = IF tx[w].table = "otp" THEN [otps EXCEPT ![tx[w].id].consumed = TRUE] ELSE otps
    /\ sessions' = Issue(Len(accounts'), None, tx[w].table, tx[w].id)
    /\ held' = [held EXCEPT ![w] = {}] /\ tx' = [tx EXCEPT ![w] = Idle]
    /\ UNCHANGED <<nextOtp, shown, wrong, unsent, oauths, tokens>>

\* Merchant, user, store, identity, session and the used challenge in one
\* commit.  The identity's own constraint holds, since the account is new and
\* a subject with an identity has an account with its e-mail.
CommitRegister(w) ==
    /\ tx[w].kind = "register" /\ Unique(tx[w].account) /\ CanIssue
    /\ tx[w].table = "oauth" => IdentityOf(tx[w].account.email) = {}
    /\ accounts' = Append(accounts, tx[w].account)
    /\ identities' = identities \cup
          (IF tx[w].table = "oauth"
           THEN {[subject |-> tx[w].account.email, account |-> Len(accounts')]} ELSE {})
    /\ otps' = IF tx[w].table = "otp" THEN [otps EXCEPT ![tx[w].id].consumed = TRUE] ELSE otps
    /\ oauths' = IF tx[w].table = "oauth" THEN [oauths EXCEPT ![tx[w].id].consumed = TRUE] ELSE oauths
    /\ sessions' = Issue(Len(accounts'), None, tx[w].table, tx[w].id)
    /\ held' = [held EXCEPT ![w] = {}] /\ tx' = [tx EXCEPT ![w] = Idle]
    /\ UNCHANGED <<nextOtp, shown, wrong, unsent, tokens>>

\* OAuthService.start, for /start and /authorize
StartOAuth ==
    /\ CanChallenge
    /\ oauths' = Append(oauths, [verified |-> FALSE, consumed |-> FALSE])
    /\ UNCHANGED <<accountVars, sessions, otpVars, tokens, held, tx>>

\* OAuthService.exchange up to the commit, for /exchange and /callback: the
\* provider vouches for subject e; what follows is decided by what is read now.
Exchange(w, o, e) ==
    /\ tx[w] = Idle
    /\ o \in DOMAIN oauths /\ Free(Row("oauth", o))
    /\ ~oauths[o].consumed
    /\ held' = [held EXCEPT ![w] = {Row("oauth", o)}]
    /\ \/ \E i \in IdentityOf(e) :
             tx' = [tx EXCEPT ![w] = [kind |-> "signin", id |-> o, account |-> i.account,
                                      subject |-> e, attach |-> FALSE]]
       \/ /\ IdentityOf(e) = {}
          /\ \E a \in ByEmail(e) :
                tx' = [tx EXCEPT ![w] = [kind |-> "signin", id |-> o, account |-> a,
                                         subject |-> e, attach |-> TRUE]]
       \/ /\ IdentityOf(e) = {} /\ ByEmail(e) = {}
          /\ tx' = [tx EXCEPT ![w] = [kind |-> "enrol", id |-> o, subject |-> e]]
    /\ UNCHANGED <<accountVars, sessions, otpVars, oauths, tokens>>

\* The same for /link: the principal asks to be linked with subject e.
Link(w, o, e, s) ==
    /\ tx[w] = Idle /\ Principal(s)
    /\ o \in DOMAIN oauths /\ Free(Row("oauth", o))
    /\ ~oauths[o].consumed
    /\ \A i \in IdentityOf(e) : i.account = sessions[s].account
    /\ held' = [held EXCEPT ![w] = {Row("oauth", o)}]
    /\ tx' = [tx EXCEPT ![w] = [kind |-> "link", id |-> o, account |-> sessions[s].account,
                                subject |-> e, attach |-> IdentityOf(e) = {}]]
    /\ UNCHANGED <<accountVars, sessions, otpVars, oauths, tokens>>

\* The unique constraints of oauth_identities: subject, and account.
Attachable(e, a) == \A i \in identities : i.subject # e /\ i.account # a

Attach(w) ==
    /\ tx[w].attach => Attachable(tx[w].subject, tx[w].account)
    /\ identities' = identities \cup
          (IF tx[w].attach THEN {[subject |-> tx[w].subject, account |-> tx[w].account]} ELSE {})

\* Each outcome of exchange with the stamp it puts on the challenge.
CommitExchange(w) ==
    /\ \/ /\ tx[w].kind = "signin" /\ CanIssue /\ Attach(w)
          /\ sessions' = Issue(tx[w].account, None, "oauth", tx[w].id)
          /\ oauths' = [oauths EXCEPT ![tx[w].id].consumed = TRUE]
          /\ UNCHANGED tokens
       \/ /\ tx[w].kind = "link" /\ Attach(w)
          /\ oauths' = [oauths EXCEPT ![tx[w].id].consumed = TRUE]
          /\ UNCHANGED <<sessions, tokens>>
       \/ /\ tx[w].kind = "enrol"
          /\ oauths' = [oauths EXCEPT ![tx[w].id].verified = TRUE]
          /\ tokens' = tokens \cup {[challenge |-> tx[w].id, subject |-> tx[w].subject]}
          /\ UNCHANGED <<sessions, identities>>
    /\ held' = [held EXCEPT ![w] = {}] /\ tx' = [tx EXCEPT ![w] = Idle]
    /\ UNCHANGED <<accounts, otpVars>>

\* A unique constraint is violated, a commit fails, or the client is gone.
Abort(w) ==
    /\ tx[w].kind \in {"refresh", "register", "signin", "link", "enrol"}
    /\ held' = [held EXCEPT ![w] = {}] /\ tx' = [tx EXCEPT ![w] = Idle]
    /\ UNCHANGED <<accountVars, sessions, otpVars, oauths, tokens>>

\* The process restarts: requests and the registry of the bot are lost.
Restart ==
    /\ \E w \in Worker : tx[w] # Idle
    /\ held' = [w \in Worker |-> {}] /\ tx' = [w \in Worker |-> Idle]
    /\ shown' = [i \in Identifier |-> NoCode] /\ unsent' = {}
    /\ UNCHANGED <<accountVars, sessions, otps, nextOtp, wrong, oauths, tokens>>

-----------------------------------------------------------------------------
Init ==
    /\ accounts = <<>> /\ identities = {} /\ sessions = <<>>
    /\ otps = <<>> /\ nextOtp = 0 /\ oauths = <<>> /\ tokens = {}
    /\ shown = [i \in Identifier |-> NoCode]
    /\ held = [w \in Worker |-> {}] /\ tx = [w \in Worker |-> Idle]
    /\ wrong = [c \in 1..MaxChallenges |-> 0] /\ unsent = {}

SessionStep ==
    \/ \E a \in DOMAIN accounts : Login(a)
    \/ \E s, t \in DOMAIN sessions : Logout(s, t)
    \/ \E w \in Worker : CommitRefresh(w) \/ \E s \in DOMAIN sessions : Refresh(w, s)

OtpStep ==
    \/ \E w \in Worker, i \in Identifier, purpose \in Purpose : RequestOtp(w, i, purpose)
    \/ \E w \in Worker, chat \in BOOLEAN, up \in SUBSET Configured :
          CommitOtp(w, chat, up) \/ CommitResend(w, chat, up)
    \/ \E w \in Worker : RollbackOtp(w)
    \/ \E w \in Worker, c \in DOMAIN otps : ResendOtp(w, c)
    \/ \E c \in DOMAIN otps, right \in BOOLEAN : VerifyOtp(c, right)

RegistrationStep ==
    \E w \in Worker, g \in Gstin \cup {NoValue} :
        \/ \E c \in DOMAIN otps, e \in Email, p \in Phone : RegisterByOtp(w, c, e, p, g)
        \/ \E token \in tokens, p \in Phone \cup {NoValue} : RegisterByOAuth(w, token, p, g)
        \/ CommitRegister(w)

OAuthStep ==
    \/ StartOAuth
    \/ \E w \in Worker, o \in DOMAIN oauths, e \in Email :
          \/ Exchange(w, o, e)
          \/ \E s \in DOMAIN sessions : Link(w, o, e, s)
    \/ \E w \in Worker : CommitExchange(w)

Next ==
    \/ SessionStep \/ OtpStep \/ RegistrationStep \/ OAuthStep
    \/ \E w \in Worker : Abort(w)
    \/ Restart

Spec == Init /\ [][Next]_vars

-----------------------------------------------------------------------------
(* Properties.                                                              *)

\* The rows hold values of their columns' types; a code has at most
\* MaxAttempts attempts and MaxResends successors.
TypeOK ==
    /\ accounts \in Seq(Account) /\ identities \subseteq Identity
    /\ sessions \in Seq(RefreshSession) /\ oauths \in Seq(OAuthChallenge)
    /\ DOMAIN otps \subseteq 1..nextOtp /\ \A c \in DOMAIN otps : otps[c] \in OtpChallenge
    /\ nextOtp \in 0..MaxChallenges
    /\ tokens \subseteq [challenge : DOMAIN oauths, subject : Email]
    /\ shown \in [Identifier -> Code \cup {NoCode}]
    /\ \A c \in DOMAIN otps : otps[c].attempts <= MaxAttempts /\ otps[c].resend_count <= MaxResends

\* One proof of identity opens at most one session: whichever requests race
\* with it, a one-time code or an OAuth challenge that signed somebody in, or
\* paid for a registration, is never accepted again.
ChallengeUsedOnce ==
    \A s, t \in DOMAIN sessions :
        /\ sessions[s].origin = sessions[t].origin
        /\ sessions[s].challenge = sessions[t].challenge
        /\ sessions[s].challenge # None
        => s = t

\* A code can be guessed at most MaxAttempts times, restarts, resends and
\* parallel guesses included.
GuessesBounded == \A c \in 1..MaxChallenges : wrong[c] <= MaxAttempts

\* The counts are read without a lock, so requests that run at the same time
\* can pass the hourly limit together; but by no more than their number.
OvershootBounded ==
    \A i \in Identifier :
        Cardinality(OtpsFor(i)) <= IdentifierLimit + Cardinality(Worker) - 1

\* Codes are limited, in how often one can be guessed and in how many are
\* sent, whatever runs at the same time.
CodesBounded == TypeOK /\ GuessesBounded /\ OvershootBounded

\* No two accounts share an address, a telephone number or a provider's
\* account, although the duplicate checks of a registration read no
\* uncommitted rows.
AccountsDistinct ==
    /\ \A a, b \in DOMAIN accounts : a # b =>
          /\ accounts[a].email # accounts[b].email
          /\ accounts[a].phone = accounts[b].phone => accounts[a].phone = NoValue
    /\ \A i, j \in identities : i.subject = j.subject \/ i.account = j.account => i = j

\* An account whose telephone number counts as verified was opened with a
\* challenge for that number, which is used up.
PhoneProven ==
    \A a \in DOMAIN accounts : accounts[a].phone_verified =>
        \E c \in DOMAIN otps :
            /\ otps[c].identifier = accounts[a].phone
            /\ otps[c].verified /\ otps[c].consumed

\* Every account is somebody's own: it shares nothing that identifies it, and
\* its telephone number was proven.
AccountsGenuine == AccountsDistinct /\ PhoneProven

Sending(c) == \E w \in Worker : tx[w].kind \in {"request", "resend"} /\ tx[w].id = c

\* What the bot shows is the code that opens the challenge, unless that code
\* is just being sent or could not be sent or saved.
ShownCodeIsCurrent ==
    \A i \in Identifier : shown[i] # NoCode =>
        \/ shown[i] \in unsent \/ Sending(shown[i][1])
        \/ /\ shown[i][1] \in DOMAIN otps
           /\ shown[i][2] = otps[shown[i][1]].resend_count

\* Refresh tokens rotate: a session is replaced only while it is active, and
\* is revoked by the same commit.  So a token that was used, revoked or
\* presented twice at the same moment never leads to a second session.
RotationIsAtomic ==
    [][\A s \in DOMAIN sessions' \ DOMAIN sessions : sessions'[s].origin = "refresh" =>
          /\ sessions[sessions'[s].parent].status # "revoked"
          /\ sessions'[sessions'[s].parent].status = "revoked"]_vars
=============================================================================
