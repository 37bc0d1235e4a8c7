--------------------------- MODULE AccountsProofs ---------------------------
(***************************************************************************)
(* Proofs about Accounts, for any number of requests at the same time, any  *)
(* people and any limits.                                                   *)
(*                                                                         *)
(* A request between its read and its commit relies on what it has read.    *)
(* It may: the row it read is locked (LocksSound), every step that changes  *)
(* a row needs its lock, and so what was read is still true (TxsSound).     *)
(* SessionsSound ties a session to the used challenge that opened it,       *)
(* OtpsSound the guesses to the attempts, ShownSound what the bot shows to  *)
(* the challenges, and CountSound the codes sent to the requests that may   *)
(* still send one.                                                          *)
(***************************************************************************)
EXTENDS Accounts, FiniteSetTheorems, SequenceTheorems, TLAPS

\* The row locks a request needs until its commit.
Locks(t) ==
    IF t.kind = "refresh" THEN {Row("session", t.session)}
    ELSE IF t.kind = "resend" THEN {Row("otp", t.id)}
    ELSE IF t.kind = "register" THEN {Row(t.table, t.id)}
    ELSE IF t.kind \in {"signin", "link", "enrol"} THEN {Row("oauth", t.id)}
    ELSE {}

LocksSound ==
    /\ DOMAIN held = Worker
    /\ \A w \in Worker : held[w] = Locks(tx[w])
    /\ \A v, w \in Worker : v # w => held[v] \cap held[w] = {}

RefreshSound(w) ==
    /\ tx[w].session \in DOMAIN sessions
    /\ sessions[tx[w].session].status = "active"

RequestSound(w) ==
    /\ tx[w].id \in 1..nextOtp
    /\ tx[w].id \notin DOMAIN otps
    /\ tx[w].identifier \in Identifier
    /\ tx[w].purpose \in Purpose
    /\ \A i \in Identifier :
          shown[i][1] = tx[w].id => i = tx[w].identifier /\ shown[i] = <<tx[w].id, 0>>

ResendSound(w) ==
    /\ tx[w].id \in DOMAIN otps
    /\ ~otps[tx[w].id].verified /\ ~otps[tx[w].id].consumed
    /\ otps[tx[w].id].resend_count < MaxResends
    /\ \A i \in Identifier :
          shown[i][1] = tx[w].id => shown[i] = <<tx[w].id, otps[tx[w].id].resend_count + 1>>

RegisterSound(w) ==
    /\ tx[w].account \in Account
    /\ \/ /\ tx[w].table = "otp"
          /\ tx[w].id \in DOMAIN otps
          /\ otps[tx[w].id].verified /\ ~otps[tx[w].id].consumed
          /\ otps[tx[w].id].identifier = tx[w].account.phone
       \/ /\ tx[w].table = "oauth"
          /\ tx[w].id \in DOMAIN oauths
          /\ ~oauths[tx[w].id].consumed
          /\ ~tx[w].account.phone_verified

ExchangeSound(w) ==
    /\ tx[w].id \in DOMAIN oauths
    /\ ~oauths[tx[w].id].consumed
    /\ tx[w].subject \in Email
    /\ tx[w].kind # "enrol" => tx[w].account \in DOMAIN accounts

TxSound(w) ==
    /\ tx[w].kind \in {"idle", "refresh", "request", "resend", "register", "signin", "link", "enrol"}
    /\ tx[w].kind = "refresh" => RefreshSound(w)
    /\ tx[w].kind = "request" => RequestSound(w)
    /\ tx[w].kind = "resend" => ResendSound(w)
    /\ tx[w].kind = "register" => RegisterSound(w)
    /\ tx[w].kind \in {"signin", "link", "enrol"} => ExchangeSound(w)

TxsSound ==
    /\ DOMAIN tx = Worker
    /\ \A w \in Worker : TxSound(w)
    /\ \A v, w \in Worker :
          v # w /\ tx[v].kind = "request" /\ tx[w].kind = "request" => tx[v].id # tx[w].id

\* A session opened by a challenge has used it up.
SessionsSound ==
    \A s \in DOMAIN sessions :
       /\ sessions[s].account \in DOMAIN accounts
       /\ sessions[s].origin = "otp" =>
             sessions[s].challenge \in DOMAIN otps /\ otps[sessions[s].challenge].consumed
       /\ sessions[s].origin = "oauth" =>
             sessions[s].challenge \in DOMAIN oauths /\ oauths[sessions[s].challenge].consumed
       /\ sessions[s].origin \in {"password", "refresh"} => sessions[s].challenge = None

IdentitiesSound == \A i \in identities : i.account \in DOMAIN accounts

OtpsSound ==
    /\ wrong \in [1..MaxChallenges -> Nat]
    /\ \A c \in 1..MaxChallenges : c \notin DOMAIN otps => wrong[c] = 0
    /\ \A c \in DOMAIN otps :
          /\ wrong[c] <= otps[c].attempts
          /\ ~otps[c].verified /\ ~otps[c].consumed => otps[c].attempts < MaxAttempts

ShownSound ==
    /\ \A i, j \in Identifier : shown[i] = shown[j] /\ shown[i] # NoCode => i = j
    /\ \A i \in Identifier :
          /\ shown[i][1] <= nextOtp
          /\ shown[i][1] \in DOMAIN otps => otps[shown[i][1]].identifier = i

\* Requests that will add a code for identifier i when they commit.
Requesting(i) == {w \in Worker : tx[w].kind = "request" /\ tx[w].identifier = i}

CountSound ==
    \A i \in Identifier :
       Cardinality(OtpsFor(i)) + Cardinality(Requesting(i))
          <= IdentifierLimit + Cardinality(Worker) - 1

AccountsInv ==
    /\ TypeOK
    /\ LocksSound
    /\ TxsSound
    /\ SessionsSound
    /\ IdentitiesSound
    /\ OtpsSound
    /\ ShownSound
    /\ CountSound
    /\ ChallengeUsedOnce
    /\ AccountsGenuine
    /\ ShownCodeIsCurrent

-----------------------------------------------------------------------------
(* Locks, and what a request in the middle may rely on.                     *)

\* A lock names one row of one table.
LEMMA RowIsRow ==
    ASSUME NEW t, NEW a, NEW u, NEW b, Row(t, a) = Row(u, b)
    PROVE  t = u /\ a = b
  BY DEF Row

\* What a request needs and what is locked for it are the same.
LEMMA LockFacts ==
    ASSUME LocksSound, NEW w \in Worker
    PROVE  /\ tx[w].kind = "idle" => held[w] = {}
           /\ tx[w].kind = "request" => held[w] = {}
           /\ tx[w].kind = "refresh" => held[w] = {Row("session", tx[w].session)}
           /\ tx[w].kind = "resend" => held[w] = {Row("otp", tx[w].id)}
           /\ tx[w].kind = "register" => held[w] = {Row(tx[w].table, tx[w].id)}
           /\ tx[w].kind \in {"signin", "link", "enrol"} => held[w] = {Row("oauth", tx[w].id)}
  BY DEF LocksSound, Locks

\* The rows of the types, by index.
LEMMA TableFacts ==
    ASSUME TypeOK
    PROVE  /\ Len(sessions) \in Nat /\ DOMAIN sessions = 1..Len(sessions)
           /\ Len(accounts) \in Nat /\ DOMAIN accounts = 1..Len(accounts)
           /\ Len(oauths) \in Nat /\ DOMAIN oauths = 1..Len(oauths)
           /\ \A s \in DOMAIN sessions : sessions[s] \in RefreshSession
           /\ \A a \in DOMAIN accounts : accounts[a] \in Account
           /\ \A o \in DOMAIN oauths : oauths[o] \in OAuthChallenge
           /\ nextOtp \in Nat /\ MaxChallenges \in Nat /\ nextOtp <= MaxChallenges
           /\ DOMAIN otps \subseteq 1..MaxChallenges /\ DOMAIN otps \subseteq Nat
           /\ IdentifierLimit \in Nat \ {0} /\ MaxAttempts \in Nat \ {0} /\ MaxResends \in Nat
  <1>1. /\ sessions \in Seq(RefreshSession) /\ accounts \in Seq(Account)
        /\ oauths \in Seq(OAuthChallenge)
    BY DEF TypeOK
  <1>2. /\ IdentifierLimit \in Nat \ {0} /\ MaxAttempts \in Nat \ {0} /\ MaxResends \in Nat
        /\ MaxChallenges \in Nat
    BY AccountsAssumption
  <1>3. nextOtp \in Nat /\ nextOtp <= MaxChallenges
    BY <1>2 DEF TypeOK
  <1>4. DOMAIN otps \subseteq 1..MaxChallenges
    BY <1>2, <1>3 DEF TypeOK
  <1>5. QED
    BY <1>1, <1>2, <1>3, <1>4, LenProperties, ElementOfSeq

\* A step leaves what request v has read as it is: rows stay, v's own rows
\* are not changed, and v's code is not replaced by another of its challenge.
Undisturbed(v) ==
    /\ DOMAIN accounts \subseteq DOMAIN accounts'
    /\ \A s \in DOMAIN sessions :
          s \in DOMAIN sessions' /\ (Row("session", s) \in held[v] => sessions'[s] = sessions[s])
    /\ \A c \in DOMAIN otps :
          c \in DOMAIN otps' /\ (Row("otp", c) \in held[v] => otps'[c] = otps[c])
    /\ \A o \in DOMAIN oauths :
          o \in DOMAIN oauths' /\ (Row("oauth", o) \in held[v] => oauths'[o] = oauths[o])
    /\ nextOtp <= nextOtp' /\ nextOtp' \in Nat
    /\ tx[v].kind = "request" => tx[v].id \notin DOMAIN otps'
    /\ tx[v].kind \in {"request", "resend"} =>
          \A i \in Identifier : shown'[i] = shown[i] \/ shown'[i][1] # tx[v].id

\* Then v may still commit what it meant to.
LEMMA TxKept ==
    ASSUME TypeOK, LocksSound, NEW v \in Worker, TxSound(v), tx'[v] = tx[v], Undisturbed(v)
    PROVE  TxSound(v)'
  <1> DEFINE t == tx[v]
  <1>0. tx'[v] = t /\ nextOtp \in Nat
    BY TableFacts
  <1>1. (tx[v].kind = "refresh" => RefreshSound(v))'
    <2> SUFFICES ASSUME t.kind = "refresh" PROVE RefreshSound(v)'
      BY <1>0
    <2>1. RefreshSound(v) /\ Row("session", t.session) \in held[v]
      BY LockFacts DEF TxSound
    <2>2. QED
      BY <1>0, <2>1 DEF RefreshSound, Undisturbed
  <1>2. (tx[v].kind = "request" => RequestSound(v))'
    <2> SUFFICES ASSUME t.kind = "request" PROVE RequestSound(v)'
      BY <1>0
    <2>1. RequestSound(v)
      BY DEF TxSound
    <2>2. t.id \in 1..nextOtp'
      BY <1>0, <2>1 DEF RequestSound, Undisturbed
    <2>3. t.id \notin DOMAIN otps'
      BY DEF Undisturbed
    <2>4. \A i \in Identifier :
             shown'[i][1] = t.id => i = t.identifier /\ shown'[i] = <<t.id, 0>>
      BY <2>1 DEF RequestSound, Undisturbed
    <2>5. QED
      BY <1>0, <2>1, <2>2, <2>3, <2>4 DEF RequestSound
  <1>3. (tx[v].kind = "resend" => ResendSound(v))'
    <2> SUFFICES ASSUME t.kind = "resend" PROVE ResendSound(v)'
      BY <1>0
    <2>1. ResendSound(v) /\ Row("otp", t.id) \in held[v]
      BY LockFacts DEF TxSound
    <2>2. t.id \in DOMAIN otps' /\ otps'[t.id] = otps[t.id]
      BY <2>1 DEF ResendSound, Undisturbed
    <2>3. \A i \in Identifier :
             shown'[i][1] = t.id => shown'[i] = <<t.id, otps[t.id].resend_count + 1>>
      BY <2>1 DEF ResendSound, Undisturbed
    <2>4. QED
      BY <1>0, <2>1, <2>2, <2>3 DEF ResendSound
  <1>4. (tx[v].kind = "register" => RegisterSound(v))'
    <2> SUFFICES ASSUME t.kind = "register" PROVE RegisterSound(v)'
      BY <1>0
    <2>1. RegisterSound(v) /\ Row(t.table, t.id) \in held[v]
      BY LockFacts DEF TxSound
    <2>2. QED
      BY <1>0, <2>1 DEF RegisterSound, Undisturbed
  <1>5. (tx[v].kind \in {"signin", "link", "enrol"} => ExchangeSound(v))'
    <2> SUFFICES ASSUME t.kind \in {"signin", "link", "enrol"} PROVE ExchangeSound(v)'
      BY <1>0
    <2>1. ExchangeSound(v) /\ Row("oauth", t.id) \in held[v]
      BY LockFacts DEF TxSound
    <2>2. QED
      BY <1>0, <2>1 DEF ExchangeSound, Undisturbed
  <1>6. QED
    BY <1>0, <1>1, <1>2, <1>3, <1>4, <1>5 DEF TxSound

\* A step of request w that takes only free locks and disturbs nobody else.
LEMMA RequestStep ==
    ASSUME TypeOK, LocksSound, TxsSound, NEW w \in Worker,
           DOMAIN tx' = Worker, DOMAIN held' = Worker,
           \A v \in Worker \ {w} : tx'[v] = tx[v] /\ held'[v] = held[v] /\ Undisturbed(v),
           TxSound(w)', held'[w] = Locks(tx'[w]),
           \A row \in held'[w] : row \in held[w] \/ Free(row),
           tx'[w].kind = "request" => tx'[w].id > nextOtp
    PROVE  LocksSound' /\ TxsSound'
  <1>1. LocksSound'
    <2>1. \A v \in Worker : held'[v] = Locks(tx'[v])
      BY DEF LocksSound
    <2>2. \A v \in Worker \ {w} : held'[v] \cap held'[w] = {}
      BY DEF LocksSound, Free
    <2>3. QED
      BY <2>1, <2>2 DEF LocksSound
  <1>2. TxsSound'
    <2>1. \A v \in Worker : TxSound(v)'
      <3>1. ASSUME NEW v \in Worker, v # w PROVE TxSound(v)'
        BY <3>1, TxKept DEF TxsSound
      <3>2. QED
        BY <3>1
    <2>2. \A v \in Worker \ {w} : tx[v].kind = "request" /\ tx'[w].kind = "request" =>
             tx[v].id # tx'[w].id
      <3>1. ASSUME NEW v \in Worker \ {w}, tx[v].kind = "request", tx'[w].kind = "request"
            PROVE  tx[v].id # tx'[w].id
        <4>1. tx[v].id \in 1..nextOtp /\ nextOtp \in Nat /\ tx'[w].id > nextOtp
          BY <3>1, TableFacts DEF TxsSound, TxSound, RequestSound
        <4>2. QED
          BY <4>1
      <3>2. QED
        BY <3>1
    <2>3. QED
      BY <2>1, <2>2 DEF TxsSound
  <1>3. QED
    BY <1>1, <1>2

\* A step that no open request takes.
LEMMA PassingStep ==
    ASSUME TypeOK, LocksSound, TxsSound, UNCHANGED <<tx, held>>,
           \A v \in Worker : Undisturbed(v)
    PROVE  LocksSound' /\ TxsSound'
  <1>1. LocksSound'
    BY DEF LocksSound
  <1>2. \A v \in Worker : TxSound(v)'
    BY TxKept DEF TxsSound
  <1>3. QED
    BY <1>1, <1>2 DEF TxsSound

-----------------------------------------------------------------------------
(* Steps that read and lock, and steps that give up.                        *)

\* The tables are as they were.
SameTables == UNCHANGED <<accounts, identities, sessions, otps, nextOtp, oauths, tokens,
                          shown, wrong, unsent>>

\* Such a step disturbs nobody.
LEMMA SameTablesUndisturbed ==
    ASSUME TypeOK, TxsSound, SameTables, NEW v \in Worker
    PROVE  Undisturbed(v)
  BY TableFacts DEF SameTables, Undisturbed, TxsSound, TxSound, RequestSound

\* A step of w that writes no table and sends no code.
LEMMA LockStepInv ==
    ASSUME AccountsInv, NEW w \in Worker, SameTables,
           DOMAIN tx' = Worker, DOMAIN held' = Worker,
           \A v \in Worker \ {w} : tx'[v] = tx[v] /\ held'[v] = held[v],
           TxSound(w)', held'[w] = Locks(tx'[w]),
           \A row \in held'[w] : row \in held[w] \/ Free(row),
           tx[w].kind \notin {"request", "resend"}, tx'[w].kind \notin {"request", "resend"}
    PROVE  AccountsInv'
  <1>1. /\ TypeOK /\ LocksSound /\ TxsSound /\ SessionsSound /\ IdentitiesSound /\ OtpsSound
        /\ ShownSound /\ CountSound /\ ChallengeUsedOnce /\ AccountsGenuine /\ ShownCodeIsCurrent
    BY DEF AccountsInv
  <1>2. LocksSound' /\ TxsSound'
    BY <1>1, SameTablesUndisturbed, RequestStep
  <1>3. TypeOK' /\ SessionsSound' /\ IdentitiesSound' /\ OtpsSound' /\ ShownSound'
    BY <1>1 DEF SameTables, TypeOK, SessionsSound, IdentitiesSound, OtpsSound, ShownSound
  <1>4. CountSound'
    <2>1. \A i \in Identifier : Requesting(i)' = Requesting(i) /\ OtpsFor(i)' = OtpsFor(i)
      BY DEF Requesting, OtpsFor, SameTables
    <2>2. QED
      BY <1>1, <2>1 DEF CountSound
  <1>5. ChallengeUsedOnce' /\ AccountsGenuine'
    BY <1>1 DEF SameTables, ChallengeUsedOnce, AccountsGenuine, AccountsDistinct, PhoneProven
  <1>6. ShownCodeIsCurrent'
    <2>1. \A c : Sending(c) => Sending(c)'
      BY DEF Sending
    <2>2. QED
      BY <1>1, <2>1 DEF ShownCodeIsCurrent, SameTables
  <1>7. QED
    BY <1>2, <1>3, <1>4, <1>5, <1>6 DEF AccountsInv

\* A request gives up: its locks are released.
LEMMA AbortInv ==
    ASSUME AccountsInv, NEW w \in Worker, Abort(w)
    PROVE  AccountsInv'
  <1>1. TxsSound /\ LocksSound
    BY DEF AccountsInv
  <1>2. /\ DOMAIN tx' = Worker /\ DOMAIN held' = Worker
        /\ tx'[w] = Idle /\ held'[w] = {}
        /\ \A v \in Worker \ {w} : tx'[v] = tx[v] /\ held'[v] = held[v]
    BY <1>1 DEF Abort, TxsSound, LocksSound
  <1>3. SameTables /\ tx[w].kind \notin {"request", "resend"}
    BY DEF Abort, SameTables, accountVars, otpVars
  <1>4. tx'[w].kind = "idle"
    BY <1>2 DEF Idle
  <1>5. TxSound(w)' /\ held'[w] = Locks(tx'[w])
    BY <1>2, <1>4 DEF TxSound, Locks
  <1>6. QED
    BY <1>2, <1>3, <1>4, <1>5, LockStepInv

\* SessionService.refresh locks an active session.
LEMMA RefreshInv ==
    ASSUME AccountsInv, NEW w \in Worker, NEW s \in DOMAIN sessions, Refresh(w, s)
    PROVE  AccountsInv'
  <1>1. TxsSound /\ LocksSound
    BY DEF AccountsInv
  <1>2. /\ DOMAIN tx' = Worker /\ DOMAIN held' = Worker
        /\ tx'[w] = [kind |-> "refresh", session |-> s] /\ held'[w] = {Row("session", s)}
        /\ \A v \in Worker \ {w} : tx'[v] = tx[v] /\ held'[v] = held[v]
    BY <1>1 DEF Refresh, TxsSound, LocksSound
  <1>3. SameTables /\ tx[w].kind = "idle" /\ Free(Row("session", s))
    BY DEF Refresh, SameTables, accountVars, otpVars, Idle
  <1>4. tx'[w].kind = "refresh" /\ tx'[w].session = s
    BY <1>2
  <1>5. TxSound(w)' /\ held'[w] = Locks(tx'[w])
    BY <1>2, <1>3, <1>4 DEF TxSound, RefreshSound, Locks, SameTables, Refresh, Principal
  <1>6. QED
    BY <1>2, <1>3, <1>4, <1>5, LockStepInv

\* A registration of account, paid for by a challenge that is locked for it.
Registers(w, table, id, account) ==
    /\ tx' = [tx EXCEPT ![w] = [kind |-> "register", table |-> table, id |-> id,
                                account |-> account]]
    /\ held' = [held EXCEPT ![w] = {Row(table, id)}]
    /\ Free(Row(table, id))
    /\ table = "otp" => /\ id \in DOMAIN otps
                        /\ otps[id].verified /\ ~otps[id].consumed
                        /\ otps[id].identifier = account.phone
    /\ table = "oauth" => /\ id \in DOMAIN oauths
                          /\ ~oauths[id].consumed
                          /\ ~account.phone_verified
    /\ SameTables /\ tx[w].kind = "idle"

\* RegistrationService.register locks the challenge that pays for it.
LEMMA RegisterInv ==
    ASSUME AccountsInv, NEW w \in Worker, NEW g \in Gstin \cup {NoValue},
           \/ \E c \in DOMAIN otps, e \in Email, p \in Phone : RegisterByOtp(w, c, e, p, g)
           \/ \E token \in tokens, p \in Phone \cup {NoValue} : RegisterByOAuth(w, token, p, g)
    PROVE  AccountsInv'
  <1>1. TypeOK /\ TxsSound /\ LocksSound
    BY DEF AccountsInv
  <1>2. PICK table \in {"otp", "oauth"}, id \in Nat, account \in Account :
           Registers(w, table, id, account)
    <2>1. ASSUME NEW c \in DOMAIN otps, NEW e \in Email, NEW p \in Phone, RegisterByOtp(w, c, e, p, g)
          PROVE  \E table \in {"otp", "oauth"}, id \in Nat, account \in Account :
                    Registers(w, table, id, account)
      <3> DEFINE account == NewAccount(e, p, g, TRUE, TRUE)
      <3>1. account \in Account /\ account.phone = p
        BY DEF NewAccount, Account
      <3>2. c \in Nat
        BY <1>1, TableFacts
      <3>3. /\ tx' = [tx EXCEPT ![w] = [kind |-> "register", table |-> "otp", id |-> c,
                                        account |-> account]]
            /\ held' = [held EXCEPT ![w] = {Row("otp", c)}]
            /\ Free(Row("otp", c))
            /\ otps[c].verified /\ ~otps[c].consumed /\ p = otps[c].identifier
            /\ SameTables /\ tx[w].kind = "idle"
        BY <2>1 DEF RegisterByOtp, SameTables, accountVars, otpVars, Idle
      <3> HIDE DEF account
      <3>4. Registers(w, "otp", c, account)
        BY <3>1, <3>3 DEF Registers
      <3>5. QED
        BY <3>1, <3>2, <3>4
    <2>2. ASSUME NEW token \in tokens, NEW p \in Phone \cup {NoValue}, RegisterByOAuth(w, token, p, g)
          PROVE  \E table \in {"otp", "oauth"}, id \in Nat, account \in Account :
                    Registers(w, table, id, account)
      <3> DEFINE account == NewAccount(token.subject, p, g, FALSE, FALSE)
      <3>1. token.challenge \in DOMAIN oauths /\ token.subject \in Email
        BY <1>1 DEF TypeOK
      <3>2. account \in Account /\ ~account.phone_verified
        BY <3>1 DEF NewAccount, Account
      <3>3. token.challenge \in Nat
        BY <1>1, <3>1, TableFacts
      <3>4. PICK o \in DOMAIN oauths : o = token.challenge
        BY <3>1
      <3>5. /\ tx' = [tx EXCEPT ![w] = [kind |-> "register", table |-> "oauth", id |-> o,
                                        account |-> account]]
            /\ held' = [held EXCEPT ![w] = {Row("oauth", o)}]
            /\ Free(Row("oauth", o))
            /\ ~oauths[o].consumed
            /\ SameTables /\ tx[w].kind = "idle"
        BY <2>2, <3>4 DEF RegisterByOAuth, SameTables, accountVars, otpVars, Idle
      <3> HIDE DEF account
      <3>6. Registers(w, "oauth", o, account)
        BY <3>2, <3>4, <3>5 DEF Registers
      <3>7. QED
        BY <3>2, <3>3, <3>4, <3>6
    <2>3. QED
      BY <2>1, <2>2
  <1>3. SameTables /\ tx[w].kind = "idle"
    BY <1>2 DEF Registers
  <1>4. /\ DOMAIN tx' = Worker /\ DOMAIN held' = Worker
        /\ held'[w] = {Row(table, id)}
        /\ tx'[w].kind = "register" /\ tx'[w].table = table /\ tx'[w].id = id
        /\ tx'[w].account = account
        /\ \A v \in Worker \ {w} : tx'[v] = tx[v] /\ held'[v] = held[v]
    BY <1>1, <1>2 DEF TxsSound, LocksSound, Registers
  <1>5. TxSound(w)' /\ held'[w] = Locks(tx'[w])
    BY <1>2, <1>3, <1>4 DEF TxSound, RegisterSound, Locks, SameTables, Registers
  <1>6. Free(Row(table, id))
    BY <1>2 DEF Registers
  <1>7. QED
    BY <1>3, <1>4, <1>5, <1>6, LockStepInv

\* OAuthService.exchange locks the challenge that the provider answered.
LEMMA ExchangeInv ==
    ASSUME AccountsInv, NEW w \in Worker, NEW o \in DOMAIN oauths, NEW e \in Email,
           Exchange(w, o, e) \/ \E s \in DOMAIN sessions : Link(w, o, e, s)
    PROVE  AccountsInv'
  <1>1. TypeOK /\ TxsSound /\ LocksSound /\ IdentitiesSound /\ SessionsSound
    BY DEF AccountsInv
  <1>2. /\ DOMAIN tx' = Worker /\ DOMAIN held' = Worker
        /\ held'[w] = {Row("oauth", o)}
        /\ \A v \in Worker \ {w} : tx'[v] = tx[v] /\ held'[v] = held[v]
    BY <1>1 DEF Exchange, Link, TxsSound, LocksSound
  <1>3. /\ SameTables /\ tx[w].kind = "idle" /\ Free(Row("oauth", o))
        /\ ~oauths[o].consumed
    BY DEF Exchange, Link, SameTables, accountVars, otpVars, Idle
  <1>4. /\ tx'[w].kind \in {"signin", "link", "enrol"} /\ tx'[w].id = o /\ tx'[w].subject = e
        /\ tx'[w].kind # "enrol" => tx'[w].account \in DOMAIN accounts
    <2>1. ASSUME NEW i \in identities,
                 tx' = [tx EXCEPT ![w] = [kind |-> "signin", id |-> o, account |-> i.account,
                                          subject |-> e, attach |-> FALSE]]
          PROVE  <1>4
      BY <1>1, <2>1 DEF TxsSound, IdentitiesSound
    <2>2. ASSUME NEW a \in DOMAIN accounts,
                 tx' = [tx EXCEPT ![w] = [kind |-> "signin", id |-> o, account |-> a,
                                          subject |-> e, attach |-> TRUE]]
          PROVE  <1>4
      BY <1>1, <2>2 DEF TxsSound
    <2>3. CASE tx' = [tx EXCEPT ![w] = [kind |-> "enrol", id |-> o, subject |-> e]]
      BY <1>1, <2>3 DEF TxsSound
    <2>4. ASSUME NEW s \in DOMAIN sessions,
                 tx' = [tx EXCEPT ![w] = [kind |-> "link", id |-> o,
                                          account |-> sessions[s].account,
                                          subject |-> e, attach |-> IdentityOf(e) = {}]]
          PROVE  <1>4
      BY <1>1, <2>4 DEF TxsSound, SessionsSound
    <2>5. QED
      BY <2>1, <2>2, <2>3, <2>4 DEF Exchange, Link, IdentityOf, ByEmail
  <1>5. TxSound(w)' /\ held'[w] = Locks(tx'[w])
    BY <1>2, <1>3, <1>4 DEF TxSound, ExchangeSound, Locks, SameTables
  <1>6. QED
    BY <1>2, <1>3, <1>4, <1>5, LockStepInv

-----------------------------------------------------------------------------
(* Sessions.                                                                *)

\* A step that neither sends, saves nor drops a code.
LEMMA OtpsUntouched ==
    ASSUME OtpsSound, ShownSound, CountSound, ShownCodeIsCurrent, UNCHANGED otpVars,
           \A w \in Worker :
              \/ tx'[w] = tx[w]
              \/ /\ tx[w].kind \notin {"request", "resend"}
                 /\ tx'[w].kind \notin {"request", "resend"}
    PROVE  OtpsSound' /\ ShownSound' /\ CountSound' /\ ShownCodeIsCurrent'
  <1>1. UNCHANGED <<otps, nextOtp, shown, wrong, unsent>>
    BY DEF otpVars
  <1>2. OtpsSound' /\ ShownSound'
    BY <1>1 DEF OtpsSound, ShownSound
  <1>3. CountSound'
    <2>1. \A i \in Identifier : Requesting(i)' = Requesting(i) /\ OtpsFor(i)' = OtpsFor(i)
      BY <1>1 DEF Requesting, OtpsFor
    <2>2. QED
      BY <2>1 DEF CountSound
  <1>4. ShownCodeIsCurrent'
    <2>1. \A c : Sending(c) => Sending(c)'
      BY DEF Sending
    <2>2. QED
      BY <1>1, <2>1 DEF ShownCodeIsCurrent
  <1>5. QED
    BY <1>2, <1>3, <1>4

\* Accounts and challenges stay, and a used challenge stays used.
UsedStaysUsed ==
    /\ DOMAIN accounts \subseteq DOMAIN accounts'
    /\ \A c \in DOMAIN otps :
          c \in DOMAIN otps' /\ (otps[c].consumed => otps'[c].consumed)
    /\ \A o \in DOMAIN oauths :
          o \in DOMAIN oauths' /\ (oauths[o].consumed => oauths'[o].consumed)

\* SessionService.issue: a session opened by a challenge that was not used
\* before, or by none.
LEMMA IssueSound ==
    ASSUME AccountsInv, UsedStaysUsed,
           NEW account \in DOMAIN accounts', NEW origin \in {"password", "otp", "oauth"},
           NEW challenge \in Nat, account \in Nat,
           sessions' = Issue(account, None, origin, challenge),
           origin = "password" => challenge = None,
           origin = "otp" =>
              /\ challenge \in DOMAIN otps /\ ~otps[challenge].consumed
              /\ otps'[challenge].consumed,
           origin = "oauth" =>
              /\ challenge \in DOMAIN oauths /\ ~oauths[challenge].consumed
              /\ oauths'[challenge].consumed
    PROVE  /\ sessions' \in Seq(RefreshSession)
           /\ SessionsSound' /\ ChallengeUsedOnce'
           /\ \A s \in DOMAIN sessions : s \in DOMAIN sessions' /\ sessions'[s] = sessions[s]
           /\ \A s \in DOMAIN sessions' \ DOMAIN sessions : sessions'[s].origin # "refresh"
  <1> DEFINE x == [account |-> account, status |-> "active", parent |-> None,
                   origin |-> origin, challenge |-> challenge]
  <1>1. /\ TypeOK /\ SessionsSound /\ ChallengeUsedOnce
        /\ sessions \in Seq(RefreshSession) /\ Len(sessions) \in Nat
        /\ DOMAIN sessions = 1..Len(sessions)
    BY TableFacts DEF AccountsInv, TypeOK
  <1>2. /\ x \in RefreshSession /\ x.account = account /\ x.origin = origin
        /\ x.challenge = challenge
    BY DEF RefreshSession, None
  <1>3. sessions' = Append(sessions, x)
    BY DEF Issue
  <1> HIDE DEF x
  <1>4. PICK n \in Nat : n = Len(sessions) + 1
    BY <1>1
  <1>5. /\ sessions' \in Seq(RefreshSession) /\ Len(sessions') = n /\ sessions'[n] = x
        /\ \A s \in DOMAIN sessions : sessions'[s] = sessions[s]
    BY <1>1, <1>2, <1>3, <1>4, AppendProperties
  <1>6. DOMAIN sessions' = DOMAIN sessions \cup {n} /\ n \notin DOMAIN sessions
    <2>1. DOMAIN sessions' = 1..n
      BY <1>5, LenProperties
    <2>2. QED
      BY <1>1, <1>4, <2>1
  <1>7. SessionsSound'
    BY <1>1, <1>2, <1>5, <1>6 DEF SessionsSound, UsedStaysUsed
  <1>8. ChallengeUsedOnce'
    <2>1. \A s \in DOMAIN sessions :
             sessions[s].origin = origin /\ sessions[s].challenge = challenge => challenge = None
      BY <1>1 DEF SessionsSound
    <2>2. QED
      BY <1>1, <1>2, <1>5, <1>6, <2>1 DEF ChallengeUsedOnce
  <1>9. QED
    BY <1>2, <1>5, <1>6, <1>7, <1>8

\* POST /auth/token.
LEMMA LoginInv ==
    ASSUME AccountsInv, NEW a \in DOMAIN accounts, Login(a)
    PROVE  AccountsInv'
  <1>1. /\ TypeOK /\ LocksSound /\ TxsSound /\ SessionsSound /\ IdentitiesSound /\ OtpsSound
        /\ ShownSound /\ CountSound /\ ChallengeUsedOnce /\ AccountsGenuine /\ ShownCodeIsCurrent
    BY DEF AccountsInv
  <1>2. /\ UNCHANGED <<accounts, identities, otps, nextOtp, shown, wrong, unsent, oauths, tokens>>
        /\ UNCHANGED <<otpVars, held, tx>>
        /\ sessions' = Issue(a, None, "password", None)
    BY DEF Login, accountVars, otpVars
  <1>3. a \in Nat /\ None \in Nat /\ UsedStaysUsed
    BY <1>1, <1>2, TableFacts DEF UsedStaysUsed, None
  <1>4. /\ sessions' \in Seq(RefreshSession) /\ SessionsSound' /\ ChallengeUsedOnce'
        /\ \A s \in DOMAIN sessions : s \in DOMAIN sessions' /\ sessions'[s] = sessions[s]
    <2>1. a \in DOMAIN accounts'
      BY <1>2
    <2>2. QED
      BY <1>2, <1>3, <2>1, IssueSound
  <1>5. \A v \in Worker : Undisturbed(v)
    BY <1>1, <1>2, <1>4, TableFacts DEF Undisturbed, TxsSound, TxSound, RequestSound
  <1>6. LocksSound' /\ TxsSound'
    BY <1>1, <1>2, <1>5, PassingStep
  <1>7. OtpsSound' /\ ShownSound' /\ CountSound' /\ ShownCodeIsCurrent'
    BY <1>1, <1>2, OtpsUntouched
  <1>8. TypeOK' /\ IdentitiesSound' /\ AccountsGenuine'
    BY <1>1, <1>2, <1>4
       DEF TypeOK, IdentitiesSound, AccountsGenuine, AccountsDistinct, PhoneProven
  <1>9. QED
    BY <1>4, <1>6, <1>7, <1>8 DEF AccountsInv

\* A session's status is written and nothing else of it.
LEMMA StatusOnly ==
    ASSUME AccountsInv, UNCHANGED <<accounts, otps, oauths>>, sessions' \in Seq(RefreshSession),
           DOMAIN sessions' = DOMAIN sessions,
           \A s \in DOMAIN sessions :
              /\ sessions'[s].account = sessions[s].account
              /\ sessions'[s].origin = sessions[s].origin
              /\ sessions'[s].challenge = sessions[s].challenge
    PROVE  SessionsSound' /\ ChallengeUsedOnce'
  BY DEF AccountsInv, SessionsSound, ChallengeUsedOnce

\* Sessions revoked one by one keep everything but their status.
LEMMA Revoked ==
    ASSUME NEW q \in Seq(RefreshSession), NEW s \in DOMAIN q
    PROVE  /\ [q EXCEPT ![s].status = "revoked"] \in Seq(RefreshSession)
           /\ DOMAIN [q EXCEPT ![s].status = "revoked"] = DOMAIN q
           /\ \A t \in DOMAIN q :
                 /\ [q EXCEPT ![s].status = "revoked"][t].account = q[t].account
                 /\ [q EXCEPT ![s].status = "revoked"][t].origin = q[t].origin
                 /\ [q EXCEPT ![s].status = "revoked"][t].challenge = q[t].challenge
                 /\ [q EXCEPT ![s].status = "revoked"][t].parent = q[t].parent
                 /\ t # s => [q EXCEPT ![s].status = "revoked"][t] = q[t]
           /\ [q EXCEPT ![s].status = "revoked"][s].status = "revoked"
  <1>1. q[s] \in RefreshSession
    BY ElementOfSeq, LenProperties
  <1>2. PICK x \in RefreshSession :
           /\ x = [q[s] EXCEPT !.status = "revoked"]
           /\ x.account = q[s].account /\ x.origin = q[s].origin /\ x.challenge = q[s].challenge
           /\ x.parent = q[s].parent /\ x.status = "revoked"
    <2>1. [q[s] EXCEPT !.status = "revoked"] \in RefreshSession
      BY <1>1 DEF RefreshSession
    <2>2. QED
      BY <1>1, <2>1 DEF RefreshSession
  <1>3. [q EXCEPT ![s].status = "revoked"] = [q EXCEPT ![s] = x]
    BY <1>2
  <1>4. [q EXCEPT ![s] = x] \in Seq(RefreshSession)
    BY LenProperties, ExceptSeq
  <1>5. QED
    BY <1>2, <1>3, <1>4

\* POST /auth/logout.
LEMMA LogoutInv ==
    ASSUME AccountsInv, NEW s \in DOMAIN sessions, NEW t \in DOMAIN sessions, Logout(s, t)
    PROVE  AccountsInv'
  <1>1. /\ TypeOK /\ LocksSound /\ TxsSound /\ SessionsSound /\ IdentitiesSound /\ OtpsSound
        /\ ShownSound /\ CountSound /\ ChallengeUsedOnce /\ AccountsGenuine /\ ShownCodeIsCurrent
        /\ sessions \in Seq(RefreshSession)
    BY DEF AccountsInv, TypeOK
  <1>2. /\ UNCHANGED <<accounts, identities, otps, nextOtp, shown, wrong, unsent, oauths, tokens>>
        /\ UNCHANGED <<otpVars, held, tx>>
        /\ Free(Row("session", s)) /\ Free(Row("session", t))
    BY DEF Logout, accountVars, otpVars
  <1> DEFINE once == [sessions EXCEPT ![s].status = "revoked"]
  <1>3. /\ once \in Seq(RefreshSession) /\ DOMAIN once = DOMAIN sessions
        /\ \A u \in DOMAIN sessions :
              /\ once[u].account = sessions[u].account /\ once[u].origin = sessions[u].origin
              /\ once[u].challenge = sessions[u].challenge
              /\ u # s => once[u] = sessions[u]
    BY <1>1, Revoked
  <1>4. sessions' = [once EXCEPT ![t].status = "revoked"]
    BY DEF Logout
  <1> HIDE DEF once
  <1>5. /\ sessions' \in Seq(RefreshSession) /\ DOMAIN sessions' = DOMAIN sessions
        /\ \A u \in DOMAIN sessions :
              /\ sessions'[u].account = sessions[u].account
              /\ sessions'[u].origin = sessions[u].origin
              /\ sessions'[u].challenge = sessions[u].challenge
              /\ u \notin {s, t} => sessions'[u] = sessions[u]
    BY <1>3, <1>4, Revoked
  <1>6. SessionsSound' /\ ChallengeUsedOnce'
    BY <1>2, <1>5, StatusOnly
  <1>7. \A v \in Worker : Undisturbed(v)
    <2>1. \A v \in Worker : \A u \in DOMAIN sessions :
             Row("session", u) \in held[v] => sessions'[u] = sessions[u]
      BY <1>2, <1>5 DEF Free
    <2>2. QED
      BY <1>1, <1>2, <1>5, <2>1, TableFacts DEF Undisturbed, TxsSound, TxSound, RequestSound
  <1>8. LocksSound' /\ TxsSound'
    BY <1>1, <1>2, <1>7, PassingStep
  <1>9. OtpsSound' /\ ShownSound' /\ CountSound' /\ ShownCodeIsCurrent'
    BY <1>1, <1>2, OtpsUntouched
  <1>10. TypeOK' /\ IdentitiesSound' /\ AccountsGenuine'
    BY <1>1, <1>2, <1>5
       DEF TypeOK, IdentitiesSound, AccountsGenuine, AccountsDistinct, PhoneProven
  <1>11. QED
    BY <1>6, <1>8, <1>9, <1>10 DEF AccountsInv

\* What the commit of a refresh writes: the old session, active until now, is
\* revoked, and its replacement is the only new row.
LEMMA CommitRefreshFacts ==
    ASSUME AccountsInv, NEW w \in Worker, CommitRefresh(w)
    PROVE  \E s \in DOMAIN sessions, n \in Nat :
              /\ s = tx[w].session /\ sessions[s].status = "active"
              /\ sessions' \in Seq(RefreshSession)
              /\ DOMAIN sessions' = DOMAIN sessions \cup {n} /\ n \notin DOMAIN sessions
              /\ \A u \in DOMAIN sessions :
                    /\ sessions'[u].account = sessions[u].account
                    /\ sessions'[u].origin = sessions[u].origin
                    /\ sessions'[u].challenge = sessions[u].challenge
                    /\ u # s => sessions'[u] = sessions[u]
              /\ sessions'[s].status = "revoked"
              /\ sessions'[n].account = sessions[s].account /\ sessions'[n].parent = s
              /\ sessions'[n].origin = "refresh" /\ sessions'[n].challenge = None
  <1>1. /\ TypeOK /\ LocksSound /\ TxsSound /\ SessionsSound
        /\ sessions \in Seq(RefreshSession)
        /\ Len(sessions) \in Nat /\ DOMAIN sessions = 1..Len(sessions)
    BY TableFacts DEF AccountsInv, TypeOK
  <1>2. PICK s \in DOMAIN sessions : s = tx[w].session /\ sessions[s].status = "active"
    BY <1>1 DEF CommitRefresh, TxsSound, TxSound, RefreshSound
  <1> DEFINE x == [account |-> sessions[s].account, status |-> "active", parent |-> s,
                   origin |-> "refresh", challenge |-> None]
             more == Append(sessions, x)
  <1>3. sessions' = [more EXCEPT ![s].status = "revoked"]
    BY <1>2 DEF CommitRefresh, Issue
  <1>4. /\ x \in RefreshSession /\ x.account = sessions[s].account /\ x.parent = s
        /\ x.origin = "refresh" /\ x.challenge = None
    <2>1. sessions[s] \in RefreshSession /\ s \in Nat
      BY <1>1, TableFacts
    <2>2. sessions[s].account \in Nat
      BY <2>1 DEF RefreshSession
    <2>3. QED
      BY <2>1, <2>2 DEF RefreshSession, None
  <1> HIDE DEF x
  <1>5. PICK n \in Nat : n = Len(sessions) + 1
    BY <1>1
  <1>6. /\ more \in Seq(RefreshSession) /\ Len(more) = n /\ more[n] = x
        /\ \A u \in DOMAIN sessions : more[u] = sessions[u]
    BY <1>1, <1>4, <1>5, AppendProperties
  <1> HIDE DEF more
  <1>7. DOMAIN more = DOMAIN sessions \cup {n} /\ n \notin DOMAIN sessions
    <2>1. DOMAIN more = 1..n
      BY <1>6, LenProperties
    <2>2. QED
      BY <1>1, <1>5, <2>1
  <1>8. /\ sessions' \in Seq(RefreshSession) /\ DOMAIN sessions' = DOMAIN more
        /\ \A u \in DOMAIN more :
              /\ sessions'[u].account = more[u].account
              /\ sessions'[u].origin = more[u].origin
              /\ sessions'[u].challenge = more[u].challenge
              /\ sessions'[u].parent = more[u].parent
              /\ u # s => sessions'[u] = more[u]
        /\ sessions'[s].status = "revoked"
    BY <1>3, <1>6, <1>7, Revoked
  <1>9. QED
    BY <1>2, <1>4, <1>6, <1>7, <1>8

\* SessionService.refresh commits.
LEMMA CommitRefreshInv ==
    ASSUME AccountsInv, NEW w \in Worker, CommitRefresh(w)
    PROVE  AccountsInv'
  <1>1. /\ TypeOK /\ LocksSound /\ TxsSound /\ SessionsSound /\ IdentitiesSound /\ OtpsSound
        /\ ShownSound /\ CountSound /\ ChallengeUsedOnce /\ AccountsGenuine /\ ShownCodeIsCurrent
    BY DEF AccountsInv
  <1>2. PICK s \in DOMAIN sessions, n \in Nat :
              /\ s = tx[w].session /\ sessions[s].status = "active"
              /\ sessions' \in Seq(RefreshSession)
              /\ DOMAIN sessions' = DOMAIN sessions \cup {n} /\ n \notin DOMAIN sessions
              /\ \A u \in DOMAIN sessions :
                    /\ sessions'[u].account = sessions[u].account
                    /\ sessions'[u].origin = sessions[u].origin
                    /\ sessions'[u].challenge = sessions[u].challenge
                    /\ u # s => sessions'[u] = sessions[u]
              /\ sessions'[n].account = sessions[s].account
              /\ sessions'[n].origin = "refresh" /\ sessions'[n].challenge = None
    BY CommitRefreshFacts
  <1>3. /\ UNCHANGED <<accounts, identities, otps, nextOtp, shown, wrong, unsent, oauths, tokens>>
        /\ UNCHANGED otpVars
        /\ tx[w].kind = "refresh"
    BY DEF CommitRefresh, accountVars, otpVars
  <1>4. /\ DOMAIN tx' = Worker /\ DOMAIN held' = Worker
        /\ tx'[w] = Idle /\ held'[w] = {} /\ tx'[w].kind = "idle"
        /\ \A v \in Worker \ {w} : tx'[v] = tx[v] /\ held'[v] = held[v]
    BY <1>1 DEF CommitRefresh, TxsSound, LocksSound, Idle
  <1>5. \A v \in Worker \ {w} : Undisturbed(v)
    <2>1. Row("session", s) \in held[w]
      BY <1>1, <1>2, <1>3, LockFacts
    <2>2. \A v \in Worker \ {w} : \A u \in DOMAIN sessions :
             Row("session", u) \in held[v] => sessions'[u] = sessions[u]
      BY <1>1, <1>2, <2>1 DEF LocksSound
    <2>3. QED
      BY <1>1, <1>2, <1>3, <2>2, TableFacts DEF Undisturbed, TxsSound, TxSound, RequestSound
  <1>6. TxSound(w)' /\ held'[w] = Locks(tx'[w])
    BY <1>4 DEF TxSound, Locks
  <1>7. LocksSound' /\ TxsSound'
    BY <1>1, <1>4, <1>5, <1>6, RequestStep
  <1>8. SessionsSound'
    BY <1>1, <1>2, <1>3 DEF SessionsSound
  <1>9. ChallengeUsedOnce'
    BY <1>1, <1>2 DEF ChallengeUsedOnce
  <1>10. OtpsSound' /\ ShownSound' /\ CountSound' /\ ShownCodeIsCurrent'
    BY <1>1, <1>3, <1>4, OtpsUntouched
  <1>11. TypeOK' /\ IdentitiesSound' /\ AccountsGenuine'
    BY <1>1, <1>2, <1>3
       DEF TypeOK, IdentitiesSound, AccountsGenuine, AccountsDistinct, PhoneProven
  <1>12. QED
    BY <1>7, <1>8, <1>9, <1>10, <1>11 DEF AccountsInv

-----------------------------------------------------------------------------
(* One-time codes.                                                          *)

\* People, their sessions and their identities, while challenges are only
\* added, verified and used up.
LEMMA PeopleKept ==
    ASSUME AccountsInv, UNCHANGED <<accounts, identities, sessions, oauths>>,
           \A c \in DOMAIN otps :
              /\ c \in DOMAIN otps' /\ otps'[c].identifier = otps[c].identifier
              /\ otps[c].verified => otps'[c].verified
              /\ otps[c].consumed => otps'[c].consumed
    PROVE  SessionsSound' /\ IdentitiesSound' /\ ChallengeUsedOnce' /\ AccountsGenuine'
  <1>1. SessionsSound' /\ IdentitiesSound' /\ ChallengeUsedOnce' /\ AccountsDistinct'
    BY DEF AccountsInv, SessionsSound, IdentitiesSound, ChallengeUsedOnce, AccountsGenuine,
           AccountsDistinct
  <1>2. PhoneProven'
    BY DEF AccountsInv, AccountsGenuine, PhoneProven
  <1>3. QED
    BY <1>1, <1>2 DEF AccountsGenuine

\* The counts are of finite sets.
LEMMA Finite ==
    ASSUME TypeOK, NEW i
    PROVE  /\ IsFiniteSet(OtpsFor(i)) /\ Cardinality(OtpsFor(i)) \in Nat
           /\ IsFiniteSet(Requesting(i)) /\ Cardinality(Requesting(i)) \in Nat
           /\ Cardinality(Worker) \in Nat
           /\ Cardinality(Requesting(i)) <= Cardinality(Worker)
  <1>1. IsFiniteSet(1..nextOtp)
    BY TableFacts, FS_Interval
  <1>2. OtpsFor(i) \subseteq 1..nextOtp
    BY DEF OtpsFor, TypeOK
  <1>3. IsFiniteSet(Worker) /\ Requesting(i) \subseteq Worker
    BY AccountsAssumption DEF Requesting
  <1>4. QED
    BY <1>1, <1>2, <1>3, FS_Subset, FS_CardinalityType

\* The codes that are sent and their rows, for everyone who sends one.
LEMMA SenderFacts ==
    ASSUME TypeOK, TxsSound, NEW v \in Worker, tx[v].kind \in {"request", "resend"}
    PROVE  /\ tx[v].id \in 1..nextOtp /\ tx[v].id \in Nat /\ tx[v].id <= nextOtp
           /\ tx[v].kind = "request" => RequestSound(v) /\ tx[v].id \notin DOMAIN otps
           /\ tx[v].kind = "resend" => ResendSound(v) /\ tx[v].id \in DOMAIN otps
  BY TableFacts DEF TypeOK, TxsSound, TxSound, RequestSound, ResendSound

\* OtpService.request up to the delivery.
LEMMA RequestOtpInv ==
    ASSUME AccountsInv, NEW w \in Worker, NEW i \in Identifier, NEW purpose \in Purpose,
           RequestOtp(w, i, purpose)
    PROVE  AccountsInv'
  <1>1. /\ TypeOK /\ LocksSound /\ TxsSound /\ SessionsSound /\ IdentitiesSound /\ OtpsSound
        /\ ShownSound /\ CountSound /\ ChallengeUsedOnce /\ AccountsGenuine /\ ShownCodeIsCurrent
    BY DEF AccountsInv
  <1>2. PICK n \in Nat : n = nextOtp + 1 /\ n <= MaxChallenges /\ n # 0 /\ n > nextOtp
    BY <1>1, TableFacts DEF RequestOtp, CanChallenge
  <1>3. /\ UNCHANGED <<accounts, identities, sessions, otps, wrong, oauths, tokens, held>>
        /\ nextOtp' = n
        /\ tx[w] = Idle
        /\ tx' = [tx EXCEPT ![w] = [kind |-> "request", id |-> n, identifier |-> i, purpose |-> purpose]]
        /\ shown' = [shown EXCEPT ![i] = <<n, 0>>]
        /\ unsent' = unsent \ {shown[i]}
    BY <1>2 DEF RequestOtp, Show, accountVars
  <1>4. /\ tx[w].kind = "idle" /\ held[w] = {}
        /\ DOMAIN tx' = Worker /\ DOMAIN held' = Worker
        /\ tx'[w].kind = "request" /\ tx'[w].id = n /\ tx'[w].identifier = i
        /\ tx'[w].purpose = purpose
        /\ \A v \in Worker \ {w} : tx'[v] = tx[v] /\ held'[v] = held[v]
    BY <1>1, <1>3, LockFacts DEF TxsSound, LocksSound, Idle
  <1>5. /\ \A j \in Identifier \ {i} : shown'[j] = shown[j]
        /\ shown'[i] = <<n, 0>> /\ shown'[i][1] = n
        /\ shown' \in [Identifier -> Code \cup {NoCode}]
    <2>1. <<n, 0>> \in Code
      BY <1>2, AccountsAssumption DEF Code
    <2>2. shown \in [Identifier -> Code \cup {NoCode}]
      BY <1>1 DEF TypeOK
    <2>3. QED
      BY <1>3, <2>1, <2>2
  <1>6. \A j \in Identifier : shown[j][1] <= nextOtp /\ shown[j][1] \in Nat
    <2>1. \A j \in Identifier : shown[j] \in Code \cup {NoCode}
      BY <1>1 DEF TypeOK
    <2>2. QED
      BY <1>1, <2>1, TableFacts DEF ShownSound, Code, NoCode
  <1>7. TypeOK'
    <2>1. DOMAIN otps \subseteq 1..n /\ n \in 0..MaxChallenges
      BY <1>1, <1>2, TableFacts DEF TypeOK
    <2>2. QED
      BY <1>1, <1>3, <1>5, <2>1 DEF TypeOK
  <1>8. n \notin DOMAIN otps
    BY <1>1, <1>2, TableFacts DEF TypeOK
  <1>9. \A v \in Worker \ {w} : Undisturbed(v)
    <2>1. \A v \in Worker \ {w} : tx[v].kind \in {"request", "resend"} => tx[v].id # n
      BY <1>1, <1>2, TableFacts, SenderFacts
    <2>2. \A v \in Worker \ {w} : tx[v].kind = "request" => tx[v].id \notin DOMAIN otps'
      BY <1>1, <1>3, SenderFacts
    <2>3. nextOtp <= nextOtp' /\ nextOtp' \in Nat
      BY <1>1, <1>2, <1>3, TableFacts
    <2>4. QED
      BY <1>3, <1>5, <2>1, <2>2, <2>3 DEF Undisturbed
  <1>10. TxSound(w)'
    <2>1. \A j \in Identifier : shown'[j][1] = n => j = i /\ shown'[j] = <<n, 0>>
      BY <1>1, <1>2, <1>5, <1>6, TableFacts
    <2>2. RequestSound(w)'
      BY <1>2, <1>3, <1>4, <1>8, <2>1 DEF RequestSound
    <2>3. QED
      BY <1>4, <2>2 DEF TxSound
  <1>11. LocksSound' /\ TxsSound'
    <2>1. held'[w] = Locks(tx'[w])
      BY <1>3, <1>4 DEF Locks
    <2>2. \A row \in held'[w] : row \in held[w] \/ Free(row)
      BY <1>3, <1>4
    <2>3. QED
      BY <1>1, <1>2, <1>4, <1>9, <1>10, <2>1, <2>2, RequestStep
  <1>12. SessionsSound' /\ IdentitiesSound' /\ ChallengeUsedOnce' /\ AccountsGenuine' /\ OtpsSound'
    BY <1>1, <1>3, PeopleKept DEF OtpsSound
  <1>13. ShownSound'
    <2>1. \A j \in Identifier : shown'[j][1] <= n
      BY <1>1, <1>2, <1>5, <1>6, TableFacts
    <2>2. \A j \in Identifier \ {i} : shown[j] # <<n, 0>>
      BY <1>1, <1>2, <1>6, TableFacts
    <2>3. QED
      BY <1>1, <1>3, <1>5, <1>8, <2>1, <2>2 DEF ShownSound
  <1>14. CountSound'
    <2>1. ASSUME NEW j \in Identifier, j # i
          PROVE  Requesting(j)' = Requesting(j) /\ OtpsFor(j)' = OtpsFor(j)
      BY <1>3, <1>4, <2>1 DEF Requesting, OtpsFor
    <2>2. Cardinality(OtpsFor(i)') + Cardinality(Requesting(i)')
             <= IdentifierLimit + Cardinality(Worker) - 1
      <3>1. Cardinality(OtpsFor(i)) < IdentifierLimit
        BY DEF RequestOtp, BelowLimits
      <3>2. OtpsFor(i)' = OtpsFor(i)
        BY <1>3 DEF OtpsFor
      <3>3. /\ Cardinality(Requesting(i)') <= Cardinality(Worker)
            /\ Cardinality(Requesting(i)') \in Nat /\ Cardinality(Worker) \in Nat
        <4>1. IsFiniteSet(Worker) /\ Requesting(i)' \subseteq Worker
          BY AccountsAssumption DEF Requesting
        <4>2. QED
          BY <4>1, FS_Subset, FS_CardinalityType
      <3>4. Cardinality(OtpsFor(i)) \in Nat /\ IdentifierLimit \in Nat
        BY <1>1, Finite, TableFacts
      <3>5. QED
        BY <3>1, <3>2, <3>3, <3>4
    <2>3. QED
      BY <1>1, <2>1, <2>2 DEF CountSound
  <1>15. ShownCodeIsCurrent'
    <2>1. \A v \in Worker : tx[v].kind \in {"request", "resend"} => tx'[v] = tx[v]
      BY <1>4
    <2>2. \E v \in Worker : tx'[v].kind \in {"request", "resend"} /\ tx'[v].id = n
      BY <1>4
    <2>3. ASSUME NEW j \in Identifier \ {i}, shown[j] # NoCode
          PROVE  \/ shown[j] \in unsent'
                 \/ \E v \in Worker :
                       tx'[v].kind \in {"request", "resend"} /\ tx'[v].id = shown[j][1]
                 \/ /\ shown[j][1] \in DOMAIN otps'
                    /\ shown[j][2] = otps'[shown[j][1]].resend_count
      <3>1. shown[j] # shown[i]
        BY <1>1, <2>3 DEF ShownSound
      <3>2. QED
        BY <1>1, <1>3, <2>1, <2>3, <3>1 DEF ShownCodeIsCurrent, Sending
    <2>4. QED
      BY <1>5, <2>2, <2>3 DEF ShownCodeIsCurrent, Sending
  <1>16. QED
    BY <1>7, <1>11, <1>12, <1>13, <1>14, <1>15 DEF AccountsInv

\* OtpService.request commits: the code now has its row.
LEMMA CommitOtpInv ==
    ASSUME AccountsInv, NEW w \in Worker, NEW chat \in BOOLEAN, NEW up \in SUBSET Configured,
           CommitOtp(w, chat, up)
    PROVE  AccountsInv'
  <1>1. /\ TypeOK /\ LocksSound /\ TxsSound /\ SessionsSound /\ IdentitiesSound /\ OtpsSound
        /\ ShownSound /\ CountSound /\ ChallengeUsedOnce /\ AccountsGenuine /\ ShownCodeIsCurrent
    BY DEF AccountsInv
  <1>2. tx[w].kind = "request" /\ RequestSound(w) /\ held[w] = {}
    BY <1>1, SenderFacts, LockFacts DEF CommitOtp
  <1>3. PICK n \in 1..nextOtp, i \in Identifier, purpose \in Purpose :
           n = tx[w].id /\ i = tx[w].identifier /\ purpose = tx[w].purpose
    BY <1>2 DEF RequestSound
  <1> DEFINE row == Challenge(i, purpose)
  <1>4. /\ row \in OtpChallenge /\ row.identifier = i /\ row.attempts = 0 /\ row.resend_count = 0
        /\ ~row.verified /\ ~row.consumed
    BY DEF Challenge, OtpChallenge
  <1>5. /\ UNCHANGED <<accounts, identities, sessions, nextOtp, shown, wrong, unsent, oauths,
                       tokens, held>>
        /\ otps' = [c \in DOMAIN otps \cup {n} |-> IF c = n THEN row ELSE otps[c]]
        /\ tx' = [tx EXCEPT ![w] = Idle]
    BY <1>3 DEF CommitOtp, accountVars
  <1> HIDE DEF row
  <1>6. /\ n \notin DOMAIN otps /\ n \in Nat
        /\ \A j \in Identifier : shown[j][1] = n => j = i /\ shown[j] = <<n, 0>>
    BY <1>1, <1>2, <1>3, TableFacts DEF RequestSound
  <1>7. /\ DOMAIN otps' = DOMAIN otps \cup {n} /\ otps'[n] = row
        /\ \A c \in DOMAIN otps : otps'[c] = otps[c]
    BY <1>5, <1>6
  <1>8. /\ DOMAIN tx' = Worker /\ DOMAIN held' = Worker
        /\ tx'[w].kind = "idle"
        /\ \A v \in Worker \ {w} : tx'[v] = tx[v] /\ held'[v] = held[v]
    BY <1>1, <1>5 DEF TxsSound, LocksSound, Idle
  <1>9. TypeOK'
    BY <1>1, <1>4, <1>5, <1>7, TableFacts DEF TypeOK
  <1>10. \A v \in Worker \ {w} : Undisturbed(v)
    <2>1. \A v \in Worker \ {w} : tx[v].kind = "request" => tx[v].id \notin DOMAIN otps'
      BY <1>1, <1>2, <1>3, <1>7, SenderFacts DEF TxsSound
    <2>2. QED
      BY <1>1, <1>5, <1>7, <2>1, TableFacts DEF Undisturbed
  <1>11. LocksSound' /\ TxsSound'
    <2>1. TxSound(w)' /\ held'[w] = Locks(tx'[w])
      BY <1>2, <1>5, <1>8 DEF TxSound, Locks
    <2>2. \A r \in held'[w] : r \in held[w] \/ Free(r)
      BY <1>5
    <2>3. QED
      BY <1>1, <1>8, <1>10, <2>1, <2>2, RequestStep
  <1>12. SessionsSound' /\ IdentitiesSound' /\ ChallengeUsedOnce' /\ AccountsGenuine'
    BY <1>5, <1>7, PeopleKept
  <1>13. OtpsSound'
    <2>1. wrong[n] = 0
      BY <1>1, <1>6, TableFacts DEF OtpsSound
    <2>2. QED
      BY <1>1, <1>4, <1>5, <1>7, <2>1, TableFacts DEF OtpsSound
  <1>14. ShownSound'
    BY <1>1, <1>4, <1>5, <1>6, <1>7 DEF ShownSound
  <1>15. CountSound'
    <2>1. ASSUME NEW j \in Identifier, j # i
          PROVE  Requesting(j)' = Requesting(j) /\ OtpsFor(j)' = OtpsFor(j)
      <3>1. Requesting(j)' = Requesting(j)
        BY <1>2, <1>3, <1>8, <2>1 DEF Requesting
      <3>2. OtpsFor(j)' = OtpsFor(j)
        BY <1>4, <1>7, <2>1 DEF OtpsFor
      <3>3. QED
        BY <3>1, <3>2
    <2>2. Cardinality(OtpsFor(i)') + Cardinality(Requesting(i)')
             <= IdentifierLimit + Cardinality(Worker) - 1
      <3>1. OtpsFor(i)' = OtpsFor(i) \cup {n} /\ n \notin OtpsFor(i)
        BY <1>4, <1>6, <1>7 DEF OtpsFor
      <3>2. Requesting(i)' = Requesting(i) \ {w} /\ w \in Requesting(i)
        BY <1>2, <1>3, <1>8 DEF Requesting
      <3>3. /\ Cardinality(OtpsFor(i)') = Cardinality(OtpsFor(i)) + 1
            /\ Cardinality(Requesting(i)') = Cardinality(Requesting(i)) - 1
            /\ Cardinality(OtpsFor(i)) \in Nat /\ Cardinality(Requesting(i)) \in Nat
        <4>1. /\ IsFiniteSet(OtpsFor(i)) /\ Cardinality(OtpsFor(i)) \in Nat
              /\ IsFiniteSet(Requesting(i)) /\ Cardinality(Requesting(i)) \in Nat
          BY <1>1, Finite
        <4>2. Cardinality(OtpsFor(i) \cup {n}) = Cardinality(OtpsFor(i)) + 1
          BY <3>1, <4>1, FS_AddElement
        <4>3. Cardinality(Requesting(i) \ {w}) = Cardinality(Requesting(i)) - 1
          BY <3>2, <4>1, FS_RemoveElement
        <4>4. QED
          BY <3>1, <3>2, <4>1, <4>2, <4>3
      <3>4. Cardinality(OtpsFor(i)) + Cardinality(Requesting(i))
               <= IdentifierLimit + Cardinality(Worker) - 1
        BY <1>1 DEF CountSound
      <3>5. Cardinality(Worker) \in Nat /\ IdentifierLimit \in Nat
        BY <1>1, Finite, TableFacts
      <3>6. QED
        BY <3>3, <3>4, <3>5
    <2>3. QED
      BY <1>1, <2>1, <2>2 DEF CountSound
  <1>16. ShownCodeIsCurrent'
    <2>1. \A v \in Worker : tx[v].kind \in {"request", "resend"} => tx'[v] = tx[v] \/ tx[v].id = n
      BY <1>3, <1>8
    <2>2. ASSUME NEW j \in Identifier, shown[j] # NoCode
          PROVE  \/ shown[j] \in unsent
                 \/ \E v \in Worker :
                       tx'[v].kind \in {"request", "resend"} /\ tx'[v].id = shown[j][1]
                 \/ /\ shown[j][1] \in DOMAIN otps'
                    /\ shown[j][2] = otps'[shown[j][1]].resend_count
      <3>1. CASE shown[j][1] = n
        <4>1. shown[j][2] = 0
          BY <1>6, <3>1
        <4>2. QED
          BY <1>4, <1>7, <3>1, <4>1
      <3>2. CASE shown[j][1] # n
        BY <1>1, <1>7, <2>1, <2>2, <3>2 DEF ShownCodeIsCurrent, Sending
      <3>3. QED
        BY <3>1, <3>2
    <2>3. QED
      BY <1>5, <2>2 DEF ShownCodeIsCurrent, Sending
  <1>17. QED
    BY <1>9, <1>11, <1>12, <1>13, <1>14, <1>15, <1>16 DEF AccountsInv

\* OtpService.resend up to the delivery.
LEMMA ResendOtpInv ==
    ASSUME AccountsInv, NEW w \in Worker, NEW c \in DOMAIN otps, ResendOtp(w, c)
    PROVE  AccountsInv'
  <1>1. /\ TypeOK /\ LocksSound /\ TxsSound /\ SessionsSound /\ IdentitiesSound /\ OtpsSound
        /\ ShownSound /\ CountSound /\ ChallengeUsedOnce /\ AccountsGenuine /\ ShownCodeIsCurrent
    BY DEF AccountsInv
  <1>2. otps[c] \in OtpChallenge /\ c \in 1..MaxChallenges /\ c \in Nat /\ c <= nextOtp
    BY <1>1, TableFacts DEF TypeOK
  <1>3. PICK i \in Identifier : i = otps[c].identifier
    BY <1>2 DEF OtpChallenge
  <1>4. PICK k \in 0..MaxResends : k = otps[c].resend_count + 1
    BY <1>1, <1>2, TableFacts DEF ResendOtp, OtpChallenge
  <1>5. /\ UNCHANGED <<accounts, identities, sessions, otps, nextOtp, wrong, oauths, tokens>>
        /\ tx[w] = Idle
        /\ Free(Row("otp", c))
        /\ ~otps[c].consumed /\ ~otps[c].verified /\ otps[c].resend_count < MaxResends
        /\ held' = [held EXCEPT ![w] = {Row("otp", c)}]
        /\ tx' = [tx EXCEPT ![w] = [kind |-> "resend", id |-> c]]
        /\ shown' = [shown EXCEPT ![i] = <<c, k>>]
        /\ unsent' = unsent \ {shown[i]}
    BY <1>3, <1>4 DEF ResendOtp, Show, accountVars
  <1>6. /\ tx[w].kind = "idle"
        /\ DOMAIN tx' = Worker /\ DOMAIN held' = Worker
        /\ tx'[w].kind = "resend" /\ tx'[w].id = c /\ held'[w] = {Row("otp", c)}
        /\ \A v \in Worker \ {w} : tx'[v] = tx[v] /\ held'[v] = held[v]
    BY <1>1, <1>5 DEF TxsSound, LocksSound, Idle
  <1>7. /\ \A j \in Identifier \ {i} : shown'[j] = shown[j]
        /\ shown'[i] = <<c, k>> /\ shown'[i][1] = c
        /\ shown' \in [Identifier -> Code \cup {NoCode}]
    <2>1. <<c, k>> \in Code
      BY <1>2 DEF Code
    <2>2. shown \in [Identifier -> Code \cup {NoCode}]
      BY <1>1 DEF TypeOK
    <2>3. QED
      BY <1>5, <2>1, <2>2
  <1>8. TypeOK'
    BY <1>1, <1>5, <1>7 DEF TypeOK
  <1>9. \A v \in Worker \ {w} : Undisturbed(v)
    <2>1. ASSUME NEW v \in Worker \ {w}, tx[v].kind \in {"request", "resend"}
          PROVE  tx[v].id # c
      <3>1. CASE tx[v].kind = "request"
        BY <1>1, <3>1, SenderFacts
      <3>2. CASE tx[v].kind = "resend"
        <4>1. held[v] = {Row("otp", tx[v].id)}
          BY <1>1, <3>2, LockFacts
        <4>2. QED
          BY <1>5, <4>1 DEF Free
      <3>3. QED
        BY <2>1, <3>1, <3>2
    <2>2. \A v \in Worker \ {w} : tx[v].kind = "request" => tx[v].id \notin DOMAIN otps'
      BY <1>1, <1>5, SenderFacts
    <2>3. nextOtp <= nextOtp' /\ nextOtp' \in Nat
      BY <1>1, <1>5, TableFacts
    <2>4. QED
      BY <1>5, <1>7, <2>1, <2>2, <2>3 DEF Undisturbed
  <1>10. TxSound(w)'
    <2>1. \A j \in Identifier : shown'[j][1] = c => shown'[j] = <<c, k>>
      BY <1>1, <1>3, <1>7 DEF ShownSound
    <2>2. ResendSound(w)'
      BY <1>4, <1>5, <1>6, <2>1 DEF ResendSound
    <2>3. QED
      BY <1>6, <2>2 DEF TxSound
  <1>11. LocksSound' /\ TxsSound'
    <2>1. held'[w] = Locks(tx'[w])
      BY <1>6 DEF Locks
    <2>2. \A row \in held'[w] : row \in held[w] \/ Free(row)
      BY <1>5, <1>6
    <2>3. QED
      BY <1>1, <1>6, <1>9, <1>10, <2>1, <2>2, RequestStep
  <1>12. SessionsSound' /\ IdentitiesSound' /\ ChallengeUsedOnce' /\ AccountsGenuine' /\ OtpsSound'
    BY <1>1, <1>5, PeopleKept DEF OtpsSound
  <1>13. ShownSound'
    <2>1. \A j \in Identifier \ {i} : shown[j] # <<c, k>>
      BY <1>1, <1>3 DEF ShownSound
    <2>2. QED
      BY <1>1, <1>2, <1>3, <1>5, <1>7, <2>1 DEF ShownSound
  <1>14. CountSound'
    <2>1. \A j \in Identifier : Requesting(j)' = Requesting(j) /\ OtpsFor(j)' = OtpsFor(j)
      BY <1>5, <1>6 DEF Requesting, OtpsFor
    <2>2. QED
      BY <1>1, <2>1 DEF CountSound
  <1>15. ShownCodeIsCurrent'
    <2>1. \A v \in Worker : tx[v].kind \in {"request", "resend"} => tx'[v] = tx[v]
      BY <1>6
    <2>2. \E v \in Worker : tx'[v].kind \in {"request", "resend"} /\ tx'[v].id = c
      BY <1>6
    <2>3. ASSUME NEW j \in Identifier \ {i}, shown[j] # NoCode
          PROVE  \/ shown[j] \in unsent'
                 \/ \E v \in Worker :
                       tx'[v].kind \in {"request", "resend"} /\ tx'[v].id = shown[j][1]
                 \/ /\ shown[j][1] \in DOMAIN otps'
                    /\ shown[j][2] = otps'[shown[j][1]].resend_count
      <3>1. shown[j] # shown[i]
        BY <1>1, <2>3 DEF ShownSound
      <3>2. QED
        BY <1>1, <1>5, <2>1, <2>3, <3>1 DEF ShownCodeIsCurrent, Sending
    <2>4. QED
      BY <1>7, <2>2, <2>3 DEF ShownCodeIsCurrent, Sending
  <1>16. QED
    BY <1>8, <1>11, <1>12, <1>13, <1>14, <1>15 DEF AccountsInv

\* OtpService.resend commits: the new code has attempts of its own.
LEMMA CommitResendInv ==
    ASSUME AccountsInv, NEW w \in Worker, NEW chat \in BOOLEAN, NEW up \in SUBSET Configured,
           CommitResend(w, chat, up)
    PROVE  AccountsInv'
  <1>1. /\ TypeOK /\ LocksSound /\ TxsSound /\ SessionsSound /\ IdentitiesSound /\ OtpsSound
        /\ ShownSound /\ CountSound /\ ChallengeUsedOnce /\ AccountsGenuine /\ ShownCodeIsCurrent
    BY DEF AccountsInv
  <1>2. PICK c \in DOMAIN otps : c = tx[w].id
    BY <1>1, SenderFacts DEF CommitResend
  <1>3. /\ tx[w].kind = "resend" /\ held[w] = {Row("otp", c)}
        /\ ~otps[c].verified /\ ~otps[c].consumed /\ otps[c].resend_count < MaxResends
        /\ \A i \in Identifier : shown[i][1] = c => shown[i] = <<c, otps[c].resend_count + 1>>
        /\ otps[c] \in OtpChallenge /\ c \in 1..MaxChallenges
    BY <1>1, <1>2, SenderFacts, LockFacts, TableFacts DEF CommitResend, ResendSound, TypeOK
  <1>4. otps[c].resend_count \in Nat
    BY <1>3 DEF OtpChallenge
  <1>5. PICK k \in Nat : k = otps[c].resend_count + 1 /\ k <= MaxResends /\ k # otps[c].resend_count
    BY <1>1, <1>3, <1>4, TableFacts
  <1> DEFINE row == Resent(otps[c])
  <1>6. /\ row \in OtpChallenge /\ row.identifier = otps[c].identifier /\ row.attempts = 0
        /\ row.resend_count = k /\ ~row.verified /\ ~row.consumed
    <2>1. row = [otps[c] EXCEPT !.attempts = 0, !.resend_count = k]
      BY <1>5 DEF Resent
    <2> HIDE DEF row
    <2>2. QED
      BY <1>3, <2>1 DEF OtpChallenge
  <1>7. otps' = [otps EXCEPT ![c] = row]
    BY <1>2 DEF CommitResend
  <1> HIDE DEF row
  <1>8. /\ DOMAIN otps' = DOMAIN otps /\ otps'[c] = row
        /\ \A d \in DOMAIN otps \ {c} : otps'[d] = otps[d]
    BY <1>7
  <1>9. wrong' = [wrong EXCEPT ![c] = 0]
    BY <1>2, <1>5, <1>6, <1>8 DEF CommitResend
  <1>10. /\ UNCHANGED <<accounts, identities, sessions, nextOtp, shown, unsent, oauths, tokens>>
         /\ DOMAIN tx' = Worker /\ DOMAIN held' = Worker
         /\ tx'[w].kind = "idle" /\ held'[w] = {}
         /\ \A v \in Worker \ {w} : tx'[v] = tx[v] /\ held'[v] = held[v]
    BY <1>1 DEF CommitResend, TxsSound, LocksSound, Idle, accountVars
  <1>11. TypeOK'
    <2>1. row.attempts <= MaxAttempts /\ row.resend_count <= MaxResends
      BY <1>1, <1>5, <1>6, TableFacts
    <2>2. \A d \in DOMAIN otps' : /\ otps'[d] \in OtpChallenge
                                 /\ otps'[d].attempts <= MaxAttempts
                                 /\ otps'[d].resend_count <= MaxResends
      BY <1>1, <1>6, <1>8, <2>1 DEF TypeOK
    <2>3. QED
      BY <1>1, <1>8, <1>10, <2>2 DEF TypeOK
  <1>12. \A v \in Worker \ {w} : Undisturbed(v)
    <2>1. \A v \in Worker \ {w} : \A d \in DOMAIN otps :
             Row("otp", d) \in held[v] => otps'[d] = otps[d]
      BY <1>1, <1>3, <1>8 DEF LocksSound
    <2>2. \A v \in Worker \ {w} : tx[v].kind = "request" => tx[v].id \notin DOMAIN otps'
      BY <1>1, <1>8, SenderFacts
    <2>3. QED
      BY <1>1, <1>8, <1>10, <2>1, <2>2, TableFacts DEF Undisturbed
  <1>13. LocksSound' /\ TxsSound'
    <2>1. TxSound(w)' /\ held'[w] = Locks(tx'[w])
      BY <1>10 DEF TxSound, Locks
    <2>2. QED
      BY <1>1, <1>10, <1>12, <2>1, RequestStep
  <1>14. SessionsSound' /\ IdentitiesSound' /\ ChallengeUsedOnce' /\ AccountsGenuine'
    BY <1>3, <1>6, <1>8, <1>10, PeopleKept
  <1>15. OtpsSound'
    BY <1>1, <1>3, <1>6, <1>8, <1>9, TableFacts DEF OtpsSound
  <1>16. ShownSound'
    BY <1>1, <1>6, <1>8, <1>10 DEF ShownSound
  <1>17. CountSound'
    <2>1. \A j \in Identifier : Requesting(j)' = Requesting(j)
      BY <1>3, <1>10 DEF Requesting
    <2>2. \A j \in Identifier : OtpsFor(j)' = OtpsFor(j)
      BY <1>6, <1>8 DEF OtpsFor
    <2>3. QED
      BY <1>1, <2>1, <2>2 DEF CountSound
  <1>18. ShownCodeIsCurrent'
    <2>1. \A v \in Worker : tx[v].kind \in {"request", "resend"} => tx'[v] = tx[v] \/ tx[v].id = c
      BY <1>2, <1>10
    <2>2. ASSUME NEW j \in Identifier, shown[j] # NoCode
          PROVE  \/ shown[j] \in unsent
                 \/ \E v \in Worker :
                       tx'[v].kind \in {"request", "resend"} /\ tx'[v].id = shown[j][1]
                 \/ /\ shown[j][1] \in DOMAIN otps'
                    /\ shown[j][2] = otps'[shown[j][1]].resend_count
      <3>1. CASE shown[j][1] = c
        <4>1. shown[j] = <<c, k>>
          BY <1>3, <1>5, <3>1
        <4>2. QED
          BY <1>6, <1>8, <3>1, <4>1
      <3>2. CASE shown[j][1] # c
        BY <1>1, <1>8, <2>1, <2>2, <3>2 DEF ShownCodeIsCurrent, Sending
      <3>3. QED
        BY <3>1, <3>2
    <2>3. QED
      BY <1>10, <2>2 DEF ShownCodeIsCurrent, Sending
  <1>19. QED
    BY <1>11, <1>13, <1>14, <1>15, <1>16, <1>17, <1>18 DEF AccountsInv

\* A code that could not be sent or saved is rolled back, and is still shown.
LEMMA RollbackOtpInv ==
    ASSUME AccountsInv, NEW w \in Worker, RollbackOtp(w)
    PROVE  AccountsInv'
  <1>1. /\ TypeOK /\ LocksSound /\ TxsSound /\ SessionsSound /\ IdentitiesSound /\ OtpsSound
        /\ ShownSound /\ CountSound /\ ChallengeUsedOnce /\ AccountsGenuine /\ ShownCodeIsCurrent
    BY DEF AccountsInv
  <1>2. /\ UNCHANGED <<accounts, identities, sessions, otps, nextOtp, shown, wrong, oauths, tokens>>
        /\ tx[w].kind \in {"request", "resend"}
        /\ DOMAIN tx' = Worker /\ DOMAIN held' = Worker
        /\ tx'[w].kind = "idle" /\ held'[w] = {}
        /\ \A v \in Worker \ {w} : tx'[v] = tx[v] /\ held'[v] = held[v]
    BY <1>1 DEF RollbackOtp, TxsSound, LocksSound, Idle, accountVars
  <1>3. unsent \subseteq unsent' /\ \A j \in Identifier : shown[j][1] = tx[w].id => shown[j] \in unsent'
    <2> DEFINE code == <<tx[w].id, IF tx[w].kind = "request" THEN 0
                                   ELSE otps[tx[w].id].resend_count + 1>>
    <2>1. unsent' = unsent \cup ({shown[i] : i \in Identifier} \cap {code})
      BY DEF RollbackOtp
    <2>2. \A j \in Identifier : shown[j][1] = tx[w].id => shown[j] = code
      BY <1>1, <1>2, SenderFacts DEF RequestSound, ResendSound
    <2> HIDE DEF code
    <2>3. QED
      BY <2>1, <2>2
  <1>4. \A v \in Worker \ {w} : Undisturbed(v)
    <2>1. \A v \in Worker \ {w} : tx[v].kind = "request" => tx[v].id \notin DOMAIN otps'
      BY <1>1, <1>2, SenderFacts
    <2>2. QED
      BY <1>1, <1>2, <2>1, TableFacts DEF Undisturbed
  <1>5. LocksSound' /\ TxsSound'
    <2>1. TxSound(w)' /\ held'[w] = Locks(tx'[w])
      BY <1>2 DEF TxSound, Locks
    <2>2. QED
      BY <1>1, <1>2, <1>4, <2>1, RequestStep
  <1>6. SessionsSound' /\ IdentitiesSound' /\ ChallengeUsedOnce' /\ AccountsGenuine'
    BY <1>2, PeopleKept
  <1>7. TypeOK' /\ OtpsSound' /\ ShownSound'
    BY <1>1, <1>2 DEF TypeOK, OtpsSound, ShownSound
  <1>8. CountSound'
    <2>1. ASSUME NEW j \in Identifier
          PROVE  Cardinality(OtpsFor(j)') + Cardinality(Requesting(j)')
                    <= IdentifierLimit + Cardinality(Worker) - 1
      <3>1. OtpsFor(j)' = OtpsFor(j)
        BY <1>2 DEF OtpsFor
      <3>2. Requesting(j)' \subseteq Requesting(j)
        BY <1>2 DEF Requesting
      <3>3. /\ Cardinality(Requesting(j)') <= Cardinality(Requesting(j))
            /\ Cardinality(Requesting(j)') \in Nat /\ Cardinality(Requesting(j)) \in Nat
            /\ Cardinality(OtpsFor(j)) \in Nat /\ Cardinality(Worker) \in Nat
            /\ IdentifierLimit \in Nat
        BY <1>1, <3>2, Finite, FS_Subset, FS_CardinalityType, TableFacts
      <3>4. Cardinality(OtpsFor(j)) + Cardinality(Requesting(j))
               <= IdentifierLimit + Cardinality(Worker) - 1
        BY <1>1 DEF CountSound
      <3>5. QED
        BY <3>1, <3>3, <3>4
    <2>2. QED
      BY <2>1 DEF CountSound
  <1>9. ShownCodeIsCurrent'
    <2>1. \A v \in Worker : tx[v].kind \in {"request", "resend"} => v = w \/ tx'[v] = tx[v]
      BY <1>2
    <2>2. ASSUME NEW j \in Identifier, shown[j] # NoCode
          PROVE  \/ shown[j] \in unsent'
                 \/ \E v \in Worker :
                       tx'[v].kind \in {"request", "resend"} /\ tx'[v].id = shown[j][1]
                 \/ /\ shown[j][1] \in DOMAIN otps'
                    /\ shown[j][2] = otps'[shown[j][1]].resend_count
      BY <1>1, <1>2, <1>3, <2>1, <2>2 DEF ShownCodeIsCurrent, Sending
    <2>3. QED
      BY <1>2, <2>2 DEF ShownCodeIsCurrent, Sending
  <1>10. QED
    BY <1>5, <1>6, <1>7, <1>8, <1>9 DEF AccountsInv

\* A guess writes row to challenge c, whose identifier and code stay.
GuessWrites(c, row) ==
    /\ row \in OtpChallenge
    /\ row.identifier = otps[c].identifier
    /\ row.resend_count = otps[c].resend_count
    /\ row.attempts = otps[c].attempts + 1
    /\ ~row.verified /\ ~row.consumed => row.attempts < MaxAttempts
    /\ otps' = [otps EXCEPT ![c] = row]

\* OtpService.verify, in what all its outcomes share.
LEMMA GuessInv ==
    ASSUME AccountsInv, NEW c \in DOMAIN otps, NEW row, GuessWrites(c, row), Free(Row("otp", c)),
           ~otps[c].consumed, ~otps[c].verified,
           wrong' = wrong \/ wrong' = [wrong EXCEPT ![c] = @ + 1],
           UNCHANGED <<accounts, identities, nextOtp, shown, unsent, oauths, tokens, held, tx>>,
           sessions' \in Seq(RefreshSession),
           \A s \in DOMAIN sessions : s \in DOMAIN sessions' /\ sessions'[s] = sessions[s]
    PROVE  /\ TypeOK' /\ LocksSound' /\ TxsSound' /\ IdentitiesSound' /\ OtpsSound'
           /\ ShownSound' /\ CountSound' /\ AccountsGenuine' /\ ShownCodeIsCurrent'
  <1>1. /\ TypeOK /\ LocksSound /\ TxsSound /\ SessionsSound /\ IdentitiesSound /\ OtpsSound
        /\ ShownSound /\ CountSound /\ ChallengeUsedOnce /\ AccountsGenuine /\ ShownCodeIsCurrent
    BY DEF AccountsInv
  <1>2. /\ otps[c] \in OtpChallenge /\ otps[c].attempts < MaxAttempts /\ c \in 1..MaxChallenges
        /\ otps[c].resend_count <= MaxResends
    BY <1>1, TableFacts DEF TypeOK, OtpsSound
  <1>3. otps[c].attempts \in Nat /\ MaxAttempts \in Nat
    BY <1>1, <1>2, TableFacts DEF OtpChallenge
  <1>4. PICK n \in Nat : n = otps[c].attempts + 1 /\ n <= MaxAttempts
    BY <1>2, <1>3
  <1>5. /\ row \in OtpChallenge /\ row.identifier = otps[c].identifier
        /\ row.resend_count = otps[c].resend_count /\ row.attempts = n
        /\ ~row.verified /\ ~row.consumed => row.attempts < MaxAttempts
    BY <1>4 DEF GuessWrites
  <1>6. /\ DOMAIN otps' = DOMAIN otps /\ otps'[c] = row
        /\ \A d \in DOMAIN otps \ {c} : otps'[d] = otps[d]
    BY DEF GuessWrites
  <1>7. TypeOK'
    <2>1. \A d \in DOMAIN otps' : /\ otps'[d] \in OtpChallenge
                                  /\ otps'[d].attempts <= MaxAttempts
                                  /\ otps'[d].resend_count <= MaxResends
      BY <1>1, <1>2, <1>4, <1>5, <1>6 DEF TypeOK
    <2>2. QED
      BY <1>1, <1>6, <2>1 DEF TypeOK
  <1>8. \A v \in Worker : Undisturbed(v)
    <2>1. \A v \in Worker : \A d \in DOMAIN otps :
             Row("otp", d) \in held[v] => otps'[d] = otps[d]
      BY <1>6 DEF Free
    <2>2. \A v \in Worker : tx[v].kind = "request" => tx[v].id \notin DOMAIN otps'
      BY <1>1, <1>6, SenderFacts
    <2>3. QED
      BY <1>1, <1>6, <2>1, <2>2, TableFacts DEF Undisturbed
  <1>9. LocksSound' /\ TxsSound'
    BY <1>1, <1>8, PassingStep
  <1>10. IdentitiesSound' /\ AccountsGenuine'
    <2>1. IdentitiesSound' /\ AccountsDistinct'
      BY <1>1 DEF IdentitiesSound, AccountsGenuine, AccountsDistinct
    <2>2. PhoneProven'
      BY <1>1, <1>6 DEF AccountsGenuine, PhoneProven
    <2>3. QED
      BY <2>1, <2>2 DEF AccountsGenuine
  <1>11. OtpsSound'
    <2>1. wrong \in [1..MaxChallenges -> Nat] /\ wrong[c] \in Nat /\ wrong[c] <= otps[c].attempts
      BY <1>1, <1>2 DEF OtpsSound
    <2>2. PICK m \in Nat : m = wrong[c] + 1 /\ m <= n
      BY <1>3, <1>4, <2>1
    <2>3. /\ wrong' \in [1..MaxChallenges -> Nat]
          /\ wrong'[c] <= n
          /\ \A d \in 1..MaxChallenges \ {c} : wrong'[d] = wrong[d]
      <3>1. CASE wrong' = wrong
        BY <1>3, <1>4, <2>1, <3>1
      <3>2. CASE wrong' = [wrong EXCEPT ![c] = @ + 1]
        <4>1. wrong' = [wrong EXCEPT ![c] = m]
          BY <2>2, <3>2
        <4>2. QED
          BY <1>2, <2>1, <2>2, <4>1
      <3>3. QED
        BY <3>1, <3>2
    <2>4. QED
      BY <1>1, <1>5, <1>6, <2>3, TableFacts DEF OtpsSound
  <1>12. ShownSound'
    BY <1>1, <1>5, <1>6 DEF ShownSound
  <1>13. CountSound'
    <2>1. \A j \in Identifier : Requesting(j)' = Requesting(j)
      BY DEF Requesting
    <2>2. \A j \in Identifier : OtpsFor(j)' = OtpsFor(j)
      BY <1>5, <1>6 DEF OtpsFor
    <2>3. QED
      BY <1>1, <2>1, <2>2 DEF CountSound
  <1>14. ShownCodeIsCurrent'
    <2>1. \A d \in DOMAIN otps : otps'[d].resend_count = otps[d].resend_count
      BY <1>5, <1>6
    <2>2. QED
      BY <1>1, <1>6, <2>1 DEF ShownCodeIsCurrent, Sending
  <1>15. QED
    BY <1>7, <1>9, <1>10, <1>11, <1>12, <1>13, <1>14

\* OtpService.verify.
LEMMA VerifyOtpInv ==
    ASSUME AccountsInv, NEW c \in DOMAIN otps, NEW right \in BOOLEAN, VerifyOtp(c, right)
    PROVE  AccountsInv'
  <1>1. /\ TypeOK /\ LocksSound /\ TxsSound /\ SessionsSound /\ IdentitiesSound /\ OtpsSound
        /\ ShownSound /\ CountSound /\ ChallengeUsedOnce /\ AccountsGenuine /\ ShownCodeIsCurrent
    BY DEF AccountsInv
  <1>2. /\ UNCHANGED <<accounts, identities, nextOtp, shown, unsent, oauths, tokens, held, tx>>
        /\ Free(Row("otp", c)) /\ ~otps[c].consumed /\ ~otps[c].verified
    BY DEF VerifyOtp, accountVars
  <1>3. otps[c] \in OtpChallenge /\ c \in Nat
    BY <1>1, TableFacts DEF TypeOK
  <1>4. PICK n \in Nat : n = otps[c].attempts + 1
    BY <1>3 DEF OtpChallenge
  <1>5. ASSUME NEW row, GuessWrites(c, row),
               wrong' = wrong \/ wrong' = [wrong EXCEPT ![c] = @ + 1], UNCHANGED sessions
        PROVE  AccountsInv'
    <2>1. /\ DOMAIN otps' = DOMAIN otps /\ otps'[c] = row
          /\ \A d \in DOMAIN otps \ {c} : otps'[d] = otps[d]
          /\ row.identifier = otps[c].identifier
      BY <1>5 DEF GuessWrites
    <2>2. SessionsSound' /\ ChallengeUsedOnce'
      BY <1>2, <1>5, <2>1, PeopleKept
    <2>3. sessions' \in Seq(RefreshSession)
      BY <1>1, <1>5 DEF TypeOK
    <2>4. QED
      BY <1>2, <1>5, <2>2, <2>3, GuessInv DEF AccountsInv
  <1>6. CASE /\ ~right
             /\ otps' = [otps EXCEPT ![c] = Failed(@)]
             /\ wrong' = [wrong EXCEPT ![c] = @ + 1]
             /\ UNCHANGED sessions
    <2> DEFINE row == Failed(otps[c])
    <2>1. GuessWrites(c, row)
      <3>1. row = [otps[c] EXCEPT !.attempts = n, !.consumed = n >= MaxAttempts]
        BY <1>4 DEF Failed
      <3>2. otps' = [otps EXCEPT ![c] = row]
        BY <1>6
      <3> HIDE DEF row
      <3>3. MaxAttempts \in Nat
        BY AccountsAssumption
      <3>4. PICK end \in BOOLEAN : end = (n >= MaxAttempts) /\ (~end => n < MaxAttempts)
        <4>1. CASE n >= MaxAttempts
          <5>1. TRUE = (n >= MaxAttempts)
            BY <4>1
          <5>2. QED
            BY <5>1
        <4>2. CASE ~(n >= MaxAttempts)
          <5>1. FALSE = (n >= MaxAttempts) /\ n < MaxAttempts
            BY <3>3, <4>2
          <5>2. QED
            BY <5>1
        <4>3. QED
          BY <4>1, <4>2
      <3>5. row = [otps[c] EXCEPT !.attempts = n, !.consumed = end]
        BY <3>1, <3>4
      <3>6. /\ row \in OtpChallenge /\ row.identifier = otps[c].identifier
            /\ row.resend_count = otps[c].resend_count /\ row.attempts = n
            /\ row.consumed = end
        BY <1>3, <3>5 DEF OtpChallenge
      <3>7. ~row.consumed => row.attempts < MaxAttempts
        BY <3>4, <3>6
      <3>8. QED
        BY <1>4, <3>2, <3>6, <3>7 DEF GuessWrites
    <2>2. QED
      BY <1>5, <1>6, <2>1
  <1>7. ASSUME NEW used \in BOOLEAN
        PROVE  LET row == [otps[c] EXCEPT !.attempts = @ + 1, !.verified = TRUE, !.consumed = used]
               IN  /\ row \in OtpChallenge /\ row.identifier = otps[c].identifier
                   /\ row.resend_count = otps[c].resend_count
                   /\ row.attempts = otps[c].attempts + 1 /\ row.verified /\ row.consumed = used
    <2> DEFINE row == [otps[c] EXCEPT !.attempts = @ + 1, !.verified = TRUE, !.consumed = used]
    <2>1. row = [otps[c] EXCEPT !.attempts = n, !.verified = TRUE, !.consumed = used]
      BY <1>4
    <2> HIDE DEF row
    <2>2. /\ row \in OtpChallenge /\ row.identifier = otps[c].identifier
          /\ row.resend_count = otps[c].resend_count
          /\ row.attempts = n /\ row.verified /\ row.consumed = used
      BY <1>3, <2>1 DEF OtpChallenge
    <2>3. QED
      BY <1>4, <2>2 DEF row
  <1>8. ASSUME NEW a \in UserForIdentifier(otps[c].identifier),
               otps' = [otps EXCEPT ![c].attempts = @ + 1, ![c].verified = TRUE,
                                    ![c].consumed = TRUE],
               sessions' = Issue(a, None, "otp", c), UNCHANGED wrong
        PROVE  AccountsInv'
    <2> DEFINE row == [otps[c] EXCEPT !.attempts = @ + 1, !.verified = TRUE, !.consumed = TRUE]
    <2>1. otps' = [otps EXCEPT ![c] = row]
      BY <1>8
    <2>2. /\ row \in OtpChallenge /\ row.identifier = otps[c].identifier
          /\ row.resend_count = otps[c].resend_count
          /\ row.attempts = otps[c].attempts + 1 /\ row.verified /\ row.consumed = TRUE
      BY <1>7
    <2> HIDE DEF row
    <2>3. GuessWrites(c, row)
      BY <2>1, <2>2 DEF GuessWrites
    <2>4. a \in DOMAIN accounts /\ a \in Nat /\ a \in DOMAIN accounts'
      BY <1>1, <1>2, <1>8, TableFacts DEF UserForIdentifier, ByEmail, ByPhone
    <2>5. UsedStaysUsed /\ otps'[c].consumed
      BY <1>2, <2>1, <2>2 DEF UsedStaysUsed
    <2>6. /\ sessions' \in Seq(RefreshSession) /\ SessionsSound' /\ ChallengeUsedOnce'
          /\ \A s \in DOMAIN sessions : s \in DOMAIN sessions' /\ sessions'[s] = sessions[s]
      BY <1>2, <1>3, <1>8, <2>4, <2>5, IssueSound
    <2>7. QED
      BY <1>2, <1>8, <2>3, <2>6, GuessInv DEF AccountsInv
  <1>9. CASE /\ otps' = [otps EXCEPT ![c].attempts = @ + 1, ![c].verified = TRUE,
                                     ![c].consumed = otps[c].purpose # "REGISTRATION"]
             /\ UNCHANGED <<sessions, wrong>>
    <2>1. PICK used \in BOOLEAN : used = (otps[c].purpose # "REGISTRATION")
      OBVIOUS
    <2> DEFINE row == [otps[c] EXCEPT !.attempts = @ + 1, !.verified = TRUE, !.consumed = used]
    <2>2. otps' = [otps EXCEPT ![c] = row]
      BY <1>9, <2>1
    <2>3. /\ row \in OtpChallenge /\ row.identifier = otps[c].identifier
          /\ row.resend_count = otps[c].resend_count
          /\ row.attempts = otps[c].attempts + 1 /\ row.verified
      BY <1>7
    <2> HIDE DEF row
    <2>4. GuessWrites(c, row)
      BY <2>2, <2>3 DEF GuessWrites
    <2>5. QED
      BY <1>5, <1>9, <2>4
  <1>10. QED
    BY <1>6, <1>8, <1>9 DEF VerifyOtp

-----------------------------------------------------------------------------
(* Registration and OAuth.                                                  *)

\* A challenge that is stamped keeps its place, and a used one stays used.
LEMMA Stamped ==
    ASSUME NEW q \in Seq(OAuthChallenge), NEW o \in DOMAIN q, NEW r,
           \/ r = [q EXCEPT ![o].consumed = TRUE]
           \/ r = [q EXCEPT ![o].verified = TRUE]
    PROVE  /\ r \in Seq(OAuthChallenge) /\ DOMAIN r = DOMAIN q
           /\ \A u \in DOMAIN q : (q[u].consumed => r[u].consumed) /\ (u # o => r[u] = q[u])
           /\ r = [q EXCEPT ![o].consumed = TRUE] => r[o].consumed
  <1>1. q[o] \in OAuthChallenge
    BY ElementOfSeq, LenProperties
  <1>2. PICK x \in OAuthChallenge :
           /\ r = [q EXCEPT ![o] = x]
           /\ q[o].consumed => x.consumed
           /\ r = [q EXCEPT ![o].consumed = TRUE] => x.consumed
    <2>1. CASE r = [q EXCEPT ![o].consumed = TRUE]
      <3>1. PICK x \in OAuthChallenge : x = [q[o] EXCEPT !.consumed = TRUE] /\ x.consumed
        <4>1. [q[o] EXCEPT !.consumed = TRUE] \in OAuthChallenge
          BY <1>1 DEF OAuthChallenge
        <4>2. QED
          BY <1>1, <4>1 DEF OAuthChallenge
      <3>2. r = [q EXCEPT ![o] = x]
        BY <2>1, <3>1
      <3>3. QED
        BY <3>1, <3>2
    <2>2. CASE r # [q EXCEPT ![o].consumed = TRUE] /\ r = [q EXCEPT ![o].verified = TRUE]
      <3>1. PICK x \in OAuthChallenge :
               x = [q[o] EXCEPT !.verified = TRUE] /\ x.consumed = q[o].consumed
        <4>1. [q[o] EXCEPT !.verified = TRUE] \in OAuthChallenge
          BY <1>1 DEF OAuthChallenge
        <4>2. QED
          BY <1>1, <4>1 DEF OAuthChallenge
      <3>2. r = [q EXCEPT ![o] = x]
        BY <2>2, <3>1
      <3>3. QED
        BY <2>2, <3>1, <3>2
    <2>3. QED
      BY <2>1, <2>2
  <1>3. [q EXCEPT ![o] = x] \in Seq(OAuthChallenge)
    BY LenProperties, ExceptSeq
  <1>4. QED
    BY <1>2, <1>3

\* Codes that are only used up.
OtpsUsedUp ==
    /\ DOMAIN otps' = DOMAIN otps
    /\ \A c \in DOMAIN otps :
          /\ otps'[c] \in OtpChallenge
          /\ otps'[c].identifier = otps[c].identifier
          /\ otps'[c].attempts = otps[c].attempts
          /\ otps'[c].resend_count = otps[c].resend_count
          /\ otps'[c].verified = otps[c].verified
          /\ otps[c].consumed => otps'[c].consumed
    /\ UNCHANGED <<nextOtp, shown, wrong, unsent>>

\* A step that sends no code and at most uses some up.
LEMMA OtpsUsedUpInv ==
    ASSUME OtpsSound, ShownSound, CountSound, ShownCodeIsCurrent, OtpsUsedUp,
           \A w \in Worker :
              \/ tx'[w] = tx[w]
              \/ /\ tx[w].kind \notin {"request", "resend"}
                 /\ tx'[w].kind \notin {"request", "resend"}
    PROVE  OtpsSound' /\ ShownSound' /\ CountSound' /\ ShownCodeIsCurrent'
  <1>1. OtpsSound' /\ ShownSound'
    BY DEF OtpsSound, ShownSound, OtpsUsedUp
  <1>2. CountSound'
    <2>1. \A i \in Identifier : Requesting(i)' = Requesting(i) /\ OtpsFor(i)' = OtpsFor(i)
      BY DEF Requesting, OtpsFor, OtpsUsedUp
    <2>2. QED
      BY <2>1 DEF CountSound
  <1>3. ShownCodeIsCurrent'
    <2>1. \A c : Sending(c) => Sending(c)'
      BY DEF Sending
    <2>2. QED
      BY <2>1 DEF ShownCodeIsCurrent, OtpsUsedUp
  <1>4. QED
    BY <1>1, <1>2, <1>3

\* RegistrationService.register commits.
LEMMA CommitRegisterInv ==
    ASSUME AccountsInv, NEW w \in Worker, CommitRegister(w)
    PROVE  AccountsInv'
  <1>1. /\ TypeOK /\ LocksSound /\ TxsSound /\ SessionsSound /\ IdentitiesSound /\ OtpsSound
        /\ ShownSound /\ CountSound /\ ChallengeUsedOnce /\ AccountsGenuine /\ ShownCodeIsCurrent
    BY DEF AccountsInv
  <1>2. tx[w].kind = "register" /\ RegisterSound(w)
    BY <1>1 DEF CommitRegister, TxsSound, TxSound
  <1>3. PICK x \in Account, table \in {"otp", "oauth"}, id \in Nat :
           x = tx[w].account /\ table = tx[w].table /\ id = tx[w].id
    <2>1. tx[w].id \in Nat
      BY <1>1, <1>2, TableFacts DEF RegisterSound
    <2>2. QED
      BY <1>2, <2>1 DEF RegisterSound
  <1>4. /\ table = "otp" => /\ id \in DOMAIN otps
                            /\ otps[id].verified /\ ~otps[id].consumed
                            /\ otps[id].identifier = x.phone
        /\ table = "oauth" => id \in DOMAIN oauths /\ ~oauths[id].consumed /\ ~x.phone_verified
        /\ held[w] = {Row(table, id)}
    BY <1>1, <1>2, <1>3, LockFacts DEF RegisterSound
  <1>5. PICK n \in Nat : n = Len(accounts) + 1
    BY <1>1, TableFacts
  <1>6. /\ accounts' \in Seq(Account) /\ accounts'[n] = x /\ Len(accounts') = n
        /\ DOMAIN accounts' = DOMAIN accounts \cup {n} /\ n \notin DOMAIN accounts
        /\ \A a \in DOMAIN accounts : accounts'[a] = accounts[a]
    <2>1. accounts' = Append(accounts, x) /\ accounts \in Seq(Account)
      BY <1>1, <1>3 DEF CommitRegister, TypeOK
    <2>2. /\ accounts' \in Seq(Account) /\ accounts'[n] = x /\ Len(accounts') = n
          /\ \A a \in 1..Len(accounts) : accounts'[a] = accounts[a]
      BY <1>5, <2>1, AppendProperties
    <2>3. DOMAIN accounts' = 1..n /\ DOMAIN accounts = 1..Len(accounts) /\ Len(accounts) \in Nat
      BY <1>1, <2>2, LenProperties, TableFacts
    <2>4. QED
      BY <1>5, <2>2, <2>3
  <1>7. /\ Unique(x)
        /\ table = "oauth" => IdentityOf(x.email) = {}
        /\ identities' = identities \cup
              (IF table = "oauth" THEN {[subject |-> x.email, account |-> n]} ELSE {})
        /\ sessions' = Issue(n, None, table, id)
        /\ UNCHANGED <<nextOtp, shown, wrong, unsent, tokens>>
        /\ table = "otp" => otps' = [otps EXCEPT ![id].consumed = TRUE] /\ oauths' = oauths
        /\ table = "oauth" => otps' = otps /\ oauths' = [oauths EXCEPT ![id].consumed = TRUE]
    BY <1>3, <1>6 DEF CommitRegister
  <1>8. /\ DOMAIN tx' = Worker /\ DOMAIN held' = Worker
        /\ tx'[w].kind = "idle" /\ held'[w] = {}
        /\ \A v \in Worker \ {w} : tx'[v] = tx[v] /\ held'[v] = held[v]
    BY <1>1 DEF CommitRegister, TxsSound, LocksSound, Idle
  <1>9. /\ OtpsUsedUp
        /\ table = "otp" => otps'[id].consumed
        /\ \A c \in DOMAIN otps : Row("otp", c) # Row(table, id) => otps'[c] = otps[c]
    <2>1. \A c \in DOMAIN otps : otps[c] \in OtpChallenge
      BY <1>1 DEF TypeOK
    <2>2. CASE table = "otp"
      <3>1. otps[id] \in OtpChallenge
        BY <1>4, <2>1, <2>2
      <3>2. PICK row \in OtpChallenge :
               /\ row = [otps[id] EXCEPT !.consumed = TRUE] /\ row.consumed
               /\ row.identifier = otps[id].identifier /\ row.attempts = otps[id].attempts
               /\ row.resend_count = otps[id].resend_count /\ row.verified = otps[id].verified
        <4>1. [otps[id] EXCEPT !.consumed = TRUE] \in OtpChallenge
          BY <3>1 DEF OtpChallenge
        <4>2. QED
          BY <3>1, <4>1 DEF OtpChallenge
      <3>3. otps' = [otps EXCEPT ![id] = row]
        BY <1>7, <2>2, <3>2
      <3>4. QED
        BY <1>4, <1>7, <2>1, <2>2, <3>2, <3>3 DEF OtpsUsedUp
    <2>3. CASE table = "oauth"
      BY <1>7, <2>1, <2>3 DEF OtpsUsedUp
    <2>4. QED
      BY <2>2, <2>3
  <1>10. /\ oauths' \in Seq(OAuthChallenge) /\ DOMAIN oauths' = DOMAIN oauths
         /\ table = "oauth" => oauths'[id].consumed
         /\ \A o \in DOMAIN oauths :
               /\ oauths[o].consumed => oauths'[o].consumed
               /\ Row("oauth", o) # Row(table, id) => oauths'[o] = oauths[o]
    <2>1. oauths \in Seq(OAuthChallenge)
      BY <1>1 DEF TypeOK
    <2>2. CASE table = "oauth"
      BY <1>4, <1>7, <2>1, <2>2, Stamped
    <2>3. CASE table = "otp"
      BY <1>7, <2>1, <2>3
    <2>4. QED
      BY <2>2, <2>3
  <1>11. /\ sessions' \in Seq(RefreshSession) /\ SessionsSound' /\ ChallengeUsedOnce'
         /\ \A s \in DOMAIN sessions : s \in DOMAIN sessions' /\ sessions'[s] = sessions[s]
    <2>1. UsedStaysUsed
      BY <1>6, <1>9, <1>10 DEF UsedStaysUsed, OtpsUsedUp
    <2>2. n \in DOMAIN accounts' /\ table \in {"password", "otp", "oauth"} /\ table # "password"
      BY <1>6
    <2>3. QED
      BY <1>4, <1>7, <1>9, <1>10, <2>1, <2>2, IssueSound
  <1>12. \A v \in Worker \ {w} : Undisturbed(v)
    <2>1. \A v \in Worker \ {w} : Row(table, id) \notin held[v]
      BY <1>1, <1>4 DEF LocksSound
    <2>2. \A v \in Worker \ {w} : tx[v].kind = "request" => tx[v].id \notin DOMAIN otps'
      BY <1>1, <1>9, SenderFacts DEF OtpsUsedUp
    <2>3. QED
      BY <1>1, <1>6, <1>7, <1>9, <1>10, <1>11, <2>1, <2>2, TableFacts DEF Undisturbed, OtpsUsedUp
  <1>13. LocksSound' /\ TxsSound'
    <2>1. TxSound(w)' /\ held'[w] = Locks(tx'[w])
      BY <1>8 DEF TxSound, Locks
    <2>2. QED
      BY <1>1, <1>8, <1>12, <2>1, RequestStep
  <1>14. OtpsSound' /\ ShownSound' /\ CountSound' /\ ShownCodeIsCurrent'
    BY <1>1, <1>2, <1>8, <1>9, OtpsUsedUpInv
  <1>15. TypeOK'
    <2>1. identities' \subseteq Identity
      BY <1>1, <1>7 DEF TypeOK, Identity, Account
    <2>2. \A c \in DOMAIN otps' :
             otps'[c].attempts <= MaxAttempts /\ otps'[c].resend_count <= MaxResends
      BY <1>1, <1>9 DEF TypeOK, OtpsUsedUp
    <2>3. DOMAIN otps' \subseteq 1..nextOtp' /\ \A c \in DOMAIN otps' : otps'[c] \in OtpChallenge
      BY <1>1, <1>9 DEF TypeOK, OtpsUsedUp
    <2>4. QED
      BY <1>1, <1>6, <1>7, <1>10, <1>11, <2>1, <2>2, <2>3 DEF TypeOK
  <1>16. IdentitiesSound'
    BY <1>1, <1>6, <1>7 DEF IdentitiesSound
  <1>17. AccountsDistinct'
    <2>1. \A a \in DOMAIN accounts :
             /\ accounts[a].email # x.email
             /\ accounts[a].phone = x.phone => x.phone = NoValue
      BY <1>7 DEF Unique, ByEmail, ByPhone
    <2>2. \A a, b \in DOMAIN accounts' : a # b =>
             /\ accounts'[a].email # accounts'[b].email
             /\ accounts'[a].phone = accounts'[b].phone => accounts'[a].phone = NoValue
      BY <1>1, <1>6, <2>1 DEF AccountsGenuine, AccountsDistinct
    <2>3. \A i, j \in identities' : i.subject = j.subject \/ i.account = j.account => i = j
      <3>1. \A i, j \in identities : i.subject = j.subject \/ i.account = j.account => i = j
        BY <1>1 DEF AccountsGenuine, AccountsDistinct
      <3>2. CASE table = "otp"
        BY <1>7, <3>1, <3>2
      <3>3. CASE table = "oauth"
        <4>1. \A i \in identities : i.account # n /\ i.subject # x.email
          BY <1>1, <1>6, <1>7, <3>3 DEF IdentitiesSound, IdentityOf
        <4>2. identities' = identities \cup {[subject |-> x.email, account |-> n]}
          BY <1>7, <3>3
        <4>3. QED
          BY <3>1, <4>1, <4>2
      <3>4. QED
        BY <3>2, <3>3
    <2>4. QED
      BY <2>2, <2>3 DEF AccountsDistinct
  <1>18. PhoneProven'
    <2>1. ASSUME NEW a \in DOMAIN accounts', accounts'[a].phone_verified
          PROVE  \E c \in DOMAIN otps' :
                    /\ otps'[c].identifier = accounts'[a].phone
                    /\ otps'[c].verified /\ otps'[c].consumed
      <3>1. CASE a = n
        <4>1. table = "otp"
          BY <1>4, <1>6, <2>1, <3>1
        <4>2. QED
          BY <1>4, <1>6, <1>9, <3>1, <4>1 DEF OtpsUsedUp
      <3>2. CASE a \in DOMAIN accounts
        <4>1. PICK c \in DOMAIN otps : /\ otps[c].identifier = accounts[a].phone
                                       /\ otps[c].verified /\ otps[c].consumed
          BY <1>1, <1>6, <2>1, <3>2 DEF AccountsGenuine, PhoneProven
        <4>2. QED
          BY <1>6, <1>9, <3>2, <4>1 DEF OtpsUsedUp
      <3>3. QED
        BY <1>6, <3>1, <3>2
    <2>2. QED
      BY <2>1 DEF PhoneProven
  <1>19. QED
    BY <1>11, <1>13, <1>14, <1>15, <1>16, <1>17, <1>18 DEF AccountsInv, AccountsGenuine

\* OAuthService.start adds a challenge that nobody holds yet.
LEMMA StartOAuthInv ==
    ASSUME AccountsInv, StartOAuth
    PROVE  AccountsInv'
  <1>1. /\ TypeOK /\ LocksSound /\ TxsSound /\ SessionsSound /\ IdentitiesSound /\ OtpsSound
        /\ ShownSound /\ CountSound /\ ChallengeUsedOnce /\ AccountsGenuine /\ ShownCodeIsCurrent
    BY DEF AccountsInv
  <1>2. /\ UNCHANGED <<accounts, identities, sessions, otps, nextOtp, shown, wrong, unsent, tokens>>
        /\ UNCHANGED <<otpVars, held, tx>>
    BY DEF StartOAuth, accountVars, otpVars
  <1>3. /\ oauths' \in Seq(OAuthChallenge) /\ DOMAIN oauths \subseteq DOMAIN oauths'
        /\ \A o \in DOMAIN oauths : oauths'[o] = oauths[o]
    <2> DEFINE x == [verified |-> FALSE, consumed |-> FALSE]
    <2>1. x \in OAuthChallenge /\ oauths \in Seq(OAuthChallenge)
      BY <1>1 DEF OAuthChallenge, TypeOK
    <2>2. oauths' = Append(oauths, x)
      BY DEF StartOAuth
    <2> HIDE DEF x
    <2>3. /\ oauths' \in Seq(OAuthChallenge) /\ Len(oauths') = Len(oauths) + 1
          /\ \A o \in 1..Len(oauths) : oauths'[o] = oauths[o]
      BY <2>1, <2>2, AppendProperties
    <2>4. /\ DOMAIN oauths' = 1..(Len(oauths) + 1) /\ DOMAIN oauths = 1..Len(oauths)
          /\ Len(oauths) \in Nat
      BY <1>1, <2>3, LenProperties, TableFacts
    <2>5. QED
      BY <2>3, <2>4
  <1>4. \A v \in Worker : Undisturbed(v)
    <2>1. \A v \in Worker : tx[v].kind = "request" => tx[v].id \notin DOMAIN otps'
      BY <1>1, <1>2, SenderFacts
    <2>2. QED
      BY <1>1, <1>2, <1>3, <2>1, TableFacts DEF Undisturbed
  <1>5. LocksSound' /\ TxsSound'
    BY <1>1, <1>2, <1>4, PassingStep
  <1>6. OtpsSound' /\ ShownSound' /\ CountSound' /\ ShownCodeIsCurrent'
    BY <1>1, <1>2, OtpsUntouched
  <1>7. TypeOK'
    <2>1. tokens \subseteq [challenge : DOMAIN oauths', subject : Email]
      BY <1>1, <1>3 DEF TypeOK
    <2>2. QED
      BY <1>1, <1>2, <1>3, <2>1 DEF TypeOK
  <1>8. SessionsSound' /\ IdentitiesSound' /\ ChallengeUsedOnce' /\ AccountsGenuine'
    BY <1>1, <1>2, <1>3 DEF SessionsSound, IdentitiesSound, ChallengeUsedOnce, AccountsGenuine,
                            AccountsDistinct, PhoneProven
  <1>9. QED
    BY <1>5, <1>6, <1>7, <1>8 DEF AccountsInv

\* OAuthService.exchange commits: a sign-in, a link or a token to enrol with.
LEMMA CommitExchangeInv ==
    ASSUME AccountsInv, NEW w \in Worker, CommitExchange(w)
    PROVE  AccountsInv'
  <1>1. /\ TypeOK /\ LocksSound /\ TxsSound /\ SessionsSound /\ IdentitiesSound /\ OtpsSound
        /\ ShownSound /\ CountSound /\ ChallengeUsedOnce /\ AccountsGenuine /\ ShownCodeIsCurrent
    BY DEF AccountsInv
  <1>2. tx[w].kind \in {"signin", "link", "enrol"} /\ ExchangeSound(w)
    BY <1>1 DEF CommitExchange, TxsSound, TxSound
  <1>3. PICK o \in DOMAIN oauths, e \in Email : o = tx[w].id /\ e = tx[w].subject
    BY <1>2 DEF ExchangeSound
  <1>4. /\ ~oauths[o].consumed /\ held[w] = {Row("oauth", o)} /\ o \in Nat
        /\ tx[w].kind # "enrol" => tx[w].account \in DOMAIN accounts /\ tx[w].account \in Nat
    BY <1>1, <1>2, <1>3, LockFacts, TableFacts DEF ExchangeSound
  <1>5. /\ UNCHANGED <<accounts, otps, nextOtp, shown, wrong, unsent>>
        /\ UNCHANGED otpVars
        /\ DOMAIN tx' = Worker /\ DOMAIN held' = Worker
        /\ tx'[w].kind = "idle" /\ held'[w] = {}
        /\ \A v \in Worker \ {w} : tx'[v] = tx[v] /\ held'[v] = held[v]
    BY <1>1 DEF CommitExchange, TxsSound, LocksSound, Idle, otpVars
  <1>6. /\ tx[w].kind # "enrol" => oauths' = [oauths EXCEPT ![o].consumed = TRUE]
        /\ tx[w].kind = "enrol" => oauths' = [oauths EXCEPT ![o].verified = TRUE]
    BY <1>3 DEF CommitExchange
  <1>7. /\ oauths' \in Seq(OAuthChallenge) /\ DOMAIN oauths' = DOMAIN oauths
        /\ \A u \in DOMAIN oauths :
              (oauths[u].consumed => oauths'[u].consumed) /\ (u # o => oauths'[u] = oauths[u])
        /\ tx[w].kind # "enrol" => oauths'[o].consumed
    <2>1. oauths \in Seq(OAuthChallenge)
      BY <1>1 DEF TypeOK
    <2>2. QED
      BY <1>6, <2>1, Stamped
  <1>8. UsedStaysUsed
    BY <1>5, <1>7 DEF UsedStaysUsed
  <1>9. /\ sessions' \in Seq(RefreshSession) /\ SessionsSound' /\ ChallengeUsedOnce'
        /\ \A s \in DOMAIN sessions : s \in DOMAIN sessions' /\ sessions'[s] = sessions[s]
    <2>1. CASE tx[w].kind = "signin"
      <3>1. PICK a \in DOMAIN accounts : a = tx[w].account /\ a \in Nat
        BY <1>4, <2>1
      <3>2. sessions' = Issue(a, None, "oauth", o) /\ a \in DOMAIN accounts'
        BY <1>3, <1>5, <2>1, <3>1 DEF CommitExchange
      <3>3. oauths'[o].consumed
        BY <1>7, <2>1
      <3>4. QED
        BY <1>4, <1>8, <3>1, <3>2, <3>3, IssueSound
    <2>2. CASE tx[w].kind # "signin"
      <3>1. sessions' = sessions
        BY <2>2 DEF CommitExchange
      <3>2. QED
        BY <1>1, <1>5, <1>7, <3>1 DEF TypeOK, SessionsSound, ChallengeUsedOnce
    <2>3. QED
      BY <2>1, <2>2
  <1>10. \/ identities' = identities
         \/ \E a \in DOMAIN accounts :
               /\ Attachable(e, a) /\ a \in Nat
               /\ identities' = identities \cup {[subject |-> e, account |-> a]}
    <2>1. CASE tx[w].kind = "enrol"
      BY <2>1 DEF CommitExchange
    <2>2. CASE tx[w].kind # "enrol"
      <3>1. PICK a \in DOMAIN accounts : a = tx[w].account /\ a \in Nat
        BY <1>4, <2>2
      <3>2. Attach(w)
        BY <2>2 DEF CommitExchange
      <3>3. QED
        BY <1>3, <3>1, <3>2 DEF Attach
    <2>3. QED
      BY <2>1, <2>2
  <1>11. identities' \subseteq Identity /\ IdentitiesSound' /\ AccountsGenuine'
    <2>1. identities \subseteq Identity /\ IdentitiesSound /\ AccountsDistinct /\ PhoneProven
      BY <1>1 DEF TypeOK, AccountsGenuine
    <2>2. PhoneProven'
      BY <1>5, <2>1 DEF PhoneProven
    <2>3. CASE identities' = identities
      BY <1>5, <2>1, <2>2, <2>3 DEF IdentitiesSound, AccountsGenuine, AccountsDistinct
    <2>4. ASSUME NEW a \in DOMAIN accounts, Attachable(e, a), a \in Nat,
                 identities' = identities \cup {[subject |-> e, account |-> a]}
          PROVE  identities' \subseteq Identity /\ IdentitiesSound' /\ AccountsGenuine'
      <3> DEFINE x == [subject |-> e, account |-> a]
      <3>1. x \in Identity /\ x.subject = e /\ x.account = a
        BY <2>4 DEF Identity
      <3>2. \A i \in identities : i.subject # x.subject /\ i.account # x.account
        BY <2>4, <3>1 DEF Attachable
      <3>3. identities' = identities \cup {x}
        BY <2>4
      <3> HIDE DEF x
      <3>4. AccountsDistinct'
        BY <1>5, <2>1, <3>2, <3>3 DEF AccountsDistinct
      <3>5. IdentitiesSound'
        BY <1>5, <2>1, <3>1, <3>3 DEF IdentitiesSound
      <3>6. QED
        BY <2>1, <2>2, <3>1, <3>3, <3>4, <3>5 DEF AccountsGenuine
    <2>5. QED
      BY <1>10, <2>3, <2>4
  <1>12. TypeOK'
    <2>1. tokens' \subseteq [challenge : DOMAIN oauths', subject : Email]
      <3>1. tokens \subseteq [challenge : DOMAIN oauths, subject : Email]
        BY <1>1 DEF TypeOK
      <3>2. tokens' = tokens \/ tokens' = tokens \cup {[challenge |-> o, subject |-> e]}
        BY <1>3 DEF CommitExchange
      <3>3. QED
        BY <1>7, <3>1, <3>2
    <2>2. QED
      BY <1>1, <1>5, <1>7, <1>9, <1>11, <2>1 DEF TypeOK
  <1>13. \A v \in Worker \ {w} : Undisturbed(v)
    <2>1. \A v \in Worker \ {w} : Row("oauth", o) \notin held[v]
      BY <1>1, <1>4 DEF LocksSound
    <2>2. \A v \in Worker \ {w} : tx[v].kind = "request" => tx[v].id \notin DOMAIN otps'
      BY <1>1, <1>5, SenderFacts
    <2>3. QED
      BY <1>1, <1>5, <1>7, <1>9, <2>1, <2>2, TableFacts DEF Undisturbed
  <1>14. LocksSound' /\ TxsSound'
    <2>1. TxSound(w)' /\ held'[w] = Locks(tx'[w])
      BY <1>5 DEF TxSound, Locks
    <2>2. QED
      BY <1>1, <1>5, <1>13, <2>1, RequestStep
  <1>15. OtpsSound' /\ ShownSound' /\ CountSound' /\ ShownCodeIsCurrent'
    BY <1>1, <1>2, <1>5, OtpsUntouched
  <1>16. QED
    BY <1>9, <1>11, <1>12, <1>14, <1>15 DEF AccountsInv

-----------------------------------------------------------------------------
(* The invariant.                                                           *)

\* The process restarts.
LEMMA RestartInv ==
    ASSUME AccountsInv, Restart
    PROVE  AccountsInv'
  <1>1. /\ TypeOK /\ LocksSound /\ TxsSound /\ SessionsSound /\ IdentitiesSound /\ OtpsSound
        /\ ShownSound /\ CountSound /\ ChallengeUsedOnce /\ AccountsGenuine /\ ShownCodeIsCurrent
    BY DEF AccountsInv
  <1>2. /\ UNCHANGED <<accounts, identities, sessions, otps, nextOtp, wrong, oauths, tokens>>
        /\ held' = [v \in Worker |-> {}] /\ tx' = [v \in Worker |-> Idle]
        /\ shown' = [i \in Identifier |-> NoCode]
        /\ \A v \in Worker : tx'[v].kind = "idle" /\ held'[v] = {}
    BY DEF Restart, accountVars, Idle
  <1>3. LocksSound' /\ TxsSound'
    <2>1. \A v \in Worker : TxSound(v)' /\ Locks(tx'[v]) = {}
      BY <1>2 DEF TxSound, Locks
    <2>2. QED
      BY <1>2, <2>1 DEF LocksSound, TxsSound
  <1>4. TypeOK' /\ OtpsSound'
    BY <1>1, <1>2 DEF TypeOK, OtpsSound
  <1>5. ShownSound' /\ ShownCodeIsCurrent'
    <2>1. NoCode[1] = 0 /\ 0 <= nextOtp /\ 0 \notin DOMAIN otps
      BY <1>1, TableFacts DEF NoCode, TypeOK
    <2>2. QED
      BY <1>2, <2>1 DEF ShownSound, ShownCodeIsCurrent
  <1>6. SessionsSound' /\ IdentitiesSound' /\ ChallengeUsedOnce' /\ AccountsGenuine'
    BY <1>2, PeopleKept
  <1>7. CountSound'
    <2>1. ASSUME NEW j \in Identifier
          PROVE  Cardinality(OtpsFor(j)') + Cardinality(Requesting(j)')
                    <= IdentifierLimit + Cardinality(Worker) - 1
      <3>1. OtpsFor(j)' = OtpsFor(j)
        BY <1>2 DEF OtpsFor
      <3>2. Requesting(j)' = {}
        BY <1>2 DEF Requesting
      <3>3. Cardinality(Requesting(j)') = 0
        BY <3>2, FS_EmptySet
      <3>4. /\ Cardinality(OtpsFor(j)) \in Nat /\ Cardinality(Requesting(j)) \in Nat
            /\ Cardinality(Worker) \in Nat /\ IdentifierLimit \in Nat
        BY <1>1, Finite, TableFacts
      <3>5. Cardinality(OtpsFor(j)) + Cardinality(Requesting(j))
               <= IdentifierLimit + Cardinality(Worker) - 1
        BY <1>1 DEF CountSound
      <3>6. QED
        BY <3>1, <3>3, <3>4, <3>5
    <2>2. QED
      BY <2>1 DEF CountSound
  <1>8. QED
    BY <1>3, <1>4, <1>5, <1>6, <1>7 DEF AccountsInv

\* No row, no request.
LEMMA AccountsInit ==
    Init => AccountsInv
  <1> SUFFICES ASSUME Init PROVE AccountsInv
    OBVIOUS
  <1>1. /\ accounts = <<>> /\ identities = {} /\ sessions = <<>> /\ oauths = <<>> /\ tokens = {}
        /\ otps = <<>> /\ nextOtp = 0 /\ shown = [i \in Identifier |-> NoCode]
        /\ held = [v \in Worker |-> {}] /\ tx = [v \in Worker |-> Idle]
        /\ wrong = [c \in 1..MaxChallenges |-> 0]
        /\ \A v \in Worker : tx[v].kind = "idle"
    BY DEF Init, Idle
  <1>2. DOMAIN accounts = {} /\ DOMAIN sessions = {} /\ DOMAIN otps = {} /\ DOMAIN oauths = {}
    BY <1>1
  <1>3. TypeOK
    <2>1. /\ accounts \in Seq(Account) /\ sessions \in Seq(RefreshSession)
          /\ oauths \in Seq(OAuthChallenge)
      BY <1>1
    <2>2. nextOtp \in 0..MaxChallenges
      BY <1>1, AccountsAssumption
    <2>3. QED
      BY <1>1, <1>2, <2>1, <2>2 DEF TypeOK
  <1>4. LocksSound /\ TxsSound
    BY <1>1 DEF LocksSound, TxsSound, TxSound, Locks
  <1>5. OtpsSound
    BY <1>1, <1>2 DEF OtpsSound
  <1>6. ShownSound /\ ShownCodeIsCurrent
    BY <1>1, <1>2 DEF ShownSound, ShownCodeIsCurrent, NoCode
  <1>7. SessionsSound /\ IdentitiesSound /\ ChallengeUsedOnce /\ AccountsGenuine
    BY <1>1, <1>2 DEF SessionsSound, IdentitiesSound, ChallengeUsedOnce, AccountsGenuine,
                      AccountsDistinct, PhoneProven
  <1>8. CountSound
    <2>1. ASSUME NEW j \in Identifier
          PROVE  Cardinality(OtpsFor(j)) + Cardinality(Requesting(j))
                    <= IdentifierLimit + Cardinality(Worker) - 1
      <3>1. OtpsFor(j) = {} /\ Requesting(j) = {}
        BY <1>1, <1>2 DEF OtpsFor, Requesting
      <3>2. Cardinality(OtpsFor(j)) = 0 /\ Cardinality(Requesting(j)) = 0
        BY <3>1, FS_EmptySet
      <3>3. Cardinality(Worker) \in Nat /\ IdentifierLimit \in Nat \ {0}
        BY <1>3, Finite, TableFacts
      <3>4. QED
        BY <3>2, <3>3
    <2>2. QED
      BY <2>1 DEF CountSound
  <1>9. QED
    BY <1>3, <1>4, <1>5, <1>6, <1>7, <1>8 DEF AccountsInv

\* Nothing happens.
LEMMA AccountsStutter ==
    ASSUME AccountsInv, UNCHANGED vars
    PROVE  AccountsInv'
  <1>1. /\ TypeOK /\ LocksSound /\ TxsSound /\ SessionsSound /\ IdentitiesSound /\ OtpsSound
        /\ ShownSound /\ CountSound /\ ChallengeUsedOnce /\ AccountsGenuine /\ ShownCodeIsCurrent
    BY DEF AccountsInv
  <1>2. SameTables /\ UNCHANGED <<tx, held, otpVars>>
    BY DEF vars, SameTables, otpVars
  <1>3. LocksSound' /\ TxsSound'
    BY <1>1, <1>2, SameTablesUndisturbed, PassingStep
  <1>4. OtpsSound' /\ ShownSound' /\ CountSound' /\ ShownCodeIsCurrent'
    BY <1>1, <1>2, OtpsUntouched
  <1>5. SessionsSound' /\ IdentitiesSound' /\ ChallengeUsedOnce' /\ AccountsGenuine'
    BY <1>2, PeopleKept DEF SameTables
  <1>6. TypeOK'
    BY <1>1, <1>2 DEF SameTables, TypeOK
  <1>7. QED
    BY <1>3, <1>4, <1>5, <1>6 DEF AccountsInv

\* Every step keeps the invariant.
LEMMA AccountsStep ==
    ASSUME AccountsInv, [Next]_vars
    PROVE  AccountsInv'
  <1>1. CASE SessionStep
    BY <1>1, LoginInv, LogoutInv, CommitRefreshInv, RefreshInv DEF SessionStep
  <1>2. CASE OtpStep
    BY <1>2, RequestOtpInv, CommitOtpInv, CommitResendInv, RollbackOtpInv, ResendOtpInv,
       VerifyOtpInv DEF OtpStep
  <1>3. CASE RegistrationStep
    BY <1>3, RegisterInv, CommitRegisterInv DEF RegistrationStep
  <1>4. CASE OAuthStep
    BY <1>4, StartOAuthInv, ExchangeInv, CommitExchangeInv DEF OAuthStep
  <1>5. CASE \E w \in Worker : Abort(w)
    BY <1>5, AbortInv
  <1>6. CASE Restart
    BY <1>6, RestartInv
  <1>7. CASE UNCHANGED vars
    BY <1>7, AccountsStutter
  <1>8. QED
    BY <1>1, <1>2, <1>3, <1>4, <1>5, <1>6, <1>7 DEF Next

-----------------------------------------------------------------------------
(* The theorems.                                                            *)

\* The inductive invariant, whichever requests run at the same time and
\* whenever the process restarts.
THEOREM AccountsInvariant == Spec => []AccountsInv
  <1>1. Init => AccountsInv
    BY AccountsInit
  <1>2. AccountsInv /\ [Next]_vars => AccountsInv'
    BY AccountsStep
  <1>3. QED
    BY <1>1, <1>2, PTL DEF Spec

\* A one-time code or an OAuth challenge opens at most one session.
THEOREM ChallengesAreUsedOnce == Spec => []ChallengeUsedOnce
  <1>1. AccountsInv => ChallengeUsedOnce
    BY DEF AccountsInv
  <1>2. QED
    BY <1>1, AccountsInvariant, PTL

\* At most MaxAttempts guesses at a code; and the hourly limit of codes, read
\* without a lock, is passed by less than the number of requests that run at
\* the same time.
THEOREM CodesAreBounded == Spec => []CodesBounded
  <1>1. AccountsInv => CodesBounded
    <2> SUFFICES ASSUME AccountsInv PROVE CodesBounded
      OBVIOUS
    <2>1. TypeOK /\ OtpsSound /\ CountSound
      BY DEF AccountsInv
    <2>2. GuessesBounded
      <3>1. ASSUME NEW c \in 1..MaxChallenges PROVE wrong[c] <= MaxAttempts
        <4>1. wrong[c] \in Nat /\ MaxAttempts \in Nat
          BY <2>1, TableFacts DEF OtpsSound
        <4>2. CASE c \notin DOMAIN otps
          BY <2>1, <4>1, <4>2 DEF OtpsSound
        <4>3. CASE c \in DOMAIN otps
          <5>1. otps[c].attempts \in Nat /\ otps[c].attempts <= MaxAttempts
            BY <2>1, <4>3 DEF TypeOK, OtpChallenge
          <5>2. wrong[c] <= otps[c].attempts
            BY <2>1, <4>3 DEF OtpsSound
          <5>3. QED
            BY <4>1, <5>1, <5>2
        <4>4. QED
          BY <4>2, <4>3
      <3>2. QED
        BY <3>1 DEF GuessesBounded
    <2>3. OvershootBounded
      <3>1. ASSUME NEW i \in Identifier
            PROVE  Cardinality(OtpsFor(i)) <= IdentifierLimit + Cardinality(Worker) - 1
        <4>1. /\ Cardinality(OtpsFor(i)) \in Nat /\ Cardinality(Requesting(i)) \in Nat
              /\ Cardinality(Worker) \in Nat /\ IdentifierLimit \in Nat
          BY <2>1, Finite, TableFacts
        <4>2. Cardinality(OtpsFor(i)) + Cardinality(Requesting(i))
                 <= IdentifierLimit + Cardinality(Worker) - 1
          BY <2>1 DEF CountSound
        <4>3. QED
          BY <4>1, <4>2
      <3>2. QED
        BY <3>1 DEF OvershootBounded
    <2>4. QED
      BY <2>1, <2>2, <2>3 DEF CodesBounded
  <1>2. QED
    BY <1>1, AccountsInvariant, PTL

\* No two accounts share an address, a number or a provider's account, and a
\* number that counts as verified was proven.
THEOREM AccountsAreGenuine == Spec => []AccountsGenuine
  <1>1. AccountsInv => AccountsGenuine
    BY DEF AccountsInv
  <1>2. QED
    BY <1>1, AccountsInvariant, PTL

\* The bot shows the code that opens the challenge, unless that code is being
\* sent or could not be sent or saved.
THEOREM BotShowsCurrentCode == Spec => []ShownCodeIsCurrent
  <1>1. AccountsInv => ShownCodeIsCurrent
    BY DEF AccountsInv
  <1>2. QED
    BY <1>1, AccountsInvariant, PTL

\* SessionService.issue for a sign-in adds no rotated session.
LEMMA IssueIsNoRotation ==
    ASSUME TypeOK, NEW account, NEW origin, NEW challenge, origin # "refresh",
           sessions' = Issue(account, None, origin, challenge)
    PROVE  \A s \in DOMAIN sessions' \ DOMAIN sessions : sessions'[s].origin # "refresh"
  <1> DEFINE x == [account |-> account, status |-> "active", parent |-> None,
                   origin |-> origin, challenge |-> challenge]
             S == RefreshSession \cup {x}
  <1>1. x.origin = origin /\ sessions' = Append(sessions, x)
    BY DEF Issue
  <1>2. sessions \in Seq(S) /\ x \in S
    BY DEF TypeOK
  <1> HIDE DEF x, S
  <1>3. sessions' \in Seq(S) /\ Len(sessions') = Len(sessions) + 1
        /\ sessions'[Len(sessions) + 1] = x
    BY <1>1, <1>2, AppendProperties
  <1>4. DOMAIN sessions' = 1..(Len(sessions) + 1)
    BY <1>3, LenProperties
  <1>5. QED
    BY <1>1, <1>3, <1>4, TableFacts

\* Every step but the commit of a refresh adds no rotated session.
LEMMA OnlyRefreshRotates ==
    ASSUME AccountsInv, [Next]_vars, ~ \E w \in Worker : CommitRefresh(w)
    PROVE  \A s \in DOMAIN sessions' \ DOMAIN sessions : sessions'[s].origin # "refresh"
  <1>1. TypeOK /\ TxsSound
    BY DEF AccountsInv
  <1>2. ASSUME DOMAIN sessions' = DOMAIN sessions
        PROVE  \A s \in DOMAIN sessions' \ DOMAIN sessions : sessions'[s].origin # "refresh"
    BY <1>2
  <1>3. CASE SessionStep
    <2>1. ASSUME NEW a \in DOMAIN accounts, Login(a)
          PROVE  \A s \in DOMAIN sessions' \ DOMAIN sessions : sessions'[s].origin # "refresh"
      BY <1>1, <2>1, IssueIsNoRotation DEF Login
    <2>2. ASSUME NEW s \in DOMAIN sessions, NEW t \in DOMAIN sessions, Logout(s, t)
          PROVE  DOMAIN sessions' = DOMAIN sessions
      BY <2>2 DEF Logout
    <2>3. ASSUME NEW w \in Worker, NEW s \in DOMAIN sessions, Refresh(w, s)
          PROVE  DOMAIN sessions' = DOMAIN sessions
      BY <2>3 DEF Refresh
    <2>4. QED
      BY <1>2, <1>3, <2>1, <2>2, <2>3 DEF SessionStep
  <1>4. CASE OtpStep
    <2>1. ASSUME NEW c \in DOMAIN otps, NEW right \in BOOLEAN, VerifyOtp(c, right)
          PROVE  \A s \in DOMAIN sessions' \ DOMAIN sessions : sessions'[s].origin # "refresh"
      <3>1. sessions' = sessions \/ \E a : sessions' = Issue(a, None, "otp", c)
        BY <2>1 DEF VerifyOtp
      <3>2. QED
        BY <1>1, <1>2, <3>1, IssueIsNoRotation
    <2>2. CASE ~ \E c \in DOMAIN otps, right \in BOOLEAN : VerifyOtp(c, right)
      <3>1. sessions' = sessions
        BY <1>4, <2>2 DEF OtpStep, RequestOtp, CommitOtp, CommitResend, RollbackOtp, ResendOtp
      <3>2. QED
        BY <3>1
    <2>3. QED
      BY <2>1, <2>2
  <1>5. CASE RegistrationStep
    <2>1. ASSUME NEW w \in Worker, CommitRegister(w)
          PROVE  \A s \in DOMAIN sessions' \ DOMAIN sessions : sessions'[s].origin # "refresh"
      <3>1. PICK table \in {"otp", "oauth"} : table = tx[w].table
        BY <1>1, <2>1 DEF CommitRegister, TxsSound, TxSound, RegisterSound
      <3>2. PICK n, id : sessions' = Issue(n, None, table, id)
        BY <2>1, <3>1 DEF CommitRegister
      <3>3. QED
        BY <1>1, <3>2, IssueIsNoRotation
    <2>2. CASE ~ \E w \in Worker : CommitRegister(w)
      <3>1. PICK w \in Worker, g \in Gstin \cup {NoValue} :
               \/ \E c \in DOMAIN otps, e \in Email, p \in Phone : RegisterByOtp(w, c, e, p, g)
               \/ \E token \in tokens, p \in Phone \cup {NoValue} : RegisterByOAuth(w, token, p, g)
        BY <1>5, <2>2 DEF RegistrationStep
      <3>2. sessions' = sessions
        BY <3>1 DEF RegisterByOtp, RegisterByOAuth
      <3>3. QED
        BY <3>2
    <2>3. QED
      BY <2>1, <2>2
  <1>6. CASE OAuthStep
    <2>1. ASSUME NEW w \in Worker, CommitExchange(w)
          PROVE  \A s \in DOMAIN sessions' \ DOMAIN sessions : sessions'[s].origin # "refresh"
      <3>1. sessions' = sessions \/ \E a, o : sessions' = Issue(a, None, "oauth", o)
        BY <2>1 DEF CommitExchange
      <3>2. QED
        BY <1>1, <1>2, <3>1, IssueIsNoRotation
    <2>2. CASE ~ \E w \in Worker : CommitExchange(w)
      <3>1. sessions' = sessions
        BY <1>6, <2>2 DEF OAuthStep, StartOAuth, Exchange, Link
      <3>2. QED
        BY <3>1
    <2>3. QED
      BY <2>1, <2>2
  <1>7. CASE (\E w \in Worker : Abort(w)) \/ Restart \/ UNCHANGED vars
    BY <1>2, <1>7 DEF Abort, Restart, vars
  <1>8. QED
    BY <1>3, <1>4, <1>5, <1>6, <1>7 DEF Next

\* A refresh replaces a session that is active and revokes it in the same
\* commit: a refresh token leads to one successor at most.
THEOREM RefreshIsAtomic == Spec => RotationIsAtomic
  <1> DEFINE Rotates(s) ==
        /\ sessions[sessions'[s].parent].status # "revoked"
        /\ sessions'[sessions'[s].parent].status = "revoked"
  <1>1. AccountsInv /\ [Next]_vars =>
           [\A s \in DOMAIN sessions' \ DOMAIN sessions : sessions'[s].origin = "refresh" =>
              /\ sessions[sessions'[s].parent].status # "revoked"
              /\ sessions'[sessions'[s].parent].status = "revoked"]_vars
    <2> SUFFICES ASSUME AccountsInv, [Next]_vars,
                        NEW s \in DOMAIN sessions' \ DOMAIN sessions, sessions'[s].origin = "refresh"
                 PROVE  Rotates(s)
      OBVIOUS
    <2>1. PICK w \in Worker : CommitRefresh(w)
      BY OnlyRefreshRotates
    <2>2. PICK old \in DOMAIN sessions, n \in Nat :
             /\ sessions[old].status = "active"
             /\ DOMAIN sessions' = DOMAIN sessions \cup {n}
             /\ sessions'[old].status = "revoked"
             /\ sessions'[n].parent = old
      BY <2>1, CommitRefreshFacts
    <2>3. QED
      BY <2>2
  <1>2. QED
    BY <1>1, AccountsInvariant, PTL DEF Spec, RotationIsAtomic
=============================================================================
