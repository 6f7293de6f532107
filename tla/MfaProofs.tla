------------------------------- MODULE MfaProofs -------------------------------
(***************************************************************************)
(* Theorems about Mfa, for any number of clients, numbers and requests:    *)
(* user.mfa agrees with itself, a request changes one method, a backup     *)
(* code is used once, a logout lasts, a verified number was confirmed.     *)
(***************************************************************************)
EXTENDS Mfa, TLAPS

Ops == SessionOps \cup MfaOps \cup {"none"}

-----------------------------------------------------------------------------
(* What the three ways to change a call do to its type.                     *)

LEMMA AsksTypes ==
    ASSUME call \in [Clients -> Call], user \in Document, NEW c \in Clients,
           NEW op \in Ops, NEW type \in Types \cup {NoType},
           NEW number \in Numbers \cup {NoNumber}, NEW code \in Codes, NEW at \in Labels,
           Asks(c, op, type, number, code, at)
    PROVE  call' \in [Clients -> Call]
<1>1. [op |-> op, at |-> at, type |-> type, number |-> number, code |-> code, saw |-> user] \in Call
  BY DEF Call, Ops
<1> QED
  BY <1>1 DEF Asks

LEMMA GoesTypes ==
    ASSUME call \in [Clients -> Call], NEW c \in Clients, NEW at \in Labels, Goes(c, at)
    PROVE  call' \in [Clients -> Call]
BY DEF Goes, Call

LEMMA ListedTypes ==
    ASSUME NEW r \in Call, NEW d \in Document
    PROVE  [r EXCEPT !.at = "listed", !.saw = d] \in Call
BY DEF Call, Labels

LEMMA NewUserTypes ==
    ASSUME NEW google \in BOOLEAN
    PROVE  NewUser(google) \in Document
<1>1. MfaOff \in Mfa
  BY DEF MfaOff, Mfa
<1>2. 1 \in Codes /\ NoCode \in Codes
  BY SessionsAssumption DEF Codes, Drawn, NoCode
<1> DEFINE k == IF google THEN NoCode ELSE 1
<1>3. k \in Codes
  BY <1>2
<1>4. NewUser(google) = [verified |-> google, code |-> k, refresh |-> google,
        number |-> NoNumber, phoneCode |-> NoCode, phoneVerified |-> FALSE,
        cooldown |-> FALSE, mfa |-> MfaOff, credentials |-> {}]
  BY DEF NewUser
<1> HIDE DEF k
<1> QED
  BY <1>1, <1>2, <1>3, <1>4 DEF Document

LEMMA EndsTypes ==
    ASSUME call \in [Clients -> Call], NEW c \in Clients, Ends(c)
    PROVE  call' \in [Clients -> Call]
<1>1. Idle \in Call
  BY NewUserTypes DEF Idle, Call, Labels, Codes
<1> QED
  BY <1>1 DEF Ends
-----------------------------------------------------------------------------
(* What the updates of the document do to its type.                         *)

LEMMA DocumentTypes ==
    ASSUME NEW d \in Document
    PROVE  /\ \A v \in BOOLEAN : /\ [d EXCEPT !.verified = v] \in Document
                                 /\ [d EXCEPT !.refresh = v] \in Document
                                 /\ [d EXCEPT !.cooldown = v] \in Document
           /\ \A k \in Codes : /\ [d EXCEPT !.code = k] \in Document
                               /\ [d EXCEPT !.phoneCode = k] \in Document
           /\ \A m \in Mfa : [d EXCEPT !.mfa = m] \in Document
           /\ \A s \in SUBSET Codes : [d EXCEPT !.credentials = s] \in Document
BY DEF Document

LEMMA PairTypes ==
    ASSUME NEW d \in Document, NEW k \in Codes, NEW n \in Numbers \cup {NoNumber},
           NEW v \in BOOLEAN, NEW w \in BOOLEAN
    PROVE  /\ [d EXCEPT !.verified = v, !.code = k] \in Document
           /\ [d EXCEPT !.phoneVerified = v, !.phoneCode = k, !.cooldown = w] \in Document
           /\ [d EXCEPT !.number = n, !.phoneCode = k, !.phoneVerified = v,
                        !.cooldown = w] \in Document
BY DEF Document

LEMMA MfaTypes ==
    ASSUME NEW m \in Mfa
    PROVE  /\ \A t \in Types, k \in Drawn : Enabled(m, t, k) \in Mfa
           /\ \A t : Disabled(m, t) \subseteq Mfa
           /\ \A k : [m EXCEPT !.secrets = @ \ {k}] \in Mfa
<1>1. ASSUME NEW t \in Types, NEW k \in Drawn PROVE Enabled(m, t, k) \in Mfa
  BY DEF Enabled, Mfa, Types
<1>2. ASSUME NEW t, NEW d \in Disabled(m, t) PROVE d \in Mfa
  <2>1. CASE Active(m.methods \ {t}) = {}
    <3>1. d = MfaOff
      BY <1>2, <2>1 DEF Disabled
    <3> QED
      BY <3>1 DEF MfaOff, Mfa
  <2>2. CASE Active(m.methods \ {t}) # {}
    <3> DEFINE left == IF m.primary = t THEN Active(m.methods \ {t}) ELSE {m.primary}
    <3>1. PICK p \in left : d = [m EXCEPT !.methods = m.methods \ {t}, !.primary = p]
      BY <1>2, <2>2 DEF Disabled
    <3>2. p \in Types \cup {NoType}
      BY DEF Active, Mfa
    <3> HIDE DEF left
    <3> QED
      BY <3>1, <3>2 DEF Mfa
  <2> QED
    BY <2>1, <2>2
<1> QED
  BY <1>1, <1>2 DEF Mfa

-----------------------------------------------------------------------------
(* What the calls under way rest on.                                        *)

\* A request that changes user.mfa has read a value that agrees with itself and
\* names a method of its own kind; a refresh has seen a session.
CallOK(r) ==
    /\ Consistent(r.saw.mfa)
    /\ r.op \in {"verifySetup", "register"} => r.type \in Types \ {"backup_code"}
    /\ r.at \in {"enabling", "listed"} => r.op \in {"verifySetup", "register"}
    /\ r.at = "leaving" => r.op \in {"disable", "challenge"} /\ r.saw.mfa.on
    /\ r.op = "disable" => r.saw.mfa.on
    /\ r.op = "challenge" /\ r.at = "leaving" => r.code \in r.saw.mfa.secrets
    /\ r.op = "refresh" => r.saw.refresh

CallInv == \A c \in Clients : CallOK(call[c])

LEMMA TypeStep == TypeOK /\ CallInv /\ [Next]_vars => TypeOK'
<1> SUFFICES ASSUME TypeOK, CallInv, [Next]_vars PROVE TypeOK'
  OBVIOUS
<1> USE SessionsAssumption DEF TypeOK, Ops, SessionOps, MfaOps, Labels, Codes, Drawn, NoCode, NoType,
      Types, Sent, Ceremonies, tokens, codes, history, redis, mfaVars, Arrives, Step, At
<1>1. CASE SessionNext /\ UNCHANGED mfaVars
  <2>1. ASSUME NEW c \in Clients,
               \/ Login(c) \/ Google(c) \/ GoogleMark(c) \/ Refresh(c) \/ Grant(c)
               \/ Logout(c) \/ EmailMark(c) \/ Resend(c) \/ ResendStore(c) \/ PhoneStore(c)
               \/ PhoneConfirm(c) \/ Fails(c)
        PROVE  TypeOK'
    <3>1. CASE Login(c)
      BY <1>1, <3>1, AsksTypes DEF Login
    <3>2. CASE Google(c)
      BY <1>1, <3>2, AsksTypes DEF Google
    <3>3. CASE GoogleMark(c)
      BY <1>1, <3>3, GoesTypes, DocumentTypes DEF GoogleMark
    <3>4. CASE Refresh(c)
      BY <1>1, <3>4, AsksTypes DEF Refresh
    <3>5. CASE Grant(c)
      BY <1>1, <3>5, EndsTypes, DocumentTypes DEF Grant, Race
    <3>6. CASE Logout(c)
      <4>1. user' \in Document
        BY <1>1, <3>6, DocumentTypes DEF Logout
      <4> QED
        BY <1>1, <3>6, <4>1 DEF Logout
    <3>7. CASE EmailMark(c)
      BY <1>1, <3>7, GoesTypes, PairTypes DEF EmailMark
    <3>8. CASE Resend(c)
      BY <1>1, <3>8, AsksTypes DEF Resend
    <3>9. CASE ResendStore(c)
      <4>1. PICK k \in Drawn : /\ Draws(k) /\ inbox' = inbox \cup {k}
                                /\ user' = [user EXCEPT !.code = k]
        BY <3>9 DEF ResendStore
      <4>2. user' \in Document
        BY <1>1, <4>1, DocumentTypes
      <4>3. call' \in [Clients -> Call]
        BY <3>9, EndsTypes DEF ResendStore
      <4> QED
        BY <1>1, <3>9, <4>1, <4>2, <4>3 DEF ResendStore, Draws
    <3>10. CASE PhoneStore(c)
      <4>1. PICK k \in Drawn : /\ Draws(k) /\ inbox' = inbox \cup {k}
                                /\ user' = [user EXCEPT !.number = call[c].number, !.phoneCode = k,
                                                        !.phoneVerified = FALSE, !.cooldown = TRUE]
        BY <3>10 DEF PhoneStore
      <4>2. call[c].number \in Numbers \cup {NoNumber} /\ k \in Codes
        BY DEF Call
      <4>3. user' \in Document
        BY <4>1, <4>2, PairTypes
      <4>4. call' \in [Clients -> Call]
        BY <3>10, EndsTypes DEF PhoneStore
      <4> QED
        BY <1>1, <3>10, <4>1, <4>3, <4>4 DEF PhoneStore, Draws
    <3>11. CASE PhoneConfirm(c)
      BY <1>1, <3>11, EndsTypes, PairTypes DEF PhoneConfirm, Race, Call
    <3>12. CASE Fails(c)
      BY <1>1, <3>12, EndsTypes DEF Fails
    <3> QED
      BY <2>1, <3>1, <3>2, <3>3, <3>4, <3>5, <3>6, <3>7, <3>8, <3>9, <3>10, <3>11, <3>12
  <2>2. ASSUME NEW c \in Clients, NEW n \in Numbers, InitiatePhone(c, n) PROVE TypeOK'
    BY <1>1, <2>2, AsksTypes DEF InitiatePhone
  <2>3. ASSUME NEW c \in Clients, NEW k \in inbox, VerifyEmail(c, k) PROVE TypeOK'
    BY <1>1, <2>3, AsksTypes DEF VerifyEmail, Document
  <2>4. ASSUME NEW c \in Clients, NEW k \in inbox, CompletePhone(c, k) PROVE TypeOK'
    BY <1>1, <2>4, AsksTypes DEF CompletePhone, Document
  <2>5. CASE Lapses
    <3>1. NoCode \in Codes
      OBVIOUS
    <3>2. [user EXCEPT !.code = NoCode] \in Document
      BY <3>1, DocumentTypes
    <3>3. [user EXCEPT !.phoneCode = NoCode] \in Document
      BY <3>1, DocumentTypes
    <3>4. [user EXCEPT !.cooldown = FALSE] \in Document
      BY DocumentTypes
    <3>5. call' = call
      BY <2>5 DEF Lapses
    <3> QED
      BY <1>1, <2>5, <3>2, <3>3, <3>4, <3>5 DEF Lapses
  <2> QED
    BY <1>1, <2>1, <2>2, <2>3, <2>4, <2>5 DEF SessionNext
<1>2. CASE MfaNext
  <2>1. ASSUME NEW c \in Clients,
               \/ SetupStore(c) \/ VerifyTotp(c) \/ SetupDrop(c) \/ EnableRead(c)
               \/ EnableWrite(c) \/ ClearCredentials(c) \/ DisableWrite(c) \/ SendStore(c)
               \/ Challenge(c) \/ LoginDrop(c) \/ BackupUse(c) \/ RegisterInit(c)
               \/ PasskeyInit(c) \/ ChallengeStore(c) \/ Register(c) \/ RegisterStore(c)
               \/ PasskeyLogin(c) \/ PasskeyStore(c) \/ ChallengeDrop(c)
        PROVE  TypeOK'
    <3>1. CASE SetupStore(c)
      <4>1. PICK k \in Drawn : /\ Draws(k) /\ Mails(call[c].type, k)
                                /\ setup' = [setup EXCEPT ![call[c].type] = k]
        BY <3>1 DEF SetupStore
      <4>2. setup' \in [Sent -> Codes]
        BY <4>1
      <4>3. inbox' \subseteq Drawn
        BY <4>1 DEF Mails
      <4>4. call' \in [Clients -> Call]
        BY <3>1, EndsTypes DEF SetupStore
      <4> QED
        BY <3>1, <4>1, <4>2, <4>3, <4>4 DEF SetupStore, Draws
    <3>2. CASE VerifyTotp(c)
      BY <3>2, AsksTypes DEF VerifyTotp
    <3>3. CASE SetupDrop(c)
      BY <3>3, GoesTypes DEF SetupDrop, Call
    <3>4. CASE EnableRead(c)
      <4>1. call' = [call EXCEPT ![c] = [call[c] EXCEPT !.at = "listed", !.saw = user]]
        BY <3>4 DEF EnableRead
      <4>2. [call[c] EXCEPT !.at = "listed", !.saw = user] \in Call
        BY ListedTypes
      <4>3. call' \in [Clients -> Call]
        BY <4>1, <4>2
      <4> QED
        BY <3>4, <4>3 DEF EnableRead
    <3>5. CASE EnableWrite(c)
      <4>1. call[c].saw.mfa \in Mfa /\ call[c].type \in Types
        BY <3>5 DEF CallInv, CallOK, Call, Document, EnableWrite
      <4>2. PICK k \in Drawn : user' = [user EXCEPT !.mfa = Enabled(call[c].saw.mfa, call[c].type, k)]
        BY <3>5, Zenon DEF EnableWrite
      <4>3. Enabled(call[c].saw.mfa, call[c].type, k) \in Mfa
        BY <4>1, MfaTypes
      <4>4. user' \in Document
        BY <4>2, <4>3, DocumentTypes
      <4>5. drawn' \in Codes
        BY <3>5 DEF EnableWrite
      <4>6. call' \in [Clients -> Call]
        BY <3>5, GoesTypes, EndsTypes DEF EnableWrite
      <4> QED
        BY <3>5, <4>4, <4>5, <4>6 DEF EnableWrite, Race
    <3>6. CASE ClearCredentials(c)
      BY <3>6, GoesTypes, DocumentTypes DEF ClearCredentials
    <3>7. CASE DisableWrite(c)
      <4>1. call[c].saw.mfa \in Mfa /\ call[c].type \in Types \cup {NoType}
        BY DEF Call, Document
      <4>2. PICK m \in Disabled(call[c].saw.mfa, call[c].type) : user' = [user EXCEPT !.mfa = m]
        BY <3>7 DEF DisableWrite
      <4>3. user' \in Document
        BY <4>1, <4>2, MfaTypes, DocumentTypes
      <4>4. call' \in [Clients -> Call]
        BY <3>7, EndsTypes DEF DisableWrite
      <4> QED
        BY <3>7, <4>3, <4>4 DEF DisableWrite
    <3>8. CASE SendStore(c)
      BY <3>8, EndsTypes DEF SendStore, Draws, Mails
    <3>9. CASE Challenge(c)
      BY <3>9, AsksTypes DEF Challenge
    <3>10. CASE LoginDrop(c)
      BY <3>10, GoesTypes DEF LoginDrop
    <3>11. CASE BackupUse(c)
      <4>1. call[c].saw.mfa \in Mfa /\ call[c].saw.mfa.secrets \subseteq Drawn
        BY DEF Call, Document, Mfa
      <4>2. user' = [user EXCEPT !.mfa = [call[c].saw.mfa EXCEPT !.secrets = @ \ {call[c].code}]]
        BY <3>11 DEF BackupUse
      <4>3. [call[c].saw.mfa EXCEPT !.secrets = @ \ {call[c].code}] \in Mfa
        BY <4>1, MfaTypes
      <4>4. user' \in Document
        BY <4>2, <4>3, DocumentTypes
      <4>5. call[c].code \in Drawn
        BY <3>11, <4>1 DEF CallInv, CallOK, BackupUse
      <4>6. call' \in [Clients -> Call]
        BY <3>11, GoesTypes DEF BackupUse
      <4> QED
        BY <3>11, <4>4, <4>5, <4>6 DEF BackupUse, Race
    <3>12. CASE RegisterInit(c)
      BY <3>12, AsksTypes DEF RegisterInit
    <3>13. CASE PasskeyInit(c)
      BY <3>13, AsksTypes DEF PasskeyInit
    <3>14. CASE ChallengeStore(c)
      BY <3>14, EndsTypes DEF ChallengeStore, Draws
    <3>15. CASE Register(c)
      BY <3>15, AsksTypes DEF Register
    <3>16. CASE RegisterStore(c)
      <4>1. call[c].saw.credentials \cup {call[c].code} \in SUBSET Codes
        BY DEF Call, Document
      <4>2. user' \in Document
        BY <3>16, <4>1, DocumentTypes DEF RegisterStore
      <4>3. call' \in [Clients -> Call]
        BY <3>16, GoesTypes DEF RegisterStore
      <4> QED
        BY <3>16, <4>2, <4>3 DEF RegisterStore, Race
    <3>17. CASE PasskeyLogin(c)
      BY <3>17, AsksTypes DEF PasskeyLogin
    <3>18. CASE PasskeyStore(c)
      BY <3>18, GoesTypes, DocumentTypes DEF PasskeyStore, Race, Call, Document
    <3>19. CASE ChallengeDrop(c)
      BY <3>19, GoesTypes, EndsTypes DEF ChallengeDrop
    <3> QED
      BY <2>1, <3>1, <3>2, <3>3, <3>4, <3>5, <3>6, <3>7, <3>8, <3>9, <3>10, <3>11, <3>12, <3>13, <3>14, <3>15, <3>16, <3>17, <3>18, <3>19
  <2>2. ASSUME NEW c \in Clients, NEW t \in Types, Disable(c, t) PROVE TypeOK'
    BY <2>2, AsksTypes DEF Disable, Active
  <2>3. ASSUME NEW c \in Clients, NEW t \in Types, SendChallenge(c, t) PROVE TypeOK'
    BY <2>3, AsksTypes DEF SendChallenge
  <2>4. ASSUME NEW c \in Clients, NEW t \in Sent, InitSetup(c, t) PROVE TypeOK'
    BY <2>4, AsksTypes DEF InitSetup
  <2>5. ASSUME NEW c \in Clients, NEW t \in Sent, NEW k \in inbox, VerifySetup(c, t, k) PROVE TypeOK'
    BY <2>5, AsksTypes DEF VerifySetup
  <2>6. ASSUME NEW c \in Clients, NEW t \in Sent, NEW k \in inbox, ChallengeCode(c, t, k) PROVE TypeOK'
    BY <2>6, AsksTypes DEF ChallengeCode
  <2>7. ASSUME NEW c \in Clients, NEW k \in user.mfa.secrets, ChallengeBackup(c, k) PROVE TypeOK'
    BY <2>7, AsksTypes DEF ChallengeBackup, Document, Mfa
  <2>8. CASE Expires
    BY <2>8 DEF Expires
  <2> QED
    BY <1>2, <2>1, <2>2, <2>3, <2>4, <2>5, <2>6, <2>7, <2>8 DEF MfaNext
<1>3. CASE UNCHANGED vars
  BY <1>3 DEF vars, sessionVars
<1> QED
  BY <1>1, <1>2, <1>3 DEF Next

LEMMA AsksCall ==
    ASSUME TypeOK, CallInv, MfaIsConsistent, NEW c \in Clients,
           NEW op, NEW type, NEW number, NEW code, NEW at,
           Asks(c, op, type, number, code, at),
           op \in {"verifySetup", "register"} => type \in Types \ {"backup_code"},
           at \in {"enabling", "listed"} => op \in {"verifySetup", "register"},
           at = "leaving" => op \in {"disable", "challenge"} /\ user.mfa.on,
           op = "disable" => user.mfa.on,
           op = "challenge" /\ at = "leaving" => code \in user.mfa.secrets,
           op = "refresh" => user.refresh
    PROVE  CallInv'
<1> DEFINE r == [op |-> op, at |-> at, type |-> type, number |-> number,
                 code |-> code, saw |-> user]
<1>1. CallOK(r)
  BY DEF CallOK, MfaIsConsistent
<1>2. \A d \in Clients : call'[d] = IF d = c THEN r ELSE call[d]
  BY DEF Asks, TypeOK
<1> HIDE DEF r
<1> QED
  BY <1>1, <1>2 DEF CallInv

LEMMA GoesCall ==
    ASSUME TypeOK, CallInv, NEW c \in Clients, NEW at, Goes(c, at),
           at \in {"enabling", "listed"} => call[c].op \in {"verifySetup", "register"},
           at = "leaving" => call[c].op = "disable"
    PROVE  CallInv'
<1>1. \A d \in Clients : /\ call'[d].op = call[d].op /\ call'[d].type = call[d].type
                         /\ call'[d].code = call[d].code /\ call'[d].saw = call[d].saw
                         /\ call'[d].at = IF d = c THEN at ELSE call[d].at
  BY DEF Goes, TypeOK, Call
<1> QED
  BY <1>1 DEF CallInv, CallOK

LEMMA EndsCall ==
    ASSUME TypeOK, CallInv, NEW c \in Clients, Ends(c)
    PROVE  CallInv'
<1>1. Consistent(MfaOff)
  BY DEF Consistent, MfaOff
<1>2. Idle.op = "none" /\ Idle.at = "idle" /\ Idle.saw.mfa = MfaOff
  BY DEF Idle, NewUser
<1>3. CallOK(Idle)
  BY <1>1, <1>2 DEF CallOK
<1>4. \A d \in Clients : call'[d] = IF d = c THEN Idle ELSE call[d]
  BY DEF Ends, TypeOK
<1> QED
  BY <1>3, <1>4 DEF CallInv

LEMMA ListedCall ==
    ASSUME TypeOK, CallInv, MfaIsConsistent, NEW c \in Clients, call[c].at = "enabling",
           call' = [call EXCEPT ![c] = [@ EXCEPT !.at = "listed", !.saw = user]]
    PROVE  CallInv'
<1> DEFINE r == [call[c] EXCEPT !.at = "listed", !.saw = user]
<1>1. /\ r.op = call[c].op /\ r.type = call[c].type /\ r.code = call[c].code
      /\ r.at = "listed" /\ r.saw = user
  BY DEF TypeOK, Call
<1>2. \A d \in Clients : call'[d] = IF d = c THEN r ELSE call[d]
  BY DEF TypeOK
<1> HIDE DEF r
<1>3. CallOK(r)
  BY <1>1 DEF CallInv, CallOK, MfaIsConsistent
<1> QED
  BY <1>2, <1>3 DEF CallInv

LEMMA NoSecrets ==
    ASSUME MfaIsConsistent, NEW k \in user.mfa.secrets
    PROVE  user.mfa.on
BY DEF MfaIsConsistent, Consistent, MfaOff

LEMMA CallStep == TypeOK /\ CallInv /\ MfaIsConsistent /\ [Next]_vars => CallInv'
<1> SUFFICES ASSUME TypeOK, CallInv, MfaIsConsistent, [Next]_vars PROVE CallInv'
  OBVIOUS
<1> USE DEF tokens, codes, history, redis, mfaVars, Arrives, Step, At
<1>1. CASE SessionNext /\ UNCHANGED mfaVars
  <2>1. ASSUME NEW c \in Clients,
               \/ Login(c) \/ Google(c) \/ GoogleMark(c) \/ Refresh(c) \/ Grant(c)
               \/ Logout(c) \/ EmailMark(c) \/ Resend(c) \/ ResendStore(c) \/ PhoneStore(c)
               \/ PhoneConfirm(c) \/ Fails(c)
        PROVE  CallInv'
    <3>1. CASE Login(c)
      BY <3>1, AsksCall DEF Login, CallInv
    <3>2. CASE Google(c)
      BY <3>2, AsksCall DEF Google
    <3>3. CASE GoogleMark(c)
      BY <3>3, GoesCall DEF GoogleMark
    <3>4. CASE Refresh(c)
      BY <3>4, AsksCall DEF Refresh
    <3>5. CASE Grant(c)
      BY <3>5, EndsCall DEF Grant
    <3>6. CASE Logout(c)
      BY <3>6 DEF Logout, CallInv
    <3>7. CASE EmailMark(c)
      BY <3>7, GoesCall DEF EmailMark
    <3>8. CASE Resend(c)
      BY <3>8, AsksCall DEF Resend
    <3>9. CASE ResendStore(c)
      BY <3>9, EndsCall DEF ResendStore
    <3>10. CASE PhoneStore(c)
      BY <3>10, EndsCall DEF PhoneStore
    <3>11. CASE PhoneConfirm(c)
      BY <3>11, EndsCall DEF PhoneConfirm
    <3>12. CASE Fails(c)
      BY <3>12, EndsCall DEF Fails
    <3> QED
      BY <2>1, <3>1, <3>2, <3>3, <3>4, <3>5, <3>6, <3>7, <3>8, <3>9, <3>10, <3>11, <3>12
  <2>2. ASSUME NEW c \in Clients, NEW n \in Numbers, InitiatePhone(c, n) PROVE CallInv'
    BY <2>2, AsksCall DEF InitiatePhone
  <2>3. ASSUME NEW c \in Clients, NEW k \in inbox, VerifyEmail(c, k) PROVE CallInv'
    BY <2>3, AsksCall DEF VerifyEmail
  <2>4. ASSUME NEW c \in Clients, NEW k \in inbox, CompletePhone(c, k) PROVE CallInv'
    BY <2>4, AsksCall DEF CompletePhone
  <2>5. CASE Lapses
    BY <2>5 DEF Lapses, CallInv
  <2> QED
    BY <1>1, <2>1, <2>2, <2>3, <2>4, <2>5 DEF SessionNext
<1>2. CASE MfaNext
  <2>1. ASSUME NEW c \in Clients,
               \/ SetupStore(c) \/ VerifyTotp(c) \/ SetupDrop(c) \/ EnableRead(c)
               \/ EnableWrite(c) \/ ClearCredentials(c) \/ DisableWrite(c) \/ SendStore(c)
               \/ Challenge(c) \/ LoginDrop(c) \/ BackupUse(c) \/ RegisterInit(c)
               \/ PasskeyInit(c) \/ ChallengeStore(c) \/ Register(c) \/ RegisterStore(c)
               \/ PasskeyLogin(c) \/ PasskeyStore(c) \/ ChallengeDrop(c)
        PROVE  CallInv'
    <3>1. CASE SetupStore(c)
      BY <3>1, EndsCall DEF SetupStore
    <3>2. CASE VerifyTotp(c)
      BY <3>2, AsksCall DEF VerifyTotp, Types, Sent
    <3>3. CASE SetupDrop(c)
      BY <3>3, GoesCall DEF SetupDrop
    <3>4. CASE EnableRead(c)
      BY <3>4, ListedCall DEF EnableRead
    <3>5. CASE EnableWrite(c)
      BY <3>5, GoesCall, EndsCall DEF EnableWrite
    <3>6. CASE ClearCredentials(c)
      BY <3>6, GoesCall DEF ClearCredentials
    <3>7. CASE DisableWrite(c)
      BY <3>7, EndsCall DEF DisableWrite
    <3>8. CASE SendStore(c)
      BY <3>8, EndsCall DEF SendStore
    <3>9. CASE Challenge(c)
      BY <3>9, AsksCall DEF Challenge
    <3>10. CASE LoginDrop(c)
      BY <3>10, GoesCall DEF LoginDrop
    <3>11. CASE BackupUse(c)
      BY <3>11, GoesCall DEF BackupUse
    <3>12. CASE RegisterInit(c)
      BY <3>12, AsksCall DEF RegisterInit
    <3>13. CASE PasskeyInit(c)
      BY <3>13, AsksCall DEF PasskeyInit
    <3>14. CASE ChallengeStore(c)
      BY <3>14, EndsCall DEF ChallengeStore
    <3>15. CASE Register(c)
      BY <3>15, AsksCall DEF Register, Types, Sent
    <3>16. CASE RegisterStore(c)
      BY <3>16, GoesCall DEF RegisterStore
    <3>17. CASE PasskeyLogin(c)
      BY <3>17, AsksCall DEF PasskeyLogin
    <3>18. CASE PasskeyStore(c)
      BY <3>18, GoesCall DEF PasskeyStore
    <3>19. CASE ChallengeDrop(c)
      BY <3>19, GoesCall, EndsCall DEF ChallengeDrop
    <3> QED
      BY <2>1, <3>1, <3>2, <3>3, <3>4, <3>5, <3>6, <3>7, <3>8, <3>9, <3>10, <3>11, <3>12, <3>13, <3>14, <3>15, <3>16, <3>17, <3>18, <3>19
  <2>2. ASSUME NEW c \in Clients, NEW t \in Types, Disable(c, t) PROVE CallInv'
    BY <2>2, AsksCall DEF Disable, Consistent
  <2>3. ASSUME NEW c \in Clients, NEW t \in Types, SendChallenge(c, t) PROVE CallInv'
    BY <2>3, AsksCall DEF SendChallenge
  <2>4. ASSUME NEW c \in Clients, NEW t \in Sent, InitSetup(c, t) PROVE CallInv'
    BY <2>4, AsksCall DEF InitSetup
  <2>5. ASSUME NEW c \in Clients, NEW t \in Sent, NEW k \in inbox, VerifySetup(c, t, k) PROVE CallInv'
    BY <2>5, AsksCall DEF VerifySetup, Types, Sent
  <2>6. ASSUME NEW c \in Clients, NEW t \in Sent, NEW k \in inbox, ChallengeCode(c, t, k) PROVE CallInv'
    BY <2>6, AsksCall DEF ChallengeCode
  <2>7. ASSUME NEW c \in Clients, NEW k \in user.mfa.secrets, ChallengeBackup(c, k) PROVE CallInv'
    BY <2>7, AsksCall, NoSecrets DEF ChallengeBackup
  <2>8. CASE Expires
    BY <2>8 DEF Expires, CallInv
  <2> QED
    BY <1>2, <2>1, <2>2, <2>3, <2>4, <2>5, <2>6, <2>7, <2>8 DEF MfaNext
<1>3. CASE UNCHANGED vars
  BY <1>3 DEF vars, sessionVars, CallInv
<1> QED
  BY <1>1, <1>2, <1>3 DEF Next

-----------------------------------------------------------------------------
(* What few steps change: the rest of the proofs looks only at those.       *)

\* user.mfa is written by three actions, the session and the
\* number by two each; a call keeps what it
\* has seen or sees what there is now; codes are drawn and races remembered.
FrameOK ==
    /\ \/ user'.mfa = user.mfa /\ used' = used
       \/ \E c \in Clients : EnableWrite(c) \/ DisableWrite(c) \/ BackupUse(c)
    /\ \/ user'.refresh = user.refresh /\ out' = out
       \/ \E c \in Clients : Grant(c) \/ Logout(c)
    /\ \/ user'.phoneVerified = user.phoneVerified /\ user'.number = user.number
          /\ proved' = proved
       \/ \E c \in Clients : PhoneStore(c) \/ PhoneConfirm(c)
    /\ \A c \in Clients : call'[c].saw \in {call[c].saw, user, Idle.saw}
    /\ drawn' \in {drawn, drawn + 1}
    /\ raced \ {"half"} \subseteq raced'

LEMMA Frame == TypeOK /\ [Next]_vars => FrameOK
<1> SUFFICES ASSUME TypeOK, [Next]_vars PROVE FrameOK
  OBVIOUS
<1> USE DEF TypeOK, Call, tokens, codes, history, redis, mfaVars, Arrives, Step, At
<1>1. CASE SessionNext /\ UNCHANGED mfaVars
  <2>1. ASSUME NEW c \in Clients,
               \/ Login(c) \/ Google(c) \/ GoogleMark(c) \/ Refresh(c) \/ Grant(c)
               \/ Logout(c) \/ EmailMark(c) \/ Resend(c) \/ ResendStore(c) \/ PhoneStore(c)
               \/ PhoneConfirm(c) \/ Fails(c)
        PROVE  FrameOK
    <3>1. CASE Login(c)
      BY <1>1, <3>1 DEF Login, FrameOK, Asks
    <3>2. CASE Google(c)
      BY <1>1, <3>2 DEF Google, FrameOK, Asks
    <3>3. CASE GoogleMark(c)
      BY <1>1, <3>3 DEF GoogleMark, FrameOK, Goes, Document
    <3>4. CASE Refresh(c)
      BY <1>1, <3>4 DEF Refresh, FrameOK, Asks
    <3>5. CASE Grant(c)
      BY <1>1, <3>5 DEF Grant, FrameOK, Ends, Race, Document
    <3>6. CASE Logout(c)
      <4>1. \E d \in Clients : Grant(d) \/ Logout(d)
        BY <3>6
      <4>2. /\ user'.mfa = user.mfa /\ used' = used /\ call' = call
          /\ user'.number = user.number /\ user'.phoneVerified = user.phoneVerified /\ proved' = proved
          /\ drawn' = drawn /\ raced' = raced
        BY <1>1, <3>6 DEF Logout, Document
      <4> QED
        BY <4>1, <4>2 DEF FrameOK
    <3>7. CASE EmailMark(c)
      BY <1>1, <3>7 DEF EmailMark, FrameOK, Goes, Document
    <3>8. CASE Resend(c)
      BY <1>1, <3>8 DEF Resend, FrameOK, Asks
    <3>9. CASE ResendStore(c)
      BY <1>1, <3>9 DEF ResendStore, FrameOK, Ends, Draws, Document
    <3>10. CASE PhoneStore(c)
      BY <1>1, <3>10 DEF PhoneStore, FrameOK, Ends, Draws, Document
    <3>11. CASE PhoneConfirm(c)
      BY <1>1, <3>11 DEF PhoneConfirm, FrameOK, Ends, Race, Document
    <3>12. CASE Fails(c)
      BY <1>1, <3>12 DEF Fails, FrameOK, Ends
    <3> QED
      BY <2>1, <3>1, <3>2, <3>3, <3>4, <3>5, <3>6, <3>7, <3>8, <3>9, <3>10, <3>11, <3>12
  <2>2. ASSUME NEW c \in Clients, NEW n \in Numbers, InitiatePhone(c, n) PROVE FrameOK
    BY <1>1, <2>2 DEF InitiatePhone, FrameOK, Asks
  <2>3. ASSUME NEW c \in Clients, NEW k \in inbox, VerifyEmail(c, k) PROVE FrameOK
    BY <1>1, <2>3 DEF VerifyEmail, FrameOK, Asks
  <2>4. ASSUME NEW c \in Clients, NEW k \in inbox, CompletePhone(c, k) PROVE FrameOK
    BY <1>1, <2>4 DEF CompletePhone, FrameOK, Asks
  <2>5. CASE Lapses
    BY <1>1, <2>5 DEF Lapses, FrameOK, Document
  <2> QED
    BY <1>1, <2>1, <2>2, <2>3, <2>4, <2>5 DEF SessionNext
<1>2. CASE MfaNext
  <2>1. ASSUME NEW c \in Clients,
               \/ SetupStore(c) \/ VerifyTotp(c) \/ SetupDrop(c) \/ EnableRead(c)
               \/ EnableWrite(c) \/ ClearCredentials(c) \/ DisableWrite(c) \/ SendStore(c)
               \/ Challenge(c) \/ LoginDrop(c) \/ BackupUse(c) \/ RegisterInit(c)
               \/ PasskeyInit(c) \/ ChallengeStore(c) \/ Register(c) \/ RegisterStore(c)
               \/ PasskeyLogin(c) \/ PasskeyStore(c) \/ ChallengeDrop(c)
        PROVE  FrameOK
    <3>1. CASE SetupStore(c)
      BY <3>1 DEF SetupStore, FrameOK, Ends, Draws
    <3>2. CASE VerifyTotp(c)
      BY <3>2 DEF VerifyTotp, FrameOK, Asks
    <3>3. CASE SetupDrop(c)
      BY <3>3 DEF SetupDrop, FrameOK, Goes
    <3>4. CASE EnableRead(c)
      BY <3>4 DEF EnableRead, FrameOK
    <3>5. CASE EnableWrite(c)
      <4>1. \E d \in Clients : EnableWrite(d) \/ DisableWrite(d) \/ BackupUse(d)
        BY <3>5
      <4>2. /\ user'.refresh = user.refresh /\ out' = out
          /\ user'.number = user.number /\ user'.phoneVerified = user.phoneVerified /\ proved' = proved
        BY <3>5 DEF EnableWrite, Document
      <4>3. \A d \in Clients : call'[d].saw \in {call[d].saw, user, Idle.saw}
        BY <3>5 DEF EnableWrite, Goes, Ends
      <4>4. drawn' \in {drawn, drawn + 1} /\ raced \subseteq raced'
        BY <3>5 DEF EnableWrite, Race
      <4> QED
        BY <4>1, <4>2, <4>3, <4>4 DEF FrameOK
    <3>6. CASE ClearCredentials(c)
      BY <3>6 DEF ClearCredentials, FrameOK, Goes, Document
    <3>7. CASE DisableWrite(c)
      BY <3>7 DEF DisableWrite, FrameOK, Ends, Race, Document
    <3>8. CASE SendStore(c)
      BY <3>8 DEF SendStore, FrameOK, Ends, Draws
    <3>9. CASE Challenge(c)
      BY <3>9 DEF Challenge, FrameOK, Asks
    <3>10. CASE LoginDrop(c)
      BY <3>10 DEF LoginDrop, FrameOK, Goes
    <3>11. CASE BackupUse(c)
      BY <3>11 DEF BackupUse, FrameOK, Goes, Race, Document
    <3>12. CASE RegisterInit(c)
      BY <3>12 DEF RegisterInit, FrameOK, Asks
    <3>13. CASE PasskeyInit(c)
      BY <3>13 DEF PasskeyInit, FrameOK, Asks
    <3>14. CASE ChallengeStore(c)
      BY <3>14 DEF ChallengeStore, FrameOK, Ends, Draws
    <3>15. CASE Register(c)
      BY <3>15 DEF Register, FrameOK, Asks
    <3>16. CASE RegisterStore(c)
      BY <3>16 DEF RegisterStore, FrameOK, Goes, Race, Document
    <3>17. CASE PasskeyLogin(c)
      BY <3>17 DEF PasskeyLogin, FrameOK, Asks
    <3>18. CASE PasskeyStore(c)
      BY <3>18 DEF PasskeyStore, FrameOK, Goes, Race, Document
    <3>19. CASE ChallengeDrop(c)
      BY <3>19 DEF ChallengeDrop, FrameOK, Goes, Ends
    <3> QED
      BY <2>1, <3>1, <3>2, <3>3, <3>4, <3>5, <3>6, <3>7, <3>8, <3>9, <3>10, <3>11, <3>12, <3>13, <3>14, <3>15, <3>16, <3>17, <3>18, <3>19
  <2>2. ASSUME NEW c \in Clients, NEW t \in Types, Disable(c, t) PROVE FrameOK
    BY <2>2 DEF Disable, FrameOK, Asks
  <2>3. ASSUME NEW c \in Clients, NEW t \in Types, SendChallenge(c, t) PROVE FrameOK
    BY <2>3 DEF SendChallenge, FrameOK, Asks
  <2>4. ASSUME NEW c \in Clients, NEW t \in Sent, InitSetup(c, t) PROVE FrameOK
    BY <2>4 DEF InitSetup, FrameOK, Asks
  <2>5. ASSUME NEW c \in Clients, NEW t \in Sent, NEW k \in inbox, VerifySetup(c, t, k) PROVE FrameOK
    BY <1>1, <2>5 DEF VerifySetup, FrameOK, Asks
  <2>6. ASSUME NEW c \in Clients, NEW t \in Sent, NEW k \in inbox, ChallengeCode(c, t, k) PROVE FrameOK
    BY <2>6 DEF ChallengeCode, FrameOK, Asks
  <2>7. ASSUME NEW c \in Clients, NEW k \in user.mfa.secrets, ChallengeBackup(c, k) PROVE FrameOK
    BY <2>7 DEF ChallengeBackup, FrameOK, Asks
  <2>8. CASE Expires
    BY <2>8 DEF Expires, FrameOK
  <2> QED
    BY <1>2, <2>1, <2>2, <2>3, <2>4, <2>5, <2>6, <2>7, <2>8 DEF MfaNext
<1>3. CASE UNCHANGED vars
  BY <1>3 DEF vars, sessionVars, FrameOK
<1> QED
  BY <1>1, <1>2, <1>3 DEF Next

-----------------------------------------------------------------------------
(* The invariants.                                                          *)

IInv == TypeOK /\ CallInv /\ MfaIsConsistent

LEMMA EnabledConsistent ==
    ASSUME NEW m \in Mfa, Consistent(m), NEW t \in Types \ {"backup_code"}, NEW k
    PROVE  Consistent(Enabled(m, t, k))
BY DEF Consistent, Enabled, Active, MfaOff, Mfa

\* Disabling yields MfaOff, or a value with one method less of which another,
\* that is no backup code, is primary.
DisabledAs(m, t, d) ==
    \/ d = MfaOff /\ Active(m.methods \ {t}) = {}
    \/ /\ d.on = m.on /\ d.methods = m.methods \ {t} /\ d.secrets = m.secrets
       /\ d.primary \in (IF m.primary = t THEN Active(d.methods) ELSE {m.primary})

LEMMA DisabledIs ==
    ASSUME NEW m \in Mfa, NEW t, NEW d \in Disabled(m, t)
    PROVE  DisabledAs(m, t, d)
<1> USE DEF DisabledAs
<1>1. CASE Active(m.methods \ {t}) = {}
  BY <1>1 DEF Disabled
<1>2. CASE Active(m.methods \ {t}) # {}
  <2> DEFINE left == IF m.primary = t THEN Active(m.methods \ {t}) ELSE {m.primary}
  <2>1. PICK p \in left : d = [m EXCEPT !.methods = m.methods \ {t}, !.primary = p]
    BY <1>2 DEF Disabled
  <2> HIDE DEF left
  <2>2. d.on = m.on /\ d.methods = m.methods \ {t} /\ d.secrets = m.secrets /\ d.primary = p
    BY <2>1 DEF Mfa
  <2> QED
    BY <2>2 DEF left
<1> QED
  BY <1>1, <1>2

\* What the three writes of user.mfa do to it.
LEMMA Writes ==
    ASSUME IInv, NEW c \in Clients
    PROVE  /\ call[c].saw.mfa \in Mfa /\ Consistent(call[c].saw.mfa)
           /\ EnableWrite(c) => /\ call[c].type \in Types \ {"backup_code"}
                                /\ \E k \in Drawn :
                                     /\ user'.mfa = Enabled(call[c].saw.mfa, call[c].type, k)
                                     /\ k = drawn + 1
           /\ DisableWrite(c) => user'.mfa \in Disabled(call[c].saw.mfa, call[c].type)
           /\ BackupUse(c) => user'.mfa = [call[c].saw.mfa EXCEPT !.secrets = @ \ {call[c].code}]
<1> USE DEF IInv, TypeOK, At
<1>1. call[c].saw.mfa \in Mfa
  BY DEF Call, Document
<1>2. Consistent(call[c].saw.mfa)
  BY DEF CallInv, CallOK
<1>3. ASSUME EnableWrite(c)
      PROVE  /\ call[c].type \in Types \ {"backup_code"}
             /\ \E k \in Drawn : /\ user'.mfa = Enabled(call[c].saw.mfa, call[c].type, k)
                                 /\ k = drawn + 1
  <2>1. call[c].type \in Types \ {"backup_code"}
    BY <1>3 DEF EnableWrite, CallInv, CallOK
  <2>2. PICK k \in Drawn : /\ k = drawn + 1
                           /\ user' = [user EXCEPT !.mfa = Enabled(call[c].saw.mfa, call[c].type, k)]
    BY <1>3, Zenon DEF EnableWrite
  <2> QED
    BY <2>1, <2>2 DEF Document
<1>4. ASSUME DisableWrite(c)
      PROVE  user'.mfa \in Disabled(call[c].saw.mfa, call[c].type)
  BY <1>4 DEF DisableWrite, Document
<1>5. ASSUME BackupUse(c)
      PROVE  user'.mfa = [call[c].saw.mfa EXCEPT !.secrets = @ \ {call[c].code}]
  BY <1>5 DEF BackupUse, Document
<1> QED
  BY <1>1, <1>2, <1>3, <1>4, <1>5

LEMMA ConsistentStep == IInv /\ [Next]_vars => MfaIsConsistent'
<1> SUFFICES ASSUME IInv, [Next]_vars PROVE Consistent(user'.mfa)
  BY DEF MfaIsConsistent
<1>1. CASE user'.mfa = user.mfa
  BY <1>1 DEF IInv, MfaIsConsistent
<1>2. ASSUME NEW c \in Clients, EnableWrite(c) PROVE Consistent(user'.mfa)
  <2> DEFINE m == call[c].saw.mfa
  <2>1. /\ m \in Mfa /\ Consistent(m) /\ call[c].type \in Types \ {"backup_code"}
        /\ \E k \in Drawn : user'.mfa = Enabled(m, call[c].type, k)
    BY <1>2, Writes
  <2> HIDE DEF m
  <2> QED
    BY <2>1, EnabledConsistent
<1>3. ASSUME NEW c \in Clients, DisableWrite(c) PROVE Consistent(user'.mfa)
  <2>1. call[c].saw.mfa.on
    BY <1>3 DEF IInv, CallInv, CallOK, DisableWrite, At
  <2>2. Consistent(call[c].saw.mfa) /\ Consistent(MfaOff)
    BY Writes DEF Consistent, MfaOff
  <2> DEFINE m == call[c].saw.mfa
             d == user'.mfa
             t == call[c].type
  <2>3. m \in Mfa /\ d \in Disabled(m, t)
    BY <1>3, Writes
  <2> HIDE DEF m, d, t
  <2>4. DisabledAs(m, t, d)
    BY <2>3, DisabledIs
  <2>5. m.on /\ Consistent(m)
    BY <2>1, <2>2 DEF m
  <2>6. Consistent(d)
    BY <2>2, <2>4, <2>5 DEF Consistent, Active, DisabledAs
  <2> QED
    BY <2>6 DEF d
<1>4. ASSUME NEW c \in Clients, BackupUse(c) PROVE Consistent(user'.mfa)
  <2>1. call[c].saw.mfa.on
    BY <1>4 DEF IInv, CallInv, CallOK, BackupUse, At
  <2>2. user'.mfa.on /\ user'.mfa.methods = call[c].saw.mfa.methods
        /\ user'.mfa.primary = call[c].saw.mfa.primary
    BY <1>4, <2>1, Writes DEF Mfa
  <2> QED
    BY <2>1, <2>2, Writes DEF Consistent
<1> QED
  BY <1>1, <1>2, <1>3, <1>4, Frame DEF FrameOK, IInv

LEMMA InitInv == Init => IInv
<1> SUFFICES ASSUME Init PROVE IInv
  OBVIOUS
<1> USE SessionsAssumption DEF Init, SessionInit, MfaInit, Codes, Drawn, NoCode
<1>1. PICK google \in BOOLEAN : /\ user = NewUser(google)
                                /\ signed = (IF google THEN Clients ELSE {})
                                /\ cookies = (IF google THEN Clients ELSE {})
  OBVIOUS
<1>2. user \in Document /\ user.code \in Codes
  BY <1>1, NewUserTypes DEF Document
<1>3. Idle \in Call
  BY NewUserTypes DEF Idle, Call, Labels
<1>4. user.mfa = MfaOff /\ Idle.saw.mfa = MfaOff /\ Consistent(MfaOff)
  BY <1>1 DEF NewUser, Idle, MfaOff, Consistent
<1>5. Idle.op = "none" /\ Idle.at = "idle"
  BY DEF Idle
<1>6. CallInv /\ MfaIsConsistent
  BY <1>4, <1>5 DEF CallInv, CallOK, MfaIsConsistent
<1>7. /\ call \in [Clients -> Call] /\ signed \subseteq Clients /\ cookies \subseteq Clients
      /\ drawn \in Codes /\ inbox \subseteq Drawn
  BY <1>1, <1>2, <1>3
<1>8. TypeOK
  <2>1. setup \in [Sent -> Codes] /\ held \in [Clients -> [code: Codes, op: Ceremonies \cup {"none"}]]
    OBVIOUS
  <2>2. family \in Families /\ calls \in 0..MaxCalls /\ raced = {} /\ out = FALSE
    OBVIOUS
  <2>3. proved = NoNumber /\ loginCode \in Codes /\ challenge \in Codes /\ used = {}
    OBVIOUS
  <2> QED
    BY <1>2, <1>7, <2>1, <2>2, <2>3 DEF TypeOK
<1> QED
  BY <1>6, <1>8 DEF IInv

LEMMA Invariance == Spec => []IInv
<1>1. IInv /\ [Next]_vars => IInv'
  BY TypeStep, CallStep, ConsistentStep DEF IInv
<1> QED
  BY <1>1, InitInv, PTL DEF Spec

\* Documents, keys and calls keep their shapes.
THEOREM MfaTypeOK == Spec => []TypeOK
BY Invariance, PTL DEF IInv

\* However requests on user.mfa overlap, and wherever they stop, what it says of
\* itself agrees (enableMfaMethod, disableMfaMethod, verifyMfaWait).
THEOREM MfaConsistent == Spec => []MfaIsConsistent
BY Invariance, PTL DEF IInv

LEMMA LogoutStep == IInv /\ LogoutLasts /\ [Next]_vars => LogoutLasts'
<1> SUFFICES ASSUME IInv, LogoutLasts, [Next]_vars PROVE LogoutLasts'
  OBVIOUS
<1>1. FrameOK
  BY Frame DEF IInv
<1>2. CASE user'.refresh = user.refresh /\ out' = out
  BY <1>1, <1>2 DEF FrameOK, LogoutLasts
<1>3. ASSUME NEW c \in Clients, Logout(c) PROVE LogoutLasts'
  BY <1>3 DEF Logout, LogoutLasts, IInv, TypeOK, Document
<1>4. ASSUME NEW c \in Clients, Grant(c) PROVE LogoutLasts'
  <2>1. call[c].op = "refresh" => call[c].saw.refresh
    BY DEF IInv, CallInv, CallOK
  <2> QED
    BY <1>4, <2>1 DEF Grant, Race, LogoutLasts, IInv, TypeOK, Document
<1> QED
  BY <1>1, <1>2, <1>3, <1>4 DEF FrameOK

\* After a logout no refresh token is accepted until somebody logs in, unless a
\* refresh overlapped it (refreshToken, logout, updateRefreshToken).
THEOREM MfaLogoutLasts == Spec => []LogoutLasts
<1>1. Init => LogoutLasts
  BY DEF Init, SessionInit, LogoutLasts
<1> QED
  BY <1>1, Invariance, LogoutStep, PTL DEF Spec

LEMMA NumberStep == IInv /\ NumberWasConfirmed /\ [Next]_vars => NumberWasConfirmed'
<1> SUFFICES ASSUME IInv, NumberWasConfirmed, [Next]_vars PROVE NumberWasConfirmed'
  OBVIOUS
<1>1. FrameOK
  BY Frame DEF IInv
<1>2. CASE /\ user'.phoneVerified = user.phoneVerified /\ user'.number = user.number
           /\ proved' = proved
  BY <1>1, <1>2 DEF FrameOK, NumberWasConfirmed
<1>3. ASSUME NEW c \in Clients, PhoneStore(c) PROVE NumberWasConfirmed'
  BY <1>3 DEF PhoneStore, NumberWasConfirmed, IInv, TypeOK, Document
<1>4. ASSUME NEW c \in Clients, PhoneConfirm(c) PROVE NumberWasConfirmed'
  BY <1>4 DEF PhoneConfirm, Race, NumberWasConfirmed, IInv, TypeOK, Document
<1> QED
  BY <1>1, <1>2, <1>3, <1>4 DEF FrameOK

\* A verified number is the one to which the accepted code went, unless the number
\* changed while the code was checked (initiatePhoneVerification,
\* completePhoneVerification).
THEOREM MfaNumberWasConfirmed == Spec => []NumberWasConfirmed
<1>1. Init => NumberWasConfirmed
  BY DEF Init, SessionInit, NewUser, NumberWasConfirmed
<1> QED
  BY <1>1, Invariance, NumberStep, PTL DEF Spec

-----------------------------------------------------------------------------
(* Backup codes.                                                            *)

\* Codes are drawn in order: the next one is none of those known to anybody.
Known(s) == s \subseteq 1..drawn

DrawnInv == /\ Known(used) /\ Known(user.mfa.secrets)
            /\ \A c \in Clients : Known(call[c].saw.mfa.secrets)

UsedInv == DrawnInv /\ UsedCodesStayUsed

LEMMA UsedStep == IInv /\ UsedInv /\ [Next]_vars => UsedInv'
<1> SUFFICES ASSUME IInv, UsedInv, [Next]_vars PROVE UsedInv'
  OBVIOUS
<1>1. FrameOK /\ drawn \in Nat
  BY Frame, SessionsAssumption DEF IInv, TypeOK, Codes, Drawn, NoCode
<1>2. 1..drawn \subseteq 1..drawn'
  BY <1>1 DEF FrameOK
<1>3. Idle.saw.mfa.secrets = {}
  BY DEF Idle, NewUser, MfaOff
<1>4. \A c \in Clients : call'[c].saw.mfa.secrets \subseteq 1..drawn'
  BY <1>1, <1>2, <1>3 DEF FrameOK, UsedInv, DrawnInv, Known
<1>5. ASSUME used' \subseteq 1..drawn', user'.mfa.secrets \subseteq 1..drawn',
             "mfa" \notin raced' => used' \cap user'.mfa.secrets = {}
      PROVE  UsedInv'
  BY <1>4, <1>5 DEF UsedInv, DrawnInv, Known, UsedCodesStayUsed
<1>6. "mfa" \notin raced' => "mfa" \notin raced
  BY <1>1 DEF FrameOK
<1>7. CASE user'.mfa = user.mfa /\ used' = used
  BY <1>2, <1>5, <1>6, <1>7 DEF UsedInv, DrawnInv, Known, UsedCodesStayUsed
<1>8. ASSUME NEW c \in Clients, EnableWrite(c) PROVE UsedInv'
  <2> DEFINE m == call[c].saw.mfa
  <2>1. PICK k \in Drawn : user'.mfa = Enabled(m, call[c].type, k) /\ k = drawn + 1
    BY <1>8, Writes
  <2>2. user'.mfa.secrets = IF m.secrets = {} THEN {k} ELSE m.secrets
    BY <2>1 DEF Enabled
  <2>3. /\ m.secrets = {} => drawn' = k
        /\ used' = used /\ ("mfa" \notin raced' => user.mfa = m)
    BY <1>8, <2>1 DEF EnableWrite, Race, mfaVars
  <2>4. m.secrets \subseteq 1..drawn
    BY DEF UsedInv, DrawnInv, Known
  <2> HIDE DEF m
  <2>5. user'.mfa.secrets \subseteq 1..drawn' /\ used' \subseteq 1..drawn'
    BY <1>1, <1>2, <2>1, <2>2, <2>3, <2>4 DEF UsedInv, DrawnInv, Known
  <2>6. "mfa" \notin raced' => used' \cap user'.mfa.secrets = {}
    BY <1>1, <1>6, <2>1, <2>2, <2>3 DEF UsedInv, DrawnInv, Known, UsedCodesStayUsed
  <2> QED
    BY <1>5, <2>5, <2>6
<1>9. ASSUME NEW c \in Clients, DisableWrite(c) PROVE UsedInv'
  <2> DEFINE m == call[c].saw.mfa
  <2>1. m \in Mfa /\ user'.mfa \in Disabled(m, call[c].type)
    BY <1>9, Writes
  <2>2. DisabledAs(m, call[c].type, user'.mfa)
    BY <2>1, DisabledIs
  <2>3. user'.mfa.secrets \in {{}, m.secrets}
    BY <2>2 DEF MfaOff, DisabledAs
  <2>4. used' = used /\ ("mfa" \notin raced' => user.mfa = m)
    BY <1>9 DEF DisableWrite, mfaVars
  <2>5. m.secrets \subseteq 1..drawn
    BY DEF UsedInv, DrawnInv, Known
  <2> HIDE DEF m
  <2> QED
    BY <1>2, <1>5, <1>6, <2>3, <2>4, <2>5 DEF UsedInv, DrawnInv, Known, UsedCodesStayUsed
<1>10. ASSUME NEW c \in Clients, BackupUse(c) PROVE UsedInv'
  <2> DEFINE m == call[c].saw.mfa
             k == call[c].code
  <2>1. user'.mfa.secrets = m.secrets \ {k}
    BY <1>10, Writes DEF Mfa
  <2>2. used' = used \cup {k} /\ ("mfa" \notin raced' => user.mfa = m)
    BY <1>10 DEF BackupUse, Race
  <2>3. k \in m.secrets /\ m.secrets \subseteq 1..drawn
    BY <1>10 DEF IInv, CallInv, CallOK, BackupUse, At, UsedInv, DrawnInv, Known
  <2> HIDE DEF m, k
  <2> QED
    BY <1>2, <1>5, <1>6, <2>1, <2>2, <2>3 DEF UsedInv, DrawnInv, Known, UsedCodesStayUsed
<1> QED
  BY <1>1, <1>7, <1>8, <1>9, <1>10 DEF FrameOK

\* A backup code is accepted once, unless requests on user.mfa overlapped
\* (verifyMfaWait, enableMfaMethod).
THEOREM MfaUsedCodesStayUsed == Spec => []UsedCodesStayUsed
<1>1. Init => UsedInv
  <2> SUFFICES ASSUME Init PROVE UsedInv
    OBVIOUS
  <2>1. user.mfa.secrets = {} /\ Idle.saw.mfa.secrets = {} /\ used = {}
    BY DEF Init, SessionInit, MfaInit, NewUser, Idle, MfaOff
  <2>2. \A c \in Clients : call[c] = Idle
    BY DEF Init, SessionInit
  <2> QED
    BY <2>1, <2>2 DEF UsedInv, DrawnInv, Known, UsedCodesStayUsed
<1>2. UsedInv => UsedCodesStayUsed
  BY DEF UsedInv
<1> QED
  BY <1>1, <1>2, Invariance, UsedStep, PTL DEF Spec

-----------------------------------------------------------------------------
(* Methods.                                                                 *)

OneMethod ==
    \A t \in Types \ {"backup_code"} :
        "mfa" \notin raced' /\ (t \in user.mfa.methods <=> t \notin user'.mfa.methods)
            => \E c \in Clients : call[c].type = t /\ call'[c] # call[c]

LEMMA MethodStep == IInv /\ [Next]_vars => OneMethod
<1> SUFFICES ASSUME IInv, [Next]_vars, NEW t \in Types \ {"backup_code"}, "mfa" \notin raced',
                    t \in user.mfa.methods <=> t \notin user'.mfa.methods
             PROVE  \E c \in Clients : call[c].type = t /\ call'[c] # call[c]
  BY DEF OneMethod
<1>1. PICK c \in Clients : EnableWrite(c) \/ DisableWrite(c) \/ BackupUse(c)
  BY Frame DEF FrameOK, IInv
<1> DEFINE m == call[c].saw.mfa
<1>2. m \in Mfa /\ user.mfa = m
  BY <1>1, Writes DEF EnableWrite, DisableWrite, BackupUse, Race
<1>3. CASE EnableWrite(c)
  <2>1. PICK k \in Drawn : user'.mfa = Enabled(m, call[c].type, k)
    BY <1>3, Writes
  <2>2. user'.mfa.methods = m.methods \cup {call[c].type}
                              \cup (IF m.secrets = {} THEN {"backup_code"} ELSE {})
    BY <2>1 DEF Enabled
  <2>3. call[c].type = t
    BY <1>2, <2>2
  <2>4. call'[c].at # call[c].at
    <3>1. call[c].at = "listed" /\ (Goes(c, "dropping") \/ Ends(c))
      BY <1>3 DEF EnableWrite
    <3>2. Goes(c, "dropping") => call'[c].at = "dropping"
      BY DEF Goes, IInv, TypeOK, Call
    <3>3. Ends(c) => call'[c].at = "idle"
      BY DEF Ends, Idle, IInv, TypeOK
    <3> QED
      BY <3>1, <3>2, <3>3
  <2> QED
    BY <2>3, <2>4
<1>4. CASE DisableWrite(c)
  <2>1. m \in Mfa /\ user'.mfa \in Disabled(m, call[c].type)
    BY <1>4, Writes
  <2>2. DisabledAs(m, call[c].type, user'.mfa)
    BY <2>1, DisabledIs
  <2>3. call[c].type = t
    BY <1>2, <2>2 DEF Active, MfaOff, DisabledAs
  <2>4. call'[c].at # call[c].at
    BY <1>4 DEF DisableWrite, At, Ends, Idle, IInv, TypeOK, Call
  <2> QED
    BY <2>3, <2>4
<1>5. CASE BackupUse(c)
  <2>1. user'.mfa.methods = m.methods
    BY <1>2, <1>5, Writes DEF Mfa
  <2> QED
    BY <1>2, <2>1
<1> QED
  BY <1>1, <1>3, <1>4, <1>5

\* A request changes no method but its own, unless it overlapped with another
\* (enableMfaMethod, disableMfaMethod).
THEOREM MfaChangesOneMethod == Spec => ChangesOneMethod
<1>1. IInv /\ [Next]_vars => [OneMethod]_vars
  BY MethodStep
<1> QED
  BY <1>1, Invariance, PTL DEF Spec, ChangesOneMethod, OneMethod

-----------------------------------------------------------------------------
(* Credentials.                                                             *)

\* What few steps change of the credentials: they are written by three actions,
\* "half" is taken back by a request that has disabled the passkey, and a request
\* comes to enable a passkey by storing its credential.
CredentialsFrame ==
    /\ \/ user'.credentials = user.credentials
       \/ \E c \in Clients : ClearCredentials(c) \/ RegisterStore(c) \/ PasskeyStore(c)
    /\ \/ "half" \in raced => "half" \in raced'
       \/ \E c \in Clients : DisableWrite(c) /\ call[c].type = "passkey"
    /\ \/ Registering' \subseteq Registering
       \/ \E c \in Clients : RegisterStore(c)
    /\ \A d \in Clients :
         \/ call'[d].op = call[d].op /\ call'[d].type = call[d].type
         \/ call'[d].op = "verifySetup" => call'[d].type # "passkey"

\* Who has stored a credential finds it among those of the user, unless lists were
\* written back that had changed; and only passkeys are enabled that were stored.
CredentialsInv ==
    /\ "credentials" \notin raced /\ Registering # {} => user.credentials # {}
    /\ \A c \in Clients : call[c].op = "verifySetup" => call[c].type # "passkey"
    /\ PasskeyHasCredential

\* The requests of a step keep their methods, and none comes to enable a passkey.
CallsFrame ==
    /\ Registering' \subseteq Registering
    /\ \A d \in Clients :
         \/ call'[d].op = call[d].op /\ call'[d].type = call[d].type
         \/ call'[d].op = "verifySetup" => call'[d].type # "passkey"

LEMMA AsksFrame ==
    ASSUME TypeOK, NEW c \in Clients,
           NEW op, NEW type, NEW number, NEW code, NEW at,
           Asks(c, op, type, number, code, at),
           op = "register" => at \notin {"enabling", "listed"},
           op = "verifySetup" => type # "passkey"
    PROVE  CallsFrame
<1> DEFINE r == [op |-> op, at |-> at, type |-> type, number |-> number,
                 code |-> code, saw |-> user]
<1>1. \A d \in Clients : call'[d] = IF d = c THEN r ELSE call[d]
  BY DEF Asks, TypeOK
<1>2. r.op = op /\ r.at = at /\ r.type = type
  OBVIOUS
<1> HIDE DEF r
<1> QED
  BY <1>1, <1>2 DEF CallsFrame, Registering

LEMMA GoesFrame ==
    ASSUME TypeOK, NEW c \in Clients, NEW at, Goes(c, at),
           at \in {"enabling", "listed"} => call[c].op # "register"
    PROVE  CallsFrame
<1>1. \A d \in Clients : /\ call'[d].op = call[d].op /\ call'[d].type = call[d].type
                         /\ call'[d].at = IF d = c THEN at ELSE call[d].at
  BY DEF Goes, TypeOK, Call
<1> QED
  BY <1>1 DEF CallsFrame, Registering

LEMMA EndsFrame ==
    ASSUME TypeOK, NEW c \in Clients, Ends(c)
    PROVE  CallsFrame
<1>1. \A d \in Clients : call'[d] = IF d = c THEN Idle ELSE call[d]
  BY DEF Ends, TypeOK
<1>2. Idle.op = "none"
  BY DEF Idle
<1> QED
  BY <1>1, <1>2 DEF CallsFrame, Registering

LEMMA ListedFrame ==
    ASSUME TypeOK, NEW c \in Clients, call[c].at = "enabling",
           call' = [call EXCEPT ![c] = [@ EXCEPT !.at = "listed", !.saw = user]]
    PROVE  CallsFrame
<1> DEFINE r == [call[c] EXCEPT !.at = "listed", !.saw = user]
<1>1. r.op = call[c].op /\ r.type = call[c].type
  BY DEF TypeOK, Call
<1>2. \A d \in Clients : call'[d] = IF d = c THEN r ELSE call[d]
  BY DEF TypeOK
<1> HIDE DEF r
<1> QED
  BY <1>1, <1>2 DEF CallsFrame, Registering

LEMMA SameCalls == call' = call => CallsFrame
BY DEF CallsFrame, Registering

LEMMA QuietFrame ==
    ASSUME CallsFrame, user'.credentials = user.credentials, raced \subseteq raced'
    PROVE  CredentialsFrame
BY DEF CallsFrame, CredentialsFrame

LEMMA CredentialsFrames == TypeOK /\ [Next]_vars => CredentialsFrame
<1> SUFFICES ASSUME TypeOK, [Next]_vars PROVE CredentialsFrame
  OBVIOUS
<1> USE DEF tokens, codes, history, redis, mfaVars, Arrives, Step, At
<1>1. CASE SessionNext /\ UNCHANGED mfaVars
  <2>1. ASSUME NEW c \in Clients,
               \/ Login(c) \/ Google(c) \/ GoogleMark(c) \/ Refresh(c) \/ Grant(c)
               \/ Logout(c) \/ EmailMark(c) \/ Resend(c) \/ ResendStore(c) \/ PhoneStore(c)
               \/ PhoneConfirm(c) \/ Fails(c)
        PROVE  CredentialsFrame
    <3>1. CASE Login(c)
      <4>1. CallsFrame
        BY <3>1, AsksFrame, SameCalls DEF Login
      <4>2. user'.credentials = user.credentials /\ raced \subseteq raced'
        BY <3>1 DEF Login
      <4> QED
        BY <4>1, <4>2, QuietFrame
    <3>2. CASE Google(c)
      <4>1. CallsFrame
        BY <3>2, AsksFrame DEF Google
      <4>2. user'.credentials = user.credentials /\ raced \subseteq raced'
        BY <3>2 DEF Google
      <4> QED
        BY <4>1, <4>2, QuietFrame
    <3>3. CASE GoogleMark(c)
      <4>1. CallsFrame
        BY <3>3, GoesFrame DEF GoogleMark
      <4>2. user'.credentials = user.credentials /\ raced \subseteq raced'
        BY <3>3 DEF GoogleMark, TypeOK, Document
      <4> QED
        BY <4>1, <4>2, QuietFrame
    <3>4. CASE Refresh(c)
      <4>1. CallsFrame
        BY <3>4, AsksFrame DEF Refresh
      <4>2. user'.credentials = user.credentials /\ raced \subseteq raced'
        BY <3>4 DEF Refresh
      <4> QED
        BY <4>1, <4>2, QuietFrame
    <3>5. CASE Grant(c)
      <4>1. CallsFrame
        BY <3>5, EndsFrame DEF Grant
      <4>2. user'.credentials = user.credentials /\ raced \subseteq raced'
        BY <3>5 DEF Grant, TypeOK, Document, Race
      <4> QED
        BY <4>1, <4>2, QuietFrame
    <3>6. CASE Logout(c)
      <4>1. CallsFrame
        BY <3>6, SameCalls DEF Logout
      <4>2. user'.credentials = user.credentials /\ raced \subseteq raced'
        BY <3>6 DEF Logout, TypeOK, Document
      <4> QED
        BY <4>1, <4>2, QuietFrame
    <3>7. CASE EmailMark(c)
      <4>1. CallsFrame
        BY <3>7, GoesFrame DEF EmailMark
      <4>2. user'.credentials = user.credentials /\ raced \subseteq raced'
        BY <3>7 DEF EmailMark, TypeOK, Document
      <4> QED
        BY <4>1, <4>2, QuietFrame
    <3>8. CASE Resend(c)
      <4>1. CallsFrame
        BY <3>8, AsksFrame DEF Resend
      <4>2. user'.credentials = user.credentials /\ raced \subseteq raced'
        BY <3>8 DEF Resend
      <4> QED
        BY <4>1, <4>2, QuietFrame
    <3>9. CASE ResendStore(c)
      <4>1. CallsFrame
        BY <3>9, EndsFrame DEF ResendStore
      <4>2. user'.credentials = user.credentials /\ raced \subseteq raced'
        BY <3>9 DEF ResendStore, TypeOK, Document
      <4> QED
        BY <4>1, <4>2, QuietFrame
    <3>10. CASE PhoneStore(c)
      <4>1. CallsFrame
        BY <3>10, EndsFrame DEF PhoneStore
      <4>2. user'.credentials = user.credentials /\ raced \subseteq raced'
        BY <3>10 DEF PhoneStore, TypeOK, Document
      <4> QED
        BY <4>1, <4>2, QuietFrame
    <3>11. CASE PhoneConfirm(c)
      <4>1. CallsFrame
        BY <3>11, EndsFrame DEF PhoneConfirm
      <4>2. user'.credentials = user.credentials /\ raced \subseteq raced'
        BY <3>11 DEF PhoneConfirm, TypeOK, Document, Race
      <4> QED
        BY <4>1, <4>2, QuietFrame
    <3>12. CASE Fails(c)
      <4>1. CallsFrame
        BY <3>12, EndsFrame DEF Fails
      <4>2. user'.credentials = user.credentials /\ raced \subseteq raced'
        BY <3>12 DEF Fails
      <4> QED
        BY <4>1, <4>2, QuietFrame
    <3> QED
      BY <2>1, <3>1, <3>2, <3>3, <3>4, <3>5, <3>6, <3>7, <3>8, <3>9, <3>10, <3>11, <3>12
  <2>2. ASSUME NEW c \in Clients, NEW n \in Numbers, InitiatePhone(c, n)
        PROVE  CredentialsFrame
    <3>1. CallsFrame
      BY <2>2, AsksFrame DEF InitiatePhone
    <3>2. user'.credentials = user.credentials /\ raced \subseteq raced'
      BY <2>2 DEF InitiatePhone
    <3> QED
      BY <3>1, <3>2, QuietFrame
  <2>3. ASSUME NEW c \in Clients, NEW k \in inbox, VerifyEmail(c, k)
        PROVE  CredentialsFrame
    <3>1. CallsFrame
      BY <2>3, AsksFrame DEF VerifyEmail
    <3>2. user'.credentials = user.credentials /\ raced \subseteq raced'
      BY <2>3 DEF VerifyEmail
    <3> QED
      BY <3>1, <3>2, QuietFrame
  <2>4. ASSUME NEW c \in Clients, NEW k \in inbox, CompletePhone(c, k)
        PROVE  CredentialsFrame
    <3>1. CallsFrame
      BY <2>4, AsksFrame DEF CompletePhone
    <3>2. user'.credentials = user.credentials /\ raced \subseteq raced'
      BY <2>4 DEF CompletePhone
    <3> QED
      BY <3>1, <3>2, QuietFrame
  <2>5. CASE Lapses
    <3>1. CallsFrame
      BY <2>5, SameCalls DEF Lapses
    <3>2. user'.credentials = user.credentials /\ raced \subseteq raced'
      BY <2>5 DEF Lapses, TypeOK, Document
    <3> QED
      BY <3>1, <3>2, QuietFrame
  <2> QED
    BY <1>1, <2>1, <2>2, <2>3, <2>4, <2>5 DEF SessionNext
<1>2. CASE MfaNext
  <2>1. ASSUME NEW c \in Clients,
               \/ SetupStore(c) \/ VerifyTotp(c) \/ SetupDrop(c) \/ EnableRead(c)
               \/ EnableWrite(c) \/ ClearCredentials(c) \/ DisableWrite(c) \/ SendStore(c)
               \/ Challenge(c) \/ LoginDrop(c) \/ BackupUse(c) \/ RegisterInit(c)
               \/ PasskeyInit(c) \/ ChallengeStore(c) \/ Register(c) \/ RegisterStore(c)
               \/ PasskeyLogin(c) \/ PasskeyStore(c) \/ ChallengeDrop(c)
        PROVE  CredentialsFrame
    <3>1. CASE SetupStore(c)
      <4>1. CallsFrame
        BY <3>1, EndsFrame DEF SetupStore
      <4>2. user'.credentials = user.credentials /\ raced \subseteq raced'
        BY <3>1 DEF SetupStore
      <4> QED
        BY <4>1, <4>2, QuietFrame
    <3>2. CASE VerifyTotp(c)
      <4>1. CallsFrame
        BY <3>2, AsksFrame DEF VerifyTotp
      <4>2. user'.credentials = user.credentials /\ raced \subseteq raced'
        BY <3>2 DEF VerifyTotp
      <4> QED
        BY <4>1, <4>2, QuietFrame
    <3>3. CASE SetupDrop(c)
      <4>1. CallsFrame
        BY <3>3, GoesFrame DEF SetupDrop
      <4>2. user'.credentials = user.credentials /\ raced \subseteq raced'
        BY <3>3 DEF SetupDrop
      <4> QED
        BY <4>1, <4>2, QuietFrame
    <3>4. CASE EnableRead(c)
      <4>1. CallsFrame
        BY <3>4, ListedFrame DEF EnableRead
      <4>2. user'.credentials = user.credentials /\ raced \subseteq raced'
        BY <3>4 DEF EnableRead
      <4> QED
        BY <4>1, <4>2, QuietFrame
    <3>5. CASE EnableWrite(c)
      <4>1. CallsFrame
        BY <3>5, GoesFrame, EndsFrame DEF EnableWrite
      <4>2. user'.credentials = user.credentials /\ raced \subseteq raced'
        BY <3>5 DEF EnableWrite, TypeOK, Document, Race
      <4> QED
        BY <4>1, <4>2, QuietFrame
    <3>6. CASE ClearCredentials(c)
      <4>1. CallsFrame
        BY <3>6, GoesFrame DEF ClearCredentials
      <4>2. raced \subseteq raced' /\ \E d \in Clients : ClearCredentials(d)
        BY <3>6 DEF ClearCredentials
      <4> QED
        BY <4>1, <4>2 DEF CallsFrame, CredentialsFrame
    <3>7. CASE DisableWrite(c)
      <4>1. CallsFrame
        BY <3>7, EndsFrame DEF DisableWrite
      <4>2. user'.credentials = user.credentials
        BY <3>7 DEF DisableWrite, TypeOK, Document
      <4>3. \/ "half" \in raced => "half" \in raced'
            \/ \E d \in Clients : DisableWrite(d) /\ call[d].type = "passkey"
        <5>1. CASE call[c].type = "passkey"
          BY <3>7, <5>1
        <5>2. CASE call[c].type # "passkey"
          BY <3>7, <5>2 DEF DisableWrite
        <5> QED
          BY <5>1, <5>2
      <4> QED
        BY <4>1, <4>2, <4>3 DEF CallsFrame, CredentialsFrame
    <3>8. CASE SendStore(c)
      <4>1. CallsFrame
        BY <3>8, EndsFrame DEF SendStore
      <4>2. user'.credentials = user.credentials /\ raced \subseteq raced'
        BY <3>8 DEF SendStore
      <4> QED
        BY <4>1, <4>2, QuietFrame
    <3>9. CASE Challenge(c)
      <4>1. CallsFrame
        BY <3>9, AsksFrame DEF Challenge
      <4>2. user'.credentials = user.credentials /\ raced \subseteq raced'
        BY <3>9 DEF Challenge
      <4> QED
        BY <4>1, <4>2, QuietFrame
    <3>10. CASE LoginDrop(c)
      <4>1. CallsFrame
        BY <3>10, GoesFrame DEF LoginDrop
      <4>2. user'.credentials = user.credentials /\ raced \subseteq raced'
        BY <3>10 DEF LoginDrop
      <4> QED
        BY <4>1, <4>2, QuietFrame
    <3>11. CASE BackupUse(c)
      <4>1. CallsFrame
        BY <3>11, GoesFrame DEF BackupUse
      <4>2. user'.credentials = user.credentials /\ raced \subseteq raced'
        BY <3>11 DEF BackupUse, TypeOK, Document, Race
      <4> QED
        BY <4>1, <4>2, QuietFrame
    <3>12. CASE RegisterInit(c)
      <4>1. CallsFrame
        BY <3>12, AsksFrame DEF RegisterInit
      <4>2. user'.credentials = user.credentials /\ raced \subseteq raced'
        BY <3>12 DEF RegisterInit
      <4> QED
        BY <4>1, <4>2, QuietFrame
    <3>13. CASE PasskeyInit(c)
      <4>1. CallsFrame
        BY <3>13, AsksFrame DEF PasskeyInit
      <4>2. user'.credentials = user.credentials /\ raced \subseteq raced'
        BY <3>13 DEF PasskeyInit
      <4> QED
        BY <4>1, <4>2, QuietFrame
    <3>14. CASE ChallengeStore(c)
      <4>1. CallsFrame
        BY <3>14, EndsFrame DEF ChallengeStore
      <4>2. user'.credentials = user.credentials /\ raced \subseteq raced'
        BY <3>14 DEF ChallengeStore
      <4> QED
        BY <4>1, <4>2, QuietFrame
    <3>15. CASE Register(c)
      <4>1. CallsFrame
        BY <3>15, AsksFrame DEF Register
      <4>2. user'.credentials = user.credentials /\ raced \subseteq raced'
        BY <3>15 DEF Register
      <4> QED
        BY <4>1, <4>2, QuietFrame
    <3>16. CASE RegisterStore(c)
      <4>1. \A d \in Clients : call'[d].op = call[d].op /\ call'[d].type = call[d].type
        BY <3>16 DEF RegisterStore, Goes, TypeOK, Call
      <4>2. raced \subseteq raced' /\ \E d \in Clients : RegisterStore(d)
        BY <3>16 DEF RegisterStore, Race
      <4> QED
        BY <4>1, <4>2 DEF CredentialsFrame
    <3>17. CASE PasskeyLogin(c)
      <4>1. CallsFrame
        BY <3>17, AsksFrame DEF PasskeyLogin
      <4>2. user'.credentials = user.credentials /\ raced \subseteq raced'
        BY <3>17 DEF PasskeyLogin
      <4> QED
        BY <4>1, <4>2, QuietFrame
    <3>18. CASE PasskeyStore(c)
      <4>1. CallsFrame
        BY <3>18, GoesFrame DEF PasskeyStore
      <4>2. raced \subseteq raced' /\ \E d \in Clients : PasskeyStore(d)
        BY <3>18 DEF PasskeyStore, Race
      <4> QED
        BY <4>1, <4>2 DEF CallsFrame, CredentialsFrame
    <3>19. CASE ChallengeDrop(c)
      <4>1. CallsFrame
        BY <3>19, GoesFrame, EndsFrame DEF ChallengeDrop
      <4>2. user'.credentials = user.credentials /\ raced \subseteq raced'
        BY <3>19 DEF ChallengeDrop
      <4> QED
        BY <4>1, <4>2, QuietFrame
    <3> QED
      BY <2>1, <3>1, <3>2, <3>3, <3>4, <3>5, <3>6, <3>7, <3>8, <3>9, <3>10, <3>11, <3>12,
         <3>13, <3>14, <3>15, <3>16, <3>17, <3>18, <3>19
  <2>2. ASSUME NEW c \in Clients, NEW t \in Types, Disable(c, t)
        PROVE  CredentialsFrame
    <3>1. CallsFrame
      BY <2>2, AsksFrame DEF Disable
    <3>2. user'.credentials = user.credentials /\ raced \subseteq raced'
      BY <2>2 DEF Disable
    <3> QED
      BY <3>1, <3>2, QuietFrame
  <2>3. ASSUME NEW c \in Clients, NEW t \in Types, SendChallenge(c, t)
        PROVE  CredentialsFrame
    <3>1. CallsFrame
      BY <2>3, AsksFrame DEF SendChallenge
    <3>2. user'.credentials = user.credentials /\ raced \subseteq raced'
      BY <2>3 DEF SendChallenge
    <3> QED
      BY <3>1, <3>2, QuietFrame
  <2>4. ASSUME NEW c \in Clients, NEW t \in Sent, InitSetup(c, t)
        PROVE  CredentialsFrame
    <3>1. CallsFrame
      BY <2>4, AsksFrame DEF InitSetup
    <3>2. user'.credentials = user.credentials /\ raced \subseteq raced'
      BY <2>4 DEF InitSetup
    <3> QED
      BY <3>1, <3>2, QuietFrame
  <2>5. ASSUME NEW c \in Clients, NEW t \in Sent, NEW k \in inbox, VerifySetup(c, t, k)
        PROVE  CredentialsFrame
    <3>1. CallsFrame
      BY <2>5, AsksFrame DEF VerifySetup, Sent
    <3>2. user'.credentials = user.credentials /\ raced \subseteq raced'
      BY <2>5 DEF VerifySetup
    <3> QED
      BY <3>1, <3>2, QuietFrame
  <2>6. ASSUME NEW c \in Clients, NEW t \in Sent, NEW k \in inbox, ChallengeCode(c, t, k)
        PROVE  CredentialsFrame
    <3>1. CallsFrame
      BY <2>6, AsksFrame DEF ChallengeCode
    <3>2. user'.credentials = user.credentials /\ raced \subseteq raced'
      BY <2>6 DEF ChallengeCode
    <3> QED
      BY <3>1, <3>2, QuietFrame
  <2>7. ASSUME NEW c \in Clients, NEW k \in user.mfa.secrets, ChallengeBackup(c, k)
        PROVE  CredentialsFrame
    <3>1. CallsFrame
      BY <2>7, AsksFrame DEF ChallengeBackup
    <3>2. user'.credentials = user.credentials /\ raced \subseteq raced'
      BY <2>7 DEF ChallengeBackup
    <3> QED
      BY <3>1, <3>2, QuietFrame
  <2>8. CASE Expires
    <3>1. CallsFrame
      BY <2>8, SameCalls DEF Expires
    <3>2. user'.credentials = user.credentials /\ raced \subseteq raced'
      BY <2>8 DEF Expires
    <3> QED
      BY <3>1, <3>2, QuietFrame
  <2> QED
    BY <1>2, <2>1, <2>2, <2>3, <2>4, <2>5, <2>6, <2>7, <2>8 DEF MfaNext
<1>3. CASE UNCHANGED vars
  BY <1>3, SameCalls, QuietFrame DEF vars, sessionVars
<1> QED
  BY <1>1, <1>2, <1>3 DEF Next

LEMMA CredentialsStep == IInv /\ CredentialsInv /\ [Next]_vars => CredentialsInv'
<1> SUFFICES ASSUME IInv, CredentialsInv, [Next]_vars PROVE CredentialsInv'
  OBVIOUS
<1>1. FrameOK /\ CredentialsFrame
  BY Frame, CredentialsFrames DEF IInv
<1>2. \A c \in Clients : call'[c].op = "verifySetup" => call'[c].type # "passkey"
  BY <1>1 DEF CredentialsFrame, CredentialsInv
<1>3. raced \cap {"mfa", "credentials"} \subseteq raced'
  BY <1>1 DEF FrameOK
\* What the three writes leave of the credentials.
<1>4. ASSUME NEW c \in Clients, ClearCredentials(c)
      PROVE  "half" \in raced' /\ ("credentials" \notin raced' => Registering = {})
  BY <1>4 DEF ClearCredentials
<1>5. ASSUME NEW c \in Clients, RegisterStore(c) PROVE user'.credentials # {}
  BY <1>5 DEF RegisterStore, IInv, TypeOK, Document
<1>6. ASSUME NEW c \in Clients, PasskeyStore(c), "credentials" \notin raced'
      PROVE  user'.credentials = user.credentials
  BY <1>6 DEF PasskeyStore, Race, IInv, TypeOK, Document
<1>7. "credentials" \notin raced' /\ Registering' # {} => user'.credentials # {}
  <2> SUFFICES ASSUME "credentials" \notin raced', Registering' # {}
               PROVE  user'.credentials # {}
    OBVIOUS
  <2>1. CASE \E c \in Clients : RegisterStore(c)
    BY <1>5, <2>1
  <2>2. CASE ~\E c \in Clients : RegisterStore(c)
    <3>1. Registering # {} /\ Registering' \subseteq Registering
      BY <1>1, <2>2 DEF CredentialsFrame
    <3>2. user'.credentials = user.credentials
      BY <1>1, <1>4, <1>6, <2>2, <3>1 DEF CredentialsFrame
    <3> QED
      BY <1>3, <3>1, <3>2 DEF CredentialsInv
  <2> QED
    BY <2>1, <2>2
<1>8. PasskeyHasCredential'
  <2> SUFFICES ASSUME "passkey" \in user'.mfa.methods,
                      raced' \cap {"mfa", "credentials", "half"} = {}
               PROVE  user'.credentials # {}
    BY DEF PasskeyHasCredential
  <2>1. raced \cap {"mfa", "credentials"} = {}
    BY <1>3
  <2>2. CASE user'.credentials # user.credentials
    BY <1>1, <1>4, <1>5, <1>6, <2>2 DEF CredentialsFrame
  <2>3. ASSUME user'.credentials = user.credentials, "passkey" \in user.mfa.methods
        PROVE  user.credentials # {}
    <3>1. CASE "half" \notin raced
      BY <2>1, <2>3, <3>1 DEF CredentialsInv, PasskeyHasCredential
    <3>2. CASE "half" \in raced
      <4>1. PICK c \in Clients : DisableWrite(c) /\ call[c].type = "passkey"
        BY <1>1, <3>2 DEF CredentialsFrame
      <4> DEFINE m == call[c].saw.mfa
      <4>2. m \in Mfa /\ user'.mfa \in Disabled(m, "passkey")
        BY <4>1, Writes
      <4>3. DisabledAs(m, "passkey", user'.mfa)
        BY <4>2, DisabledIs
      <4>4. "passkey" \notin user'.mfa.methods
        BY <4>3 DEF DisabledAs, MfaOff
      <4> QED
        BY <4>4
    <3> QED
      BY <3>1, <3>2
  <2>4. CASE "passkey" \in user.mfa.methods
    BY <2>2, <2>3, <2>4
  <2>5. CASE "passkey" \notin user.mfa.methods
    <3>2. PICK c \in Clients : EnableWrite(c) \/ DisableWrite(c) \/ BackupUse(c)
      BY <1>1, <2>5 DEF FrameOK
    <3> DEFINE m == call[c].saw.mfa
    <3>3. m \in Mfa /\ user.mfa = m
      BY <3>2, Writes DEF EnableWrite, DisableWrite, BackupUse, Race
    <3>4. CASE EnableWrite(c)
      <4>1. PICK k \in Drawn : user'.mfa = Enabled(m, call[c].type, k)
        BY <3>4, Writes
      <4>2. call[c].type = "passkey"
        BY <2>5, <3>3, <4>1 DEF Enabled
      <4>3. call[c].at = "listed" /\ call[c].op \in {"verifySetup", "register"}
        BY <3>4 DEF EnableWrite, IInv, CallInv, CallOK
      <4>4. c \in Registering
        BY <4>2, <4>3 DEF CredentialsInv, Registering
      <4> QED
        BY <2>1, <2>2, <4>4 DEF CredentialsInv
    <3>5. CASE DisableWrite(c)
      <4>1. DisabledAs(m, call[c].type, user'.mfa)
        BY <3>5, Writes, DisabledIs
      <4> QED
        BY <2>5, <3>3, <4>1 DEF DisabledAs, MfaOff
    <3>6. CASE BackupUse(c)
      <4>1. user'.mfa.methods = m.methods
        BY <3>3, <3>6, Writes DEF Mfa
      <4> QED
        BY <2>5, <3>3, <4>1
    <3> QED
      BY <3>2, <3>4, <3>5, <3>6
  <2> QED
    BY <2>4, <2>5
<1> QED
  BY <1>2, <1>7, <1>8 DEF CredentialsInv

\* A passkey that counts as a method has a credential, unless requests on the
\* credentials or on user.mfa overlapped or a disabling stopped half way
\* (verifyPasskeyRegistration, disableMfaMethod, enableMfaMethod).
THEOREM MfaPasskeyHasCredential == Spec => []PasskeyHasCredential
<1>1. Init => CredentialsInv
  <2> SUFFICES ASSUME Init PROVE CredentialsInv
    OBVIOUS
  <2>1. /\ \A c \in Clients : call[c].op = "none"
        /\ user.mfa.methods = {}
    BY DEF Init, SessionInit, Idle, NewUser, MfaOff
  <2>2. Registering = {}
    BY <2>1 DEF Registering
  <2> QED
    BY <2>1, <2>2 DEF CredentialsInv, PasskeyHasCredential
<1>2. CredentialsInv => PasskeyHasCredential
  BY DEF CredentialsInv
<1> QED
  BY <1>1, <1>2, Invariance, CredentialsStep, PTL DEF Spec

=============================================================================
