------------------------------- MODULE Sessions -------------------------------
(***************************************************************************)
(* The sessions of one user: login by password or by Google, the refresh   *)
(* token, logout, and the codes that confirm an address or a telephone     *)
(* number.  A call is one request of a client.  It reads the user document *)
(* and, after some awaits, writes fields of it, whatever they hold by then *)
(* (findOneAndUpdate).  Module Mfa adds the requests on user.mfa.          *)
(***************************************************************************)
EXTENDS Integers, FiniteSets

CONSTANTS Clients,     \* browsers and telephones of the user
          Numbers,     \* telephone numbers the user may name
          NoNumber,
          Families,    \* bound: the sets of requests that come together
          MaxCalls     \* bound on requests

SessionOps == {"login", "google", "refresh", "logout", "verifyEmail", "resend",
               "initiatePhone", "completePhone"}
MfaOps == {"initSetup", "verifySetup", "disable", "sendChallenge", "challenge",
           "registerInit", "register", "passkeyInit", "passkeyLogin"}

ASSUME SessionsAssumption ==
    /\ MaxCalls \in Nat /\ NoNumber \notin Numbers
    /\ \A f \in Families : f \subseteq SessionOps \cup MfaOps

VARIABLES user,     \* Mongo: the user document
          call,     \* the request of each client
          signed,   \* clients that were given an access or a temporary token
          cookies,  \* clients that hold a refresh token
          drawn,    \* how many codes and challenges were drawn
          inbox,    \* the codes that were sent to the user
          family,   \* the requests in play
          calls,    \* how many requests there were
          raced,    \* history: fields written from a reading that was out of date,
                    \* and "half" if credentials are gone and their method is not
          out,      \* history: no login since the last logout
          proved    \* history: the number to which the last accepted code went

tokens == <<signed, cookies>>
codes == <<drawn, inbox>>
history == <<raced, out, proved>>

Types == {"email", "sms", "totp", "passkey", "backup_code"}
NoType == "none"

\* Codes, challenges and credentials are numbered as they are drawn.
Drawn == 1..MaxCalls + 1
NoCode == 0
Codes == Drawn \cup {NoCode}

\* `secrets` are the backup codes that are left.
Mfa == [on: BOOLEAN, methods: SUBSET Types, primary: Types \cup {NoType},
        secrets: SUBSET Drawn]
MfaOff == [on |-> FALSE, methods |-> {}, primary |-> NoType, secrets |-> {}]

\* refresh: a hash of a refresh token is stored.  bcrypt hashes the first 72
\* bytes, which all refresh tokens of a user have in common, so each of them
\* matches it.  cooldown: no SMS may be asked for yet.
Document == [verified: BOOLEAN, code: Codes, refresh: BOOLEAN,
             number: Numbers \cup {NoNumber}, phoneCode: Codes,
             phoneVerified: BOOLEAN, cooldown: BOOLEAN,
             mfa: Mfa, credentials: SUBSET Codes]

Labels == {"idle", "checked", "clearing", "leaving", "dropping", "enabling", "listed",
           "granting"}
Call == [op: SessionOps \cup MfaOps \cup {"none"}, at: Labels,
         type: Types \cup {NoType}, number: Numbers \cup {NoNumber},
         code: Codes, saw: Document]

\* A user who has just registered, with a code in the mail, or for whom Google
\* has vouched.
NewUser(google) ==
    [verified |-> google, code |-> IF google THEN NoCode ELSE 1, refresh |-> google,
     number |-> NoNumber, phoneCode |-> NoCode, phoneVerified |-> FALSE,
     cooldown |-> FALSE, mfa |-> MfaOff, credentials |-> {}]

Idle == [op |-> "none", at |-> "idle", type |-> NoType, number |-> NoNumber,
         code |-> NoCode, saw |-> NewUser(TRUE)]

SessionInit ==
    /\ \E google \in BOOLEAN :
         /\ user = NewUser(google)
         /\ signed = (IF google THEN Clients ELSE {})
         /\ cookies = (IF google THEN Clients ELSE {})
    /\ call = [c \in Clients |-> Idle]
    /\ drawn = user.code /\ inbox = {user.code} \ {NoCode}
    /\ family \in Families /\ calls = 0
    /\ raced = {} /\ out = FALSE /\ proved = NoNumber

-----------------------------------------------------------------------------
\* A request arrives, and the user document is read for it.
Arrives(c, op) ==
    /\ call[c].at = "idle" /\ op \in family
    /\ calls < MaxCalls /\ calls' = calls + 1
    /\ UNCHANGED family

Step == UNCHANGED <<family, calls>>

Asks(c, op, type, number, code, at) ==
    call' = [call EXCEPT ![c] = [op |-> op, at |-> at, type |-> type, number |-> number,
                                 code |-> code, saw |-> user]]

At(c, op, at) == call[c].op = op /\ call[c].at = at
Goes(c, at) == call' = [call EXCEPT ![c].at = at]
Ends(c) == call' = [call EXCEPT ![c] = Idle]

Draws(k) == k = drawn + 1 /\ drawn' = k

\* Of the fields that c writes from what it read, those that have changed since.
Race(c, field, changed) == raced' = IF changed THEN raced \cup {field} ELSE raced

-----------------------------------------------------------------------------
(* Login, refresh, logout.                                                  *)

\* validateUser: with MFA the client gets a temporary token and no session.
Login(c) ==
    /\ Arrives(c, "login") /\ user.verified
    /\ IF user.mfa.on
       THEN signed' = signed \cup {c} /\ UNCHANGED call
       ELSE Asks(c, "login", NoType, NoNumber, NoCode, "granting") /\ UNCHANGED signed
    /\ UNCHANGED <<user, cookies, codes, history>>

\* validateGoogleUser, then the callback of the controller.
Google(c) ==
    /\ Arrives(c, "google")
    /\ Asks(c, "google", NoType, NoNumber, NoCode, "checked")
    /\ UNCHANGED <<user, tokens, codes, history>>

GoogleMark(c) ==
    /\ At(c, "google", "checked") /\ Step
    /\ user' = [user EXCEPT !.verified = TRUE]
    /\ Goes(c, "granting")
    /\ UNCHANGED <<tokens, codes, history>>

\* A plausible mistake: it is not asked whether there is a session.
RefreshUnchecked(c) ==
    /\ Arrives(c, "refresh") /\ c \in cookies
    /\ Asks(c, "refresh", NoType, NoNumber, NoCode, "granting")
    /\ UNCHANGED <<user, tokens, codes, history>>

Refresh(c) ==
    /\ Arrives(c, "refresh") /\ c \in cookies
    /\ user.refresh
    /\ Asks(c, "refresh", NoType, NoNumber, NoCode, "granting")
    /\ UNCHANGED <<user, tokens, codes, history>>

\* The tokens are signed, the hash computed and stored, the cookie set.
Grant(c) ==
    /\ call[c].at = "granting" /\ Step
    /\ user' = [user EXCEPT !.refresh = TRUE]
    /\ signed' = signed \cup {c} /\ cookies' = cookies \cup {c}
    /\ Ends(c)
    /\ LET renewed == call[c].op = "refresh"
       IN  /\ Race(c, "refresh", renewed /\ user.refresh # call[c].saw.refresh)
           /\ out' = (out /\ renewed)
    /\ UNCHANGED <<codes, proved>>

Logout(c) ==
    /\ Arrives(c, "logout") /\ c \in signed
    /\ user' = [user EXCEPT !.refresh = FALSE]
    /\ cookies' = cookies \ {c}
    /\ out' = TRUE
    /\ UNCHANGED <<call, signed, codes, raced, proved>>

-----------------------------------------------------------------------------
(* The address.                                                             *)

VerifyEmail(c, k) ==
    /\ Arrives(c, "verifyEmail") /\ k \in inbox
    /\ ~user.verified /\ user.code = k
    /\ Asks(c, "verifyEmail", NoType, NoNumber, k, "checked")
    /\ UNCHANGED <<user, tokens, codes, history>>

EmailMark(c) ==
    /\ At(c, "verifyEmail", "checked") /\ Step
    /\ user' = [user EXCEPT !.verified = TRUE, !.code = NoCode]
    /\ Goes(c, "granting")
    /\ UNCHANGED <<tokens, codes, history>>

Resend(c) ==
    /\ Arrives(c, "resend") /\ ~user.verified
    /\ Asks(c, "resend", NoType, NoNumber, NoCode, "checked")
    /\ UNCHANGED <<user, tokens, codes, history>>

\* Whether the mail arrives does not matter here: its code need not be used.
ResendStore(c) ==
    /\ At(c, "resend", "checked") /\ Step
    /\ \E k \in Drawn :
         /\ Draws(k) /\ inbox' = inbox \cup {k}
         /\ user' = [user EXCEPT !.code = k]
    /\ Ends(c)
    /\ UNCHANGED <<tokens, history>>

-----------------------------------------------------------------------------
(* The telephone number.                                                    *)

\* That another user has the number is one of the errors of Fails.
InitiatePhone(c, n) ==
    /\ Arrives(c, "initiatePhone") /\ c \in signed
    /\ ~user.cooldown
    /\ Asks(c, "initiatePhone", NoType, n, NoCode, "checked")
    /\ UNCHANGED <<user, tokens, codes, history>>

\* A plausible mistake: what was confirmed of the old number is kept.
PhoneStoreVerified(c) ==
    /\ At(c, "initiatePhone", "checked") /\ Step
    /\ \E k \in Drawn :
         /\ Draws(k) /\ inbox' = inbox \cup {k}
         /\ user' = [user EXCEPT !.number = call[c].number, !.phoneCode = k, !.cooldown = TRUE]
    /\ Ends(c)
    /\ UNCHANGED <<tokens, history>>

PhoneStore(c) ==
    /\ At(c, "initiatePhone", "checked") /\ Step
    /\ \E k \in Drawn :
         /\ Draws(k) /\ inbox' = inbox \cup {k}
         /\ user' = [user EXCEPT !.number = call[c].number, !.phoneCode = k,
                                 !.phoneVerified = FALSE, !.cooldown = TRUE]
    /\ Ends(c)
    /\ UNCHANGED <<tokens, history>>

CompletePhone(c, k) ==
    /\ Arrives(c, "completePhone") /\ c \in signed /\ k \in inbox
    /\ ~user.phoneVerified /\ user.phoneCode = k
    /\ Asks(c, "completePhone", NoType, user.number, k, "checked")
    /\ UNCHANGED <<user, tokens, codes, history>>

PhoneConfirm(c) ==
    /\ At(c, "completePhone", "checked") /\ Step
    /\ user' = [user EXCEPT !.phoneVerified = TRUE, !.phoneCode = NoCode, !.cooldown = FALSE]
    /\ proved' = call[c].number
    /\ Race(c, "number", user.number # call[c].number)
    /\ Ends(c)
    /\ UNCHANGED <<tokens, codes, out>>

\* The validity of a code or the pause after an SMS ends.
Lapses ==
    /\ Step
    /\ \/ user.code # NoCode /\ user' = [user EXCEPT !.code = NoCode]
       \/ user.phoneCode # NoCode /\ user' = [user EXCEPT !.phoneCode = NoCode]
       \/ user.cooldown /\ user' = [user EXCEPT !.cooldown = FALSE]
    /\ UNCHANGED <<call, tokens, codes, history>>

\* A database, redis or the mail service throws, the request is dropped or the
\* process restarts: what the call has written stays.
Fails(c) ==
    /\ call[c].at # "idle" /\ Step
    /\ Ends(c)
    /\ UNCHANGED <<user, tokens, codes, history>>

SessionNext ==
    \/ \E c \in Clients :
         \/ Login(c) \/ Google(c) \/ GoogleMark(c) \/ Refresh(c) \/ Grant(c) \/ Logout(c)
         \/ EmailMark(c) \/ Resend(c) \/ ResendStore(c)
         \/ PhoneStore(c) \/ PhoneConfirm(c) \/ Fails(c)
         \/ \E n \in Numbers : InitiatePhone(c, n)
         \/ \E k \in inbox : VerifyEmail(c, k) \/ CompletePhone(c, k)
    \/ Lapses

-----------------------------------------------------------------------------
\* A logout lasts: until the next login no refresh token is accepted, unless a
\* refresh had looked before the logout and stored its token after it.
LogoutLasts == out /\ "refresh" \notin raced => ~user.refresh

\* A number that counts as verified is the one to which the code went, unless
\* the number was changed while the code was being checked.
NumberWasConfirmed ==
    user.phoneVerified /\ "number" \notin raced => user.number = proved
=============================================================================
