---------------------------------- MODULE Mfa ----------------------------------
(***************************************************************************)
(* Multi-factor authentication of one user, on top of Sessions: setting up *)
(* and disabling methods, backup codes, passkeys, and the login that ends  *)
(* with them.  Every change of user.mfa or of the passkey credentials      *)
(* writes back the whole value that was read some awaits before.  Reads of *)
(* Mongo and redis that follow each other are one step; where the code     *)
(* waits before a write, the write is a step of its own.                   *)
(***************************************************************************)
EXTENDS Sessions

VARIABLES setup,      \* redis: the code of mfa_setup:<user>:<type>
          loginCode,  \* redis: the code of mfa_login:<user>
          challenge,  \* redis: the challenge of passkey_challenge:<user>
          held,       \* the last challenge each client was given, and what for
          used        \* history: backup codes that were accepted

redis == <<setup, loginCode, challenge>>
mfaVars == <<redis, held, used>>
sessionVars == <<user, call, tokens, codes, family, calls, history>>
vars == <<sessionVars, mfaVars>>

\* Codes sent by mail; those for "sms" are stored and sent nowhere.
Sent == {"email", "sms"}
Ceremonies == {"register", "passkeyLogin"}

MfaInit ==
    /\ setup = [t \in Sent |-> NoCode]
    /\ loginCode = NoCode /\ challenge = NoCode
    /\ held = [c \in Clients |-> [code |-> NoCode, op |-> "none"]]
    /\ used = {}

Init == SessionInit /\ MfaInit

\* The methods other than backup codes, which alone keep MFA on.
Active(methods) == methods \ {"backup_code"}

Mails(t, k) == inbox' = IF t = "email" THEN inbox \cup {k} ELSE inbox

-----------------------------------------------------------------------------
(* Setting up and enabling a method.                                        *)

InitSetup(c, t) ==
    /\ Arrives(c, "initSetup") /\ c \in signed
    /\ IF t = "email" THEN user.verified ELSE user.phoneVerified
    /\ Asks(c, "initSetup", t, NoNumber, NoCode, "checked")
    /\ UNCHANGED <<user, tokens, codes, history, mfaVars>>

SetupStore(c) ==
    /\ At(c, "initSetup", "checked") /\ Step
    /\ \E k \in Drawn :
         /\ Draws(k) /\ Mails(call[c].type, k)
         /\ setup' = [setup EXCEPT ![call[c].type] = k]
    /\ Ends(c)
    /\ UNCHANGED <<user, tokens, history, loginCode, challenge, held, used>>

\* An authenticator is checked against the secret that comes with the request.
VerifyTotp(c) ==
    /\ Arrives(c, "verifySetup") /\ c \in signed
    /\ Asks(c, "verifySetup", "totp", NoNumber, NoCode, "enabling")
    /\ UNCHANGED <<user, tokens, codes, history, mfaVars>>

VerifySetup(c, t, k) ==
    /\ Arrives(c, "verifySetup") /\ c \in signed /\ k \in inbox
    /\ setup[t] = k
    /\ Asks(c, "verifySetup", t, NoNumber, k, "dropping")
    /\ UNCHANGED <<user, tokens, codes, history, mfaVars>>

SetupDrop(c) ==
    /\ At(c, "verifySetup", "dropping") /\ Step
    /\ setup' = [setup EXCEPT ![call[c].type] = NoCode]
    /\ Goes(c, "enabling")
    /\ UNCHANGED <<user, tokens, codes, history, loginCode, challenge, held, used>>

\* enableMfaMethod reads the user again.
EnableRead(c) ==
    /\ call[c].at = "enabling" /\ Step
    /\ call[c].type \in user.mfa.methods => call[c].type = "passkey"
    /\ call' = [call EXCEPT ![c] = [@ EXCEPT !.at = "listed", !.saw = user]]
    /\ UNCHANGED <<user, tokens, codes, history, mfaVars>>

\* A plausible mistake: the new method takes the place of the others.
EnabledAlone(m, t, k) ==
    [on |-> TRUE,
     methods |-> {t, "backup_code"},
     primary |-> t,
     secrets |-> IF m.secrets = {} THEN {k} ELSE m.secrets]

\* Ten backup codes are drawn if there are none left; they are one code here.
Enabled(m, t, k) ==
    [on |-> TRUE,
     methods |-> m.methods \cup {t} \cup (IF m.secrets = {} THEN {"backup_code"} ELSE {}),
     primary |-> IF m.methods = {} THEN t ELSE m.primary,
     secrets |-> IF m.secrets = {} THEN {k} ELSE m.secrets]

EnableWrite(c) ==
    /\ call[c].at = "listed" /\ Step
    /\ LET m == call[c].saw.mfa
       IN  /\ \E k \in Drawn :
                /\ k = drawn + 1
                /\ drawn' = (IF m.secrets = {} THEN k ELSE drawn)
                /\ user' = [user EXCEPT !.mfa = Enabled(m, call[c].type, k)]
           /\ Race(c, "mfa", user.mfa # m)
    /\ IF call[c].op = "register" THEN Goes(c, "dropping") ELSE Ends(c)
    /\ UNCHANGED <<tokens, inbox, out, proved, mfaVars>>

-----------------------------------------------------------------------------
(* Disabling a method.                                                      *)

\* The credentials are cleared only if the passkey was the last method.
Disable(c, t) ==
    /\ Arrives(c, "disable") /\ c \in signed
    /\ user.mfa.on /\ t \in user.mfa.methods
    /\ Asks(c, "disable", t, NoNumber, NoCode,
            IF t = "passkey" /\ Active(user.mfa.methods) = {t} THEN "clearing" ELSE "leaving")
    /\ UNCHANGED <<user, tokens, codes, history, mfaVars>>

\* Requests that have stored a credential and not yet enabled its method.
Registering == {d \in Clients : call[d].op = "register" /\ call[d].at \in {"enabling", "listed"}}

ClearCredentials(c) ==
    /\ At(c, "disable", "clearing") /\ Step
    /\ user' = [user EXCEPT !.credentials = {}]
    /\ raced' = raced \cup {"half"} \cup (IF Registering # {} THEN {"credentials"} ELSE {})
    /\ Goes(c, "leaving")
    /\ UNCHANGED <<tokens, codes, out, proved, mfaVars>>

\* A plausible mistake: backup codes count as a method.
DisabledKeepingBackup(m, t) ==
    IF m.methods = {t} THEN {MfaOff}
    ELSE {[m EXCEPT !.methods = @ \ {t}, !.primary = p] : p \in m.methods \ {t}}

\* The order of the methods is left out: any that is left becomes primary.
Disabled(m, t) ==
    LET left == Active(m.methods \ {t})
    IN  IF left = {} THEN {MfaOff}
        ELSE {[m EXCEPT !.methods = @ \ {t}, !.primary = p] :
                  p \in IF m.primary = t THEN left ELSE {m.primary}}

DisableWrite(c) ==
    /\ At(c, "disable", "leaving") /\ Step
    /\ \E m \in Disabled(call[c].saw.mfa, call[c].type) : user' = [user EXCEPT !.mfa = m]
    /\ raced' = (raced \ IF call[c].type = "passkey" THEN {"half"} ELSE {})
                    \cup (IF user.mfa # call[c].saw.mfa THEN {"mfa"} ELSE {})
    /\ Ends(c)
    /\ UNCHANGED <<tokens, codes, out, proved, mfaVars>>

-----------------------------------------------------------------------------
(* The second step of a login.                                              *)

SendChallenge(c, t) ==
    /\ Arrives(c, "sendChallenge") /\ c \in signed
    /\ t \in user.mfa.methods
    /\ Asks(c, "sendChallenge", t, NoNumber, NoCode, "checked")
    /\ UNCHANGED <<user, tokens, codes, history, mfaVars>>

SendStore(c) ==
    /\ At(c, "sendChallenge", "checked") /\ Step
    /\ \E k \in Drawn : Draws(k) /\ Mails(call[c].type, k) /\ loginCode' = k
    /\ Ends(c)
    /\ UNCHANGED <<user, tokens, history, setup, challenge, held, used>>

\* Methods for which verifyMfaWait returns without a write.  The controller does
\* not look at what it returns: only what it throws stops the login.
Challenge(c) ==
    /\ Arrives(c, "challenge") /\ c \in signed
    /\ Asks(c, "challenge", NoType, NoNumber, NoCode, "granting")
    /\ UNCHANGED <<user, tokens, codes, history, mfaVars>>

ChallengeCode(c, t, k) ==
    /\ Arrives(c, "challenge") /\ c \in signed /\ k \in inbox
    /\ t \in user.mfa.methods /\ loginCode = k
    /\ Asks(c, "challenge", t, NoNumber, k, "dropping")
    /\ UNCHANGED <<user, tokens, codes, history, mfaVars>>

LoginDrop(c) ==
    /\ At(c, "challenge", "dropping") /\ Step
    /\ loginCode' = NoCode
    /\ Goes(c, "granting")
    /\ UNCHANGED <<user, tokens, codes, history, setup, challenge, held, used>>

ChallengeBackup(c, k) ==
    /\ Arrives(c, "challenge") /\ c \in signed
    /\ "backup_code" \in user.mfa.methods /\ k \in user.mfa.secrets
    /\ Asks(c, "challenge", "backup_code", NoNumber, k, "leaving")
    /\ UNCHANGED <<user, tokens, codes, history, mfaVars>>

\* A plausible mistake: the code that was accepted is not taken off the list.
BackupKeep(c) ==
    /\ At(c, "challenge", "leaving") /\ Step
    /\ used' = used \cup {call[c].code}
    /\ Goes(c, "granting")
    /\ UNCHANGED <<user, tokens, codes, history, redis, held>>

BackupUse(c) ==
    /\ At(c, "challenge", "leaving") /\ Step
    /\ LET m == call[c].saw.mfa
       IN  /\ user' = [user EXCEPT !.mfa = [m EXCEPT !.secrets = @ \ {call[c].code}]]
           /\ Race(c, "mfa", user.mfa # m)
    /\ used' = used \cup {call[c].code}
    /\ Goes(c, "granting")
    /\ UNCHANGED <<tokens, codes, out, proved, redis, held>>

-----------------------------------------------------------------------------
(* Passkeys.  Registration and login share the one challenge of the user.   *)

RegisterInit(c) ==
    /\ Arrives(c, "registerInit") /\ c \in signed
    /\ Asks(c, "registerInit", NoType, NoNumber, NoCode, "checked")
    /\ UNCHANGED <<user, tokens, codes, history, mfaVars>>

\* Asked for by address, before the login, or after its first step.
PasskeyInit(c) ==
    /\ Arrives(c, "passkeyInit")
    /\ Asks(c, "passkeyInit", NoType, NoNumber, NoCode, "checked")
    /\ UNCHANGED <<user, tokens, codes, history, mfaVars>>

ChallengeStore(c) ==
    /\ call[c].at = "checked" /\ call[c].op \in {"registerInit", "passkeyInit"} /\ Step
    /\ \E k \in Drawn :
         /\ Draws(k) /\ challenge' = k
         /\ held' = [held EXCEPT ![c] =
              [code |-> k, op |-> IF call[c].op = "registerInit" THEN "register"
                                                                 ELSE "passkeyLogin"]]
    /\ Ends(c)
    /\ UNCHANGED <<user, tokens, inbox, history, setup, loginCode, used>>

\* The authenticator has answered the challenge that is stored.
Answers(c, op) == held[c] = [code |-> challenge, op |-> op] /\ challenge # NoCode

Register(c) ==
    /\ Arrives(c, "register") /\ c \in signed
    /\ Answers(c, "register")
    /\ Asks(c, "register", "passkey", NoNumber, challenge, "checked")
    /\ UNCHANGED <<user, tokens, codes, history, mfaVars>>

\* A plausible mistake: the list is written before the credential is added to it.
RegisterStoreEarly(c) ==
    /\ At(c, "register", "checked") /\ Step
    /\ user' = [user EXCEPT !.credentials = call[c].saw.credentials]
    /\ Race(c, "credentials", user.credentials # call[c].saw.credentials)
    /\ Goes(c, "enabling")
    /\ UNCHANGED <<tokens, codes, out, proved, mfaVars>>

\* The new credential is named after the challenge.
RegisterStore(c) ==
    /\ At(c, "register", "checked") /\ Step
    /\ user' = [user EXCEPT !.credentials = call[c].saw.credentials \cup {call[c].code}]
    /\ Race(c, "credentials", user.credentials # call[c].saw.credentials)
    /\ Goes(c, "enabling")
    /\ UNCHANGED <<tokens, codes, out, proved, mfaVars>>

PasskeyLogin(c) ==
    /\ Arrives(c, "passkeyLogin")
    /\ Answers(c, "passkeyLogin") /\ user.credentials # {}
    /\ Asks(c, "passkeyLogin", "passkey", NoNumber, challenge, "checked")
    /\ UNCHANGED <<user, tokens, codes, history, mfaVars>>

\* Only the counter of one credential is new; the whole list is written.
PasskeyStore(c) ==
    /\ At(c, "passkeyLogin", "checked") /\ Step
    /\ user' = [user EXCEPT !.credentials = call[c].saw.credentials]
    /\ Race(c, "credentials", user.credentials # call[c].saw.credentials)
    /\ Goes(c, "dropping")
    /\ UNCHANGED <<tokens, codes, out, proved, mfaVars>>

ChallengeDrop(c) ==
    /\ call[c].at = "dropping" /\ call[c].op \in Ceremonies /\ Step
    /\ challenge' = NoCode
    /\ IF call[c].op = "passkeyLogin" THEN Goes(c, "granting") ELSE Ends(c)
    /\ UNCHANGED <<user, tokens, codes, history, setup, loginCode, held, used>>

\* Ten minutes for a setup code, five for a login code or a challenge.
Expires ==
    /\ Step
    /\ \/ /\ \E t \in Sent : setup[t] # NoCode /\ setup' = [setup EXCEPT ![t] = NoCode]
          /\ UNCHANGED <<loginCode, challenge>>
       \/ loginCode # NoCode /\ loginCode' = NoCode /\ UNCHANGED <<setup, challenge>>
       \/ challenge # NoCode /\ challenge' = NoCode /\ UNCHANGED <<setup, loginCode>>
    /\ UNCHANGED <<user, call, tokens, codes, history, held, used>>

MfaNext ==
    \/ \E c \in Clients :
         \/ SetupStore(c) \/ VerifyTotp(c) \/ SetupDrop(c) \/ EnableRead(c) \/ EnableWrite(c)
         \/ ClearCredentials(c) \/ DisableWrite(c)
         \/ SendStore(c) \/ Challenge(c) \/ LoginDrop(c) \/ BackupUse(c)
         \/ RegisterInit(c) \/ PasskeyInit(c) \/ ChallengeStore(c)
         \/ Register(c) \/ RegisterStore(c) \/ PasskeyLogin(c) \/ PasskeyStore(c)
         \/ ChallengeDrop(c)
         \/ \E t \in Types : Disable(c, t) \/ SendChallenge(c, t)
         \/ \E t \in Sent : InitSetup(c, t)
         \/ \E t \in Sent, k \in inbox : VerifySetup(c, t, k) \/ ChallengeCode(c, t, k)
         \/ \E k \in user.mfa.secrets : ChallengeBackup(c, k)
    \/ Expires

Next == (SessionNext /\ UNCHANGED mfaVars) \/ MfaNext

Spec == Init /\ [][Next]_vars

-----------------------------------------------------------------------------
\* Documents, keys and calls keep their shapes.
TypeOK ==
    /\ user \in Document
    /\ call \in [Clients -> Call]
    /\ signed \subseteq Clients /\ cookies \subseteq Clients
    /\ drawn \in Codes /\ inbox \subseteq Drawn
    /\ family \in Families /\ calls \in 0..MaxCalls
    /\ raced \subseteq {"refresh", "number", "mfa", "credentials", "half"}
    /\ out \in BOOLEAN /\ proved \in Numbers \cup {NoNumber}
    /\ setup \in [Sent -> Codes] /\ loginCode \in Codes /\ challenge \in Codes
    /\ held \in [Clients -> [code: Codes, op: Ceremonies \cup {"none"}]]
    /\ used \subseteq Drawn

\* What user.mfa says of itself agrees, however requests overlap and fail: it is on
\* just when a method other than backup codes is left, one such method is primary,
\* and nothing remains of it when it is off.
Consistent(m) ==
    /\ m.on => m.primary \in Active(m.methods)
    /\ ~m.on => m = MfaOff

MfaIsConsistent == Consistent(user.mfa)

\* A request changes no method but the one it names, and the backup codes that
\* come with the first and go with the last, unless it wrote back a value that
\* another request had changed since it was read.
ChangesOneMethod ==
    [][\A t \in Types \ {"backup_code"} :
          "mfa" \notin raced' /\ (t \in user.mfa.methods <=> t \notin user'.mfa.methods)
              => \E c \in Clients : call[c].type = t /\ call'[c] # call[c]]_vars

\* A backup code that was accepted is accepted no more, unless requests on user.mfa
\* overlapped.
UsedCodesStayUsed == "mfa" \notin raced => used \cap user.mfa.secrets = {}

\* A passkey that counts as a method has a credential to log in with, unless
\* requests on the credentials or on user.mfa overlapped, or one that disables it
\* has stopped half way.
PasskeyHasCredential ==
    "passkey" \in user.mfa.methods /\ raced \cap {"mfa", "credentials", "half"} = {}
        => user.credentials # {}
=============================================================================
