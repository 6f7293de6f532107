--------------------------------- MODULE MCMfa ---------------------------------
(***************************************************************************)
(* Small instance of Mfa for TLC: which requests come together.            *)
(***************************************************************************)
EXTENDS Mfa, TLC

Symmetry == Permutations(Clients) \cup Permutations(Numbers)

families ==
    {{"login", "google", "refresh", "logout", "verifyEmail", "resend"},
     {"initiatePhone", "completePhone", "initSetup", "verifySetup", "logout"},
     {"initSetup", "verifySetup", "disable", "sendChallenge", "challenge", "login"},
     {"registerInit", "register", "passkeyInit", "passkeyLogin", "verifySetup", "disable"}}
=============================================================================
