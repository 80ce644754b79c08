CONSTANTS
    Requests = {r1, r2}
    Groups = {{"register", "activate", "resend", "forgot", "confirmReset", "reset"},
              {"login", "resendOTP", "forgot", "reset"},
              {"login", "requestOTP", "changePassword"},
              {"confirmReset", "reset", "forgot", "changePassword", "requestOTP"}}
    MaxLinks = 2
    MaxCodes = 2
    MaxPasswords = 1
SYMMETRY Symmetry
SPECIFICATION Spec
CHECK_DEADLOCK FALSE
INVARIANTS
    TypeOK
    ThirdFailureBlocks
PROPERTIES
    PasswordNeverReturns
    NewestLinkResets
