SPECIFICATION TelnetFairSpec
CONSTANTS
    MaxAsk = 5
    AlreadyOn = FALSE
INVARIANT Agreement
INVARIANT Counted
INVARIANT Consent
PROPERTY Quiesces
CHECK_DEADLOCK FALSE
