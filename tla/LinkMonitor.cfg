CONSTANTS
    Period = 2
    Limit = 3
    IdleCap = 2
SPECIFICATION FairLinkSpec
INVARIANTS SilenceDetected ToldStatus
PROPERTIES KoAfterSilence MendsWhenQuiet
