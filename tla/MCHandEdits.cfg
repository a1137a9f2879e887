SPECIFICATION Spec
CONSTANTS
    Words <- MCWords
    Texts <- MCTexts
    BootstrapGroup = "bootstrap"
    Given <- MCGiven
    MaxSwitches = 3
CHECK_DEADLOCK FALSE
INVARIANTS
    
    CandidatesSurvive
