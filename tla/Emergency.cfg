CONSTANT SafeRelay = FALSE
SPECIFICATION EmergencySpec
INVARIANTS
    SafeFromTheNextRun
    HeaterOnIsRemembered
PROPERTY BrownOutSettles
