SPECIFICATION Spec
CONSTANTS
    KeyIdMask = 2
    HandshakeWindow = 1
    TransitionWindow = 2
    RenegSeconds <- BothRenegotiate
    MaxMishaps = 1
    MaxNow = 5
    MaxNet = 2
INVARIANTS
    NoKeyMistaken
    KeyInv
PROPERTIES
    KeepsSendKey
CHECK_DEADLOCK FALSE
