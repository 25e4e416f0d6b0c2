SPECIFICATION Spec
CONSTANTS
    Byte = 8
    REPLY = 4
    START = 5
    ERR = 6
    END = 7
    TIMEOUT_CHAR = 3
    Inputs <- MCFrames
    Payloads <- MCPayloads
INVARIANT ExactFit
