SPECIFICATION FairSpec
CONSTANTS
    Byte = 8
    REPLY = 4
    START = 5
    ERR = 6
    END = 7
    TIMEOUT_CHAR = 3
    Inputs <- MCInputs
    Payloads <- MCPayloads
INVARIANTS TypeOK InBounds Terminated NothingMadeUp RoundTrip ParseInv FromWire ParsePosition HeaderlessUntouched ParseIsFunction OneParameterIsFunction
PROPERTY Terminates
