SPECIFICATION Spec
CONSTANTS
    Block = 8
    Digit = 16
    Half = 2
    MaxLen = 70
INVARIANTS
    StreamKept
    DigestIsOfMessage
