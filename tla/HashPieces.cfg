SPECIFICATION Spec
CONSTANTS
    Radix = 256
    Types = {"Md5", "Sha1", "Sha256"}
    BlockSize = 8
    WordSize = 4
    LengthSize = 2
    DigestSize = 3
    Pieces = {0, 1, 2, 5, 6, 8, 16}
    MaxMessage = 33
INVARIANT PiecesAccepted
CHECK_DEADLOCK FALSE
