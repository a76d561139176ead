SPECIFICATION Spec
CONSTANTS
    SizeMax = 32
    Bytes = {0, 1}
    RingSize = 4
    Radix = 2
    WriterSize = 8
    Widths = {2, 4, 8}
    Samples = {2, 178}
    ReaderSizes = {1, 4, 9}
    Vectors = {a, b}
    Values = {x, y}
    Length = 2
    Undefined = Undefined
    MaxLength = 4
    HashRadix = 256
    Types = {"Md5", "Sha1", "Sha256"}
    BlockSize = 8
    WordSize = 4
    LengthSize = 2
    DigestSize = 3
    Pieces = {0, 1, 2, 5, 6, 8, 16}
    MaxMessage = 33
    KeySizes = {0, 1, 8, 9}
    DataSizes = {0, 1, 5, 6, 8, 16}
    Alphabet = {45, 49, 65, 97, 124}
    MaxText = 3
    MaxOther = 2
    Counts = {0, 1, 2, 9}
    Modulus = 100
    Limit = 40
    Characters = {65, 66}
    Junk = 255
    BufferSizes = {1, 2, 7}
    MaxAppend = 2
    MaxNested = 2
    Hexes = {g, h}
    N = 2
    ByteValues = {0, 31, 160}
    Numbers = {0, 1, 7, 8, 15, 16, 255, 256, 4095}
    PrintSizes = {0, 1, 2, 3, 4, 5, 6}
    Segments = {"", ".", "..", "~", "~a", "..x", "a"}
    MaxSegments = 4
    Seeds = {{}, {31}, {63, 5}}
    FillSizes = {0, 1, 4, 5, 8, 9, 16, 17}
    MaxFill = 17
    SystemChunk = 8
    MaxDraws = 17
    Contexts = {a, b}
    States = {x, y}
    Threads = {t, u}
    Delays = {1}
    MaxTime = 2
    Null = Null
SYMMETRY Symmetry
INVARIANTS
    TypeOK
    RoundTrip
    IsSequence
    DigestOfMessage
    StringsAgree
    TextsReadBack
    PathsAgree
    RandomKept
    CancelSeen
PROPERTIES
    IsQueue
    SpansInside
CHECK_DEADLOCK FALSE
