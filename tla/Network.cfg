SPECIFICATION Spec
CONSTANTS
    Fds = {3, 4, 5}
    MaxOpened = 3
    Room = 2
    MaxSent = 3
    Sizes = {0, 2}
    DrainSize = 1
    Options = {{}, {2, 4}}
    NetPorts = {1}
    PairFds = {1, 2, 3, 4}
    Radix = 256
    Octets = {0, 255}
    Ports = {0, 80, 65616}
    Paths = {"", "p"}
    Bits = {0, 1, 2, 3, 4, 5, 6, 7}
INVARIANTS
    TypeOK
    StreamKept
    RepliesAsked
    PairOwnsItsEnds
    AddressKept
    NumbersAgree
PROPERTIES
    DrainEmpties
CHECK_DEADLOCK FALSE
