SPECIFICATION Spec
CONSTANTS
    Client = {c1, c2}
    Room = {r1, r2}
    NoRoom = NoRoom
    NoSid = NoSid
    Other = Other
    MaxGen = 0
    CleanupTimeout = 1
    EventCap = 1
    MaxJoins = 1
SYMMETRY Symmetry
PROPERTIES JoinsAskedRoom
