SPECIFICATION FairSpec
CONSTANTS
    Client = {c1}
    Room = {r1, r2}
    NoRoom = NoRoom
    NoSid = NoSid
    Other = Other
    MaxGen = 1
    CleanupTimeout = 1
    EventCap = 1
    MaxJoins = 2
INVARIANTS OneSeat MapsLead
PROPERTIES NoEviction GoneForGood EmptyRoomDropped AcceptedRoomAppears
