SPECIFICATION Spec
CONSTANTS
    ModelCalls = {"c1", "c2"}
    Callers = {"u1"}
    CallLimit = 1
    MaxBalance = 2
    MaxPrice = 2
    MaxFaults = 1
    Transfers = {"t1", "t2", "t3"}
    Clients = {"a", "b"}
    MAX_CONCURRENT = 2
    PER_IP = 1
    Uploads = {"r1"}
    Small = 1
    Large = 2
    Talks = {"t1", "t2"}
    Speakers = {"t1"}
    Minutes = {1}
    Seconds = {1, 2}
    PerMinute = 1
    Purse = 1
    MaxBreaks = 1
    Rooms = {"r1"}
    Lines = {"l1", "l2"}
    LineKinds = {"comment", "chat", "echo", "script"}
    MaxLive = 1
    MaxQueue = 1
    MaxTrouble = 1
    Window = 3
    MinSpan = 2
    Ttl = 2
    MaxClock = 4
    Tabs = {"b1", "b2"}
    Ports = {3080, 8080}
    BlockedPorts = {3080}
    Shares = {"f1"}
    Tokens = {"t1", "t2"}
    Visits = {"q1"}
    Spaces = {"w1", "w2"}
    MaxEra = 1
    Codes = {"c1"}
    Owners = {"u1", "u2"}
    Browsers = {"b1", "b2"}
    MaxEpoch = 1
    Users = {"u1", "u2", "u3"}
    Requests = {"q1", "q2"}
    Orgs = {"o1"}
    Invites = {"i1", "i2"}
    SeatsOffered = {2}
    MaxSales = 1
    Items = {"i1"}
    Checkouts = {"c1", "c2"}
    MaxProducts = 2
    MaxRenames = 1
    Machines = {"heavy"}
    Packs = {"g1", "g2"}
    Included = 2
    PackSize = 1
    Ceilings = {1}
    MaxTime = 2
    MaxRows = 2
    OnSale = {"p"}
    Locked = {"p"}
    Sales = {"s1", "s2"}
    MaxNow = 2
    VolumeFiles = {"f1", "f2"}
    Servers = {"s1", "s2"}
    MaxGroups = 2
    Seekers = {"u1", "u2"}
    Desktops = {"p1"}
    Addresses = {10, 11}
    MaxBoxes = 2
    Runs = {"r1"}
    Caches = {1, 2}
    Layouts = {{{"a", "b"}}, {{"a", "b"}, {"c"}}}
    Images = {"c"}
    Products = {"dify", "coze", "hermes", "maus"}
    MaxTries = 3
    MaxWrong = 2
    MaxSetups = 2
    MaxRounds = 2
    Models = {"chat", "embed", "other"}
    Defaults = {"chat", "embed"}
    MaxRebuilds = 1
    Nodes = {"n1", "n2"}
    MakerKinds = {"vendor", "own", "picture", "straight"}
    MaxLost = 1
    Chats = {"c1"}
    MaxTurns = 2
    Bots = {"a", "b", "c"}
    Crew <- MCCrew
    Rosters <- MCRosters
    RelayTurns = {"t1", "t2"}
    RoomIds = {"r1"}
    Writers = {"loop", "thread"}
    MaxMishaps = 2
    Hands = {"h1"}
    Shots = {"s1"}
    UploadTries = 2
    PollGiveUp = 2
    MaxPaid = 2
    LocalSlots = {"d", "dx"}
    Longer <- MCLonger
    Parts = {"p"}
    Calls = {"c1", "c2"}
    Names = {"a", "b"}
CHECK_DEADLOCK FALSE
INVARIANTS
    TypesOK
    SlotsMatch
    BillsAreTrue
    SpokenAndChargedOnce
    ADeviceForAnApproval
    DeliveredInOrder
    OneOfEach
    ModelsAreCurrent
    ResultsArrive
    IntakeHolds
    NothingHalfDone
PROPERTIES
    OrderedOnce
    TokensStayTheirs
    QuotasHold
    
    GoodCopiesStay
