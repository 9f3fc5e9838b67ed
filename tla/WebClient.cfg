\* The components of the web client, each on a small instance.
CONSTANTS
    Parts = {"live", "socket", "api", "session", "forms", "notices", "pages", "overlay", "profile",
             "preference", "scope", "catalogue", "crowd", "trains", "route", "map", "boards",
             "rotation", "chat", "insights"}
    None = None
    Stations = {1}
    MaxReading = 2
    MaxPending = 2
    Consumers = {"c1", "c2"}
    Keys = {"k1", "k2"}
    Users = {"c1"}
    LiveKeys = {"k1"}
    MaxVersion = 0
    Accounts = {"a"}
    NoUser = NoUser
    Calls = {1, 2}
    RoleOf <- MCRoleOf
    AccountRoles = {"passenger", "admin"}
    Numbers = {"n1", "n2"}
    NoNumber = NoNumber
    Notes = {"note"}
    NoList = NoList
    NoFetch = NoFetch
    MaxEvents = 1
    ListRows = {1, 2}
    NoRow = NoRow
    SelfRow = 1
    MaxChanges = 1
    MaxCalls = 2
    Emergencies = {"e"}
    MAX_VISIBLE_TOASTS = 2
    MaxToasts = 3
    MaxAlertEvents = 1
    Mobiles = {"p1", "p2"}
    NoMobile = NoMobile
    Mails = {"m1"}
    MetroCities = {"delhi", "pune"}
    HomeCity = "pune"
    MetroStops = {"d1", "d2", "p1"}
    StopsOf <- MCStopsOf
    FirstStop <- MCFirstStop
    Cities = {"c1"}
    NoCity = NoCity
    StaffRoutes = {"r1"}
    OtherRoutes = {}
    Prefetchable = {"r1"}
    MaxCatalogue = 2
    MaxLoads = 2
    Stops = 2
    NameOf <- MCNameOf
    MaxCount = 1
    NearbyCount = 1
    Trains = {"t1", "t2"}
    TownOf <- MCTownOf
    MaxPosition = 0
    LineLen = 7
    RouteStops <- MCRouteStops
    SegmentSeconds <- MCSegmentSeconds
    TickSeconds = 2
    MaxSlowness = 2
    StationsBefore = 1
    StationsAfter = 2
    MapStations = {1, 2, 3, 4, 5, 6, 7, 8}
    LatOf <- MCLatOf
    LngOf <- MCLngOf
    LineOf <- MCLineOf
    NoLine = "none"
    OrderOf <- MCOrderOf
    MapCityOf <- MCMapCityOf
    Schedules = {"s"}
    TrainOf <- MCTrainOf
    Outcomes = {"cancelled", "delayed"}
    Uncached = Uncached
    Sites = {1, 2}
    NoSite = NoSite
    RotationPeriod = 2
    ThreadLimit = 3
    MaxThread = 5
    InsightCities = {"x", "y"}
    NoStations = NoStations
    MaxAborted = 1
SPECIFICATION WebSpec
CHECK_DEADLOCK FALSE
INVARIANTS
    WebTypeOK
    SocketIsSound
    NewestReading
    ShownIsAsked
    LoadingIsAwaited
    ContentNeedsSession
    CodeGoesWithNumber
    
    OwnChangesShow
    LinksConfirmedNumber
    
    
    InsightsAreOfCity
    
    DotsAreOnLines
PROPERTIES
    EtaCountsDown
