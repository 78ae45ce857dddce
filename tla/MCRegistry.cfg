CONSTANTS
    c1 = c1
    c2 = c2
    c3 = c3
    text = text
    video = video
    app = app
    appFactory = appFactory
    nullFactory = nullFactory
    Nobody = Nobody
    NoName = NoName
    NoFactory = NoFactory
    Mock = Mock
    Local = Local
    MockFactory = MockFactory
    LocalFactory = LocalFactory
    Calls <- MCCalls
    Within <- MCWithin
    Caps <- MCCaps
    Names <- MCNames
    Factories <- MCFactories
    NullFactories <- MCNullFactories
    AppOps <- MCAppOps
    MockCaps <- MCMockCaps
    LocalCaps <- MCLocalCaps
CHECK_DEADLOCK FALSE
SPECIFICATION FairSpec
INVARIANTS TypeOK DefaultRoutes BuiltinsReachable ListsBuiltins
PROPERTIES DefaultMovesOnRequest ImplementsRegistrySpec CallsReturn
