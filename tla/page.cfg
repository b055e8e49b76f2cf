\* One reader, with scripts and without, on a deployment shaped like the one
\* shipped, while one new snapshot may arrive.
SPECIFICATION Spec
CONSTANTS
    ChartRows    = 1
    IdOrder     <- MCIdOrder
    Configs     <- MCConfigs
    Documents   <- MCDocuments
    Batches     <- MCBatches
    Label       <- MCLabel
    Bookmarks   <- MCBookmarks
    Words       <- MCWords
    MaxClicks    = 2
    MaxArrivals  = 1
    MaxInflight  = 2
INVARIANTS
    TypeOK
    SwapMatchesAddress
    DrawerMatchesAddress
    ControlsDoOnlyWhatTheySay
    NarrowingCanBeUndone
    RanksSurviveFiltering
    ChipsKeepPromise
    CardsKeepPromise
    SilenceIsNotAnOutage
    AbsentNeverLeads
    NothingIsMadeUp
    AcceptedNeverDangles
    OpenRecordDrawn
    AcceptedIsListed
    FeedsAgree
CHECK_DEADLOCK FALSE
