SPECIFICATION Spec
CONSTANTS
    c1 = c1
    c2 = c2
    None = None
    Processes <- Processors
    Perspectives = {"here", "there"}
    EventKinds = {"discovery"}
    Offers <- SomeOffers
    EventOffers <- OneEvent
    Inherited <- OldAssertions
    Queries <- SomeQueries
    EventQueries <- SomeEventQueries
    Dates = {0, 1}
    MaxAssertions = 2
    Paths <- LibAndSrc
    Contents = {1, 2}
    Commands <- Tools
    Workers <- Processors
    MaxRuns = 4
    MaxEdits = 1
    User = 0
    Starts <- BothFiles
    Limits <- Walks
    Actors <- Processors
    Projects = {"p"}
    Keys = {"k", "j"}
    Locators = {"here", "there", "far"}
    Remote = {"far"}
    MaxVersions = 3
    Manifests <- TwoManifests
    Texts = {"x", "y", "z"}
    PinsOf <- Pins
    ComponentOf <- OneComponent
    Repositories <- SomeRepositories
    MaxScans = 3
    MaxChanges = 1
SYMMETRY Symmetry
INVARIANTS
    IndexAnswersForAssertions
    AnswersHaveOnePerspective
    TraceFindsProducers
    RevalidationIsComplete
    PassIsForTheseBytes
    BindingHistoryIsAChain
    ScanIsOfItsBinding
    ScanHangsTogether
    DiffIsExact
CHECK_DEADLOCK FALSE
