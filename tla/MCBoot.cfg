CONSTANTS
    Tools <- MCTools
    Groups <- MCGroups
    Labels <- MCLabels
    Under <- MCUnder
    ViewSets <- MCViewSets
    VersionSegments <- MCVersionSegments
    ToolName <- MCToolName
    Declared <- MCDeclared
    Bundles <- MCBundles
    Shadows = {}
    ManyTools = 2
    Configurations <- MCConfigurations
SPECIFICATION Spec
CHECK_DEADLOCK FALSE
INVARIANTS
    EveryMountAnswers
    NoUnfilteredMount
    AnonymousIsBounded
    CeilingsHold
    ChallengeLeadsBack
    ScanIsFaithful
    EntryFindingsHold
    DiscoverabilityIsDecided
    StrictIsAGate
    SilenceMeansDiscoverable
