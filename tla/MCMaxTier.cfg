CONSTANTS
    Tools <- MCTools
    Groups <- MCGroups
    Labels <- MCLabels
    Under <- MCUnder
    ViewSets <- MCViewSets
    VersionSegments <- MCVersionSegments
    ToolName <- MCToolName
    Declared <- MCDeclared
    Bundles <- MCBundles
    Shadows = {}
    ManyTools = 2
    Configurations <- MCConfigurations
SPECIFICATION Spec
CHECK_DEADLOCK FALSE
INVARIANT OneNormalisation
