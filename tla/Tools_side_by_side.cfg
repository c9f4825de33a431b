CONSTANTS
    Tools = {"imports", "stage-b", "finalize-b", "fold-element", "audit-narrowing", "convert-element-trace", "split-packages"}
    None = None
    Prefixes <- MCPrefixes
    HandMade <- MCHandMade
    Wrapper <- MCWrapper
    Stem <- MCStem
    NameRank <- MCNameRank
    WrapRank <- MCWrapRank
    Registry <- MCRegistry
    ProvidedBy <- MCProvidedBy
    Elements = {"e1", "e2"}
    ElementRank <- MCElementRank
    Paths = {".", "sub"}
    Root = "."
    Contents = {"b1", "b2"}
    Placeholder = "b1"
    OptionBodies = {"o1", "o2"}
    Absent = "absent"
    MaxBuilds = 3
    Projects <- MCProjects
    BundleNames = {"install"}
    FromRules = {"trace_load", "pipeline_install", "pick_file"}
    FoldInputs <- MCFoldInputs
    FlagOf <- MCFlagOf
    Flags <- MCFlags
    LabelRank <- MCLabelRank
    PlatformRank <- MCPlatformRank
    Default = "default"
    Unset = Unset
    SourceFiles <- MCSourceFiles
    Directory <- MCDirectory
    Pinned = {"far"}
    Bytes = {"v1", "v2"}
    Missing = "none"
    Globs <- MCGlobs
    RuleSets <- MCRuleSets
    Checkouts <- MCCheckouts
    MaxEdits = 2
    MaxTraces = 2
    TracedBuilds <- MCTracedBuilds
    LibraryName <- MCLibraryName
    LinkImports = {"z"}
    NotYet = NotYet
    Names <- MCNames
    LoweredPackages <- MCLowered
    CompiledNames = {"x.c"}
    NotSplit = NotSplit
SPECIFICATION ToolsSpec
INVARIANTS
    CyclesAreUnseen
    HarvestIsAccepted
    LabelsSurvive
    StagedAsConverted
    DeliveryLoads
    FoldedAsConverted
    CleanAuditMakesHitsSafe
    RecoveredAsBuilt
    RulesLoad
    SplitLoads
    IncludesSurvive
CHECK_DEADLOCK FALSE
