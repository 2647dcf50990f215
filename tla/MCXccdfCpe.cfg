\* Applicability and the session cache with every file next to its dictionary.
CONSTANTS
    Root <- MCRoot
    Rules <- MCRules
    Groups <- MCGroups
    Values = {}
    Content <- MCContent
    DefaultSelected <- MCDefaultSelected
    Platforms <- MCPlatforms
    CpeNames <- MCCpeNames
    PlatformIds <- MCPlatformIds
    Dicts <- MCDictsHere
    LangModels <- MCLangModels
    EmbeddedDict = "DE"
    EmbeddedLangModel = "LE"
    NoSource = NoSource
    OvalFiles <- MCFilesHere
    Defs <- MCDefs
    MaxCalls = 3
    MaxSources = 1

SPECIFICATION Spec

\* xccdf_policy_model_free ends the model's life; nothing follows it.
CHECK_DEADLOCK FALSE

INVARIANTS
    TypeOK
    ApplicabilityMatchesSpec
    ImportOncePerKey
