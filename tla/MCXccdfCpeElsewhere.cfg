\* Applicability with the external dictionary and its OVAL file in "dicts".
CONSTANTS
    Root <- MCRoot
    Rules <- MCRules
    Groups <- MCGroups
    Values = {}
    Content <- MCContent
    DefaultSelected <- MCDefaultSelected
    Platforms <- MCPlatforms
    CpeNames <- MCCpeNames
    PlatformIds <- MCPlatformIds
    Dicts <- MCDictsElsewhere
    LangModels <- MCLangModels
    EmbeddedDict = "DE"
    EmbeddedLangModel = "LE"
    NoSource = NoSource
    OvalFiles <- MCFilesElsewhere
    Defs <- MCDefs
    MaxCalls = 3
    MaxSources = 1

SPECIFICATION Spec

\* xccdf_policy_model_free ends the model's life; nothing follows it.
CHECK_DEADLOCK FALSE

INVARIANT
    ApplicabilityMatchesSpec
