\* Evaluation then scoring, every weight non-zero.
CONSTANTS
    Root <- MCRoot
    Rules <- MCRules
    Groups <- MCGroups
    Values <- MCValues
    Content <- MCContent
    DefaultSelected <- MCDefaultSelected
    Engines <- MCEngines
    ValueIds <- MCValueIds
    ValueInstances <- MCValueInstances
    RuleChecks <- MCRuleChecks
    RuleComplexChecks <- MCRuleComplexChecks
    NoName <- MCNoName
    NoSelector <- MCNoSelector
    NoNames = NoNames
    NoCheck = NoCheck
    Profiles <- MCSelectionScoreProfiles
    PlatformItems <- MCPlatformItems
    HookReturns <- MCCancelHookReturns
    EngineResults <- MCScoreEngineResults
    NameLists <- MCNameLists
    UninitValues <- MCUninitValues
    Weight <- MCWeights
    ScoringSystems <- MCScoringSystems

SPECIFICATION ScoreSpec

INVARIANTS
    ScoreTypeOK
    ScoreMatchesSpec
    AllPassScoresMax
    GateOutcome
    EveryRuleReported
