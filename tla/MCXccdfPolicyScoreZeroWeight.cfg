\* Evaluation then scoring, with a rule of weight 0.
CONSTANTS
    Root <- MCRoot
    Rules <- MCRules
    Groups <- MCGroups
    Values <- MCValues
    Content <- MCContent
    DefaultSelected <- MCDefaultSelected
    Engines <- MCEngines
    ValueIds <- MCValueIds
    ValueInstances <- MCValueInstances
    RuleChecks <- MCRuleChecks
    RuleComplexChecks <- MCRuleComplexChecks
    NoName <- MCNoName
    NoSelector <- MCNoSelector
    NoNames = NoNames
    NoCheck = NoCheck
    Profiles <- MCScoreProfiles
    PlatformItems <- MCPlatformItems
    HookReturns <- MCCancelHookReturns
    EngineResults <- MCScoreEngineResults
    NameLists <- MCNameLists
    UninitValues <- MCUninitValues
    Weight <- MCZeroWeights
    ScoringSystems <- MCScoringSystems

SPECIFICATION ScoreSpec

INVARIANTS
    AllPassScoresMax
