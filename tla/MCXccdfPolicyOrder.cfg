\* Section 5: rule results in Benchmark pre-order, over every small profile.
CONSTANTS
    Root <- MCRoot
    Rules <- MCRules
    Groups <- MCGroups
    Values <- MCValues
    Content <- MCContent
    DefaultSelected <- MCDefaultSelected
    Engines <- MCEngines
    ValueIds <- MCValueIds
    ValueInstances <- MCValueInstances
    RuleChecks <- MCRuleChecks
    RuleComplexChecks <- MCRuleComplexChecks
    NoName <- MCNoName
    NoSelector <- MCNoSelector
    NoNames = NoNames
    NoCheck = NoCheck
    Profiles <- MCSelectionProfiles
    PlatformItems <- MCPlatformItems
    HookReturns <- MCQuietHookReturns
    EngineResults <- MCPassingEngineResults
    NameLists <- MCNameLists
    UninitValues <- MCUninitValues

SPECIFICATION Spec

\* The evaluation returns; the final state has no successor.
CHECK_DEADLOCK FALSE

INVARIANT
    ResultsInBenchmarkOrder
