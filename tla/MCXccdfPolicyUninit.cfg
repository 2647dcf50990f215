\* r1's checks without content-refs: ret is read uninitialized.
CONSTANTS
    Root <- MCRoot
    Rules <- MCRules
    Groups <- MCGroups
    Values <- MCValues
    Content <- MCContent
    DefaultSelected <- MCDefaultSelected
    Engines <- MCEngines
    ValueIds <- MCValueIds
    ValueInstances <- MCValueInstances
    RuleChecks <- MCRuleChecksNoRefs
    RuleComplexChecks <- MCRuleComplexChecks
    NoName <- MCNoName
    NoSelector <- MCNoSelector
    NoNames = NoNames
    NoCheck = NoCheck
    Profiles <- MCProtocolProfiles
    PlatformItems <- MCPlatformItems
    HookReturns <- MCHookReturns
    EngineResults <- MCEngineResults
    NameLists <- MCNameLists
    UninitValues <- MCGarbageValues

SPECIFICATION Spec

\* The evaluation returns; the final state has no successor.
CHECK_DEADLOCK FALSE

INVARIANT
    ResultsAreResultKinds
