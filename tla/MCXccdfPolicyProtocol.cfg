\* Hook and check protocol: every hook return and engine answer.
CONSTANTS
    Root <- MCRoot
    Rules <- MCRules
    Groups <- MCGroups
    Values <- MCValues
    Content <- MCContent
    DefaultSelected <- MCDefaultSelected
    Engines <- MCEngines
    ValueIds <- MCValueIds
    ValueInstances <- MCValueInstances
    RuleChecks <- MCRuleChecks
    RuleComplexChecks <- MCRuleComplexChecks
    NoName <- MCNoName
    NoSelector <- MCNoSelector
    NoNames = NoNames
    NoCheck = NoCheck
    Profiles <- MCProtocolProfiles
    PlatformItems <- MCPlatformItems
    HookReturns <- MCHookReturns
    EngineResults <- MCEngineResults
    NameLists <- MCNameLists
    UninitValues <- MCUninitValues

SPECIFICATION Spec

\* The evaluation returns; the final state has no successor.
CHECK_DEADLOCK FALSE

INVARIANTS
    TypeOK
    NoHookAfterCancel
    StartPrecedesOutput

PROPERTIES
    EvaluationRefined
