\* A complex AND of three simple checks, some without content-refs.
CONSTANTS
    Engines <- MCEngines
    ValueIds = {}
    ValueInstances <- MCValueInstances
    RuleChecks <- MCRuleChecks
    RuleComplexChecks <- MCRuleChecks
    NoName = NoName
    NoSelector = NoSelector
    NoNames = NoNames
    NoCheck = NoCheck

SPECIFICATION Spec
INVARIANT
    AndWithFailingChildFails
