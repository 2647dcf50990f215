CONSTANTS
    Root <- MCRoot
    Rules <- MCRules
    Groups <- MCGroups
    Values <- MCValues
    Content <- MCContent
    DefaultSelected <- MCDefaultSelected
    ItemAttrs <- MCItemAttrs
    ValueDefs <- MCValueDefs
    PlainTexts <- MCPlainTexts
    Opers <- MCOpers
    ProfileLists <- MCProfileLists
    LookupIds <- MCLookupIds
    SubstIds <- MCSubstIds
    NoProfile = NoProfile
    NoId = NoId
    NoSelector = NoSelector
    Undefined = Undefined
    NullRet = NullRet
    Marker = Marker
    Crash = Crash
    NoOper = NoOper

SPECIFICATION TailorSpec

\* A substitution or tailoring that dereferences NULL ends the process: no
\* call follows it.
CHECK_DEADLOCK FALSE

INVARIANTS
    TailorTypeOK
    BindingValueMatchesSpec
    CrashCauses
    PolicyLookupMatchesModel
