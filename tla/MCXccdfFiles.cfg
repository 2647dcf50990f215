CONSTANTS
    Root <- MCRoot
    Rules <- MCRules
    Groups <- MCGroups
    Values <- MCValues
    Content <- MCContent
    DefaultSelected <- MCDefaultSelected
    CheckChoices <- MCCheckChoices
    Systems <- MCSystems
    Hrefs <- MCHrefs

SPECIFICATION FilesSpec

INVARIANTS
    FilesTypeOK
    SystemsAndFilesMatchSpec
    FilesMatchSpec
