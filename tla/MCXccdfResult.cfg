\* Every pair of kinds under AND and OR against the documented table.
SPECIFICATION Spec
INVARIANT
    ResolveAgreesWithComment
