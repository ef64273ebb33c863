CONSTANTS
    None = None
    S = S
    MaxT = 3
    qa = qa
    qb = qb
    qc = qc
SYMMETRY RouterSymmetry
SPECIFICATION SpecAlgorithms
INVARIANTS
    CanonicalExact
    MatchesExact
    GroupsExact
    ApplicationDeltasAsInferred
    OutputsIndexed
    RoutesToSubscribers
    ClosureIdempotent
