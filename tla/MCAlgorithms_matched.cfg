CONSTANTS
    None = None
    S = S
    MaxT = 3
    qa = qa
    qb = qb
    qc = qc
SPECIFICATION SpecMatched
INVARIANT OutputEdgesKept
CHECK_DEADLOCK FALSE
