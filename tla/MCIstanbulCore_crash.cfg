\* v4 is crashed (sends nothing); two sequences, rounds 0 and 1.
\* Behaviours end at the bounds MaxSeq and MaxRound (CHECK_DEADLOCK below).
CONSTANTS
    v1 = v1  v2 = v2  v3 = v3  v4 = v4
    p1 = p1  p2 = p2  p3 = p3
    None = None
    ValList <- MCValList
    Policy = 0
    Faulty = {v4}
    Values = {p1, p2}
    Invalid = {}
    MaxSeq = 2
    MaxRound = 1
    MaxFaultyMsgs = 0
SYMMETRY MCSymmetry
SPECIFICATION Spec
INVARIANT TypeOK
PROPERTY ChainRefinement
CHECK_DEADLOCK FALSE
