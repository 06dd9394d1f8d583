\* Two correct validators and no faults: F = (2-1) div 3 = 0, quorum 2F+1 = 1.
\* One sequence, rounds 0 and 1.
CONSTANTS
    v1 = v1  v2 = v2  v3 = v3  v4 = v4
    p1 = p1  p2 = p2  p3 = p3
    None = None
    ValList <- MCValList2
    Policy = 0
    Faulty = {}
    Values = {p1, p2}
    Invalid = {}
    MaxSeq = 1
    MaxRound = 1
    MaxFaultyMsgs = 0
SPECIFICATION Spec
PROPERTY ChainRefinement
\* Behaviours end at the bounds MaxSeq and MaxRound.
CHECK_DEADLOCK FALSE
