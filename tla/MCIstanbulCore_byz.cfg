\* v4 is Byzantine and the proposer of round 0: it may equivocate, or send
\* conflicting Prepares, Commits or RoundChanges (three messages in all).
\* One sequence, rounds 0 and 1 (round 1 has a correct proposer, v1).
CONSTANTS
    v1 = v1  v2 = v2  v3 = v3  v4 = v4
    p1 = p1  p2 = p2  p3 = p3
    None = None
    ValList <- MCValListByz
    Policy = 0
    Faulty = {v4}
    Values = {p1, p2, p3}
    Invalid = {p3}
    MaxSeq = 1
    MaxRound = 1
    MaxFaultyMsgs = 3
SYMMETRY MCSymmetry
SPECIFICATION Spec
PROPERTY ChainRefinement
\* Behaviours end at the bounds MaxSeq and MaxRound.
CHECK_DEADLOCK FALSE
