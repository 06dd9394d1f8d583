\* Rosters of 1 to 7 validators, extra data of up to 5 bytes.
CONSTANTS
    MaxValidators = 7
    MaxExtraLen = 5
SPECIFICATION Spec
INVARIANT ExtractMatchesReference
