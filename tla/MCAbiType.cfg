\* Base names (one unsupported, and none), all kinds of size suffix, and
\* at most one bracket suffix.
CONSTANTS
    SliceDim = SliceDim
    NoDim = NoDim
    Names = {"int", "uint", "bool", "address", "string", "bytes", "function", "fixed", ""}
    Sizes <- MCSizes
    Dims = {SliceDim, 2, 3}
    MaxDims = 1
INIT Init
NEXT Next
INVARIANT ShapeMatchesReference
