\* Two bracket suffixes: a nested array such as "int[2][3]" keeps only its
\* first dimension.
CONSTANTS
    SliceDim = SliceDim
    NoDim = NoDim
    Names = {"int", "uint", "bool", "address", "string", "bytes", "function", "fixed", ""}
    Sizes <- MCSizes
    Dims = {SliceDim, 2, 3}
    MaxDims = 2
INIT Init
NEXT Next
INVARIANT ShapeMatchesReference
