\* Every name of MCAbiType.cfg: "bytes[2]", a fixed-length array of byte
\* strings, is dynamic, but its type does not ask for length prefixing.
CONSTANTS
    SliceDim = SliceDim
    NoDim = NoDim
    Names = {"int", "uint", "bool", "address", "string", "bytes", "function", "fixed", ""}
    Sizes <- MCSizes
    Dims = {SliceDim, 2, 3}
    MaxDims = 1
INIT Init
NEXT Next
INVARIANT PrefixMatchesReference
