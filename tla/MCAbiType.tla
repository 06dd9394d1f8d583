----------------------------- MODULE MCAbiType -----------------------------
(***************************************************************************)
(* Checks NewType against a reference reading of ABI type names, over     *)
(* every name built from a few base names, size suffixes and up to        *)
(* MaxDims bracket suffixes.  The variable `input` ranges over them, so    *)
(* that each input is one state.                                           *)
(***************************************************************************)
EXTENDS AbiType, FiniteSets

CONSTANTS
    Names,      \* base names, supported or not, and "" for none
    Sizes,      \* size suffixes: <<>>, <<n>>, <<n, m>>
    Dims,       \* bracket suffixes: SliceDim or a length
    MaxDims     \* the most bracket suffixes on one name

(* Size suffixes: none, "8", "32", "256", and "128x18".                     *)
MCSizes == {<<>>, <<8>>, <<32>>, <<256>>, <<128, 18>>}

DimSeqs == UNION {[1..k -> Dims] : k \in 0..MaxDims}
Inputs  == {Text(n, s, d) : n \in Names, s \in Sizes, d \in DimSeqs}

VARIABLE input

Init == input \in Inputs
Next == input' \in Inputs

(***************************************************************************)
(* The reference: the names a compiler emits, and what they denote.  In    *)
(* T[a][b] the LAST suffix is the outermost dimension (b arrays of T[a]).  *)
(***************************************************************************)
WellFormed(t) ==
    /\ \/ t.name \in {"int", "uint"} /\ t.size \in {<<>>} \cup {<<n>> : n \in {8, 16, 32, 64, 128, 256}}
       \/ t.name \in {"bool", "address", "string", "function"} /\ t.size = <<>>
       \/ t.name = "bytes" /\ (t.size = <<>> \/ (Len(t.size) = 1 /\ t.size[1] \in 1..32))
    /\ \A i \in DOMAIN t.dims : t.dims[i] = SliceDim \/ t.dims[i] \in Nat \ {0}

RefLeaf(t) ==
    LET n == IF t.size = <<>> THEN 0 ELSE t.size[1] IN
    CASE t.name = "int"               -> [T |-> IntTy, size |-> IF n = 0 THEN 256 ELSE n, len |-> 0]
      [] t.name = "uint"              -> [T |-> UintTy, size |-> IF n = 0 THEN 256 ELSE n, len |-> 0]
      [] t.name = "bool"              -> [T |-> BoolTy, size |-> 0, len |-> 0]
      [] t.name = "address"           -> [T |-> AddressTy, size |-> 20, len |-> 0]
      [] t.name = "string"            -> [T |-> StringTy, size |-> -1, len |-> 0]
      [] t.name = "bytes" /\ n = 0    -> [T |-> BytesTy, size |-> 0, len |-> -1]
      [] t.name = "bytes"             -> [T |-> FixedBytesTy, size |-> 0, len |-> n]
      [] t.name = "function"          -> [T |-> FunctionTy, size |-> 0, len |-> 24]

RECURSIVE RefShape(_)
RefShape(t) ==
    IF t.dims = <<>> THEN <<RefLeaf(t)>>
    ELSE LET d == t.dims[Len(t.dims)] IN
         <<[slice |-> d = SliceDim, len |-> IF d = SliceDim THEN -1 ELSE d]>>
            \o RefShape([t EXCEPT !.dims = SubSeq(t.dims, 1, Len(t.dims) - 1)])

(* The canonical spelling used in signatures: "int" and "uint" are        *)
(* written "int256" and "uint256".                                         *)
Canonical(t) ==
    IF t.name \in {"int", "uint"} /\ t.size = <<>> THEN [t EXCEPT !.size = <<256>>] ELSE t

(***************************************************************************)
(* NewType on every well-formed type name: it succeeds, Type.pack walks    *)
(* exactly the dimensions the name denotes, outermost first, down to the   *)
(* right element kind and width, and String() gives the canonical name     *)
(* (the text hashed into event and method IDs).                            *)
(***************************************************************************)
ShapeMatchesReference ==
    WellFormed(input) =>
        LET r == NewType(input) IN
        /\ r.err = "none"
        /\ Shape(r.typ) = RefShape(input)
        /\ String(r.typ) = Canonical(input)

(* The reference: a type is dynamic when it is string, bytes, a T[], or a  *)
(* T[k] of a dynamic T.                                                    *)
RECURSIVE RefDynamic(_)
RefDynamic(t) ==
    IF t.dims = <<>> THEN t.name \in {"string", "bytes"} /\ t.size = <<>>
    ELSE t.dims[Len(t.dims)] = SliceDim
         \/ RefDynamic([t EXCEPT !.dims = SubSeq(t.dims, 1, Len(t.dims) - 1)])

(***************************************************************************)
(* On every well-formed name, the parsed type asks for length prefixing   *)
(* (the dynamic encoding, behind an offset) exactly when the ABI makes the *)
(* type dynamic: a fixed-length array of strings or of byte strings is     *)
(* dynamic, as is any slice.                                               *)
(***************************************************************************)
PrefixMatchesReference ==
    WellFormed(input) =>
        LET r == NewType(input) IN
        r.err = "none" /\ requiresLengthPrefix(r.typ) = RefDynamic(input)
====
