------------------------------ MODULE AbiType ------------------------------
(***************************************************************************)
(* accounts/abi/type.go: NewType, the parser of ABI type names such as     *)
(* "uint", "bytes32[]" or "address[2]", and the recursion of Type.pack    *)
(* over the parsed structure.                                              *)
(*                                                                         *)
(* A type name is abstracted from its characters to the pieces the two    *)
(* regular expressions of the code pick apart: a Text is a record with    *)
(* the letters of the base name (possibly ""), its size suffix (<<>> for  *)
(* none, <<n>> for the digits n, <<n, m>> for "NxM") and the sequence of  *)
(* bracket suffixes, each SliceDim for "[]" or a number n for "[n]".      *)
(* Text values also stand for the stringKind the code builds by           *)
(* concatenation.                                                          *)
(***************************************************************************)
EXTENDS Integers, Sequences

CONSTANTS
    SliceDim,   \* the suffix "[]"
    NoDim       \* no bracket suffix matched

(* The byte constants T of type.go, in their iota order.                    *)
IntTy == 0
UintTy == 1
BoolTy == 2
StringTy == 3
SliceTy == 4
AddressTy == 5
FixedBytesTy == 6
BytesTy == 7
HashTy == 8
FixedPointTy == 9
FunctionTy == 10

Text(name, size, dims) == [name |-> name, size |-> size, dims |-> dims]

(* The zero Type{}: its stringKind is the empty string; elem is <<>> for a  *)
(* nil Elem pointer and <<e>> for a pointer to e.                           *)
ZeroType == [isSlice |-> FALSE, isArray |-> FALSE, sliceSize |-> 0,
             elem |-> <<>>, size |-> 0, T |-> IntTy, str |-> Text("", <<>>, <<>>)]

(* NewType's result: a type and no error, an error, or a run-time panic.   *)
Ok(typ)   == [typ |-> typ, err |-> "none"]
Fail(err) == [typ |-> ZeroType, err |-> err]

(***************************************************************************)
(* typeRegex "([a-zA-Z]+)(([0-9]+)(x([0-9]+))?)?" applied to res[1], the   *)
(* first alphanumeric run of the input: the letters become varType and    *)
(* group 2 the digits for Atoi, which fails on "NxM".  Without a base name *)
(* res[1] has no letter and the match is nil, so indexing it panics; the   *)
(* exception is "NxM", where "x" followed by M is matched as the name.     *)
(* (Without a name, fullTypeRegex itself may also find nothing, which      *)
(* panics at line 75 instead; the outcome is the same.)                    *)
(***************************************************************************)
NoMatch == [varType |-> "", digits |-> <<>>]
TypeMatch(t) ==
    CASE t.name # ""                      -> [varType |-> t.name, digits |-> t.size]
      [] Len(t.size) = 2                  -> [varType |-> "x", digits |-> <<t.size[2]>>]
      [] OTHER                            -> NoMatch

(***************************************************************************)
(* The tail of NewType, from the typeRegex match on: read the size, make   *)
(* "int" and "uint" 256 bits wide (appending "256" to the name), keep the  *)
(* text as stringKind unless the type is an array or slice, and fill in    *)
(* the kind from the base name.  `uint8` is the element type "bytes" and   *)
(* "function" carry.                                                       *)
(***************************************************************************)
ParseBase(typ, t, uint8) ==
    LET m       == TypeMatch(t)
        varSize == IF m.digits = <<>> THEN 0 ELSE m.digits[1]
        canon   == IF varSize = 0 /\ m.varType \in {"int", "uint"}
                      THEN [t EXCEPT !.size = <<256>>] ELSE t
        size    == IF varSize = 0 /\ m.varType \in {"int", "uint"} THEN 256 ELSE varSize
        typ1    == IF typ.isArray \/ typ.isSlice THEN typ ELSE [typ EXCEPT !.str = canon]
    IN CASE m = NoMatch                     -> Fail("panic")
         [] Len(m.digits) = 2               -> Fail("error")   \* Atoi("NxM")
         [] m.varType \in {"int", "uint"}   ->
                Ok([typ1 EXCEPT !.size = size,
                                !.T = IF m.varType = "int" THEN IntTy ELSE UintTy])
         [] m.varType = "bool"              -> Ok([typ1 EXCEPT !.T = BoolTy])
         [] m.varType = "address"           -> Ok([typ1 EXCEPT !.size = 20, !.T = AddressTy])
         [] m.varType = "string"            -> Ok([typ1 EXCEPT !.size = -1, !.T = StringTy])
         [] m.varType = "bytes" /\ size = 0 ->
                Ok([typ1 EXCEPT !.elem = <<uint8>>, !.isSlice = TRUE,
                                !.T = BytesTy, !.sliceSize = -1])
         [] m.varType = "bytes"             ->
                Ok([typ1 EXCEPT !.elem = <<uint8>>, !.isArray = TRUE,
                                !.T = FixedBytesTy, !.sliceSize = size])
         [] m.varType = "function"          ->
                Ok([typ1 EXCEPT !.elem = <<uint8>>, !.isArray = TRUE,
                                !.T = FunctionTy, !.sliceSize = 24])
         [] OTHER                           -> Fail("error")   \* unsupported arg type

(* The element type of "bytes", "bytesN" and "function": NewType("uint8").  *)
Uint8 == ParseBase(ZeroType, Text("uint", <<8>>, <<>>), ZeroType).typ

(***************************************************************************)
(* NewType(t).  fullTypeRegex (an alphanumeric run, then an optional     *)
(* bracket with optional digits) is used for its first match only: res[1] *)
(* is the base name with its size (`word`), and res[2], res[3] the FIRST   *)
(* bracket suffix (`dim`).  For an array or slice the element type is     *)
(* NewType(res[1]), and stringKind is its stringKind followed by all of t  *)
(* after res[1], i.e. every bracket suffix.  An element that is itself an *)
(* array or slice ("bytes", "bytesN", "function") ends the parse;          *)
(* otherwise the base name's kind and size are parsed into the array type *)
(* too.  res[0] = "" is never reached: a failed match panics first.        *)
(***************************************************************************)
RECURSIVE NewType(_)

(* A parse that forgets the early return for array elements, so that the   *)
(* element's kind is parsed again into the enclosing array.                 *)
NewTypeNoEarlyReturn(t) ==
    LET word == [t EXCEPT !.dims = <<>>]
        dim  == IF t.dims = <<>> THEN NoDim ELSE Head(t.dims)
        typ0 == [ZeroType EXCEPT !.isArray   = dim \in Nat,
                                 !.isSlice   = (dim = SliceDim),
                                 !.sliceSize = CASE dim \in Nat    -> dim
                                                 [] dim = SliceDim -> -1
                                                 [] OTHER          -> 0]
    IN IF dim = NoDim
          THEN ParseBase(typ0, word, Uint8)
          ELSE LET sub  == NewType(word)
                   typ1 == [typ0 EXCEPT !.elem = <<sub.typ>>,
                                        !.str  = [sub.typ.str EXCEPT !.dims = t.dims]]
               IN IF sub.err # "none" THEN sub ELSE ParseBase(typ1, word, Uint8)

NewType(t) ==
    LET word == [t EXCEPT !.dims = <<>>]
        dim  == IF t.dims = <<>> THEN NoDim ELSE Head(t.dims)
        typ0 == [ZeroType EXCEPT !.isArray   = dim \in Nat,
                                 !.isSlice   = (dim = SliceDim),
                                 !.sliceSize = CASE dim \in Nat    -> dim
                                                 [] dim = SliceDim -> -1
                                                 [] OTHER          -> 0]
    IN IF dim = NoDim
          THEN ParseBase(typ0, word, Uint8)
          ELSE LET sub  == NewType(word)
                   typ1 == [typ0 EXCEPT !.elem = <<sub.typ>>,
                                        !.str  = [sub.typ.str EXCEPT !.dims = t.dims]]
               IN CASE sub.err # "none"                       -> sub
                    [] sub.typ.isArray \/ sub.typ.isSlice     -> Ok(typ1)
                    [] OTHER                                  -> ParseBase(typ1, word, Uint8)

(* Type.String: the stringKind, from which event and method signatures are *)
(* derived.                                                                *)
String(typ) == typ.str

(***************************************************************************)
(* The structure Type.pack walks: a slice or array other than bytes,       *)
(* bytesN and function is packed element by element with Elem.pack (and    *)
(* length-prefixed if a slice); anything else is packed as one element.   *)
(* Shape lists the dimensions pack recurses through, outermost first,      *)
(* ending with the kind, size and width of the element it packs.           *)
(***************************************************************************)
Composite(typ) ==
    /\ typ.isSlice \/ typ.isArray
    /\ typ.T \notin {BytesTy, FixedBytesTy, FunctionTy}

RECURSIVE Shape(_)
Shape(typ) ==
    IF Composite(typ)
       THEN <<[slice |-> typ.isSlice, len |-> typ.sliceSize]>> \o Shape(typ.elem[1])
       ELSE <<[T |-> typ.T, size |-> typ.size, len |-> typ.sliceSize]>>
(* requiresLengthPrefix: the type is encoded in the dynamic part, behind  *)
(* an offset and a length: strings, bytes and slices, but not bytesN.      *)
requiresLengthPrefix(typ) ==
    /\ typ.T # FixedBytesTy
    /\ typ.T \in {StringTy, BytesTy} \/ typ.isSlice
====
