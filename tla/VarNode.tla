------------------------------ MODULE VarNode ------------------------------
(***************************************************************************)
(* One Cloud Variable as a tree: the nodes of a declaration, what a call   *)
(* finds at one node, and the conversion of JSON numbers (the leaf         *)
(* routines of src/src/cloudvar/, without the recursion that joins them).  *)
(*                                                                         *)
(* A place is a position in the tree: the variable itself, a struct's      *)
(* field, an array's index. Places exist whether declared or not, so that  *)
(* a value may name a field or an index the variable does not have.        *)
(***************************************************************************)
EXTENDS Integers, Sequences, FiniteSets

CONSTANTS
    Place, Root,
    Above,      \* Above[p]: the place that contains p; NoPlace for Root
    Index,      \* Index[p]: the index of a place in an array
    Datum,      \* data, numbers being counted in parts of 1/Unit
    Unit,
    Step32,     \* the distance of neighbouring float32 values, in the same parts
    Bits,       \* the width of each integer datatype
    NoPlace, NoNode, NoValue

Signed == {"int8", "int16", "int32"}
Unsigned == {"uint8", "uint16", "uint32"}
\* No value and no reader can be made for void and datetime, only variables.
Basic == Signed \cup Unsigned \cup {"bool", "float32", "float64", "string", "void", "datetime"}
Composite == {"array", "struct"}
Direction == {"in", "out", "inout"}

\* What canopy_var_init and CANOPY_INIT_FIELD are given for one node: a declaration,
\* as libsddl parses it ("malformed": not at all), and options in their order.
\* A request has one for each place of a set of places.
NodeRequest ==
    [type : Basic \cup Composite \cup {"tuple", "malformed"}, dir : Direction,
     element : Basic, size : Nat,
     options : Seq([opt : {"FIELD", "DESCRIPTION", "other"}, field : Place \cup {NoPlace}])]

\* A field's init object comes with the FIELD option that names it.
IsRequest(req) ==
    /\ Root \in DOMAIN req /\ DOMAIN req \subseteq Place
    /\ \A p \in DOMAIN req : req[p] \in NodeRequest
    /\ \A p \in DOMAIN req : \A i \in DOMAIN req[p].options :
          req[p].options[i].opt = "FIELD" =>
             req[p].options[i].field \in {q \in DOMAIN req : Above[q] = p}
    /\ \A q \in DOMAIN req \ {Root} :
          /\ Above[q] \in DOMAIN req
          /\ \E i \in DOMAIN req[Above[q]].options :
                req[Above[q]].options[i].opt = "FIELD" /\ req[Above[q]].options[i].field = q

\* STCloudVar_t: datatype and concrete direction of one node.
Node == [type : Basic \cup Composite, dir : Direction]

\* The sets of places that have, with a place, the one that contains it.
Closed == {S \in SUBSET Place : \A p \in S \ {Root} : Above[p] \in S}

\* The place and the places that contain it.
Path == [p \in Place |-> {q \in Place : \A S \in Closed : p \in S => q \in S}]

\* Containment is a tree: Root contains all, no place contains itself, and nesting ends.
IsTree ==
    /\ \A p \in Place : Root \in Path[p]
    /\ \A p \in Place \ {Root} : p \notin Path[Above[p]]
    /\ \A S \in (SUBSET Place) \ {{}} : \E p \in S : \A q \in S : Above[q] # p

ASSUME VarNodeAssumption ==
    /\ Root \in Place /\ NoPlace \notin Place
    /\ Above \in [Place -> Place \cup {NoPlace}]
    /\ \A p \in Place : Above[p] = NoPlace <=> p = Root
    /\ IsTree
    /\ Index \in [Place -> Int]
    /\ Unit \in Nat \ {0} /\ Step32 \in Nat \ {0}
    /\ Bits \in [Signed \cup Unsigned -> Nat \ {0}]
    /\ Datum \subseteq Int
    /\ NoValue \notin Datum
    /\ NoNode \notin Node

Declared(tree) == {p \in Place : tree[p] # NoNode}
IsLeaf(tree, p) == tree[p].type \in Basic

\* st_cloudvar_has_value: a composite always has one.
HasValue(tree, value, p) == IsLeaf(tree, p) => value[p] # NoValue

\* st_cloudvar_generic_new, for a request without faults: the elements of an array
\* are made from the array's own options.
Built(req) ==
    LET IsElement(p) == /\ Above[p] \in DOMAIN req
                        /\ req[Above[p]].type = "array"
                        /\ Index[p] \in 0..(req[Above[p]].size - 1)
    IN  [p \in Place |->
           IF p \in DOMAIN req THEN [type |-> req[p].type, dir |-> req[p].dir]
           ELSE IF IsElement(p)
           THEN [type |-> req[Above[p]].element, dir |-> req[Above[p]].dir]
           ELSE NoNode]

-----------------------------------------------------------------------------
(* Values and readers: an item for the root and for each place that a      *)
(* struct's or an array's hash names.                                      *)

Assembled(items) ==
    /\ Root \in DOMAIN items /\ DOMAIN items \subseteq Place
    /\ \A p \in DOMAIN items \ {Root} :
          Above[p] \in DOMAIN items /\ items[Above[p]].type \in Composite

\* st_cloudvar_value_<datatype>: a basic value has a datum.
IsCanopyVarValue(items) ==
    /\ Assembled(items)
    /\ \A p \in DOMAIN items : items[p].data \in Datum <=> items[p].type \in Basic

\* st_cloudvar_reader_<datatype>: a basic reader has a place to put one.
IsCanopyVarReader(items) ==
    Assembled(items) /\ \A p \in DOMAIN items : items[p].data = NoValue

-----------------------------------------------------------------------------
(* What a call finds at place p. Its parent was found in order before.     *)

\* An index that is out of bounds and a name that is no field are told apart.
Missing(tree, p) ==
    IF p # Root /\ tree[Above[p]] # NoNode /\ tree[Above[p]].type = "array"
    THEN "ARRAY_INDEX_OUT_OF_BOUNDS"
    ELSE "VARIABLE_NOT_INITIALIZED"

SetVerdict_LeavesOnly(tree, value, arg, p) ==
    IF tree[p] = NoNode THEN Missing(tree, p)
    ELSE IF tree[p].dir = "in" /\ IsLeaf(tree, p) THEN "CANNOT_MODIFY_INPUT_VARIABLE"
    ELSE IF IsLeaf(tree, p) /\ arg[p].type # tree[p].type THEN "INCORRECT_DATATYPE"
    ELSE "SUCCESS"

SetVerdict_AnyDatatype(tree, value, arg, p) ==
    IF tree[p] = NoNode THEN Missing(tree, p)
    ELSE IF tree[p].dir = "in" THEN "CANNOT_MODIFY_INPUT_VARIABLE"
    ELSE "SUCCESS"

\* st_cloudvar_generic_set: arrays and structs look at their direction, too, and
\* not at the datatype of the value (see Fitting).
SetVerdict(tree, value, arg, p) ==
    IF tree[p] = NoNode THEN Missing(tree, p)
    ELSE IF tree[p].dir = "in" THEN "CANNOT_MODIFY_INPUT_VARIABLE"
    ELSE IF IsLeaf(tree, p) /\ arg[p].type # tree[p].type THEN "INCORRECT_DATATYPE"
    ELSE "SUCCESS"

ReadVerdict_AnyValue(tree, value, arg, p) ==
    IF tree[p] = NoNode THEN Missing(tree, p)
    ELSE IF arg[p].type # tree[p].type THEN "INCORRECT_DATATYPE"
    ELSE "SUCCESS"

\* st_cloudvar_read_var: every direction can be read.
ReadVerdict(tree, value, arg, p) ==
    IF tree[p] = NoNode THEN Missing(tree, p)
    ELSE IF arg[p].type # tree[p].type THEN "INCORRECT_DATATYPE"
    ELSE IF ~HasValue(tree, value, p) THEN "VARIABLE_NOT_SET"
    ELSE "SUCCESS"

\* Contract of the caller of canopy_var_set: an array (struct) variable gets an
\* array (struct) value; the code walks that value's hash without looking.
Fitting(tree, arg) ==
    \A p \in DOMAIN arg : tree[p] # NoNode /\ ~IsLeaf(tree, p) => arg[p].type = tree[p].type

-----------------------------------------------------------------------------
(* JSON numbers                                                            *)

Lowest(t) == IF t \in Signed THEN -(2 ^ (Bits[t] - 1)) ELSE 0
Highest(t) == IF t \in Signed THEN 2 ^ (Bits[t] - 1) - 1 ELSE 2 ^ Bits[t] - 1

\* So they are; the provers know nothing of ^.
ASSUME RangeAssumption ==
    \A t \in Signed \cup Unsigned : Lowest(t) \in Int /\ Highest(t) \in Int

IntegersOf(t) == {Unit * i : i \in Lowest(t)..Highest(t)}

\* The data that a variable of the C type can have.
HeldBy(t) ==
    IF t \in Signed \cup Unsigned THEN IntegersOf(t)
    ELSE IF t = "float32" THEN {x \in Int : x % Step32 = 0} ELSE Int

\* The whole number that the C cast leaves of x.
Truncated(x) == IF x < 0 THEN -((-x) \div Unit) ELSE x \div Unit

\* A cast to a type that cannot hold the number is undefined: it may leave any
\* value of the type.
ToInteger(t, x) ==
    IF Truncated(x) \in Lowest(t)..Highest(t)
    THEN {Unit * Truncated(x)}
    ELSE IntegersOf(t)

\* The nearest of the multiples of Step32.
ToFloat32(x) ==
    {m \in {x - d : d \in (-Step32)..Step32} :
        m % Step32 = 0 /\ \A d \in (-Step32)..Step32 :
            (x - d) % Step32 = 0 => (x - m) * (x - m) <= d * d}

ConvertNumber_ViaSigned(t, x) ==
    IF t \in Signed THEN ToInteger(t, x)
    ELSE IF t \in Unsigned
    THEN LET s == CHOOSE s \in Signed : Bits[s] = Bits[t] IN ToInteger(s, x)
    ELSE IF t = "float32" THEN ToFloat32(x) ELSE {x}

\* st_cloudvar_basic_update_from_json: what the datum of an item may become.
ConvertNumber(t, x) ==
    IF t \in Signed \cup Unsigned THEN ToInteger(t, x)
    ELSE IF t = "float32" THEN ToFloat32(x) ELSE {x}

JsonKind(t) ==
    CASE t = "bool" -> "boolean"
      [] t = "string" -> "string"
      [] t \in Composite -> "object"
      [] t \in {"void", "datetime"} -> "none"
      [] OTHER -> "number"
=============================================================================
