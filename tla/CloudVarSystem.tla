--------------------------- MODULE CloudVarSystem ---------------------------
(***************************************************************************)
(* The Cloud Variables of one CanopyContext: what the application has      *)
(* declared, the value of every variable, and the two levels of dirtiness  *)
(* that decide what the next canopy_sync() reports (src/src/cloudvar/ and  *)
(* the canopy_var_* entry points of src/src/canopy.c).                     *)
(*                                                                         *)
(* A variable's value is kept per leaf: a basic variable has the one leaf  *)
(* Self, an array a leaf per index, a struct a leaf per field.             *)
(***************************************************************************)
EXTENDS Integers, Sequences, FiniteSets

CONSTANTS
    Name,       \* names of top-level Cloud Variables
    Field,      \* leaf names: struct fields, array indices, and Self
    Self,       \* the leaf of a basic variable
    Decl,       \* the parsed declarations the application may pass to canopy_var_init
    Handle,     \* the CanopyVarValue objects the application creates
    Watched,    \* the variables the application registers a callback on
    Content,    \* what each CanopyVarValue object holds
    Datum,      \* the abstract data of a leaf
    Cast,       \* Cast[<<t, x>>]: the C conversion of the JSON datum x to datatype t
    NoDecl, NoLeaf, NoValue

\* CanopyDatatypeEnum: no CanopyVarValue can be made for void and datetime.
ValueDatatype == {"bool", "int8", "int16", "int32", "uint8", "uint16", "uint32",
                  "float32", "float64", "string"}
Datatype == ValueDatatype \cup {"void", "datetime"}
Direction == {"in", "out", "inout"}
Kind == {"basic", "array", "struct", "tuple"}
JsonKind == {"boolean", "number", "string", "object"}

LeafDecl == [dir : Direction, type : Datatype]
DeclType == [name : Name, dir : Direction, kind : Kind,
             leaf : [Field -> LeafDecl \cup {NoLeaf}]]
ContentType == [kind : Kind,
                leaf : [Field -> [type : ValueDatatype, data : Datum] \cup {NoValue}]]
JsonItem == [kind : JsonKind, data : Datum]
\* A variable's value, and the "vars" object of a payload in each direction:
\* NoValue stands for a variable it does not mention.
VarValue == [Field -> Datum \cup {NoValue}]
OutVars == [Name -> VarValue \cup {NoValue}]
InVars  == [Name -> JsonItem \cup {NoValue}]

ASSUME StoreAssumption ==
    /\ Self \in Field
    /\ Watched \subseteq Name
    /\ NoDecl \notin DeclType
    /\ NoLeaf \notin LeafDecl
    /\ NoValue \notin Datum \cup JsonItem \cup VarValue
    /\ NoValue \notin [type : ValueDatatype, data : Datum]
    /\ Decl \subseteq DeclType
    /\ Content \in [Handle -> ContentType]
    /\ Cast \in [Datatype \X Datum -> Datum]
    /\ \A d \in Decl : d.kind = "basic" =>
          /\ d.leaf[Self] \in [dir : {d.dir}, type : Datatype]
          /\ \A f \in Field \ {Self} : d.leaf[f] = NoLeaf
    /\ \A h \in Handle : Content[h].kind = "basic" =>
          {f \in Field : Content[h].leaf[f] # NoValue} = {Self}

VARIABLES
    decl,       \* sys->vars: the declaration of each initialized variable
    value,      \* basic_value of every leaf
    sddlDirty,  \* the variables whose sddl_dirty_flag is set
    dirtyVars,  \* sys->dirty_vars
    dirty,      \* sys->dirty
    callbacks,  \* sys->callbacks: the variables with an on-change callback
    used,       \* the CanopyVarValue objects whose "used" flag is set
    result,     \* what the last API call returned ("none" while one runs)
    agreed,     \* history: the value of each variable that last crossed the wire
    sddlSent    \* history: the variables whose declaration has been sent

storeVars == <<decl, value, sddlDirty, dirtyVars, dirty, callbacks,
               used, result, agreed, sddlSent>>

Results == {"none", "SUCCESS", "UNKNOWN", "VARIABLE_NOT_INITIALIZED",
            "VARIABLE_ALREADY_INITIALIZED", "CANNOT_MODIFY_INPUT_VARIABLE",
            "INCORRECT_DATATYPE", "ARRAY_INDEX_OUT_OF_BOUNDS",
            "SINGLE_USE_VALUE_ALREADY_USED", "MISSING_REQUIRED_OPTION",
            "PROTOCOL_NOT_SUPPORTED", "CONNECTION_FAILED"}

Unset == [f \in Field |-> NoValue]
Initialized == {n \in Name : decl[n] # NoDecl}

\* st_cloudvar_system_new: nothing is declared, yet sys->dirty starts true.
StoreInit ==
    /\ decl = [n \in Name |-> NoDecl]
    /\ value = [n \in Name |-> Unset]
    /\ sddlDirty = {} /\ dirtyVars = {} /\ dirty = TRUE
    /\ callbacks = {} /\ used = {}
    /\ result = "none"
    /\ agreed = [n \in Name |-> Unset]
    /\ sddlSent = {}

-----------------------------------------------------------------------------
(* Dirty bookkeeping *)

\* st_cloudvar_system_mark_dirty
MarkDirty(n) ==
    /\ dirtyVars' = dirtyVars \cup {n}
    /\ dirty' = TRUE

ClearDirty_FlagOnly == dirty' = FALSE /\ UNCHANGED dirtyVars

\* st_cloudvar_system_clear_dirty
ClearDirty ==
    /\ dirty' = FALSE
    /\ dirtyVars' = {}

-----------------------------------------------------------------------------
(* Declaring variables *)

\* Calls that return without touching the variables.
Refuse(r) ==
    /\ result' = r
    /\ UNCHANGED <<decl, value, sddlDirty, dirtyVars, dirty, callbacks,
                   used, agreed, sddlSent>>

\* canopy_var_init: the declaration is new and its datatype can be built.
InitVar(d) ==
    /\ decl[d.name] = NoDecl
    /\ d.kind # "tuple"
    /\ decl' = [decl EXCEPT ![d.name] = d]
    /\ MarkDirty(d.name)
    /\ sddlDirty' = sddlDirty \cup {d.name}
    /\ result' = "SUCCESS"
    /\ UNCHANGED <<value, callbacks, used, agreed, sddlSent>>

InitVarAgain(d) ==
    /\ decl[d.name] # NoDecl
    /\ Refuse("VARIABLE_ALREADY_INITIALIZED")

InitVarTuple(d) ==
    /\ decl[d.name] = NoDecl
    /\ d.kind = "tuple"
    /\ Refuse("UNKNOWN")

-----------------------------------------------------------------------------
(* Setting variables *)

Given(c) == {f \in Field : c.leaf[f] # NoValue}

LeafResult_NoDirection(d, c, f) ==
    CASE d.leaf[f] = NoLeaf -> "VARIABLE_NOT_INITIALIZED"
      [] d.leaf[f] # NoLeaf /\ d.leaf[f].type # c.leaf[f].type -> "INCORRECT_DATATYPE"
      [] OTHER -> "SUCCESS"

\* What st_cloudvar_generic_set answers for the one leaf f of variable d.
LeafResult(d, c, f) ==
    CASE d.leaf[f] = NoLeaf /\ d.kind = "array" -> "ARRAY_INDEX_OUT_OF_BOUNDS"
      [] d.leaf[f] = NoLeaf /\ d.kind # "array" -> "VARIABLE_NOT_INITIALIZED"
      [] d.leaf[f] # NoLeaf /\ d.leaf[f].dir = "in" -> "CANNOT_MODIFY_INPUT_VARIABLE"
      [] d.leaf[f] # NoLeaf /\ d.leaf[f].dir # "in" /\ d.leaf[f].type # c.leaf[f].type
            -> "INCORRECT_DATATYPE"
      [] OTHER -> "SUCCESS"

\* The value's leaves are assigned in hash order and the first that fails ends
\* the loop: whatever came before it in that order stays assigned.
SetOutcomes(d, c) ==
    LET good == {f \in Given(c) : LeafResult(d, c, f) = "SUCCESS"}
        bad  == Given(c) \ good
    IN  IF d.kind = "basic" /\ c.kind # "basic"
        THEN [assigned : {{}}, result : {"INCORRECT_DATATYPE"}]
        ELSE IF bad = {}
        THEN [assigned : {good}, result : {"SUCCESS"}]
        ELSE [assigned : SUBSET good, result : {LeafResult(d, c, f) : f \in bad}]

Assign(v, c, S) == [f \in Field |-> IF f \in S THEN c.leaf[f].data ELSE v[f]]

SetVar_MarkedOnSuccess(n, h) ==
    /\ h \notin used /\ decl[n] # NoDecl /\ decl[n].dir # "in"
    /\ decl[n].kind # "basic" => Content[h].kind = decl[n].kind
    /\ \E out \in SetOutcomes(decl[n], Content[h]) :
          /\ value' = [value EXCEPT ![n] = Assign(value[n], Content[h], out.assigned)]
          /\ result' = out.result
          /\ IF out.result = "SUCCESS" THEN MarkDirty(n) ELSE UNCHANGED <<dirtyVars, dirty>>
    /\ used' = used \cup {h}
    /\ UNCHANGED <<decl, sddlDirty, callbacks, agreed, sddlSent>>

\* st_cloudvar_set_var past its direction check: the variable is marked dirty
\* before the value is validated, then the value object counts as used.
\* Contract of the caller: a struct (array) variable gets a struct (array)
\* value; the code walks that value's hash without looking.
SetVar(n, h) ==
    LET d == decl[n]
        c == Content[h]
    IN  /\ h \notin used
        /\ d # NoDecl
        /\ d.dir # "in"
        /\ d.kind # "basic" => c.kind = d.kind
        /\ MarkDirty(n)
        /\ \E out \in SetOutcomes(d, c) :
              /\ value' = [value EXCEPT ![n] = Assign(value[n], c, out.assigned)]
              /\ result' = out.result
        /\ used' = used \cup {h}
        /\ UNCHANGED <<decl, sddlDirty, callbacks, agreed, sddlSent>>

SetVarUsed(h) ==
    /\ h \in used
    /\ Refuse("SINGLE_USE_VALUE_ALREADY_USED")

SetVarMissing_Marked(n, h) ==
    /\ h \notin used
    /\ decl[n] = NoDecl
    /\ MarkDirty(n)
    /\ result' = "VARIABLE_NOT_INITIALIZED"
    /\ UNCHANGED <<decl, value, sddlDirty, callbacks, used, agreed, sddlSent>>

SetVarMissing(n, h) ==
    /\ h \notin used
    /\ decl[n] = NoDecl
    /\ Refuse("VARIABLE_NOT_INITIALIZED")

\* The value object is used up by a set that is refused.
SetVarInput(n, h) ==
    /\ h \notin used
    /\ decl[n] # NoDecl
    /\ decl[n].dir = "in"
    /\ used' = used \cup {h}
    /\ result' = "CANNOT_MODIFY_INPUT_VARIABLE"
    /\ UNCHANGED <<decl, value, sddlDirty, dirtyVars, dirty, callbacks,
                   agreed, sddlSent>>

-----------------------------------------------------------------------------
(* On-change callbacks: registered, and looked up by no code path. *)

OnChange(n) ==
    /\ decl[n] # NoDecl
    /\ callbacks' = callbacks \cup {n}
    /\ result' = "SUCCESS"
    /\ UNCHANGED <<decl, value, sddlDirty, dirtyVars, dirty, used,
                   agreed, sddlSent>>

OnChangeMissing(n) ==
    /\ decl[n] = NoDecl
    /\ Refuse("VARIABLE_NOT_INITIALIZED")

-----------------------------------------------------------------------------
(* What a sync reads from and writes to the variables *)

\* st_cloudvar_has_value: a composite variable always "has a value".
HasValue(n) == decl[n].kind # "basic" \/ value[n][Self] # NoValue

\* The "vars" object of _gen_outbound_payload.
OutboundVars ==
    [n \in Name |-> IF n \in dirtyVars /\ HasValue(n) THEN value[n] ELSE NoValue]

\* No JSON value is accepted for void and datetime.
JsonKindOf(t) ==
    CASE t = "bool" -> "boolean" [] t = "string" -> "string"
      [] t \in {"void", "datetime"} -> "none"
      [] OTHER -> "number"

\* st_cloudvar_update_from_json accepts the item for variable n. Neither it nor
\* its caller looks at the variable's direction.
Accepts(n, item) ==
    /\ decl[n].kind = "basic"
    /\ item.kind = JsonKindOf(decl[n].leaf[Self].type)

\* The value an accepted item becomes.
Converted(n, item) == Cast[<<decl[n].leaf[Self].type, item.data>>]

\* The sets of variables that _process_payload may update: names without a
\* declaration are skipped; the first item that is not accepted ends the loop,
\* whose order is the JSON object's own.
Applicable(p) ==
    LET named == {n \in Initialized : p[n] # NoValue}
        good  == {n \in named : Accepts(n, p[n])}
    IN  IF good = named THEN {good} ELSE SUBSET good

\* _process_payload, which gets as far as the items for "applied".
ProcessPayload(p, applied) ==
    LET Update(n) == [value[n] EXCEPT ![Self] = Converted(n, p[n])]
    IN  /\ value'  = [n \in Name |-> IF n \in applied THEN Update(n) ELSE value[n]]
        /\ agreed' = [n \in Name |-> IF n \in applied THEN Update(n) ELSE agreed[n]]
        /\ UNCHANGED <<decl, sddlDirty, dirtyVars, dirty, callbacks,
                       used, result, sddlSent>>
=============================================================================
