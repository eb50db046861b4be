------------------------------ MODULE VarTree ------------------------------
(***************************************************************************)
(* The calls on one Cloud Variable as the code performs them: the          *)
(* recursive routines st_cloudvar_generic_set, _read_var and               *)
(* _value_to_json (st_cloudvar_common.c, _basic.c, _array.c, _struct.c)    *)
(* walk the tree node by node, in the order of a hash table, and return    *)
(* at the first node that fails. A step of the model is the work on one    *)
(* node. Nothing else runs in between: the library is single threaded.     *)
(***************************************************************************)
EXTENDS VarNode

CONSTANTS Request, Written, Reader, Item

ASSUME VarTreeAssumption ==
    /\ \A req \in Request : IsRequest(req)
    /\ \A items \in Written : IsCanopyVarValue(items)
    /\ \A items \in Reader : IsCanopyVarReader(items)
    \* JSON numbers are converted to data; the application's data are of their types.
    /\ \A item \in Item : \A t \in Basic : ConvertNumber(t, item.data) \subseteq Datum
    /\ \A item \in Item : item.data \in Datum
    /\ \A items \in Written : \A p \in DOMAIN items :
          items[p].type \in Basic => items[p].data \in HeldBy(items[p].type)

VARIABLES
    tree,       \* the nodes that exist: type and concrete direction
    value,      \* basic_value of every leaf
    dirty,      \* the variable is in sys->dirty_vars
    told,       \* history: the value that last crossed the wire
    dest,       \* what the readers of the last call point to
    json,       \* the JSON value under construction
    result,     \* what the last call returned
    op,         \* the recursion that is running
    arg,        \* the value or reader it walks: an item for each place it names
    at,         \* the node whose children it is looping over
    seen,       \* the places it is done with
    before      \* history: the variable when the call was made

callVars == <<op, arg, at, seen, before>>
vars == <<tree, value, dirty, told, dest, json, result, callVars>>

Nothing == [p \in Place |-> NoValue]
NoCall == <<>>

Init ==
    /\ tree = [p \in Place |-> NoNode]
    /\ value = Nothing /\ told = Nothing /\ dest = Nothing /\ json = Nothing
    /\ dirty = FALSE /\ result = "none"
    /\ op = "none" /\ arg = NoCall /\ at = NoPlace /\ seen = {} /\ before = NoCall

-----------------------------------------------------------------------------
(* Declaring                                                               *)

ParseAnswers == {"SUCCESS", "INVALID_OPT", "INVALID_VALUE", "BAD_VARIABLE_DECLARATION"}

\* What the option at index i for place p is answered, if the fields' init objects are
\* answered "parse": that of a field which failed is NULL.
OptionResult_SkipsNull(req, parse, p, i) ==
    CASE req[p].options[i].opt = "FIELD" ->
           IF req[p].type # "struct" THEN "INVALID_OPT" ELSE "SUCCESS"
      [] req[p].options[i].opt = "DESCRIPTION" -> "SUCCESS"
      [] OTHER -> "INVALID_OPT"

OptionResult(req, parse, p, i) ==
    CASE req[p].options[i].opt = "FIELD" ->
           IF req[p].type # "struct" THEN "INVALID_OPT"
           ELSE IF parse[req[p].options[i].field] # "SUCCESS" THEN "INVALID_VALUE"
           ELSE "SUCCESS"
      [] req[p].options[i].opt = "DESCRIPTION" -> "SUCCESS"
      [] OTHER -> "INVALID_OPT"

\* st_cloudvar_parse_init_options: the first option that is not right ends the loop.
IsParsed(req, parse, p) ==
    LET failing == {i \in DOMAIN req[p].options : OptionResult(req, parse, p, i) # "SUCCESS"}
    IN  IF req[p].type = "malformed" THEN parse[p] = "BAD_VARIABLE_DECLARATION"
        ELSE \/ failing = {} /\ parse[p] = "SUCCESS"
             \/ \E i \in failing : /\ \A j \in failing : i <= j
                                  /\ parse[p] = OptionResult(req, parse, p, i)

\* What the calls that make the init objects are answered, inside out.
Parses == [req \in Request |->
    {parse \in [DOMAIN req -> ParseAnswers] : \A p \in DOMAIN req : IsParsed(req, parse, p)}]

\* st_cloudvar_generic_new has no case for a tuple, at any depth.
NewResult(req) ==
    IF \E p \in DOMAIN req : req[p].type = "tuple" THEN "UNKNOWN" ELSE "SUCCESS"

NoneRuns == op = "none" /\ UNCHANGED callVars

\* st_cloudvar_init_var
Declare(req) ==
    /\ NoneRuns
    /\ \E parse \in Parses[req] :
          result' = IF parse[Root] # "SUCCESS" THEN parse[Root]
                    ELSE IF tree[Root] # NoNode THEN "VARIABLE_ALREADY_INITIALIZED"
                    ELSE NewResult(req)
    /\ IF result' = "SUCCESS"
       THEN tree' = Built(req) /\ dirty' = TRUE
       ELSE UNCHANGED <<tree, dirty>>
    /\ dest' = Nothing
    /\ UNCHANGED <<value, told, json>>

-----------------------------------------------------------------------------
(* The calls begin                                                         *)

\* Each call brings its own destinations; those of the last one are let go.
Call(name, items) ==
    /\ op = "none"
    /\ op' = name /\ arg' = items /\ at' = NoPlace /\ seen' = {}
    /\ before' = [value |-> value, dirty |-> dirty, dest |-> dest, result |-> result]
    /\ result' = "none" /\ dest' = Nothing

SetBegins_Unmarked(items) ==
    /\ Fitting(tree, items)
    /\ Call("set", items)
    /\ dirty' = (dirty \/ (tree[Root] # NoNode /\ IsLeaf(tree, Root)))
    /\ UNCHANGED <<tree, value, told, json>>

\* canopy_var_set and st_cloudvar_set_var: the variable is dirty before the
\* recursion starts, unless it is an input.
SetBegins(items) ==
    /\ Fitting(tree, items)
    /\ Call("set", items)
    /\ dirty' = (dirty \/ (tree[Root] # NoNode /\ tree[Root].dir # "in"))
    /\ UNCHANGED <<tree, value, told, json>>

\* canopy_var_get
ReadBegins(items) ==
    /\ Call("read", items)
    /\ UNCHANGED <<tree, value, dirty, told, json>>

Reportable_LeavesOnly ==
    {p \in Declared(tree) : IF p = Root THEN HasValue(tree, value, p)
                            ELSE IsLeaf(tree, p) /\ value[p] # NoValue}

\* The nodes that value_to_json visits: those with a value.
Reportable == {p \in Declared(tree) : HasValue(tree, value, p)}

\* st_sync reports a dirty variable. One without a value only ceases to be dirty.
ReportBegins ==
    /\ dirty
    /\ Call("json", [p \in Reportable |-> tree[p]])
    /\ json' = Nothing
    /\ UNCHANGED <<tree, value, dirty, told>>

-----------------------------------------------------------------------------
(* One node of the recursion                                               *)

Verdict(p) ==
    CASE op = "set" -> SetVerdict(tree, value, arg, p)
      [] op = "read" -> ReadVerdict(tree, value, arg, p)
      [] op = "json" -> "SUCCESS"

\* The loop over the children of "at" comes to p: any of those left.
Reaches(p) == op # "none" /\ Above[p] = at /\ p \notin seen
Passes(p) == Reaches(p) /\ Verdict(p) = "SUCCESS"

Descend(p) ==
    /\ Passes(p)
    /\ ~IsLeaf(tree, p)
    /\ at' = p
    /\ UNCHANGED <<tree, value, dirty, told, dest, json, result, op, arg, seen, before>>

AtLeaf(p) ==
    /\ Passes(p)
    /\ IsLeaf(tree, p)
    /\ seen' = seen \cup {p}
    /\ UNCHANGED <<tree, dirty, told, result, op, arg, at, before>>

\* st_cloudvar_basic_set
SetLeaf(p) ==
    /\ op = "set"
    /\ AtLeaf(p)
    /\ value' = [value EXCEPT ![p] = arg[p].data]
    /\ UNCHANGED <<dest, json>>

\* st_cloudvar_basic_read_var
ReadLeaf(p) ==
    /\ op = "read"
    /\ AtLeaf(p)
    /\ dest' = [dest EXCEPT ![p] = value[p]]
    /\ UNCHANGED <<value, json>>

\* st_cloudvar_basic_value_to_json: a double holds every basic value exactly.
WriteLeaf(p) ==
    /\ op = "json"
    /\ AtLeaf(p)
    /\ json' = [json EXCEPT ![p] = value[p]]
    /\ UNCHANGED <<value, dest>>

AllSeen == \A p \in DOMAIN arg : Above[p] = at => p \in seen

Ascend_Forgets ==
    /\ op # "none" /\ at # NoPlace
    /\ AllSeen
    /\ at' = Above[at]
    /\ UNCHANGED <<tree, value, dirty, told, dest, json, result, op, arg, seen, before>>

\* A loop is over: on with the parent's.
Ascend ==
    /\ op # "none" /\ at # NoPlace
    /\ AllSeen
    /\ at' = Above[at]
    /\ seen' = seen \cup {at}
    /\ UNCHANGED <<tree, value, dirty, told, dest, json, result, op, arg, before>>

Return(r) ==
    /\ result' = r
    /\ op' = "none" /\ arg' = NoCall /\ at' = NoPlace /\ seen' = {} /\ before' = NoCall
    /\ json' = Nothing
    /\ UNCHANGED <<tree, value, dest>>

\* Every level of the recursion passes an error on to its caller.
Fail(p) ==
    /\ Reaches(p)
    /\ Verdict(p) # "SUCCESS"
    /\ Return(Verdict(p))
    /\ UNCHANGED <<dirty, told>>

Succeed ==
    /\ op \in {"set", "read"} /\ at = NoPlace
    /\ AllSeen
    /\ Return("SUCCESS")
    /\ UNCHANGED <<dirty, told>>

\* The payload is sent, or it is not and the variable stays dirty (st_sync.c:264-271).
Reported ==
    /\ op = "json" /\ at = NoPlace
    /\ AllSeen
    /\ \/ /\ Return("SUCCESS")
          /\ dirty' = FALSE
          /\ told' = [p \in Place |-> IF p \in Reportable THEN json[p] ELSE told[p]]
       \/ /\ Return("CONNECTION_FAILED")
          /\ UNCHANGED <<dirty, told>>

-----------------------------------------------------------------------------
(* st_cloudvar_update_from_json, from _process_payload: a composite is not *)
(* implemented and an item of another kind is refused, both unseen by the  *)
(* application.                                                            *)
Receive(item) ==
    /\ NoneRuns
    /\ tree[Root] # NoNode /\ IsLeaf(tree, Root)
    /\ item.kind = JsonKind(tree[Root].type)
    /\ \E x \in ConvertNumber(tree[Root].type, item.data) :
          /\ value' = [value EXCEPT ![Root] = x]
          /\ told' = [told EXCEPT ![Root] = x]
    /\ UNCHANGED <<tree, dirty, dest, json, result>>

Step ==
    \/ \E p \in DOMAIN arg : Descend(p) \/ SetLeaf(p) \/ ReadLeaf(p) \/ WriteLeaf(p) \/ Fail(p)
    \/ Ascend \/ Succeed \/ Reported

Next ==
    \/ \E req \in Request : Declare(req)
    \/ \E items \in Written : SetBegins(items)
    \/ \E items \in Reader : ReadBegins(items)
    \/ ReportBegins
    \/ Step
    \/ \E item \in Item : Receive(item)

Spec == Init /\ [][Next]_vars
=============================================================================
