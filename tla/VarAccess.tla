----------------------------- MODULE VarAccess -----------------------------
(***************************************************************************)
(* What the calls on one Cloud Variable promise, whatever its tree looks   *)
(* like and in whatever order the code walks it: a call that is answered   *)
(* CANOPY_SUCCESS did all it was asked to, any other did part of it at     *)
(* most, and the answer is a reason that holds of some place it names.     *)
(***************************************************************************)
EXTENDS VarNode

CONSTANTS
    Request,    \* declarations the application may pass
    Written,    \* values it may pass to canopy_var_set
    Reader,     \* readers it may pass to canopy_var_get
    Item        \* JSON items the cloud may send

VARIABLES
    tree,       \* the variable's nodes
    value,      \* the data of its leaves
    dirty,      \* it is to be reported
    told,       \* what the cloud and the device last told each other
    dest,       \* where the readers of the last call point
    result      \* its answer

vars == <<tree, value, dirty, told, dest, result>>

Nothing == [p \in Place |-> NoValue]

Init ==
    /\ tree = [p \in Place |-> NoNode]
    /\ value = Nothing /\ told = Nothing /\ dest = Nothing
    /\ dirty = FALSE /\ result = "none"

\* The places of arg that the call gets to, and where it is stopped.
Open(Verdict(_, _, _, _), arg) ==
    {p \in DOMAIN arg : \A q \in Path[p] : Verdict(tree, value, arg, q) = "SUCCESS"}
Blocked(Verdict(_, _, _, _), arg) ==
    {p \in DOMAIN arg : /\ Verdict(tree, value, arg, p) # "SUCCESS"
                        /\ \A q \in Path[p] \ {p} : Verdict(tree, value, arg, q) = "SUCCESS"}

OpenLeaves(Verdict(_, _, _, _), arg) ==
    {p \in Open(Verdict, arg) : IsLeaf(tree, p)}

\* All of the leaves and success, or some of them and a reason.
Done(Verdict(_, _, _, _), arg, moved) ==
    \/ /\ Blocked(Verdict, arg) = {}
       /\ moved = OpenLeaves(Verdict, arg)
       /\ result' = "SUCCESS"
    \/ result' \in {Verdict(tree, value, arg, p) : p \in Blocked(Verdict, arg)}

\* Nothing is wrong with the request for place p.
Sound(req, p) ==
    /\ req[p].type \in Basic \cup Composite
    /\ \A i \in DOMAIN req[p].options :
          \/ req[p].options[i].opt = "DESCRIPTION"
          \/ req[p].options[i].opt = "FIELD" /\ req[p].type = "struct"

\* Declared as a whole or not at all, once.
Declare(req) ==
    /\ \/ /\ Declared(tree) = {}
          /\ \A p \in DOMAIN req : Sound(req, p)
          /\ tree' = Built(req)
          /\ dirty' = TRUE
          /\ result' = "SUCCESS"
       \/ /\ Declared(tree) # {} \/ \E p \in DOMAIN req : ~Sound(req, p)
          /\ result' # "SUCCESS"
          /\ UNCHANGED <<tree, dirty>>
    /\ dest' = Nothing
    /\ UNCHANGED <<value, told>>

Set(arg) ==
    /\ \E moved \in SUBSET OpenLeaves(SetVerdict, arg) :
          /\ Done(SetVerdict, arg, moved)
          /\ value' = [p \in Place |-> IF p \in moved THEN arg[p].data ELSE value[p]]
    /\ dirty => dirty'
    /\ value' # value => dirty'
    /\ dest' = Nothing
    /\ UNCHANGED <<tree, told>>

Get(arg) ==
    /\ \E moved \in SUBSET OpenLeaves(ReadVerdict, arg) :
          /\ Done(ReadVerdict, arg, moved)
          /\ dest' = [p \in Place |-> IF p \in moved THEN value[p] ELSE NoValue]
    /\ UNCHANGED <<tree, value, dirty, told>>

\* A report carries the whole value, or the sync fails and all stays as it was.
Report ==
    /\ dirty
    /\ \/ dirty' = FALSE /\ told' = value /\ result' = "SUCCESS"
       \/ UNCHANGED <<dirty, told>> /\ result' # "SUCCESS"
    /\ dest' = Nothing
    /\ UNCHANGED <<tree, value>>

Receive(item) ==
    /\ \E x \in Datum : value' = [value EXCEPT ![Root] = x] /\ told' = value'
    /\ IsLeaf(tree, Root) /\ item.kind = JsonKind(tree[Root].type)
    /\ UNCHANGED <<tree, dirty, dest, result>>

Next ==
    \/ \E req \in Request : Declare(req)
    \/ \E arg \in Written : Set(arg)
    \/ \E arg \in Reader : Get(arg)
    \/ Report
    \/ \E item \in Item : Receive(item)

Spec == Init /\ [][Next]_vars
=============================================================================
