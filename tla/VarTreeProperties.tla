------------------------- MODULE VarTreeProperties -------------------------
(***************************************************************************)
(* What is claimed of the calls on one Cloud Variable.                     *)
(***************************************************************************)
EXTENDS VarTree

Answers == {"none", "SUCCESS", "VARIABLE_NOT_INITIALIZED", "VARIABLE_NOT_SET",
            "VARIABLE_ALREADY_INITIALIZED", "ARRAY_INDEX_OUT_OF_BOUNDS",
            "CANNOT_MODIFY_INPUT_VARIABLE", "INCORRECT_DATATYPE", "INVALID_OPT",
            "INVALID_VALUE", "BAD_VARIABLE_DECLARATION", "UNKNOWN", "CONNECTION_FAILED"}

Content == [Place -> Datum \cup {NoValue}]

\* The walk is at a composite that the call names, on whose children it has not
\* finished.
ShapeOK ==
    /\ tree \in [Place -> Node \cup {NoNode}]
    /\ value \in Content /\ told \in Content /\ dest \in Content /\ json \in Content
    /\ dirty \in BOOLEAN /\ result \in Answers
    /\ op \in {"none", "set", "read", "json"}
    /\ DOMAIN arg \subseteq Place /\ seen \subseteq DOMAIN arg
    /\ at # NoPlace => at \in DOMAIN arg \ seen /\ ~IsLeaf(tree, at)
    /\ op # "none" =>
          before \in [value : Content, dirty : BOOLEAN, dest : Content, result : Answers]

\* Every variable has its type (STCloudVar_t, STCloudVarReader_t); and since
\* basic_value is a union that does not know which datatype it holds, what a
\* variable has is a datum of the datatype it was declared with: whoever stored
\* it looked (st_cloudvar_basic.c:178, 76-132).
TypeOK ==
    /\ ShapeOK
    /\ \A p \in Place : value[p] # NoValue =>
          tree[p] # NoNode /\ IsLeaf(tree, p) /\ value[p] \in HeldBy(tree[p].type)

\* While a call runs, the variable it works on is, to the application, as it was.
During(now, old) == IF op = "none" THEN now ELSE old

Access == INSTANCE VarAccess WITH
            value <- During(value, before.value),
            dirty <- During(dirty, before.dirty),
            dest <- During(dest, before.dest),
            result <- During(result, before.result)

\* Walked in any order, over a tree of any shape, stopped anywhere: a call is answered
\* with success and has done all it was asked to, or with the reason of a place that
\* stops it and has done part of what the others allow (st_cloudvar_array.c:134-156,
\* st_cloudvar_struct.c:138-162). A declaration takes effect whole or not at all, and
\* a report carries every leaf that has a value.
CallsImplementAccess == Access!Spec

\* "Only the cloud can change this Cloud Variable's value" (docs/sddl_ver_0_9_0.md:125):
\* a set changes nothing inside of an inbound array or struct either, also where the
\* leaf itself is declared to be outbound.
InboundTreeNotSet ==
    [][\A p \in Place :
         op = "set" /\ value'[p] # value[p] => \A q \in Path[p] : tree[q].dir # "in"]_vars

\* A read that succeeds has filled every destination, with a value of the datatype
\* that the destination was declared for (st_cloudvar_basic.c:222-272).
ReadFillsAll ==
    [][op = "read" /\ op' = "none" /\ result' = "SUCCESS" =>
         \A p \in DOMAIN arg : arg[p].type \in Basic =>
            /\ dest'[p] # NoValue /\ dest'[p] = value[p]
            /\ tree[p].type = arg[p].type]_vars

\* A variable that is not due for a report is, leaf by leaf, what the two sides last
\* told each other, whatever calls failed halfway. Only the root knows the variable
\* system; no leaf marks anything (st_cloudvar_basic.c:138-140).
CleanMeansTold == ~dirty => value = told

\* The cloud may echo what it was told: a variable that was not set since is as it
\* was before, in every datatype; a number of the variable's own datatype survives
\* the way to a JSON double and back (st_cloudvar_basic.c:21-144).
EchoIsHarmless ==
    [][\A item \in Item :
         Receive(item) /\ item.data = told[Root] /\ ~dirty => value' = value]_vars

\* Every call returns: the loops of the recursion end.
FairSpec == Spec /\ WF_vars(Step)
CallReturns == op # "none" ~> op = "none"
=============================================================================
