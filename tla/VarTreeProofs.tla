---------------------------- MODULE VarTreeProofs ----------------------------
(***************************************************************************)
(* Theorems about VarTree for every value of its constants: trees of any   *)
(* shape, any declarations, values, readers and JSON items.                *)
(***************************************************************************)
EXTENDS VarTreeProperties, TLAPS

-----------------------------------------------------------------------------
(* Places *)

\* What contains a place, p included, is in every closed set that has p.
LEMMA PathInClosed ==
    ASSUME NEW p \in Place, NEW S \in Closed, p \in S
    PROVE  Path[p] \subseteq S
BY DEF Path

\* What contains a place is a place.
LEMMA AboveIsPlace ==
    ASSUME NEW p \in Place, p # Root
    PROVE  Above[p] \in Place
BY VarNodeAssumption

\* A path is upwards from the place itself and stays in the tree.
LEMMA PathIsClosed ==
    ASSUME NEW p \in Place
    PROVE  p \in Path[p] /\ Path[p] \subseteq Place /\ Path[p] \in Closed
<1>1. p \in Path[p] /\ Path[p] \subseteq Place
  BY DEF Path
<1>2. ASSUME NEW q \in Path[p] \ {Root} PROVE Above[q] \in Path[p]
  <2>1. Above[q] \in Place
    BY <1>1, <1>2, AboveIsPlace
  <2>2. \A S \in Closed : p \in S => Above[q] \in S
    BY <1>1, <1>2 DEF Path, Closed
  <2> QED
    BY <2>1, <2>2 DEF Path
<1> QED
  BY <1>1, <1>2 DEF Closed

\* The root contains all places and is contained in none.
LEMMA RootOnPath ==
    /\ Root \in Place /\ Path[Root] = {Root}
    /\ \A p \in Place : Root \in Path[p]
<1>1. Root \in Place /\ \A p \in Place : Root \in Path[p]
  BY VarNodeAssumption DEF IsTree
<1>2. {Root} \in Closed
  BY <1>1 DEF Closed
<1>3. Path[Root] \subseteq {Root}
  BY <1>1, <1>2, PathInClosed
<1> QED
  BY <1>1, <1>3

\* One step up, and never back to where it started.
LEMMA PathOneUp ==
    ASSUME NEW p \in Place, p # Root
    PROVE  Path[p] = {p} \cup Path[Above[p]] /\ p \notin Path[Above[p]]
<1>1. Above[p] \in Place
  BY AboveIsPlace
<1>2. {p} \cup Path[Above[p]] \in Closed
  BY <1>1, PathIsClosed DEF Closed
<1>3. Path[p] \subseteq {p} \cup Path[Above[p]]
  BY <1>2, PathInClosed
<1>4. p \in Path[p] /\ Above[p] \in Path[p] /\ Path[p] \in Closed
  BY PathIsClosed DEF Closed
<1>5. Path[Above[p]] \subseteq Path[p]
  BY <1>1, <1>4, PathInClosed
<1>6. p \notin Path[Above[p]]
  BY VarNodeAssumption DEF IsTree
<1> QED
  BY <1>3, <1>4, <1>5, <1>6

\* What holds of the root and of whatever is contained where it holds is true of all:
\* places that lack it would have to have a container that lacks it, too.
LEMMA FromTheRoot ==
    ASSUME NEW D \in SUBSET Place, NEW S, Root \in S,
           \A p \in D \ {Root} : Above[p] \in D,
           \A p \in D \ {Root} : Above[p] \in S => p \in S
    PROVE  D \subseteq S
<1> SUFFICES ASSUME NEW p \in D, p \notin S PROVE FALSE
  OBVIOUS
<1>1. D \ S \in Closed
  BY DEF Closed
<1>2. Path[p] \subseteq D \ S
  BY <1>1, PathInClosed
<1> QED
  BY <1>2, RootOnPath

-----------------------------------------------------------------------------
(* Declarations *)

\* An init object is in order on its own.
Sound(req, p) ==
    /\ req[p].type # "malformed"
    /\ \A i \in DOMAIN req[p].options :
          \/ req[p].options[i].opt = "DESCRIPTION"
          \/ req[p].options[i].opt = "FIELD" /\ req[p].type = "struct"

\* It is accepted if it is in order and all its fields are accepted, and only then.
LEMMA ParsedIfSound ==
    ASSUME NEW req \in Request, NEW parse \in Parses[req], NEW p \in DOMAIN req
    PROVE  parse[p] = "SUCCESS" <=>
              /\ Sound(req, p)
              /\ \A i \in DOMAIN req[p].options :
                    req[p].options[i].opt = "FIELD" =>
                       parse[req[p].options[i].field] = "SUCCESS"
<1> DEFINE failing == {i \in DOMAIN req[p].options : OptionResult(req, parse, p, i) # "SUCCESS"}
<1>1. IsParsed(req, parse, p)
  BY DEF Parses
<1>2. parse[p] = "SUCCESS" <=> req[p].type # "malformed" /\ failing = {}
  BY <1>1 DEF IsParsed
<1>3. failing = {} <=>
         \A i \in DOMAIN req[p].options : OptionResult(req, parse, p, i) = "SUCCESS"
  OBVIOUS
<1>4. ASSUME NEW i \in DOMAIN req[p].options
      PROVE  OptionResult(req, parse, p, i) = "SUCCESS" <=>
                \/ req[p].options[i].opt = "DESCRIPTION"
                \/ /\ req[p].options[i].opt = "FIELD" /\ req[p].type = "struct"
                   /\ parse[req[p].options[i].field] = "SUCCESS"
  BY DEF OptionResult
<1> HIDE DEF failing
<1> QED
  BY <1>2, <1>3, <1>4 DEF Sound

\* The whole is accepted if every init object in it is in order, and only then.
LEMMA AcceptedIfSound ==
    ASSUME NEW req \in Request, NEW parse \in Parses[req]
    PROVE  /\ parse[Root] = "SUCCESS" => \A p \in DOMAIN req : Sound(req, p)
           /\ (\A p \in DOMAIN req : Sound(req, p)) => parse[Root] = "SUCCESS"
<1> DEFINE good == {p \in DOMAIN req : parse[p] = "SUCCESS"}
<1>0. /\ Root \in DOMAIN req /\ DOMAIN req \subseteq Place
      /\ \A p \in DOMAIN req : \A i \in DOMAIN req[p].options :
            req[p].options[i].opt = "FIELD" =>
               req[p].options[i].field \in {q \in DOMAIN req : Above[q] = p}
      /\ \A q \in DOMAIN req \ {Root} :
            /\ Above[q] \in DOMAIN req
            /\ \E i \in DOMAIN req[Above[q]].options :
                  req[Above[q]].options[i].opt = "FIELD" /\ req[Above[q]].options[i].field = q
  BY VarTreeAssumption DEF IsRequest
<1>1. ASSUME parse[Root] = "SUCCESS", NEW p \in DOMAIN req PROVE Sound(req, p)
  <2>1. \A q \in DOMAIN req \ {Root} : Above[q] \in good => q \in good
    BY <1>0, ParsedIfSound
  <2>2. Root \in good
    BY <1>0, <1>1
  <2> HIDE DEF good
  <2>3. DOMAIN req \subseteq good
    BY <1>0, <2>1, <2>2, FromTheRoot
  <2>4. parse[p] = "SUCCESS"
    BY <2>3 DEF good
  <2> QED
    BY <2>4, ParsedIfSound
<1>2. ASSUME \A p \in DOMAIN req : Sound(req, p) PROVE parse[Root] = "SUCCESS"
  <2> DEFINE bad == DOMAIN req \ good
  <2>1. ASSUME NEW p \in bad PROVE \E q \in bad : Above[q] = p
    <3>1. PICK i \in DOMAIN req[p].options :
             /\ req[p].options[i].opt = "FIELD"
             /\ parse[req[p].options[i].field] # "SUCCESS"
      BY <1>2, <2>1, ParsedIfSound
    <3> DEFINE f == req[p].options[i].field
    <3>2. f \in DOMAIN req /\ Above[f] = p
      BY <1>0, <2>1, <3>1
    <3>3. f \in bad
      BY <3>1, <3>2
    <3> QED
      BY <3>2, <3>3
  <2>2. bad \in SUBSET Place /\ \A p \in bad : \E q \in bad : Above[q] = p
    BY <1>0, <2>1
  <2> HIDE DEF bad
  <2>3. bad = {}
    BY <2>2, VarNodeAssumption DEF IsTree
  <2>4. Root \notin bad
    BY <2>3
  <2> QED
    BY <1>0, <2>4 DEF bad
<1> QED
  BY <1>1, <1>2

-----------------------------------------------------------------------------
(* The inductive invariant *)

\* Only what is composite contains anything.
TreeInOrder ==
    \A p \in Declared(tree) \ {Root} :
       tree[Above[p]] # NoNode /\ tree[Above[p]].type \in Composite

\* The datum is one of its datatype: converting it again leaves it as it is.
Fits(p, x) == ConvertNumber(tree[p].type, x) = {x}

\* Leaves alone have values, and nothing was told that is not there.
ValuesInOrder ==
    /\ \A p \in Place : value[p] # NoValue =>
          tree[p] # NoNode /\ IsLeaf(tree, p) /\ Fits(p, value[p])
    /\ \A p \in Place : told[p] # NoValue => value[p] # NoValue /\ Fits(p, told[p])

\* The call walks what its caller brought, a report what has a value.
CallInOrder ==
    /\ op = "none" => at = NoPlace /\ seen = {} /\ arg = NoCall
    /\ op = "set" => arg \in Written
    /\ op = "read" => arg \in Reader
    /\ op = "json" => arg = [p \in Reportable |-> tree[p]]

\* Nothing from the root down to the place stops the call.
Clear(p) == \A q \in Path[p] : Verdict(q) = "SUCCESS"

\* The recursion is on the way from the root to "at"; with a place it is done with
\* all that the place contains.
WalkInOrder ==
    op # "none" =>
       /\ at # NoPlace => Clear(at) /\ \A q \in Path[at] : q \notin seen
       /\ \A p \in seen :
             Clear(p) /\ \A q \in DOMAIN arg : Above[q] = p => q \in seen

Visited == {p \in seen : IsLeaf(tree, p)}

\* The work is done at the leaves that were visited and nowhere else.
WorkInOrder ==
    /\ op = "set" =>
          /\ value = [p \in Place |-> IF p \in Visited THEN arg[p].data ELSE before.value[p]]
          /\ before.dirty => dirty
          /\ tree[Root] # NoNode /\ tree[Root].dir # "in" => dirty
    /\ op = "read" => dest = [p \in Place |-> IF p \in Visited THEN value[p] ELSE NoValue]
    /\ op = "json" =>
          /\ json = [p \in Place |-> IF p \in Visited THEN value[p] ELSE NoValue]
          /\ dirty
    /\ op \in {"set", "json"} => dest = Nothing
    /\ op \in {"read", "json"} => value = before.value /\ dirty = before.dirty

Inductive ==
    /\ ShapeOK /\ TreeInOrder /\ ValuesInOrder /\ CallInOrder
    /\ WalkInOrder /\ WorkInOrder /\ CleanMeansTold

\* A datatype is not both of basic and composite.
LEMMA BasicOrComposite ==
    \A t \in Composite : t \notin Basic
BY DEF Basic, Composite, Signed, Unsigned

\* Nothing is declared before the root is.
LEMMA RootComesFirst ==
    ASSUME TreeInOrder, NEW p \in Declared(tree)
    PROVE  Root \in Declared(tree)
<1>1. Declared(tree) \in Closed
  BY AboveIsPlace DEF TreeInOrder, Declared, Closed
<1>2. Path[p] \subseteq Declared(tree) /\ p \in Place
  BY <1>1, PathInClosed DEF Declared
<1> QED
  BY <1>2, RootOnPath

\* A call that is not stopped at a place has a node there.
LEMMA VerdictOfNothing ==
    ASSUME CallInOrder, op \in {"set", "read", "json"}, NEW p \in DOMAIN arg,
           Verdict(p) = "SUCCESS"
    PROVE  tree[p] # NoNode
<1>1. CASE op = "set"
  BY <1>1 DEF Verdict, SetVerdict, Missing
<1>2. CASE op = "read"
  BY <1>2 DEF Verdict, ReadVerdict, Missing
<1>3. CASE op = "json"
  BY <1>3 DEF CallInOrder, Reportable, Declared
<1> QED
  BY <1>1, <1>2, <1>3

\* What a call walks: a tree of places, whose leaves are leaves of the variable.
LEMMA ArgIsTree ==
    ASSUME ShapeOK, TreeInOrder, CallInOrder, op # "none"
    PROVE  /\ DOMAIN arg \subseteq Place
           /\ \A p \in DOMAIN arg \ {Root} : Above[p] \in DOMAIN arg
           /\ \A p \in DOMAIN arg : \A q \in DOMAIN arg :
                 Verdict(p) = "SUCCESS" /\ Above[q] = p => ~IsLeaf(tree, p)
<1>0. op \in {"set", "read", "json"} /\ DOMAIN arg \subseteq Place
  BY DEF ShapeOK
<1>1. CASE op = "set"
  <2>1. Assembled(arg)
    BY <1>1, VarTreeAssumption DEF CallInOrder, IsCanopyVarValue
  <2>2. \A p \in DOMAIN arg : \A q \in DOMAIN arg :
           Verdict(p) = "SUCCESS" /\ Above[q] = p => ~IsLeaf(tree, p)
    <3> SUFFICES ASSUME NEW p \in DOMAIN arg, NEW q \in DOMAIN arg,
                        Verdict(p) = "SUCCESS", Above[q] = p, IsLeaf(tree, p)
                 PROVE  FALSE
      OBVIOUS
    <3>1. q # Root
      BY <1>0, VarNodeAssumption
    <3>2. arg[p].type \in Composite
      BY <2>1, <3>1 DEF Assembled
    <3>3. arg[p].type = tree[p].type
      BY <1>1 DEF Verdict, SetVerdict, Missing
    <3> QED
      BY <3>2, <3>3, BasicOrComposite DEF IsLeaf
  <2> QED
    BY <1>0, <2>1, <2>2 DEF Assembled
<1>2. CASE op = "read"
  <2>1. Assembled(arg)
    BY <1>2, VarTreeAssumption DEF CallInOrder, IsCanopyVarReader
  <2>2. \A p \in DOMAIN arg : \A q \in DOMAIN arg :
           Verdict(p) = "SUCCESS" /\ Above[q] = p => ~IsLeaf(tree, p)
    <3> SUFFICES ASSUME NEW p \in DOMAIN arg, NEW q \in DOMAIN arg,
                        Verdict(p) = "SUCCESS", Above[q] = p, IsLeaf(tree, p)
                 PROVE  FALSE
      OBVIOUS
    <3>1. q # Root
      BY <1>0, VarNodeAssumption
    <3>2. arg[p].type \in Composite
      BY <2>1, <3>1 DEF Assembled
    <3>3. arg[p].type = tree[p].type
      BY <1>2 DEF Verdict, ReadVerdict, Missing
    <3> QED
      BY <3>2, <3>3, BasicOrComposite DEF IsLeaf
  <2> QED
    BY <1>0, <2>1, <2>2 DEF Assembled
<1>3. CASE op = "json"
  <2>1. DOMAIN arg = {p \in Declared(tree) : HasValue(tree, value, p)}
    BY <1>3 DEF CallInOrder, Reportable
  <2>2. \A p \in DOMAIN arg \ {Root} :
           Above[p] \in Declared(tree) /\ ~IsLeaf(tree, Above[p])
    BY <1>0, <2>1, AboveIsPlace, BasicOrComposite DEF TreeInOrder, IsLeaf, Declared
  <2>3. \A p \in DOMAIN arg \ {Root} : Above[p] \in DOMAIN arg
    BY <2>1, <2>2 DEF HasValue
  <2>4. \A p \in DOMAIN arg : \A q \in DOMAIN arg : Above[q] = p => q # Root
    BY <1>0, VarNodeAssumption
  <2> QED
    BY <1>0, <2>2, <2>3, <2>4
<1> QED
  BY <1>0, <1>1, <1>2, <1>3

\* When the loop over the root is over, so is the walk.
LEMMA AllWalked ==
    ASSUME ShapeOK, TreeInOrder, CallInOrder, WalkInOrder, op # "none",
           at = NoPlace, AllSeen
    PROVE  DOMAIN arg = seen
<1>1. /\ seen \subseteq DOMAIN arg /\ DOMAIN arg \subseteq Place
      /\ \A p \in DOMAIN arg \ {Root} : Above[p] \in DOMAIN arg
  BY ArgIsTree DEF ShapeOK
<1>2. \A p \in DOMAIN arg \ {Root} : Above[p] \in seen => p \in seen
  BY DEF WalkInOrder
<1>3. CASE Root \in DOMAIN arg
  <2>1. Root \in seen
    BY <1>3, VarNodeAssumption DEF AllSeen
  <2> QED
    BY <1>1, <1>2, <2>1, FromTheRoot
<1>4. CASE Root \notin DOMAIN arg
  <2>1. DOMAIN arg \in Closed
    BY <1>1 DEF Closed
  <2>2. \A p \in DOMAIN arg : Path[p] \subseteq DOMAIN arg
    BY <1>1, <2>1, PathInClosed
  <2> QED
    BY <1>1, <1>4, <2>2, RootOnPath
<1> QED
  BY <1>3, <1>4

\* All that contains the place which the loop has come to lets the call pass, and is
\* not done yet.
LEMMA OnTheWay ==
    ASSUME ShapeOK, TreeInOrder, CallInOrder, WalkInOrder, NEW p \in DOMAIN arg, Reaches(p)
    PROVE  /\ p \in Place
           /\ \A q \in Path[p] \ {p} : Verdict(q) = "SUCCESS"
           /\ \A q \in Path[p] : q \notin seen
<1>1. op # "none" /\ Above[p] = at /\ p \notin seen /\ p \in Place
  BY DEF Reaches, ShapeOK
<1>2. CASE at = NoPlace
  <2>1. Path[p] = {p}
    BY <1>1, <1>2, VarNodeAssumption, RootOnPath
  <2> QED
    BY <1>1, <2>1
<1>3. CASE at # NoPlace
  <2>1. Path[p] = {p} \cup Path[at] /\ p \notin Path[at]
    BY <1>1, <1>3, VarNodeAssumption, PathOneUp
  <2>2. \A q \in Path[at] : Verdict(q) = "SUCCESS" /\ q \notin seen
    BY <1>1, <1>3 DEF WalkInOrder, Clear
  <2> QED
    BY <1>1, <2>1, <2>2
<1> QED
  BY <1>2, <1>3

\* A call judges a place in the same way from its beginning to its end: what it changes
\* does not matter to it.
LEMMA JudgedTheSame ==
    ASSUME op \in {"set", "read", "json"}, UNCHANGED <<tree, op, arg>>,
           op \in {"read", "json"} => UNCHANGED value
    PROVE  /\ \A p : Verdict(p)' = Verdict(p)
           /\ \A p : Clear(p)' <=> Clear(p)
<1>1. ASSUME NEW p PROVE Verdict(p)' = Verdict(p)
  <2>1. CASE op = "set"
    BY <2>1 DEF Verdict, SetVerdict, Missing, IsLeaf
  <2>2. CASE op = "read"
    BY <2>2 DEF Verdict, ReadVerdict, Missing, HasValue, IsLeaf
  <2>3. CASE op = "json"
    BY <2>3 DEF Verdict
  <2> QED
    BY <2>1, <2>2, <2>3
<1> QED
  BY <1>1 DEF Clear

\* What a sound request builds is a tree in order.
LEMMA BuiltInOrder ==
    ASSUME NEW req \in Request, \A p \in DOMAIN req : Sound(req, p),
           \A p \in DOMAIN req : req[p].type # "tuple"
    PROVE  /\ Built(req) \in [Place -> Node \cup {NoNode}]
           /\ \A p \in Place \ {Root} : Built(req)[p] # NoNode =>
                 Built(req)[Above[p]] # NoNode /\ Built(req)[Above[p]].type \in Composite
           /\ Built(req)[Root] # NoNode
<1> DEFINE IsElement(p) == /\ Above[p] \in DOMAIN req
                           /\ req[Above[p]].type = "array"
                           /\ Index[p] \in 0..(req[Above[p]].size - 1)
           B == Built(req)
<1>0. /\ Root \in DOMAIN req /\ DOMAIN req \subseteq Place
      /\ \A p \in DOMAIN req : req[p] \in NodeRequest
      /\ \A q \in DOMAIN req \ {Root} :
            /\ Above[q] \in DOMAIN req
            /\ \E i \in DOMAIN req[Above[q]].options :
                  req[Above[q]].options[i].opt = "FIELD"
  BY VarTreeAssumption DEF IsRequest
<1>1. \A p \in DOMAIN req : /\ req[p].type \in Basic \cup Composite
                            /\ req[p].dir \in Direction /\ req[p].element \in Basic
  BY <1>0 DEF NodeRequest, Sound
<1>2. \A p \in Place :
         B[p] = IF p \in DOMAIN req THEN [type |-> req[p].type, dir |-> req[p].dir]
                ELSE IF IsElement(p)
                THEN [type |-> req[Above[p]].element, dir |-> req[Above[p]].dir]
                ELSE NoNode
  BY DEF Built
<1>n. \A t \in Basic \cup Composite : \A d \in Direction : [type |-> t, dir |-> d] \in Node
  BY DEF Node
<1> HIDE DEF B, IsElement
<1>3. ASSUME NEW p \in Place PROVE B[p] \in Node \cup {NoNode}
  <2>1. CASE p \in DOMAIN req
    BY <1>1, <1>2, <1>n, <2>1
  <2>2. CASE p \notin DOMAIN req /\ IsElement(p)
    <3>1. Above[p] \in DOMAIN req
      BY <2>2 DEF IsElement
    <3>2. B[p] = [type |-> req[Above[p]].element, dir |-> req[Above[p]].dir]
      BY <1>2, <2>2
    <3>3. req[Above[p]].element \in Basic \cup Composite /\ req[Above[p]].dir \in Direction
      BY <1>1, <3>1
    <3> QED
      BY <1>n, <3>2, <3>3
  <2> QED
    BY <1>2, <2>1, <2>2
<1>4. ASSUME NEW p \in DOMAIN req
      PROVE  B[p] # NoNode /\ B[p].type = req[p].type
  <2>1. B[p] = [type |-> req[p].type, dir |-> req[p].dir] /\ B[p] \in Node
    BY <1>0, <1>1, <1>2, <1>n
  <2> QED
    BY <2>1, VarNodeAssumption
<1>5. ASSUME NEW p \in Place \ {Root}, B[p] # NoNode
      PROVE  B[Above[p]] # NoNode /\ B[Above[p]].type \in Composite
  <2>1. CASE p \in DOMAIN req
    <3>1. Above[p] \in DOMAIN req /\ req[Above[p]].type = "struct"
      BY <1>0, <2>1 DEF Sound
    <3> QED
      BY <1>4, <3>1 DEF Composite
  <2>2. CASE p \notin DOMAIN req
    <3>1. Above[p] \in DOMAIN req /\ req[Above[p]].type = "array"
      BY <1>2, <1>5, <2>2 DEF IsElement
    <3> QED
      BY <1>4, <3>1 DEF Composite
  <2> QED
    BY <2>1, <2>2
<1>6. B \in [Place -> Node \cup {NoNode}]
  <2>1. B = [p \in Place |-> B[p]]
    BY DEF B, Built
  <2> QED
    BY <1>3, <2>1
<1> QED
  BY <1>0, <1>4, <1>5, <1>6 DEF B

-----------------------------------------------------------------------------
(* Every step keeps the invariant *)

\* The invariant holds before the first call.
LEMMA InitInductive == Init => Inductive
<1> SUFFICES ASSUME Init PROVE Inductive
  OBVIOUS
<1>0. /\ tree = [p \in Place |-> NoNode]
      /\ value = Nothing /\ told = Nothing /\ dest = Nothing /\ json = Nothing
      /\ dirty = FALSE /\ result = "none"
      /\ op = "none" /\ arg = NoCall /\ at = NoPlace /\ seen = {}
  BY DEF Init
<1>1. ShapeOK
  <2>1. Nothing \in Content /\ tree \in [Place -> Node \cup {NoNode}]
    BY <1>0 DEF Nothing, Content
  <2>2. DOMAIN arg \subseteq Place
    BY <1>0 DEF NoCall
  <2> QED
    BY <1>0, <2>1, <2>2 DEF ShapeOK, Answers
<1>2. TreeInOrder
  BY <1>0 DEF TreeInOrder, Declared
<1>3. ValuesInOrder
  BY <1>0 DEF ValuesInOrder, Nothing
<1>4. CallInOrder
  BY <1>0 DEF CallInOrder
<1>5. WalkInOrder /\ WorkInOrder
  BY <1>0 DEF WalkInOrder, WorkInOrder
<1>6. CleanMeansTold
  BY <1>0 DEF CleanMeansTold
<1> QED
  BY <1>1, <1>2, <1>3, <1>4, <1>5, <1>6 DEF Inductive

\* A variable that is not declared has no value and was never told.
LEMMA NothingBefore ==
    ASSUME ShapeOK, TreeInOrder, ValuesInOrder, tree[Root] = NoNode, NEW p \in Place
    PROVE  tree[p] = NoNode /\ value[p] = NoValue /\ told[p] = NoValue
<1>1. tree[p] = NoNode
  BY RootComesFirst DEF Declared
<1> QED
  BY <1>1 DEF ValuesInOrder

\* What a declaration is answered, and when it takes effect.
LEMMA DeclareAnswers ==
    ASSUME NEW req \in Request, Declare(req)
    PROVE  /\ result' \in Answers \ {"none"}
           /\ result' = "SUCCESS" <=>
                 /\ tree[Root] = NoNode
                 /\ \A p \in DOMAIN req : Sound(req, p)
                 /\ \A p \in DOMAIN req : req[p].type # "tuple"
<1>1. PICK parse \in Parses[req] :
         result' = IF parse[Root] # "SUCCESS" THEN parse[Root]
                   ELSE IF tree[Root] # NoNode THEN "VARIABLE_ALREADY_INITIALIZED"
                   ELSE NewResult(req)
  BY DEF Declare
<1>2. parse[Root] \in ParseAnswers
  BY VarTreeAssumption DEF IsRequest, Parses
<1>3. parse[Root] = "SUCCESS" <=> \A p \in DOMAIN req : Sound(req, p)
  BY AcceptedIfSound
<1>4. NewResult(req) \in {"UNKNOWN", "SUCCESS"}
  BY DEF NewResult
<1>5. NewResult(req) = "SUCCESS" <=> \A p \in DOMAIN req : req[p].type # "tuple"
  BY DEF NewResult
<1>6. result' \in Answers \ {"none"}
  BY <1>1, <1>2, <1>4 DEF ParseAnswers, Answers
<1> QED
  BY <1>1, <1>3, <1>5, <1>6

\* A declaration leaves a tree in order behind (canopy_var_init).
LEMMA DeclareKeeps ==
    ASSUME Inductive, NEW req \in Request, Declare(req)
    PROVE  Inductive'
<1>0. /\ op = "none" /\ UNCHANGED <<op, arg, at, seen, before>>
      /\ dest' = Nothing /\ UNCHANGED <<value, told, json>>
      /\ IF result' = "SUCCESS" THEN tree' = Built(req) /\ dirty' = TRUE
         ELSE UNCHANGED <<tree, dirty>>
  BY DEF Declare, NoneRuns, callVars
<1>1. /\ ShapeOK /\ TreeInOrder /\ ValuesInOrder /\ CallInOrder /\ CleanMeansTold
      /\ at = NoPlace /\ seen = {}
  BY <1>0 DEF Inductive, CallInOrder
<1>2. CallInOrder' /\ WalkInOrder' /\ WorkInOrder'
  BY <1>0, <1>1 DEF CallInOrder, WalkInOrder, WorkInOrder
<1>3. Nothing \in Content
  BY DEF Nothing, Content
<1>4. CASE result' = "SUCCESS"
  <2>1. /\ tree[Root] = NoNode
        /\ tree' \in [Place -> Node \cup {NoNode}]
        /\ \A p \in Place \ {Root} : tree'[p] # NoNode =>
              tree'[Above[p]] # NoNode /\ tree'[Above[p]].type \in Composite
    BY <1>0, <1>4, DeclareAnswers, BuiltInOrder
  <2>2. ShapeOK'
    BY <1>0, <1>1, <1>3, <1>4, <2>1 DEF ShapeOK, Answers
  <2>3. TreeInOrder'
    BY <2>1 DEF TreeInOrder, Declared
  <2>4. \A p \in Place : value'[p] = NoValue /\ told'[p] = NoValue
    BY <1>0, <1>1, <2>1, NothingBefore
  <2>5. ValuesInOrder'
    BY <2>4 DEF ValuesInOrder
  <2>6. CleanMeansTold'
    BY <1>0, <1>4 DEF CleanMeansTold
  <2> QED
    BY <1>2, <2>2, <2>3, <2>5, <2>6 DEF Inductive
<1>5. CASE result' # "SUCCESS"
  <2>1. UNCHANGED <<tree, dirty>> /\ result' \in Answers
    BY <1>0, <1>5, DeclareAnswers
  <2>2. ShapeOK'
    BY <1>0, <1>1, <1>3, <2>1 DEF ShapeOK, IsLeaf
  <2>3. TreeInOrder' /\ ValuesInOrder' /\ CleanMeansTold'
    BY <1>0, <1>1, <2>1
       DEF TreeInOrder, Declared, ValuesInOrder, CleanMeansTold, IsLeaf, Fits
  <2> QED
    BY <1>2, <2>2, <2>3 DEF Inductive
<1> QED
  BY <1>4, <1>5

\* What beginning a call leaves alone, for each of the calls.
LEMMA CallKeeps ==
    ASSUME Inductive, NEW name \in {"set", "read", "json"}, NEW items,
           Call(name, items), DOMAIN items \subseteq Place, json' \in Content,
           dirty' \in BOOLEAN, UNCHANGED <<tree, value, told>>, dirty => dirty'
    PROVE  ShapeOK' /\ TreeInOrder' /\ ValuesInOrder' /\ WalkInOrder' /\ CleanMeansTold'
<1>0. /\ op' = name /\ arg' = items /\ at' = NoPlace /\ seen' = {}
      /\ before' = [value |-> value, dirty |-> dirty, dest |-> dest, result |-> result]
      /\ result' = "none" /\ dest' = Nothing
  BY DEF Call
<1>1. ShapeOK'
  <2>1. Nothing \in Content
    BY DEF Nothing, Content
  <2>2. before' \in [value : Content, dirty : BOOLEAN, dest : Content, result : Answers]
    BY <1>0 DEF Inductive, ShapeOK
  <2> QED
    BY <1>0, <2>1, <2>2 DEF Inductive, ShapeOK, Answers
<1>2. TreeInOrder' /\ ValuesInOrder'
  BY DEF Inductive, TreeInOrder, Declared, ValuesInOrder, IsLeaf, Fits
<1>3. WalkInOrder'
  BY <1>0 DEF WalkInOrder
<1>4. CleanMeansTold'
  BY DEF Inductive, CleanMeansTold
<1> QED
  BY <1>1, <1>2, <1>3, <1>4

\* A set marks the variable dirty before it writes (st_cloudvar_set_var).
LEMMA SetBeginsKeeps ==
    ASSUME Inductive, NEW items \in Written, SetBegins(items)
    PROVE  Inductive'
<1>0. /\ Call("set", items)
      /\ dirty' = (dirty \/ (tree[Root] # NoNode /\ tree[Root].dir # "in"))
      /\ UNCHANGED <<tree, value, told, json>>
  BY DEF SetBegins
<1>1. DOMAIN items \subseteq Place
  BY VarTreeAssumption DEF IsCanopyVarValue, Assembled
<1>2. json' \in Content /\ dirty' \in BOOLEAN /\ (dirty => dirty')
  BY <1>0 DEF Inductive, ShapeOK
<1>3. ShapeOK' /\ TreeInOrder' /\ ValuesInOrder' /\ WalkInOrder' /\ CleanMeansTold'
  BY <1>0, <1>1, <1>2, CallKeeps
<1>4. CallInOrder'
  BY <1>0 DEF CallInOrder, Call
<1>5. WorkInOrder'
  <2>1. op' = "set" /\ Visited' = {} /\ before'.value = value /\ before'.dirty = dirty
        /\ dest' = Nothing
    BY <1>0 DEF Call, Visited
  <2>2. value' = [p \in Place |-> before'.value[p]]
    BY <1>0, <2>1 DEF Inductive, ShapeOK, Content
  <2> QED
    BY <1>0, <2>1, <2>2 DEF WorkInOrder
<1> QED
  BY <1>3, <1>4, <1>5 DEF Inductive

\* A read begins at the root, with nothing read.
LEMMA ReadBeginsKeeps ==
    ASSUME Inductive, NEW items \in Reader, ReadBegins(items)
    PROVE  Inductive'
<1>0. Call("read", items) /\ UNCHANGED <<tree, value, dirty, told, json>>
  BY DEF ReadBegins
<1>1. DOMAIN items \subseteq Place
  BY VarTreeAssumption DEF IsCanopyVarReader, Assembled
<1>2. json' \in Content /\ dirty' \in BOOLEAN /\ (dirty => dirty')
  BY <1>0 DEF Inductive, ShapeOK
<1>3. ShapeOK' /\ TreeInOrder' /\ ValuesInOrder' /\ WalkInOrder' /\ CleanMeansTold'
  BY <1>0, <1>1, <1>2, CallKeeps
<1>4. CallInOrder'
  BY <1>0 DEF CallInOrder, Call
<1>5. WorkInOrder'
  BY <1>0 DEF WorkInOrder, Call, Visited, Nothing
<1> QED
  BY <1>3, <1>4, <1>5 DEF Inductive

\* A report begins with all nodes of the tree to write.
LEMMA ReportBeginsKeeps ==
    ASSUME Inductive, ReportBegins
    PROVE  Inductive'
<1> DEFINE items == [p \in Reportable |-> tree[p]]
<1>0. /\ dirty /\ Call("json", items) /\ json' = Nothing
      /\ UNCHANGED <<tree, value, dirty, told>>
  BY DEF ReportBegins
<1>1. DOMAIN items \subseteq Place
  BY DEF Reportable, Declared
<1>2. json' \in Content /\ dirty' \in BOOLEAN /\ (dirty => dirty')
  BY <1>0 DEF Inductive, ShapeOK, Nothing, Content
<1>3. ShapeOK' /\ TreeInOrder' /\ ValuesInOrder' /\ WalkInOrder' /\ CleanMeansTold'
  BY <1>0, <1>1, <1>2, CallKeeps
<1>4. CallInOrder'
  BY <1>0 DEF CallInOrder, Call, Reportable, Declared, HasValue, IsLeaf
<1>5. WorkInOrder'
  BY <1>0 DEF WorkInOrder, Call, Visited, Nothing
<1> QED
  BY <1>3, <1>4, <1>5 DEF Inductive

\* Truncating a whole number of units leaves it as it is.
LEMMA TruncateWhole ==
    ASSUME NEW i \in Int
    PROVE  Truncated(Unit * i) = i
<1>1. Unit \in Nat /\ Unit > 0
  BY VarNodeAssumption
<1>2. ASSUME NEW n \in Nat PROVE (Unit * n) \div Unit = n
  BY <1>1, SMTT(30)
<1>3. CASE i >= 0
  <2>1. Unit * i >= 0
    BY <1>1, <1>3, SMTT(30)
  <2> QED
    BY <1>1, <1>2, <1>3, <2>1 DEF Truncated
<1>4. CASE i < 0
  <2>1. Unit * i < 0 /\ -(Unit * i) = Unit * (-i) /\ -i \in Nat
    BY <1>1, <1>4, SMTT(30)
  <2>2. (-(Unit * i)) \div Unit = -i
    BY <1>2, <2>1
  <2>3. Truncated(Unit * i) = -((-(Unit * i)) \div Unit)
    BY <2>1 DEF Truncated
  <2> QED
    BY <2>2, <2>3
<1> QED
  BY <1>3, <1>4

\* A number that a datatype can hold is converted to itself.
LEMMA ConvertHeld ==
    ASSUME NEW t \in Basic, NEW y \in HeldBy(t)
    PROVE  ConvertNumber(t, y) = {y}
<1>1. CASE t \in Signed \cup Unsigned
  <2>1. ConvertNumber(t, y) = ToInteger(t, y)
    BY <1>1 DEF ConvertNumber
  <2>2. Lowest(t) \in Int /\ Highest(t) \in Int
    BY <1>1, RangeAssumption
  <2>3. PICK i \in Lowest(t)..Highest(t) : y = Unit * i
    BY <1>1 DEF HeldBy, IntegersOf
  <2>4. Truncated(y) = i
    BY <2>2, <2>3, TruncateWhole
  <2> QED
    BY <2>1, <2>3, <2>4 DEF ToInteger
<1>2. CASE t = "float32"
  <2>0. Step32 \in Nat /\ Step32 > 0
    BY VarNodeAssumption
  <2>1. ConvertNumber(t, y) = ToFloat32(y)
    BY <1>2 DEF ConvertNumber, Signed, Unsigned
  <2>2. y \in Int /\ y % Step32 = 0
    BY <1>2 DEF HeldBy, Signed, Unsigned
  <2>3. ASSUME NEW m \in ToFloat32(y) PROVE m = y
    <3>1. m \in Int
      BY <2>0, <2>2 DEF ToFloat32
    <3>2. (y - m) * (y - m) <= 0 * 0
      <4>1. 0 \in (-Step32)..Step32 /\ (y - 0) % Step32 = 0
        BY <2>0, <2>2
      <4> QED
        BY <4>1 DEF ToFloat32
    <3>3. ASSUME NEW z \in Int, z * z <= 0 PROVE z = 0
      BY <3>3, SMTT(30)
    <3> QED
      BY <2>2, <3>1, <3>2, <3>3
  <2>4. y \in ToFloat32(y)
    <3>1. 0 \in (-Step32)..Step32 /\ y = y - 0
      BY <2>0, <2>2
    <3>2. ASSUME NEW d \in (-Step32)..Step32 PROVE (y - y) * (y - y) <= d * d
      <4>1. d \in Int /\ d * d >= 0
        BY <2>0, SMTT(30)
      <4> QED
        BY <2>2, <4>1
    <3> QED
      BY <2>2, <3>1, <3>2 DEF ToFloat32
  <2> QED
    BY <2>1, <2>3, <2>4
<1>3. CASE t \notin Signed \cup Unsigned /\ t # "float32"
  BY <1>3 DEF ConvertNumber
<1> QED
  BY <1>1, <1>2, <1>3

\* What a number is converted to, the datatype can hold.
LEMMA ConvertAgain ==
    ASSUME NEW t \in Basic, NEW x \in Int, NEW y \in ConvertNumber(t, x)
    PROVE  ConvertNumber(t, y) = {y}
<1>1. CASE t \in Signed \cup Unsigned
  <2>1. y \in ToInteger(t, x)
    BY <1>1 DEF ConvertNumber
  <2>2. CASE Truncated(x) \in Lowest(t)..Highest(t)
    BY <1>1, <2>1, <2>2, ConvertHeld DEF ToInteger, HeldBy, IntegersOf
  <2>3. CASE Truncated(x) \notin Lowest(t)..Highest(t)
    BY <1>1, <2>1, <2>3, ConvertHeld DEF ToInteger, HeldBy
  <2> QED
    BY <2>2, <2>3
<1>2. CASE t = "float32"
  <2>1. y \in ToFloat32(x)
    BY <1>2 DEF ConvertNumber, Signed, Unsigned
  <2>2. y \in Int /\ y % Step32 = 0
    BY <2>1, VarNodeAssumption DEF ToFloat32
  <2> QED
    BY <1>2, <2>2, ConvertHeld DEF HeldBy, Signed, Unsigned
<1>3. CASE t \notin Signed \cup Unsigned /\ t # "float32"
  BY <1>3 DEF ConvertNumber
<1> QED
  BY <1>1, <1>2, <1>3

\* A JSON item becomes a value that its leaf can hold, and both sides know it.
LEMMA ReceiveKeeps ==
    ASSUME Inductive, NEW item \in Item, Receive(item)
    PROVE  Inductive'
<1>0. /\ op = "none" /\ UNCHANGED <<op, arg, at, seen, before>>
      /\ tree[Root] # NoNode /\ IsLeaf(tree, Root)
      /\ UNCHANGED <<tree, dirty, dest, json, result>>
  BY DEF Receive, NoneRuns, callVars
<1>1. PICK x \in ConvertNumber(tree[Root].type, item.data) :
         value' = [value EXCEPT ![Root] = x] /\ told' = [told EXCEPT ![Root] = x]
  BY DEF Receive
<1>2. /\ ShapeOK /\ TreeInOrder /\ ValuesInOrder /\ CallInOrder /\ CleanMeansTold
      /\ at = NoPlace /\ seen = {}
  BY <1>0 DEF Inductive, CallInOrder
<1>3. x \in Datum /\ x # NoValue /\ Fits(Root, x)
  <2>1. tree[Root].type \in Basic
    BY <1>0 DEF IsLeaf
  <2>2. item.data \in Int /\ ConvertNumber(tree[Root].type, item.data) \subseteq Datum
    BY <2>1, VarTreeAssumption, VarNodeAssumption
  <2>3. ConvertNumber(tree[Root].type, x) = {x}
    BY <1>1, <2>1, <2>2, ConvertAgain
  <2> QED
    BY <2>2, <2>3, VarNodeAssumption DEF Fits
<1>4. /\ Root \in Place /\ value' \in Content /\ told' \in Content
      /\ value'[Root] = x /\ told'[Root] = x
      /\ \A p \in Place \ {Root} : value'[p] = value[p] /\ told'[p] = told[p]
  BY <1>1, <1>2, <1>3, VarNodeAssumption DEF ShapeOK, Content
<1>5. ShapeOK'
  BY <1>0, <1>2, <1>4 DEF ShapeOK, IsLeaf
<1>6. TreeInOrder' /\ CallInOrder' /\ WalkInOrder' /\ WorkInOrder'
  BY <1>0, <1>2 DEF TreeInOrder, Declared, CallInOrder, WalkInOrder, WorkInOrder
<1>7. ValuesInOrder'
  <2>1. \A p \in Place : \A y : Fits(p, y)' <=> Fits(p, y)
    BY <1>0 DEF Fits
  <2>2. \A p \in Place : value'[p] # NoValue =>
           tree[p] # NoNode /\ IsLeaf(tree, p) /\ Fits(p, value'[p])
    BY <1>0, <1>2, <1>3, <1>4 DEF ValuesInOrder
  <2>3. \A p \in Place : told'[p] # NoValue => value'[p] # NoValue /\ Fits(p, told'[p])
    BY <1>2, <1>3, <1>4 DEF ValuesInOrder
  <2> QED
    BY <1>0, <2>2, <2>3 DEF ValuesInOrder, IsLeaf, Fits
<1>8. CleanMeansTold'
  BY <1>0, <1>1, <1>2 DEF CleanMeansTold
<1> QED
  BY <1>5, <1>6, <1>7, <1>8 DEF Inductive

\* What a step of a walk leaves alone.
LEMMA WalkKeeps ==
    ASSUME Inductive, op # "none", UNCHANGED <<tree, told, op, arg, before>>,
           op \in {"read", "json"} => UNCHANGED value
    PROVE  /\ op \in {"set", "read", "json"}
           /\ TreeInOrder' /\ CallInOrder'
           /\ \A p : Verdict(p)' = Verdict(p)
<1>1. op \in {"set", "read", "json"}
  BY DEF Inductive, ShapeOK
<1>2. TreeInOrder'
  BY DEF Inductive, TreeInOrder, Declared
<1>3. CallInOrder'
  <2>1. op = "json" => Reportable' = Reportable
    BY DEF Reportable, Declared, HasValue, IsLeaf
  <2> QED
    BY <2>1 DEF Inductive, CallInOrder
<1> QED
  BY <1>1, <1>2, <1>3, JudgedTheSame

\* The recursive call goes on below a node that lets the call pass.
LEMMA DescendKeeps ==
    ASSUME Inductive, NEW p \in DOMAIN arg, Descend(p)
    PROVE  Inductive'
<1>0. /\ Reaches(p) /\ Verdict(p) = "SUCCESS" /\ ~IsLeaf(tree, p) /\ at' = p
      /\ op # "none" /\ p \notin seen
      /\ UNCHANGED <<tree, value, dirty, told, dest, json, result, op, arg, seen, before>>
  BY DEF Descend, Passes, Reaches
<1>1. TreeInOrder' /\ CallInOrder' /\ \A q : Verdict(q)' = Verdict(q)
  BY <1>0, WalkKeeps
<1>2. ShapeOK'
  BY <1>0 DEF Inductive, ShapeOK, IsLeaf
<1>3. \A q \in Path[p] : Verdict(q) = "SUCCESS" /\ q \notin seen
  BY <1>0, OnTheWay DEF Inductive
<1>4. WalkInOrder'
  BY <1>0, <1>1, <1>3 DEF Inductive, WalkInOrder, Clear
<1>5. ValuesInOrder' /\ CleanMeansTold'
  BY <1>0 DEF Inductive, ValuesInOrder, IsLeaf, Fits, CleanMeansTold
<1>6. WorkInOrder'
  BY <1>0 DEF Inductive, WorkInOrder, Visited, IsLeaf
<1> QED
  BY <1>1, <1>2, <1>4, <1>5, <1>6 DEF Inductive

\* Its return is done with the node, and all that is below it.
LEMMA AscendKeeps ==
    ASSUME Inductive, Ascend
    PROVE  Inductive'
<1>0. /\ op # "none" /\ at # NoPlace /\ AllSeen
      /\ at' = Above[at] /\ seen' = seen \cup {at}
      /\ UNCHANGED <<tree, value, dirty, told, dest, json, result, op, arg, before>>
  BY DEF Ascend
<1>1. TreeInOrder' /\ CallInOrder' /\ \A q : Verdict(q)' = Verdict(q)
  BY <1>0, WalkKeeps
<1>2. /\ at \in DOMAIN arg /\ at \in Place /\ at \notin seen /\ ~IsLeaf(tree, at)
      /\ op \in {"set", "read", "json"}
      /\ \A q \in Path[at] : Verdict(q) = "SUCCESS" /\ q \notin seen
  BY <1>0 DEF Inductive, ShapeOK, WalkInOrder, Clear
<1>s. \A p \in seen' : /\ \A q \in Path[p] : Verdict(q) = "SUCCESS"
                      /\ \A q \in DOMAIN arg : Above[q] = p => q \in seen'
  BY <1>0, <1>2 DEF Inductive, WalkInOrder, Clear, AllSeen
<1>3. ASSUME at = Root PROVE ShapeOK' /\ WalkInOrder'
  <2>1. at' = NoPlace
    BY <1>0, <1>3, VarNodeAssumption
  <2>2. ShapeOK'
    BY <1>0, <1>2, <2>1 DEF Inductive, ShapeOK
  <2>3. WalkInOrder'
    BY <1>0, <1>1, <1>s, <2>1 DEF WalkInOrder, Clear
  <2> QED
    BY <2>2, <2>3
<1>4. ASSUME at # Root PROVE ShapeOK' /\ WalkInOrder'
  <2>1. /\ Path[at] = {at} \cup Path[at'] /\ at \notin Path[at']
        /\ at' \in Place /\ at' \in Path[at']
    BY <1>0, <1>2, <1>4, PathOneUp, PathIsClosed, AboveIsPlace
  <2>2. at' \in DOMAIN arg
    BY <1>0, <1>2, <1>4, ArgIsTree DEF Inductive
  <2>3. at \in Declared(tree)
    BY <1>2, <2>1, VerdictOfNothing DEF Inductive, Declared
  <2>4. ~IsLeaf(tree, at')
    BY <1>0, <1>4, <2>3, BasicOrComposite DEF Inductive, TreeInOrder, IsLeaf
  <2>5. ShapeOK'
    BY <1>0, <1>2, <2>1, <2>2, <2>4 DEF Inductive, ShapeOK, IsLeaf
  <2>6. \A q \in Path[at'] : Verdict(q) = "SUCCESS" /\ q \notin seen'
    BY <1>0, <1>2, <2>1
  <2>7. WalkInOrder'
    BY <1>0, <1>1, <1>s, <2>6 DEF WalkInOrder, Clear
  <2> QED
    BY <2>5, <2>7
<1>5. ValuesInOrder' /\ CleanMeansTold'
  BY <1>0 DEF Inductive, ValuesInOrder, IsLeaf, Fits, CleanMeansTold
<1>6. WorkInOrder'
  <2>1. Visited' = Visited
    BY <1>0, <1>2 DEF Visited, IsLeaf
  <2> QED
    BY <1>0, <2>1 DEF Inductive, WorkInOrder
<1> QED
  BY <1>1, <1>3, <1>4, <1>5, <1>6 DEF Inductive

\* What the work on a leaf leaves alone, whatever it is.
LEMMA AtLeafKeeps ==
    ASSUME Inductive, NEW p \in DOMAIN arg, AtLeaf(p),
           op \in {"read", "json"} => UNCHANGED value
    PROVE  /\ op \in {"set", "read", "json"} /\ p \in Place
           /\ Verdict(p) = "SUCCESS" /\ Verdict(Root) = "SUCCESS"
           /\ tree[p] # NoNode /\ IsLeaf(tree, p)
           /\ seen' \subseteq DOMAIN arg
           /\ at # NoPlace => at \notin seen'
           /\ Visited' = Visited \cup {p}
           /\ TreeInOrder' /\ CallInOrder' /\ WalkInOrder'
<1>0. /\ Reaches(p) /\ Verdict(p) = "SUCCESS" /\ IsLeaf(tree, p)
      /\ op # "none" /\ Above[p] = at /\ p \notin seen /\ seen' = seen \cup {p}
      /\ UNCHANGED <<tree, dirty, told, result, op, arg, at, before>>
  BY DEF AtLeaf, Passes, Reaches
<1>1. /\ op \in {"set", "read", "json"}
      /\ TreeInOrder' /\ CallInOrder' /\ \A q : Verdict(q)' = Verdict(q)
  BY <1>0, WalkKeeps
<1>2. p \in Place /\ \A q \in Path[p] : Verdict(q) = "SUCCESS"
  BY <1>0, OnTheWay DEF Inductive
<1>3. Verdict(Root) = "SUCCESS"
  BY <1>2, RootOnPath
<1>4. tree[p] # NoNode
  BY <1>0, <1>1, VerdictOfNothing DEF Inductive
<1>5. seen' \subseteq DOMAIN arg /\ Visited' = Visited \cup {p}
  BY <1>0 DEF Inductive, ShapeOK, Visited, IsLeaf
<1>6. at # NoPlace => p \notin Path[at]
  BY <1>0, <1>2, PathOneUp, VarNodeAssumption
<1>7. at # NoPlace => \A q \in Path[at] : Verdict(q) = "SUCCESS" /\ q \notin seen'
  BY <1>0, <1>6 DEF Inductive, WalkInOrder, Clear
<1>8. at # NoPlace => at \notin seen'
  BY <1>7, PathIsClosed DEF Inductive, ShapeOK
<1>9. \A q \in DOMAIN arg : Above[q] # p
  BY <1>0, ArgIsTree DEF Inductive
<1>10. \A q \in seen' : /\ \A r \in Path[q] : Verdict(r) = "SUCCESS"
                        /\ \A r \in DOMAIN arg : Above[r] = q => r \in seen'
  BY <1>0, <1>2, <1>9 DEF Inductive, WalkInOrder, Clear
<1>11. WalkInOrder'
  BY <1>0, <1>1, <1>7, <1>10 DEF WalkInOrder, Clear
<1> QED
  BY <1>0, <1>1, <1>2, <1>3, <1>4, <1>5, <1>8, <1>11

\* A set reaches nothing inside of an inbound variable, and has marked any other dirty.
LEMMA DirtyBeforeSet ==
    ASSUME Inductive, op = "set", Verdict(Root) = "SUCCESS"
    PROVE  dirty
<1>1. tree[Root] # NoNode /\ tree[Root].dir # "in"
  BY DEF Verdict, SetVerdict, Missing
<1> QED
  BY <1>1 DEF Inductive, WorkInOrder

\* The datum that a set leaves at a leaf is one of the leaf's datatype.
LEMMA DatumFits ==
    ASSUME Inductive, op = "set", NEW p \in DOMAIN arg, Verdict(p) = "SUCCESS",
           IsLeaf(tree, p)
    PROVE  arg[p].data \in Datum /\ Fits(p, arg[p].data)
<1>1. arg \in Written
  BY DEF Inductive, CallInOrder
<1>2. arg[p].type = tree[p].type /\ arg[p].type \in Basic
  BY DEF Verdict, SetVerdict, Missing, IsLeaf
<1>3. arg[p].data \in Datum
  BY <1>1, <1>2, VarTreeAssumption DEF IsCanopyVarValue
<1>4. ConvertNumber(arg[p].type, arg[p].data) = {arg[p].data}
  BY <1>1, <1>2, VarTreeAssumption, ConvertHeld
<1> QED
  BY <1>2, <1>3, <1>4 DEF Fits

\* A set writes a leaf of a variable that is already dirty.
LEMMA SetLeafKeeps ==
    ASSUME Inductive, NEW p \in DOMAIN arg, SetLeaf(p)
    PROVE  Inductive'
<1>0. /\ op = "set" /\ AtLeaf(p) /\ value' = [value EXCEPT ![p] = arg[p].data]
      /\ UNCHANGED <<dest, json>>
      /\ UNCHANGED <<tree, dirty, told, result, op, arg, at, before>>
  BY DEF SetLeaf, AtLeaf
<1>1. /\ p \in Place /\ Verdict(p) = "SUCCESS" /\ Verdict(Root) = "SUCCESS"
      /\ tree[p] # NoNode /\ IsLeaf(tree, p)
      /\ seen' \subseteq DOMAIN arg /\ (at # NoPlace => at \notin seen')
      /\ Visited' = Visited \cup {p}
      /\ TreeInOrder' /\ CallInOrder' /\ WalkInOrder'
  BY <1>0, AtLeafKeeps
<1>2. dirty
  BY <1>0, <1>1, DirtyBeforeSet
<1>3. arg[p].data \in Datum /\ Fits(p, arg[p].data)
  BY <1>0, <1>1, DatumFits
<1>4. /\ value' \in Content /\ value'[p] = arg[p].data /\ value'[p] # NoValue
      /\ \A q \in Place \ {p} : value'[q] = value[q]
  BY <1>0, <1>1, <1>3, VarNodeAssumption DEF Inductive, ShapeOK, Content
<1>5. ShapeOK'
  BY <1>0, <1>1, <1>4 DEF Inductive, ShapeOK, IsLeaf
<1>6. ValuesInOrder'
  <2>1. \A q \in Place : value'[q] # NoValue =>
           tree[q] # NoNode /\ IsLeaf(tree, q) /\ Fits(q, value'[q])
    BY <1>1, <1>3, <1>4 DEF Inductive, ValuesInOrder
  <2>2. \A q \in Place : told[q] # NoValue => value'[q] # NoValue /\ Fits(q, told[q])
    BY <1>4 DEF Inductive, ValuesInOrder
  <2> QED
    BY <1>0, <2>1, <2>2 DEF ValuesInOrder, IsLeaf, Fits
<1>7. CleanMeansTold'
  BY <1>0, <1>2 DEF CleanMeansTold
<1>8. WorkInOrder'
  <2>1. value' = [q \in Place |-> IF q \in Visited' THEN arg[q].data ELSE before.value[q]]
    BY <1>0, <1>1 DEF Inductive, WorkInOrder
  <2> QED
    BY <1>0, <1>2, <2>1 DEF Inductive, WorkInOrder
<1> QED
  BY <1>1, <1>5, <1>6, <1>7, <1>8 DEF Inductive

\* A read fills the destination of a leaf.
LEMMA ReadLeafKeeps ==
    ASSUME Inductive, NEW p \in DOMAIN arg, ReadLeaf(p)
    PROVE  Inductive'
<1>0. /\ op = "read" /\ AtLeaf(p) /\ dest' = [dest EXCEPT ![p] = value[p]]
      /\ UNCHANGED <<value, json>>
      /\ UNCHANGED <<tree, dirty, told, result, op, arg, at, before>>
  BY DEF ReadLeaf, AtLeaf
<1>1. /\ p \in Place /\ seen' \subseteq DOMAIN arg /\ (at # NoPlace => at \notin seen')
      /\ Visited' = Visited \cup {p}
      /\ TreeInOrder' /\ CallInOrder' /\ WalkInOrder'
  BY <1>0, AtLeafKeeps
<1>2. dest' \in Content
  BY <1>0, <1>1 DEF Inductive, ShapeOK, Content
<1>3. ShapeOK'
  BY <1>0, <1>1, <1>2 DEF Inductive, ShapeOK, IsLeaf
<1>4. ValuesInOrder' /\ CleanMeansTold'
  BY <1>0 DEF Inductive, ValuesInOrder, IsLeaf, Fits, CleanMeansTold
<1>5. WorkInOrder'
  <2>1. dest' = [q \in Place |-> IF q \in Visited' THEN value[q] ELSE NoValue]
    BY <1>0, <1>1 DEF Inductive, WorkInOrder
  <2> QED
    BY <1>0, <2>1 DEF Inductive, WorkInOrder
<1> QED
  BY <1>1, <1>3, <1>4, <1>5 DEF Inductive

\* A report writes a leaf into the JSON object.
LEMMA WriteLeafKeeps ==
    ASSUME Inductive, NEW p \in DOMAIN arg, WriteLeaf(p)
    PROVE  Inductive'
<1>0. /\ op = "json" /\ AtLeaf(p) /\ json' = [json EXCEPT ![p] = value[p]]
      /\ UNCHANGED <<value, dest>>
      /\ UNCHANGED <<tree, dirty, told, result, op, arg, at, before>>
  BY DEF WriteLeaf, AtLeaf
<1>1. /\ p \in Place /\ seen' \subseteq DOMAIN arg /\ (at # NoPlace => at \notin seen')
      /\ Visited' = Visited \cup {p}
      /\ TreeInOrder' /\ CallInOrder' /\ WalkInOrder'
  BY <1>0, AtLeafKeeps
<1>2. json' \in Content
  BY <1>0, <1>1 DEF Inductive, ShapeOK, Content
<1>3. ShapeOK'
  BY <1>0, <1>1, <1>2 DEF Inductive, ShapeOK, IsLeaf
<1>4. ValuesInOrder' /\ CleanMeansTold'
  BY <1>0 DEF Inductive, ValuesInOrder, IsLeaf, Fits, CleanMeansTold
<1>5. WorkInOrder'
  <2>1. json' = [q \in Place |-> IF q \in Visited' THEN value[q] ELSE NoValue]
    BY <1>0, <1>1 DEF Inductive, WorkInOrder
  <2> QED
    BY <1>0, <2>1 DEF Inductive, WorkInOrder
<1> QED
  BY <1>1, <1>3, <1>4, <1>5 DEF Inductive

\* A report that was walked to its end carries the value, leaf by leaf.
LEMMA ReportIsWhole ==
    ASSUME Inductive, op = "json", at = NoPlace, AllSeen
    PROVE  [p \in Place |-> IF p \in Reportable THEN json[p] ELSE told[p]] = value
<1>1. DOMAIN arg = seen /\ DOMAIN arg = Reportable
  BY AllWalked DEF Inductive, CallInOrder
<1>2. ASSUME NEW p \in Place
      PROVE  value[p] = IF p \in Reportable THEN json[p] ELSE told[p]
  <2>1. CASE p \in Reportable
    <3>1. json[p] = IF IsLeaf(tree, p) THEN value[p] ELSE NoValue
      BY <1>1, <2>1 DEF Inductive, WorkInOrder, Visited
    <3> QED
      BY <2>1, <3>1 DEF Inductive, ValuesInOrder
  <2>2. CASE p \notin Reportable
    <3>1. value[p] = NoValue
      BY <2>2 DEF Inductive, ValuesInOrder, Reportable, Declared, HasValue
    <3> QED
      BY <2>2, <3>1 DEF Inductive, ValuesInOrder
  <2> QED
    BY <2>1, <2>2
<1>3. value = [p \in Place |-> value[p]]
  BY DEF Inductive, ShapeOK, Content
<1> QED
  BY <1>2, <1>3

\* A call that returns, with any answer, leaves things in order if what it does to the
\* marks and to the history does.
LEMMA ReturnKeeps ==
    ASSUME Inductive, NEW r \in Answers, Return(r), dirty' \in BOOLEAN,
           \/ UNCHANGED <<dirty, told>>
           \/ told' = value
    PROVE  Inductive'
<1>0. /\ result' = r /\ op' = "none" /\ arg' = NoCall /\ at' = NoPlace
      /\ json' = Nothing /\ seen' = {} /\ UNCHANGED <<tree, value, dest>>
  BY DEF Return
<1>1. told' \in Content
  BY <1>0 DEF Inductive, ShapeOK
<1>2. ShapeOK'
  <2>1. DOMAIN arg' = {} /\ json' \in Content
    BY <1>0 DEF NoCall, Nothing, Content
  <2> QED
    BY <1>0, <1>1, <2>1 DEF Inductive, ShapeOK
<1>3. TreeInOrder' /\ CallInOrder' /\ WalkInOrder' /\ WorkInOrder'
  BY <1>0 DEF Inductive, TreeInOrder, Declared, CallInOrder, WalkInOrder, WorkInOrder
<1>4. ValuesInOrder'
  BY <1>0 DEF Inductive, ValuesInOrder, IsLeaf, Fits
<1>5. CleanMeansTold'
  BY <1>0 DEF Inductive, CleanMeansTold
<1> QED
  BY <1>2, <1>3, <1>4, <1>5 DEF Inductive

\* A call that fails returns, and leaves what it has done.
LEMMA FailKeeps ==
    ASSUME Inductive, NEW p \in DOMAIN arg, Fail(p)
    PROVE  Inductive'
<1>0. /\ op \in {"set", "read", "json"} /\ Return(Verdict(p))
      /\ UNCHANGED <<dirty, told>> /\ dirty' \in BOOLEAN
  BY DEF Fail, Reaches, Inductive, ShapeOK
<1>1. Verdict(p) \in Answers
  BY <1>0 DEF Verdict, SetVerdict, ReadVerdict, Missing, Answers
<1> QED
  BY <1>0, <1>1, ReturnKeeps

\* So does one that succeeds.
LEMMA SucceedKeeps ==
    ASSUME Inductive, Succeed
    PROVE  Inductive'
<1>1. Return("SUCCESS") /\ UNCHANGED <<dirty, told>> /\ dirty' \in BOOLEAN
  BY DEF Succeed, Inductive, ShapeOK
<1>2. "SUCCESS" \in Answers
  BY DEF Answers
<1> QED
  BY <1>1, <1>2, ReturnKeeps

\* A report that gets through has told all there is; one that does not leaves the
\* variable dirty.
LEMMA ReportedKeeps ==
    ASSUME Inductive, Reported
    PROVE  Inductive'
<1>0. "SUCCESS" \in Answers /\ "CONNECTION_FAILED" \in Answers
  BY DEF Answers
<1>1. CASE Return("CONNECTION_FAILED") /\ UNCHANGED <<dirty, told>>
  <2>1. dirty' \in BOOLEAN
    BY <1>1 DEF Inductive, ShapeOK
  <2> QED
    BY <1>0, <1>1, <2>1, ReturnKeeps
<1>2. CASE /\ Return("SUCCESS") /\ dirty' = FALSE
           /\ told' = [p \in Place |-> IF p \in Reportable THEN json[p] ELSE told[p]]
  <2>1. told' = value
    BY <1>2, ReportIsWhole DEF Reported
  <2> QED
    BY <1>0, <1>2, <2>1, ReturnKeeps
<1> QED
  BY <1>1, <1>2 DEF Reported

\* The invariant is inductive.
LEMMA NextInductive == Inductive /\ [Next]_vars => Inductive'
<1> SUFFICES ASSUME Inductive, [Next]_vars PROVE Inductive'
  OBVIOUS
<1>1. ASSUME NEW req \in Request, Declare(req) PROVE Inductive'
  BY <1>1, DeclareKeeps
<1>2. ASSUME NEW items \in Written, SetBegins(items) PROVE Inductive'
  BY <1>2, SetBeginsKeeps
<1>3. ASSUME NEW items \in Reader, ReadBegins(items) PROVE Inductive'
  BY <1>3, ReadBeginsKeeps
<1>4. ASSUME ReportBegins PROVE Inductive'
  BY <1>4, ReportBeginsKeeps
<1>5. ASSUME Step PROVE Inductive'
  <2>1. ASSUME NEW p \in DOMAIN arg,
               Descend(p) \/ SetLeaf(p) \/ ReadLeaf(p) \/ WriteLeaf(p) \/ Fail(p)
        PROVE  Inductive'
    BY <2>1, DescendKeeps, SetLeafKeeps, ReadLeafKeeps, WriteLeafKeeps, FailKeeps
  <2> QED
    BY <1>5, <2>1, AscendKeeps, SucceedKeeps, ReportedKeeps DEF Step
<1>6. ASSUME NEW item \in Item, Receive(item) PROVE Inductive'
  BY <1>6, ReceiveKeeps
<1>7. ASSUME UNCHANGED vars PROVE Inductive'
  <2>1. /\ UNCHANGED <<tree, value, dirty, told, dest, json, result>>
        /\ UNCHANGED <<op, arg, at, seen, before>>
    BY <1>7 DEF vars, callVars
  <2>2. ShapeOK' /\ TreeInOrder' /\ ValuesInOrder' /\ CleanMeansTold'
    BY <2>1 DEF Inductive, ShapeOK, TreeInOrder, Declared, ValuesInOrder, IsLeaf, Fits,
                CleanMeansTold
  <2>3. CallInOrder'
    <3>1. Reportable' = Reportable
      BY <2>1 DEF Reportable, Declared, HasValue, IsLeaf
    <3> QED
      BY <2>1, <3>1 DEF Inductive, CallInOrder
  <2>4. WalkInOrder'
    <3>1. op \in {"set", "read", "json"} => \A p : Verdict(p)' = Verdict(p)
      BY <2>1, JudgedTheSame
    <3> QED
      BY <2>1, <3>1 DEF Inductive, ShapeOK, WalkInOrder, Clear
  <2>5. WorkInOrder'
    BY <2>1 DEF Inductive, WorkInOrder, Visited, IsLeaf
  <2> QED
    BY <2>2, <2>3, <2>4, <2>5 DEF Inductive
<1> QED
  BY <1>1, <1>2, <1>3, <1>4, <1>5, <1>6, <1>7 DEF Next

-----------------------------------------------------------------------------
(* The theorems *)

\* The inductive invariant holds of every behaviour of the calls on a variable.
THEOREM InductiveHolds == Spec => []Inductive
<1>1. Init => Inductive
  BY InitInductive
<1>2. Inductive /\ [Next]_vars => Inductive'
  BY NextInductive
<1> QED
  BY <1>1, <1>2, PTL DEF Spec

\* A datum that converts to itself is one that the datatype can hold.
LEMMA HeldIfFits ==
    ASSUME NEW t \in Basic, NEW x \in Datum, ConvertNumber(t, x) = {x}
    PROVE  x \in HeldBy(t)
<1>0. x \in Int
  BY VarNodeAssumption
<1>1. CASE t \in Signed \cup Unsigned
  <2>1. x \in ToInteger(t, x)
    BY <1>1 DEF ConvertNumber
  <2>2. x \in IntegersOf(t)
    BY <2>1 DEF ToInteger, IntegersOf
  <2> QED
    BY <1>1, <2>2 DEF HeldBy
<1>2. CASE t = "float32"
  <2>1. x \in ToFloat32(x)
    BY <1>2 DEF ConvertNumber, Signed, Unsigned
  <2>2. x % Step32 = 0
    BY <2>1 DEF ToFloat32
  <2> QED
    BY <1>0, <1>2, <2>2 DEF HeldBy, Signed, Unsigned
<1>3. CASE t \notin Signed \cup Unsigned /\ t # "float32"
  BY <1>0, <1>3 DEF HeldBy
<1> QED
  BY <1>1, <1>2, <1>3

\* Every variable has its type, every walk is somewhere on what it walks, and no leaf
\* ever holds a datum of another datatype than it was declared with.
THEOREM TreeTypeCorrect == Spec => []TypeOK
<1>1. Inductive => TypeOK
  <2> SUFFICES ASSUME Inductive, NEW p \in Place, value[p] # NoValue
               PROVE  tree[p] # NoNode /\ IsLeaf(tree, p) /\ value[p] \in HeldBy(tree[p].type)
    BY DEF Inductive, TypeOK
  <2>1. tree[p] # NoNode /\ IsLeaf(tree, p) /\ Fits(p, value[p])
    BY DEF Inductive, ValuesInOrder
  <2>2. value[p] \in Datum
    BY DEF Inductive, ShapeOK, Content
  <2> QED
    BY <2>1, <2>2, HeldIfFits DEF Fits, IsLeaf
<1> QED
  BY <1>1, InductiveHolds, PTL

\* A variable that is not due for a report is what the two sides last told each other,
\* for trees of any shape and calls stopped at any node.
THEOREM CleanMeansToldCorrect == Spec => []CleanMeansTold
<1>1. Inductive => CleanMeansTold
  BY DEF Inductive
<1> QED
  BY <1>1, InductiveHolds, PTL

\* A set changes no leaf that has something inbound above it, at any depth.
THEOREM InboundTreeCorrect == Spec => InboundTreeNotSet
<1>1. ASSUME Inductive, [Next]_vars, op = "set", NEW p \in Place, value'[p] # value[p]
      PROVE  \A q \in Path[p] : tree[q].dir # "in"
  <2>1. PICK r \in DOMAIN arg : SetLeaf(r)
    BY <1>1 DEF Next, Step, Declare, NoneRuns, SetBegins, ReadBegins, ReportBegins, Call,
                Descend, ReadLeaf, WriteLeaf, Fail, Ascend, Succeed, Reported, Return,
                Receive, vars
  <2>2. Reaches(r) /\ Verdict(r) = "SUCCESS" /\ value' = [value EXCEPT ![r] = arg[r].data]
    BY <2>1 DEF SetLeaf, AtLeaf, Passes
  <2>3. p = r
    BY <1>1, <2>2 DEF Inductive, ShapeOK, Content
  <2>4. \A q \in Path[p] : Verdict(q) = "SUCCESS"
    BY <1>1, <2>2, <2>3, OnTheWay DEF Inductive
  <2> QED
    BY <1>1, <2>4 DEF Verdict, SetVerdict, Missing
<1>2. Inductive /\ [Next]_vars =>
         [\A p \in Place :
            op = "set" /\ value'[p] # value[p] => \A q \in Path[p] : tree[q].dir # "in"]_vars
  BY <1>1
<1> QED
  BY <1>2, InductiveHolds, PTL DEF Spec, InboundTreeNotSet

\* A read that is answered with success has filled every destination, whatever order
\* it went through the fields and indices in.
THEOREM ReadFillsAllCorrect == Spec => ReadFillsAll
<1>1. ASSUME Inductive, [Next]_vars, op = "read", op' = "none", result' = "SUCCESS",
             NEW p \in DOMAIN arg, arg[p].type \in Basic
      PROVE  dest'[p] # NoValue /\ dest'[p] = value[p] /\ tree[p].type = arg[p].type
  <2>1. Succeed
    <3>1. ASSUME NEW q \in DOMAIN arg, Fail(q) PROVE FALSE
      BY <1>1, <3>1 DEF Fail, Return
    <3> QED
      BY <1>1, <3>1 DEF Next, Step, Declare, NoneRuns, SetBegins, ReadBegins, ReportBegins,
                Call, Descend, SetLeaf, ReadLeaf, WriteLeaf, AtLeaf, Ascend, Reported,
                Receive, vars, callVars
  <2>2. at = NoPlace /\ AllSeen /\ dest' = dest
    BY <2>1 DEF Succeed, Return
  <2>3. p \in seen /\ p \in Place
    BY <1>1, <2>2, AllWalked DEF Inductive, ShapeOK
  <2>4. Verdict(p) = "SUCCESS"
    BY <1>1, <2>3, PathIsClosed DEF Inductive, WalkInOrder, Clear
  <2>5. /\ tree[p].type = arg[p].type /\ IsLeaf(tree, p)
        /\ value[p] # NoValue
    BY <1>1, <2>4 DEF Verdict, ReadVerdict, Missing, HasValue, IsLeaf
  <2>6. dest[p] = value[p]
    BY <1>1, <2>3, <2>5 DEF Inductive, WorkInOrder, Visited
  <2> QED
    BY <2>2, <2>5, <2>6
<1>2. Inductive /\ [Next]_vars =>
         [op = "read" /\ op' = "none" /\ result' = "SUCCESS" =>
            \A p \in DOMAIN arg : arg[p].type \in Basic =>
               /\ dest'[p] # NoValue /\ dest'[p] = value[p]
               /\ tree[p].type = arg[p].type]_vars
  BY <1>1
<1> QED
  BY <1>2, InductiveHolds, PTL DEF Spec, ReadFillsAll

\* A number that comes back from the cloud as it was told leaves a variable that was
\* not set since as it is, for every width of the integers and every spacing of the
\* float32 values.
THEOREM EchoCorrect == Spec => EchoIsHarmless
<1>1. ASSUME Inductive, NEW item \in Item, Receive(item), item.data = told[Root], ~dirty
      PROVE  value' = value
  <2>1. PICK x \in ConvertNumber(tree[Root].type, item.data) :
           value' = [value EXCEPT ![Root] = x]
    BY <1>1 DEF Receive
  <2>2. told[Root] # NoValue
    BY <1>1, VarTreeAssumption, VarNodeAssumption
  <2>3. ConvertNumber(tree[Root].type, told[Root]) = {told[Root]}
    BY <1>1, <2>2, VarNodeAssumption DEF Inductive, ValuesInOrder, Fits
  <2>4. x = told[Root]
    BY <1>1, <2>1, <2>3
  <2>5. value[Root] = told[Root]
    BY <1>1 DEF Inductive, CleanMeansTold
  <2> QED
    BY <1>1, <2>1, <2>4, <2>5, VarNodeAssumption DEF Inductive, ShapeOK, Content
<1>2. Inductive =>
         [\A item \in Item :
            Receive(item) /\ item.data = told[Root] /\ ~dirty => value' = value]_vars
  BY <1>1
<1> QED
  BY <1>2, InductiveHolds, PTL DEF Spec, EchoIsHarmless

-----------------------------------------------------------------------------
(* The calls implement VarAccess *)

\* The promise is stated with definitions of its own, which are the same.
LEMMA SameWords ==
    /\ Access!Path = Path /\ Access!Nothing = Nothing
    /\ Access!Basic = Basic /\ Access!Composite = Composite
    /\ Access!Declared(tree) = Declared(tree)
    /\ \A p : Access!IsLeaf(tree, p) = IsLeaf(tree, p)
    /\ \A req : Access!Built(req) = Built(req)
    /\ \A t : Access!JsonKind(t) = JsonKind(t)
    /\ \A v, p : Access!SetVerdict(tree, v, arg, p) = SetVerdict(tree, v, arg, p)
    /\ \A v, p : Access!ReadVerdict(tree, v, arg, p) = ReadVerdict(tree, v, arg, p)
<1>1. Access!Basic = Basic /\ Access!Composite = Composite
  BY DEF Access!Basic, Basic, Access!Composite, Composite, Access!Signed, Signed,
         Access!Unsigned, Unsigned
<1>2. Access!Path = Path
  BY DEF Access!Path, Path, Access!Closed, Closed
<1>3. Access!Nothing = Nothing /\ Access!Declared(tree) = Declared(tree)
  BY DEF Access!Nothing, Nothing, Access!Declared, Declared
<1>4. \A p : Access!IsLeaf(tree, p) = IsLeaf(tree, p)
  BY <1>1 DEF Access!IsLeaf, IsLeaf
<1>5. \A req : Access!Built(req) = Built(req)
  BY DEF Access!Built, Built
<1>6. \A t : Access!JsonKind(t) = JsonKind(t)
  BY <1>1 DEF Access!JsonKind, JsonKind
<1>7. \A v, p : Access!SetVerdict(tree, v, arg, p) = SetVerdict(tree, v, arg, p)
  BY <1>4 DEF Access!SetVerdict, SetVerdict, Access!Missing, Missing
<1>8. \A v, p : Access!ReadVerdict(tree, v, arg, p) = ReadVerdict(tree, v, arg, p)
  BY <1>4 DEF Access!ReadVerdict, ReadVerdict, Access!Missing, Missing,
              Access!HasValue, HasValue
<1> QED
  BY <1>1, <1>2, <1>3, <1>4, <1>5, <1>6, <1>7, <1>8

ClearLeaves == {p \in DOMAIN arg : Clear(p) /\ IsLeaf(tree, p)}
Stops == {p \in DOMAIN arg : /\ Verdict(p) # "SUCCESS"
                             /\ \A q \in Path[p] \ {p} : Verdict(q) = "SUCCESS"}

\* What stops a set, and the leaves it gets to, do not depend on what it has done.
LEMMA SetSeesTheSame ==
    ASSUME op = "set"
    PROVE  /\ Access!OpenLeaves(Access!SetVerdict, arg) = ClearLeaves
           /\ Access!Blocked(Access!SetVerdict, arg) = Stops
           /\ \A p : Access!SetVerdict(tree, before.value, arg, p) = Verdict(p)
<1>1. \A p : Access!SetVerdict(tree, before.value, arg, p) = Verdict(p)
  BY SameWords DEF Verdict, SetVerdict
<1>2. Access!OpenLeaves(Access!SetVerdict, arg) = ClearLeaves
  BY <1>1, SameWords DEF Access!OpenLeaves, Access!Open, ClearLeaves, Clear, During
<1>3. Access!Blocked(Access!SetVerdict, arg) = Stops
  BY <1>1, SameWords DEF Access!Blocked, Stops, During
<1> QED
  BY <1>1, <1>2, <1>3

\* For a read, the promise and the walk judge places by the same rules.
LEMMA ReadSeesTheSame ==
    ASSUME op = "read", value = before.value
    PROVE  /\ Access!OpenLeaves(Access!ReadVerdict, arg) = ClearLeaves
           /\ Access!Blocked(Access!ReadVerdict, arg) = Stops
           /\ \A p : Access!ReadVerdict(tree, before.value, arg, p) = Verdict(p)
<1>1. \A p : Access!ReadVerdict(tree, before.value, arg, p) = Verdict(p)
  BY SameWords DEF Verdict
<1>2. Access!OpenLeaves(Access!ReadVerdict, arg) = ClearLeaves
  BY <1>1, SameWords DEF Access!OpenLeaves, Access!Open, ClearLeaves, Clear, During
<1>3. Access!Blocked(Access!ReadVerdict, arg) = Stops
  BY <1>1, SameWords DEF Access!Blocked, Stops, During
<1> QED
  BY <1>1, <1>2, <1>3

\* A set or a read returns in one of two ways: it has visited all of the leaves and
\* nothing stops it, or some of those it gets to and a place that stops it is the reason.
LEMMA ReturnsAsPromised ==
    ASSUME Inductive, op \in {"set", "read"},
           Succeed \/ \E p \in DOMAIN arg : Fail(p)
    PROVE  /\ op' = "none" /\ UNCHANGED <<tree, value, dest, dirty, told>>
           /\ Visited \subseteq ClearLeaves
           /\ \/ Stops = {} /\ Visited = ClearLeaves /\ result' = "SUCCESS"
              \/ \E p \in Stops : result' = Verdict(p)
<1>1. Visited \subseteq ClearLeaves
  BY DEF Inductive, ShapeOK, WalkInOrder, Visited, ClearLeaves
<1>2. CASE Succeed
  <2>1. at = NoPlace /\ AllSeen
    BY <1>2 DEF Succeed
  <2>2. DOMAIN arg = seen /\ DOMAIN arg \subseteq Place
    BY <2>1, AllWalked DEF Inductive, ShapeOK
  <2>3. \A p \in DOMAIN arg : Clear(p)
    BY <2>2 DEF Inductive, WalkInOrder
  <2>4. Stops = {}
    BY <2>2, <2>3, PathIsClosed DEF Stops, Clear
  <2>5. Visited = ClearLeaves
    BY <2>2, <2>3 DEF Visited, ClearLeaves
  <2> QED
    BY <1>1, <1>2, <2>4, <2>5 DEF Succeed, Return
<1>3. ASSUME NEW p \in DOMAIN arg, Fail(p) PROVE p \in Stops /\ result' = Verdict(p)
  <2>1. Reaches(p) /\ Verdict(p) # "SUCCESS" /\ result' = Verdict(p)
    BY <1>3 DEF Fail, Return
  <2> QED
    BY <2>1, OnTheWay DEF Inductive, Stops
<1>4. CASE \E p \in DOMAIN arg : Fail(p)
  <2>1. op' = "none" /\ UNCHANGED <<tree, value, dest, dirty, told>>
    BY <1>4 DEF Fail, Return
  <2> QED
    BY <1>1, <1>3, <1>4, <2>1
<1> QED
  BY <1>2, <1>4

\* The return of a set, successful or not, is a set of the promise.
LEMMA SetImplements ==
    ASSUME Inductive, op = "set", Succeed \/ \E p \in DOMAIN arg : Fail(p)
    PROVE  Access!Set(arg) /\ arg \in Written
<1>1. /\ op' = "none" /\ UNCHANGED <<tree, value, dest, dirty, told>>
      /\ Visited \subseteq ClearLeaves
      /\ \/ Stops = {} /\ Visited = ClearLeaves /\ result' = "SUCCESS"
         \/ \E p \in Stops : result' = Verdict(p)
  BY ReturnsAsPromised
<1>2. /\ arg \in Written /\ dest = Nothing /\ before.value \in Content
      /\ value = [p \in Place |-> IF p \in Visited THEN arg[p].data ELSE before.value[p]]
      /\ before.dirty => dirty
  BY DEF Inductive, CallInOrder, WorkInOrder, ShapeOK
<1>3. value # before.value => dirty
  <2> SUFFICES ASSUME value # before.value PROVE dirty
    OBVIOUS
  <2>1. PICK p \in Visited : TRUE
    BY <1>2 DEF Content
  <2>2. Clear(p) /\ p \in Place
    BY <1>1, <2>1 DEF Inductive, ShapeOK, ClearLeaves
  <2>3. Verdict(Root) = "SUCCESS"
    BY <2>2, RootOnPath DEF Clear
  <2> QED
    BY <2>3, DirtyBeforeSet
<1>4. Access!Done(Access!SetVerdict, arg, Visited)
  <2>1. CASE Stops = {} /\ Visited = ClearLeaves /\ result' = "SUCCESS"
    BY <1>1, <2>1, SetSeesTheSame DEF Access!Done, During
  <2>2. CASE \E p \in Stops : result' = Verdict(p)
    BY <1>1, <2>2, SetSeesTheSame DEF Access!Done, During
  <2> QED
    BY <1>1, <2>1, <2>2
<1>5. Visited \in SUBSET Access!OpenLeaves(Access!SetVerdict, arg)
  BY <1>1, SetSeesTheSame
<1> QED
  BY <1>1, <1>2, <1>3, <1>4, <1>5, SameWords DEF Access!Set, During

\* The return of a read is a read of the promise.
LEMMA ReadImplements ==
    ASSUME Inductive, op = "read", Succeed \/ \E p \in DOMAIN arg : Fail(p)
    PROVE  Access!Get(arg) /\ arg \in Reader
<1>1. /\ op' = "none" /\ UNCHANGED <<tree, value, dest, dirty, told>>
      /\ Visited \subseteq ClearLeaves
      /\ \/ Stops = {} /\ Visited = ClearLeaves /\ result' = "SUCCESS"
         \/ \E p \in Stops : result' = Verdict(p)
  BY ReturnsAsPromised
<1>2. /\ arg \in Reader /\ value = before.value /\ dirty = before.dirty
      /\ dest = [p \in Place |-> IF p \in Visited THEN value[p] ELSE NoValue]
  BY DEF Inductive, CallInOrder, WorkInOrder
<1>4. Access!Done(Access!ReadVerdict, arg, Visited)
  <2>1. CASE Stops = {} /\ Visited = ClearLeaves /\ result' = "SUCCESS"
    BY <1>1, <1>2, <2>1, ReadSeesTheSame DEF Access!Done, During
  <2>2. CASE \E p \in Stops : result' = Verdict(p)
    BY <1>1, <1>2, <2>2, ReadSeesTheSame DEF Access!Done, During
  <2> QED
    BY <1>1, <2>1, <2>2
<1>5. Visited \in SUBSET Access!OpenLeaves(Access!ReadVerdict, arg)
  BY <1>1, <1>2, ReadSeesTheSame
<1> QED
  BY <1>1, <1>2, <1>4, <1>5 DEF Access!Get, During

\* A declaration is one of the promise.
LEMMA DeclareImplements ==
    ASSUME Inductive, NEW req \in Request, Declare(req)
    PROVE  Access!Declare(req)
<1>0. /\ op = "none" /\ op' = "none"
      /\ dest' = Nothing /\ UNCHANGED <<value, told>>
      /\ IF result' = "SUCCESS" THEN tree' = Built(req) /\ dirty' = TRUE
         ELSE UNCHANGED <<tree, dirty>>
  BY DEF Declare, NoneRuns, callVars
<1>1. Declared(tree) = {} <=> tree[Root] = NoNode
  BY RootComesFirst, VarNodeAssumption DEF Inductive, Declared
<1>2. \A p \in DOMAIN req :
         Access!Sound(req, p) <=> Sound(req, p) /\ req[p].type # "tuple"
  <2> SUFFICES ASSUME NEW p \in DOMAIN req
               PROVE  Access!Sound(req, p) <=> Sound(req, p) /\ req[p].type # "tuple"
    OBVIOUS
  <2>1. req[p].type \in Basic \cup Composite \cup {"tuple", "malformed"}
    BY VarTreeAssumption DEF IsRequest, NodeRequest
  <2>2. "tuple" \notin Basic \cup Composite /\ "malformed" \notin Basic \cup Composite
    BY DEF Basic, Composite, Signed, Unsigned
  <2> QED
    BY <2>1, <2>2, SameWords DEF Access!Sound, Sound
<1>3. result' = "SUCCESS" <=>
         tree[Root] = NoNode /\ \A p \in DOMAIN req : Access!Sound(req, p)
  BY <1>2, DeclareAnswers
<1>4. CASE result' = "SUCCESS"
  BY <1>0, <1>1, <1>3, <1>4, SameWords DEF Access!Declare, During
<1>5. CASE result' # "SUCCESS"
  BY <1>0, <1>1, <1>3, <1>5, SameWords DEF Access!Declare, During
<1> QED
  BY <1>4, <1>5

\* The end of a report is a report of the promise.
LEMMA ReportImplements ==
    ASSUME Inductive, Reported
    PROVE  Access!Report
<1>0. /\ op = "json" /\ at = NoPlace /\ AllSeen /\ op' = "none"
      /\ UNCHANGED <<tree, value, dest>>
  BY DEF Reported, Return
<1>1. /\ dirty /\ before.dirty = dirty /\ before.value = value /\ dest = Nothing
      /\ dirty \in BOOLEAN
  BY <1>0 DEF Inductive, ShapeOK, WorkInOrder
<1>2. CASE Return("CONNECTION_FAILED") /\ UNCHANGED <<dirty, told>>
  <2>1. result' # "SUCCESS"
    BY <1>2 DEF Return
  <2> QED
    BY <1>0, <1>1, <1>2, <2>1, SameWords DEF Access!Report, During
<1>3. CASE /\ Return("SUCCESS") /\ dirty' = FALSE
           /\ told' = [p \in Place |-> IF p \in Reportable THEN json[p] ELSE told[p]]
  <2>1. result' = "SUCCESS" /\ told' = value
    BY <1>0, <1>3, ReportIsWhole DEF Return
  <2> QED
    BY <1>0, <1>1, <1>3, <2>1, SameWords DEF Access!Report, During
<1> QED
  BY <1>2, <1>3 DEF Reported

\* A basic variable consists of its root alone.
LEMMA BasicStandsAlone ==
    ASSUME Inductive, tree[Root] # NoNode, IsLeaf(tree, Root), NEW p \in Place \ {Root}
    PROVE  tree[p] = NoNode
<1> DEFINE S == Declared(tree) \ {Root}
<1>1. S \in SUBSET Place /\ \A q \in S : Above[q] \in Declared(tree) /\ Above[q] # Root
  BY BasicOrComposite, AboveIsPlace DEF Inductive, TreeInOrder, Declared, IsLeaf
<1>2. S \in Closed
  BY <1>1 DEF Closed
<1>3. p \notin S
  BY <1>2, PathInClosed, RootOnPath
<1> QED
  BY <1>3 DEF Declared

\* What is received is received in the promise.
LEMMA ReceiveImplements ==
    ASSUME Inductive, NEW item \in Item, Receive(item)
    PROVE  Access!Receive(item)
<1>0. /\ op = "none" /\ op' = "none" /\ IsLeaf(tree, Root)
      /\ tree[Root] # NoNode /\ item.kind = JsonKind(tree[Root].type)
      /\ UNCHANGED <<tree, dirty, dest, json, result>>
  BY DEF Receive, NoneRuns, callVars
<1>1. PICK x \in ConvertNumber(tree[Root].type, item.data) :
         value' = [value EXCEPT ![Root] = x] /\ told' = [told EXCEPT ![Root] = x]
  BY DEF Receive
<1>2. x \in Datum
  BY <1>0, <1>1, VarTreeAssumption DEF IsLeaf
<1>3. Root \in Place /\ \A p \in Place \ {Root} : value[p] = NoValue /\ told[p] = NoValue
  BY <1>0, BasicStandsAlone, VarNodeAssumption DEF Inductive, ValuesInOrder
<1>4. told' = value'
  BY <1>1, <1>3 DEF Inductive, ShapeOK, Content
<1>5. value' = [value EXCEPT ![Root] = x]
  BY <1>1
<1> QED
  BY <1>0, <1>2, <1>4, <1>5, SameWords DEF Access!Receive, During

\* Until the call returns, the application sees nothing of what it does.
LEMMA CallsAreUnseen ==
    ASSUME Inductive,
           \/ \E items \in Written : SetBegins(items)
           \/ \E items \in Reader : ReadBegins(items)
           \/ ReportBegins
           \/ \E p \in DOMAIN arg : Descend(p) \/ SetLeaf(p) \/ ReadLeaf(p) \/ WriteLeaf(p)
           \/ Ascend
           \/ UNCHANGED vars
    PROVE  UNCHANGED Access!vars
<1>1. ASSUME NEW name \in {"set", "read", "json"}, NEW items, Call(name, items),
             UNCHANGED <<tree, value, told>>
      PROVE  UNCHANGED Access!vars
  BY <1>1 DEF Call, Access!vars, During
<1>2. ASSUME op # "none", UNCHANGED <<tree, told, op, before>>
      PROVE  UNCHANGED Access!vars
  BY <1>2 DEF Access!vars, During
<1>3. ASSUME UNCHANGED vars PROVE UNCHANGED Access!vars
  BY <1>3 DEF vars, callVars, Access!vars, During
<1>4. ASSUME NEW items \in Written, SetBegins(items) PROVE UNCHANGED Access!vars
  BY <1>1, <1>4 DEF SetBegins
<1>5. ASSUME NEW items \in Reader, ReadBegins(items) PROVE UNCHANGED Access!vars
  BY <1>1, <1>5 DEF ReadBegins
<1>6. ASSUME ReportBegins PROVE UNCHANGED Access!vars
  BY <1>1, <1>6 DEF ReportBegins
<1>7. ASSUME NEW p \in DOMAIN arg,
             Descend(p) \/ SetLeaf(p) \/ ReadLeaf(p) \/ WriteLeaf(p)
      PROVE  UNCHANGED Access!vars
  BY <1>2, <1>7 DEF Descend, SetLeaf, ReadLeaf, WriteLeaf, AtLeaf, Passes, Reaches
<1>8. ASSUME Ascend PROVE UNCHANGED Access!vars
  BY <1>2, <1>8 DEF Ascend
<1> QED
  BY <1>3, <1>4, <1>5, <1>6, <1>7, <1>8

\* The promise of VarAccess is kept: each call, walked node by node in any order and
\* stopped anywhere, is one step of it, taken when the call returns.
THEOREM CallsImplementAccessCorrect == Spec => CallsImplementAccess
<1>1. Init => Access!Init
  BY SameWords DEF Init, Access!Init, During
<1>2. ASSUME Inductive, [Next]_vars PROVE [Access!Next]_(Access!vars)
  <2>1. ASSUME NEW req \in Request, Declare(req) PROVE Access!Next
    BY <1>2, <2>1, DeclareImplements DEF Access!Next
  <2>2. ASSUME NEW item \in Item, Receive(item) PROVE Access!Next
    BY <1>2, <2>2, ReceiveImplements DEF Access!Next
  <2>3. ASSUME Succeed \/ \E p \in DOMAIN arg : Fail(p) PROVE Access!Next
    <3>1. op \in {"set", "read"}
      <4>1. op # "none" /\ (op = "json" => \A p : Verdict(p) = "SUCCESS")
        BY <2>3 DEF Succeed, Fail, Reaches, Verdict
      <4> QED
        BY <1>2, <2>3, <4>1 DEF Inductive, ShapeOK, Succeed, Fail
    <3>2. CASE op = "set"
      BY <1>2, <2>3, <3>2, SetImplements DEF Access!Next
    <3>3. CASE op = "read"
      BY <1>2, <2>3, <3>3, ReadImplements DEF Access!Next
    <3> QED
      BY <3>1, <3>2, <3>3
  <2>4. ASSUME Reported PROVE Access!Next
    BY <1>2, <2>4, ReportImplements DEF Access!Next
  <2>5. CASE Step
    <3>1. \/ \E p \in DOMAIN arg : Descend(p) \/ SetLeaf(p) \/ ReadLeaf(p) \/ WriteLeaf(p)
          \/ Ascend
          \/ Succeed \/ \E p \in DOMAIN arg : Fail(p)
          \/ Reported
      BY <2>5 DEF Step
    <3> QED
      BY <1>2, <2>3, <2>4, <3>1, CallsAreUnseen
  <2> QED
    BY <1>2, <2>1, <2>2, <2>5, CallsAreUnseen DEF Next
<1> QED
  BY <1>1, <1>2, InductiveHolds, PTL DEF Spec, CallsImplementAccess, Access!Spec
=============================================================================
