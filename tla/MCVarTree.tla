----------------------------- MODULE MCVarTree -----------------------------
(***************************************************************************)
(* A small instance of VarTree for TLC: a struct that holds a leaf and a   *)
(* struct, which holds a leaf and an array; and variables that are basic.  *)
(***************************************************************************)
EXTENDS VarTreeProperties, TLC

Places == {"v", "v.a", "v.n", "v.n.x", "v.n.r", "r[0]", "r[1]", "r[2]", "v.z"}
Containers == [p \in Places |->
    CASE p = "v" -> NoPlace
      [] p \in {"v.a", "v.n", "v.z"} -> "v"
      [] p \in {"v.n.x", "v.n.r"} -> "v.n"
      [] OTHER -> "v.n.r"]
Indices == [p \in Places |-> CASE p = "r[1]" -> 1 [] p = "r[2]" -> 2 [] OTHER -> 0]

\* Numbers in quarters; a float32 holds halves; integers are of 2 or 3 bits.
Quarters == (-48)..48
Widths == [t \in Signed \cup Unsigned |-> IF t \in {"int8", "uint8"} THEN 2 ELSE 3]

-----------------------------------------------------------------------------
(* Declarations *)

FieldOption(p) == [opt |-> "FIELD", field |-> p]
Description == [opt |-> "DESCRIPTION", field |-> NoPlace]
MinValue == [opt |-> "other", field |-> NoPlace]
Request1(t, d, options) ==
    [type |-> t, dir |-> d, element |-> "int8", size |-> 2, options |-> options]

StructOf(n, x, r, last) ==
    "v" :> Request1("struct", "inout", <<FieldOption("v.a"), FieldOption("v.n")>> \o last) @@
    "v.a" :> Request1("int8", "out", <<Description>>) @@
    "v.n" :> Request1("struct", n, <<FieldOption("v.n.x"), FieldOption("v.n.r")>>) @@
    "v.n.x" :> x @@ "v.n.r" :> r
BasicOf(t, d, options) == "v" :> Request1(t, d, options)

X(d) == Request1("bool", d, <<>>)
R(d) == Request1("array", d, <<>>)
Requests ==
    { StructOf("inout", X("in"), R("inout"), <<>>),
      StructOf("in", X("out"), R("out"), <<Description>>),
      StructOf("inout", Request1("tuple", "out", <<>>), R("inout"), <<>>),
      StructOf("inout", Request1("malformed", "out", <<>>), R("inout"), <<>>),
      StructOf("inout", X("in"), R("inout"), <<MinValue>>),
      BasicOf("int8", "inout", <<>>),
      BasicOf("uint8", "inout", <<Description>>),
      BasicOf("float32", "inout", <<>>),
      BasicOf("uint32", "in", <<>>),
      BasicOf("datetime", "inout", <<>>),
      BasicOf("string", "inout", <<MinValue>>),
      "v" :> Request1("int8", "out", <<FieldOption("v.a")>>) @@ "v.a" :> Request1("int8", "out", <<>>) }

-----------------------------------------------------------------------------
(* Values, readers and JSON items *)

Given(t, x) == [type |-> t, data |-> x]
StructV == "v" :> Given("struct", NoValue)
StructN == "v.n" :> Given("struct", NoValue)
ArrayR == "v.n.r" :> Given("array", NoValue)

Values ==
    { StructV @@ "v.a" :> Given("int8", 4) @@ StructN @@ ArrayR @@ "r[0]" :> Given("int8", 4),
      StructV @@ "v.a" :> Given("int8", 0) @@ StructN @@ "v.n.x" :> Given("bool", 4) @@
          ArrayR @@ "r[1]" :> Given("int8", 4),
      StructV @@ StructN @@ ArrayR @@ "r[0]" :> Given("int8", 4) @@ "r[2]" :> Given("int8", 0),
      StructV @@ "v.z" :> Given("int8", 4) @@ "v.a" :> Given("string", 4) @@ StructN,
      "v" :> Given("int8", 4),
      "v" :> Given("uint8", 12),
      "v" :> Given("float32", 2) }

\* A reader has no data; NoValue stands in its place.
Readers ==
    { StructV @@ "v.a" :> Given("int8", NoValue) @@ StructN @@ ArrayR @@
          "r[0]" :> Given("int8", NoValue) @@ "r[1]" :> Given("int8", NoValue),
      StructV @@ "v.a" :> Given("int16", NoValue) @@ StructN @@ ArrayR @@
          "r[2]" :> Given("int8", NoValue),
      StructV @@ "v.n" :> Given("array", NoValue) @@ "v.a" :> Given("int8", NoValue),
      "v" :> Given("int8", NoValue) }

Items == {[kind |-> "number", data |-> x] : x \in {-7, 3, 4, 12, 40}} \cup
         {[kind |-> "boolean", data |-> 4], [kind |-> "object", data |-> 0]}
=============================================================================
