------------------------------- MODULE MCSync -------------------------------
(***************************************************************************)
(* Small instances of Sync for TLC.                                        *)
(***************************************************************************)
EXTENDS SyncProperties, TLC

\* Data are counted in halves, so that converting a JSON number to an integer
\* datatype has something to cut off.
Halves == 0..3
CToType == [a \in Datatype \X Halves |->
              IF a[1] \in {"float32", "float64", "string"} THEN a[2]
              ELSE 2 * (a[2] \div 2)]

Fields == {"self", "a", "b"}
Leaf(d, t) == [dir |-> d, type |-> t]
OneLeaf(x) == [f \in Fields |-> IF f = "self" THEN x ELSE NoLeaf]
TwoLeaves(x, y) == [f \in Fields |-> CASE f = "a" -> x [] f = "b" -> y [] OTHER -> NoLeaf]
Basic(n, d, t) == [name |-> n, dir |-> d, kind |-> "basic", leaf |-> OneLeaf(Leaf(d, t))]
Composite(n, d, k, x, y) == [name |-> n, dir |-> d, kind |-> k, leaf |-> TwoLeaves(x, y)]

Typed(t, x) == [type |-> t, data |-> x]
OneValue(v) == [kind |-> "basic", leaf |-> [f \in Fields |-> IF f = "self" THEN v ELSE NoValue]]
TwoValues(k, x, y) == [kind |-> k, leaf |->
    [f \in Fields |-> CASE f = "a" -> x [] f = "b" -> y [] OTHER -> NoValue]]

Json(k, x) == [kind |-> k, data |-> x]

\* t: set by the device; c: set by the cloud; s: a struct with one field of each kind.
T == Basic("t", "out", "int16")
C == Basic("c", "in", "int16")
B == Basic("t", "inout", "float32")
S == Composite("s", "inout", "struct", Leaf("inout", "int16"), Leaf("in", "bool"))
A == Composite("s", "out", "array", Leaf("out", "int16"), NoLeaf)
Tuple == Composite("s", "out", "tuple", NoLeaf, NoLeaf)

-----------------------------------------------------------------------------
(* "store": every kind of declaration and every way a value can be refused *)

WatchedOne == {"t"}
WatchedNone == {}

StoreNames == {"t", "c", "s"}
StoreDecls == {T, C, S, A, Tuple}
StoreHandles == {1, 2, 3}
StoreContent == [h \in StoreHandles |->
    CASE h = 1 -> OneValue(Typed("int16", 2))
      [] h = 2 -> TwoValues("struct", Typed("int16", 2), Typed("bool", 2))
      [] h = 3 -> TwoValues("array", Typed("int16", 2), Typed("int16", 0))]
StoreInbound == {[n \in StoreNames |-> CASE n = "c" -> Json("number", 3)
                                       [] n = "s" -> Json("object", 0)
                                       [] OTHER -> NoValue]}
WsSend == [send |-> "WSS"]

-----------------------------------------------------------------------------
(* One variable that both sides set, for the runs about the protocol *)

OneName == {"t"}
OneDecl == {B}
OneHandle == {1}
TwoHandles == {1, 2}
FloatContent == [h \in 1..2 |-> OneValue(Typed("float32", h))]
FloatContent1 == [h \in {1} |-> FloatContent[h]]
FloatInbound == {[n \in OneName |-> Json("number", 3)]}
FloatOrJunkInbound == FloatInbound \cup {[n \in OneName |-> Json("string", 3)]}
NoInbound == {}
AllFaults == FaultKind
NoFaults == {}
NoSettings == {}
AllSettings == {[key |-> "recv", to |-> "NOOP"], [key |-> "recv", to |-> "WSS"],
                [key |-> "send", to |-> "HTTP"], [key |-> "send", to |-> "NOOP"],
                [key |-> "send", to |-> "other"],
                [key |-> "send", to |-> "WS"]}
NoEnv == <<>>

\* Two variables with an owner each, for the runs about who may change what.
OwnedNames == {"t", "c"}
OwnedDecls == {T, C}
OwnedContent == [h \in 1..2 |-> OneValue(Typed("int16", 2 * (h - 1)))]
OwnedPayload(n, x) == [m \in OwnedNames |-> IF m = n THEN Json("number", x) ELSE NoValue]
InboundC == {OwnedPayload("c", 1), OwnedPayload("c", 2)}
\* Numbers that an int16 holds: the conversion changes neither.
InboundWhole == {OwnedPayload("c", 2), OwnedPayload("c", 0)}
=============================================================================
