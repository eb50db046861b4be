----------------------------- MODULE CloudMirror -----------------------------
(***************************************************************************)
(* What the library promises about a Cloud Variable, without the sync      *)
(* protocol: the device has a local copy of each variable and remembers    *)
(* what it and the cloud last agreed on; a local change is pending until   *)
(* it is published, and every pending variable is published in one step.   *)
(***************************************************************************)
CONSTANTS Name, Val

VARIABLES
    local,      \* the device's copy
    pending,    \* variables with something to publish
    published   \* the value each side last learned from the other

vars == <<local, pending, published>>

Init ==
    /\ local \in [Name -> Val]
    /\ published = local
    /\ pending = {}

\* A call on variable n: it may change its value, and makes it pending.
Touch(n) ==
    /\ local' \in [Name -> Val]
    /\ \A m \in Name \ {n} : local'[m] = local[m]
    /\ pending' = pending \cup {n}
    /\ UNCHANGED published

Publish ==
    /\ published' = [n \in Name |-> IF n \in pending THEN local[n] ELSE published[n]]
    /\ pending' = {}
    /\ UNCHANGED local

\* The cloud's values for some variables arrive; pending is not affected.
Absorb ==
    /\ local' \in [Name -> Val]
    /\ published' \in [Name -> Val]
    /\ \A n \in Name :
          \/ local'[n] = local[n] /\ published'[n] = published[n]
          \/ local'[n] = published'[n]
    /\ UNCHANGED pending

Next == (\E n \in Name : Touch(n)) \/ Publish \/ Absorb

Spec == Init /\ [][Next]_vars
=============================================================================
