--------------------------- MODULE MCMergeLoop ---------------------------
(***************************************************************************)
(* merge_inputs over every list of up to three bindings.  Two roles, so    *)
(* that the merged role can be the wrong one; two keys of attributes.extra *)
(* with two values, so that keys repeat with equal and different values.   *)
(***************************************************************************)
EXTENDS Claims

MCExtras == {{}, {<<"x", 1>>}, {<<"x", 2>>}, {<<"y", 1>>}, {<<"x", 1>>, <<"y", 1>>}}

MCBodies == [aws : Roles \union {NoAws}, other : BOOLEAN,
             prov : Provenance, extra : MCExtras]

MCNames == 1..3
MCExtraKeys == {"x", "y"}
MCExtraValues == {1, 2}
==========================================================================
