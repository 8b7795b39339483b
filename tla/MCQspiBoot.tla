----------------------------- MODULE MCQspiBoot -----------------------------
EXTENDS QspiBoot

(* Two files in flash, the second of them cut off by its end, and the       *)
(* response of a script.                                                   *)
MCFile == {[addr |-> 0, length |-> 3, script |-> FALSE],
           [addr |-> 3, length |-> 2, script |-> FALSE],
           [addr |-> 0, length |-> 1, script |-> TRUE]}
=============================================================================
