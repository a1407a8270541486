------------------------------ MODULE MCSwaggerHub ------------------------------
(***************************************************************************)
(* Instances of SwaggerHub for TLC: the specs users write.                 *)
(***************************************************************************)
EXTENDS SwaggerHubProperties, TLC

Plain == [wait |-> FALSE, suspend |-> FALSE, valid |-> TRUE]
Waiting == [Plain EXCEPT !.wait = TRUE]
Suspended == [Waiting EXCEPT !.suspend = TRUE]
Malformed == [Waiting EXCEPT !.valid = FALSE]

MCSafetySpecs == {Plain, Waiting, Suspended}
MCPlainSpecs == {Plain}
MCLiveSpecs == {Waiting, Malformed}

Symmetry == Permutations(Workers)

===============================================================================
