------------------------ MODULE MCPageApiRefinement ------------------------
(* An instance of PageApiRefinement.tla for TLC. *)
EXTENDS PageApiRefinement

Everything == {[ops |-> [c \in Clients |-> AllOps], pages |-> PageLimit, scanning |-> FALSE,
                diskFails |-> FALSE, crashes |-> FALSE]}
=============================================================================
