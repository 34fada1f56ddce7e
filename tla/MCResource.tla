----------------------------- MODULE MCResource -----------------------------
(* Resource with a group of two passes that share a texture, and a texture   *)
(* that one of them uses, threads load themselves and move in and out of the *)
(* group.                                                                    *)
EXTENDS Resource, TLC

CONSTANTS pass1, pass2, shared, own, media

MCParts == (pass1 :> <<shared>>) @@ (pass2 :> <<own, shared>>)
             @@ (shared :> << >>) @@ (own :> << >>)
MCUses == [op \in {"prepare", "load", "unload"} |-> MCParts]
MCScripted == media :> {pass1, pass2}
MCOrder == (pass1 :> 1) @@ (pass2 :> 3) @@ (shared :> 0) @@ (own :> 2)
=============================================================================
