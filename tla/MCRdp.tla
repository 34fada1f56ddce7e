------------------------------- MODULE MCRdp -------------------------------
(* Rdp with three packets of three kinds. *)
EXTENDS Rdp

MCPosts == <<"realtime", "sequence", "reliable">>
=============================================================================
