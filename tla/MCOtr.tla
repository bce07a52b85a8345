------------------------------- MODULE MCOtr --------------------------------
(* Model checking of Otr: two nicks of ours and one peer, each with a *)
(* second spelling where it matters, and one key of the peer.         *)
EXTENDS Otr

Name(n, f) == [nick |-> n, folded |-> f]
MCMine == {Name("m1", TRUE), Name("m1", FALSE), Name("m2", TRUE)}
MCPeers == {Name("p1", TRUE), Name("p1", FALSE)}
=============================================================================
