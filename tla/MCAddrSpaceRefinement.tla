------------------------ MODULE MCAddrSpaceRefinement -----------------------
(* A small instance of AddrSpace with its refinement mapping.              *)
EXTENDS AddrSpaceRefinement, MCAddrSpace
=============================================================================
