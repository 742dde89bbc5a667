----------------------------- MODULE MCWebComm -----------------------------
(***************************************************************************)
(* WebComm with small bounds.                                              *)
(***************************************************************************)
EXTENDS WebComm

MCPeriods == {1, Slice}
=============================================================================
