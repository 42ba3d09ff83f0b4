------------------------------ MODULE MCToolScan ------------------------------
(* A small instance of ToolScan.                                           *)
EXTENDS ToolScan

MCKinds == <<"stdio", "remote", "unsupported", "stdio", "remote">>
=============================================================================
