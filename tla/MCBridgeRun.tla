------------------------------ MODULE MCBridgeRun ------------------------------
(* A small instance of BridgeRun.                                          *)
EXTENDS BridgeRun

MCInterpreters == {"python", "python3"}
MCAnswers == {"clear", "locked", "unknown", "no-verdict", "no-json"}
=============================================================================
