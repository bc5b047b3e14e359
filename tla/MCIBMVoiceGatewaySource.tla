---------------------- MODULE MCIBMVoiceGatewaySource ----------------------
(***************************************************************************)
(* Small instances of IBMVoiceGatewaySource for TLC.  Neither handles nor  *)
(* session ids are ever compared other than for equality, so both are      *)
(* symmetric.                                                              *)
(***************************************************************************)
EXTENDS IBMVoiceGatewaySource, TLC

Symmetry == Permutations(Connection) \union Permutations(Session)
=============================================================================
