-------------------------- MODULE MCAppContainer --------------------------
(***************************************************************************)
(* Small instances of AppContainer for TLC.                                *)
(***************************************************************************)
EXTENDS AppContainer, TLC

(* An executor that is closed for good and one that is not. *)
TwoKinds == <<"http_callback", "kafka">>
=============================================================================
