------------------------------ MODULE MCWsClient ------------------------------
(***************************************************************************)
(* WsClient on small instances: reconnecting while users connect, sending  *)
(* while a user closes, and a heartbeat.                                   *)
(***************************************************************************)
EXTENDS WsClient, TLC

CONSTANTS u1, u2

Scenario(auto, heartbeat, messages, calls1, calls2) ==
  [autoReconnect |-> auto, heartbeat |-> heartbeat, messages |-> messages,
   calls |-> (u1 :> calls1) @@ (u2 :> calls2)]

MCConfigs == {
  Scenario(TRUE, FALSE, 2, <<"connect", "connect">>, <<>>),
  Scenario(TRUE, FALSE, 1, <<"connect">>, <<"connect", "close">>),
  Scenario(FALSE, FALSE, 2, <<"connect", "close">>, <<"close">>),
  Scenario(TRUE, TRUE, 1, <<"connect">>, <<"close">>)}
=============================================================================
