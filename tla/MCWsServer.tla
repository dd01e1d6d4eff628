------------------------------ MODULE MCWsServer ------------------------------
(***************************************************************************)
(* WsServer with two clients and two callers.                              *)
(***************************************************************************)
EXTENDS WsServer, TLC

CONSTANTS t1, t2, k1, k2

Good    == [endpoint |-> "chat", credentials |-> "good"]
Unknown == [endpoint |-> "chat", credentials |-> "expired_token"]
Lost    == [endpoint |-> "news", credentials |-> "good"]
Nobody(endpoint) == [endpoint |-> endpoint, credentials |-> "missing_credentials"]

MCTexts == {[kind |-> "discarded"], [kind |-> "object", wellTyped |-> FALSE, type |-> ""],
            [kind |-> "object", wellTyped |-> TRUE, type |-> ""],
            [kind |-> "object", wellTyped |-> TRUE, type |-> "say"]}

Chat == add_message_handler(NoApp, "chat", "say")

Config(app, executor, texts, request, calls1, calls2) ==
  [app |-> app, executor |-> executor, texts |-> texts, request |-> request,
   calls |-> (t1 :> calls1 @@ t2 :> calls2)]

\* Two stops beside a broadcast; a stop that meets a start; a restart on an
\* executor; two sessions; clients that send and clients that are refused; an
\* application without a middleware.
MCConfigs ==
  LET app == setup_middleware(Chat) IN
  {Config(app, FALSE, {}, k1 :> Good, <<"start", "stop">>, <<"broadcast", "stop">>),
   Config(app, TRUE, {}, k1 :> Good, <<"start">>, <<"stop">>),
   Config(app, TRUE, {}, k1 :> Good, <<"start", "stop", "start", "stop">>, <<>>),
   Config(app, FALSE, {}, k1 :> Good @@ k2 :> Good, <<"start", "stop">>, <<>>),
   Config(app, FALSE, MCTexts, k1 :> Good, <<"start", "stop">>, <<>>),
   Config(app, FALSE, MCTexts, k1 :> Unknown @@ k2 :> Lost, <<"start", "stop">>, <<>>),
   Config(add_endpoint(Chat, "chat"), FALSE, MCTexts, k1 :> Nobody("chat") @@ k2 :> Nobody("news"),
          <<"start", "stop">>, <<>>)}
=============================================================================
