-------------------------------- MODULE WsApp --------------------------------
(***************************************************************************)
(* ws/server/WsApp.hpp and WsRouter.hpp: what the application decides of a *)
(* handshake and where it sends a message.                                 *)
(*                                                                         *)
(* An application is a record: whether it has a middleware, the endpoints  *)
(* with a handler (m_endpHndlMap) and the types with a handler under each  *)
(* endpoint (m_nestedHdnlMap).                                             *)
(***************************************************************************)
EXTENDS WsProtocol

NoApp == [m_middleware |-> FALSE, m_endpHndlMap |-> {}, m_nestedHdnlMap |-> {}]

add_endpoint(app, endpoint) ==
  IF endpoint = "" THEN app
  ELSE [app EXCEPT !.m_endpHndlMap = @ \cup {endpoint}]

add_message_handler(app, endpoint, type) ==
  IF endpoint = "" \/ type = "" THEN app
  ELSE [app EXCEPT !.m_nestedHdnlMap = @ \cup {<<endpoint, type>>}]

setup_middleware(app) == [app EXCEPT !.m_middleware = TRUE]
-----------------------------------------------------------------------------
Rejected(status)  == [accept |-> FALSE, status |-> status, principal |-> FALSE]
Accepted(isKnown) == [accept |-> TRUE, status |-> "ok", principal |-> isKnown]

\* What a failed authentication is answered.
reject_on_auth_failure(code) ==
  CASE code = "forbidden" -> Rejected("forbidden")
    [] code = "temporarily_unavailable" -> Rejected("service_unavailable")
    [] OTHER -> Rejected("unauthorized")

\* The middleware is external: it finds the credentials good, or why they are not.
\* Without one every client is turned away.
handle_auth_Lenient(app, request) ==
  IF ~app.m_middleware THEN Rejected("unauthorized") ELSE Accepted(request.credentials = "good")

handle_auth(app, request) ==
  IF ~app.m_middleware THEN Rejected("unauthorized")
  ELSE IF request.credentials = "good" THEN Accepted(TRUE)
  ELSE reject_on_auth_failure(request.credentials)

handle_accept(app, request) ==
  IF request.endpoint \in app.m_endpHndlMap \cup {p[1] : p \in app.m_nestedHdnlMap}
  THEN Accepted(FALSE) ELSE Rejected("not_found")

\* What the session answers the handshake: the client is looked at first, then the
\* endpoint.
Decision(app, request) ==
  IF handle_auth(app, request).accept THEN handle_accept(app, request) ELSE handle_auth(app, request)
-----------------------------------------------------------------------------
\* What a text does: it is handled under its endpoint and type, closes the session,
\* is reported as a protocol error, or is dropped.
Route(app, endpoint, message) ==
  IF message.type # ""
  THEN IF endpoint \notin {p[1] : p \in app.m_nestedHdnlMap} THEN "close"
       ELSE IF <<endpoint, message.type>> \in app.m_nestedHdnlMap THEN "handled" ELSE "dropped"
  ELSE IF endpoint \in app.m_endpHndlMap THEN "handled" ELSE "close"

handle_message(app, endpoint, text) ==
  LET message == string_to_message(text)
  IN IF message = NoMessage THEN "protocol_error" ELSE Route(app, endpoint, message)
=============================================================================
