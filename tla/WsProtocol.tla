------------------------------ MODULE WsProtocol ------------------------------
(***************************************************************************)
(* ws/server/WsProtocol.hpp: how a text becomes a message.                 *)
(*                                                                         *)
(* A JSON value is a record with its kind and, for an object, whether its  *)
(* known fields have the right types and its type field, "" when missing.  *)
(***************************************************************************)
EXTENDS Integers, FiniteSets

NoMessage == [type |-> "?"]

json_to_message(json) ==
  IF json.kind # "object" \/ ~json.wellTyped THEN NoMessage ELSE [type |-> json.type]

string_to_message(text) ==
  IF text.kind = "discarded" THEN NoMessage ELSE json_to_message(text)
=============================================================================
