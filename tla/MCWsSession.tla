------------------------------ MODULE MCWsSession ------------------------------
(***************************************************************************)
(* WsSession with a few short messages.                                    *)
(***************************************************************************)
EXTENDS WsTransfer

MCFile == <<7, 8, 9>>

\* The first message is the long one.
MCSize(m) == IF m = 1 THEN 2 ELSE 1

Config(ioThreads, pings, idles, messages, closes, stops) ==
  [ioThreads |-> ioThreads, pingInterval |-> pings, idleTimeout |-> idles,
   messages |-> messages, closes |-> closes, stops |-> stops]

\* One io thread with pings, and with the idle timeout and a queue that overflows;
\* two with the whole file, with a stop, and with pings.
MCConfigs == {Config(1, TRUE, FALSE, 2, 1, TRUE), Config(1, FALSE, TRUE, 3, 1, TRUE),
              Config(2, FALSE, FALSE, 4, 1, FALSE), Config(2, FALSE, FALSE, 2, 1, TRUE),
              Config(2, TRUE, FALSE, 0, 1, TRUE)}
=============================================================================
