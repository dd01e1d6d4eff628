----------------------------- MODULE FifoChannel -----------------------------
(***************************************************************************)
(* What a queue promises its users: values are received in the order in    *)
(* which they were sent, each once; nothing is sent into a full channel or *)
(* after it was shut; what was sent before can still be received.          *)
(***************************************************************************)
EXTENDS Naturals, Sequences

CONSTANTS Values, Capacity   \* Capacity 0 is unbounded

VARIABLES sent, received, capacity, open

vars == <<sent, received, capacity, open>>

Init == sent = <<>> /\ received = <<>> /\ capacity = Capacity /\ open = TRUE

Pending == Len(sent) - Len(received)

Send(v) ==
  /\ open /\ (capacity = 0 \/ Pending < capacity)
  /\ sent' = Append(sent, v)
  /\ UNCHANGED <<received, capacity, open>>

Receive ==
  /\ Pending > 0
  /\ received' = Append(received, sent[Len(received) + 1])
  /\ UNCHANGED <<sent, capacity, open>>

\* Everything that was sent and not received is thrown away.
Discard == received' = sent /\ UNCHANGED <<sent, capacity, open>>

Resize == capacity' \in Nat /\ UNCHANGED <<sent, received, open>>

Shut == open' = FALSE /\ UNCHANGED <<sent, received, capacity>>

Next == (\E v \in Values : Send(v)) \/ Receive \/ Discard \/ Resize \/ Shut

Spec == Init /\ [][Next]_vars
=============================================================================
