------------------------------ MODULE WsTransfer ------------------------------
(***************************************************************************)
(* A file that is sent over a session in chunks: blob_to_chunk and         *)
(* chunks_to_blob of ws/server/WsProtocol.hpp, composed with WsSession.    *)
(*                                                                         *)
(* A chunk message is a record of the fields of its meta object.  The      *)
(* messages of the session are, in order, those the file is cut into.      *)
(***************************************************************************)
EXTENDS WsSession, SequencesExt

CONSTANTS File, ChunkSize
-----------------------------------------------------------------------------
blob_to_chunk(blob, chunk_size, transfer_id) ==
  IF chunk_size = 0 \/ blob = <<>> THEN <<>>
  ELSE LET total == (Len(blob) + chunk_size - 1) \div chunk_size
           Edge(type) == [type |-> type, transfer_id |-> transfer_id, total_chunks |-> total,
                          total_bytes |-> Len(blob)]
           Data(i) == LET payload == SubSeq(blob, i * chunk_size + 1,
                                            Min({(i + 1) * chunk_size, Len(blob)}))
                      IN [type |-> "chunk_data", transfer_id |-> transfer_id, chunk_index |-> i,
                          total_chunks |-> total, chunk_bytes |-> Len(payload), payload |-> payload]
       IN <<Edge("chunk_start")>> \o [i \in 1..total |-> Data(i - 1)] \o <<Edge("chunk_end")>>

\* Whether the messages between the first and the last are the chunks that the
\* first one announces, each once, in any order.
Consistent(start, chunks) ==
  /\ \A i \in DOMAIN chunks :
       /\ chunks[i].type = "chunk_data" /\ chunks[i].transfer_id = start.transfer_id
       /\ chunks[i].total_chunks = start.total_chunks /\ chunks[i].chunk_index < start.total_chunks
       /\ \A j \in 1..(i - 1) : chunks[j].chunk_index # chunks[i].chunk_index
       /\ Len(chunks[i].payload) = chunks[i].chunk_bytes
  /\ {chunks[i].chunk_index : i \in DOMAIN chunks} = 0..(start.total_chunks - 1)
  /\ start.total_bytes = FoldLeft(LAMBDA n, c : n + Len(c.payload), 0, chunks)

\* The chunks' bytes in the order of their indices.
Assembled_AsArrived(total, chunks) == FlattenSeq([k \in 1..total |-> chunks[k].payload])

Assembled(total, chunks) ==
  LET Chunk(k) == CHOOSE c \in Range(chunks) : c.chunk_index = k
  IN FlattenSeq([k \in 1..total |-> Chunk(k - 1).payload])

\* The file that the messages give, or that they give none.
Refused == [ok |-> FALSE, blob |-> <<>>]

chunks_to_blob(messages) ==
  IF Len(messages) < 3 \/ Head(messages).type # "chunk_start" \/ Last(messages).type # "chunk_end"
  THEN Refused
  ELSE LET start  == Head(messages)
           chunks == Tail(Front(messages))
       IN IF [Last(messages) EXCEPT !.type = "chunk_start"] # start
             \/ Len(messages) # start.total_chunks + 2 \/ ~Consistent(start, chunks)
          THEN Refused
          ELSE [ok |-> TRUE, blob |-> Assembled(start.total_chunks, chunks)]
-----------------------------------------------------------------------------
\* The messages, by their numbers.
Texts == blob_to_chunk(File, ChunkSize, "transfer")

ASSUME TransferAssumption == ChunkSize \in Nat /\ MaxMessages = Len(Texts)

\* A file sent in chunks arrives whole or not at all, whatever the io threads reorder
\* or write twice and whatever is lost in a close; and it does arrive when every chunk
\* is written once with the first and the last at their places.  Exempt is a session on
\* which a message was freed while it was being written: those bytes are undefined.
NoTornBlob ==
  LET rebuilt == chunks_to_blob([i \in DOMAIN wire |-> Texts[wire[i]]])
  IN ~s.freed => rebuilt.ok = (/\ Len(wire) = Len(Texts) /\ IsInjective(wire)
                               /\ wire[1] = 1 /\ Last(wire) = Len(Texts) /\ rebuilt.blob = File)
=============================================================================
