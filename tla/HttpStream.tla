----------------------------- MODULE HttpStream -----------------------------
(***************************************************************************)
(* How HttpSession::recvRequest (with HttpServer::handleClient around it)  *)
(* and HttpConnection::recvResponse cut the stream of a keep-alive         *)
(* connection into messages.  The parsers are taken for what RequestParser *)
(* and ResponseParser show of them: a head ends at its blank line, and a   *)
(* field inside which a buffer ends is lost.                               *)
(*                                                                         *)
(* The stream is a sequence of units: those of a head ("line", the two     *)
(* halves of the field that frames the body, "end"), the digits and line   *)
(* ends of chunk headers, and bytes of the body.  A chunk size has base 2. *)
(***************************************************************************)
EXTENDS Integers, Sequences, FiniteSets

CONSTANTS BufSize,      \* units that fit in the buffer
          MaxMessages,  \* bound: messages sent on the connection
          BodyLengths,  \* lengths of the bodies sent with Content-Length
          ChunkLists    \* sizes of the chunks of the other bodies

(* A chunk size has one digit or two, and a body one chunk or two.          *)
ASSUME HsAssumption ==
  /\ BufSize \in Nat /\ MaxMessages \in Nat /\ BodyLengths \subseteq Nat
  /\ \A c \in ChunkLists : c \in Seq(1..3) /\ Len(c) \in {1, 2}

VARIABLES
  side,      \* "none", "request" or "response": what this end receives
  wire,      \* sent and not yet read
  sentBodies,  \* the bodies sent, in order
  rpc,       \* where the receiver is
  data,      \* units of the buffer that are not parsed yet
  length,    \* what the head says of the body, then what a chunk header says
  expect,    \* units of the body, or of a chunk, that must still be read
  body,      \* the body received so far
  given,     \* the bodies handed on, in order
  torn,      \* a buffer ended inside a framing field or a chunk header (history)
  over       \* units behind the end of a message were in its buffer (history)

hsvars == <<side, wire, sentBodies, rpc, data, length, expect, body, given, torn, over>>

Chunked == -1   \* as a value of length

Bodies == [chunks : {<<n>> : n \in BodyLengths}, how : {"length"}]
            \cup [chunks : ChunkLists, how : {"chunked"}]

Bytes(m, from, n) == [k \in 1..n |-> <<"byte", m, from + k>>]
Digits(n) == IF n < 2 THEN << <<"digit", n>> >> ELSE << <<"digit", n \div 2>>, <<"digit", n % 2>> >>
CRLF == << <<"cr">>, <<"lf">> >>

(* A message on the wire: message m with the body b.                        *)
Total(b) == IF Len(b.chunks) = 1 THEN b.chunks[1] ELSE b.chunks[1] + b.chunks[2]
BodyBytes(m, b) == Bytes(m, 0, Total(b))

Chunk(m, from, n) == (Digits(n) \o CRLF) \o (Bytes(m, from, n) \o CRLF)

(* The chunks of a body; one without bytes is the last.                     *)
ChunkUnits(m, b) ==
  LET c     == b.chunks[1]
      last  == Chunk(m, Total(b), 0)
  IN Chunk(m, 0, c) \o (IF Len(b.chunks) = 1 THEN last
                            ELSE Chunk(m, c, b.chunks[2]) \o last)

FieldOf(b) == IF b.how = "length" THEN b.chunks[1] ELSE Chunked

HeadUnits(f) ==
  IF f = 0 THEN << <<"line">>, <<"end">> >>
  ELSE << <<"line">>, <<"field1", f>>, <<"field2", f>>, <<"end">> >>

Units(m, b) ==
  HeadUnits(FieldOf(b)) \o (IF b.how = "length" THEN BodyBytes(m, b) ELSE ChunkUnits(m, b))

Prefix(s, n) == SubSeq(s, 1, n)
Rest(s, n) == SubSeq(s, n + 1, Len(s))
MinOf(a, b) == IF a < b THEN a ELSE b

HsInit ==
  /\ side = "none" /\ wire = <<>> /\ sentBodies = <<>> /\ rpc = "idle" /\ data = <<>>
  /\ length = 0 /\ expect = 0 /\ body = <<>> /\ given = <<>> /\ torn = FALSE /\ over = FALSE

(* The peer sends the next message; requests may be pipelined, responses    *)
(* answer one request at a time.                                            *)
Send(s, b) ==
  /\ side \in {"none", s} /\ Len(sentBodies) < MaxMessages
  /\ s = "request" => b.how = "length"
  /\ s = "response" => Len(sentBodies) = Len(given)
  /\ side' = s
  /\ wire' = wire \o Units(Len(sentBodies) + 1, b)
  /\ sentBodies' = Append(sentBodies, BodyBytes(Len(sentBodies) + 1, b))
  /\ UNCHANGED <<rpc, data, length, expect, body, given, torn, over>>

Close == rpc' = "closed" /\ UNCHANGED <<side, wire, sentBodies, data, length, expect, body, given, torn, over>>

(* recvRequest and recvResponse start with a parser and a buffer of their own. *)
Recv ==
  /\ rpc = "idle" /\ side # "none"
  /\ rpc' = "head" /\ data' = <<>> /\ length' = 0 /\ body' = <<>> /\ expect' = 0
  /\ UNCHANGED <<side, wire, sentBodies, given, torn, over>>

(* One buffer of a head: read() and execute().  Units that are not the      *)
(* beginning of a head end the connection.                                  *)
ReadHead(n) ==
  /\ rpc \in {"head", "inhead"} /\ n \in 1..MinOf(BufSize, Len(wire))
  /\ LET d == Prefix(wire, n)
         ends == {i \in 1..n : d[i] = <<"end">>}
         e == IF ends = {} THEN n ELSE CHOOSE i \in ends : \A j \in ends : i <= j
         halves == {i \in 1..e : d[i][1] \in {"field1", "field2"}}
     IN /\ length' = IF Cardinality(halves) = 2 THEN d[CHOOSE i \in halves : TRUE][2]
                     ELSE length
        /\ torn' = (torn \/ Cardinality(halves) = 1)
        /\ data' = Rest(d, e)
        /\ rpc' = IF rpc = "head" /\ d[1] # <<"line">> THEN "closed"
                  ELSE IF ends = {} THEN "inhead" ELSE "body"
  /\ wire' = Rest(wire, n)
  /\ UNCHANGED <<side, sentBodies, expect, body, given, over>>

(* The body of a message with Content-Length, as far as the buffer has it;  *)
(* what the buffer has behind it is dropped with the buffer.                *)
TakeBody ==
  /\ rpc = "body" /\ length # Chunked
  /\ body' = Prefix(data, MinOf(length, Len(data)))
  /\ expect' = IF length > Len(data) THEN length - Len(data) ELSE 0
  /\ over' = (over \/ Len(data) > length)
  /\ data' = <<>>
  /\ rpc' = IF length > Len(data) THEN "fixsize" ELSE "given"
  /\ UNCHANGED <<side, wire, sentBodies, length, given, torn>>

(* readFixSize: one read() of the rest.                                     *)
ReadFixSize(n) ==
  /\ rpc = "fixsize" /\ n \in 1..MinOf(expect, Len(wire))
  /\ body' = body \o Prefix(wire, n) /\ wire' = Rest(wire, n)
  /\ expect' = expect - n
  /\ rpc' = IF expect = n THEN "given" ELSE "fixsize"
  /\ UNCHANGED <<side, sentBodies, data, length, given, torn, over>>

(* The chunk loop.  A chunk header is parsed from what the buffer still     *)
(* has, or after a read() if that is nothing; each execute() starts anew.   *)
BeginChunks ==
  /\ rpc = "body" /\ length = Chunked
  /\ rpc' = "chunk"
  /\ UNCHANGED <<side, wire, sentBodies, data, length, expect, body, given, torn, over>>

HeaderOf(d) == LET lfs == {i \in 1..Len(d) : d[i] = <<"lf">>}
               IN IF lfs = {} THEN 0 ELSE CHOOSE i \in lfs : \A j \in lfs : i <= j
Number(ds) == IF Len(ds) = 1 THEN ds[1][2] ELSE 2 * ds[1][2] + ds[2][2]

ExecuteChunkHeader(d) ==
  LET h == HeaderOf(d)
  IN /\ IF d[1][1] # "digit" THEN rpc' = "closed" /\ data' = <<>> /\ UNCHANGED <<length, torn>>
        ELSE IF h = 0 THEN rpc' = "insize" /\ data' = <<>> /\ torn' = TRUE /\ UNCHANGED length
        ELSE rpc' = "chunkdata" /\ data' = Rest(d, h) /\ UNCHANGED torn
               /\ length' = Number(Prefix(d, h - 2))

ChunkHeader ==
  /\ rpc = "chunk" /\ data # <<>>
  /\ ExecuteChunkHeader(data)
  /\ UNCHANGED <<side, wire, sentBodies, expect, body, given, over>>

ReadChunkHeader(n) ==
  /\ rpc = "insize" \/ (rpc = "chunk" /\ data = <<>>)
  /\ n \in 1..MinOf(BufSize, Len(wire))
  /\ ExecuteChunkHeader(Prefix(wire, n))
  /\ wire' = Rest(wire, n)
  /\ UNCHANGED <<side, sentBodies, expect, body, given, over>>

AfterChunk == IF length = 0 THEN "given" ELSE "chunk"

(* The chunk and its line end, from the buffer alone or with further reads, *)
(* which append the line end too and cut it off again.                      *)
ChunkInBuffer ==
  /\ rpc = "chunkdata" /\ length + 2 <= Len(data)
  /\ body' = body \o Prefix(data, length) /\ data' = Rest(data, length + 2)
  /\ rpc' = AfterChunk
  /\ UNCHANGED <<side, wire, sentBodies, length, expect, given, torn, over>>

ChunkBeyondBuffer ==
  /\ rpc = "chunkdata" /\ length + 2 > Len(data)
  /\ body' = body \o data /\ data' = <<>> /\ expect' = length - Len(data) + 2
  /\ rpc' = "chunkrest"
  /\ UNCHANGED <<side, wire, sentBodies, length, given, torn, over>>

(* Mutant: the line end behind a chunk stays in the body.                   *)
ReadChunkRestUntrimmed(n) ==
  /\ rpc = "chunkrest" /\ n \in 1..MinOf(MinOf(expect, BufSize), Len(wire))
  /\ wire' = Rest(wire, n) /\ expect' = expect - n
  /\ body' = body \o Prefix(wire, n)
  /\ rpc' = IF expect = n THEN AfterChunk ELSE rpc
  /\ UNCHANGED <<side, sentBodies, data, length, given, torn, over>>

ReadChunkRest(n) ==
  /\ rpc = "chunkrest" /\ n \in 1..MinOf(MinOf(expect, BufSize), Len(wire))
  /\ wire' = Rest(wire, n) /\ expect' = expect - n
  /\ LET b == body \o Prefix(wire, n)
     IN IF expect = n THEN body' = Prefix(b, Len(b) - 2) /\ rpc' = AfterChunk
        ELSE body' = b /\ UNCHANGED rpc
  /\ UNCHANGED <<side, sentBodies, data, length, given, torn, over>>

(* The message is handed on; the connection is kept for the next, or not.   *)
Hand ==
  /\ rpc = "given"
  /\ given' = Append(given, body)
  /\ over' = (over \/ data # <<>>)
  /\ rpc' \in {"idle", "closed"}
  /\ UNCHANGED <<side, wire, sentBodies, data, length, expect, body, torn>>

(* read() returns 0 or fails: the peer is gone or the timeout has passed.   *)
ReadFails ==
  /\ \/ rpc \in {"head", "inhead", "fixsize", "insize", "chunkrest"}
     \/ rpc = "chunk" /\ data = <<>>
  /\ wire = <<>>
  /\ Close

HsNext ==
  \/ \E s \in {"request", "response"}, b \in Bodies : Send(s, b)
  \/ Recv \/ TakeBody \/ BeginChunks \/ ChunkHeader \/ ChunkInBuffer \/ ChunkBeyondBuffer
  \/ Hand \/ ReadFails
  \/ \E n \in 1..BufSize : ReadHead(n) \/ ReadFixSize(n) \/ ReadChunkHeader(n) \/ ReadChunkRest(n)

HsSpec == HsInit /\ [][HsNext]_hsvars

-----------------------------------------------------------------------------
(* What recvRequest and recvResponse hand on are the bodies that were sent, *)
(* whole and in order, however the reads cut the stream, as long as no      *)
(* buffer ended inside a framing field or a chunk header and none held the  *)
(* beginning of the next message.                                           *)
BodiesInOrder ==
  ~torn /\ ~over => given = Prefix(sentBodies, Len(given))
=============================================================================
