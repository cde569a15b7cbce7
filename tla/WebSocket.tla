----------------------------- MODULE WebSocket ------------------------------
(***************************************************************************)
(* WebSocket framing (http/ws_session.cc, http/ws_connection.cc): one      *)
(* direction of a connection, after the handshake.  The sending end is a   *)
(* client, which masks, or a server.  Its application sends messages in    *)
(* one or more frames, with one writeFixSize() for each part of a frame;   *)
(* its receiving fiber answers the pings of the peer, at any time.  The    *)
(* receiving end runs WSRecvMessage again and again.                       *)
(*                                                                         *)
(* Lengths are scaled down: up to Small - 1 bytes are coded in the head,   *)
(* up to Medium - 1 in 16 bits, others in 64 bits.  A payload byte is its  *)
(* name with the set of mask bytes it is xor-ed with; a mask has 2 bytes.  *)
(***************************************************************************)
EXTENDS Integers, Sequences, FiniteSets, SequencesExt

CONSTANTS MaxFrames,   \* bound: frames the application sends
          MaxControls  \* bound: pings and pongs

Small   == 2           \* 126
Medium  == 3           \* 65536
MaxSize == 4           \* websocket.message.max_size

VARIABLES
  masking,     \* "none" before the first frame; then whether the sender is a client
  channel,     \* parts written and not read
  writing,     \* parts of the frame being sent that are not written yet
  frames,      \* frames begun
  saying,      \* the message being sent
  said,        \* the messages sent completely
  controls,    \* pings and pongs written
  mixed,       \* one was written inside a frame (history)
  sopen, ropen,  \* the sending and the receiving end have not closed the stream
  wpc,         \* what the receiver reads next
  head,        \* the head of the frame it is in
  want,        \* length and mask of the frame it is in
  heard,       \* opcode and data collected so far
  handed       \* the messages handed on

wsvars == <<masking, channel, writing, frames, saying, said, controls, mixed, sopen, ropen,
            wpc, head, want, heard, handed>>
sender   == <<masking, writing, frames, saying, said, controls, mixed, sopen>>
receiver == <<ropen, wpc, head, want, heard, handed>>

CONTINUE   == 0
TEXT_FRAME == 1
PING       == 9
PONG       == 10

NoMessage == [opcode |-> CONTINUE, data |-> <<>>]
Garbled == [opcode |-> TEXT_FRAME, data |-> << [name |-> <<0, 0>>, x |-> {}] >>]
NoHead == [fin |-> FALSE, opcode |-> CONTINUE, mask |-> FALSE, payload |-> 0]

Xor(byte, m) == [byte EXCEPT !.x = (@ \ {m}) \cup ({m} \ @)]
XorAll(data, mask) == [k \in 1..Len(data) |-> Xor(data[k], <<mask, (k - 1) % 2>>)]

WsInit ==
  /\ masking = "none" /\ channel = <<>> /\ writing = <<>> /\ frames = 0
  /\ saying = [opcode |-> CONTINUE, data |-> <<>>, fin |-> TRUE] /\ said = <<>>
  /\ controls = 0 /\ mixed = FALSE /\ sopen = TRUE /\ ropen = TRUE
  /\ wpc = "head" /\ head = NoHead /\ want = [length |-> 0, mask |-> 0]
  /\ heard = NoMessage /\ handed = <<>>
-----------------------------------------------------------------------------
(* The parts of a frame, as WSSendMessage writes them.                      *)
FrameOf(client, fin, op, data, mask) ==
  LET n == Len(data)
      code == IF n < Small THEN n ELSE IF n < Medium THEN 126 ELSE 127
      h == [fin |-> fin, opcode |-> op, mask |-> client, payload |-> code]
  IN << <<"head", h>> >>
       \o (IF code >= 126 THEN << <<"length", n>> >> ELSE <<>>)
       \o (IF client THEN << <<"mask", mask>> >> ELSE <<>>)
       \o << <<"payload", IF client THEN XorAll(data, mask) ELSE data>> >>

(* sendMessage(msg, fin), by a caller who sends what follows a frame that   *)
(* is not the last of its message with CONTINUE.                            *)
WSSendMessage(client, n, fin) ==
  /\ sopen /\ writing = <<>> /\ frames < MaxFrames
  /\ IF client THEN masking \in {"none", "client"} /\ masking' = "client"
     ELSE masking \in {"none", "server"} /\ masking' = "server"
  /\ LET data == [k \in 1..n |-> [name |-> <<frames, k>>, x |-> {}]]
         op == IF saying.fin THEN TEXT_FRAME ELSE CONTINUE
     IN /\ writing' = FrameOf(client, fin, op, data, frames)
        /\ saying' = [opcode |-> TEXT_FRAME, fin |-> fin,
                      data |-> IF saying.fin THEN data ELSE saying.data \o data]
  /\ frames' = frames + 1
  /\ UNCHANGED <<channel, said, controls, mixed, sopen, receiver>>

(* One writeFixSize of the frame.  Of a payload of 0 bytes it returns 0,    *)
(* which is taken for an error: the stream is closed.                       *)
WritePart ==
  /\ sopen /\ writing # <<>>
  /\ IF Head(writing) = <<"payload", <<>> >>
     THEN sopen' = FALSE /\ writing' = <<>> /\ UNCHANGED <<channel, said>>
     ELSE /\ channel' = Append(channel, Head(writing)) /\ writing' = Tail(writing)
          /\ said' = IF Len(writing) = 1 /\ saying.fin
                     THEN Append(said, [opcode |-> saying.opcode, data |-> saying.data])
                     ELSE said
          /\ UNCHANGED sopen
  /\ UNCHANGED <<masking, frames, saying, controls, mixed, receiver>>

(* A write fails: the stream is closed.                                     *)
WriteFails ==
  /\ sopen /\ writing # <<>>
  /\ sopen' = FALSE /\ writing' = <<>>
  /\ UNCHANGED <<masking, channel, frames, saying, said, controls, mixed, receiver>>

(* WSPing, by another fiber of the application, or WSPong, by the fiber in  *)
(* WSRecvMessage: a head of its own.                                        *)
WSControl(op) ==
  /\ sopen /\ controls < MaxControls /\ masking # "none"
  /\ channel' = Append(channel, <<"head", [NoHead EXCEPT !.fin = TRUE, !.opcode = op]>>)
  /\ controls' = controls + 1
  /\ mixed' = (mixed \/ (writing # <<>> /\ Head(writing)[1] # "head"))
  /\ UNCHANGED <<masking, writing, frames, saying, said, sopen, receiver>>
-----------------------------------------------------------------------------
(* WSRecvMessage.  Every exit from its loop but one closes the stream.      *)
CloseStream == /\ ropen' = FALSE /\ wpc' = "closed"
               /\ UNCHANGED <<sender, head, want, heard, handed>>

(* The next part, if it is what the receiver is about to read.              *)
Reads(part) == /\ wpc = part /\ channel # <<>> /\ Head(channel)[1] = part
               /\ channel' = Tail(channel)

WSRecvHead ==
  /\ Reads("head")
  /\ LET h == Head(channel)[2]
     IN CASE h.opcode = PING -> CloseStream \/ UNCHANGED <<sender, receiver>>
          [] h.opcode = PONG -> UNCHANGED <<sender, receiver>>
          [] OTHER -> IF masking = "client" /\ ~h.mask THEN CloseStream
                      ELSE /\ head' = h
                           /\ want' = [length |-> h.payload, mask |-> 0]
                           /\ wpc' = IF h.payload >= 126 THEN "length" ELSE "size"
                           /\ UNCHANGED <<sender, ropen, heard, handed>>

WSRecvLength ==
  /\ Reads("length")
  /\ want' = [want EXCEPT !.length = Head(channel)[2]] /\ wpc' = "size"
  /\ UNCHANGED <<sender, ropen, head, heard, handed>>

WSCheckSize ==
  /\ wpc = "size"
  /\ UNCHANGED channel
  /\ IF Len(heard.data) + want.length >= MaxSize THEN CloseStream
     ELSE wpc' = (IF head.mask THEN "mask" ELSE "payload")
          /\ UNCHANGED <<sender, ropen, head, want, heard, handed>>

WSRecvMask ==
  /\ Reads("mask")
  /\ want' = [want EXCEPT !.mask = Head(channel)[2]] /\ wpc' = "payload"
  /\ UNCHANGED <<sender, ropen, head, heard, handed>>

(* Mutant: what was heard is not forgotten when the message is handed on.   *)
WSRecvPayloadKeepsHeard ==
  /\ Reads("payload") /\ want.length > 0
  /\ LET data == Head(channel)[2]
         m == [opcode |-> IF heard.opcode = CONTINUE THEN head.opcode ELSE heard.opcode,
               data |-> heard.data \o (IF head.mask THEN XorAll(data, want.mask) ELSE data)]
     IN heard' = m /\ handed' = IF head.fin THEN Append(handed, m) ELSE handed
  /\ wpc' = "head"
  /\ UNCHANGED <<sender, ropen, head, want>>

(* The payload, unmasked and appended; a last frame hands the message on.   *)
WSRecvPayload ==
  /\ Reads("payload") /\ want.length > 0
  /\ LET data == Head(channel)[2]
         m == [opcode |-> IF heard.opcode = CONTINUE THEN head.opcode ELSE heard.opcode,
               data |-> heard.data \o (IF head.mask THEN XorAll(data, want.mask) ELSE data)]
     IN IF head.fin THEN handed' = Append(handed, m) /\ heard' = NoMessage
        ELSE heard' = m /\ UNCHANGED handed
  /\ wpc' = "head"
  /\ UNCHANGED <<sender, ropen, head, want>>

(* A payload of 0 bytes: readFixSize returns 0.                             *)
WSRecvNothing == wpc = "payload" /\ want.length = 0 /\ UNCHANGED channel /\ CloseStream

(* The bytes of one part are taken for another: in the end the stream is    *)
(* closed, or something is handed on that nobody sent.                      *)
WSMisreads ==
  /\ wpc \in {"head", "length", "mask", "payload"} /\ channel # <<>> /\ Head(channel)[1] # wpc
  /\ \/ UNCHANGED channel /\ CloseStream
     \/ /\ channel' = Tail(channel) /\ wpc' = "head"
        /\ heard' = NoMessage /\ handed' = Append(handed, Garbled)
        /\ UNCHANGED <<sender, ropen, head, want>>

(* The peer has closed the stream, or the timeout has passed.               *)
WSReadFails ==
  /\ wpc \in {"head", "length", "mask", "payload"} /\ channel = <<>>
  /\ UNCHANGED channel /\ CloseStream

WsNext ==
  \/ \E client \in BOOLEAN, n \in 0..3, fin \in BOOLEAN : WSSendMessage(client, n, fin)
  \/ WritePart \/ WriteFails \/ \E op \in {PING, PONG} : WSControl(op)
  \/ WSRecvHead \/ WSRecvLength \/ WSCheckSize \/ WSRecvMask \/ WSRecvPayload
  \/ WSRecvNothing \/ WSMisreads \/ WSReadFails

WsSpec == WsInit /\ [][WsNext]_wsvars
-----------------------------------------------------------------------------
(* The messages handed on are the messages sent, whole, unmasked and in     *)
(* order; and all of them once nothing is on the way and both ends are      *)
(* open: unless a ping or a pong was written between the parts of a frame,  *)
(* which no lock prevents.                                                  *)
MessagesWhole ==
  ~mixed =>
    /\ IsPrefix(handed, said)
    /\ sopen /\ ropen /\ writing = <<>> /\ channel = <<>> => handed = said
=============================================================================
