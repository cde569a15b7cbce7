----------------------------- MODULE WireProofs -----------------------------
(***************************************************************************)
(* Proofs about the layers that turn bytes into messages: WebSocket        *)
(* frames, ByteArray and the cutting of an HTTP stream.                    *)
(*                                                                         *)
(* WebSocket: a receiver that lags behind is one that reads at once, run   *)
(* later.  The invariant has the states it will go through as it reads     *)
(* what is on the way; in the last of them it has all that the sender has  *)
(* written.                                                                *)
(*                                                                         *)
(* ByteArray: the chain of blocks is one memory, in which a write changes  *)
(* the bytes it covers and no others, and a read returns the bytes at the  *)
(* position.  The invariant has the bytes of every item in the memory.     *)
(*                                                                         *)
(* HttpStream: what is buffered and what is on the wire are one stream.    *)
(* The invariant splits it into what is left of the message that is being  *)
(* received and the messages behind it, and relates what is left to the    *)
(* place of the receiver and to the body it has collected.                 *)
(***************************************************************************)
EXTENDS WebSocket, ByteArray, HttpStream, SequenceTheorems, FiniteSetTheorems, TLAPS

-----------------------------------------------------------------------------
(* Types.                                                                   *)

WsByte    == [name : Nat \X Nat, x : SUBSET (Nat \X Nat)]
WsData    == Seq(WsByte)
WsMessage == [opcode : Nat, data : WsData]
WsHead    == [fin : BOOLEAN, opcode : Nat, mask : BOOLEAN, payload : Nat]
WsPart    == ({"head"} \X WsHead) \cup ({"length"} \X Nat) \cup ({"mask"} \X Nat)
               \cup ({"payload"} \X WsData)

WsType ==
  /\ channel \in Seq(WsPart) /\ writing \in Seq(WsPart)
  /\ frames \in Nat
  /\ saying \in [opcode : Nat, data : WsData, fin : BOOLEAN]
  /\ ~saying.fin => saying.opcode = TEXT_FRAME
  /\ said \in Seq(WsMessage)
  /\ want \in [length : Nat, mask : Nat]
  /\ mixed \in BOOLEAN
  /\ ropen \/ wpc = "closed"
  /\ ~sopen => writing = <<>>

-----------------------------------------------------------------------------
(* The receiver, what is left of its silent step done, and what reading a   *)
(* part makes of it.                                                        *)
Seen ==
  [pc |-> IF wpc = "size" THEN IF head.mask THEN "mask" ELSE "payload" ELSE wpc,
   head |-> head, mask |-> want.mask, heard |-> heard, handed |-> handed]

Collected(r, d) ==
  [opcode |-> IF r.heard.opcode = CONTINUE THEN r.head.opcode ELSE r.heard.opcode,
   data |-> r.heard.data \o (IF r.head.mask THEN XorAll(d, r.mask) ELSE d)]

AfterHead(r, h) ==
  IF h.opcode \in {PING, PONG} THEN r
  ELSE [pc |-> IF h.payload >= 126 THEN "length" ELSE IF h.mask THEN "mask" ELSE "payload",
        head |-> h, mask |-> 0, heard |-> r.heard, handed |-> r.handed]

AfterPayload(r, d) ==
  [pc |-> "head", head |-> r.head, mask |-> r.mask,
   heard |-> IF r.head.fin THEN NoMessage ELSE Collected(r, d),
   handed |-> IF r.head.fin THEN Append(r.handed, Collected(r, d)) ELSE r.handed]

AfterPart(r, part) ==
  CASE part[1] = "head"    -> AfterHead(r, part[2])
    [] part[1] = "length"  -> [pc |-> IF r.head.mask THEN "mask" ELSE "payload", head |-> r.head,
                               mask |-> r.mask, heard |-> r.heard, handed |-> r.handed]
    [] part[1] = "mask"    -> [pc |-> "payload", head |-> r.head,
                               mask |-> part[2], heard |-> r.heard, handed |-> r.handed]
    [] part[1] = "payload" -> AfterPayload(r, part[2])

-----------------------------------------------------------------------------
(* The parts of a frame from each of them on.                               *)
CodeOf(n) == IF n < Small THEN n ELSE IF n < Medium THEN 126 ELSE 127
HeadOf(client, fin, op, load) ==
  [fin |-> fin, opcode |-> op, mask |-> client, payload |-> CodeOf(Len(load))]

FromPayload(client, load, mask) ==
  << <<"payload", IF client THEN XorAll(load, mask) ELSE load>> >>
FromMask(client, load, mask) ==
  (IF client THEN << <<"mask", mask>> >> ELSE <<>>) \o FromPayload(client, load, mask)
FromLength(client, load, mask) ==
  (IF CodeOf(Len(load)) >= 126 THEN << <<"length", Len(load)>> >> ELSE <<>>)
    \o FromMask(client, load, mask)

(* How far a receiver that has read all that was written is in the frame    *)
(* that carries `load` as the end of the message being sent.                *)
InFrame(r, client, load, mask) ==
  LET op == IF r.heard.opcode = CONTINUE THEN TEXT_FRAME ELSE CONTINUE
      h  == HeadOf(client, saying.fin, op, load)
  IN \/ /\ r.pc = "head"
        /\ writing = << <<"head", h>> >> \o FromLength(client, load, mask)
     \/ /\ r.pc = "length" /\ r.head = h
        /\ CodeOf(Len(load)) >= 126
        /\ writing = FromLength(client, load, mask)
     \/ /\ r.pc = "mask" /\ r.head = h
        /\ client /\ writing = FromMask(client, load, mask)
     \/ /\ r.pc = "payload" /\ r.head = h
        /\ client => r.mask = mask
        /\ writing = FromPayload(client, load, mask)

BetweenFrames(r) ==
  /\ r.pc = "head"
  /\ r.heard = IF saying.fin THEN NoMessage
               ELSE [opcode |-> saying.opcode, data |-> saying.data]

CaughtUp(r) ==
  sopen =>
    /\ r.handed = said
    /\ writing = <<>> => BetweenFrames(r)
    /\ writing # <<>> =>
         /\ r.heard = NoMessage \/ (r.heard \in WsMessage /\ r.heard.opcode = TEXT_FRAME)
         /\ saying.opcode = TEXT_FRAME
         /\ \E client \in BOOLEAN, load \in WsData, mask \in Nat :
              /\ saying.data = r.heard.data \o load
              /\ InFrame(r, client, load, mask)

(* The states of the receiver up to the end of the channel.                 *)
Reading(g) ==
  /\ g[1] = Seen
  /\ \A i \in 1..Len(channel) : channel[i][1] = g[i].pc /\ g[i + 1] = AfterPart(g[i], channel[i])
  /\ \A i \in 1..Len(channel) + 1 : g[i].handed \in Seq(WsMessage) /\ IsPrefix(g[i].handed, said)
  /\ \A r : r = g[Len(channel) + 1] => CaughtUp(r)

WsInv ==
  /\ WsType
  /\ ~mixed => /\ handed \in Seq(WsMessage) /\ IsPrefix(handed, said)
               /\ ropen => \E g : Reading(g)

-----------------------------------------------------------------------------
(* Sequences of messages and of parts.                                      *)

(* What begins with s still does when something is appended.                *)
LEMMA PrefixGrows ==
  ASSUME NEW s \in Seq(WsMessage), NEW t \in Seq(WsMessage), NEW m \in WsMessage
  PROVE  /\ IsPrefix(s, s)
         /\ IsPrefix(s, t) => IsPrefix(s, Append(t, m))
         /\ Append(t, m) \in Seq(WsMessage)
  <1>1. ASSUME IsPrefix(s, t) PROVE IsPrefix(s, Append(t, m))
    <2>1. /\ Append(t, m) \in Seq(WsMessage) /\ Len(Append(t, m)) = Len(t) + 1
          /\ \A i \in 1..Len(t) : Append(t, m)[i] = t[i]
      BY AppendProperties
    <2>2. Len(s) <= Len(t) /\ SubSeq(s, 1, Len(s)) = SubSeq(t, 1, Len(s)) /\ Len(s) \in Nat
      BY <1>1 DEF IsPrefix
    <2>3. SubSeq(t, 1, Len(s)) = SubSeq(Append(t, m), 1, Len(s))
      BY <2>1, <2>2
    <2> QED BY <2>1, <2>2, <2>3 DEF IsPrefix
  <1> QED BY <1>1 DEF IsPrefix

(* The first of a sequence of parts and the rest.                           *)
LEMMA FirstPart ==
  ASSUME NEW p \in WsPart, NEW q \in Seq(WsPart)
  PROVE  /\ <<p>> \o q \in Seq(WsPart) /\ <<p>> \o q # <<>>
         /\ Len(<<p>> \o q) = 1 + Len(q)
         /\ Head(<<p>> \o q) = p /\ Tail(<<p>> \o q) = q
  <1> DEFINE s == <<p>> \o q
  <1>1. <<p>> \in Seq(WsPart) /\ Len(<<p>>) = 1 /\ <<p>>[1] = p
    OBVIOUS
  <1>2. /\ s \in Seq(WsPart) /\ Len(s) = 1 + Len(q)
        /\ \A i \in 1..(1 + Len(q)) : s[i] = IF i <= 1 THEN <<p>>[i] ELSE q[i - 1]
    BY <1>1, ConcatProperties
  <1> HIDE DEF s
  <1>3. Len(q) \in Nat /\ s # <<>> /\ Head(s) = p
    BY <1>1, <1>2
  <1>4. /\ Tail(s) \in Seq(WsPart) /\ Len(Tail(s)) = Len(q)
        /\ \A i \in 1..Len(Tail(s)) : Tail(s)[i] = s[i + 1]
    BY <1>2, <1>3, HeadTailProperties
  <1>5. \A i \in 1..Len(q) : Tail(s)[i] = q[i]
    BY <1>2, <1>3, <1>4
  <1>6. Tail(s) = q
    BY <1>3, <1>4, <1>5
  <1> QED BY <1>2, <1>3, <1>6 DEF s

(* Masking a payload and masking it again gives the payload.                *)
LEMMA MaskedTwice ==
  ASSUME NEW load \in WsData, NEW mask \in Nat
  PROVE  XorAll(load, mask) \in WsData /\ XorAll(XorAll(load, mask), mask) = load
  <1>1. ASSUME NEW b \in WsByte, NEW m \in Nat \X Nat
        PROVE  Xor(b, m) \in WsByte /\ Xor(Xor(b, m), m) = b
    <2>1. PICK y \in Nat \X Nat, z \in SUBSET (Nat \X Nat) : b = [name |-> y, x |-> z]
      BY DEF WsByte
    <2> DEFINE w == (z \ {m}) \cup ({m} \ z)
    <2>2. \A v : Xor([name |-> y, x |-> v], m) = [name |-> y, x |-> (v \ {m}) \cup ({m} \ v)]
      BY DEF Xor
    <2>3. w \in SUBSET (Nat \X Nat) /\ (w \ {m}) \cup ({m} \ w) = z
      OBVIOUS
    <2>4. Xor(b, m) = [name |-> y, x |-> w]
      BY <2>1, <2>2
    <2> HIDE DEF w
    <2>5. Xor(Xor(b, m), m) = [name |-> y, x |-> (w \ {m}) \cup ({m} \ w)]
      BY <2>2, <2>4
    <2>6. [name |-> y, x |-> w] \in WsByte
      BY <2>3 DEF WsByte
    <2> QED BY <2>1, <2>3, <2>4, <2>5, <2>6
  <1>2. \A k \in 1..Len(load) : <<mask, (k - 1) % 2>> \in Nat \X Nat /\ load[k] \in WsByte
    BY DEF WsData
  <1> DEFINE once == XorAll(load, mask)
  <1>3. once \in WsData /\ Len(once) = Len(load)
        /\ \A k \in 1..Len(load) : once[k] = Xor(load[k], <<mask, (k - 1) % 2>>)
    <2>1. once = [k \in 1..Len(load) |-> Xor(load[k], <<mask, (k - 1) % 2>>)]
      BY DEF XorAll
    <2>2. \A k \in 1..Len(load) : Xor(load[k], <<mask, (k - 1) % 2>>) \in WsByte
      BY <1>1, <1>2
    <2>3. Len(load) \in Nat
      BY DEF WsData
    <2> HIDE DEF once
    <2> QED BY <2>1, <2>2, <2>3 DEF WsData
  <1> DEFINE twice == XorAll(once, mask)
  <1> HIDE DEF once
  <1>4. twice = [k \in 1..Len(load) |-> Xor(once[k], <<mask, (k - 1) % 2>>)]
    BY <1>3 DEF XorAll
  <1>5. twice = [k \in 1..Len(load) |-> load[k]]
    BY <1>1, <1>2, <1>3, <1>4
  <1>6. load = [k \in 1..Len(load) |-> load[k]]
    BY DEF WsData
  <1> QED BY <1>3, <1>5, <1>6 DEF once

-----------------------------------------------------------------------------
(* Frames.                                                                  *)

(* The parts of a frame, one by one.                                        *)
LEMMA FromParts ==
  ASSUME NEW client \in BOOLEAN, NEW load \in WsData, NEW mask \in Nat
  PROVE  LET pay == IF client THEN XorAll(load, mask) ELSE load
         IN /\ pay \in WsData
            /\ FromPayload(client, load, mask) = << <<"payload", pay>> >> \o <<>>
            /\ FromPayload(client, load, mask) \in Seq(WsPart)
            /\ FromMask(client, load, mask) \in Seq(WsPart)
            /\ FromLength(client, load, mask) \in Seq(WsPart)
            /\ client => FromMask(client, load, mask)
                           = << <<"mask", mask>> >> \o FromPayload(client, load, mask)
            /\ ~client => FromMask(client, load, mask) = FromPayload(client, load, mask)
            /\ CodeOf(Len(load)) >= 126 =>
                 FromLength(client, load, mask)
                   = << <<"length", Len(load)>> >> \o FromMask(client, load, mask)
            /\ ~(CodeOf(Len(load)) >= 126) =>
                 FromLength(client, load, mask) = FromMask(client, load, mask)
  <1> DEFINE pay == IF client THEN XorAll(load, mask) ELSE load
             P == FromPayload(client, load, mask)
             M == FromMask(client, load, mask)
             L == FromLength(client, load, mask)
  <1>1. pay \in WsData
    BY MaskedTwice
  <1>2. /\ <<"payload", pay>> \in WsPart /\ <<"mask", mask>> \in WsPart
        /\ <<"length", Len(load)>> \in WsPart
    BY <1>1 DEF WsPart, WsData
  <1>3. P = << <<"payload", pay>> >> /\ P \in Seq(WsPart)
    BY <1>2 DEF FromPayload
  <1>4. P = << <<"payload", pay>> >> \o <<>>
    BY <1>2, <1>3, ConcatEmptySeq
  <1> HIDE DEF P, pay
  <1>5. /\ M \in Seq(WsPart)
        /\ client => M = << <<"mask", mask>> >> \o P
        /\ ~client => M = P
    <2>1. CASE client
      <3>1. M = << <<"mask", mask>> >> \o P
        BY <2>1 DEF FromMask, P
      <3>2. M \in Seq(WsPart)
        BY <1>2, <1>3, <3>1, FirstPart
      <3> QED BY <2>1, <3>1, <3>2
    <2>2. CASE ~client
      <3>1. M = <<>> \o P
        BY <2>2 DEF FromMask, P
      <3>2. M = P
        BY <1>3, <3>1, ConcatEmptySeq
      <3> QED BY <1>3, <2>2, <3>2
    <2> QED BY <2>1, <2>2
  <1> HIDE DEF M
  <1>7. CASE CodeOf(Len(load)) >= 126
    <2>1. L = << <<"length", Len(load)>> >> \o M
      BY <1>7 DEF FromLength, M
    <2>2. L \in Seq(WsPart)
      BY <1>2, <1>5, <2>1, FirstPart
    <2> QED BY <1>1, <1>3, <1>4, <1>5, <1>7, <2>1, <2>2 DEF P, M, pay
  <1>8. CASE ~(CodeOf(Len(load)) >= 126)
    <2>1. L = <<>> \o M
      BY <1>8 DEF FromLength, M
    <2>2. L = M
      BY <1>5, <2>1, ConcatEmptySeq
    <2> QED BY <1>1, <1>3, <1>4, <1>5, <1>8, <2>2 DEF P, M, pay
  <1> QED BY <1>7, <1>8

LEMMA PartsAssociate ==
  \A a, b, c \in Seq(WsPart) : (a \o b) \o c = a \o (b \o c)
  BY ConcatAssociative

(* FrameOf writes the head and what follows it.                             *)
LEMMA FrameParts ==
  ASSUME NEW client \in BOOLEAN, NEW fin \in BOOLEAN, NEW op \in {CONTINUE, TEXT_FRAME},
         NEW load \in WsData, NEW mask \in Nat
  PROVE  /\ <<"head", HeadOf(client, fin, op, load)>> \in WsPart
         /\ FrameOf(client, fin, op, load, mask)
              = << <<"head", HeadOf(client, fin, op, load)>> >> \o FromLength(client, load, mask)
  <1> DEFINE h == HeadOf(client, fin, op, load)
             H == << <<"head", h>> >>
             A == IF CodeOf(Len(load)) >= 126 THEN << <<"length", Len(load)>> >> ELSE <<>>
             B == IF client THEN << <<"mask", mask>> >> ELSE <<>>
             C == FromPayload(client, load, mask)
  <1>1. CodeOf(Len(load)) \in Nat
    BY DEF CodeOf, Small, Medium, WsData
  <1>2. h \in WsHead
    BY <1>1 DEF HeadOf, WsHead, CONTINUE, TEXT_FRAME
  <1>3. <<"head", h>> \in WsPart
    BY <1>2 DEF WsPart
  <1>4. H \in Seq(WsPart)
    BY <1>3
  <1>5. A \in Seq(WsPart) /\ B \in Seq(WsPart)
    <2>1. <<"mask", mask>> \in WsPart /\ <<"length", Len(load)>> \in WsPart
      BY DEF WsPart, WsData
    <2> QED BY <2>1
  <1>6. C \in Seq(WsPart)
    BY FromParts
  <1>7. FrameOf(client, fin, op, load, mask) = ((H \o A) \o B) \o C
    BY DEF FrameOf, HeadOf, CodeOf, FromPayload
  <1>8. FromLength(client, load, mask) = A \o (B \o C)
    BY DEF FromLength, FromMask
  <1> HIDE DEF H, A, B, C
  <1>9. H \o A \in Seq(WsPart) /\ B \o C \in Seq(WsPart)
    BY <1>4, <1>5, <1>6, ConcatProperties
  <1>10. ((H \o A) \o B) \o C = (H \o A) \o (B \o C)
    <2>1. H \o A \in Seq(WsPart) /\ B \in Seq(WsPart) /\ C \in Seq(WsPart)
      BY <1>5, <1>6, <1>9
    <2> QED BY ONLY <2>1, PartsAssociate, ZenonT(40)
  <1>11. (H \o A) \o (B \o C) = H \o (A \o (B \o C))
    <2>1. H \in Seq(WsPart) /\ A \in Seq(WsPart) /\ B \o C \in Seq(WsPart)
      BY <1>4, <1>5, <1>9
    <2> QED BY ONLY <2>1, PartsAssociate, ZenonT(40)
  <1> QED BY <1>3, <1>7, <1>8, <1>10, <1>11 DEF H

-----------------------------------------------------------------------------
(* A part is written.                                                       *)

(* Who has read all of it expects the part that comes next.                 *)
LEMMA PartInFrame ==
  ASSUME WsType, NEW r, NEW client \in BOOLEAN, NEW load \in WsData, NEW mask \in Nat,
         InFrame(r, client, load, mask)
  PROVE  Head(writing)[1] = r.pc
  <1> DEFINE pay == IF client THEN XorAll(load, mask) ELSE load
             P   == FromPayload(client, load, mask)
             M   == FromMask(client, load, mask)
             L   == FromLength(client, load, mask)
  <1>1. PICK op \in {CONTINUE, TEXT_FRAME} :
             op = IF r.heard.opcode = CONTINUE THEN TEXT_FRAME ELSE CONTINUE
    OBVIOUS
  <1>2. PICK fin \in BOOLEAN : fin = saying.fin
    BY DEF WsType
  <1>3. PICK h : h = HeadOf(client, fin, op, load)
    OBVIOUS
  <1>4. /\ P = << <<"payload", pay>> >> \o <<>>
        /\ <<"payload", pay>> \in WsPart /\ <<"mask", mask>> \in WsPart
        /\ <<"length", Len(load)>> \in WsPart /\ <<"head", h>> \in WsPart
        /\ P \in Seq(WsPart) /\ M \in Seq(WsPart) /\ L \in Seq(WsPart)
        /\ client => M = << <<"mask", mask>> >> \o P
        /\ CodeOf(Len(load)) >= 126 => L = << <<"length", Len(load)>> >> \o M
    <2>1. pay \in WsData
      BY MaskedTwice
    <2>2. /\ <<"payload", pay>> \in WsPart /\ <<"mask", mask>> \in WsPart
          /\ <<"length", Len(load)>> \in WsPart
      BY <2>1 DEF WsPart, WsData
    <2>3. <<"head", h>> \in WsPart
      BY <1>3, FrameParts
    <2> QED BY <2>2, <2>3, FromParts
  <1> HIDE DEF pay, P, M, L
  <1>5. \/ r.pc = "head" /\ writing = << <<"head", h>> >> \o L
        \/ r.pc = "length" /\ writing = << <<"length", Len(load)>> >> \o M
        \/ r.pc = "mask" /\ writing = << <<"mask", mask>> >> \o P
        \/ r.pc = "payload" /\ writing = << <<"payload", pay>> >> \o <<>>
    BY <1>1, <1>2, <1>3, <1>4 DEF InFrame, P, M, L
  <1>6. <<>> \in Seq(WsPart)
    OBVIOUS
  <1> QED BY <1>4, <1>5, <1>6, FirstPart

(* Who has read all of it reads the next part when it is written, and still *)
(* has read all of it.                                                      *)
LEMMA PartIsRead ==
  ASSUME WsType, NEW r, CaughtUp(r), r.handed = said, WritePart, sopen',
         NEW r2, r2 = AfterPart(r, Head(writing))
  PROVE  /\ Head(writing) \in WsPart /\ Head(writing)[1] = r.pc
         /\ channel' = Append(channel, Head(writing))
         /\ writing' \in Seq(WsPart)
         /\ said' \in Seq(WsMessage) /\ IsPrefix(said, said')
         /\ r2.handed = said' 
         /\ CaughtUp(r2)'
  <1>1. PICK client \in BOOLEAN, load \in WsData, mask \in Nat :
             saying.data = r.heard.data \o load /\ InFrame(r, client, load, mask)
    BY DEF CaughtUp, WritePart
  <1>2. /\ r.heard = NoMessage \/ (r.heard \in WsMessage /\ r.heard.opcode = TEXT_FRAME)
        /\ saying.opcode = TEXT_FRAME
    BY DEF CaughtUp, WritePart
  <1> DEFINE op  == IF r.heard.opcode = CONTINUE THEN TEXT_FRAME ELSE CONTINUE
             h   == HeadOf(client, saying.fin, op, load)
             pay == IF client THEN XorAll(load, mask) ELSE load
             P   == FromPayload(client, load, mask)
             M   == FromMask(client, load, mask)
             L   == FromLength(client, load, mask)
  <1>3. /\ pay \in WsData /\ <<"payload", pay>> \in WsPart /\ <<"mask", mask>> \in WsPart
        /\ <<"length", Len(load)>> \in WsPart /\ <<"head", h>> \in WsPart
        /\ P = << <<"payload", pay>> >> \o <<>>
        /\ P \in Seq(WsPart) /\ M \in Seq(WsPart) /\ L \in Seq(WsPart)
        /\ client => M = << <<"mask", mask>> >> \o P
        /\ ~client => M = P
        /\ CodeOf(Len(load)) >= 126 => L = << <<"length", Len(load)>> >> \o M
        /\ ~(CodeOf(Len(load)) >= 126) => L = M
    <2>1. pay \in WsData
      BY MaskedTwice
    <2>2. saying.fin \in BOOLEAN /\ op \in {CONTINUE, TEXT_FRAME}
      BY DEF WsType
    <2>3. <<"head", h>> \in WsPart
      BY <2>2, FrameParts
    <2>4. /\ <<"payload", pay>> \in WsPart /\ <<"mask", mask>> \in WsPart
          /\ <<"length", Len(load)>> \in WsPart
      BY <2>1 DEF WsPart, WsData
    <2> QED BY <2>1, <2>3, <2>4, FromParts
  <1>4. /\ writing # <<>> /\ sopen
        /\ channel' = Append(channel, Head(writing)) /\ writing' = Tail(writing)
        /\ said' = IF Len(writing) = 1 /\ saying.fin
                   THEN Append(said, [opcode |-> saying.opcode, data |-> saying.data]) ELSE said
        /\ saying' = saying
    BY DEF WritePart
  <1>5. /\ h.fin = saying.fin /\ h.opcode = op /\ h.mask = client
        /\ h.payload = CodeOf(Len(load)) /\ op \notin {PING, PONG}
    BY DEF HeadOf, CONTINUE, TEXT_FRAME, PING, PONG
  <1>6. said \in Seq(WsMessage) /\ IsPrefix(said, said)
    BY DEF WsType, IsPrefix
  <1> HIDE DEF op, h, pay, P, M, L
  <1>7. ASSUME r2.heard = r.heard, r2.handed = said, said' = said,
               writing' # <<>>, InFrame(r2, client, load, mask)'
        PROVE  CaughtUp(r2)'
    BY <1>1, <1>2, <1>4, <1>7 DEF CaughtUp
  <1>8. P # <<>> /\ M # <<>> /\ L # <<>> /\ Len(P) = 1
    <2>1. P # <<>> /\ Len(P) = 1
      BY <1>3, FirstPart
    <2>2. M # <<>>
      BY <1>3, <2>1, FirstPart
    <2> QED BY <1>3, <2>1, <2>2, FirstPart
  <1>9. CASE r.pc = "head" /\ writing = << <<"head", h>> >> \o L
    <2>1. /\ Head(writing) = <<"head", h>> /\ writing' = L /\ Len(writing) # 1
      BY <1>3, <1>4, <1>8, <1>9, FirstPart
    <2>2. said' = said
      BY <1>4, <2>1
    <2>3. r2 = [pc |-> IF h.payload >= 126 THEN "length" ELSE IF h.mask THEN "mask" ELSE "payload",
                head |-> h, mask |-> 0, heard |-> r.heard, handed |-> r.handed]
      BY <1>5, <2>1 DEF AfterPart, AfterHead
    <2>4. InFrame(r2, client, load, mask)'
      <3>1. r2.head = h /\ r2.heard = r.heard
        BY <2>3
      <3>2. CASE CodeOf(Len(load)) >= 126
        <4>1. r2.pc = "length" /\ writing' = L
          BY <1>5, <2>1, <2>3, <3>2
        <4> QED BY <1>4, <3>1, <3>2, <4>1 DEF InFrame, h, op, L
      <3>3. CASE ~(CodeOf(Len(load)) >= 126) /\ client
        <4>1. r2.pc = "mask" /\ writing' = M
          BY <1>3, <1>5, <2>1, <2>3, <3>3
        <4> QED BY <1>4, <3>1, <3>3, <4>1 DEF InFrame, h, op, M
      <3>4. CASE ~(CodeOf(Len(load)) >= 126) /\ ~client
        <4>1. r2.pc = "payload" /\ writing' = P
          BY <1>3, <1>5, <2>1, <2>3, <3>4
        <4> QED BY <1>4, <3>1, <3>4, <4>1 DEF InFrame, h, op, P
      <3> QED BY <3>2, <3>3, <3>4
    <2>5. CaughtUp(r2)'
      BY <1>7, <1>8, <2>1, <2>2, <2>3, <2>4
    <2>6. r2.handed = said' /\ Head(writing)[1] = "head"
      BY <2>1, <2>2, <2>3, <1>9
    <2> QED BY <1>3, <1>4, <1>6, <1>9, <2>1, <2>2, <2>5, <2>6
  <1>10. CASE r.pc = "length" /\ r.head = h /\ CodeOf(Len(load)) >= 126 /\ writing = L
    <2>1. /\ Head(writing) = <<"length", Len(load)>> /\ writing' = M /\ Len(writing) # 1
      <3>1. /\ <<"length", Len(load)>> \in WsPart /\ M \in Seq(WsPart) /\ Len(M) # 0
            /\ Len(M) \in Nat
        BY <1>3, <1>8
      <3>2. writing = << <<"length", Len(load)>> >> \o M
        BY <1>3, <1>10, Zenon
      <3>3. /\ Head(<< <<"length", Len(load)>> >> \o M) = <<"length", Len(load)>>
            /\ Tail(<< <<"length", Len(load)>> >> \o M) = M
            /\ Len(<< <<"length", Len(load)>> >> \o M) = 1 + Len(M)
        BY <3>1, FirstPart, Zenon
      <3>4. writing' = Tail(writing)
        BY <1>4
      <3> QED BY <3>1, <3>2, <3>3, <3>4
    <2>2. said' = said
      BY <1>4, <2>1
    <2>3. r2 = [pc |-> IF r.head.mask THEN "mask" ELSE "payload", head |-> r.head,
                mask |-> r.mask, heard |-> r.heard, handed |-> r.handed]
      BY <2>1 DEF AfterPart
    <2>4. InFrame(r2, client, load, mask)'
      <3>1. r2.head = h /\ r2.heard = r.heard
        BY <1>10, <2>3
      <3>2. CASE client
        <4>0. r.head.mask
          BY <1>5, <1>10, <3>2, Zenon
        <4>1. r2.pc = "mask" /\ writing' = M
          BY <2>1, <2>3, <4>0
        <4> QED BY <1>4, <3>1, <3>2, <4>1 DEF InFrame, h, op, M
      <3>3. CASE ~client
        <4>0. ~r.head.mask /\ M = P
          BY <1>3, <1>5, <1>10, <3>3, Zenon
        <4>1. r2.pc = "payload" /\ writing' = P
          BY <2>1, <2>3, <4>0
        <4> QED BY <1>4, <3>1, <3>3, <4>1 DEF InFrame, h, op, P
      <3> QED BY <3>2, <3>3
    <2>5. CaughtUp(r2)'
      BY <1>7, <1>8, <2>1, <2>2, <2>3, <2>4
    <2> QED BY <1>3, <1>4, <1>6, <1>10, <2>1, <2>2, <2>3, <2>5
  <1>11. CASE r.pc = "mask" /\ r.head = h /\ client /\ writing = M
    <2>0. writing = << <<"mask", mask>> >> \o P
      BY <1>3, <1>11, Zenon
    <2>1. /\ Head(writing) = <<"mask", mask>> /\ writing' = P /\ Len(writing) # 1
      <3>1. <<"mask", mask>> \in WsPart /\ P \in Seq(WsPart) /\ Len(P) = 1
        BY <1>3, <1>8
      <3>2. /\ Head(<< <<"mask", mask>> >> \o P) = <<"mask", mask>>
            /\ Tail(<< <<"mask", mask>> >> \o P) = P
            /\ Len(<< <<"mask", mask>> >> \o P) = 1 + Len(P)
        BY <3>1, FirstPart, Zenon
      <3>3. writing' = Tail(writing)
        BY <1>4
      <3> QED BY <2>0, <3>1, <3>2, <3>3
    <2>2. said' = said
      BY <1>4, <2>1
    <2>3. r2 = [pc |-> "payload", head |-> r.head,
                mask |-> mask, heard |-> r.heard, handed |-> r.handed]
      BY <2>1 DEF AfterPart
    <2>4. InFrame(r2, client, load, mask)'
      <3>1. r2.head = h /\ r2.heard = r.heard /\ r2.pc = "payload" /\ r2.mask = mask
        BY <1>11, <2>3
      <3> QED BY <1>4, <2>1, <3>1 DEF InFrame, h, op, P
    <2>5. CaughtUp(r2)'
      BY <1>7, <1>8, <2>1, <2>2, <2>3, <2>4
    <2> QED BY <1>3, <1>4, <1>6, <1>11, <2>1, <2>2, <2>3, <2>5
  <1>12. CASE r.pc = "payload" /\ r.head = h /\ (client => r.mask = mask) /\ writing = P
    <2>1. /\ Head(writing) = <<"payload", pay>> /\ writing' = <<>> /\ Len(writing) = 1
      BY <1>3, <1>4, <1>8, <1>12, FirstPart
    <2>2. r2 = AfterPayload(r, pay)
      BY <2>1 DEF AfterPart
    <2>3. (IF r.head.mask THEN XorAll(pay, r.mask) ELSE pay) = load
      BY <1>5, <1>12, MaskedTwice DEF pay
    <2>4. Collected(r, pay) = [opcode |-> saying.opcode, data |-> saying.data]
      <3>1. r.heard.data \o load = saying.data
        BY <1>1
      <3>2. (IF r.heard.opcode = CONTINUE THEN r.head.opcode ELSE r.heard.opcode) = saying.opcode
        BY <1>2, <1>5, <1>12 DEF op, NoMessage, CONTINUE, TEXT_FRAME
      <3> QED BY <2>3, <3>1, <3>2 DEF Collected
    <2>5. [opcode |-> saying.opcode, data |-> saying.data] \in WsMessage
      BY DEF WsType, WsMessage
    <2>6. r2.pc = "head" /\ r.head.fin = saying.fin
      BY <1>5, <1>12, <2>2 DEF AfterPayload
    <2>7. CASE saying.fin
      <3>1. said' = Append(said, [opcode |-> saying.opcode, data |-> saying.data])
        BY <1>4, <2>1, <2>7
      <3>2. r2.handed = said' /\ r2.heard = NoMessage
        BY <2>2, <2>4, <2>6, <2>7, <3>1 DEF AfterPayload
      <3>3. said' \in Seq(WsMessage) /\ IsPrefix(said, said')
        BY <1>6, <2>5, <3>1, PrefixGrows
      <3>4. CaughtUp(r2)'
        BY <1>4, <2>1, <2>6, <2>7, <3>2 DEF CaughtUp, BetweenFrames
      <3> QED BY <1>3, <1>4, <1>12, <2>1, <3>2, <3>3, <3>4
    <2>8. CASE ~saying.fin
      <3>1. said' = said
        BY <1>4, <2>1, <2>8
      <3>2. r2.handed = said' /\ r2.heard = [opcode |-> saying.opcode, data |-> saying.data]
        BY <2>2, <2>4, <2>6, <2>8, <3>1 DEF AfterPayload
      <3>4. CaughtUp(r2)'
        BY <1>4, <2>1, <2>6, <2>8, <3>2 DEF CaughtUp, BetweenFrames
      <3> QED BY <1>3, <1>4, <1>6, <1>12, <2>1, <3>1, <3>2, <3>4
    <2> QED BY <2>7, <2>8
  <1> QED BY <1>1, <1>9, <1>10, <1>11, <1>12 DEF InFrame, op, h, P, M, L

-----------------------------------------------------------------------------
(* The states of the receiver after a step.                                 *)

(* Only the sender can make a receiver lag behind.                          *)
LEMMA StillCaughtUp ==
  ASSUME NEW r, CaughtUp(r), UNCHANGED <<sopen, said, writing, saying>>
  PROVE  CaughtUp(r)'
  <1>1. sopen' = sopen /\ said' = said /\ writing' = writing /\ saying' = saying
    OBVIOUS
  <1>2. ASSUME NEW c \in BOOLEAN, NEW d \in WsData, NEW m \in Nat, InFrame(r, c, d, m)
        PROVE  InFrame(r, c, d, m)'
    BY <1>1, <1>2, Zenon DEF InFrame
  <1>3. BetweenFrames(r) => BetweenFrames(r)'
    BY <1>1, Zenon DEF BetweenFrames
  <1>4. CASE ~sopen
    BY <1>1, <1>4 DEF CaughtUp
  <1>5. CASE sopen /\ writing = <<>>
    BY <1>1, <1>3, <1>5 DEF CaughtUp
  <1>6. CASE sopen /\ writing # <<>>
    <2>1. PICK c \in BOOLEAN, d \in WsData, m \in Nat :
            saying.data = r.heard.data \o d /\ InFrame(r, c, d, m)
      BY <1>6 DEF CaughtUp
    <2>2. InFrame(r, c, d, m)' /\ saying'.data = r.heard.data \o d
      BY <1>1, <1>2, <2>1
    <2> QED BY <1>1, <1>6, <2>2 DEF CaughtUp
  <1> QED BY <1>4, <1>5, <1>6

(* A part is added at the end.                                              *)
LEMMA ReadingGrows ==
  ASSUME WsType, NEW g, Reading(g), NEW p \in WsPart, channel' = Append(channel, p),
         NEW r, r = g[Len(channel) + 1], p[1] = r.pc,
         NEW r2, r2 = AfterPart(r, p),
         r2.handed \in Seq(WsMessage), IsPrefix(r2.handed, said'), CaughtUp(r2)',
         \A s \in Seq(WsMessage) : IsPrefix(s, said) => IsPrefix(s, said'),
         Seen' = Seen
  PROVE  \E g2 : Reading(g2)'
  <1> DEFINE n == Len(channel) + 1
  <1>0. PICK g2 : g2 = [i \in 1..(n + 1) |-> IF i <= n THEN g[i] ELSE r2]
    OBVIOUS
  <1>1. /\ n \in Nat /\ n >= 1 /\ Len(channel') = n
        /\ \A i \in 1..(n - 1) : channel'[i] = channel[i]
        /\ channel'[n] = p
    BY AppendProperties DEF WsType
  <1>2. /\ \A i \in 1..n : g2[i] = g[i]
        /\ g2[n + 1] = r2
    BY <1>0, <1>1
  <1>3. /\ g[1] = Seen
        /\ \A i \in 1..(n - 1) : channel[i][1] = g[i].pc /\ g[i + 1] = AfterPart(g[i], channel[i])
        /\ \A i \in 1..n : g[i].handed \in Seq(WsMessage) /\ IsPrefix(g[i].handed, said)
    BY DEF Reading, WsType
  <1> HIDE DEF n
  <1>4. g2[1] = Seen'
    BY <1>1, <1>2, <1>3
  <1>5. ASSUME NEW i \in 1..n
        PROVE  channel'[i][1] = g2[i].pc /\ g2[i + 1] = AfterPart(g2[i], channel'[i])
    <2>1. CASE i = n
      <3>1. g[n] = r
        BY DEF n
      <3> QED BY <1>1, <1>2, <2>1, <3>1
    <2>2. CASE i # n
      <3>1. i \in 1..(n - 1) /\ i \in 1..n /\ i + 1 \in 1..n
        BY <1>1, <2>2
      <3> QED BY <1>1, <1>2, <1>3, <3>1
    <2> QED BY <2>1, <2>2
  <1>6. ASSUME NEW i \in 1..(n + 1)
        PROVE  g2[i].handed \in Seq(WsMessage) /\ IsPrefix(g2[i].handed, said')
    <2>1. CASE i = n + 1
      BY <1>2, <2>1
    <2>2. CASE i # n + 1
      <3>1. i \in 1..n
        BY <1>1, <2>2
      <3> QED BY <1>2, <1>3, <3>1
    <2> QED BY <2>1, <2>2
  <1>7. g2[Len(channel') + 1] = r2
    BY <1>1, <1>2
  <1>8. Reading(g2)'
    <2>1. \A i \in 1..Len(channel') :
            channel'[i][1] = g2[i].pc /\ g2[i + 1] = AfterPart(g2[i], channel'[i])
      BY <1>1, <1>5
    <2>2. \A i \in 1..Len(channel') + 1 :
            g2[i].handed \in Seq(WsMessage) /\ IsPrefix(g2[i].handed, said')
      BY <1>1, <1>6
    <2> QED BY <1>4, <1>7, <2>1, <2>2 DEF Reading
  <1> QED BY <1>8

(* The first part is read.                                                  *)
LEMMA ReadingShrinks ==
  ASSUME WsType, NEW g, Reading(g), channel # <<>>, channel' = Tail(channel),
         Seen' = AfterPart(Seen, Head(channel)), UNCHANGED sender
  PROVE  /\ \E g2 : Reading(g2)'
         /\ handed' \in Seq(WsMessage) /\ IsPrefix(handed', said')
  <1> DEFINE n == Len(channel)
  <1>0. PICK g2 : g2 = [i \in 1..n |-> g[i + 1]]
    OBVIOUS
  <1>1. /\ n \in Nat /\ n >= 1 /\ Len(channel') = n - 1
        /\ \A i \in 1..(n - 1) : channel'[i] = channel[i + 1]
        /\ Head(channel) = channel[1]
    BY HeadTailProperties DEF WsType
  <1>2. \A i \in 1..n : g2[i] = g[i + 1]
    BY <1>0, <1>1
  <1>3. /\ g[1] = Seen
        /\ \A i \in 1..n : channel[i][1] = g[i].pc /\ g[i + 1] = AfterPart(g[i], channel[i])
        /\ \A i \in 1..(n + 1) : g[i].handed \in Seq(WsMessage) /\ IsPrefix(g[i].handed, said)
        /\ CaughtUp(g[n + 1])
    BY DEF Reading
  <1> HIDE DEF n
  <1>4. g2[1] = Seen'
    BY <1>1, <1>2, <1>3
  <1>5. ASSUME NEW i \in 1..(n - 1)
        PROVE  channel'[i][1] = g2[i].pc /\ g2[i + 1] = AfterPart(g2[i], channel'[i])
    <2>1. i \in 1..n /\ i + 1 \in 1..n
      BY <1>1
    <2> QED BY <1>1, <1>2, <1>3, <2>1
  <1>6. said' = said
    BY DEF sender
  <1>7. ASSUME NEW i \in 1..n
        PROVE  g2[i].handed \in Seq(WsMessage) /\ IsPrefix(g2[i].handed, said')
    <2>1. i + 1 \in 1..(n + 1)
      BY <1>1
    <2> QED BY <1>2, <1>3, <1>6, <2>1
  <1>8. ASSUME NEW r, r = g2[Len(channel') + 1] PROVE CaughtUp(r)'
    <2>1. r = g[n + 1]
      BY <1>1, <1>2, <1>8
    <2>2. CaughtUp(r)
      BY <1>3, <2>1
    <2>3. UNCHANGED <<sopen, said, writing, saying>>
      BY DEF sender
    <2> QED BY <2>2, <2>3, StillCaughtUp
  <1>9. Seen'.handed = handed'
    BY DEF Seen
  <1>10. handed' \in Seq(WsMessage) /\ IsPrefix(handed', said')
    BY <1>1, <1>4, <1>7, <1>9
  <1>11. Reading(g2)'
    <2>1. \A i \in 1..Len(channel') :
            channel'[i][1] = g2[i].pc /\ g2[i + 1] = AfterPart(g2[i], channel'[i])
      BY <1>1, <1>5
    <2>2. \A i \in 1..Len(channel') + 1 :
            g2[i].handed \in Seq(WsMessage) /\ IsPrefix(g2[i].handed, said')
      BY <1>1, <1>7
    <2> QED BY <1>4, <1>8, <2>1, <2>2 DEF Reading
  <1> QED BY <1>10, <1>11

(* Nothing moves on the way.                                                *)
LEMMA ReadingStays ==
  ASSUME NEW g, Reading(g), channel' = channel, said' = said, Seen' = Seen,
         NEW r, r = g[Len(channel) + 1], CaughtUp(r)'
  PROVE  Reading(g)'
  BY DEF Reading

-----------------------------------------------------------------------------
(* The steps of the sender.                                                 *)

LEMMA BytesJoin == \A a, b \in WsData : a \o b \in WsData
  BY ConcatProperties DEF WsData

LEMMA NothingBefore == \A a \in WsData : <<>> \o a = a
  BY ConcatEmptySeq DEF WsData

(* A new frame continues what was heard, or begins a message.               *)
LEMMA SendMessageInv ==
  ASSUME WsInv, NEW client \in BOOLEAN, NEW n \in 0..3, NEW fin \in BOOLEAN,
         WSSendMessage(client, n, fin)
  PROVE  WsInv'
  <1>1. PICK load \in WsData : load = [k \in 1..n |-> [name |-> <<frames, k>>, x |-> {}]]
    <2>1. \A k \in 1..n : [name |-> <<frames, k>>, x |-> {}] \in WsByte
      BY DEF WsInv, WsType, WsByte
    <2>2. n \in Nat /\ [k \in 1..n |-> [name |-> <<frames, k>>, x |-> {}]] \in [1..n -> WsByte]
      BY <2>1
    <2>3. [k \in 1..n |-> [name |-> <<frames, k>>, x |-> {}]] \in WsData
      <3>1. [k \in 1..n |-> [name |-> <<frames, k>>, x |-> {}]] \in Seq(WsByte)
        BY <2>1, <2>2
      <3> QED BY <3>1 DEF WsData
    <2> QED BY <2>3
  <1>2. PICK op \in {CONTINUE, TEXT_FRAME} : op = IF saying.fin THEN TEXT_FRAME ELSE CONTINUE
    OBVIOUS
  <1>3. PICK all \in WsData : all = IF saying.fin THEN load ELSE saying.data \o load
    <2>1. saying.data \in WsData
      BY DEF WsInv, WsType
    <2> QED BY <2>1, BytesJoin
  <1>4. /\ sopen /\ writing = <<>> /\ frames' = frames + 1
        /\ writing' = FrameOf(client, fin, op, load, frames)
        /\ saying' = [opcode |-> TEXT_FRAME, fin |-> fin, data |-> all]
        /\ channel' = channel /\ said' = said /\ mixed' = mixed /\ sopen' = sopen
        /\ ropen' = ropen /\ wpc' = wpc /\ head' = head /\ want' = want
        /\ heard' = heard /\ handed' = handed
    BY <1>1, <1>2, <1>3 DEF WSSendMessage, receiver
  <1>5. PICK mask \in Nat : mask = frames
    BY DEF WsInv, WsType
  <1>6. /\ writing' = << <<"head", HeadOf(client, fin, op, load)>> >>
                        \o FromLength(client, load, mask)
        /\ writing' \in Seq(WsPart) /\ writing' # <<>>
    <2>1. /\ <<"head", HeadOf(client, fin, op, load)>> \in WsPart
          /\ writing' = << <<"head", HeadOf(client, fin, op, load)>> >>
                          \o FromLength(client, load, mask)
      BY <1>4, <1>5, FrameParts
    <2>2. FromLength(client, load, mask) \in Seq(WsPart)
      BY <1>5, FromParts
    <2> QED BY <2>1, <2>2, FirstPart
  <1>7. WsType'
    <2>1. saying' \in [opcode : Nat, data : WsData, fin : BOOLEAN]
      BY <1>4 DEF TEXT_FRAME
    <2>2. saying'.opcode = TEXT_FRAME
      BY <1>4
    <2> QED BY <1>4, <1>5, <1>6, <2>1, <2>2 DEF WsInv, WsType
  <1>8. ASSUME NEW r, CaughtUp(r) PROVE CaughtUp(r)'
    <2>1. r.handed = said /\ r.pc = "head"
      BY <1>4, <1>8 DEF CaughtUp, BetweenFrames
    <2>2. r.heard = IF saying.fin THEN NoMessage
                    ELSE [opcode |-> saying.opcode, data |-> saying.data]
      BY <1>4, <1>8 DEF CaughtUp, BetweenFrames
    <2>3. /\ r.heard = NoMessage \/ (r.heard \in WsMessage /\ r.heard.opcode = TEXT_FRAME)
          /\ saying'.data = r.heard.data \o load
          /\ op = IF r.heard.opcode = CONTINUE THEN TEXT_FRAME ELSE CONTINUE
      <3>1. CASE saying.fin
        <4>1. r.heard = NoMessage /\ op = TEXT_FRAME /\ all = load
          BY <1>2, <1>3, <2>2, <3>1
        <4>2. r.heard.data \o load = load
          BY <4>1, NothingBefore DEF NoMessage
        <4>3. saying'.data = r.heard.data \o load
          BY <1>4, <4>1, <4>2
        <4>4. r.heard.opcode = CONTINUE
          BY <4>1 DEF NoMessage
        <4> QED BY <4>1, <4>3, <4>4
      <3>2. CASE ~saying.fin
        <4>1. /\ r.heard = [opcode |-> TEXT_FRAME, data |-> saying.data]
              /\ op = CONTINUE /\ all = saying.data \o load /\ saying.data \in WsData
          BY <1>2, <1>3, <2>2, <3>2 DEF WsInv, WsType
        <4> QED BY <1>4, <4>1 DEF WsMessage, TEXT_FRAME, CONTINUE
      <3> QED BY <3>1, <3>2
    <2>4. InFrame(r, client, load, mask)'
      <3>1. saying'.fin = fin
        BY <1>4
      <3>2. writing' = << <<"head", HeadOf(client, saying'.fin,
                                          IF r.heard.opcode = CONTINUE THEN TEXT_FRAME ELSE CONTINUE,
                                          load)>> >> \o FromLength(client, load, mask)
        BY <1>6, <2>3, <3>1
      <3> QED BY <2>1, <3>2 DEF InFrame
    <2>5. saying'.opcode = TEXT_FRAME
      BY <1>4
    <2> QED BY <1>4, <1>5, <1>6, <2>1, <2>3, <2>4, <2>5 DEF CaughtUp
  <1>9. Seen' = Seen
    BY <1>4 DEF Seen
  <1>10. ASSUME NEW g, Reading(g) PROVE Reading(g)'
    <2>1. PICK r : r = g[Len(channel) + 1]
      OBVIOUS
    <2>2. CaughtUp(r)'
      BY <1>8, <1>10, <2>1 DEF Reading
    <2> QED BY <1>4, <1>9, <1>10, <2>1, <2>2, ReadingStays
  <1> QED BY <1>4, <1>7, <1>10 DEF WsInv

(* A part is written to the channel, or the stream is closed.               *)
LEMMA WritePartInv ==
  ASSUME WsInv, WritePart
  PROVE  WsInv'
  <1>1. /\ sopen /\ writing # <<>> /\ frames' = frames /\ saying' = saying /\ mixed' = mixed
        /\ ropen' = ropen /\ wpc' = wpc /\ head' = head /\ want' = want
        /\ heard' = heard /\ handed' = handed
    BY DEF WritePart, receiver
  <1>2. WsType
    BY DEF WsInv
  <1>3. Seen' = Seen
    BY <1>1 DEF Seen
  <1>4. CASE ~sopen'
    <2>1. writing' = <<>> /\ channel' = channel /\ said' = said
      BY <1>1, <1>4 DEF WritePart
    <2>2. WsType'
      BY <1>1, <1>2, <1>4, <2>1 DEF WsType
    <2>3. \A r : CaughtUp(r)'
      BY <1>4 DEF CaughtUp
    <2>4. ASSUME NEW g, Reading(g) PROVE Reading(g)'
      BY <1>3, <2>1, <2>3, <2>4, ReadingStays
    <2> QED BY <1>1, <2>1, <2>2, <2>4 DEF WsInv
  <1>5. CASE sopen'
    <2>1. /\ channel' = Append(channel, Head(writing)) /\ writing' = Tail(writing)
          /\ said' = IF Len(writing) = 1 /\ saying.fin
                     THEN Append(said, [opcode |-> saying.opcode, data |-> saying.data]) ELSE said
      BY <1>5 DEF WritePart
    <2>2. /\ Head(writing) \in WsPart /\ writing' \in Seq(WsPart)
      BY <1>1, <1>2, <2>1, HeadTailProperties DEF WsType
    <2>3. channel' \in Seq(WsPart)
      BY <1>2, <2>1, <2>2, AppendProperties DEF WsType
    <2>4. /\ said' \in Seq(WsMessage)
          /\ \A s \in Seq(WsMessage) : IsPrefix(s, said) => IsPrefix(s, said')
      <3>1. [opcode |-> saying.opcode, data |-> saying.data] \in WsMessage
        BY <1>2 DEF WsType, WsMessage
      <3>2. said \in Seq(WsMessage)
        BY <1>2 DEF WsType
      <3> QED BY <2>1, <3>1, <3>2, PrefixGrows
    <2>5. WsType'
      BY <1>1, <1>2, <1>5, <2>2, <2>3, <2>4 DEF WsType
    <2>6. ASSUME NEW g, Reading(g) PROVE \E g2 : Reading(g2)'
      <3>1. PICK r : r = g[Len(channel) + 1]
        OBVIOUS
      <3>2. CaughtUp(r)
        BY <2>6, <3>1 DEF Reading
      <3>3. r.handed = said
        BY <1>1, <3>2 DEF CaughtUp
      <3>4. PICK r2 : r2 = AfterPart(r, Head(writing))
        OBVIOUS
      <3>5. PICK p \in WsPart : p = Head(writing)
        BY <2>2
      <3>6. /\ p[1] = r.pc /\ IsPrefix(said, said')
            /\ r2.handed = said' /\ CaughtUp(r2)'
        BY <1>2, <1>5, <3>2, <3>3, <3>4, <3>5, PartIsRead
      <3>7. IsPrefix(r2.handed, said')
        BY <2>4, <3>6 DEF IsPrefix
      <3>8. r2 = AfterPart(r, p) /\ channel' = Append(channel, p) /\ r2.handed \in Seq(WsMessage)
        BY <2>1, <2>4, <3>4, <3>5, <3>6
      <3> QED BY <1>2, <1>3, <2>4, <2>6, <3>1, <3>6, <3>7, <3>8, ReadingGrows
    <2>7. handed \in Seq(WsMessage) /\ IsPrefix(handed, said) => IsPrefix(handed', said')
      BY <1>1, <2>4
    <2> QED BY <1>1, <2>5, <2>6, <2>7 DEF WsInv
  <1> QED BY <1>4, <1>5

(* The stream is closed when a write fails.                                 *)
LEMMA WriteFailsInv ==
  ASSUME WsInv, WriteFails
  PROVE  WsInv'
  <1>1. /\ sopen' = FALSE /\ writing' = <<>>
        /\ channel' = channel /\ frames' = frames /\ saying' = saying /\ said' = said
        /\ mixed' = mixed /\ ropen' = ropen /\ wpc' = wpc /\ head' = head /\ want' = want
        /\ heard' = heard /\ handed' = handed
    BY DEF WriteFails, receiver
  <1>2. WsType'
    BY <1>1 DEF WsInv, WsType
  <1>3. Seen' = Seen
    BY <1>1 DEF Seen
  <1>4. \A r : CaughtUp(r)'
    BY <1>1 DEF CaughtUp
  <1>5. ASSUME NEW g, Reading(g) PROVE Reading(g)'
    BY <1>1, <1>3, <1>4, <1>5, ReadingStays
  <1> QED BY <1>1, <1>2, <1>5 DEF WsInv

(* A ping or a pong between two frames is read where a head is expected.    *)
LEMMA ControlInv ==
  ASSUME WsInv, NEW op \in {PING, PONG}, WSControl(op)
  PROVE  WsInv'
  <1>1. PICK p : p = <<"head", [NoHead EXCEPT !.fin = TRUE, !.opcode = op]>>
    OBVIOUS
  <1>2. /\ p \in WsPart /\ p[1] = "head" /\ p[2].opcode = op
    <2>1. PICK none \in WsHead : none = NoHead
      BY DEF NoHead, WsHead, CONTINUE
    <2>2. op \in Nat
      BY DEF PING, PONG
    <2>3. p = <<"head", [none EXCEPT !.fin = TRUE, !.opcode = op]>>
      BY <1>1, <2>1
    <2>4. /\ [none EXCEPT !.fin = TRUE, !.opcode = op] \in WsHead
          /\ [none EXCEPT !.fin = TRUE, !.opcode = op].opcode = op
      BY <2>2 DEF WsHead
    <2> QED BY <2>3, <2>4 DEF WsPart
  <1>3. /\ sopen /\ sopen' = sopen /\ writing' = writing /\ frames' = frames /\ saying' = saying
        /\ said' = said /\ channel' = Append(channel, p)
        /\ ropen' = ropen /\ wpc' = wpc /\ head' = head /\ want' = want
        /\ heard' = heard /\ handed' = handed
    BY <1>1 DEF WSControl, receiver
  <1>4. mixed' \in BOOLEAN
    BY DEF WSControl
  <1>5. ~mixed' => ~mixed /\ (writing = <<>> \/ Head(writing)[1] = "head")
    BY DEF WSControl
  <1>6. WsType
    BY DEF WsInv
  <1>7. WsType'
    <2>1. channel' \in Seq(WsPart)
      BY <1>2, <1>3, <1>6, AppendProperties DEF WsType
    <2> QED BY <1>3, <1>4, <1>6, <2>1 DEF WsType
  <1>8. Seen' = Seen
    BY <1>3 DEF Seen
  <1>9. ASSUME ~mixed', NEW g, Reading(g) PROVE \E g2 : Reading(g2)'
    <2>1. PICK r : r = g[Len(channel) + 1]
      OBVIOUS
    <2>2. CaughtUp(r)
      BY <1>9, <2>1 DEF Reading
    <2>3. CaughtUp(r)'
      BY <1>3, <2>2, StillCaughtUp
    <2>4. r.pc = "head"
      <3>1. CASE writing = <<>>
        BY <1>3, <2>2, <3>1 DEF CaughtUp, BetweenFrames
      <3>2. CASE writing # <<>>
        <4>1. PICK client \in BOOLEAN, load \in WsData, mask \in Nat :
                InFrame(r, client, load, mask)
          BY <1>3, <2>2, <3>2 DEF CaughtUp
        <4>2. Head(writing)[1] = r.pc
          BY <1>6, <4>1, PartInFrame
        <4> QED BY <1>5, <1>9, <3>2, <4>2
      <3> QED BY <3>1, <3>2
    <2>5. r = AfterPart(r, p)
      BY <1>2 DEF AfterPart, AfterHead
    <2>6. r.handed \in Seq(WsMessage) /\ IsPrefix(r.handed, said')
      <3>1. Len(channel) + 1 \in 1..Len(channel) + 1
        BY <1>6 DEF WsType
      <3> QED BY <1>3, <1>9, <2>1, <3>1 DEF Reading
    <2> QED BY <1>2, <1>3, <1>6, <1>8, <1>9, <2>1, <2>3, <2>4, <2>5, <2>6, ReadingGrows
  <1> QED BY <1>3, <1>5, <1>7, <1>9 DEF WsInv

-----------------------------------------------------------------------------
(* The steps of the receiver.                                               *)

(* The stream is closed: nothing more is handed on.                         *)
LEMMA CloseStreamInv ==
  ASSUME WsInv, CloseStream, channel' = channel \/ (channel # <<>> /\ channel' = Tail(channel))
  PROVE  WsInv'
  <1>1. /\ ropen' = FALSE /\ wpc' = "closed" /\ sopen' = sopen /\ writing' = writing
        /\ frames' = frames /\ saying' = saying /\ said' = said /\ mixed' = mixed
        /\ want' = want /\ handed' = handed
    BY DEF CloseStream, sender
  <1>2. channel' \in Seq(WsPart)
    <2>1. channel \in Seq(WsPart)
      BY DEF WsInv, WsType
    <2> QED BY <2>1, HeadTailProperties
  <1> QED BY <1>1, <1>2 DEF WsInv, WsType

(* A receiver that reads what it expects goes on to the next state.         *)
LEMMA ReadsOn ==
  ASSUME WsInv, channel # <<>>, channel' = Tail(channel), wpc # "closed",
         Seen' = AfterPart(Seen, Head(channel)),
         UNCHANGED sender, ropen' = ropen, wpc' # "closed" => ropen,
         want' \in [length : Nat, mask : Nat]
  PROVE  WsInv'
  <1>1. /\ sopen' = sopen /\ writing' = writing
        /\ frames' = frames /\ saying' = saying /\ said' = said /\ mixed' = mixed
    BY DEF sender
  <1>2. WsType /\ ropen /\ channel' \in Seq(WsPart)
    <2>1. WsType /\ ropen
      BY DEF WsInv, WsType
    <2> QED BY <2>1, HeadTailProperties DEF WsType
  <1>3. CASE mixed
    BY <1>1, <1>2, <1>3 DEF WsInv, WsType
  <1>4. CASE ~mixed
    <2>1. PICK g : Reading(g)
      BY <1>2, <1>4 DEF WsInv
    <2>2. (\E g2 : Reading(g2)') /\ handed' \in Seq(WsMessage) /\ IsPrefix(handed', said')
      BY <1>2, <2>1, ReadingShrinks
    <2> QED BY <1>1, <1>2, <2>2 DEF WsInv, WsType
  <1> QED BY <1>2, <1>3, <1>4 DEF WsType

(* A head is read; pings and pongs leave the receiver as it is.             *)
LEMMA RecvHeadInv ==
  ASSUME WsInv, WSRecvHead
  PROVE  WsInv'
  <1>1. /\ channel # <<>> /\ channel' = Tail(channel) /\ wpc = "head"
        /\ Head(channel)[1] = "head"
    BY DEF WSRecvHead, Reads
  <1>2. PICK h : h = Head(channel)[2]
    OBVIOUS
  <1>3. h \in WsHead
    <2>1. Head(channel) \in WsPart
      BY <1>1, HeadTailProperties DEF WsInv, WsType
    <2> QED BY <1>1, <1>2, <2>1 DEF WsPart
  <1>4. \/ CloseStream
        \/ h.opcode \in {PING, PONG} /\ UNCHANGED <<sender, receiver>>
        \/ /\ h.opcode \notin {PING, PONG}
           /\ head' = h /\ want' = [length |-> h.payload, mask |-> 0]
           /\ wpc' = IF h.payload >= 126 THEN "length" ELSE "size"
           /\ UNCHANGED <<sender, ropen, heard, handed>>
    BY <1>2 DEF WSRecvHead
  <1>5. AfterPart(Seen, Head(channel)) = AfterHead(Seen, h)
    BY <1>1, <1>2 DEF AfterPart
  <1>6. ropen
    BY <1>1 DEF WsInv, WsType
  <1>7. CASE CloseStream
    BY <1>1, <1>7, CloseStreamInv
  <1>8. CASE h.opcode \in {PING, PONG} /\ UNCHANGED <<sender, receiver>>
    <2>1. /\ UNCHANGED sender /\ ropen' = ropen /\ wpc' = wpc /\ head' = head /\ want' = want
          /\ heard' = heard /\ handed' = handed
      BY <1>8 DEF receiver
    <2>2. Seen' = Seen
      BY <2>1 DEF Seen
    <2>3. Seen' = AfterPart(Seen, Head(channel))
      BY <1>5, <1>8, <2>2 DEF AfterHead
    <2>4. want' \in [length : Nat, mask : Nat]
      BY <2>1 DEF WsInv, WsType
    <2> QED BY <1>1, <1>6, <2>1, <2>3, <2>4, ReadsOn
  <1>9. CASE /\ h.opcode \notin {PING, PONG}
             /\ head' = h /\ want' = [length |-> h.payload, mask |-> 0]
             /\ wpc' = IF h.payload >= 126 THEN "length" ELSE "size"
             /\ UNCHANGED <<sender, ropen, heard, handed>>
    <2>1. UNCHANGED sender /\ ropen' = ropen /\ heard' = heard /\ handed' = handed
      BY <1>9
    <2>2. want' \in [length : Nat, mask : Nat]
      BY <1>3, <1>9 DEF WsHead
    <2>3. want'.mask = 0
      BY <1>9
    <2>4. (IF wpc' = "size" THEN IF h.mask THEN "mask" ELSE "payload" ELSE wpc')
            = IF h.payload >= 126 THEN "length" ELSE IF h.mask THEN "mask" ELSE "payload"
      BY <1>9
    <2>5. Seen' = AfterHead(Seen, h)
      BY <1>9, <2>1, <2>3, <2>4 DEF Seen, AfterHead
    <2> QED BY <1>1, <1>5, <1>6, <2>1, <2>2, <2>5, ReadsOn
  <1> QED BY <1>4, <1>7, <1>8, <1>9

LEMMA RecvLengthInv ==
  ASSUME WsInv, WSRecvLength
  PROVE  WsInv'
  <1>1. /\ channel # <<>> /\ channel' = Tail(channel) /\ wpc = "length"
        /\ Head(channel)[1] = "length"
        /\ want' = [want EXCEPT !.length = Head(channel)[2]] /\ wpc' = "size"
        /\ UNCHANGED sender /\ ropen' = ropen /\ head' = head /\ heard' = heard /\ handed' = handed
    BY DEF WSRecvLength, Reads
  <1>2. Head(channel)[2] \in Nat
    <2>1. Head(channel) \in WsPart
      BY <1>1, HeadTailProperties DEF WsInv, WsType
    <2> QED BY <1>1, <2>1 DEF WsPart
  <1>3. want' \in [length : Nat, mask : Nat] /\ want'.mask = want.mask
    BY <1>1, <1>2 DEF WsInv, WsType
  <1>4. Seen' = AfterPart(Seen, Head(channel))
    BY <1>1, <1>3 DEF Seen, AfterPart
  <1>5. ropen
    BY <1>1 DEF WsInv, WsType
  <1> QED BY <1>1, <1>3, <1>4, <1>5, ReadsOn

LEMMA RecvMaskInv ==
  ASSUME WsInv, WSRecvMask
  PROVE  WsInv'
  <1>1. /\ channel # <<>> /\ channel' = Tail(channel) /\ wpc = "mask"
        /\ Head(channel)[1] = "mask"
        /\ want' = [want EXCEPT !.mask = Head(channel)[2]] /\ wpc' = "payload"
        /\ UNCHANGED sender /\ ropen' = ropen /\ head' = head /\ heard' = heard /\ handed' = handed
    BY DEF WSRecvMask, Reads
  <1>2. Head(channel)[2] \in Nat
    <2>1. Head(channel) \in WsPart
      BY <1>1, HeadTailProperties DEF WsInv, WsType
    <2> QED BY <1>1, <2>1 DEF WsPart
  <1>3. want' \in [length : Nat, mask : Nat] /\ want'.mask = Head(channel)[2]
    BY <1>1, <1>2 DEF WsInv, WsType
  <1>4. Seen' = AfterPart(Seen, Head(channel))
    BY <1>1, <1>3 DEF Seen, AfterPart
  <1>5. ropen
    BY <1>1 DEF WsInv, WsType
  <1> QED BY <1>1, <1>3, <1>4, <1>5, ReadsOn

(* The payload is read: a last frame hands on what was collected.           *)
LEMMA RecvPayloadInv ==
  ASSUME WsInv, WSRecvPayload
  PROVE  WsInv'
  <1>1. /\ channel # <<>> /\ channel' = Tail(channel) /\ wpc = "payload"
        /\ Head(channel)[1] = "payload" /\ wpc' = "head"
        /\ UNCHANGED sender /\ ropen' = ropen /\ head' = head /\ want' = want
    BY DEF WSRecvPayload, Reads
  <1>2. PICK m : m = Collected(Seen, Head(channel)[2])
    OBVIOUS
  <1>3. m = [opcode |-> IF heard.opcode = CONTINUE THEN head.opcode ELSE heard.opcode,
             data |-> heard.data \o (IF head.mask THEN XorAll(Head(channel)[2], want.mask)
                                     ELSE Head(channel)[2])]
    BY <1>2 DEF Collected, Seen
  <1>4. IF head.fin THEN handed' = Append(handed, m) /\ heard' = NoMessage
        ELSE heard' = m /\ handed' = handed
    BY <1>3 DEF WSRecvPayload
  <1>5. AfterPart(Seen, Head(channel)) = AfterPayload(Seen, Head(channel)[2])
    BY <1>1 DEF AfterPart
  <1>6. Seen' = [pc |-> "head", head |-> head, mask |-> want.mask,
                 heard |-> heard', handed |-> handed']
    BY <1>1 DEF Seen
  <1>7. AfterPayload(Seen, Head(channel)[2])
          = [pc |-> "head", head |-> head, mask |-> want.mask,
             heard |-> IF head.fin THEN NoMessage ELSE m,
             handed |-> IF head.fin THEN Append(handed, m) ELSE handed]
    BY <1>2 DEF AfterPayload, Seen
  <1>8. Seen' = AfterPart(Seen, Head(channel))
    BY <1>4, <1>5, <1>6, <1>7
  <1>9. ropen /\ want' \in [length : Nat, mask : Nat]
    BY <1>1 DEF WsInv, WsType
  <1> QED BY <1>1, <1>8, <1>9, ReadsOn

(* The silent step of the receiver.                                         *)
LEMMA CheckSizeInv ==
  ASSUME WsInv, WSCheckSize
  PROVE  WsInv'
  <1>1. wpc = "size" /\ channel' = channel
    BY DEF WSCheckSize
  <1>2. CASE CloseStream
    BY <1>1, <1>2, CloseStreamInv
  <1>3. CASE ~CloseStream
    <2>1. /\ wpc' = (IF head.mask THEN "mask" ELSE "payload")
          /\ sopen' = sopen /\ writing' = writing /\ frames' = frames /\ saying' = saying
          /\ said' = said /\ mixed' = mixed /\ ropen' = ropen
          /\ head' = head /\ want' = want /\ heard' = heard /\ handed' = handed
      BY <1>3 DEF WSCheckSize, sender
    <2>2. ropen
      BY <1>1 DEF WsInv, WsType
    <2>3. WsType'
      BY <1>1, <2>1, <2>2 DEF WsInv, WsType
    <2>4. Seen' = Seen
      BY <1>1, <2>1 DEF Seen
    <2>5. ASSUME NEW g, Reading(g) PROVE Reading(g)'
      <3>1. PICK r : r = g[Len(channel) + 1]
        OBVIOUS
      <3>2. CaughtUp(r)
        BY <2>5, <3>1 DEF Reading
      <3>3. CaughtUp(r)'
        BY <2>1, <3>2, StillCaughtUp
      <3> QED BY <1>1, <2>1, <2>4, <2>5, <3>1, <3>3, ReadingStays
    <2> QED BY <2>1, <2>3, <2>5 DEF WsInv
  <1> QED BY <1>2, <1>3

(* Without a ping or pong inside a frame nothing is misread.                *)
LEMMA MisreadsInv ==
  ASSUME WsInv, WSMisreads
  PROVE  WsInv'
  <1>1. /\ wpc \in {"head", "length", "mask", "payload"} /\ channel # <<>>
        /\ Head(channel)[1] # wpc /\ ropen
    BY DEF WSMisreads, WsInv, WsType
  <1>2. mixed
    <2>1. SUFFICES ASSUME ~mixed PROVE FALSE
      OBVIOUS
    <2>2. PICK g : Reading(g)
      BY <1>1, <2>1 DEF WsInv
    <2>3. Len(channel) \in Nat /\ 1 \in 1..Len(channel) /\ Head(channel) = channel[1]
      BY <1>1 DEF WsInv, WsType
    <2>4. Head(channel)[1] = Seen.pc
      BY <2>2, <2>3 DEF Reading
    <2>5. Seen.pc = wpc
      BY <1>1 DEF Seen
    <2> QED BY <1>1, <2>4, <2>5
  <1>3. CASE CloseStream /\ channel' = channel
    BY <1>3, CloseStreamInv
  <1>4. CASE ~(CloseStream /\ channel' = channel)
    <2>1. /\ channel' = Tail(channel) /\ wpc' = "head"
          /\ sopen' = sopen /\ writing' = writing /\ frames' = frames /\ saying' = saying
          /\ said' = said /\ mixed' = mixed /\ ropen' = ropen /\ want' = want
      BY <1>4 DEF WSMisreads, sender
    <2>2. channel' \in Seq(WsPart)
      <3>1. channel \in Seq(WsPart)
        BY DEF WsInv, WsType
      <3> QED BY <1>1, <2>1, <3>1, HeadTailProperties
    <2> QED BY <1>1, <1>2, <2>1, <2>2 DEF WsInv, WsType
  <1> QED BY <1>3, <1>4

-----------------------------------------------------------------------------
(* Every step keeps the invariant.                                          *)
LEMMA WsInitInv == WsInit => WsInv
  <1> SUFFICES ASSUME WsInit PROVE WsInv
    OBVIOUS
  <1>1. WsType
    <2>1. <<>> \in Seq(WsPart) /\ <<>> \in Seq(WsMessage) /\ <<>> \in WsData
      BY DEF WsData
    <2>2. [opcode |-> CONTINUE, data |-> <<>>, fin |-> TRUE]
            \in [opcode : Nat, data : WsData, fin : BOOLEAN]
      BY <2>1 DEF CONTINUE
    <2> QED BY <2>1, <2>2 DEF WsInit, WsType
  <1>2. IsPrefix(handed, said) /\ handed \in Seq(WsMessage)
    BY DEF WsInit, IsPrefix
  <1>3. PICK g : g = [i \in 1..1 |-> Seen]
    OBVIOUS
  <1>4. CaughtUp(Seen)
    BY DEF WsInit, CaughtUp, BetweenFrames, Seen
  <1>5. Len(channel) = 0 /\ g[1] = Seen /\ said = handed
    BY <1>3 DEF WsInit
  <1>6. Seen.handed = handed
    BY DEF Seen
  <1>7. Reading(g)
    BY <1>2, <1>4, <1>5, <1>6 DEF Reading
  <1> QED BY <1>1, <1>2, <1>7 DEF WsInv

LEMMA WsStepInv == WsInv /\ [WsNext]_wsvars => WsInv'
  <1> SUFFICES ASSUME WsInv, [WsNext]_wsvars PROVE WsInv'
    OBVIOUS
  <1>1. CASE WsNext
    <2>1. CASE \E client \in BOOLEAN, n \in 0..3, fin \in BOOLEAN : WSSendMessage(client, n, fin)
      BY <2>1, SendMessageInv
    <2>2. CASE WritePart
      BY <2>2, WritePartInv
    <2>3. CASE WriteFails
      BY <2>3, WriteFailsInv
    <2>4. CASE \E op \in {PING, PONG} : WSControl(op)
      BY <2>4, ControlInv
    <2>5. CASE WSRecvHead
      BY <2>5, RecvHeadInv
    <2>6. CASE WSRecvLength
      BY <2>6, RecvLengthInv
    <2>7. CASE WSCheckSize
      BY <2>7, CheckSizeInv
    <2>8. CASE WSRecvMask
      BY <2>8, RecvMaskInv
    <2>9. CASE WSRecvPayload
      BY <2>9, RecvPayloadInv
    <2>10. CASE WSRecvNothing \/ WSReadFails
      BY <2>10, CloseStreamInv DEF WSRecvNothing, WSReadFails
    <2>11. CASE WSMisreads
      BY <2>11, MisreadsInv
    <2> QED BY <1>1, <2>1, <2>2, <2>3, <2>4, <2>5, <2>6, <2>7, <2>8, <2>9, <2>10, <2>11 DEF WsNext
  <1>2. CASE UNCHANGED wsvars
    <2>1. UNCHANGED sender /\ UNCHANGED receiver /\ channel' = channel
      BY <1>2 DEF wsvars, sender, receiver
    <2>2. WsType'
      BY <2>1 DEF WsInv, WsType, sender, receiver
    <2>3. Seen' = Seen
      BY <2>1 DEF Seen, receiver
    <2>4. ASSUME NEW g, Reading(g) PROVE Reading(g)'
      <3>1. PICK r : r = g[Len(channel) + 1]
        OBVIOUS
      <3>2. CaughtUp(r)
        BY <2>4, <3>1 DEF Reading
      <3>3. CaughtUp(r)'
        BY <2>1, <3>2, StillCaughtUp DEF sender
      <3> QED BY <2>1, <2>3, <2>4, <3>1, <3>3, ReadingStays DEF sender
    <2> QED BY <2>1, <2>2, <2>4 DEF WsInv, sender, receiver
  <1> QED BY <1>1, <1>2

(* The messages that WSRecvMessage hands on are the messages that           *)
(* WSSendMessage was given, whole, unmasked and in order, however they are  *)
(* cut into frames and however far the receiver is behind, as long as no    *)
(* ping or pong is written inside a frame.                                  *)
THEOREM MessagesArriveWhole == WsSpec => []MessagesWhole
  <1>1. WsInv => MessagesWhole
    <2> SUFFICES ASSUME WsInv, ~mixed
                 PROVE  /\ IsPrefix(handed, said)
                        /\ sopen /\ ropen /\ writing = <<>> /\ channel = <<>> => handed = said
      BY DEF MessagesWhole
    <2>1. ASSUME sopen, ropen, writing = <<>>, channel = <<>> PROVE handed = said
      <3>1. PICK g : Reading(g)
        BY <2>1 DEF WsInv
      <3>2. Len(channel) = 0
        BY <2>1
      <3>3. CaughtUp(Seen)
        BY <3>1, <3>2 DEF Reading
      <3>4. Seen.handed = said
        BY <2>1, <3>3 DEF CaughtUp
      <3> QED BY <3>4 DEF Seen
    <2> QED BY <2>1 DEF WsInv
  <1> QED BY <1>1, WsInitInv, WsStepInv, PTL DEF WsSpec

-----------------------------------------------------------------------------
(* ByteArray.  A chain of blocks is a memory: byte a is in block            *)
(* a \div BaseSize + 1 at a % BaseSize.                                     *)

BaBlock == [0..(BaseSize - 1) -> Byte \cup {Junk}]
BaChain == [nodes : Seq(BaBlock), cur : Nat, pos : Nat, size : Nat]

Mem(n, a) == n[(a \div BaseSize) + 1][a % BaseSize]

(* Between calls the position and m_cur agree and the size fits.            *)
ChainOK(b) ==
  /\ b \in BaChain
  /\ b.nodes # <<>>
  /\ b.pos <= b.size /\ b.size <= Len(b.nodes) * BaseSize
  /\ b.cur = BlockOrNull(b.nodes, (b.pos \div BaseSize) + 1)

(* Nothing is different but between from and to.                            *)
KeepsRest(n, n2, from, to) ==
  \A a \in Nat : a < Len(n) * BaseSize /\ ~(from <= a /\ a < to) => Mem(n2, a) = Mem(n, a)

(* The bytes s are what is at a, and whatever there where nothing was written. *)
ReadsAs(n, a, s) ==
  \A k \in 1..Len(s) : Mem(n, a + k - 1) # Junk => s[k] = Mem(n, a + k - 1)

AtCapacity(b) == b.pos = Len(b.nodes) * BaseSize

(* The bytes s are at a.                                                    *)
Written(n, a, s) == \A k \in 1..Len(s) : Mem(n, a + k - 1) = s[k]

-----------------------------------------------------------------------------
(* Blocks and offsets.                                                      *)

LEMMA BaseSizeIsNat == BaseSize \in Nat /\ BaseSize >= 1
  BY BaAssumption

LEMMA CapacityIsNat == \A k \in Nat : k * BaseSize \in Nat
  BY BaseSizeIsNat

LEMMA CapacityAdds ==
  \A k, l \in Nat : (k + l) * BaseSize = (k * BaseSize) + (l * BaseSize)
  BY BaseSizeIsNat

LEMMA CapacityGrows ==
  ASSUME NEW k \in Nat, NEW l \in Nat, k <= l, NEW a \in Nat, a < k * BaseSize
  PROVE  a < l * BaseSize
  BY BaseSizeIsNat

(* Enough blocks for d bytes.                                               *)
LEMMA BlocksFor ==
  ASSUME NEW d \in Nat, d > 0
  PROVE  LET count == (d + BaseSize - 1) \div BaseSize
         IN count \in Nat /\ count >= 1 /\ count * BaseSize >= d
  BY BaseSizeIsNat

LEMMA BlockAndOffset ==
  ASSUME NEW a \in Nat
  PROVE  a = BaseSize * (a \div BaseSize) + (a % BaseSize)
         /\ a \div BaseSize \in Nat /\ a % BaseSize \in 0..(BaseSize - 1)
  BY BaseSizeIsNat

LEMMA BlockOf ==
  ASSUME NEW q \in Nat, NEW r \in 0..(BaseSize - 1)
  PROVE  ((q * BaseSize) + r) \div BaseSize = q /\ ((q * BaseSize) + r) % BaseSize = r
  BY BaseSizeIsNat

(* Going on from a position inside a block.                                 *)
LEMMA BlockFurther ==
  ASSUME NEW p \in Nat, NEW k \in Nat
  PROVE  BlockAt((p \div BaseSize) + 1, p, k) = ((p + k) \div BaseSize) + 1
  BY BaseSizeIsNat DEF BlockAt

LEMMA BlockInChain ==
  ASSUME NEW a \in Nat, NEW n \in Nat
  PROVE  a < n * BaseSize <=> (a \div BaseSize) + 1 <= n
  BY BaseSizeIsNat, BlockAndOffset

LEMMA MemType ==
  ASSUME NEW n \in Seq(BaBlock), NEW a \in Nat, a < Len(n) * BaseSize
  PROVE  Mem(n, a) \in Byte \cup {Junk}
  <1>1. (a \div BaseSize) + 1 \in 1..Len(n) /\ a % BaseSize \in 0..(BaseSize - 1)
    <2>1. (a \div BaseSize) + 1 <= Len(n)
      BY BlockInChain
    <2>2. a \div BaseSize \in Nat /\ a % BaseSize \in 0..(BaseSize - 1) /\ Len(n) \in Nat
      BY BlockAndOffset
    <2> QED BY <2>1, <2>2
  <1>2. n[(a \div BaseSize) + 1] \in BaBlock
    BY <1>1
  <1> QED BY <1>1, <1>2 DEF Mem, BaBlock

(* m_cur is the block of the position, or null at the end of the chain.     *)
LEMMA CurOf ==
  ASSUME NEW b, ChainOK(b)
  PROVE  /\ b.pos < Len(b.nodes) * BaseSize => b.cur = (b.pos \div BaseSize) + 1 /\ b.cur # NULL
         /\ ~(b.pos < Len(b.nodes) * BaseSize) => b.cur = NULL /\ b.pos = Len(b.nodes) * BaseSize
  <1>1. /\ b.pos \in Nat /\ b.size \in Nat /\ Len(b.nodes) \in Nat
        /\ b.pos <= b.size /\ b.size <= Len(b.nodes) * BaseSize
        /\ b.cur = BlockOrNull(b.nodes, (b.pos \div BaseSize) + 1)
    BY DEF ChainOK, BaChain
  <1>2. b.pos < Len(b.nodes) * BaseSize <=> (b.pos \div BaseSize) + 1 <= Len(b.nodes)
    BY <1>1, BlockInChain
  <1>3. b.pos \div BaseSize \in Nat /\ Len(b.nodes) * BaseSize \in Nat
    BY <1>1, BlockAndOffset, CapacityIsNat
  <1>4. CASE b.pos < Len(b.nodes) * BaseSize
    BY <1>1, <1>2, <1>3, <1>4 DEF BlockOrNull, NULL
  <1>5. CASE ~(b.pos < Len(b.nodes) * BaseSize)
    BY <1>1, <1>2, <1>3, <1>5 DEF BlockOrNull, NULL
  <1> QED BY <1>4, <1>5

-----------------------------------------------------------------------------
(* addCapacity: blocks are added at the end, enough for n more bytes.       *)
LEMMA CapacityAdded ==
  ASSUME NEW b, ChainOK(b), NEW n \in Nat, NEW c, c = addCapacity(b, n)
  PROVE  /\ ChainOK(c)
         /\ c.pos = b.pos /\ c.size = b.size /\ Len(b.nodes) <= Len(c.nodes)
         /\ b.pos + n <= Len(c.nodes) * BaseSize
         /\ n > 0 => c.cur = (b.pos \div BaseSize) + 1
         /\ \A i \in 1..Len(b.nodes) : c.nodes[i] = b.nodes[i]
  <1>1. /\ b \in BaChain /\ b.nodes \in Seq(BaBlock) /\ b.pos \in Nat /\ b.size \in Nat
        /\ Len(b.nodes) \in Nat /\ b.nodes # <<>> /\ b.cur \in Nat
        /\ b.pos <= b.size /\ b.size <= Len(b.nodes) * BaseSize
    BY DEF ChainOK, BaChain
  <1>2. PICK cap \in Nat : cap = Len(b.nodes) * BaseSize
    BY <1>1, CapacityIsNat
  <1>3. PICK old_cap \in Nat : old_cap = cap - b.pos
    BY <1>1, <1>2
  <1>4. PICK count : count = (n - old_cap + BaseSize - 1) \div BaseSize
    OBVIOUS
  <1>5. CASE n = 0 \/ old_cap >= n
    <2>1. c = b
      BY <1>2, <1>3, <1>5 DEF addCapacity
    <2>2. b.pos + n <= cap
      BY <1>1, <1>2, <1>3, <1>5
    <2>3. n > 0 => b.pos < cap
      BY <1>1, <2>2
    <2>4. n > 0 => b.cur = (b.pos \div BaseSize) + 1
      BY <1>2, <2>3, CurOf
    <2> QED BY <1>1, <1>2, <2>1, <2>2, <2>4
  <1>6. CASE n > 0 /\ old_cap < n
    <2>1. count \in Nat /\ count >= 1 /\ count * BaseSize >= n - old_cap
      <3>1. PICK d \in Nat : d = n - old_cap /\ d > 0
        BY <1>3, <1>6
      <3> QED BY <1>4, <3>1, BlocksFor
    <2>2. PICK added \in Nat : added = count * BaseSize
      BY <2>1, CapacityIsNat
    <2>3. PICK more : more = [i \in 1..count |-> FreshNode]
      OBVIOUS
    <2>4. more \in Seq(BaBlock) /\ Len(more) = count
      <3>1. FreshNode \in BaBlock
        BY DEF FreshNode, BaBlock
      <3> QED BY <2>1, <2>3, <3>1
    <2>5. c = [b EXCEPT !.nodes = @ \o more, !.cur = IF old_cap = 0 THEN Len(b.nodes) + 1 ELSE @]
      <3>1. ~(n = 0 \/ old_cap >= n)
        BY <1>3, <1>6
      <3> QED BY <1>2, <1>3, <1>4, <2>3, <3>1 DEF addCapacity
    <2>6. PICK all : all = b.nodes \o more
      OBVIOUS
    <2>7. /\ all \in Seq(BaBlock) /\ Len(all) = Len(b.nodes) + count
          /\ \A i \in 1..Len(b.nodes) : all[i] = b.nodes[i]
      <3>1. /\ all \in Seq(BaBlock) /\ Len(all) = Len(b.nodes) + Len(more)
            /\ \A i \in 1..(Len(b.nodes) + Len(more)) :
                  all[i] = IF i <= Len(b.nodes) THEN b.nodes[i] ELSE more[i - Len(b.nodes)]
        BY <1>1, <2>4, <2>6, ConcatProperties
      <3>2. Len(all) = Len(b.nodes) + count
        BY <2>4, <3>1
      <3>3. ASSUME NEW i \in 1..Len(b.nodes) PROVE all[i] = b.nodes[i]
        <4>1. i \in 1..(Len(b.nodes) + Len(more)) /\ i <= Len(b.nodes)
          BY <1>1, <2>1, <2>4
        <4> QED BY <3>1, <4>1
      <3> QED BY <3>1, <3>2, <3>3
    <2>8. c = [nodes |-> all, cur |-> IF old_cap = 0 THEN Len(b.nodes) + 1 ELSE b.cur,
               pos |-> b.pos, size |-> b.size]
      BY <1>1, <2>5, <2>6 DEF BaChain
    <2>9. Len(all) * BaseSize = cap + added
      <3>1. (Len(b.nodes) + count) * BaseSize = (Len(b.nodes) * BaseSize) + (count * BaseSize)
        BY <1>1, <2>1, CapacityAdds
      <3>2. Len(all) = Len(b.nodes) + count
        BY <2>7
      <3> QED BY <1>2, <2>2, <3>1, <3>2
    <2>10. b.pos + n <= cap + added /\ b.pos < cap + added /\ b.size <= cap + added
      <3>1. b.pos \in Nat /\ b.size \in Nat /\ b.pos <= b.size /\ b.size <= cap
        BY <1>1, <1>2
      <3>2. added >= n - old_cap /\ n - old_cap > 0
        BY <1>6, <2>1, <2>2
      <3> QED BY <1>3, <3>1, <3>2
    <2>11. b.pos \div BaseSize \in Nat /\ (b.pos \div BaseSize) + 1 <= Len(all)
      <3>1. Len(all) \in Nat
        BY <1>1, <2>1, <2>7
      <3> QED BY <1>1, <2>9, <2>10, <3>1, BlockInChain, BlockAndOffset
    <2>12. c.cur = (b.pos \div BaseSize) + 1
      <3>1. CASE old_cap = 0
        <4>1. b.pos = (Len(b.nodes) * BaseSize) + 0 /\ 0 \in 0..(BaseSize - 1)
          BY <1>1, <1>2, <1>3, <3>1, BaseSizeIsNat
        <4>2. b.pos \div BaseSize = Len(b.nodes)
          BY <1>1, <4>1, BlockOf
        <4> QED BY <2>8, <3>1, <4>2
      <3>2. CASE old_cap # 0
        <4>1. b.pos < Len(b.nodes) * BaseSize
          BY <1>1, <1>2, <1>3, <3>2
        <4> QED BY <2>8, <3>2, <4>1, CurOf
      <3> QED BY <3>1, <3>2
    <2>13. ChainOK(c)
      <3>1. c \in BaChain
        BY <1>1, <2>7, <2>8, <2>11, <2>12 DEF BaChain
      <3>2. c.nodes # <<>>
        BY <1>1, <2>1, <2>7, <2>8
      <3>3. ~((b.pos \div BaseSize) + 1 > Len(all))
        BY <1>1, <2>1, <2>7, <2>11
      <3>4. c.cur = BlockOrNull(c.nodes, (c.pos \div BaseSize) + 1)
        BY <2>8, <2>12, <3>3 DEF BlockOrNull
      <3> QED BY <1>1, <2>8, <2>9, <2>10, <3>1, <3>2, <3>4 DEF ChainOK
    <2>14. Len(b.nodes) <= Len(c.nodes)
      BY <1>1, <2>1, <2>7, <2>8
    <2> QED BY <2>7, <2>8, <2>9, <2>10, <2>12, <2>13, <2>14
  <1> QED BY <1>3, <1>5, <1>6

(* Blocks added behind leave the memory as it was.                          *)
LEMMA SameMemory ==
  ASSUME NEW n \in Seq(BaBlock), NEW n2, \A i \in 1..Len(n) : n2[i] = n[i],
         NEW a \in Nat, a < Len(n) * BaseSize
  PROVE  Mem(n2, a) = Mem(n, a)
  <1>1. (a \div BaseSize) + 1 <= Len(n) /\ Len(n) \in Nat
    BY BlockInChain
  <1>2. a \div BaseSize \in Nat
    BY BlockAndOffset
  <1> QED BY <1>1, <1>2 DEF Mem

-----------------------------------------------------------------------------
(* Copying into the chain.                                                  *)

LEMMA ByteOf ==
  ASSUME NEW a \in Nat, NEW p \in Nat
  PROVE  ((((a \div BaseSize) + 1) - ((p \div BaseSize) + 1)) * BaseSize)
           + (a % BaseSize) - (p % BaseSize) = a - p
  BY BaseSizeIsNat

LEMMA CopiedIn ==
  ASSUME NEW b, b.nodes \in Seq(BaBlock), b.pos \in Nat,
         b.cur = (b.pos \div BaseSize) + 1,
         NEW s \in Seq(Byte), NEW n2, n2 = CopyIn(b, s)
  PROVE  /\ n2 \in Seq(BaBlock) /\ Len(n2) = Len(b.nodes)
         /\ \A a \in Nat : a < Len(b.nodes) * BaseSize =>
              /\ b.pos <= a /\ a < b.pos + Len(s) => Mem(n2, a) = s[(a - b.pos) + 1]
              /\ ~(b.pos <= a /\ a < b.pos + Len(s)) => Mem(n2, a) = Mem(b.nodes, a)
  <1> DEFINE K(i, o) == ((i - b.cur) * BaseSize) + o - (b.pos % BaseSize)
             Blk(i) == [o \in 0..(BaseSize - 1) |->
                          IF K(i, o) \in 0..(Len(s) - 1) THEN s[K(i, o) + 1] ELSE b.nodes[i][o]]
  <1>1. n2 = [i \in 1..Len(b.nodes) |-> Blk(i)]
    BY DEF CopyIn
  <1>2. ASSUME NEW i \in 1..Len(b.nodes) PROVE Blk(i) \in BaBlock
    <2>1. b.nodes[i] \in BaBlock
      OBVIOUS
    <2>2. ASSUME NEW o \in 0..(BaseSize - 1)
          PROVE  (IF K(i, o) \in 0..(Len(s) - 1) THEN s[K(i, o) + 1] ELSE b.nodes[i][o])
                   \in Byte \cup {Junk}
      <3>1. b.nodes[i][o] \in Byte \cup {Junk}
        BY <2>1 DEF BaBlock
      <3>2. ASSUME NEW k \in 0..(Len(s) - 1) PROVE s[k + 1] \in Byte
        <4>1. Len(s) \in Nat /\ k + 1 \in 1..Len(s)
          OBVIOUS
        <4> QED BY <4>1
      <3> HIDE DEF K
      <3> QED BY <3>1, <3>2
    <2> HIDE DEF K
    <2> QED BY <2>2 DEF BaBlock
  <1>3. n2 \in Seq(BaBlock) /\ Len(n2) = Len(b.nodes)
    <2>1. Len(b.nodes) \in Nat
      OBVIOUS
    <2> HIDE DEF Blk
    <2> QED BY <1>1, <1>2, <2>1
  <1>4. ASSUME NEW a \in Nat, a < Len(b.nodes) * BaseSize
        PROVE  /\ b.pos <= a /\ a < b.pos + Len(s) => Mem(n2, a) = s[(a - b.pos) + 1]
               /\ ~(b.pos <= a /\ a < b.pos + Len(s)) => Mem(n2, a) = Mem(b.nodes, a)
    <2>1. PICK i : i = (a \div BaseSize) + 1
      OBVIOUS
    <2>2. PICK o : o = a % BaseSize
      OBVIOUS
    <2>3. i \in 1..Len(b.nodes) /\ o \in 0..(BaseSize - 1)
      <3>1. a \div BaseSize \in Nat /\ o \in 0..(BaseSize - 1) /\ Len(b.nodes) \in Nat
        <4>1. a \div BaseSize \in Nat /\ a % BaseSize \in 0..(BaseSize - 1)
          BY BlockAndOffset
        <4> QED BY <2>2, <4>1
      <3>2. i <= Len(b.nodes)
        BY <1>4, <2>1, <3>1, BlockInChain
      <3> QED BY <2>1, <3>1, <3>2
    <2>4. K(i, o) = a - b.pos
      BY <2>1, <2>2, ByteOf
    <2>5. Mem(n2, a) = n2[i][o] /\ Mem(b.nodes, a) = b.nodes[i][o]
      BY <2>1, <2>2 DEF Mem
    <2> HIDE DEF K
    <2>6. n2[i][o] = IF K(i, o) \in 0..(Len(s) - 1) THEN s[K(i, o) + 1] ELSE b.nodes[i][o]
      BY <1>1, <2>3
    <2>7. Len(s) \in Nat
      OBVIOUS
    <2> QED BY <2>4, <2>5, <2>6, <2>7
  <1> QED BY <1>3, <1>4

(* write(): the bytes are in the memory, and nothing else has changed.      *)
LEMMA BytesWritten ==
  ASSUME NEW b0, ChainOK(b0), NEW s \in Seq(Byte), NEW w, w = write(b0, s)
  PROVE  /\ ChainOK(w)
         /\ w.pos = b0.pos + Len(s) /\ b0.size <= w.size
         /\ Len(b0.nodes) <= Len(w.nodes)
         /\ Written(w.nodes, b0.pos, s)
         /\ KeepsRest(b0.nodes, w.nodes, b0.pos, w.pos)
  <1>1. /\ b0 \in BaChain /\ b0.nodes \in Seq(BaBlock) /\ b0.pos \in Nat /\ b0.size \in Nat
        /\ Len(b0.nodes) \in Nat /\ Len(s) \in Nat
    BY DEF ChainOK, BaChain
  <1>2. CASE Len(s) = 0
    <2>1. w = b0
      BY <1>2 DEF write
    <2> QED BY <1>1, <1>2, <2>1 DEF Written, KeepsRest
  <1>3. CASE Len(s) > 0
    <2>1. PICK b : b = addCapacity(b0, Len(s))
      OBVIOUS
    <2>2. /\ ChainOK(b)
          /\ b.pos = b0.pos /\ b.size = b0.size /\ Len(b0.nodes) <= Len(b.nodes)
          /\ b0.pos + Len(s) <= Len(b.nodes) * BaseSize
          /\ b.cur = (b0.pos \div BaseSize) + 1
          /\ \A i \in 1..Len(b0.nodes) : b.nodes[i] = b0.nodes[i]
      BY <1>1, <1>3, <2>1, CapacityAdded
    <2>3. /\ b \in BaChain /\ b.nodes \in Seq(BaBlock) /\ b.nodes # <<>> /\ b.size <= Len(b.nodes) * BaseSize
          /\ Len(b.nodes) \in Nat
      BY <2>2 DEF ChainOK, BaChain
    <2>4. PICK n2 : n2 = CopyIn(b, s)
      OBVIOUS
    <2>5. /\ n2 \in Seq(BaBlock) /\ Len(n2) = Len(b.nodes)
          /\ \A a \in Nat : a < Len(b.nodes) * BaseSize =>
              /\ b0.pos <= a /\ a < b0.pos + Len(s) => Mem(n2, a) = s[(a - b0.pos) + 1]
              /\ ~(b0.pos <= a /\ a < b0.pos + Len(s)) => Mem(n2, a) = Mem(b.nodes, a)
      BY <1>1, <2>2, <2>3, <2>4, CopiedIn
    <2>6. w = [nodes |-> n2, pos |-> b0.pos + Len(s), size |-> Larger(b0.size, b0.pos + Len(s)),
               cur |-> BlockOrNull(b.nodes, BlockAt(b.cur, b.pos, Len(s)))]
      BY <1>3, <2>1, <2>2, <2>4 DEF write
    <2>7. BlockAt(b.cur, b.pos, Len(s)) = ((b0.pos + Len(s)) \div BaseSize) + 1
      BY <1>1, <2>2, BlockFurther
    <2>8. w.cur = BlockOrNull(n2, ((b0.pos + Len(s)) \div BaseSize) + 1)
      BY <2>5, <2>6, <2>7 DEF BlockOrNull
    <2>9. /\ Larger(b0.size, b0.pos + Len(s)) \in Nat
          /\ b0.size <= Larger(b0.size, b0.pos + Len(s))
          /\ b0.pos + Len(s) <= Larger(b0.size, b0.pos + Len(s))
          /\ Larger(b0.size, b0.pos + Len(s)) <= Len(n2) * BaseSize
      <3>1. PICK cap \in Nat : cap = Len(b.nodes) * BaseSize
        BY <2>3, CapacityIsNat
      <3> QED BY <1>1, <2>2, <2>3, <2>5, <3>1 DEF Larger
    <2>10. w.cur \in Nat
      <3>1. (b0.pos + Len(s)) \div BaseSize \in Nat
        <4>1. PICK e \in Nat : e = b0.pos + Len(s)
          BY <1>1
        <4>2. e \div BaseSize \in Nat
          BY BlockAndOffset
        <4> QED BY <4>1, <4>2
      <3> QED BY <2>8, <3>1 DEF BlockOrNull, NULL
    <2>11. ChainOK(w)
      <3>1. w \in BaChain
        BY <1>1, <2>5, <2>6, <2>9, <2>10 DEF BaChain
      <3>2. w.nodes # <<>>
        BY <2>3, <2>5, <2>6
      <3> QED BY <2>6, <2>8, <2>9, <3>1, <3>2 DEF ChainOK
    <2>12. Written(w.nodes, b0.pos, s)
      <3>1. ASSUME NEW k \in 1..Len(s) PROVE Mem(n2, b0.pos + k - 1) = s[k]
        <4>1. PICK a \in Nat : a = b0.pos + k - 1
          BY <1>1
        <4>2. b0.pos <= a /\ a < b0.pos + Len(s) /\ (a - b0.pos) + 1 = k
          BY <1>1, <4>1
        <4>3. a < Len(b.nodes) * BaseSize
          <5>1. PICK cap \in Nat : cap = Len(b.nodes) * BaseSize
            BY <2>3, CapacityIsNat
          <5> QED BY <1>1, <2>2, <4>2, <5>1
        <4> QED BY <2>5, <4>1, <4>2, <4>3
      <3> QED BY <2>6, <3>1 DEF Written
    <2>13. ASSUME NEW a \in Nat, a < Len(b0.nodes) * BaseSize,
                  ~(b0.pos <= a /\ a < b0.pos + Len(s))
           PROVE  Mem(w.nodes, a) = Mem(b0.nodes, a)
      <3>1. a < Len(b.nodes) * BaseSize
        BY <1>1, <2>2, <2>3, <2>13, CapacityGrows
      <3>2. Mem(n2, a) = Mem(b.nodes, a)
        BY <2>5, <2>13, <3>1
      <3>3. Mem(b.nodes, a) = Mem(b0.nodes, a)
        BY <1>1, <2>2, <2>13, SameMemory
      <3> QED BY <2>6, <3>2, <3>3
    <2>14. KeepsRest(b0.nodes, w.nodes, b0.pos, w.pos)
      BY <2>6, <2>13 DEF KeepsRest
    <2> QED BY <2>2, <2>5, <2>6, <2>9, <2>11, <2>12, <2>14
  <1> QED BY <1>1, <1>2, <1>3

-----------------------------------------------------------------------------
(* Copying out of the chain.                                                *)

Copied(s, len, n, a, fill) ==
  /\ s \in Seq(Byte \cup {Junk}) /\ Len(s) = len
  /\ \A k \in 1..len : s[k] = IF Mem(n, a + k - 1) = Junk THEN fill ELSE Mem(n, a + k - 1)

LEMMA CopiedOut ==
  ASSUME NEW b, NEW n \in Nat, b.nodes \in Seq(BaBlock), b.pos \in Nat,
         b.pos + n <= Len(b.nodes) * BaseSize,
         NEW fill \in Byte \cup {Junk},
         NEW s, s = CopyOut(b, (b.pos \div BaseSize) + 1, n, fill)
  PROVE  Copied(s, n, b.nodes, b.pos, fill)
  <1> DEFINE cur == (b.pos \div BaseSize) + 1
  <1>1. ASSUME NEW k \in 1..n
        PROVE  b.nodes[BlockAt(cur, b.pos, k - 1)][(b.pos + k - 1) % BaseSize]
                 = Mem(b.nodes, b.pos + k - 1)
    <2>1. PICK j \in Nat : j = k - 1
      OBVIOUS
    <2>2. BlockAt(cur, b.pos, j) = ((b.pos + j) \div BaseSize) + 1
      BY BlockFurther
    <2>3. b.pos + j = b.pos + k - 1
      BY <2>1
    <2> HIDE DEF cur
    <2> QED BY <2>1, <2>2, <2>3 DEF Mem
  <1>2. s = [k \in 1..n |->
               LET c == b.nodes[BlockAt(cur, b.pos, k - 1)][(b.pos + k - 1) % BaseSize]
               IN IF c = Junk THEN fill ELSE c]
    BY DEF CopyOut
  <1> HIDE DEF cur
  <1>3. ASSUME NEW k \in 1..n
        PROVE  s[k] = IF Mem(b.nodes, b.pos + k - 1) = Junk THEN fill
                      ELSE Mem(b.nodes, b.pos + k - 1)
    BY <1>1, <1>2
  <1>4. ASSUME NEW k \in 1..n
        PROVE  Mem(b.nodes, b.pos + k - 1) \in Byte \cup {Junk}
    <2>1. PICK a \in Nat : a = b.pos + k - 1
      OBVIOUS
    <2>2. PICK cap \in Nat : cap = Len(b.nodes) * BaseSize
      <3>1. Len(b.nodes) \in Nat
        OBVIOUS
      <3> QED BY <3>1, CapacityIsNat
    <2>3. a < Len(b.nodes) * BaseSize
      BY <2>1, <2>2
    <2> QED BY <2>1, <2>3, MemType
  <1>5. s = [k \in 1..n |-> s[k]]
    BY <1>2
  <1>6. s \in Seq(Byte \cup {Junk}) /\ Len(s) = n
    BY <1>3, <1>4, <1>5
  <1> QED BY <1>3, <1>6 DEF Copied

(* read() moves the position over n bytes and returns them, or throws, or   *)
(* follows a null block, the last if n is 0 at the end of the chain.        *)
LEMMA BytesRead ==
  ASSUME NEW b, ChainOK(b), NEW n \in Nat, NEW fill \in Byte, NEW r, r = read(b, n, fill)
  PROVE  /\ ChainOK(r.b) /\ r.b.nodes = b.nodes /\ r.b.size = b.size
         /\ r.end \in {"ok", "throw", "null"}
         /\ n > b.size - b.pos => r.end = "throw" /\ r.b = b
         /\ n <= b.size - b.pos => r.end \in {"ok", "null"}
         /\ n <= b.size - b.pos /\ n > 0 => r.end = "ok"
         /\ r.end = "null" => n = 0 /\ r.b = b /\ AtCapacity(b)
         /\ r.end = "ok" =>
              /\ r.b.pos = b.pos + n
              /\ r.s \in Seq(Byte) /\ Len(r.s) = n
              /\ ReadsAs(b.nodes, b.pos, r.s)
  <1>1. /\ b \in BaChain /\ b.nodes \in Seq(BaBlock) /\ b.pos \in Nat /\ b.size \in Nat
        /\ Len(b.nodes) \in Nat /\ b.pos <= b.size /\ b.nodes # <<>>
    BY DEF ChainOK, BaChain
  <1>2. PICK cap \in Nat : cap = Len(b.nodes) * BaseSize
    BY <1>1, CapacityIsNat
  <1>3. b.size <= cap
    BY <1>2 DEF ChainOK
  <1>4. CASE n > b.size - b.pos
    <2>1. r = [b |-> b, s |-> <<>>, end |-> "throw"]
      BY <1>4 DEF read
    <2>2. ~(n <= b.size - b.pos)
      BY <1>1, <1>4
    <2> QED BY <1>4, <2>1, <2>2
  <1>5. CASE ~(n > b.size - b.pos) /\ b.cur = NULL
    <2>1. r = [b |-> b, s |-> <<>>, end |-> "null"]
      BY <1>5 DEF read
    <2>2. ~(b.pos < cap) /\ b.pos = cap
      BY <1>2, <1>5, CurOf
    <2>3. n = 0
      BY <1>1, <1>3, <1>5, <2>2
    <2> QED BY <1>2, <1>5, <2>1, <2>2, <2>3 DEF AtCapacity
  <1>6. CASE ~(n > b.size - b.pos) /\ b.cur # NULL
    <2>1. b.pos < cap /\ b.cur = (b.pos \div BaseSize) + 1
      BY <1>2, <1>6, CurOf
    <2>2. PICK c : c = CopyOut(b, b.cur, n, fill)
      OBVIOUS
    <2>3. PICK b2 : b2 = [b EXCEPT !.pos = @ + n,
                                   !.cur = BlockOrNull(b.nodes, BlockAt(b.cur, b.pos, n))]
      OBVIOUS
    <2>4. r = [s |-> c, end |-> "ok", b |-> b2]
      BY <1>6, <2>2, <2>3 DEF read
    <2>5. /\ c \in Seq(Byte \cup {Junk}) /\ Len(c) = n
          /\ \A k \in 1..n : c[k] = IF Mem(b.nodes, b.pos + k - 1) = Junk THEN fill
                                     ELSE Mem(b.nodes, b.pos + k - 1)
      <3>1. c = CopyOut(b, (b.pos \div BaseSize) + 1, n, fill)
        BY <2>1, <2>2
      <3>2. b.pos + n <= Len(b.nodes) * BaseSize
        BY <1>1, <1>2, <1>3, <1>6
      <3>3. fill \in Byte \cup {Junk}
        OBVIOUS
      <3>4. Copied(c, n, b.nodes, b.pos, fill)
        BY <1>1, <3>1, <3>2, <3>3, CopiedOut
      <3> QED BY <3>4 DEF Copied
    <2>6. ASSUME NEW k \in 1..n PROVE c[k] \in Byte
      <3>1. c[k] \in Byte \cup {Junk}
        BY <2>5
      <3>2. CASE Mem(b.nodes, b.pos + k - 1) = Junk
        BY <2>5, <3>2
      <3>3. CASE Mem(b.nodes, b.pos + k - 1) # Junk
        BY <2>5, <3>1, <3>3
      <3> QED BY <3>2, <3>3
    <2>7. c \in Seq(Byte) /\ Len(c) = n
      BY <2>5, <2>6
    <2>8. ReadsAs(b.nodes, b.pos, c)
      BY <2>5 DEF ReadsAs
    <2>9. b2 = [nodes |-> b.nodes, pos |-> b.pos + n, size |-> b.size,
                cur |-> BlockOrNull(b.nodes, BlockAt(b.cur, b.pos, n))]
      BY <1>1, <2>3 DEF BaChain
    <2>10. BlockAt(b.cur, b.pos, n) = ((b.pos + n) \div BaseSize) + 1
      BY <1>1, <2>1, BlockFurther
    <2>11. ((b.pos + n) \div BaseSize) + 1 \in Nat
      <3>1. PICK e \in Nat : e = b.pos + n
        BY <1>1
      <3>2. e \div BaseSize \in Nat
        BY BlockAndOffset
      <3> QED BY <3>1, <3>2
    <2>12. ChainOK(b2)
      <3>1. b2 \in BaChain
        BY <1>1, <2>9, <2>10, <2>11 DEF BaChain, BlockOrNull, NULL
      <3>2. b.pos + n <= b.size
        BY <1>1, <1>6
      <3> QED BY <1>1, <1>2, <1>3, <2>9, <2>10, <3>1, <3>2 DEF ChainOK
    <2> QED BY <1>6, <2>4, <2>7, <2>8, <2>9, <2>12
  <1> QED BY <1>4, <1>5, <1>6

LEMMA ReadKeeps ==
  ASSUME NEW b, ChainOK(b), NEW n \in Nat, NEW fill \in Byte, NEW r, r = read(b, n, fill)
  PROVE  ChainOK(r.b) /\ r.b.nodes = b.nodes /\ r.b.size = b.size
  BY BytesRead

LEMMA ReadEnds ==
  ASSUME NEW b, ChainOK(b), NEW n \in Nat, NEW fill \in Byte, NEW r, r = read(b, n, fill)
  PROVE  /\ r.end \in {"ok", "throw", "null"}
         /\ n <= b.size - b.pos => r.end \in {"ok", "null"}
         /\ n > 0 => r.end # "null"
         /\ r.end = "null" => r.b = b /\ AtCapacity(b)
         /\ r.end = "ok" => r.b.pos = b.pos + n
  BY BytesRead

LEMMA ReadBytes ==
  ASSUME NEW b, ChainOK(b), NEW n \in Nat, NEW fill \in Byte, NEW r, r = read(b, n, fill),
         r.end = "ok"
  PROVE  /\ r.s \in Seq(Byte) /\ Len(r.s) = n
         /\ ReadsAs(b.nodes, b.pos, r.s)
  BY BytesRead

(* What is written at the position is read there.                           *)
LEMMA WrittenIsRead ==
  ASSUME NEW b, ChainOK(b), NEW s \in Seq(Byte), Written(b.nodes, b.pos, s),
         b.pos + Len(s) <= b.size,
         NEW fill \in Byte, NEW r, r = read(b, Len(s), fill)
  PROVE  /\ ChainOK(r.b) /\ r.b.nodes = b.nodes /\ r.b.size = b.size
         /\ r.end \in {"ok", "null"}
         /\ Len(s) > 0 => r.end = "ok"
         /\ r.end = "null" => AtCapacity(b)
         /\ r.end = "ok" => r.b.pos = b.pos + Len(s) /\ r.s = s
  <1>1. PICK n \in Nat : n = Len(s)
    OBVIOUS
  <1>2. r = read(b, n, fill)
    BY <1>1
  <1>3. b.pos \in Nat /\ b.size \in Nat /\ n \in Nat
    BY DEF ChainOK, BaChain
  <1>4. n <= b.size - b.pos
    BY <1>1, <1>3
  <1>5. ChainOK(r.b) /\ r.b.nodes = b.nodes /\ r.b.size = b.size
    BY <1>2, ReadKeeps
  <1>6. /\ r.end \in {"ok", "null"}
        /\ n > 0 => r.end # "null"
        /\ r.end = "null" => AtCapacity(b)
    BY <1>4, <1>2, ReadEnds
  <1>7. n > 0 => r.end = "ok"
    BY <1>6
  <1>8. r.end = "ok" => r.b.pos = b.pos + n
    BY <1>2, ReadEnds
  <1>9. ASSUME r.end = "ok" PROVE r.s = s
    <2>1. /\ r.s \in Seq(Byte) /\ Len(r.s) = n
          /\ ReadsAs(b.nodes, b.pos, r.s)
      BY <1>9, <1>2, ReadBytes
    <2>2. ASSUME NEW k \in 1..n PROVE r.s[k] = s[k]
      <3>1. Mem(b.nodes, b.pos + k - 1) = s[k] /\ s[k] \in Byte
        BY <1>1 DEF Written
      <3>2. s[k] # Junk
        BY <3>1 DEF Byte, Junk
      <3> QED BY <2>1, <3>1, <3>2 DEF ReadsAs
    <2> QED BY <1>1, <2>1, <2>2
  <1> QED BY <1>1, <1>4, <1>5, <1>6, <1>7, <1>8, <1>9

-----------------------------------------------------------------------------
(* Encoding and decoding.                                                   *)

Fixed(e, v) == LET host == <<v % 4, v \div 4>> IN IF e = "little" THEN host ELSE Reverse(host)

LEMMA ReversePair ==
  ASSUME NEW x \in Byte, NEW y \in Byte PROVE Reverse(<<x, y>>) = <<y, x>>
  BY DEF Reverse

LEMMA FixedBytes ==
  ASSUME NEW v \in 0..15, m_endian \in {"big", "little"}
  PROVE  /\ EncodeFixed(v) = Fixed(m_endian, v)
         /\ Fixed(m_endian, v) \in Seq(Byte) /\ Len(Fixed(m_endian, v)) = 2
         /\ DecodeFixed(Fixed(m_endian, v)) = v
  <1>1. v % 4 \in Byte /\ v \div 4 \in Byte /\ v = (v % 4) + 4 * (v \div 4)
    BY DEF Byte
  <1>2. CASE m_endian = "little"
    BY <1>1, <1>2 DEF EncodeFixed, DecodeFixed, Fixed
  <1>3. CASE m_endian # "little"
    <2>1. Fixed(m_endian, v) = <<v \div 4, v % 4>> /\ EncodeFixed(v) = <<v \div 4, v % 4>>
      BY <1>1, <1>3, ReversePair DEF EncodeFixed, Fixed
    <2>2. Reverse(<<v \div 4, v % 4>>) = <<v % 4, v \div 4>>
      BY <1>1, ReversePair
    <2>3. DecodeFixed(<<v \div 4, v % 4>>) = (v % 4) + 4 * (v \div 4)
      BY <1>3, <2>2 DEF DecodeFixed
    <2> QED BY <1>1, <2>1, <2>3
  <1> QED BY <1>2, <1>3

LEMMA FixedDecodes ==
  ASSUME NEW s \in Seq(Byte), Len(s) = 2
  PROVE  DecodeFixed(s) \in Nat
  <1>1. PICK x \in Byte, y \in Byte : s = <<x, y>>
    <2>1. 1 \in 1..Len(s) /\ 2 \in 1..Len(s)
      OBVIOUS
    <2>2. s[1] \in Byte /\ s[2] \in Byte
      <3>1. \A k \in 1..Len(s) : s[k] \in Byte
        OBVIOUS
      <3> QED BY <2>1, <3>1
    <2>3. PICK t : t = <<s[1], s[2]>>
      OBVIOUS
    <2>4. t \in Seq(Byte) /\ Len(t) = 2 /\ t[1] = s[1] /\ t[2] = s[2]
      BY <2>2, <2>3
    <2>5. \A k \in 1..2 : t[k] = s[k]
      BY <2>4
    <2>6. t = s
      BY <2>4, <2>5
    <2> QED BY <2>2, <2>3, <2>6
  <1>2. Reverse(s) = <<y, x>>
    BY <1>1, ReversePair
  <1> QED BY <1>1, <1>2 DEF DecodeFixed, Byte

LEMMA ZigzagBytes ==
  ASSUME NEW v \in -4..3
  PROVE  EncodeZigzag(v) \in 0..7 /\ DecodeZigzag(EncodeZigzag(v)) = v
  BY DEF EncodeZigzag, DecodeZigzag

(* The bytes of a varint.                                                   *)
LEMMA VarintBytes ==
  ASSUME NEW v \in 0..7, NEW e, e = EncodeVarint(v)
  PROVE  /\ e \in Seq(Byte) /\ Len(e) \in 1..3
         /\ v < 2 => Len(e) = 1 /\ e[1] = v
         /\ v \in 2..3 => Len(e) = 2 /\ e[1] = (v % 2) + 2 /\ e[2] = v \div 2
         /\ v \in 4..7 => Len(e) = 3 /\ e[1] = (v % 2) + 2 /\ e[2] = ((v \div 2) % 2) + 2
                            /\ e[3] = v \div 4
  <1>1. PICK n \in 1..3 : n = IF v < 2 THEN 1 ELSE IF v < 4 THEN 2 ELSE 3
    OBVIOUS
  <1> DEFINE at(i) == ((v \div Weight[i]) % 2) + (IF i < n THEN 2 ELSE 0)
  <1>2. e = [i \in 1..n |-> at(i)]
    BY <1>1 DEF EncodeVarint
  <1>3. /\ Weight[1] = 1 /\ Weight[2] = 2 /\ Weight[3] = 4
    BY DEF Weight
  <1>4. ASSUME NEW i \in 1..n PROVE at(i) \in Byte
    <2>1. i \in {1, 2, 3}
      BY <1>1
    <2>2. (v \div Weight[i]) % 2 \in 0..1
      BY <1>3, <2>1
    <2> QED BY <2>2 DEF Byte
  <1>5. /\ at(1) = (v % 2) + (IF 1 < n THEN 2 ELSE 0)
        /\ at(2) = ((v \div 2) % 2) + (IF 2 < n THEN 2 ELSE 0)
        /\ at(3) = ((v \div 4) % 2) + (IF 3 < n THEN 2 ELSE 0)
    BY <1>3
  <1> HIDE DEF at
  <1>6. e \in Seq(Byte) /\ Len(e) = n
    BY <1>2, <1>4
  <1>7. \A i \in 1..n : e[i] = at(i)
    BY <1>2
  <1>8. CASE v < 2
    BY <1>1, <1>5, <1>6, <1>7, <1>8
  <1>9. CASE v \in 2..3
    BY <1>1, <1>5, <1>6, <1>7, <1>9
  <1>10. CASE v \in 4..7
    BY <1>1, <1>5, <1>6, <1>7, <1>10
  <1> QED BY <1>8, <1>9, <1>10

Ended(a) == a.more = FALSE
GoesOn(a) == a.more = TRUE

(* The state of readUint32 between two bytes.                               *)
InVarint(a, b) ==
  /\ a = [b |-> a.b, end |-> a.end, more |-> a.more, v |-> a.v]
  /\ ChainOK(a.b) /\ a.b.nodes = b.nodes /\ a.b.size = b.size
  /\ a.end \in {"ok", "throw"}

LEMMA VarintByteEnded ==
  ASSUME NEW a, NEW w, NEW fill, NEW a2, a2 = ReadVarintByte(a, w, fill), Ended(a)
  PROVE  a2 = a
  BY DEF ReadVarintByte, Ended

LEMMA VarintByteKeeps ==
  ASSUME NEW b, NEW a, InVarint(a, b), NEW w, NEW fill \in Byte,
         NEW a2, a2 = ReadVarintByte(a, w, fill)
  PROVE  InVarint(a2, b)
  <1>1. CASE a.more = FALSE \/ a.end # "ok"
    <2>1. a2 = a
      BY <1>1 DEF ReadVarintByte
    <2> QED BY <2>1
  <1>2. CASE ~(a.more = FALSE \/ a.end # "ok")
    <2>1. PICK r : r = read(a.b, 1, fill)
      OBVIOUS
    <2>2. PICK n \in Nat : n = 1
      OBVIOUS
    <2>3. PICK c : c = a.b
      OBVIOUS
    <2>4. r = read(c, n, fill)
      BY <2>1, <2>2, <2>3
    <2>5. ChainOK(c) /\ c.nodes = b.nodes /\ c.size = b.size
      BY <2>3 DEF InVarint
    <2>6. ChainOK(r.b) /\ r.b.nodes = c.nodes /\ r.b.size = c.size
      BY <2>4, <2>5, ReadKeeps
    <2>7. r.end \in {"ok", "throw"}
      BY <2>2, <2>4, <2>5, ReadEnds
    <2>8. a2 = IF r.end # "ok" THEN [a EXCEPT !.end = r.end, !.b = r.b]
               ELSE [b |-> r.b, end |-> "ok", more |-> r.s[1] >= 2, v |-> a.v + (r.s[1] % 2) * w]
      BY <1>2, <2>1 DEF ReadVarintByte
    <2>9. CASE r.end # "ok"
      <3>1. a2 = [b |-> r.b, end |-> r.end, more |-> a.more, v |-> a.v]
        BY <2>8, <2>9 DEF InVarint
      <3> QED BY <2>5, <2>6, <2>7, <3>1 DEF InVarint
    <2>10. CASE r.end = "ok"
      <3>1. PICK m, u : a2 = [b |-> r.b, end |-> "ok", more |-> m, v |-> u]
        BY <2>8, <2>10
      <3> QED BY <2>5, <2>6, <3>1 DEF InVarint
    <2> QED BY <2>9, <2>10
  <1> QED BY <1>1, <1>2

LEMMA VarintByteBack ==
  ASSUME NEW b, NEW a, InVarint(a, b), NEW w, NEW fill \in Byte,
         NEW a2, a2 = ReadVarintByte(a, w, fill),
         NEW x \in Byte, a.end = "ok", GoesOn(a), a.b.pos < b.size, Mem(b.nodes, a.b.pos) = x
  PROVE  /\ a2.end = "ok" /\ a2.b.pos = a.b.pos + 1
         /\ a2.v = a.v + (x % 2) * w
         /\ x < 2 => Ended(a2)
         /\ x >= 2 => GoesOn(a2)
  <1>1. PICK r : r = read(a.b, 1, fill)
    OBVIOUS
  <1>2. PICK s : s = <<x>>
    OBVIOUS
  <1>3. s \in Seq(Byte) /\ Len(s) = 1 /\ s[1] = x
    BY <1>2
  <1>4. PICK c : c = a.b
    OBVIOUS
  <1>5. /\ ChainOK(c) /\ c.pos \in Nat /\ c.size \in Nat
        /\ c.nodes = b.nodes /\ c.pos < c.size
    BY <1>4 DEF InVarint, ChainOK, BaChain
  <1>6. Written(c.nodes, c.pos, s)
    <2>1. \A k \in 1..1 : c.pos + k - 1 = c.pos /\ k = 1
      BY <1>5
    <2>2. Mem(c.nodes, c.pos) = x
      BY <1>4, <1>5
    <2> QED BY <1>3, <2>1, <2>2 DEF Written
  <1>7. c.pos + Len(s) <= c.size
    BY <1>3, <1>5
  <1>8. r = read(c, Len(s), fill) /\ Len(s) > 0
    BY <1>1, <1>3, <1>4
  <1>9. ChainOK(c) /\ s \in Seq(Byte)
    BY <1>3, <1>5
  <1>10. r.end = "ok"
    BY <1>6, <1>7, <1>8, <1>9, WrittenIsRead
  <1>11. r.b.pos = c.pos + Len(s) /\ r.s = s
    BY <1>6, <1>7, <1>8, <1>9, <1>10, WrittenIsRead
  <1>12. r.s[1] = x
    BY <1>3, <1>11
  <1>13. a2 = [b |-> r.b, end |-> "ok", more |-> x >= 2, v |-> a.v + (x % 2) * w]
    BY <1>1, <1>10, <1>12 DEF ReadVarintByte, GoesOn
  <1>14. a2.b.pos = a.b.pos + 1 /\ a2.end = "ok" /\ a2.v = a.v + (x % 2) * w
    BY <1>3, <1>4, <1>11, <1>13
  <1>15. a2.more = (x >= 2)
    BY <1>13
  <1>16. x < 2 => Ended(a2)
    <2>1. CASE x < 2
      <3>1. ~(x >= 2)
        BY <2>1 DEF Byte
      <3>2. (x >= 2) = FALSE
        BY <3>1
      <3> QED BY <1>15, <3>2 DEF Ended
    <2> QED BY <2>1
  <1>17. x >= 2 => GoesOn(a2)
    BY <1>15, Zenon DEF GoesOn
  <1> QED BY <1>14, <1>16, <1>17

LEMMA VarintBegins ==
  ASSUME NEW b, ChainOK(b),
         NEW a, a = [b |-> b, end |-> "ok", more |-> TRUE, v |-> 0]
  PROVE  InVarint(a, b)
  BY DEF InVarint

LEMMA VarintRead ==
  ASSUME NEW b, ChainOK(b), NEW fill \in Byte, NEW r, r = ReadVarint(b, fill)
  PROVE  InVarint(r, b)
  <1>1. PICK a0 : a0 = [b |-> b, end |-> "ok", more |-> TRUE, v |-> 0]
    OBVIOUS
  <1>2. PICK a1 : a1 = ReadVarintByte(a0, Weight[1], fill)
    OBVIOUS
  <1>3. PICK a2 : a2 = ReadVarintByte(a1, Weight[2], fill)
    OBVIOUS
  <1>4. r = ReadVarintByte(a2, Weight[3], fill)
    BY <1>1, <1>2, <1>3 DEF ReadVarint
  <1>5. InVarint(a0, b)
    BY <1>1, VarintBegins
  <1>6. InVarint(a1, b)
    BY <1>2, <1>5, VarintByteKeeps
  <1>7. InVarint(a2, b)
    BY <1>3, <1>6, VarintByteKeeps
  <1> QED BY <1>4, <1>7, VarintByteKeeps

(* A varint that is at the position is read, with as many bytes as it has.  *)
LEMMA VarintReadBack ==
  ASSUME NEW b, ChainOK(b), NEW fill \in Byte, NEW r, r = ReadVarint(b, fill),
         NEW v \in 0..7, NEW e, e = EncodeVarint(v), Written(b.nodes, b.pos, e),
         b.pos + Len(e) <= b.size
  PROVE  r.end = "ok" /\ r.v = v
  <1>1. PICK a0 : a0 = [b |-> b, end |-> "ok", more |-> TRUE, v |-> 0]
    OBVIOUS
  <1>2. PICK a1 : a1 = ReadVarintByte(a0, Weight[1], fill)
    OBVIOUS
  <1>3. PICK a2 : a2 = ReadVarintByte(a1, Weight[2], fill)
    OBVIOUS
  <1>4. r = ReadVarintByte(a2, Weight[3], fill)
    BY <1>1, <1>2, <1>3 DEF ReadVarint
  <1>5. InVarint(a0, b)
    BY <1>1, VarintBegins
  <1>6. InVarint(a1, b)
    BY <1>2, <1>5, VarintByteKeeps
  <1>7. InVarint(a2, b)
    BY <1>3, <1>6, VarintByteKeeps
  <1>8. /\ e \in Seq(Byte) /\ Len(e) \in 1..3
        /\ v < 2 => Len(e) = 1 /\ e[1] = v
        /\ v \in 2..3 => Len(e) = 2 /\ e[1] = (v % 2) + 2 /\ e[2] = v \div 2
        /\ v \in 4..7 => Len(e) = 3 /\ e[1] = (v % 2) + 2 /\ e[2] = ((v \div 2) % 2) + 2
                           /\ e[3] = v \div 4
    BY VarintBytes
  <1>9. b.pos \in Nat /\ b.size \in Nat
    BY DEF ChainOK, BaChain
  <1>10. ASSUME NEW k \in 1..Len(e)
         PROVE  Mem(b.nodes, b.pos + k - 1) = e[k] /\ e[k] \in Byte
    BY <1>8 DEF Written
  <1>11. PICK m \in Seq(Byte) : m = e
    BY <1>8
  <1>12. PICK p \in Nat, z \in Nat : p = b.pos /\ z = b.size
    BY <1>9
  <1>13. Weight[1] = 1 /\ Weight[2] = 2 /\ Weight[3] = 4
    BY DEF Weight
  <1>14. PICK x \in Byte : x = e[1]
    BY <1>8, <1>10
  <1>15. /\ a1.end = "ok" /\ a1.b.pos = p + 1
         /\ a1.v = x % 2
         /\ x < 2 => Ended(a1)
         /\ x >= 2 => GoesOn(a1)
    <2>1. a0.end = "ok" /\ GoesOn(a0) /\ a0.b.pos = p /\ a0.v = 0
      BY <1>1, <1>12 DEF GoesOn
    <2>2. a0.b.pos < b.size
      BY <1>8, <1>12, <2>1
    <2>3. Mem(b.nodes, a0.b.pos) = x
      <3>1. 1 \in 1..Len(e) /\ p + 1 - 1 = p
        BY <1>8
      <3> QED BY <1>10, <1>12, <1>14, <2>1, <3>1
    <2>4. /\ a1.end = "ok" /\ a1.b.pos = a0.b.pos + 1
          /\ a1.v = a0.v + (x % 2) * Weight[1]
          /\ x < 2 => Ended(a1)
          /\ x >= 2 => GoesOn(a1)
      BY <1>2, <1>5, <2>1, <2>2, <2>3, VarintByteBack
    <2>5. 0 + (x % 2) * Weight[1] = x % 2
      BY <1>13 DEF Byte
    <2> QED BY <2>1, <2>4, <2>5
  <1>16. CASE v < 2
    <2>1. x < 2 /\ x % 2 = v
      BY <1>8, <1>14, <1>16
    <2>2. Ended(a1) /\ a1.end = "ok" /\ a1.v = v
      BY <1>15, <2>1
    <2>3. Ended(a1)
      BY <2>2
    <2>4. a2 = a1
      BY <1>3, <2>3, VarintByteEnded
    <2>5. Ended(a2)
      BY <2>4, <2>3
    <2>6. r = a2
      BY <1>4, <2>5, VarintByteEnded
    <2> QED BY <2>2, <2>4, <2>6
  <1>17. CASE v >= 2
    <2>1. x >= 2 /\ x % 2 = v % 2
      BY <1>8, <1>14, <1>17
    <2>2. PICK y \in Byte : y = e[2]
      BY <1>8, <1>10, <1>17
    <2>3. /\ a2.end = "ok" /\ a2.b.pos = p + 2
          /\ a2.v = (v % 2) + (y % 2) * 2
          /\ y < 2 => Ended(a2)
          /\ y >= 2 => GoesOn(a2)
      <3>1. a1.end = "ok" /\ GoesOn(a1) /\ a1.b.pos = p + 1 /\ a1.v = v % 2
        BY <1>15, <2>1
      <3>2. a1.b.pos < b.size
        <4>1. Len(e) >= 2
          BY <1>8, <1>17
        <4>2. p + 1 < z
          BY <1>8, <1>12, <4>1
        <4> QED BY <1>12, <3>1, <4>2
      <3>3. Mem(b.nodes, a1.b.pos) = y
        <4>1. 2 \in 1..Len(e) /\ p + 2 - 1 = p + 1
          BY <1>8, <1>17
        <4> QED BY <1>10, <1>12, <2>2, <3>1, <4>1
      <3>4. /\ a2.end = "ok" /\ a2.b.pos = a1.b.pos + 1
            /\ a2.v = a1.v + (y % 2) * Weight[2]
            /\ y < 2 => Ended(a2)
            /\ y >= 2 => GoesOn(a2)
        BY <1>3, <1>6, <3>1, <3>2, <3>3, VarintByteBack
      <3>5. (p + 1) + 1 = p + 2
        OBVIOUS
      <3> QED BY <1>13, <3>1, <3>4, <3>5
    <2>4. CASE v < 4
      <3>1. y < 2 /\ (v % 2) + (y % 2) * 2 = v
        BY <1>8, <1>17, <2>2, <2>4
      <3>2. Ended(a2) /\ a2.end = "ok" /\ a2.v = v
        BY <2>3, <3>1
      <3>3. Ended(a2)
        BY <3>2
      <3>4. r = a2
        BY <1>4, <3>3, VarintByteEnded
      <3> QED BY <3>2, <3>4
    <2>5. CASE v >= 4
      <3>1. v \in 4..7 /\ Len(e) = 3
        BY <1>8, <2>5
      <3>2. PICK u \in Byte : u = e[3]
        BY <1>10, <3>1
      <3>3. y >= 2 /\ y % 2 = (v \div 2) % 2 /\ u = v \div 4 /\ u % 2 = 1
        BY <1>8, <2>2, <3>1, <3>2
      <3>4. a2.end = "ok" /\ GoesOn(a2) /\ a2.b.pos = p + 2 /\ a2.v = (v % 2) + (y % 2) * 2
        BY <2>3, <3>3
      <3>5. a2.b.pos < b.size
        BY <1>12, <3>1, <3>4
      <3>6. Mem(b.nodes, a2.b.pos) = u
        <4>1. 3 \in 1..Len(e) /\ p + 3 - 1 = p + 2
          BY <3>1
        <4> QED BY <1>10, <1>12, <3>2, <3>4, <4>1
      <3>7. r.end = "ok" /\ r.v = a2.v + (u % 2) * Weight[3]
        BY <1>4, <1>7, <3>4, <3>5, <3>6, VarintByteBack
      <3>8. ((v % 2) + (y % 2) * 2) + (u % 2) * 4 = v
        BY <3>3
      <3> QED BY <1>13, <3>4, <3>7, <3>8
    <2> QED BY <2>4, <2>5
  <1> QED BY <1>16, <1>17

-----------------------------------------------------------------------------
(* Getting.                                                                 *)

LEMMA FixedRead ==
  ASSUME NEW b, ChainOK(b), m_endian \in {"big", "little"},
         NEW fill \in Byte, NEW r, r = ReadFixed(b, fill)
  PROVE  /\ ChainOK(r.b) /\ r.b.nodes = b.nodes /\ r.b.size = b.size
         /\ r.end \in {"ok", "throw"}
         /\ r.end = "ok" => r.v \in Nat
  <1>1. PICK n \in Nat : n = 2
    OBVIOUS
  <1>2. PICK q : q = read(b, n, fill)
    OBVIOUS
  <1>3. r = [b |-> q.b, end |-> q.end, v |-> IF q.end = "ok" THEN DecodeFixed(q.s) ELSE 0]
    BY <1>1, <1>2 DEF ReadFixed
  <1>4. ChainOK(q.b) /\ q.b.nodes = b.nodes /\ q.b.size = b.size
    BY <1>2, ReadKeeps
  <1>5. q.end \in {"ok", "throw"}
    BY <1>1, <1>2, ReadEnds
  <1>6. ASSUME q.end = "ok" PROVE r.v \in Nat
    <2>1. q.s \in Seq(Byte) /\ Len(q.s) = n
      BY <1>2, <1>6, ReadBytes
    <2>2. DecodeFixed(q.s) \in Nat
      BY <1>1, <2>1, FixedDecodes
    <2> QED BY <1>3, <1>6, <2>2
  <1> QED BY <1>3, <1>4, <1>5, <1>6

LEMMA FixedReadBack ==
  ASSUME NEW b, ChainOK(b), m_endian \in {"big", "little"},
         NEW fill \in Byte, NEW r, r = ReadFixed(b, fill),
         NEW v \in 0..15, Written(b.nodes, b.pos, Fixed(m_endian, v)), b.pos + 2 <= b.size
  PROVE  r.end = "ok" /\ r.v = v /\ r.b.pos = b.pos + 2
  <1>1. PICK s : s = Fixed(m_endian, v)
    OBVIOUS
  <1>2. s \in Seq(Byte) /\ Len(s) = 2 /\ DecodeFixed(s) = v
    BY <1>1, FixedBytes
  <1>3. PICK q : q = read(b, 2, fill)
    OBVIOUS
  <1>4. r = [b |-> q.b, end |-> q.end, v |-> IF q.end = "ok" THEN DecodeFixed(q.s) ELSE 0]
    BY <1>3 DEF ReadFixed
  <1>5. q = read(b, Len(s), fill) /\ Len(s) > 0 /\ b.pos + Len(s) <= b.size
    BY <1>2, <1>3
  <1>6. Written(b.nodes, b.pos, s) /\ s \in Seq(Byte)
    BY <1>1, <1>2
  <1>7. q.end = "ok"
    BY <1>5, <1>6, WrittenIsRead
  <1>8. q.b.pos = b.pos + Len(s) /\ q.s = s
    BY <1>5, <1>6, <1>7, WrittenIsRead
  <1> QED BY <1>2, <1>4, <1>7, <1>8

LEMMA StringRead ==
  ASSUME NEW b, ChainOK(b), m_endian \in {"big", "little"},
         NEW fill \in Byte, NEW r, r = ReadString(b, fill)
  PROVE  /\ ChainOK(r.b) /\ r.b.nodes = b.nodes /\ r.b.size = b.size
         /\ r.end = "null" => AtCapacity(r.b)
  <1>1. PICK len : len = ReadFixed(b, fill)
    OBVIOUS
  <1>2. ChainOK(len.b) /\ len.b.nodes = b.nodes /\ len.b.size = b.size
    BY <1>1, FixedRead
  <1>3. len.end \in {"ok", "throw"} /\ (len.end = "ok" => len.v \in Nat)
    BY <1>1, FixedRead
  <1>4. CASE len.end # "ok"
    <2>1. r = len
      BY <1>1, <1>4 DEF ReadString
    <2> QED BY <1>2, <1>3, <1>4, <2>1
  <1>5. CASE len.end = "ok"
    <2>1. PICK c : c = len.b
      OBVIOUS
    <2>2. PICK n \in Nat : n = len.v
      BY <1>3, <1>5
    <2>3. PICK q : q = read(c, n, fill)
      OBVIOUS
    <2>4. r = [b |-> q.b, end |-> q.end, v |-> q.s]
      BY <1>1, <1>5, <2>1, <2>2, <2>3 DEF ReadString
    <2>5. ChainOK(c)
      BY <1>2, <2>1
    <2>6. ChainOK(q.b) /\ q.b.nodes = c.nodes /\ q.b.size = c.size
      BY <2>3, <2>5, ReadKeeps
    <2>7. q.end = "null" => q.b = c /\ AtCapacity(c)
      BY <2>3, <2>5, ReadEnds
    <2> QED BY <1>2, <2>1, <2>4, <2>6, <2>7
  <1> QED BY <1>4, <1>5

LEMMA StringReadBack ==
  ASSUME NEW b, ChainOK(b), m_endian \in {"big", "little"},
         NEW fill \in Byte, NEW r, r = ReadString(b, fill),
         NEW v \in Seq(Byte), Len(v) <= 15,
         Written(b.nodes, b.pos, Fixed(m_endian, Len(v))), Written(b.nodes, b.pos + 2, v),
         b.pos + 2 + Len(v) <= b.size
  PROVE  r.end = "null" \/ (r.end = "ok" /\ r.v = v)
  <1>1. PICK len : len = ReadFixed(b, fill)
    OBVIOUS
  <1>2. ChainOK(len.b) /\ len.b.nodes = b.nodes /\ len.b.size = b.size
    BY <1>1, FixedRead
  <1>3. PICK n : n = Len(v)
    OBVIOUS
  <1>4. n \in 0..15
    <2>1. n \in Nat /\ n <= 15
      BY <1>3
    <2> QED BY <2>1
  <1>5. b.pos \in Nat /\ b.size \in Nat
    BY DEF ChainOK, BaChain
  <1>6. b.pos + 2 <= b.size /\ Written(b.nodes, b.pos, Fixed(m_endian, n))
    BY <1>3, <1>5, <1>4
  <1>7. len.end = "ok" /\ len.v = n /\ len.b.pos = b.pos + 2
    BY <1>1, <1>6, <1>4, FixedReadBack
  <1>8. PICK c : c = len.b
    OBVIOUS
  <1>9. ChainOK(c) /\ Written(c.nodes, c.pos, v) /\ c.pos + Len(v) <= c.size
    BY <1>2, <1>3, <1>7, <1>8
  <1>10. PICK q : q = read(c, Len(v), fill)
    OBVIOUS
  <1>11. r = [b |-> q.b, end |-> q.end, v |-> q.s]
    BY <1>1, <1>3, <1>7, <1>8, <1>10 DEF ReadString
  <1>12. q.end \in {"ok", "null"}
    BY <1>9, <1>10, WrittenIsRead
  <1>13. q.end = "ok" => q.s = v
    BY <1>9, <1>10, WrittenIsRead
  <1> QED BY <1>11, <1>12, <1>13

(* The item v of that kind is in the bytes from at to to.                   *)
Holds(n, kind, e, v, at, to) ==
  \/ /\ kind = "fixed" /\ v \in 0..15
     /\ to = at + 2 /\ Written(n, at, Fixed(e, v))
  \/ /\ kind = "varint" /\ v \in 0..7
     /\ to = at + Len(EncodeVarint(v)) /\ Written(n, at, EncodeVarint(v))
  \/ /\ kind = "zigzag" /\ v \in -4..3
     /\ to = at + Len(EncodeVarint(EncodeZigzag(v)))
     /\ Written(n, at, EncodeVarint(EncodeZigzag(v)))
  \/ /\ kind = "string" /\ v \in Seq(Byte) /\ Len(v) <= 15
     /\ to = at + 2 + Len(v)
     /\ Written(n, at, Fixed(e, Len(v))) /\ Written(n, at + 2, v)

LEMMA GetKeeps ==
  ASSUME NEW b, ChainOK(b), m_endian \in {"big", "little"}, NEW kind \in ItemKinds,
         NEW fill \in Byte, NEW r, r = GetItem(b, kind, fill)
  PROVE  /\ ChainOK(r.b) /\ r.b.nodes = b.nodes /\ r.b.size = b.size
         /\ r.end = "null" => AtCapacity(r.b)
  <1>1. CASE kind = "fixed"
    <2>1. r = ReadFixed(b, fill)
      BY <1>1 DEF GetItem
    <2> QED BY <2>1, FixedRead
  <1>2. CASE kind = "varint"
    <2>1. r = ReadVarint(b, fill)
      BY <1>2 DEF GetItem
    <2>2. InVarint(r, b)
      BY <2>1, VarintRead
    <2> QED BY <2>2 DEF InVarint
  <1>3. CASE kind = "zigzag"
    <2>1. PICK q : q = ReadVarint(b, fill)
      OBVIOUS
    <2>2. r = [b |-> q.b, end |-> q.end, v |-> DecodeZigzag(q.v)]
      BY <1>3, <2>1 DEF GetItem
    <2>3. InVarint(q, b)
      BY <2>1, VarintRead
    <2> QED BY <2>2, <2>3 DEF InVarint
  <1>4. CASE kind = "string"
    <2>1. r = ReadString(b, fill)
      BY <1>4 DEF GetItem
    <2> QED BY <2>1, StringRead
  <1> QED BY <1>1, <1>2, <1>3, <1>4 DEF ItemKinds

LEMMA GetBack ==
  ASSUME NEW b, ChainOK(b), m_endian \in {"big", "little"}, NEW kind \in ItemKinds,
         NEW fill \in Byte, NEW r, r = GetItem(b, kind, fill),
         NEW v, NEW to, Holds(b.nodes, kind, m_endian, v, b.pos, to), to <= b.size
  PROVE  r.end = "null" \/ (r.end = "ok" /\ r.v = v)
  <1>1. CASE kind = "fixed"
    <2>1. r = ReadFixed(b, fill)
      BY <1>1 DEF GetItem
    <2>2. v \in 0..15 /\ to = b.pos + 2 /\ Written(b.nodes, b.pos, Fixed(m_endian, v))
      BY <1>1 DEF Holds
    <2>3. b.pos + 2 <= b.size
      BY <2>2
    <2> QED BY <2>1, <2>2, <2>3, FixedReadBack
  <1>2. CASE kind = "varint"
    <2>1. r = ReadVarint(b, fill)
      BY <1>2 DEF GetItem
    <2>2. PICK e : e = EncodeVarint(v)
      OBVIOUS
    <2>3. v \in 0..7 /\ to = b.pos + Len(e) /\ Written(b.nodes, b.pos, e)
      BY <1>2, <2>2 DEF Holds
    <2>4. b.pos + Len(e) <= b.size
      BY <2>3
    <2> QED BY <2>1, <2>2, <2>3, <2>4, VarintReadBack
  <1>3. CASE kind = "zigzag"
    <2>1. PICK q : q = ReadVarint(b, fill)
      OBVIOUS
    <2>2. r = [b |-> q.b, end |-> q.end, v |-> DecodeZigzag(q.v)]
      BY <1>3, <2>1 DEF GetItem
    <2>3. PICK z : z = EncodeZigzag(v)
      OBVIOUS
    <2>4. PICK e : e = EncodeVarint(z)
      OBVIOUS
    <2>5. v \in -4..3 /\ to = b.pos + Len(e) /\ Written(b.nodes, b.pos, e)
      BY <1>3, <2>3, <2>4 DEF Holds
    <2>6. b.pos + Len(e) <= b.size
      BY <2>5
    <2>7. z \in 0..7 /\ DecodeZigzag(z) = v
      BY <2>3, <2>5, ZigzagBytes
    <2>8. Written(b.nodes, b.pos, e) /\ z \in 0..7
      BY <2>5, <2>7
    <2>9. q.end = "ok" /\ q.v = z
      BY <2>1, <2>4, <2>6, <2>8, VarintReadBack
    <2> QED BY <2>2, <2>7, <2>9
  <1>4. CASE kind = "string"
    <2>1. r = ReadString(b, fill)
      BY <1>4 DEF GetItem
    <2>2. /\ v \in Seq(Byte) /\ Len(v) <= 15 /\ to = b.pos + 2 + Len(v)
          /\ Written(b.nodes, b.pos, Fixed(m_endian, Len(v))) /\ Written(b.nodes, b.pos + 2, v)
      BY <1>4 DEF Holds
    <2>3. b.pos + 2 + Len(v) <= b.size
      BY <2>2
    <2> QED BY <2>1, <2>2, <2>3, StringReadBack
  <1> QED BY <1>1, <1>2, <1>3, <1>4 DEF ItemKinds

-----------------------------------------------------------------------------
(* Putting.                                                                 *)

LEMMA FixedLength ==
  ASSUME NEW v \in 0..15, NEW e
  PROVE  Fixed(e, v) \in Seq(Byte) /\ Len(Fixed(e, v)) = 2
  <1>1. v % 4 \in Byte /\ v \div 4 \in Byte
    BY DEF Byte
  <1>2. CASE e = "little"
    BY <1>1, <1>2 DEF Fixed
  <1>3. CASE e # "little"
    <2>1. Fixed(e, v) = <<v \div 4, v % 4>>
      BY <1>1, <1>3, ReversePair DEF Fixed
    <2> QED BY <1>1, <2>1
  <1> QED BY <1>2, <1>3

LEMMA WrittenKept ==
  ASSUME NEW n, NEW n2, NEW at \in Nat, NEW to \in Nat, NEW s \in Seq(Byte),
         at + Len(s) <= to, \A a \in Nat : at <= a /\ a < to => Mem(n2, a) = Mem(n, a),
         Written(n, at, s)
  PROVE  Written(n2, at, s)
  <1>1. ASSUME NEW k \in 1..Len(s) PROVE Mem(n2, at + k - 1) = s[k]
    <2>1. PICK a \in Nat : a = at + k - 1
      OBVIOUS
    <2>2. at <= a /\ a < to
      BY <2>1
    <2>3. Mem(n2, a) = Mem(n, a)
      BY <2>2
    <2>4. Mem(n, at + k - 1) = s[k]
      BY DEF Written
    <2> QED BY <2>1, <2>3, <2>4
  <1> QED BY <1>1 DEF Written

LEMMA HoldsKept ==
  ASSUME NEW n, NEW n2, NEW at \in Nat, NEW to \in Nat, NEW kind, NEW e, NEW v,
         \A a \in Nat : at <= a /\ a < to => Mem(n2, a) = Mem(n, a),
         Holds(n, kind, e, v, at, to)
  PROVE  Holds(n2, kind, e, v, at, to)
  <1>1. CASE kind = "fixed" /\ v \in 0..15 /\ to = at + 2 /\ Written(n, at, Fixed(e, v))
    <2>1. PICK s : s = Fixed(e, v)
      OBVIOUS
    <2>2. s \in Seq(Byte) /\ Len(s) = 2
      BY <1>1, <2>1, FixedLength
    <2>3. at + Len(s) <= to /\ Written(n, at, s)
      BY <1>1, <2>1, <2>2
    <2>4. Written(n2, at, s)
      BY <2>2, <2>3, WrittenKept
    <2> QED BY <1>1, <2>1, <2>4 DEF Holds
  <1>2. CASE /\ kind = "varint" /\ v \in 0..7
             /\ to = at + Len(EncodeVarint(v)) /\ Written(n, at, EncodeVarint(v))
    <2>1. PICK s : s = EncodeVarint(v)
      OBVIOUS
    <2>2. s \in Seq(Byte)
      BY <1>2, <2>1, VarintBytes
    <2>3. at + Len(s) <= to /\ Written(n, at, s)
      BY <1>2, <2>1, <2>2
    <2>4. Written(n2, at, s)
      BY <2>2, <2>3, WrittenKept
    <2> QED BY <1>2, <2>1, <2>4 DEF Holds
  <1>3. CASE /\ kind = "zigzag" /\ v \in -4..3
             /\ to = at + Len(EncodeVarint(EncodeZigzag(v)))
             /\ Written(n, at, EncodeVarint(EncodeZigzag(v)))
    <2>1. PICK z : z = EncodeZigzag(v)
      OBVIOUS
    <2>2. PICK s : s = EncodeVarint(z)
      OBVIOUS
    <2>3. z \in 0..7
      BY <1>3, <2>1, ZigzagBytes
    <2>4. s \in Seq(Byte)
      BY <2>2, <2>3, VarintBytes
    <2>5. at + Len(s) <= to /\ Written(n, at, s)
      BY <1>3, <2>1, <2>2, <2>4
    <2>6. Written(n2, at, s)
      BY <2>4, <2>5, WrittenKept
    <2> QED BY <1>3, <2>1, <2>2, <2>6 DEF Holds
  <1>4. CASE /\ kind = "string" /\ v \in Seq(Byte) /\ Len(v) <= 15
             /\ to = at + 2 + Len(v)
             /\ Written(n, at, Fixed(e, Len(v))) /\ Written(n, at + 2, v)
    <2>1. PICK l \in Nat : l = Len(v)
      BY <1>4
    <2>2. l \in 0..15
      <3>1. l <= 15
        BY <1>4, <2>1
      <3> QED BY <3>1
    <2>3. PICK s : s = Fixed(e, l)
      OBVIOUS
    <2>4. s \in Seq(Byte) /\ Len(s) = 2
      BY <2>2, <2>3, FixedLength
    <2>5. at + Len(s) <= to /\ Written(n, at, s)
      BY <1>4, <2>1, <2>3, <2>4
    <2>6. Written(n2, at, s)
      BY <2>4, <2>5, WrittenKept
    <2>7. PICK p \in Nat : p = at + 2
      OBVIOUS
    <2>8. \A a \in Nat : p <= a /\ a < to => Mem(n2, a) = Mem(n, a)
      BY <2>7
    <2>9. p + Len(v) <= to /\ Written(n, p, v) /\ v \in Seq(Byte)
      BY <1>4, <2>1, <2>7
    <2>10. Written(n2, p, v)
      BY <2>8, <2>9, WrittenKept
    <2> QED BY <1>4, <2>1, <2>3, <2>6, <2>7, <2>10 DEF Holds
  <1> QED BY <1>1, <1>2, <1>3, <1>4 DEF Holds

LEMMA RestKeptTwice ==
  ASSUME NEW n \in Seq(BaBlock), NEW n1 \in Seq(BaBlock), NEW n2, Len(n) <= Len(n1),
         NEW p \in Nat, NEW p1 \in Nat, NEW p2 \in Nat, p <= p1, p1 <= p2,
         KeepsRest(n, n1, p, p1), KeepsRest(n1, n2, p1, p2)
  PROVE  KeepsRest(n, n2, p, p2)
  <1>1. ASSUME NEW a \in Nat, a < Len(n) * BaseSize, ~(p <= a /\ a < p2)
        PROVE  Mem(n2, a) = Mem(n, a)
    <2>1. a < Len(n1) * BaseSize
      <3>1. Len(n) \in Nat /\ Len(n1) \in Nat
        OBVIOUS
      <3> QED BY <1>1, <3>1, CapacityGrows
    <2>2. ~(p <= a /\ a < p1) /\ ~(p1 <= a /\ a < p2)
      BY <1>1
    <2>3. Mem(n1, a) = Mem(n, a)
      BY <1>1, <2>2 DEF KeepsRest
    <2>4. Mem(n2, a) = Mem(n1, a)
      BY <2>1, <2>2 DEF KeepsRest
    <2> QED BY <2>3, <2>4
  <1> QED BY <1>1 DEF KeepsRest

(* One write() of an item.                                                  *)
LEMMA PutOnce ==
  ASSUME NEW b, ChainOK(b), NEW s \in Seq(Byte), NEW w, w = write(b, s)
  PROVE  /\ ChainOK(w) /\ b.size <= w.size /\ b.pos <= w.pos /\ w.pos = b.pos + Len(s)
         /\ Written(w.nodes, b.pos, s) /\ KeepsRest(b.nodes, w.nodes, b.pos, w.pos)
         /\ Len(b.nodes) <= Len(w.nodes)
  <1>1. b.pos \in Nat /\ Len(s) \in Nat
    BY DEF ChainOK, BaChain
  <1>2. /\ ChainOK(w) /\ b.size <= w.size /\ w.pos = b.pos + Len(s)
        /\ Written(w.nodes, b.pos, s) /\ KeepsRest(b.nodes, w.nodes, b.pos, w.pos)
        /\ Len(b.nodes) <= Len(w.nodes)
    BY BytesWritten
  <1> QED BY <1>1, <1>2

LEMMA PutHolds ==
  ASSUME NEW b, ChainOK(b), m_endian \in {"big", "little"}, NEW kind \in ItemKinds,
         NEW v \in Values(kind), NEW w, w = PutItem(b, kind, v)
  PROVE  /\ ChainOK(w) /\ b.size <= w.size /\ b.pos <= w.pos
         /\ Holds(w.nodes, kind, m_endian, v, b.pos, w.pos)
         /\ KeepsRest(b.nodes, w.nodes, b.pos, w.pos)
  <1>1. CASE kind = "fixed"
    <2>1. v \in 0..15
      BY <1>1, BaAssumption DEF Values
    <2>2. PICK s : s = Fixed(m_endian, v)
      OBVIOUS
    <2>3. s \in Seq(Byte) /\ Len(s) = 2 /\ s = EncodeFixed(v)
      BY <2>1, <2>2, FixedBytes
    <2>4. w = write(b, s)
      BY <1>1, <2>3 DEF PutItem
    <2>5. /\ ChainOK(w) /\ b.size <= w.size /\ b.pos <= w.pos /\ w.pos = b.pos + Len(s)
          /\ Written(w.nodes, b.pos, s) /\ KeepsRest(b.nodes, w.nodes, b.pos, w.pos)
      BY <2>3, <2>4, PutOnce
    <2> QED BY <1>1, <2>1, <2>2, <2>3, <2>5 DEF Holds
  <1>2. CASE kind = "varint"
    <2>1. v \in 0..7
      BY <1>2, BaAssumption DEF Values
    <2>2. PICK s : s = EncodeVarint(v)
      OBVIOUS
    <2>3. s \in Seq(Byte)
      BY <2>1, <2>2, VarintBytes
    <2>4. w = write(b, s)
      BY <1>2, <2>2 DEF PutItem
    <2>5. /\ ChainOK(w) /\ b.size <= w.size /\ b.pos <= w.pos /\ w.pos = b.pos + Len(s)
          /\ Written(w.nodes, b.pos, s) /\ KeepsRest(b.nodes, w.nodes, b.pos, w.pos)
      BY <2>3, <2>4, PutOnce
    <2> QED BY <1>2, <2>1, <2>2, <2>5 DEF Holds
  <1>3. CASE kind = "zigzag"
    <2>1. v \in -4..3
      BY <1>3, BaAssumption DEF Values
    <2>2. PICK z : z = EncodeZigzag(v)
      OBVIOUS
    <2>3. PICK s : s = EncodeVarint(z)
      OBVIOUS
    <2>4. z \in 0..7
      BY <2>1, <2>2, ZigzagBytes
    <2>5. s \in Seq(Byte)
      BY <2>3, <2>4, VarintBytes
    <2>6. w = write(b, s)
      BY <1>3, <2>2, <2>3 DEF PutItem
    <2>7. /\ ChainOK(w) /\ b.size <= w.size /\ b.pos <= w.pos /\ w.pos = b.pos + Len(s)
          /\ Written(w.nodes, b.pos, s) /\ KeepsRest(b.nodes, w.nodes, b.pos, w.pos)
      BY <2>5, <2>6, PutOnce
    <2> QED BY <1>3, <2>1, <2>2, <2>3, <2>7 DEF Holds
  <1>4. CASE kind = "string"
    <2>1. v \in Seq(Byte) /\ Len(v) <= 15 /\ Len(v) \in 0..15
      <3>1. v \in StringValues
        BY <1>4 DEF Values
      <3>2. v \in Seq(Byte) /\ Len(v) <= 15
        BY <3>1, BaAssumption
      <3>3. PICK k \in Nat : k = Len(v)
        BY <3>2
      <3>4. k \in 0..15
        <4>1. k <= 15
          BY <3>2, <3>3
        <4> QED BY <4>1
      <3> QED BY <3>2, <3>3, <3>4
    <2>2. PICK l \in 0..15 : l = Len(v)
      BY <2>1
    <2>3. PICK s : s = Fixed(m_endian, l)
      OBVIOUS
    <2>4. s \in Seq(Byte) /\ Len(s) = 2 /\ s = EncodeFixed(l)
      BY <2>2, <2>3, FixedBytes
    <2>5. PICK u : u = write(b, s)
      OBVIOUS
    <2>6. w = write(u, v)
      BY <1>4, <2>2, <2>4, <2>5 DEF PutItem
    <2>7. /\ ChainOK(u) /\ b.size <= u.size /\ b.pos <= u.pos /\ u.pos = b.pos + Len(s)
          /\ Written(u.nodes, b.pos, s) /\ KeepsRest(b.nodes, u.nodes, b.pos, u.pos)
          /\ Len(b.nodes) <= Len(u.nodes)
      BY <2>4, <2>5, PutOnce
    <2>8. /\ ChainOK(w) /\ u.size <= w.size /\ u.pos <= w.pos /\ w.pos = u.pos + Len(v)
          /\ Written(w.nodes, u.pos, v) /\ KeepsRest(u.nodes, w.nodes, u.pos, w.pos)
      <3>1. ChainOK(u) /\ v \in Seq(Byte)
        BY <2>1, <2>7
      <3> QED BY <2>6, <3>1, PutOnce
    <2>9. /\ b.nodes \in Seq(BaBlock) /\ u.nodes \in Seq(BaBlock)
          /\ b.pos \in Nat /\ u.pos \in Nat /\ w.pos \in Nat
          /\ b.size \in Nat /\ u.size \in Nat /\ w.size \in Nat
          /\ u.pos <= u.size /\ u.size <= Len(u.nodes) * BaseSize /\ Len(u.nodes) \in Nat
      BY <2>7, <2>8 DEF ChainOK, BaChain
    <2>10. KeepsRest(b.nodes, w.nodes, b.pos, w.pos)
      BY <2>7, <2>8, <2>9, RestKeptTwice
    <2>11. Written(w.nodes, b.pos, s)
      <3>1. ASSUME NEW a \in Nat, b.pos <= a, a < u.pos PROVE Mem(w.nodes, a) = Mem(u.nodes, a)
        <4>1. PICK cap \in Nat : cap = Len(u.nodes) * BaseSize
          BY <2>9, CapacityIsNat
        <4>2. a < cap /\ ~(u.pos <= a /\ a < w.pos)
          BY <2>9, <3>1, <4>1
        <4> QED BY <2>8, <4>1, <4>2 DEF KeepsRest
      <3>2. b.pos + Len(s) <= u.pos
        <4>1. u.pos = b.pos + Len(s) /\ u.pos \in Nat
          BY <2>7, <2>9
        <4> QED BY <4>1
      <3>3. \A a \in Nat : b.pos <= a /\ a < u.pos => Mem(w.nodes, a) = Mem(u.nodes, a)
        BY <3>1
      <3>4. s \in Seq(Byte) /\ b.pos \in Nat /\ u.pos \in Nat /\ Written(u.nodes, b.pos, s)
        BY <2>4, <2>7, <2>9
      <3> QED BY <3>2, <3>3, <3>4, WrittenKept
    <2>12. Holds(w.nodes, kind, m_endian, v, b.pos, w.pos)
      <3>1. u.pos = b.pos + 2 /\ w.pos = b.pos + 2 + Len(v)
        BY <2>1, <2>4, <2>7, <2>8, <2>9
      <3>2. Written(w.nodes, b.pos + 2, v)
        BY <2>8, <3>1
      <3>3. Written(w.nodes, b.pos, Fixed(m_endian, Len(v)))
        BY <2>2, <2>3, <2>11
      <3> QED BY <1>4, <2>1, <3>1, <3>2, <3>3 DEF Holds
    <2> QED BY <2>7, <2>8, <2>9, <2>10, <2>12
  <1> QED BY <1>1, <1>2, <1>3, <1>4 DEF ItemKinds

-----------------------------------------------------------------------------
(* The invariant.                                                           *)

(* What was put and not overwritten since is in the bytes, all of them       *)
(* within m_size.                                                            *)
ItemTrue(n, size, i) ==
  /\ i.at \in Nat /\ i.to \in Nat /\ i.to <= size
  /\ \E v : i.v = AsSeq(i.kind, v) /\ Holds(n, i.kind, i.endian, v, i.at, i.to)

ItemsTrue == \A i \in items : ItemTrue(nodes, m_size, i)

BaInv ==
  /\ ChainOK(Chain)
  /\ m_endian \in {"big", "little"}
  /\ ItemsTrue
  /\ ~misread
  /\ fault => AtCapacity(Chain)

LEMMA ItemKept ==
  ASSUME NEW b, ChainOK(b), NEW n2, NEW size2 \in Nat, b.size <= size2,
         NEW from \in Nat, NEW to \in Nat, KeepsRest(b.nodes, n2, from, to),
         NEW i, ItemTrue(b.nodes, b.size, i), ~(i.at < to /\ from < i.to)
  PROVE  ItemTrue(n2, size2, i)
  <1>1. /\ b.nodes \in Seq(BaBlock) /\ Len(b.nodes) \in Nat /\ b.size \in Nat
        /\ b.size <= Len(b.nodes) * BaseSize
    BY DEF ChainOK, BaChain
  <1>2. i.at \in Nat /\ i.to \in Nat /\ i.to <= b.size
    BY DEF ItemTrue
  <1>3. PICK v : i.v = AsSeq(i.kind, v) /\ Holds(b.nodes, i.kind, i.endian, v, i.at, i.to)
    BY DEF ItemTrue
  <1>4. PICK cap \in Nat : cap = Len(b.nodes) * BaseSize
    BY <1>1, CapacityIsNat
  <1>5. ASSUME NEW a \in Nat, i.at <= a, a < i.to PROVE Mem(n2, a) = Mem(b.nodes, a)
    <2>1. a < cap /\ ~(from <= a /\ a < to)
      BY <1>1, <1>2, <1>4, <1>5
    <2> QED BY <1>4, <2>1 DEF KeepsRest
  <1>6. \A a \in Nat : i.at <= a /\ a < i.to => Mem(n2, a) = Mem(b.nodes, a)
    BY <1>5
  <1>7. i.at \in Nat /\ i.to \in Nat /\ Holds(b.nodes, i.kind, i.endian, v, i.at, i.to)
    BY <1>2, <1>3
  <1>8. Holds(n2, i.kind, i.endian, v, i.at, i.to)
    BY <1>6, <1>7, HoldsKept
  <1>9. i.to <= size2
    BY <1>1, <1>2
  <1> QED BY <1>2, <1>3, <1>8, <1>9 DEF ItemTrue

LEMMA ChainParts ==
  /\ Chain.nodes = nodes /\ Chain.cur = m_cur /\ Chain.pos = m_position /\ Chain.size = m_size
  BY DEF Chain

(* The chain after a step is the one that was computed.                     *)
LEMMA ChainSet ==
  ASSUME NEW b, ChainOK(b), SetChain(b)
  PROVE  Chain' = b
  <1>1. b = [nodes |-> b.nodes, cur |-> b.cur, pos |-> b.pos, size |-> b.size]
    BY DEF ChainOK, BaChain
  <1> QED BY <1>1 DEF Chain, SetChain

LEMMA PutKeeps ==
  ASSUME BaInv, ~fault, NEW kind \in ItemKinds, NEW v \in Values(kind), Put(kind, v)
  PROVE  BaInv'
  <1>1. PICK c : c = Chain
    OBVIOUS
  <1>2. ChainOK(c) /\ c.nodes = nodes /\ c.pos = m_position /\ c.size = m_size
    BY <1>1, ChainParts DEF BaInv
  <1>3. PICK w : w = PutItem(c, kind, v)
    OBVIOUS
  <1>4. /\ SetChain(w)
        /\ items' = (items \ Overwritten(m_position, w.pos))
                      \cup {[kind |-> kind, v |-> AsSeq(kind, v), at |-> m_position, to |-> w.pos,
                             endian |-> m_endian]}
        /\ m_endian' = m_endian /\ misread' = misread /\ fault' = fault
    BY <1>1, <1>3 DEF Put
  <1>5. m_endian \in {"big", "little"} /\ ItemsTrue /\ ~misread
    BY DEF BaInv
  <1>6. /\ ChainOK(w) /\ c.size <= w.size /\ c.pos <= w.pos
        /\ Holds(w.nodes, kind, m_endian, v, c.pos, w.pos)
        /\ KeepsRest(c.nodes, w.nodes, c.pos, w.pos)
    BY <1>2, <1>3, <1>5, PutHolds
  <1>7. Chain' = w /\ nodes' = w.nodes /\ m_size' = w.size
    BY <1>4, <1>6, ChainSet DEF SetChain
  <1>8. /\ c.pos \in Nat /\ w.pos \in Nat /\ w.size \in Nat /\ w.pos <= w.size
    BY <1>2, <1>6 DEF ChainOK, BaChain
  <1>9. ASSUME NEW i \in items' PROVE ItemTrue(w.nodes, w.size, i)
    <2>1. CASE i \in items /\ i \notin Overwritten(m_position, w.pos)
      <3>1. ItemTrue(c.nodes, c.size, i)
        BY <1>2, <1>5, <2>1 DEF ItemsTrue
      <3>2. ~(i.at < w.pos /\ c.pos < i.to)
        BY <1>2, <2>1 DEF Overwritten
      <3>3. ChainOK(c) /\ c.size <= w.size /\ KeepsRest(c.nodes, w.nodes, c.pos, w.pos)
        BY <1>2, <1>6
      <3> QED BY <1>8, <3>1, <3>2, <3>3, ItemKept
    <2>2. CASE i = [kind |-> kind, v |-> AsSeq(kind, v), at |-> m_position, to |-> w.pos,
                    endian |-> m_endian]
      <3>1. /\ i.kind = kind /\ i.v = AsSeq(kind, v) /\ i.at = c.pos /\ i.to = w.pos
            /\ i.endian = m_endian
        BY <1>2, <2>2
      <3>2. i.v = AsSeq(i.kind, v) /\ Holds(w.nodes, i.kind, i.endian, v, i.at, i.to)
        BY <1>6, <3>1
      <3> QED BY <1>8, <3>1, <3>2 DEF ItemTrue
    <2> QED BY <1>4, <2>1, <2>2
  <1>10. ItemsTrue'
    BY <1>7, <1>9 DEF ItemsTrue
  <1>11. ChainOK(Chain')
    BY <1>6, <1>7
  <1> QED BY <1>4, <1>5, <1>10, <1>11 DEF BaInv

LEMMA GetKeepsInv ==
  ASSUME BaInv, ~fault, NEW kind \in ItemKinds, Get(kind)
  PROVE  BaInv'
  <1>1. PICK c : c = Chain
    OBVIOUS
  <1>2. /\ ChainOK(c) /\ c.nodes = nodes /\ c.pos = m_position /\ c.size = m_size
        /\ m_endian \in {"big", "little"} /\ ItemsTrue /\ ~misread
    BY <1>1, ChainParts DEF BaInv
  <1>3. PICK fill \in Byte :
          LET r == GetItem(Chain, kind, fill)
          IN /\ SetChain(r.b)
             /\ fault' = (r.end = "null")
             /\ misread' = (misread \/ \E i \in items :
                  /\ i.kind = kind /\ i.at = m_position /\ i.endian = m_endian
                  /\ r.end # "null" /\ (r.end = "throw" \/ AsSeq(kind, r.v) # i.v))
    BY DEF Get
  <1>4. m_endian' = m_endian /\ items' = items
    BY DEF Get
  <1>5. PICK r : r = GetItem(c, kind, fill)
    OBVIOUS
  <1>6. /\ SetChain(r.b)
        /\ fault' = (r.end = "null")
        /\ misread' = (misread \/ \E i \in items :
             /\ i.kind = kind /\ i.at = m_position /\ i.endian = m_endian
             /\ r.end # "null" /\ (r.end = "throw" \/ AsSeq(kind, r.v) # i.v))
    BY <1>1, <1>3, <1>5
  <1>7. /\ ChainOK(r.b) /\ r.b.nodes = c.nodes /\ r.b.size = c.size
        /\ r.end = "null" => AtCapacity(r.b)
    BY <1>2, <1>5, GetKeeps
  <1>8. SetChain(r.b) /\ ChainOK(r.b)
    BY <1>6, <1>7
  <1>9. Chain' = r.b /\ nodes' = nodes /\ m_size' = m_size
    BY <1>2, <1>7, <1>8, ChainSet DEF SetChain
  <1>10. ItemsTrue'
    BY <1>2, <1>4, <1>9 DEF ItemsTrue
  <1>11. ASSUME NEW i \in items, i.kind = kind, i.at = m_position, i.endian = m_endian
         PROVE  r.end = "null" \/ (r.end = "ok" /\ AsSeq(kind, r.v) = i.v)
    <2>1. ItemTrue(nodes, m_size, i)
      BY <1>2 DEF ItemsTrue
    <2>2. i.to <= c.size
      BY <1>2, <2>1 DEF ItemTrue
    <2>3. PICK v : i.v = AsSeq(kind, v) /\ Holds(c.nodes, kind, m_endian, v, c.pos, i.to)
      BY <1>2, <1>11, <2>1 DEF ItemTrue
    <2>4. Holds(c.nodes, kind, m_endian, v, c.pos, i.to) /\ ChainOK(c) /\ m_endian \in {"big", "little"}
      BY <1>2, <2>3
    <2>5. r.end = "null" \/ (r.end = "ok" /\ r.v = v)
      BY <1>5, <2>2, <2>4, GetBack
    <2> QED BY <2>3, <2>5
  <1>12. ~misread'
    <2>1. ASSUME NEW i \in items, i.kind = kind, i.at = m_position, i.endian = m_endian,
                 r.end # "null", r.end = "throw" \/ AsSeq(kind, r.v) # i.v
          PROVE  FALSE
      BY <1>11, <2>1
    <2> QED BY <1>2, <1>6, <2>1, Zenon
  <1>13. fault' => AtCapacity(Chain')
    BY <1>6, <1>7, <1>9
  <1>14. ChainOK(Chain')
    BY <1>7, <1>9
  <1> QED BY <1>2, <1>4, <1>10, <1>12, <1>13, <1>14 DEF BaInv

LEMMA PositionSet ==
  ASSUME NEW b, b \in BaChain, b.nodes # <<>>, b.size <= Len(b.nodes) * BaseSize,
         NEW v \in Nat, v <= Len(b.nodes) * BaseSize, NEW w, w = SetPosition(b, v)
  PROVE  ChainOK(w) /\ w.nodes = b.nodes /\ b.size <= w.size
  <1>1. b.nodes \in Seq(BaBlock) /\ b.size \in Nat /\ Len(b.nodes) \in Nat
    BY DEF BaChain
  <1>2. w = [nodes |-> b.nodes, pos |-> v, size |-> Larger(b.size, v),
             cur |-> BlockOrNull(b.nodes, (v \div BaseSize) + 1)]
    BY DEF SetPosition, BaChain
  <1>3. (v \div BaseSize) + 1 \in Nat
    <2>1. v \div BaseSize \in Nat
      BY BlockAndOffset
    <2> QED BY <2>1
  <1>4. /\ Larger(b.size, v) \in Nat /\ b.size <= Larger(b.size, v) /\ v <= Larger(b.size, v)
        /\ Larger(b.size, v) <= Len(b.nodes) * BaseSize
    <2>1. PICK cap \in Nat : cap = Len(b.nodes) * BaseSize
      BY <1>1, CapacityIsNat
    <2> QED BY <1>1, <2>1 DEF Larger
  <1>5. w \in BaChain
    BY <1>1, <1>2, <1>3, <1>4 DEF BaChain, BlockOrNull, NULL
  <1> QED BY <1>2, <1>4, <1>5 DEF ChainOK

LEMMA SetPositionKeeps ==
  ASSUME BaInv, ~fault, NEW v \in Nat, SetPositionTo(v)
  PROVE  BaInv'
  <1>1. PICK c : c = Chain
    OBVIOUS
  <1>2. /\ ChainOK(c) /\ c.nodes = nodes /\ c.pos = m_position /\ c.size = m_size
        /\ m_endian \in {"big", "little"} /\ ItemsTrue /\ ~misread
    BY <1>1, ChainParts DEF BaInv
  <1>3. PICK w : w = SetPosition(c, v)
    OBVIOUS
  <1>4. /\ v \in 0..(Len(nodes) * BaseSize) /\ SetChain(w)
        /\ m_endian' = m_endian /\ items' = items /\ misread' = misread /\ fault' = fault
    BY <1>1, <1>3 DEF SetPositionTo
  <1>5. /\ c \in BaChain /\ c.nodes # <<>> /\ c.size <= Len(c.nodes) * BaseSize
        /\ v <= Len(c.nodes) * BaseSize
    <2>1. v <= Len(c.nodes) * BaseSize
      BY <1>2, <1>4
    <2> QED BY <1>2, <2>1 DEF ChainOK
  <1>6. ChainOK(w) /\ w.nodes = c.nodes /\ c.size <= w.size
    BY <1>3, <1>5, PositionSet
  <1>7. Chain' = w /\ nodes' = nodes /\ m_size' = w.size
    BY <1>2, <1>4, <1>6, ChainSet DEF SetChain
  <1>8. w.size \in Nat /\ c.size \in Nat
    BY <1>2, <1>6 DEF ChainOK, BaChain
  <1>9. ASSUME NEW i \in items PROVE ItemTrue(nodes, w.size, i)
    <2>1. ItemTrue(nodes, c.size, i)
      BY <1>2 DEF ItemsTrue
    <2> QED BY <1>6, <1>8, <2>1 DEF ItemTrue
  <1>10. ItemsTrue'
    BY <1>4, <1>7, <1>9 DEF ItemsTrue
  <1>11. ChainOK(Chain')
    BY <1>6, <1>7
  <1> QED BY <1>2, <1>4, <1>10, <1>11 DEF BaInv

LEMMA ClearKeeps ==
  ASSUME BaInv, ~fault, Clear
  PROVE  BaInv'
  <1>1. PICK b : b = [nodes |-> <<nodes[1]>>, cur |-> 1, pos |-> 0, size |-> 0]
    OBVIOUS
  <1>2. /\ SetChain(b) /\ items' = {}
        /\ m_endian' = m_endian /\ misread' = misread /\ fault' = fault
    BY <1>1 DEF Clear
  <1>3. nodes \in Seq(BaBlock) /\ nodes # <<>>
    BY ChainParts DEF BaInv, ChainOK, BaChain
  <1>4. nodes[1] \in BaBlock
    BY <1>3
  <1>5. ChainOK(b)
    <2>1. b.nodes \in Seq(BaBlock) /\ Len(b.nodes) = 1 /\ b.nodes # <<>>
      BY <1>1, <1>4
    <2>2. 0 \div BaseSize = 0 /\ 0 <= 1 * BaseSize
      BY BaseSizeIsNat
    <2>3. BlockOrNull(b.nodes, (0 \div BaseSize) + 1) = 1
      BY <2>1, <2>2 DEF BlockOrNull
    <2>4. b \in BaChain
      BY <1>1, <2>1 DEF BaChain
    <2> QED BY <1>1, <2>1, <2>2, <2>3, <2>4 DEF ChainOK
  <1>6. Chain' = b
    BY <1>2, <1>5, ChainSet
  <1>7. ItemsTrue'
    BY <1>2 DEF ItemsTrue
  <1>8. ChainOK(Chain')
    BY <1>5, <1>6
  <1> QED BY <1>2, <1>7, <1>8 DEF BaInv

(* Blocks added behind do not touch what was there.                         *)
LEMMA CapacityKeepsRest ==
  ASSUME NEW b, ChainOK(b), NEW n \in Nat, NEW c, c = addCapacity(b, n), NEW from, NEW to
  PROVE  KeepsRest(b.nodes, c.nodes, from, to)
  <1>1. \A i \in 1..Len(b.nodes) : c.nodes[i] = b.nodes[i]
    BY CapacityAdded
  <1>2. b.nodes \in Seq(BaBlock)
    BY DEF ChainOK, BaChain
  <1>3. ASSUME NEW a \in Nat, a < Len(b.nodes) * BaseSize
        PROVE  Mem(c.nodes, a) = Mem(b.nodes, a)
    BY <1>1, <1>2, <1>3, SameMemory
  <1> QED BY <1>3 DEF KeepsRest

(* What recv() put in the blocks, of which got bytes have arrived.          *)
LEMMA BytesReceived ==
  ASSUME NEW c, ChainOK(c), NEW n \in Nat, n > 0, NEW m \in Nat, m > 0, m <= n,
         NEW b, b = addCapacity(c, n), NEW s \in Seq(Byte), Len(s) = m,
         NEW w, w = SetPosition([b EXCEPT !.nodes = CopyIn(b, s)], b.pos + m)
  PROVE  /\ ChainOK(w) /\ c.size <= w.size
         /\ KeepsRest(c.nodes, w.nodes, c.pos, c.pos + m)
  <1>1. /\ c \in BaChain /\ c.nodes \in Seq(BaBlock) /\ Len(c.nodes) \in Nat
        /\ c.pos \in Nat /\ c.size \in Nat
    BY DEF ChainOK, BaChain
  <1>2. /\ ChainOK(b)
        /\ b.pos = c.pos /\ b.size = c.size /\ Len(c.nodes) <= Len(b.nodes)
        /\ c.pos + n <= Len(b.nodes) * BaseSize
    BY CapacityAdded
  <1>3. b.cur = (b.pos \div BaseSize) + 1
    BY <1>2, CapacityAdded
  <1>4. /\ b \in BaChain /\ b.nodes \in Seq(BaBlock) /\ b.nodes # <<>> /\ Len(b.nodes) \in Nat
        /\ b.size <= Len(b.nodes) * BaseSize /\ b.pos \in Nat
    BY <1>2 DEF ChainOK, BaChain
  <1>5. PICK n2 : n2 = CopyIn(b, s)
    OBVIOUS
  <1>6. /\ n2 \in Seq(BaBlock) /\ Len(n2) = Len(b.nodes)
        /\ \A a \in Nat : a < Len(b.nodes) * BaseSize =>
              /\ b.pos <= a /\ a < b.pos + Len(s) => Mem(n2, a) = s[(a - b.pos) + 1]
              /\ ~(b.pos <= a /\ a < b.pos + Len(s)) => Mem(n2, a) = Mem(b.nodes, a)
    BY <1>3, <1>4, <1>5, CopiedIn
  <1>7. PICK d : d = [b EXCEPT !.nodes = n2]
    OBVIOUS
  <1>8. d \in BaChain /\ d.nodes = n2 /\ d.size = c.size
    BY <1>2, <1>4, <1>6, <1>7 DEF BaChain
  <1>9. d.nodes # <<>> /\ d.size <= Len(d.nodes) * BaseSize
    BY <1>2, <1>4, <1>6, <1>8
  <1>10. PICK v \in Nat : v = b.pos + m
    BY <1>4
  <1>11. v <= Len(d.nodes) * BaseSize
    <2>1. PICK cap \in Nat : cap = Len(b.nodes) * BaseSize
      BY <1>4, CapacityIsNat
    <2>2. v <= cap
      BY <1>1, <1>2, <1>10, <2>1
    <2> QED BY <1>6, <1>8, <2>1, <2>2
  <1>12. w = SetPosition(d, v)
    BY <1>5, <1>7, <1>10
  <1>13. ChainOK(w) /\ w.nodes = d.nodes /\ d.size <= w.size
    BY <1>8, <1>9, <1>11, <1>12, PositionSet
  <1>14. KeepsRest(b.nodes, n2, c.pos, c.pos + m)
    <2>1. ASSUME NEW a \in Nat, a < Len(b.nodes) * BaseSize, ~(c.pos <= a /\ a < c.pos + m)
          PROVE  Mem(n2, a) = Mem(b.nodes, a)
      BY <1>2, <1>6, <2>1
    <2> QED BY <2>1 DEF KeepsRest
  <1>15. KeepsRest(c.nodes, b.nodes, c.pos, c.pos)
    BY CapacityKeepsRest
  <1>16. KeepsRest(c.nodes, n2, c.pos, c.pos + m)
    <2>1. PICK e \in Nat : e = c.pos + m
      BY <1>1
    <2>2. c.pos <= c.pos /\ c.pos <= e /\ KeepsRest(b.nodes, n2, c.pos, e)
      BY <1>1, <1>14, <2>1
    <2>3. KeepsRest(c.nodes, n2, c.pos, e)
      BY <1>1, <1>2, <1>4, <1>15, <2>2, RestKeptTwice
    <2> QED BY <2>1, <2>3
  <1> QED BY <1>8, <1>13, <1>16

LEMMA RecvKeeps ==
  ASSUME BaInv, ~fault, NEW n \in 1..3, NEW m \in 0..3, m <= n, RecvInto(n, m)
  PROVE  BaInv'
  <1>1. PICK c : c = Chain
    OBVIOUS
  <1>2. /\ ChainOK(c) /\ c.nodes = nodes /\ c.pos = m_position /\ c.size = m_size
        /\ m_endian \in {"big", "little"} /\ ItemsTrue /\ ~misread
    BY <1>1, ChainParts DEF BaInv
  <1>3. PICK b : b = addCapacity(c, n)
    OBVIOUS
  <1>4. PICK s : s = [k \in 1..m |-> 3]
    OBVIOUS
  <1>5. PICK w : w = IF m = 0 THEN b ELSE SetPosition([b EXCEPT !.nodes = CopyIn(b, s)], b.pos + m)
    OBVIOUS
  <1>6. /\ SetChain(w) /\ items' = items \ Overwritten(m_position, m_position + m)
        /\ m_endian' = m_endian /\ misread' = misread /\ fault' = fault
    BY <1>1, <1>3, <1>4, <1>5 DEF RecvInto
  <1>7. s \in Seq(Byte) /\ Len(s) = m
    BY <1>4 DEF Byte
  <1>8. n \in Nat /\ n > 0 /\ m \in Nat
    OBVIOUS
  <1>9. /\ ChainOK(w) /\ c.size <= w.size
        /\ KeepsRest(c.nodes, w.nodes, c.pos, c.pos + m)
    <2>1. CASE m = 0
      <3>1. w = b
        BY <1>5, <2>1
      <3>2. ChainOK(b) /\ b.size = c.size
        BY <1>2, <1>3, <1>8, CapacityAdded
      <3>3. KeepsRest(c.nodes, b.nodes, c.pos, c.pos + m)
        BY <1>2, <1>3, <1>8, CapacityKeepsRest
      <3>4. c.size \in Nat
        BY <1>2 DEF ChainOK, BaChain
      <3> QED BY <3>1, <3>2, <3>3, <3>4
    <2>2. CASE m # 0
      <3>1. m > 0
        BY <1>8, <2>2
      <3>2. w = SetPosition([b EXCEPT !.nodes = CopyIn(b, s)], b.pos + m)
        BY <1>5, <2>2
      <3> QED BY <1>2, <1>3, <1>7, <1>8, <3>1, <3>2, BytesReceived
    <2> QED BY <2>1, <2>2
  <1>10. Chain' = w /\ nodes' = w.nodes /\ m_size' = w.size
    BY <1>6, <1>9, ChainSet DEF SetChain
  <1>11. c.pos \in Nat /\ w.size \in Nat
    BY <1>2, <1>9 DEF ChainOK, BaChain
  <1>12. PICK to \in Nat : to = c.pos + m
    BY <1>8, <1>11
  <1>13. ASSUME NEW i \in items' PROVE ItemTrue(w.nodes, w.size, i)
    <2>1. i \in items /\ ~(i.at < to /\ c.pos < i.to)
      BY <1>2, <1>6, <1>12 DEF Overwritten
    <2>2. ItemTrue(c.nodes, c.size, i)
      BY <1>2, <2>1 DEF ItemsTrue
    <2>3. ChainOK(c) /\ c.size <= w.size /\ KeepsRest(c.nodes, w.nodes, c.pos, to)
      BY <1>2, <1>9, <1>12
    <2> QED BY <1>11, <2>1, <2>2, <2>3, ItemKept
  <1>14. ItemsTrue'
    BY <1>10, <1>13 DEF ItemsTrue
  <1>15. ChainOK(Chain')
    BY <1>9, <1>10
  <1> QED BY <1>2, <1>6, <1>14, <1>15 DEF BaInv

LEMMA BaInitHolds ==
  ASSUME BaInit
  PROVE  BaInv
  <1>1. nodes = <<FreshNode>> /\ m_cur = 1 /\ m_position = 0 /\ m_size = 0
    BY DEF BaInit
  <1>2. nodes \in Seq(BaBlock) /\ Len(nodes) = 1 /\ nodes # <<>>
    <2>1. FreshNode \in BaBlock
      BY DEF FreshNode, BaBlock
    <2> QED BY <1>1, <2>1
  <1>3. 0 \div BaseSize = 0 /\ 0 <= 1 * BaseSize
    BY BaseSizeIsNat
  <1>4. BlockOrNull(nodes, (0 \div BaseSize) + 1) = 1
    BY <1>2, <1>3 DEF BlockOrNull
  <1>5. Chain \in BaChain
    BY <1>1, <1>2 DEF Chain, BaChain
  <1>6. ChainOK(Chain)
    BY <1>1, <1>2, <1>3, <1>4, <1>5, ChainParts DEF ChainOK
  <1>7. m_endian = "big" /\ items = {} /\ misread = FALSE /\ fault = FALSE
    BY DEF BaInit
  <1> QED BY <1>6, <1>7 DEF BaInv, ItemsTrue

LEMMA BaStep ==
  ASSUME BaInv, [BaNext]_bavars
  PROVE  BaInv'
  <1>1. ASSUME ~fault, NEW k \in ItemKinds, Get(k) PROVE BaInv'
    BY <1>1, GetKeepsInv
  <1>2. ASSUME ~fault, NEW k \in ItemKinds, NEW v \in Values(k), Put(k, v) PROVE BaInv'
    BY <1>2, PutKeeps
  <1>3. ASSUME ~fault, NEW v \in 0..(BaseSize * MaxBlocks), SetPositionTo(v) PROVE BaInv'
    <2>1. v \in Nat
      OBVIOUS
    <2> QED BY <1>3, <2>1, SetPositionKeeps
  <1>4. ASSUME ~fault, NEW e \in {"big", "little"}, SetIsLittleEndian(e) PROVE BaInv'
    <2>1. /\ m_endian' = e
          /\ UNCHANGED <<nodes, m_cur, m_position, m_size, items, misread, fault>>
      BY <1>4 DEF SetIsLittleEndian
    <2>2. Chain' = Chain
      BY <2>1 DEF Chain
    <2>3. ItemsTrue'
      BY <2>1 DEF BaInv, ItemsTrue
    <2>4. ChainOK(Chain')
      BY <2>2 DEF BaInv
    <2> QED BY <1>4, <2>1, <2>3, <2>4 DEF BaInv
  <1>5. ASSUME ~fault, Clear PROVE BaInv'
    BY <1>5, ClearKeeps
  <1>6. ASSUME ~fault, NEW n \in 1..3, NEW m \in 0..3, m <= n, RecvInto(n, m) PROVE BaInv'
    BY <1>6, RecvKeeps
  <1>7. ASSUME UNCHANGED <<nodes, m_cur, m_position, m_size, m_endian, items, misread, puts, fault>>
        PROVE  BaInv'
    <2>1. Chain' = Chain
      BY <1>7 DEF Chain
    <2>2. ItemsTrue'
      BY <1>7 DEF BaInv, ItemsTrue
    <2>3. ChainOK(Chain') /\ (fault' => AtCapacity(Chain'))
      BY <1>7, <2>1 DEF BaInv
    <2> QED BY <1>7, <2>2, <2>3 DEF BaInv
  <1>8. CASE UNCHANGED bavars
    BY <1>7, <1>8 DEF bavars
  <1>9. CASE BaNext
    BY <1>1, <1>2, <1>3, <1>4, <1>5, <1>6, <1>7, <1>9 DEF BaNext
  <1> QED BY <1>8, <1>9

(* Both kinds of iovecs begin at the same block, for m_cur is the block of   *)
(* the position.                                                             *)
LEMMA BuffersAgree ==
  ASSUME BaInv
  PROVE  ReadBuffers = ReadBuffersFrom
  <1>1. PICK c : c = Chain
    OBVIOUS
  <1>2. ChainOK(c) /\ c.nodes = nodes /\ c.pos = m_position /\ c.size = m_size /\ c.cur = m_cur
    BY <1>1, ChainParts DEF BaInv
  <1>3. CASE m_position >= m_size
    BY <1>3 DEF ReadBuffers, ReadBuffersFrom
  <1>4. CASE ~(m_position >= m_size)
    <2>1. /\ c.pos \in Nat /\ c.size \in Nat /\ Len(c.nodes) \in Nat
          /\ c.size <= Len(c.nodes) * BaseSize
      BY <1>2 DEF ChainOK, BaChain
    <2>2. PICK cap \in Nat : cap = Len(c.nodes) * BaseSize
      BY <2>1, CapacityIsNat
    <2>3. c.pos < Len(c.nodes) * BaseSize
      BY <1>2, <1>4, <2>1, <2>2
    <2>4. c.cur = (c.pos \div BaseSize) + 1
      BY <1>2, <2>3, CurOf
    <2> QED BY <1>2, <2>4 DEF ReadBuffers, ReadBuffersFrom
  <1> QED BY <1>3, <1>4

(* ItemsReadBack: what was put is got back as long as nothing was written     *)
(* over it; both kinds of iovecs hold the same bytes; a null block is         *)
(* followed only at the very end of the chain.                                *)
THEOREM ItemsAreReadBack == BaSpec => []ItemsReadBack
  <1>1. BaInit => BaInv
    BY BaInitHolds
  <1>2. BaInv /\ [BaNext]_bavars => BaInv'
    BY BaStep
  <1>3. BaInv => ItemsReadBack
    <2>1. ASSUME BaInv PROVE fault => m_position = Len(nodes) * BaseSize
      BY <2>1, ChainParts DEF BaInv, AtCapacity
    <2>2. ASSUME BaInv PROVE ~misread
      BY <2>2 DEF BaInv
    <2> QED BY <2>1, <2>2, BuffersAgree DEF ItemsReadBack
  <1> QED BY <1>1, <1>2, <1>3, PTL DEF BaSpec

-----------------------------------------------------------------------------
(* Writing a file.                                                          *)

(* What has been written of a file that began at a block boundary, and      *)
(* where the writing is.                                                    *)
FileTrue ==
  /\ ~file.bad
  /\ file.pos \in Nat /\ m_position <= file.pos /\ file.pos <= m_size
  /\ file.left = m_size - file.pos
  /\ file.left > 0 => file.pos % BaseSize = 0 /\ file.cur = (file.pos \div BaseSize) + 1
  /\ file.out \in Seq(Byte \cup {Junk}) /\ Len(file.out) = file.pos - m_position
  /\ \A k \in 1..Len(file.out) : file.out[k] = Mem(nodes, m_position + k - 1)

FileRecord ==
  file = [open |-> file.open, out |-> file.out, cur |-> file.cur, pos |-> file.pos,
          left |-> file.left, bad |-> file.bad]

FileInv == FileRecord /\ (file.open /\ m_position % BaseSize = 0 => FileTrue)

LEMMA FileOpened ==
  ASSUME BaInv, OpenFile,
         UNCHANGED <<nodes, m_position, m_size>>
  PROVE  FileInv'
  <1>1. PICK c : c = Chain
    OBVIOUS
  <1>2. ChainOK(c) /\ c.nodes = nodes /\ c.pos = m_position /\ c.size = m_size /\ c.cur = m_cur
    BY <1>1, ChainParts DEF BaInv
  <1>3. /\ c.pos \in Nat /\ c.size \in Nat /\ Len(c.nodes) \in Nat
        /\ c.pos <= c.size /\ c.size <= Len(c.nodes) * BaseSize
    BY <1>2 DEF ChainOK, BaChain
  <1>4. file' = [open |-> TRUE, out |-> <<>>, cur |-> m_cur, pos |-> m_position,
                 left |-> m_size - m_position, bad |-> FALSE]
    BY DEF OpenFile
  <1>5. FileRecord'
    BY <1>4 DEF FileRecord
  <1>6. ASSUME m_position % BaseSize = 0 PROVE FileTrue'
    <2>1. /\ file'.bad = FALSE /\ file'.pos = m_position /\ file'.left = m_size - m_position
          /\ file'.cur = m_cur /\ file'.out = <<>>
      BY <1>4
    <2>2. ASSUME file'.left > 0 PROVE file'.cur = (m_position \div BaseSize) + 1
      <3>1. PICK cap \in Nat : cap = Len(c.nodes) * BaseSize
        BY <1>3, CapacityIsNat
      <3>2. c.pos < Len(c.nodes) * BaseSize
        BY <1>2, <1>3, <2>1, <2>2, <3>1
      <3>3. c.cur = (c.pos \div BaseSize) + 1
        BY <1>2, <3>2, CurOf
      <3> QED BY <1>2, <2>1, <3>3
    <2>3. /\ file'.out \in Seq(Byte \cup {Junk}) /\ Len(file'.out) = file'.pos - m_position
          /\ \A k \in 1..Len(file'.out) : file'.out[k] = Mem(nodes, m_position + k - 1)
      <3>1. Len(<<>>) = 0 /\ <<>> \in Seq(Byte \cup {Junk})
        OBVIOUS
      <3>2. m_position - m_position = 0
        BY <1>2, <1>3
      <3>3. 1..0 = {}
        OBVIOUS
      <3> QED BY <2>1, <3>1, <3>2, <3>3
    <2>4. m_position \in Nat /\ m_position <= m_size /\ m_position <= m_position
      BY <1>2, <1>3
    <2> QED BY <1>6, <2>1, <2>2, <2>3, <2>4 DEF FileTrue
  <1> QED BY <1>5, <1>6 DEF FileInv

LEMMA BlockWritten ==
  ASSUME BaInv, FileInv, file.open, WriteBlock,
         UNCHANGED <<nodes, m_position, m_size>>
  PROVE  FileInv'
  <1>1. PICK c : c = Chain
    OBVIOUS
  <1>2. ChainOK(c) /\ c.nodes = nodes /\ c.pos = m_position /\ c.size = m_size
    BY <1>1, ChainParts DEF BaInv
  <1>3. /\ nodes \in Seq(BaBlock) /\ m_position \in Nat /\ m_size \in Nat /\ Len(nodes) \in Nat
        /\ m_size <= Len(nodes) * BaseSize
    BY <1>2 DEF ChainOK, BaChain
  <1>4. PICK diff : diff = file.pos % BaseSize
    OBVIOUS
  <1>5. PICK len : len = (IF file.left > BaseSize THEN BaseSize ELSE file.left) - diff
    OBVIOUS
  <1>6. PICK more : more = [k \in 1..len |-> nodes[file.cur][diff + k - 1]]
    OBVIOUS
  <1>7. /\ file.left > 0
        /\ file' = IF len < 0 \/ file.cur > Len(nodes) THEN [file EXCEPT !.bad = TRUE]
                   ELSE [file EXCEPT !.out = @ \o more, !.cur = @ + 1, !.pos = @ + len,
                                     !.left = @ - len]
    BY <1>4, <1>5, <1>6 DEF WriteBlock
  <1>8. FileRecord'
    BY <1>7 DEF FileInv, FileRecord
  <1>9. ASSUME m_position % BaseSize = 0 PROVE FileTrue'
    <2>1. FileTrue /\ FileRecord
      BY <1>9 DEF FileInv
    <2>2. /\ ~file.bad
          /\ file.pos \in Nat /\ m_position <= file.pos /\ file.pos <= m_size
          /\ file.left = m_size - file.pos /\ file.left > 0
          /\ file.pos % BaseSize = 0 /\ file.cur = (file.pos \div BaseSize) + 1
          /\ file.out \in Seq(Byte \cup {Junk}) /\ Len(file.out) = file.pos - m_position
          /\ \A k \in 1..Len(file.out) : file.out[k] = Mem(nodes, m_position + k - 1)
      BY <1>7, <2>1 DEF FileTrue
    <2>3. PICK p \in Nat, left \in Nat : p = file.pos /\ left = file.left
      BY <1>3, <2>2
    <2>4. PICK q \in Nat : q = p \div BaseSize
      BY BlockAndOffset
    <2>5. p = q * BaseSize /\ diff = 0
      <3>1. p = BaseSize * (p \div BaseSize) + (p % BaseSize)
        BY BlockAndOffset
      <3>2. p % BaseSize = 0
        BY <2>2, <2>3
      <3>3. p = BaseSize * q + 0
        BY <2>4, <3>1, <3>2
      <3> QED BY <1>4, <2>3, <3>2, <3>3, BaseSizeIsNat
    <2>6. len \in Nat /\ len > 0 /\ len <= BaseSize /\ len <= left /\ (left > len => len = BaseSize)
      BY <1>5, <2>2, <2>3, <2>5, BaseSizeIsNat
    <2>7. ~(len < 0 \/ file.cur > Len(nodes))
      <3>1. PICK cap \in Nat : cap = Len(nodes) * BaseSize
        BY <1>3, CapacityIsNat
      <3>2. p < Len(nodes) * BaseSize
        BY <1>3, <2>2, <2>3, <3>1
      <3>3. (p \div BaseSize) + 1 <= Len(nodes)
        BY <1>3, <3>2, BlockInChain
      <3> QED BY <1>3, <2>2, <2>3, <2>4, <2>6, <3>3
    <2>8. file' = [file EXCEPT !.out = @ \o more, !.cur = @ + 1, !.pos = @ + len, !.left = @ - len]
      BY <1>7, <2>7
    <2>9. /\ file'.bad = file.bad /\ file'.pos = p + len /\ file'.left = left - len
          /\ file'.cur = file.cur + 1 /\ file'.out = file.out \o more
      BY <2>1, <2>3, <2>8 DEF FileRecord
    <2>10. ASSUME NEW k \in 1..len PROVE more[k] = Mem(nodes, p + k - 1)
      <3>1. PICK r \in Nat : r = k - 1
        OBVIOUS
      <3>2. r \in 0..(BaseSize - 1)
        BY <2>6, <3>1, BaseSizeIsNat
      <3>3. ((q * BaseSize) + r) \div BaseSize = q /\ ((q * BaseSize) + r) % BaseSize = r
        BY <3>2, BlockOf
      <3>4. p + k - 1 = (q * BaseSize) + r
        BY <2>5, <3>1
      <3>5. Mem(nodes, p + k - 1) = nodes[q + 1][r]
        BY <3>3, <3>4 DEF Mem
      <3>6. more[k] = nodes[file.cur][diff + k - 1]
        BY <1>6
      <3>7. diff + k - 1 = r /\ file.cur = q + 1
        BY <2>2, <2>3, <2>4, <2>5, <3>1
      <3> QED BY <3>5, <3>6, <3>7
    <2>11. more \in Seq(Byte \cup {Junk}) /\ Len(more) = len
      <3>1. ASSUME NEW k \in 1..len PROVE more[k] \in Byte \cup {Junk}
        <4>1. PICK a \in Nat : a = p + k - 1
          OBVIOUS
        <4>2. a < Len(nodes) * BaseSize
          <5>1. PICK cap \in Nat : cap = Len(nodes) * BaseSize
            BY <1>3, CapacityIsNat
          <5>2. left = m_size - p /\ len <= left
            BY <2>2, <2>3, <2>6
          <5>3. a < m_size
            BY <1>3, <2>6, <4>1, <5>2
          <5> QED BY <1>3, <4>1, <5>1, <5>3
        <4>3. Mem(nodes, a) \in Byte \cup {Junk}
          BY <1>3, <4>2, MemType
        <4> QED BY <2>10, <4>1, <4>3
      <3>2. more = [k \in 1..len |-> more[k]]
        BY <1>6
      <3> QED BY <2>6, <3>1, <3>2
    <2>12. PICK out : out = file.out \o more
      OBVIOUS
    <2>13. PICK n \in Nat : n = Len(file.out)
      BY <2>2
    <2>14. /\ out \in Seq(Byte \cup {Junk}) /\ Len(out) = n + len
           /\ \A k \in 1..(n + len) : out[k] = IF k <= n THEN file.out[k] ELSE more[k - n]
      <3>1. PICK old \in Seq(Byte \cup {Junk}) : old = file.out
        BY <2>2
      <3>2. more \in Seq(Byte \cup {Junk}) /\ out = old \o more
        BY <2>11, <2>12, <3>1
      <3>3. /\ out \in Seq(Byte \cup {Junk}) /\ Len(out) = Len(old) + Len(more)
            /\ \A k \in 1..(Len(old) + Len(more)) :
                  out[k] = IF k <= Len(old) THEN old[k] ELSE more[k - Len(old)]
        BY <3>2, ConcatProperties
      <3>4. Len(old) = n /\ Len(more) = len
        BY <2>11, <2>13, <3>1
      <3> QED BY <3>1, <3>3, <3>4
    <2>15. n = p - m_position
      BY <2>2, <2>3, <2>13
    <2>16. ASSUME NEW k \in 1..(n + len) PROVE out[k] = Mem(nodes, m_position + k - 1)
      <3>1. CASE k <= n
        <4>1. k \in 1..Len(file.out)
          BY <2>13, <3>1
        <4> QED BY <2>2, <2>14, <3>1, <4>1
      <3>2. CASE ~(k <= n)
        <4>1. PICK j \in 1..len : j = k - n
          BY <2>6, <3>2
        <4>2. out[k] = more[j]
          BY <2>14, <3>2, <4>1
        <4>3. more[j] = Mem(nodes, p + j - 1)
          BY <2>10
        <4>4. p + j - 1 = m_position + k - 1
          BY <1>3, <2>15, <4>1
        <4> QED BY <4>2, <4>3, <4>4
      <3> QED BY <3>1, <3>2
    <2>17. ASSUME left - len > 0
           PROVE  (p + len) % BaseSize = 0 /\ file.cur + 1 = ((p + len) \div BaseSize) + 1
      <3>1. len = BaseSize
        BY <2>6, <2>17
      <3>2. PICK q2 \in Nat : q2 = q + 1
        OBVIOUS
      <3>3. p + len = (q2 * BaseSize) + 0 /\ 0 \in 0..(BaseSize - 1)
        BY <2>5, <3>1, <3>2, BaseSizeIsNat
      <3>4. (p + len) \div BaseSize = q2 /\ (p + len) % BaseSize = 0
        BY <3>3, BlockOf
      <3>5. file.cur = q + 1
        BY <2>2, <2>3, <2>4
      <3> QED BY <3>2, <3>4, <3>5
    <2>18. /\ ~file'.bad
           /\ file'.pos \in Nat /\ m_position <= file'.pos /\ file'.pos <= m_size
           /\ file'.left = m_size - file'.pos
      <3>1. ~file'.bad
        BY <2>2, <2>9
      <3>2. file'.pos = p + len /\ file'.left = left - len
        BY <2>9
      <3>3. m_position <= p /\ left = m_size - p
        BY <2>2, <2>3
      <3>4. p + len \in Nat /\ m_position <= p + len /\ p + len <= m_size
        BY <1>3, <2>6, <3>3
      <3>5. left - len = m_size - (p + len)
        BY <1>3, <2>6, <3>3
      <3> QED BY <3>1, <3>2, <3>4, <3>5
    <2>19. file'.left > 0 => file'.pos % BaseSize = 0 /\ file'.cur = (file'.pos \div BaseSize) + 1
      BY <2>9, <2>17
    <2>20. /\ file'.out \in Seq(Byte \cup {Junk}) /\ Len(file'.out) = file'.pos - m_position
           /\ \A k \in 1..Len(file'.out) : file'.out[k] = Mem(nodes, m_position + k - 1)
      <3>1. n + len = (p + len) - m_position
        BY <1>3, <2>6, <2>15
      <3>2. file'.out = out /\ file'.pos = p + len
        BY <2>9, <2>12
      <3>3. Len(out) = (p + len) - m_position
        BY <2>14, <3>1
      <3>4. \A k \in 1..Len(out) : out[k] = Mem(nodes, m_position + k - 1)
        BY <2>14, <2>16
      <3> QED BY <2>14, <3>2, <3>3, <3>4
    <2> QED BY <2>18, <2>19, <2>20 DEF FileTrue
  <1>10. m_position' % BaseSize = 0 => FileTrue'
    BY <1>9
  <1> QED BY <1>8, <1>10 DEF FileInv

LEMMA FileStep ==
  ASSUME BaInv, FileInv, [BaNext]_bavars
  PROVE  FileInv'
  <1>1. ASSUME ~file.open, file' = file PROVE FileInv'
    <2>1. FileRecord'
      BY <1>1 DEF FileInv, FileRecord
    <2>2. ~file'.open
      BY <1>1
    <2> QED BY <2>1, <2>2 DEF FileInv
  <1>2. ASSUME OpenFile, UNCHANGED <<nodes, m_position, m_size>> PROVE FileInv'
    BY <1>2, FileOpened
  <1>3. ASSUME file.open, WriteBlock, UNCHANGED <<nodes, m_position, m_size>> PROVE FileInv'
    BY <1>3, BlockWritten
  <1>4. ASSUME CloseFile PROVE FileInv'
    <2>1. file' = [open |-> FALSE, out |-> <<>>, cur |-> NULL, pos |-> 0, left |-> 0, bad |-> FALSE]
      BY <1>4 DEF CloseFile, NoFile
    <2>2. FileRecord'
      BY <2>1 DEF FileRecord
    <2>3. ~file'.open
      BY <2>1
    <2> QED BY <2>2, <2>3 DEF FileInv
  <1>5. CASE UNCHANGED bavars
    BY <1>5 DEF bavars, FileInv, FileRecord, FileTrue
  <1>6. CASE BaNext
    <2>1. \/ ~file.open /\ file' = file
          \/ OpenFile /\ UNCHANGED <<nodes, m_position, m_size>>
          \/ file.open /\ WriteBlock /\ UNCHANGED <<nodes, m_position, m_size>>
          \/ CloseFile
      BY <1>6 DEF BaNext
    <2> QED BY <1>1, <1>2, <1>3, <1>4, <2>1
  <1> QED BY <1>5, <1>6

LEMMA FileInitHolds ==
  ASSUME BaInit
  PROVE  FileInv
  <1>1. file = [open |-> FALSE, out |-> <<>>, cur |-> NULL, pos |-> 0, left |-> 0, bad |-> FALSE]
    BY DEF BaInit, NoFile
  <1>2. FileRecord
    BY <1>1 DEF FileRecord
  <1>3. ~file.open
    BY <1>1
  <1> QED BY <1>2, <1>3 DEF FileInv

(* A file that is written to the end holds what the iovecs hold.            *)
LEMMA FileIsBuffers ==
  ASSUME BaInv, FileTrue, file.left <= 0
  PROVE  file.out = ReadBuffers
  <1>1. PICK c : c = Chain
    OBVIOUS
  <1>2. ChainOK(c) /\ c.nodes = nodes /\ c.pos = m_position /\ c.size = m_size /\ c.cur = m_cur
    BY <1>1, ChainParts DEF BaInv
  <1>3. /\ nodes \in Seq(BaBlock) /\ m_position \in Nat /\ m_size \in Nat /\ Len(nodes) \in Nat
        /\ m_size <= Len(nodes) * BaseSize
    BY <1>2 DEF ChainOK, BaChain
  <1>4. /\ file.out \in Seq(Byte \cup {Junk}) /\ Len(file.out) = m_size - m_position
        /\ \A k \in 1..Len(file.out) : file.out[k] = Mem(nodes, m_position + k - 1)
        /\ m_position <= m_size
    <2>1. file.pos = m_size
      BY <1>3 DEF FileTrue
    <2> QED BY <1>3, <2>1 DEF FileTrue
  <1>5. CASE m_position >= m_size
    <2>1. Len(file.out) = 0
      BY <1>3, <1>4, <1>5
    <2>2. file.out = <<>>
      BY <1>4, <2>1, EmptySeq
    <2> QED BY <1>5, <2>2 DEF ReadBuffers
  <1>6. CASE ~(m_position >= m_size)
    <2>1. PICK n \in Nat : n = m_size - m_position
      BY <1>3, <1>4
    <2>2. PICK cap \in Nat : cap = Len(nodes) * BaseSize
      BY <1>3, CapacityIsNat
    <2>3. c.pos < Len(c.nodes) * BaseSize /\ c.pos + n <= Len(c.nodes) * BaseSize
      BY <1>2, <1>3, <1>6, <2>1, <2>2
    <2>4. c.cur = (c.pos \div BaseSize) + 1
      BY <1>2, <2>3, CurOf
    <2>5. PICK s : s = CopyOut(c, (c.pos \div BaseSize) + 1, n, Junk)
      OBVIOUS
    <2>6. ReadBuffers = s
      BY <1>1, <1>2, <1>6, <2>1, <2>4, <2>5 DEF ReadBuffers
    <2>7. PICK fill \in Byte \cup {Junk} : fill = Junk
      OBVIOUS
    <2>8. c.nodes \in Seq(BaBlock) /\ c.pos \in Nat
      BY <1>2, <1>3
    <2>9. c.pos + n <= Len(c.nodes) * BaseSize
      BY <2>3
    <2>10. s = CopyOut(c, (c.pos \div BaseSize) + 1, n, fill)
      BY <2>5, <2>7
    <2>11. /\ s \in Seq(Byte \cup {Junk}) /\ Len(s) = n
          /\ \A k \in 1..n :
               s[k] = IF Mem(c.nodes, c.pos + k - 1) = Junk THEN fill
                      ELSE Mem(c.nodes, c.pos + k - 1)
      <3>1. Copied(s, n, c.nodes, c.pos, fill)
        BY <2>8, <2>9, <2>10, CopiedOut
      <3> QED BY <3>1 DEF Copied
    <2>12. ASSUME NEW k \in 1..n PROVE s[k] = file.out[k]
      <3>1. s[k] = Mem(c.nodes, c.pos + k - 1)
        BY <2>7, <2>11
      <3> QED BY <1>2, <1>4, <2>1, <3>1
    <2>13. Len(file.out) = n
      BY <1>4, <2>1
    <2> QED BY <1>4, <2>6, <2>11, <2>12, <2>13
  <1> QED BY <1>5, <1>6

(* FileHoldsBytes: writeToFile from a block boundary writes the bytes from   *)
(* the position on, and follows no null block.                               *)
THEOREM FilesHoldBytes == BaSpec => []FileHoldsBytes
  <1>1. BaInit => BaInv /\ FileInv
    BY BaInitHolds, FileInitHolds
  <1>2. (BaInv /\ FileInv) /\ [BaNext]_bavars => (BaInv /\ FileInv)'
    BY BaStep, FileStep
  <1>3. BaInv /\ FileInv => FileHoldsBytes
    <2>1. ASSUME BaInv, FileInv, file.open /\ m_position % BaseSize = 0
          PROVE  ~file.bad /\ (file.left <= 0 => file.out = ReadBuffers)
      <3>1. FileTrue
        BY <2>1 DEF FileInv
      <3>2. ~file.bad
        BY <3>1 DEF FileTrue
      <3>3. file.left <= 0 => file.out = ReadBuffers
        BY <2>1, <3>1, FileIsBuffers
      <3> QED BY <3>2, <3>3
    <2> QED BY <2>1 DEF FileHoldsBytes
  <1> QED BY <1>1, <1>2, <1>3, PTL DEF BaSpec

-----------------------------------------------------------------------------
(* HttpStream.  Sequences that are cut and joined.                          *)

Unit == {<<"line">>, <<"end">>, <<"cr">>, <<"lf">>} \cup ({"field1", "field2"} \X Int)
          \cup ({"digit"} \X Int) \cup ({"byte"} \X Int \X Int)

LEMMA UnitsJoin ==
  ASSUME NEW s \in Seq(Unit), NEW t \in Seq(Unit)
  PROVE  /\ s \o t \in Seq(Unit) /\ Len(s \o t) = Len(s) + Len(t)
         /\ Len(s) \in Nat /\ Len(t) \in Nat
         /\ \A i \in 1..(Len(s) + Len(t)) :
              (s \o t)[i] = IF i <= Len(s) THEN s[i] ELSE t[i - Len(s)]
  BY ConcatProperties, LenProperties

Associate(s, t, u) == (s \o t) \o u = s \o (t \o u)

LEMMA UnitsAssociate ==
  ASSUME NEW s \in Seq(Unit), NEW t \in Seq(Unit), NEW u \in Seq(Unit)
  PROVE  Associate(s, t, u)
  BY ConcatAssociative DEF Associate

LEMMA UnitsCancel ==
  ASSUME NEW s \in Seq(Unit), NEW t \in Seq(Unit), NEW u \in Seq(Unit), s \o t = s \o u
  PROVE  t = u
  BY ConcatSimplifications

LEMMA UnitsEmpty ==
  ASSUME NEW s \in Seq(Unit)
  PROVE  s \o <<>> = s /\ <<>> \o s = s /\ <<>> \in Seq(Unit) /\ (Len(s) = 0 => s = <<>>)
  BY ConcatEmptySeq, EmptySeq

LEMMA UnitsEqual ==
  ASSUME NEW s \in Seq(Unit), NEW t \in Seq(Unit), Len(s) = Len(t),
         \A i \in 1..Len(s) : s[i] = t[i]
  PROVE  s = t
  BY SeqEqual

LEMMA RestAt ==
  ASSUME NEW s \in Seq(Unit), NEW n \in Nat, n <= Len(s)
  PROVE  /\ Rest(s, n) \in Seq(Unit) /\ Len(Rest(s, n)) = Len(s) - n
         /\ \A i \in 1..(Len(s) - n) : Rest(s, n)[i] = s[n + i]
  <1>1. PICK l \in Nat : l = Len(s)
    OBVIOUS
  <1>2. \A i \in 1..l : s[i] \in Unit
    BY <1>1
  <1>3. n <= l
    BY <1>1
  <1>4. /\ Rest(s, n) \in Seq(Unit) /\ Len(Rest(s, n)) = l - n
        /\ \A i \in 1..(l - n) : Rest(s, n)[i] = s[n + i]
    <2>1. \A i \in (n + 1)..l : s[i] \in Unit
      BY <1>2
    <2>2. /\ SubSeq(s, n + 1, l) \in Seq(Unit)
          /\ Len(SubSeq(s, n + 1, l)) = IF n + 1 <= l THEN l - (n + 1) + 1 ELSE 0
          /\ \A i \in 1..(l - (n + 1) + 1) : SubSeq(s, n + 1, l)[i] = s[(n + 1) + i - 1]
      BY <2>1, SubSeqProperties
    <2>3. Rest(s, n) = SubSeq(s, n + 1, l)
      BY <1>1 DEF Rest
    <2>4. Len(Rest(s, n)) = l - n
      BY <1>3, <2>2, <2>3
    <2>5. \A i \in 1..(l - n) : Rest(s, n)[i] = s[n + i]
      BY <2>2, <2>3
    <2> QED BY <2>2, <2>3, <2>4, <2>5
  <1> QED BY <1>1, <1>4

LEMMA CutInTwo ==
  ASSUME NEW s \in Seq(Unit), NEW n \in Nat, n <= Len(s)
  PROVE  /\ Prefix(s, n) \in Seq(Unit) /\ Rest(s, n) \in Seq(Unit)
         /\ Len(Prefix(s, n)) = n /\ Len(Rest(s, n)) = Len(s) - n
         /\ \A i \in 1..n : Prefix(s, n)[i] = s[i]
         /\ s = Prefix(s, n) \o Rest(s, n)
  <1>1. PICK l \in Nat : l = Len(s)
    OBVIOUS
  <1>2. \A i \in 1..l : s[i] \in Unit
    BY <1>1
  <1>3. n <= l
    BY <1>1
  <1>4. /\ Prefix(s, n) \in Seq(Unit) /\ Len(Prefix(s, n)) = n
        /\ \A i \in 1..n : Prefix(s, n)[i] = s[i]
    <2>1. \A i \in 1..n : s[i] \in Unit
      BY <1>2, <1>3
    <2>2. /\ SubSeq(s, 1, n) \in Seq(Unit)
          /\ Len(SubSeq(s, 1, n)) = IF 1 <= n THEN n - 1 + 1 ELSE 0
          /\ \A i \in 1..(n - 1 + 1) : SubSeq(s, 1, n)[i] = s[1 + i - 1]
      BY ONLY <2>1, n \in Nat, 1 \in Int, n \in Int, SubSeqProperties
    <2> QED BY <2>2 DEF Prefix
  <1>5. /\ Rest(s, n) \in Seq(Unit) /\ Len(Rest(s, n)) = l - n
        /\ \A i \in 1..(l - n) : Rest(s, n)[i] = s[n + i]
    BY <1>1, RestAt
  <1> DEFINE t == Prefix(s, n) \o Rest(s, n)
  <1>6. /\ t \in Seq(Unit) /\ Len(t) = n + (l - n)
        /\ \A i \in 1..(n + (l - n)) :
             t[i] = IF i <= n THEN Prefix(s, n)[i] ELSE Rest(s, n)[i - n]
    <2>1. PICK u, v : u = Prefix(s, n) /\ v = Rest(s, n)
      OBVIOUS
    <2>2. u \in Seq(Unit) /\ v \in Seq(Unit) /\ Len(u) = n /\ Len(v) = l - n
      BY <1>4, <1>5, <2>1
    <2>3. /\ u \o v \in Seq(Unit) /\ Len(u \o v) = Len(u) + Len(v)
          /\ \A i \in 1..(Len(u) + Len(v)) :
               (u \o v)[i] = IF i <= Len(u) THEN u[i] ELSE v[i - Len(u)]
      BY ONLY <2>2, UnitsJoin
    <2>4. t = u \o v
      BY <2>1
    <2> HIDE DEF t
    <2> QED BY <2>1, <2>2, <2>3, <2>4
  <1> HIDE DEF t
  <1>7. Len(t) = l
    BY <1>6
  <1>8. ASSUME NEW i \in 1..l PROVE s[i] = t[i]
    <2>1. t[i] = IF i <= n THEN Prefix(s, n)[i] ELSE Rest(s, n)[i - n]
      BY <1>6
    <2>2. CASE i <= n
      BY <1>4, <2>1, <2>2
    <2>3. CASE ~(i <= n)
      <3>1. i - n \in 1..(l - n) /\ n + (i - n) = i
        BY <2>3
      <3> QED BY <1>5, <2>1, <2>3, <3>1
    <2> QED BY <2>2, <2>3
  <1>9. s = t
    BY ONLY <1>1, <1>6, <1>7, <1>8, s \in Seq(Unit), UnitsEqual
  <1> QED BY <1>1, <1>4, <1>5, <1>9 DEF t

(* What lies behind h in d \o w.                                            *)
SameStream(d, w, h, t) == d \o w = h \o t

Peeled(d, w, h, t, k) ==
  /\ Rest(d, k) \o w = t
  /\ \A i \in 1..k : d[i] = h[i]
  /\ Prefix(d, k) = h /\ Rest(d, k) \in Seq(Unit)
  /\ Len(Rest(d, k)) = Len(d) - k
  /\ d = h \o Rest(d, k)

LEMMA Peel ==
  ASSUME NEW d \in Seq(Unit), NEW w \in Seq(Unit), NEW h \in Seq(Unit), NEW t \in Seq(Unit),
         SameStream(d, w, h, t), NEW k, k = Len(h), k <= Len(d)
  PROVE  Peeled(d, w, h, t, k)
  <1>1. k \in Nat /\ k = Len(h)
    OBVIOUS
  <1>2. PICK l \in Nat : l = Len(d) /\ k <= l
    BY <1>1
  <1>0. /\ d \in Seq(Unit) /\ w \in Seq(Unit) /\ h \in Seq(Unit) /\ t \in Seq(Unit)
        /\ d \o w = h \o t
    BY DEF SameStream
  <1>3. PICK p, r : p = Prefix(d, k) /\ r = Rest(d, k)
    OBVIOUS
  <1>4. /\ p \in Seq(Unit) /\ r \in Seq(Unit) /\ Len(p) = k /\ Len(r) = l - k
        /\ \A i \in 1..k : p[i] = d[i]
        /\ d = p \o r
    BY ONLY <1>0, <1>1, <1>2, <1>3, CutInTwo
  <1>5. \A i \in 1..k : d[i] = h[i]
    <2>1. /\ Len(d \o w) = Len(d) + Len(w) /\ Len(w) \in Nat
          /\ \A i \in 1..(Len(d) + Len(w)) :
               (d \o w)[i] = IF i <= Len(d) THEN d[i] ELSE w[i - Len(d)]
      BY UnitsJoin
    <2>2. /\ Len(t) \in Nat
          /\ \A i \in 1..(Len(h) + Len(t)) :
               (h \o t)[i] = IF i <= Len(h) THEN h[i] ELSE t[i - Len(h)]
      BY UnitsJoin
    <2>3. SUFFICES ASSUME NEW i \in 1..k PROVE d[i] = h[i]
      OBVIOUS
    <2>4. (d \o w)[i] = d[i]
      BY <1>2, <2>1
    <2>5. (h \o t)[i] = h[i]
      BY <1>1, <2>2
    <2> QED BY <1>0, <2>4, <2>5
  <1>6. p = h
    <2>1. \A i \in 1..Len(p) : p[i] = h[i]
      BY <1>4, <1>5
    <2> QED BY ONLY <1>0, <1>1, <1>4, <2>1, UnitsEqual
  <1>7. h \o (r \o w) = h \o t
    <2>1. (h \o r) \o w = h \o (r \o w)
      <3>1. r \in Seq(Unit)
        BY <1>4
      <3>2. Associate(h, r, w)
        BY ONLY <1>0, <3>1, UnitsAssociate
      <3> QED BY <3>2 DEF Associate
    <2> QED BY <1>0, <1>4, <1>6, <2>1
  <1>8. r \o w = t
    <2>1. r \o w \in Seq(Unit)
      BY ONLY <1>0, <1>4, UnitsJoin
    <2> QED BY ONLY <1>0, <1>7, <2>1, UnitsCancel
  <1> QED BY <1>1, <1>2, <1>3, <1>4, <1>5, <1>6, <1>8 DEF Peeled

(* The first place at which x stands.                                       *)
PlacesOf(d, n, x) == {i \in 1..n : d[i] = x}

StandsFirst(d, n, x, k) == k \in 1..n /\ d[k] = x /\ \A i \in 1..(k - 1) : d[i] # x

LEMMA FirstAt ==
  ASSUME NEW d, NEW n \in Nat, NEW x, NEW k, StandsFirst(d, n, x, k)
  PROVE  /\ PlacesOf(d, n, x) # {}
         /\ (CHOOSE i \in PlacesOf(d, n, x) : \A j \in PlacesOf(d, n, x) : i <= j) = k
  <1> DEFINE E == PlacesOf(d, n, x)
  <1>1. k \in E /\ \A j \in E : k <= j
    BY DEF PlacesOf, StandsFirst
  <1>2. \A i \in E : (\A j \in E : i <= j) => i = k
    BY <1>1 DEF PlacesOf
  <1> QED BY <1>1, <1>2

-----------------------------------------------------------------------------
(* HttpStream.  What a message looks like.                                  *)

LEMMA BytesAre ==
  ASSUME NEW m \in Int, NEW x \in Int, NEW n \in Nat
  PROVE  /\ Bytes(m, x, n) \in Seq(Unit) /\ Len(Bytes(m, x, n)) = n
         /\ \A i \in 1..n : Bytes(m, x, n)[i] = <<"byte", m, x + i>>
  <1>1. \A i \in 1..n : <<"byte", m, x + i>> \in Unit
    BY DEF Unit
  <1>2. Bytes(m, x, n) \in [1..n -> Unit]
    BY <1>1 DEF Bytes
  <1> QED BY <1>2 DEF Bytes

LEMMA BytesFollow ==
  ASSUME NEW m \in Int, NEW x \in Nat, NEW n \in Nat
  PROVE  Bytes(m, 0, x) \o Bytes(m, x, n) = Bytes(m, 0, x + n)
  <1>1. PICK u, v, w : u = Bytes(m, 0, x) /\ v = Bytes(m, x, n) /\ w = Bytes(m, 0, x + n)
    OBVIOUS
  <1>2. 0 \in Int /\ x \in Int /\ x + n \in Nat
    OBVIOUS
  <1>3. /\ u \in Seq(Unit) /\ Len(u) = x /\ \A i \in 1..x : u[i] = <<"byte", m, 0 + i>>
        /\ v \in Seq(Unit) /\ Len(v) = n /\ \A i \in 1..n : v[i] = <<"byte", m, x + i>>
        /\ w \in Seq(Unit) /\ Len(w) = x + n
        /\ \A i \in 1..(x + n) : w[i] = <<"byte", m, 0 + i>>
    BY <1>1, <1>2, BytesAre
  <1>4. PICK t : t = u \o v
    OBVIOUS
  <1>5. /\ t \in Seq(Unit) /\ Len(t) = x + n
        /\ \A i \in 1..(x + n) : t[i] = IF i <= x THEN u[i] ELSE v[i - x]
    <2>1. /\ u \o v \in Seq(Unit) /\ Len(u \o v) = Len(u) + Len(v)
          /\ \A i \in 1..(Len(u) + Len(v)) :
               (u \o v)[i] = IF i <= Len(u) THEN u[i] ELSE v[i - Len(u)]
      BY <1>3, UnitsJoin
    <2>2. Len(u) = x /\ Len(v) = n
      BY <1>3
    <2> QED BY ONLY <1>4, <2>1, <2>2
  <1>6. ASSUME NEW i \in 1..(x + n) PROVE t[i] = w[i]
    <2>1. CASE i <= x
      <3>1. i \in 1..x /\ t[i] = u[i]
        BY <1>5, <2>1
      <3>2. u[i] = <<"byte", m, 0 + i>> /\ w[i] = <<"byte", m, 0 + i>>
        BY <1>3, <3>1
      <3> QED BY <3>1, <3>2
    <2>2. CASE ~(i <= x)
      <3>1. i - x \in 1..n /\ x + (i - x) = 0 + i
        BY <2>2
      <3> QED BY <1>3, <1>5, <2>2, <3>1
    <2> QED BY <2>1, <2>2
  <1>7. t = w
    BY <1>3, <1>5, <1>6, UnitsEqual
  <1> QED BY <1>1, <1>4, <1>7

LEMMA ThreeUnits ==
  ASSUME NEW a \in Unit, NEW b \in Unit, NEW c \in Unit
  PROVE  <<a>> \o <<b, c>> = <<a, b, c>>
  <1>1. PICK s, t, u : s = <<a>> /\ t = <<b, c>> /\ u = <<a, b, c>>
    OBVIOUS
  <1>2. /\ s \in Seq(Unit) /\ t \in Seq(Unit) /\ u \in Seq(Unit)
        /\ Len(s) = 1 /\ Len(t) = 2 /\ Len(u) = 3
        /\ s[1] = a /\ t[1] = b /\ t[2] = c /\ u[1] = a /\ u[2] = b /\ u[3] = c
    BY <1>1
  <1>3. /\ s \o t \in Seq(Unit) /\ Len(s \o t) = 3
        /\ (s \o t)[1] = s[1] /\ (s \o t)[2] = t[2 - 1] /\ (s \o t)[3] = t[3 - 1]
    <2>1. s \in Seq(Unit) /\ t \in Seq(Unit)
      BY <1>2
    <2>2. /\ s \o t \in Seq(Unit) /\ Len(s \o t) = Len(s) + Len(t)
          /\ \A i \in 1..(Len(s) + Len(t)) :
               (s \o t)[i] = IF i <= Len(s) THEN s[i] ELSE t[i - Len(s)]
      BY ONLY <2>1, UnitsJoin
    <2> QED BY ONLY <1>2, <2>2
  <1>4. \A i \in 1..3 : i = 1 \/ i = 2 \/ i = 3
    OBVIOUS
  <1>5. \A i \in 1..3 : (s \o t)[i] = u[i]
    BY <1>2, <1>3, <1>4
  <1> QED BY <1>1, <1>2, <1>3, <1>5, UnitsEqual

LEMMA FourUnits ==
  ASSUME NEW a \in Unit, NEW b \in Unit, NEW c \in Unit, NEW f \in Unit
  PROVE  <<a, b>> \o <<c, f>> = <<a, b, c, f>>
  <1>1. PICK s, t, u : s = <<a, b>> /\ t = <<c, f>> /\ u = <<a, b, c, f>>
    OBVIOUS
  <1>2. /\ s \in Seq(Unit) /\ t \in Seq(Unit) /\ u \in Seq(Unit)
        /\ Len(s) = 2 /\ Len(t) = 2 /\ Len(u) = 4
        /\ s[1] = a /\ s[2] = b /\ t[1] = c /\ t[2] = f
        /\ u[1] = a /\ u[2] = b /\ u[3] = c /\ u[4] = f
    BY <1>1
  <1>3. /\ s \o t \in Seq(Unit) /\ Len(s \o t) = 4
        /\ (s \o t)[1] = s[1] /\ (s \o t)[2] = s[2]
        /\ (s \o t)[3] = t[3 - 2] /\ (s \o t)[4] = t[4 - 2]
    <2>1. s \in Seq(Unit) /\ t \in Seq(Unit)
      BY <1>2
    <2>2. /\ s \o t \in Seq(Unit) /\ Len(s \o t) = Len(s) + Len(t)
          /\ \A i \in 1..(Len(s) + Len(t)) :
               (s \o t)[i] = IF i <= Len(s) THEN s[i] ELSE t[i - Len(s)]
      BY ONLY <2>1, UnitsJoin
    <2> QED BY ONLY <1>2, <2>2
  <1>4. \A i \in 1..4 : i = 1 \/ i = 2 \/ i = 3 \/ i = 4
    OBVIOUS
  <1>5. \A i \in 1..4 : (s \o t)[i] = u[i]
    BY <1>2, <1>3, <1>4
  <1> QED BY <1>1, <1>2, <1>3, <1>5, UnitsEqual

LEMMA LineEndIs == CRLF \in Seq(Unit) /\ Len(CRLF) = 2
  BY DEF CRLF, Unit

(* The line of a chunk's size.                                              *)
SizeLine(n) == Digits(n) \o CRLF

IsSizeLine(h, n) ==
  /\ h \in Seq(Unit) /\ Len(h) \in {3, 4} /\ h[Len(h)] = <<"lf">>
  /\ \A i \in 1..(Len(h) - 1) : h[i] # <<"lf">>
  /\ h[1][1] = "digit"
  /\ \/ Len(h) = 3 /\ h[1][2] = n
     \/ Len(h) = 4 /\ 2 * h[1][2] + h[2][2] = n

LEMMA SizeLineIs ==
  ASSUME NEW n \in 0..3
  PROVE  IsSizeLine(SizeLine(n), n)
  <1>1. PICK h : h = SizeLine(n)
    OBVIOUS
  <1>2. CASE n \in {0, 1}
    <2>1. h = << <<"digit", n>>, <<"cr">>, <<"lf">> >>
      <3>1. PICK a, b, c : a = <<"digit", n>> /\ b = <<"cr">> /\ c = <<"lf">>
        OBVIOUS
      <3>2. Digits(n) = <<a>> /\ CRLF = <<b, c>>
        BY <1>2, <3>1 DEF Digits, CRLF
      <3>3. <<a>> \o <<b, c>> = <<a, b, c>>
        <4>1. a \in Unit /\ b \in Unit /\ c \in Unit
          BY <3>1 DEF Unit
        <4> QED BY <4>1, ThreeUnits
      <3> QED BY <1>1, <3>1, <3>2, <3>3 DEF SizeLine
    <2>2. h \in Seq(Unit)
      BY <2>1 DEF Unit
    <2>3. /\ Len(h) = 3 /\ h[1] = <<"digit", n>> /\ h[2] = <<"cr">> /\ h[3] = <<"lf">>
          /\ h[1][1] = "digit" /\ h[1][2] = n
      BY <2>1
    <2>4. \A i \in 1..2 : i = 1 \/ i = 2
      OBVIOUS
    <2>5. \A i \in 1..2 : h[i] # <<"lf">>
      BY <2>3, <2>4
    <2> QED BY <1>1, <2>2, <2>3, <2>5 DEF IsSizeLine
  <1>3. CASE n \in {2, 3}
    <2>1. PICK e \in 0..1 : e = n % 2 /\ n \div 2 = 1 /\ 2 * 1 + e = n
      BY <1>3
    <2>2. h = << <<"digit", 1>>, <<"digit", e>>, <<"cr">>, <<"lf">> >>
      <3>1. PICK a, b, c, f : /\ a = <<"digit", 1>> /\ b = <<"digit", e>>
                              /\ c = <<"cr">> /\ f = <<"lf">>
        OBVIOUS
      <3>2. Digits(n) = <<a, b>> /\ CRLF = <<c, f>>
        BY <1>3, <2>1, <3>1 DEF Digits, CRLF
      <3>3. <<a, b>> \o <<c, f>> = <<a, b, c, f>>
        <4>1. a \in Unit /\ b \in Unit /\ c \in Unit /\ f \in Unit
          BY <3>1 DEF Unit
        <4> QED BY <4>1, FourUnits
      <3> QED BY <1>1, <3>1, <3>2, <3>3 DEF SizeLine
    <2>3. h \in Seq(Unit)
      BY <2>2 DEF Unit
    <2>4. /\ Len(h) = 4 /\ h[1] = <<"digit", 1>> /\ h[2] = <<"digit", e>>
          /\ h[3] = <<"cr">> /\ h[4] = <<"lf">>
          /\ h[1][1] = "digit" /\ h[1][2] = 1 /\ h[2][2] = e
      BY <2>2
    <2>5. \A i \in 1..3 : i = 1 \/ i = 2 \/ i = 3
      OBVIOUS
    <2>6. \A i \in 1..3 : h[i] # <<"lf">>
      BY <2>4, <2>5
    <2> QED BY <1>1, <2>1, <2>3, <2>4, <2>6 DEF IsSizeLine
  <1> QED BY <1>2, <1>3

(* What a parser reads from a buffer that begins with the line.             *)
LEMMA SizeIsRead ==
  ASSUME NEW h, NEW n \in 0..3, IsSizeLine(h, n), NEW d \in Seq(Unit), Len(h) <= Len(d),
         \A i \in 1..Len(h) : d[i] = h[i]
  PROVE  Number(Prefix(d, Len(h) - 2)) = n
  <1>1. PICK k \in 3..4 : k = Len(h)
    BY DEF IsSizeLine
  <1>2. PICK p : p = Prefix(d, k - 2)
    OBVIOUS
  <1>3. Len(p) = k - 2 /\ \A i \in 1..(k - 2) : p[i] = d[i]
    <2>1. k - 2 \in Nat /\ k - 2 <= Len(d)
      BY <1>1
    <2> QED BY <1>2, <2>1, CutInTwo
  <1>4. CASE k = 3
    <2>1. Len(p) = 1 /\ p[1] = h[1] /\ h[1][2] = n
      BY <1>1, <1>3, <1>4 DEF IsSizeLine
    <2> QED BY <1>1, <1>2, <2>1 DEF Number
  <1>5. CASE k = 4
    <2>1. Len(p) = 2 /\ p[1] = h[1] /\ p[2] = h[2] /\ 2 * h[1][2] + h[2][2] = n
      BY <1>1, <1>3, <1>5 DEF IsSizeLine
    <2> QED BY <1>1, <1>2, <2>1 DEF Number
  <1> QED BY <1>4, <1>5

LEMMA ChunkIs ==
  ASSUME NEW m \in Int, NEW x \in Int, NEW n \in 0..3, NEW t \in Seq(Unit)
  PROVE  /\ Chunk(m, x, n) \in Seq(Unit)
         /\ Chunk(m, x, n) \o t = SizeLine(n) \o ((Bytes(m, x, n) \o CRLF) \o t)
         /\ Bytes(m, x, n) \o CRLF \in Seq(Unit) /\ SizeLine(n) \in Seq(Unit)
         /\ (Bytes(m, x, n) \o CRLF) \o t \in Seq(Unit)
  <1>1. PICK h, u : h = SizeLine(n) /\ u = Bytes(m, x, n) \o CRLF
    OBVIOUS
  <1>2. h \in Seq(Unit)
    BY <1>1, SizeLineIs DEF IsSizeLine
  <1>3. u \in Seq(Unit)
    <2>1. Bytes(m, x, n) \in Seq(Unit)
      <3>1. n \in Nat
        OBVIOUS
      <3> QED BY <3>1, BytesAre
    <2> QED BY <1>1, <2>1, LineEndIs, UnitsJoin
  <1>4. Chunk(m, x, n) = h \o u
    BY <1>1 DEF Chunk, SizeLine
  <1>5. Associate(h, u, t)
    BY <1>2, <1>3, UnitsAssociate
  <1>6. h \o u \in Seq(Unit) /\ u \o t \in Seq(Unit)
    BY <1>2, <1>3, UnitsJoin
  <1> QED BY <1>1, <1>2, <1>3, <1>4, <1>5, <1>6 DEF Associate

-----------------------------------------------------------------------------
(* HttpStream.  Bodies, and the chunks of one that are still to come.       *)

LEMMA ChunkedIs == Chunked \in Int /\ Chunked \notin Nat /\ Chunked # 0
  BY DEF Chunked

LEMMA BodyIs ==
  ASSUME NEW b \in Bodies
  PROVE  /\ Total(b) \in Nat /\ b.how \in {"length", "chunked"}
         /\ b.how = "length" => FieldOf(b) = Total(b)
         /\ b.how = "chunked" =>
              /\ FieldOf(b) = Chunked /\ b.chunks[1] \in 1..3
              /\ \/ Len(b.chunks) = 1 /\ Total(b) = b.chunks[1]
                 \/ /\ Len(b.chunks) = 2 /\ b.chunks[2] \in 1..3
                    /\ Total(b) = b.chunks[1] + b.chunks[2]
  <1>1. CASE b \in [chunks : {<<n>> : n \in BodyLengths}, how : {"length"}]
    <2>1. PICK n \in BodyLengths : b.chunks = <<n>> /\ b.how = "length"
      BY <1>1
    <2>2. n \in Nat
      BY HsAssumption
    <2>3. Len(b.chunks) = 1 /\ b.chunks[1] = n
      BY <2>1
    <2> QED BY <2>1, <2>2, <2>3 DEF Total, FieldOf
  <1>2. CASE b \in [chunks : ChunkLists, how : {"chunked"}]
    <2>1. b.chunks \in ChunkLists /\ b.how = "chunked"
      BY <1>2
    <2>2. PICK c : c = b.chunks
      OBVIOUS
    <2>3. c \in Seq(1..3) /\ Len(c) \in {1, 2}
      BY <2>1, <2>2, HsAssumption
    <2>4. c[1] \in 1..3
      BY <2>3
    <2>5. CASE Len(c) = 1
      BY <2>1, <2>2, <2>4, <2>5 DEF Total, FieldOf
    <2>6. CASE Len(c) = 2
      <3>1. c[2] \in 1..3
        BY <2>3, <2>6
      <3> QED BY <2>1, <2>2, <2>4, <2>6, <3>1 DEF Total, FieldOf
    <2> QED BY <2>3, <2>5, <2>6
  <1> QED BY <1>1, <1>2 DEF Bodies

(* What is on the way when x bytes of the body b of message m have come in  *)
(* whole chunks, or after a chunk of n bytes that follows them.             *)
ChunksLeft(m, b, x, s) ==
  \/ x = 0 /\ s = ChunkUnits(m, b)
  \/ /\ Len(b.chunks) = 2 /\ x = b.chunks[1]
     /\ s = Chunk(m, x, b.chunks[2]) \o Chunk(m, Total(b), 0)
  \/ x = Total(b) /\ s = Chunk(m, x, 0)

AfterOne(m, b, x, n, t) ==
  IF n = 0 THEN t = <<>> /\ x = Total(b) ELSE ChunksLeft(m, b, x + n, t)

(* The next of them.                                                        *)
IsNextChunk(m, b, x, s, n, t) ==
  /\ n \in 0..3 /\ t \in Seq(Unit) /\ AfterOne(m, b, x, n, t)
  /\ s = SizeLine(n) \o ((Bytes(m, x, n) \o CRLF) \o t)

LEMMA NextChunk ==
  ASSUME NEW m \in Int, NEW b \in Bodies, b.how = "chunked", NEW x \in Nat, NEW s,
         ChunksLeft(m, b, x, s)
  PROVE  s \in Seq(Unit) /\ \E n, t : IsNextChunk(m, b, x, s, n, t)
  <1>1. PICK c, w : c = b.chunks[1] /\ w = Total(b)
    OBVIOUS
  <1>2. c \in 1..3 /\ w \in Nat
    BY <1>1, BodyIs
  <1>3. PICK last : last = Chunk(m, w, 0)
    OBVIOUS
  <1>4. <<>> \in Seq(Unit)
    BY UnitsEmpty
  <1>5. /\ last \in Seq(Unit) /\ last \o <<>> = last
        /\ last \o <<>> = SizeLine(0) \o ((Bytes(m, w, 0) \o CRLF) \o <<>>)
    <2>1. w \in Int /\ 0 \in 0..3
      BY <1>2
    <2>2. last \in Seq(Unit) /\ last \o <<>> = SizeLine(0) \o ((Bytes(m, w, 0) \o CRLF) \o <<>>)
      BY ONLY <1>3, <1>4, <2>1, m \in Int, ChunkIs
    <2> QED BY <2>2, UnitsEmpty
  <1>6. CASE x = w /\ s = last
    <2>1. IsNextChunk(m, b, x, s, 0, <<>>)
      BY <1>1, <1>4, <1>5, <1>6 DEF IsNextChunk, AfterOne
    <2> QED BY <1>5, <1>6, <2>1
  <1>7. ASSUME NEW n \in 1..3, NEW t \in Seq(Unit), s = Chunk(m, x, n) \o t,
               ChunksLeft(m, b, x + n, t)
        PROVE  s \in Seq(Unit) /\ \E a, u : IsNextChunk(m, b, x, s, a, u)
    <2>1. x \in Int /\ n \in 0..3
      OBVIOUS
    <2>2. /\ Chunk(m, x, n) \in Seq(Unit)
          /\ Chunk(m, x, n) \o t = SizeLine(n) \o ((Bytes(m, x, n) \o CRLF) \o t)
      BY <2>1, ChunkIs
    <2>3. s \in Seq(Unit)
      BY <1>7, <2>2, UnitsJoin
    <2>4. AfterOne(m, b, x, n, t)
      BY <1>7 DEF AfterOne
    <2>5. IsNextChunk(m, b, x, s, n, t)
      BY <1>7, <2>1, <2>2, <2>4 DEF IsNextChunk
    <2> QED BY <2>3, <2>5
  <1>8. CASE Len(b.chunks) = 1
    <2>1. w = c
      BY <1>1, <1>8, BodyIs
    <2>2. CASE x = 0 /\ s = ChunkUnits(m, b)
      <3>1. s = Chunk(m, x, c) \o last
        BY <1>1, <1>3, <1>8, <2>2 DEF ChunkUnits
      <3>2. x + c = w
        BY <1>2, <2>1, <2>2
      <3>3. ChunksLeft(m, b, x + c, last)
        BY <1>1, <1>3, <3>2 DEF ChunksLeft
      <3> QED BY <1>2, <1>5, <1>7, <3>1, <3>3
    <2>3. CASE x = w /\ s = Chunk(m, x, 0)
      BY <1>3, <1>6, <2>3
    <2> QED BY <1>1, <1>8, <2>2, <2>3 DEF ChunksLeft
  <1>9. CASE Len(b.chunks) = 2
    <2>1. PICK e : e = b.chunks[2]
      OBVIOUS
    <2>2. e \in 1..3 /\ w = c + e
      BY <1>1, <1>9, <2>1, BodyIs
    <2>3. PICK t : t = Chunk(m, c, e) \o last
      OBVIOUS
    <2>4. t \in Seq(Unit)
      <3>1. c \in Int /\ e \in 0..3
        BY <1>2, <2>2
      <3>2. Chunk(m, c, e) \in Seq(Unit)
        BY <1>4, <3>1, ChunkIs
      <3> QED BY <1>5, <2>3, <3>2, UnitsJoin
    <2>5. CASE x = 0 /\ s = ChunkUnits(m, b)
      <3>1. s = Chunk(m, x, c) \o t
        BY <1>1, <1>3, <1>9, <2>1, <2>3, <2>5 DEF ChunkUnits
      <3>2. x + c = c
        BY <1>2, <2>5
      <3>3. ChunksLeft(m, b, x + c, t)
        BY <1>1, <1>3, <1>9, <2>1, <2>3, <3>2 DEF ChunksLeft
      <3> QED BY <1>2, <1>7, <2>4, <3>1, <3>3
    <2>6. CASE x = c /\ s = Chunk(m, x, e) \o last
      <3>1. x + e = w
        BY <2>2, <2>6
      <3>2. ChunksLeft(m, b, x + e, last)
        BY <1>1, <1>3, <3>1 DEF ChunksLeft
      <3> QED BY <1>5, <1>7, <2>2, <2>6, <3>2
    <2>7. CASE x = w /\ s = Chunk(m, x, 0)
      BY <1>3, <1>6, <2>7
    <2> QED BY <1>1, <1>3, <2>1, <2>5, <2>6, <2>7 DEF ChunksLeft
  <1> QED BY <1>8, <1>9, BodyIs

-----------------------------------------------------------------------------
(* HttpStream.  A head, and what a buffer that ends in it makes of it.      *)

Coded(m, b) == IF b.how = "length" THEN BodyBytes(m, b) ELSE ChunkUnits(m, b)

(* l is the length that is known when h is left of a head with the field f. *)
HeadLeft(f, l, h) ==
  \/ l = 0 /\ h = HeadUnits(f)
  \/ f # 0 /\ l = 0 /\ h = << <<"field1", f>>, <<"field2", f>>, <<"end">> >>
  \/ l = f /\ h = << <<"end">> >>

Halves(h, e) == {i \in 1..e : h[i][1] \in {"field1", "field2"}}

(* The length, and what is left, behind the first e units of h.             *)
CutHead(f, l, h, e) ==
  \/ Cardinality(Halves(h, e)) = 1
  \/ LET k == IF Cardinality(Halves(h, e)) = 2
              THEN h[CHOOSE i \in Halves(h, e) : TRUE][2] ELSE l
     IN IF e = Len(h) THEN k = f ELSE HeadLeft(f, k, Rest(h, e))

LEMMA Counts ==
  /\ Cardinality({}) = 0
  /\ \A a : Cardinality({a}) = 1
  /\ \A a, b : a # b => Cardinality({a, b}) = 2
  <1>1. Cardinality({}) = 0
    BY FS_EmptySet
  <1>2. \A a : Cardinality({a}) = 1 /\ IsFiniteSet({a})
    BY FS_Singleton
  <1>3. ASSUME NEW a, NEW b, a # b PROVE Cardinality({a, b}) = 2
    <2>1. IsFiniteSet({a}) /\ Cardinality({a}) = 1 /\ b \notin {a}
      BY <1>2, <1>3
    <2>2. Cardinality({a} \cup {b}) = 1 + 1
      BY <2>1, FS_AddElement
    <2>3. {a} \cup {b} = {a, b}
      OBVIOUS
    <2> QED BY <2>2, <2>3
  <1> QED BY <1>1, <1>2, <1>3

LEMMA RestIs ==
  ASSUME NEW s \in Seq(Unit), NEW r \in Seq(Unit), NEW n \in Nat, Len(s) = n + Len(r),
         \A i \in 1..Len(r) : s[n + i] = r[i]
  PROVE  Rest(s, n) = r
  <1>1. PICK t : t = Rest(s, n)
    OBVIOUS
  <1>2. PICK l \in Nat : l = Len(r)
    OBVIOUS
  <1>3. t \in Seq(Unit) /\ Len(t) = l /\ \A i \in 1..l : t[i] = s[n + i]
    <2>1. n <= Len(s) /\ Len(s) - n = l
      BY <1>2
    <2> QED BY <1>1, <2>1, RestAt
  <1>4. \A i \in 1..l : t[i] = r[i]
    BY <1>2, <1>3
  <1> QED BY <1>1, <1>2, <1>3, <1>4, UnitsEqual

LEMMA EmptyHalves ==
  ASSUME NEW f, NEW l, NEW h, NEW e, Halves(h, e) = {},
         IF e = Len(h) THEN l = f ELSE HeadLeft(f, l, Rest(h, e))
  PROVE  CutHead(f, l, h, e)
  BY Counts DEF CutHead

LEMMA TwoHalves ==
  ASSUME NEW f, NEW l, NEW h, NEW e, NEW a, NEW b, a # b, Halves(h, e) = {a, b},
         h[a][2] = f, h[b][2] = f,
         e = Len(h) \/ Rest(h, e) = << <<"end">> >>
  PROVE  CutHead(f, l, h, e)
  <1>1. Cardinality({a, b}) = 2
    BY Counts
  <1>2. PICK i : i = CHOOSE j \in Halves(h, e) : TRUE
    OBVIOUS
  <1>3. i \in {a, b}
    BY <1>2
  <1>4. h[i][2] = f
    BY <1>3
  <1>5. e # Len(h) => HeadLeft(f, f, Rest(h, e))
    BY DEF HeadLeft
  <1> QED BY <1>1, <1>2, <1>4, <1>5 DEF CutHead

LEMMA HeadIsCut ==
  ASSUME NEW f \in Int, NEW l \in Int, NEW h, HeadLeft(f, l, h)
  PROVE  /\ h \in Seq(Unit) /\ Len(h) \in 1..4 /\ h[Len(h)] = <<"end">>
         /\ \A i \in 1..(Len(h) - 1) : h[i] # <<"end">>
         /\ l = 0 /\ h = HeadUnits(f) => h[1] = <<"line">>
         /\ \A e \in 1..Len(h) : CutHead(f, l, h, e)
  <1>1. PICK a, b, c, d : /\ a = <<"line">> /\ b = <<"field1", f>>
                          /\ c = <<"field2", f>> /\ d = <<"end">>
    OBVIOUS
  <1>2. /\ a \in Unit /\ b \in Unit /\ c \in Unit /\ d \in Unit
        /\ a # d /\ b # d /\ c # d /\ b[2] = f /\ c[2] = f
        /\ a[1] = "line" /\ b[1] = "field1" /\ c[1] = "field2" /\ d[1] = "end"
    BY <1>1 DEF Unit
  <1>3. PICK z : z = <<d>>
    OBVIOUS
  <1>4. z \in Seq(Unit) /\ Len(z) = 1 /\ z[1] = d
    BY <1>2, <1>3
  <1>5. PICK y : y = <<b, c, d>>
    OBVIOUS
  <1>6. y \in Seq(Unit) /\ Len(y) = 3 /\ y[1] = b /\ y[2] = c /\ y[3] = d
    BY <1>2, <1>5
  <1>7. CASE f = 0 /\ l = 0 /\ h = HeadUnits(f)
    <2>1. h = <<a, d>>
      BY <1>1, <1>7 DEF HeadUnits
    <2>2. h \in Seq(Unit) /\ Len(h) = 2 /\ h[1] = a /\ h[2] = d
      BY <1>2, <2>1
    <2>3. \A i \in 1..1 : i = 1
      OBVIOUS
    <2>4. \A i \in 1..2 : i = 1 \/ i = 2
      OBVIOUS
    <2>5. Halves(h, 1) = {} /\ Halves(h, 2) = {}
      BY <1>2, <2>2, <2>3, <2>4 DEF Halves
    <2>6. Rest(h, 1) = z
      <3>1. Len(h) = 1 + Len(z) /\ \A i \in 1..Len(z) : h[1 + i] = z[i]
        BY <1>4, <2>2, <2>3
      <3> QED BY <1>4, <2>2, <3>1, RestIs
    <2>7. HeadLeft(f, l, Rest(h, 1))
      BY <1>1, <1>3, <1>7, <2>6 DEF HeadLeft
    <2>8. CutHead(f, l, h, 1) /\ CutHead(f, l, h, 2)
      BY <1>7, <2>2, <2>5, <2>7, EmptyHalves
    <2>9. h \in Seq(Unit) /\ Len(h) = 2 /\ h[2] = <<"end">> /\ h[1] = <<"line">> /\ h[1] # <<"end">>
      BY <1>1, <1>2, <2>2
    <2> QED BY ONLY <2>3, <2>4, <2>8, <2>9
  <1>8. CASE f # 0 /\ l = 0 /\ h = HeadUnits(f)
    <2>1. h = <<a, b, c, d>>
      BY <1>1, <1>8 DEF HeadUnits
    <2>2. h \in Seq(Unit) /\ Len(h) = 4 /\ h[1] = a /\ h[2] = b /\ h[3] = c /\ h[4] = d
      BY <1>2, <2>1
    <2>3. \A i \in 1..4 : i = 1 \/ i = 2 \/ i = 3 \/ i = 4
      OBVIOUS
    <2>4. \A i \in 1..3 : i = 1 \/ i = 2 \/ i = 3
      OBVIOUS
    <2>5. Halves(h, 1) = {} /\ Halves(h, 2) = {2}
      BY <1>2, <2>2 DEF Halves
    <2>6. Halves(h, 3) = {2, 3} /\ Halves(h, 4) = {2, 3}
      BY <1>2, <2>2 DEF Halves
    <2>7. Rest(h, 1) = y
      <3>1. Len(h) = 1 + Len(y) /\ \A i \in 1..Len(y) : h[1 + i] = y[i]
        BY <1>6, <2>2, <2>4
      <3> QED BY <1>6, <2>2, <3>1, RestIs
    <2>8. Rest(h, 3) = z
      <3>1. \A i \in 1..1 : i = 1
        OBVIOUS
      <3>2. Len(h) = 3 + Len(z) /\ \A i \in 1..Len(z) : h[3 + i] = z[i]
        BY <1>4, <2>2, <3>1
      <3> QED BY <1>4, <2>2, <3>2, RestIs
    <2>9. HeadLeft(f, l, Rest(h, 1))
      BY <1>1, <1>5, <1>8, <2>7 DEF HeadLeft
    <2>10. CutHead(f, l, h, 1)
      <3>1. 1 # Len(h)
        BY <2>2
      <3>2. Halves(h, 1) = {}
        BY <2>5
      <3> QED BY ONLY <2>9, <3>1, <3>2, EmptyHalves
    <2>11. CutHead(f, l, h, 2)
      BY <2>5, Counts DEF CutHead
    <2>12. CutHead(f, l, h, 3) /\ CutHead(f, l, h, 4)
      <3>1. 2 # 3 /\ h[2][2] = f /\ h[3][2] = f /\ Rest(h, 3) = << <<"end">> >> /\ 4 = Len(h)
        BY <1>1, <1>2, <1>3, <2>2, <2>8
      <3>2. Halves(h, 3) = {2, 3}
        BY <2>6
      <3>3. Halves(h, 4) = {2, 3}
        BY <2>6
      <3>4. CutHead(f, l, h, 3)
        BY ONLY <3>1, <3>2, TwoHalves
      <3>5. CutHead(f, l, h, 4)
        BY ONLY <3>1, <3>3, TwoHalves
      <3> QED BY <3>4, <3>5
    <2>13. /\ h \in Seq(Unit) /\ Len(h) = 4 /\ h[4] = <<"end">> /\ h[1] = <<"line">>
           /\ h[1] # <<"end">> /\ h[2] # <<"end">> /\ h[3] # <<"end">>
      BY <1>1, <1>2, <2>2
    <2> QED BY ONLY <2>3, <2>4, <2>10, <2>11, <2>12, <2>13
  <1>9. CASE f # 0 /\ l = 0 /\ h = y
    <2>1. \A i \in 1..3 : i = 1 \/ i = 2 \/ i = 3
      OBVIOUS
    <2>2. \A i \in 1..2 : i = 1 \/ i = 2
      OBVIOUS
    <2>3. Halves(h, 1) = {1} /\ Halves(h, 2) = {1, 2} /\ Halves(h, 3) = {1, 2}
      BY <1>2, <1>6, <1>9 DEF Halves
    <2>4. Rest(h, 2) = z
      <3>1. \A i \in 1..1 : i = 1
        OBVIOUS
      <3>2. Len(h) = 2 + Len(z) /\ \A i \in 1..Len(z) : h[2 + i] = z[i]
        BY <1>4, <1>6, <1>9, <3>1
      <3> QED BY <1>4, <1>6, <1>9, <3>2, RestIs
    <2>5. CutHead(f, l, h, 1)
      BY <2>3, Counts DEF CutHead
    <2>6. CutHead(f, l, h, 2) /\ CutHead(f, l, h, 3)
      <3>1. 1 # 2 /\ h[1][2] = f /\ h[2][2] = f /\ Rest(h, 2) = << <<"end">> >> /\ 3 = Len(h)
        BY <1>1, <1>2, <1>3, <1>6, <1>9, <2>4
      <3>2. Halves(h, 2) = {1, 2}
        BY <2>3
      <3>3. Halves(h, 3) = {1, 2}
        BY <2>3
      <3>4. CutHead(f, l, h, 2)
        BY ONLY <3>1, <3>2, TwoHalves
      <3>5. CutHead(f, l, h, 3)
        BY ONLY <3>1, <3>3, TwoHalves
      <3> QED BY <3>4, <3>5
    <2>7. h # HeadUnits(f)
      BY <1>1, <1>2, <1>6, <1>9 DEF HeadUnits
    <2>8. h \in Seq(Unit) /\ Len(h) = 3 /\ h[3] = <<"end">> /\ h[1] # <<"end">> /\ h[2] # <<"end">>
      BY <1>1, <1>2, <1>6, <1>9
    <2> QED BY ONLY <2>1, <2>2, <2>5, <2>6, <2>7, <2>8
  <1>10. CASE l = f /\ h = z
    <2>1. \A i \in 1..1 : i = 1
      OBVIOUS
    <2>2. Halves(h, 1) = {}
      BY <1>2, <1>4, <1>10, <2>1 DEF Halves
    <2>3. CutHead(f, l, h, 1)
      BY <1>4, <1>10, <2>2, EmptyHalves
    <2>4. h # HeadUnits(f)
      BY <1>1, <1>2, <1>4, <1>10 DEF HeadUnits
    <2>5. h \in Seq(Unit) /\ Len(h) = 1 /\ h[1] = <<"end">>
      BY <1>1, <1>4, <1>10
    <2> QED BY ONLY <2>1, <2>3, <2>4, <2>5
  <1> QED BY <1>1, <1>3, <1>5, <1>7, <1>8, <1>9, <1>10 DEF HeadLeft

LEMMA CodedIs ==
  ASSUME NEW m \in Int, NEW b \in Bodies
  PROVE  /\ Coded(m, b) \in Seq(Unit) /\ HeadUnits(FieldOf(b)) \in Seq(Unit)
         /\ Units(m, b) = HeadUnits(FieldOf(b)) \o Coded(m, b) /\ Units(m, b) \in Seq(Unit)
         /\ FieldOf(b) \in Int
         /\ BodyBytes(m, b) = Bytes(m, 0, Total(b)) /\ BodyBytes(m, b) \in Seq(Unit)
         /\ Len(BodyBytes(m, b)) = Total(b)
  <1>1. FieldOf(b) \in Int
    BY BodyIs, ChunkedIs
  <1>2. HeadUnits(FieldOf(b)) \in Seq(Unit)
    <2>1. HeadLeft(FieldOf(b), 0, HeadUnits(FieldOf(b))) /\ 0 \in Int
      BY DEF HeadLeft
    <2> QED BY <1>1, <2>1, HeadIsCut
  <1>3. /\ BodyBytes(m, b) \in Seq(Unit) /\ BodyBytes(m, b) = Bytes(m, 0, Total(b))
        /\ Len(BodyBytes(m, b)) = Total(b)
    <2>1. Total(b) \in Nat /\ 0 \in Int
      BY BodyIs
    <2> QED BY <2>1, BytesAre DEF BodyBytes
  <1>4. Coded(m, b) \in Seq(Unit)
    <2>1. CASE b.how = "length"
      BY <1>3, <2>1 DEF Coded
    <2>2. CASE b.how = "chunked"
      <3>1. ChunksLeft(m, b, 0, ChunkUnits(m, b)) /\ 0 \in Nat
        BY DEF ChunksLeft
      <3>2. ChunkUnits(m, b) \in Seq(Unit)
        BY <2>2, <3>1, NextChunk
      <3> QED BY <2>2, <3>2 DEF Coded
    <2> QED BY <2>1, <2>2, BodyIs
  <1>5. Units(m, b) = HeadUnits(FieldOf(b)) \o Coded(m, b)
    BY DEF Units, Coded
  <1>6. Units(m, b) \in Seq(Unit)
    BY <1>2, <1>4, <1>5, UnitsJoin
  <1> QED BY <1>1, <1>2, <1>3, <1>4, <1>5, <1>6

-----------------------------------------------------------------------------
(* HttpStream.  The invariant.                                              *)

HsType ==
  /\ wire \in Seq(Unit) /\ data \in Seq(Unit) /\ body \in Seq(Unit)
  /\ sentBodies \in Seq(Seq(Unit)) /\ given \in Seq(Seq(Unit))
  /\ length \in Int /\ expect \in Int

(* bs are the bodies sent, and F[k] is the stream from message k on.        *)
Streamed(bs, F) ==
  /\ bs \in [1..Len(sentBodies) -> Bodies] /\ F \in [1..(Len(sentBodies) + 1) -> Seq(Unit)]
  /\ F[Len(sentBodies) + 1] = <<>>
  /\ \A k \in 1..Len(sentBodies) : /\ F[k] = Units(k, bs[k]) \o F[k + 1]
                                   /\ sentBodies[k] = BodyBytes(k, bs[k])

GivenSoFar ==
  /\ Len(given) <= Len(sentBodies)
  /\ \A k \in 1..Len(given) : given[k] = sentBodies[k]

(* Where the receiver is when cur is left of message m, whose body is b.    *)
AtHead(m, b, cur) ==
  /\ data = <<>> /\ body = <<>>
  /\ \E h : HeadLeft(FieldOf(b), length, h) /\ cur = h \o Coded(m, b)

AtBody(m, b, cur) == body = <<>> /\ length = FieldOf(b) /\ cur = Coded(m, b)

AtRest(m, b, cur) == data = <<>> /\ Len(cur) = expect /\ body \o cur = BodyBytes(m, b)

AtChunks(m, b, cur) ==
  b.how = "chunked" /\ \E x \in Nat : body = Bytes(m, 0, x) /\ ChunksLeft(m, b, x, cur)

AtChunk(m, b, cur) ==
  /\ b.how = "chunked" /\ length \in 0..3
  /\ \E x \in Nat, t \in Seq(Unit) :
       /\ AfterOne(m, b, x, length, t) /\ body = Bytes(m, 0, x)
       /\ cur = (Bytes(m, x, length) \o CRLF) \o t

AtChunkRest(m, b, cur) ==
  /\ b.how = "chunked" /\ length \in 0..3 /\ data = <<>>
  /\ \E x \in Nat, w \in Seq(Unit), t \in Seq(Unit) :
       /\ AfterOne(m, b, x, length, t) /\ body \o w = Bytes(m, 0, x + length) \o CRLF
       /\ Len(w) = expect /\ cur = w \o t

AtEnd(m, b, cur) == body = BodyBytes(m, b) /\ cur = <<>>

InMessage(m, b, cur) ==
  \/ rpc = "inhead" /\ AtHead(m, b, cur)
  \/ rpc = "body" /\ AtBody(m, b, cur)
  \/ rpc = "fixsize" /\ AtRest(m, b, cur)
  \/ rpc = "chunk" /\ AtChunks(m, b, cur)
  \/ rpc = "chunkdata" /\ AtChunk(m, b, cur)
  \/ rpc = "chunkrest" /\ AtChunkRest(m, b, cur)
  \/ rpc = "given" /\ AtEnd(m, b, cur)

Inside(m, b, t, cur) ==
  cur \in Seq(Unit) /\ data \o wire = cur \o t /\ InMessage(m, b, cur)

Outside == {"idle", "head", "closed"}

HsState(bs, F, cur) ==
  /\ HsType /\ GivenSoFar /\ Streamed(bs, F)
  /\ rpc \in {"idle", "head"} => wire = F[Len(given) + 1]
  /\ rpc = "head" => data = <<>> /\ body = <<>> /\ length = 0
  /\ rpc \notin Outside =>
       /\ Len(given) < Len(sentBodies)
       /\ Inside(Len(given) + 1, bs[Len(given) + 1], F[Len(given) + 2], cur)

Whole == \E bs, F, cur : HsState(bs, F, cur)

HsInv ==
  /\ torn \in BOOLEAN /\ over \in BOOLEAN
  /\ torn \/ over \/ Whole

(* The message that is being received, and the stream behind it.            *)
IsHere(bs, F, m, b, t) ==
  /\ m = Len(given) + 1 /\ m <= Len(sentBodies) /\ m \in Nat \ {0} /\ m \in Int
  /\ b = bs[m] /\ b \in Bodies /\ t = F[m + 1] /\ t \in Seq(Unit)

LEMMA HereIs ==
  ASSUME NEW bs, NEW F, HsType, Streamed(bs, F), Len(given) < Len(sentBodies)
  PROVE  \E m, b, t : IsHere(bs, F, m, b, t) /\ F[m] = Units(m, b) \o t
                        /\ sentBodies[m] = BodyBytes(m, b)
  <1>1. PICK g \in Nat, N \in Nat : g = Len(given) /\ N = Len(sentBodies)
    BY DEF HsType
  <1>2. PICK m \in Nat : m = g + 1
    BY <1>1
  <1>3. m \in 1..N /\ m + 1 \in 1..(N + 1)
    BY <1>1, <1>2
  <1>4. /\ bs[m] \in Bodies /\ F[m + 1] \in Seq(Unit)
        /\ F[m] = Units(m, bs[m]) \o F[m + 1] /\ sentBodies[m] = BodyBytes(m, bs[m])
    BY <1>1, <1>3 DEF Streamed
  <1>5. m <= N /\ m \in Nat \ {0} /\ m \in Int
    BY <1>3
  <1>6. IsHere(bs, F, m, bs[m], F[m + 1])
    BY <1>1, <1>2, <1>4, <1>5 DEF IsHere
  <1> QED BY <1>4, <1>6

LEMMA InsideIs ==
  ASSUME NEW bs, NEW F, NEW cur, HsState(bs, F, cur), rpc \notin Outside
  PROVE  \E m, b, t : /\ IsHere(bs, F, m, b, t) /\ Inside(m, b, t, cur)
                      /\ sentBodies[m] = BodyBytes(m, b)
  <1>1. HsType /\ Streamed(bs, F) /\ Len(given) < Len(sentBodies)
    BY DEF HsState
  <1>2. PICK m, b, t : IsHere(bs, F, m, b, t) /\ sentBodies[m] = BodyBytes(m, b)
    BY <1>1, HereIs
  <1>3. Inside(Len(given) + 1, bs[Len(given) + 1], F[Len(given) + 2], cur)
    BY DEF HsState
  <1>4. Len(given) \in Nat
    BY <1>1 DEF HsType
  <1>5. m = Len(given) + 1 /\ m + 1 = Len(given) + 2
    BY <1>2, <1>4 DEF IsHere
  <1>6. Inside(m, b, t, cur)
    BY <1>2, <1>3, <1>5 DEF IsHere
  <1> QED BY <1>2, <1>6

(* A step inside a message.                                                 *)
LEMMA InsideKept ==
  ASSUME NEW bs, NEW F, NEW cur, HsState(bs, F, cur),
         NEW m, NEW b, NEW t, IsHere(bs, F, m, b, t),
         sentBodies' = sentBodies, given' = given, HsType',
         NEW next, Inside(m, b, t, next)'
  PROVE  Whole'
  <1>1. GivenSoFar' /\ Streamed(bs, F)'
    BY DEF HsState, GivenSoFar, Streamed
  <1>2. rpc' \notin {"idle", "head", "closed"}
    BY DEF Inside, InMessage
  <1>3. Len(given) \in Nat
    BY DEF HsState, HsType
  <1>4. m = Len(given) + 1 /\ m + 1 = Len(given) + 2 /\ b = bs[m] /\ t = F[m + 1]
        /\ m <= Len(sentBodies)
    BY <1>3 DEF IsHere
  <1>5. Len(sentBodies) \in Nat
    BY DEF HsState, HsType
  <1>6. (Len(given) < Len(sentBodies))'
    BY <1>3, <1>4, <1>5
  <1>7. Inside(Len(given) + 1, bs[Len(given) + 1], F[Len(given) + 2], next)'
    BY <1>4 DEF Inside, InMessage, AtHead, AtBody, AtRest, AtChunks, AtChunk, AtChunkRest, AtEnd
  <1>8. HsState(bs, F, next)'
    BY <1>1, <1>2, <1>6, <1>7 DEF HsState, Outside
  <1> QED BY <1>8 DEF Whole

-----------------------------------------------------------------------------
(* HttpStream.  The steps outside a message.                                *)

LEMMA BodiesAtFirst == HsInit => HsInv
  <1> SUFFICES ASSUME HsInit PROVE HsInv
    OBVIOUS
  <1>1. <<>> \in Seq(Unit) /\ <<>> \in Seq(Seq(Unit)) /\ Len(<<>>) = 0
    OBVIOUS
  <1>2. /\ wire = <<>> /\ data = <<>> /\ body = <<>> /\ sentBodies = <<>> /\ given = <<>>
        /\ length = 0 /\ expect = 0 /\ rpc = "idle" /\ torn = FALSE /\ over = FALSE
    BY DEF HsInit
  <1>3. HsType /\ GivenSoFar
    BY <1>1, <1>2 DEF HsType, GivenSoFar
  <1>4. PICK bs, F : bs = [k \in 1..0 |-> <<>>] /\ F = [k \in 1..1 |-> <<>>]
    OBVIOUS
  <1>5. bs \in [1..0 -> Bodies] /\ F \in [1..(0 + 1) -> Seq(Unit)] /\ F[0 + 1] = <<>>
    BY <1>1, <1>4
  <1>6. Streamed(bs, F)
    <2>1. Len(sentBodies) = 0 /\ 1..0 = {}
      BY <1>1, <1>2
    <2> QED BY <1>5, <2>1 DEF Streamed
  <1>7. HsState(bs, F, <<>>)
    BY <1>1, <1>2, <1>3, <1>5, <1>6 DEF HsState, Outside
  <1> QED BY <1>2, <1>7 DEF HsInv, Whole

LEMMA CloseStep ==
  ASSUME NEW bs, NEW F, NEW cur, HsState(bs, F, cur), Close
  PROVE  Whole'
  <1>1. HsState(bs, F, cur)'
    BY DEF HsState, Close, HsType, GivenSoFar, Streamed, Outside
  <1> QED BY <1>1 DEF Whole

LEMMA RecvStep ==
  ASSUME NEW bs, NEW F, NEW cur, HsState(bs, F, cur), Recv
  PROVE  Whole'
  <1>1. /\ rpc = "idle" /\ rpc' = "head" /\ data' = <<>> /\ length' = 0 /\ body' = <<>>
        /\ expect' = 0 /\ wire' = wire /\ sentBodies' = sentBodies /\ given' = given
    BY DEF Recv
  <1>2. HsType'
    BY <1>1, UnitsEmpty DEF HsState, HsType
  <1>3. GivenSoFar' /\ Streamed(bs, F)'
    BY <1>1 DEF HsState, GivenSoFar, Streamed
  <1>4. wire' = F[Len(given) + 1]
    BY <1>1 DEF HsState
  <1>5. HsState(bs, F, cur)'
    BY <1>1, <1>2, <1>3, <1>4 DEF HsState, Outside
  <1> QED BY <1>5 DEF Whole

(* The message is handed on.                                                *)
LEMMA HandStep ==
  ASSUME NEW bs, NEW F, NEW cur, HsState(bs, F, cur), over \in BOOLEAN, Hand
  PROVE  over' \/ Whole'
  <1> SUFFICES ASSUME ~over' PROVE Whole'
    OBVIOUS
  <1>1. /\ rpc = "given" /\ given' = Append(given, body) /\ rpc' \in {"idle", "closed"}
        /\ wire' = wire /\ sentBodies' = sentBodies /\ data' = data /\ length' = length
        /\ expect' = expect /\ body' = body /\ data = <<>>
    BY DEF Hand
  <1>2. PICK m, b, t : IsHere(bs, F, m, b, t) /\ Inside(m, b, t, cur) /\ sentBodies[m] = BodyBytes(m, b)
    BY <1>1, InsideIs DEF Outside
  <1>3. AtEnd(m, b, cur) /\ data \o wire = cur \o t
    BY <1>1, <1>2 DEF Inside, InMessage
  <1>4. HsType
    BY DEF HsState
  <1>5. PICK g \in Nat : g = Len(given)
    BY <1>4 DEF HsType
  <1>6. m = g + 1 /\ m <= Len(sentBodies) /\ m \in Nat /\ t = F[m + 1] /\ t \in Seq(Unit)
    BY <1>2, <1>5 DEF IsHere
  <1>7. wire = t
    <2>1. <<>> \o wire = <<>> \o t
      BY <1>1, <1>3 DEF AtEnd
    <2> QED BY <1>4, <1>6, <2>1, UnitsEmpty DEF HsType
  <1>8. /\ given' \in Seq(Seq(Unit)) /\ Len(given') = g + 1
        /\ \A k \in 1..g : given'[k] = given[k]
        /\ given'[g + 1] = body
    BY <1>1, <1>4, <1>5, AppendProperties DEF HsType
  <1>9. HsType'
    BY <1>1, <1>4, <1>8 DEF HsType
  <1>10. GivenSoFar'
    <2>1. \A k \in 1..g : given[k] = sentBodies[k]
      BY <1>5 DEF HsState, GivenSoFar
    <2>2. body = sentBodies[g + 1]
      BY <1>2, <1>3, <1>6 DEF AtEnd
    <2>3. \A k \in 1..(g + 1) : given'[k] = sentBodies[k]
      <3>1. \A k \in 1..(g + 1) : k \in 1..g \/ k = g + 1
        OBVIOUS
      <3> QED BY <1>8, <2>1, <2>2, <3>1
    <2> QED BY <1>1, <1>6, <1>8, <2>3 DEF GivenSoFar
  <1>11. Streamed(bs, F)'
    BY <1>1 DEF HsState, Streamed
  <1>12. wire' = F[Len(given') + 1]
    BY <1>1, <1>6, <1>7, <1>8
  <1>13. HsState(bs, F, cur)'
    BY <1>1, <1>9, <1>10, <1>11, <1>12 DEF HsState, Outside
  <1> QED BY <1>13 DEF Whole

(* Another message is sent.                                                 *)
LEMMA SendStep ==
  ASSUME NEW bs, NEW F, NEW cur, HsState(bs, F, cur), NEW s, NEW b \in Bodies, Send(s, b)
  PROVE  Whole'
  <1>1. HsType /\ GivenSoFar /\ Streamed(bs, F)
    BY DEF HsState
  <1>2. PICK N \in Nat, g \in Nat : N = Len(sentBodies) /\ g = Len(given) /\ g <= N
    BY <1>1 DEF HsType, GivenSoFar
  <1>3. PICK u, v : u = Units(N + 1, b) /\ v = BodyBytes(N + 1, b)
    OBVIOUS
  <1>4. u \in Seq(Unit) /\ v \in Seq(Unit)
    <2>1. N + 1 \in Int
      OBVIOUS
    <2> QED BY <1>3, <2>1, CodedIs
  <1>5. /\ wire' = wire \o u /\ sentBodies' = Append(sentBodies, v)
        /\ rpc' = rpc /\ data' = data /\ length' = length /\ expect' = expect /\ body' = body
        /\ given' = given
    BY <1>2, <1>3 DEF Send
  <1>6. /\ sentBodies' \in Seq(Seq(Unit)) /\ Len(sentBodies') = N + 1
        /\ \A k \in 1..N : sentBodies'[k] = sentBodies[k]
        /\ sentBodies'[N + 1] = v
    <2>1. sentBodies \in Seq(Seq(Unit))
      BY <1>1 DEF HsType
    <2> QED BY <1>2, <1>4, <1>5, <2>1, AppendProperties
  <1>7. HsType'
    <2>1. wire' \in Seq(Unit)
      BY <1>1, <1>4, <1>5, UnitsJoin DEF HsType
    <2> QED BY <1>1, <1>5, <1>6, <2>1 DEF HsType
  <1>8. GivenSoFar'
    <2>1. \A k \in 1..g : given[k] = sentBodies[k]
      BY <1>1, <1>2 DEF GivenSoFar
    <2>2. \A k \in 1..g : k \in 1..N
      BY <1>2
    <2>3. \A k \in 1..g : given[k] = sentBodies'[k]
      BY ONLY <1>6, <2>1, <2>2
    <2> QED BY <1>2, <1>5, <1>6, <2>3 DEF GivenSoFar
  <1>9. PICK bs2, F2 : /\ bs2 = [k \in 1..(N + 1) |-> IF k = N + 1 THEN b ELSE bs[k]]
                       /\ F2 = [k \in 1..((N + 1) + 1) |-> IF k = (N + 1) + 1 THEN <<>> ELSE F[k] \o u]
    OBVIOUS
  <1>10. /\ bs \in [1..N -> Bodies] /\ F \in [1..(N + 1) -> Seq(Unit)] /\ F[N + 1] = <<>>
         /\ \A k \in 1..N : F[k] = Units(k, bs[k]) \o F[k + 1] /\ sentBodies[k] = BodyBytes(k, bs[k])
    BY <1>1, <1>2 DEF Streamed
  <1>11. /\ bs2 \in [1..(N + 1) -> Bodies] /\ bs2[N + 1] = b /\ \A k \in 1..N : bs2[k] = bs[k]
    <2>1. \A k \in 1..N : bs[k] \in Bodies /\ k # N + 1 /\ k \in 1..(N + 1)
      BY <1>10
    <2>2. \A k \in 1..(N + 1) : k = N + 1 \/ k \in 1..N
      OBVIOUS
    <2>3. N + 1 \in 1..(N + 1)
      OBVIOUS
    <2> QED BY ONLY <1>9, <2>1, <2>2, <2>3, b \in Bodies
  <1>12. /\ F2 \in [1..((N + 1) + 1) -> Seq(Unit)] /\ F2[(N + 1) + 1] = <<>>
         /\ \A k \in 1..(N + 1) : F2[k] = F[k] \o u
    <2>1. \A k \in 1..(N + 1) : F[k] \in Seq(Unit) /\ F[k] \o u \in Seq(Unit)
      BY <1>4, <1>10, UnitsJoin
    <2>2. \A k \in 1..((N + 1) + 1) : k = (N + 1) + 1 \/ k \in 1..(N + 1)
      OBVIOUS
    <2>3. \A k \in 1..(N + 1) : k # (N + 1) + 1 /\ k \in 1..((N + 1) + 1)
      OBVIOUS
    <2>4. (N + 1) + 1 \in 1..((N + 1) + 1)
      OBVIOUS
    <2> QED BY <1>9, <2>1, <2>2, <2>3, <2>4, UnitsEmpty
  <1>13. ASSUME NEW k \in 1..(N + 1)
         PROVE  F2[k] = Units(k, bs2[k]) \o F2[k + 1] /\ sentBodies'[k] = BodyBytes(k, bs2[k])
    <2>1. CASE k = N + 1
      <3>1. F2[k] = <<>> \o u /\ F2[k + 1] = <<>> /\ bs2[k] = b
        BY <1>10, <1>11, <1>12, <2>1
      <3>2. <<>> \o u = u \o <<>>
        BY <1>4, UnitsEmpty
      <3> QED BY <1>3, <1>6, <2>1, <3>1, <3>2
    <2>2. CASE k # N + 1
      <3>1. k \in 1..N /\ k \in Int /\ k + 1 \in 1..(N + 1)
        BY <2>2
      <3>2. PICK x, y : x = Units(k, bs[k]) /\ y = F[k + 1]
        OBVIOUS
      <3>3. x \in Seq(Unit) /\ y \in Seq(Unit)
        <4>1. bs[k] \in Bodies
          BY <1>10, <3>1
        <4> QED BY <1>10, <3>1, <3>2, <4>1, CodedIs
      <3>4. F2[k] = (x \o y) \o u /\ F2[k + 1] = y \o u /\ bs2[k] = bs[k]
            /\ sentBodies'[k] = BodyBytes(k, bs[k])
        BY <1>6, <1>10, <1>11, <1>12, <3>1, <3>2
      <3>5. (x \o y) \o u = x \o (y \o u)
        <4>1. Associate(x, y, u)
          BY ONLY <1>4, <3>3, UnitsAssociate
        <4> QED BY <4>1 DEF Associate
      <3> QED BY <3>2, <3>4, <3>5
    <2> QED BY <2>1, <2>2
  <1>14. Streamed(bs2, F2)'
    <2>1. Len(sentBodies') = N + 1
      BY <1>6
    <2> QED BY <1>11, <1>12, <1>13, <2>1 DEF Streamed
  <1>15. rpc' \in {"idle", "head"} => wire' = F2[Len(given') + 1]
    <2>1. g + 1 \in 1..(N + 1)
      BY <1>2
    <2>2. F2[g + 1] = F[g + 1] \o u
      BY <1>12, <2>1
    <2> QED BY <1>2, <1>5, <2>2 DEF HsState
  <1>16. rpc' = "head" => data' = <<>> /\ body' = <<>> /\ length' = 0
    BY <1>5 DEF HsState
  <1>17. ASSUME rpc' \notin Outside
         PROVE  /\ Len(given') < Len(sentBodies')
                /\ Inside(Len(given) + 1, bs2[Len(given) + 1], F2[Len(given) + 2], cur)'
    <2>1. rpc \notin Outside
      BY <1>5, <1>17 DEF Outside
    <2>2. g < N /\ Inside(g + 1, bs[g + 1], F[g + 2], cur)
      BY <1>2, <2>1 DEF HsState
    <2>3. g + 1 \in 1..N /\ g + 2 \in 1..(N + 1) /\ g < N + 1
      BY <1>2, <2>2
    <2>4. PICK t : t = F[g + 2] /\ t \in Seq(Unit)
      BY <1>10, <2>3
    <2>5. F2[g + 2] = t \o u /\ bs2[g + 1] = bs[g + 1]
      BY <1>11, <1>12, <2>3, <2>4
    <2>6. data \in Seq(Unit) /\ wire \in Seq(Unit) /\ cur \in Seq(Unit) /\ data \o wire = cur \o t
      BY <1>1, <2>2, <2>4 DEF HsType, Inside
    <2>7. data \o (wire \o u) = cur \o (t \o u)
      <3>1. (data \o wire) \o u = data \o (wire \o u)
        <4>1. u \in Seq(Unit) /\ data \in Seq(Unit) /\ wire \in Seq(Unit)
          BY <1>4, <2>6
        <4>2. Associate(data, wire, u)
          BY ONLY <4>1, UnitsAssociate
        <4> QED BY <4>2 DEF Associate
      <3>2. (cur \o t) \o u = cur \o (t \o u)
        <4>1. u \in Seq(Unit) /\ t \in Seq(Unit) /\ cur \in Seq(Unit)
          BY <1>4, <2>4, <2>6
        <4>2. Associate(cur, t, u)
          BY ONLY <4>1, UnitsAssociate
        <4> QED BY <4>2 DEF Associate
      <3> QED BY <2>6, <3>1, <3>2
    <2>8. InMessage(g + 1, bs[g + 1], cur)'
      BY <1>5, <2>2 DEF Inside, InMessage, AtHead, AtBody, AtRest, AtChunks, AtChunk, AtChunkRest, AtEnd
    <2>9. Inside(g + 1, bs[g + 1], t \o u, cur)'
      BY <1>5, <2>6, <2>7, <2>8 DEF Inside
    <2> QED BY <1>2, <1>5, <1>6, <2>3, <2>5, <2>9
  <1>18. HsState(bs2, F2, cur)'
    BY <1>7, <1>8, <1>14, <1>15, <1>16, <1>17 DEF HsState
  <1> QED BY <1>18 DEF Whole

-----------------------------------------------------------------------------
(* HttpStream.  Reading a head.                                             *)

(* What is left of the head, before a read.                                 *)
HeadOnTheWay(m, b, t, h) ==
  /\ HeadLeft(FieldOf(b), length, h) /\ wire = h \o (Coded(m, b) \o t)
  /\ data = <<>> /\ body = <<>>
  /\ rpc = "head" => h[1] = <<"line">>

LEMMA HeadIsComing ==
  ASSUME NEW bs, NEW F, NEW cur, HsState(bs, F, cur), rpc \in {"head", "inhead"}, wire # <<>>
  PROVE  \E m, b, t, h : IsHere(bs, F, m, b, t) /\ HeadOnTheWay(m, b, t, h)
  <1>1. HsType /\ GivenSoFar /\ Streamed(bs, F)
    BY DEF HsState
  <1>2. CASE rpc = "head"
    <2>1. wire = F[Len(given) + 1] /\ data = <<>> /\ body = <<>> /\ length = 0
      BY <1>2 DEF HsState
    <2>2. Len(given) < Len(sentBodies)
      <3>1. PICK g \in Nat, N \in Nat : g = Len(given) /\ N = Len(sentBodies) /\ g <= N
        BY <1>1 DEF HsType, GivenSoFar
      <3>2. F[N + 1] = <<>>
        BY <1>1, <3>1 DEF Streamed
      <3>3. g # N
        BY <2>1, <3>1, <3>2
      <3> QED BY <3>1, <3>3
    <2>3. PICK m, b, t : IsHere(bs, F, m, b, t) /\ F[m] = Units(m, b) \o t
      BY <1>1, <2>2, HereIs
    <2>4. m \in Int /\ b \in Bodies /\ t \in Seq(Unit) /\ m = Len(given) + 1
      BY <2>3 DEF IsHere
    <2>5. PICK h, q : h = HeadUnits(FieldOf(b)) /\ q = Coded(m, b)
      OBVIOUS
    <2>6. h \in Seq(Unit) /\ q \in Seq(Unit) /\ Units(m, b) = h \o q /\ FieldOf(b) \in Int
      BY <2>4, <2>5, CodedIs
    <2>7. wire = h \o (q \o t)
      <3>1. (h \o q) \o t = h \o (q \o t)
        <4>1. Associate(h, q, t)
          BY ONLY <2>4, <2>6, UnitsAssociate
        <4> QED BY <4>1 DEF Associate
      <3> QED BY <2>1, <2>3, <2>4, <2>6, <3>1
    <2>8. HeadLeft(FieldOf(b), length, h) /\ h[1] = <<"line">>
      <3>1. HeadLeft(FieldOf(b), 0, h) /\ 0 \in Int
        BY <2>5 DEF HeadLeft
      <3> QED BY <2>1, <2>5, <2>6, <3>1, HeadIsCut
    <2> QED BY <2>1, <2>3, <2>5, <2>7, <2>8 DEF HeadOnTheWay
  <1>3. CASE rpc = "inhead"
    <2>1. PICK m, b, t : IsHere(bs, F, m, b, t) /\ Inside(m, b, t, cur)
      BY <1>3, InsideIs DEF Outside
    <2>2. data \o wire = cur \o t /\ AtHead(m, b, cur)
      BY <1>3, <2>1 DEF Inside, InMessage
    <2>3. PICK h : HeadLeft(FieldOf(b), length, h) /\ cur = h \o Coded(m, b)
      BY <2>2 DEF AtHead
    <2>4. m \in Int /\ b \in Bodies /\ t \in Seq(Unit)
      BY <2>1 DEF IsHere
    <2>5. PICK q : q = Coded(m, b)
      OBVIOUS
    <2>6. q \in Seq(Unit) /\ FieldOf(b) \in Int
      BY <2>4, <2>5, CodedIs
    <2>7. h \in Seq(Unit)
      BY <1>1, <2>3, <2>6, HeadIsCut DEF HsType
    <2>8. wire = h \o (q \o t)
      <3>1. (h \o q) \o t = h \o (q \o t)
        <4>1. Associate(h, q, t)
          BY ONLY <2>4, <2>6, <2>7, UnitsAssociate
        <4> QED BY <4>1 DEF Associate
      <3>2. wire \in Seq(Unit) /\ <<>> \o wire = cur \o t
        BY <1>1, <2>2 DEF HsType, AtHead
      <3> QED BY <2>3, <2>5, <3>1, <3>2, UnitsEmpty
    <2> QED BY <1>3, <2>1, <2>2, <2>3, <2>5, <2>8 DEF HeadOnTheWay, AtHead
  <1> QED BY <1>2, <1>3

(* What one buffer has of a head.                                           *)
EndsOf(d, n) == PlacesOf(d, n, <<"end">>)
EndOf(d, n) ==
  IF EndsOf(d, n) = {} THEN n
  ELSE CHOOSE i \in EndsOf(d, n) : \A j \in EndsOf(d, n) : i <= j

HeadRead(d, n) ==
  /\ length' = IF Cardinality(Halves(d, EndOf(d, n))) = 2
               THEN d[CHOOSE i \in Halves(d, EndOf(d, n)) : TRUE][2] ELSE length
  /\ torn' = (torn \/ Cardinality(Halves(d, EndOf(d, n))) = 1)
  /\ data' = Rest(d, EndOf(d, n))
  /\ rpc' = IF rpc = "head" /\ d[1] # <<"line">> THEN "closed"
            ELSE IF EndsOf(d, n) = {} THEN "inhead" ELSE "body"

LEMMA ReadHeadDoes ==
  ASSUME NEW n, ReadHead(n)
  PROVE  /\ rpc \in {"head", "inhead"} /\ n \in 1..MinOf(BufSize, Len(wire))
         /\ HeadRead(Prefix(wire, n), n)
         /\ wire' = Rest(wire, n) /\ body' = body /\ expect' = expect
         /\ sentBodies' = sentBodies /\ given' = given
  BY DEF ReadHead, HeadRead, EndOf, EndsOf, PlacesOf, Halves

LEMMA AtMost ==
  ASSUME NEW k \in Int, NEW l \in Nat, NEW n \in 1..MinOf(k, l)
  PROVE  n \in Nat /\ n <= l /\ n >= 1 /\ n <= k
  BY DEF MinOf

LEMMA ReadHeadStep ==
  ASSUME NEW bs, NEW F, NEW cur, HsState(bs, F, cur), torn \in BOOLEAN, NEW n, ReadHead(n)
  PROVE  torn' \/ Whole'
  <1> SUFFICES ASSUME ~torn' PROVE Whole'
    OBVIOUS
  <1>1. /\ rpc \in {"head", "inhead"} /\ n \in 1..MinOf(BufSize, Len(wire))
        /\ HeadRead(Prefix(wire, n), n)
        /\ wire' = Rest(wire, n) /\ body' = body /\ expect' = expect
        /\ sentBodies' = sentBodies /\ given' = given
    BY ReadHeadDoes
  <1>2. HsType
    BY DEF HsState
  <1>3. wire \in Seq(Unit) /\ Len(wire) \in Nat /\ BufSize \in Int
    BY <1>2, HsAssumption DEF HsType
  <1>4. n \in Nat /\ n <= Len(wire) /\ n >= 1
    BY <1>1, <1>3, AtMost
  <1>5. PICK d, w : d = Prefix(wire, n) /\ w = Rest(wire, n)
    OBVIOUS
  <1>6. d \in Seq(Unit) /\ w \in Seq(Unit) /\ Len(d) = n /\ wire = d \o w
    BY <1>3, <1>4, <1>5, CutInTwo
  <1>7. PICK m, b, t, h : IsHere(bs, F, m, b, t) /\ HeadOnTheWay(m, b, t, h)
    <2>1. wire # <<>>
      BY <1>4
    <2> QED BY <1>1, <2>1, HeadIsComing
  <1>8. m \in Int /\ b \in Bodies /\ t \in Seq(Unit)
    BY <1>7 DEF IsHere
  <1>9. PICK f, q : f = FieldOf(b) /\ q = Coded(m, b)
    OBVIOUS
  <1>10. f \in Int /\ q \in Seq(Unit)
    BY <1>8, <1>9, CodedIs
  <1>11. /\ HeadLeft(f, length, h) /\ wire = h \o (q \o t) /\ data = <<>> /\ body = <<>>
         /\ rpc = "head" => h[1] = <<"line">>
    BY <1>7, <1>9 DEF HeadOnTheWay
  <1>12. /\ h \in Seq(Unit) /\ Len(h) \in 1..4 /\ h[Len(h)] = <<"end">>
         /\ \A i \in 1..(Len(h) - 1) : h[i] # <<"end">>
         /\ \A e \in 1..Len(h) : CutHead(f, length, h, e)
    BY <1>2, <1>10, <1>11, HeadIsCut DEF HsType
  <1>13. PICK k \in 1..4 : k = Len(h)
    BY <1>12
  <1>14. PICK r : r = q \o t
    OBVIOUS
  <1>15. r \in Seq(Unit) /\ d \o w = h \o r
    BY <1>6, <1>8, <1>10, <1>11, <1>14, UnitsJoin
  <1>16. PICK e : e = EndOf(d, n)
    OBVIOUS
  <1>17. /\ length' = IF Cardinality(Halves(d, e)) = 2
                      THEN d[CHOOSE i \in Halves(d, e) : TRUE][2] ELSE length
         /\ torn' = (torn \/ Cardinality(Halves(d, e)) = 1)
         /\ data' = Rest(d, e)
         /\ rpc' = IF rpc = "head" /\ d[1] # <<"line">> THEN "closed"
                   ELSE IF EndsOf(d, n) = {} THEN "inhead" ELSE "body"
    BY <1>1, <1>5, <1>16 DEF HeadRead
  <1>18. ASSUME e \in 1..k, \A i \in 1..e : d[i] = h[i]
         PROVE  /\ rpc' = IF EndsOf(d, n) = {} THEN "inhead" ELSE "body"
                /\ length' \in Int
                /\ IF e = k THEN length' = f ELSE HeadLeft(f, length', Rest(h, e))
    <2>1. d[1] = h[1]
      BY <1>18
    <2>2. Halves(d, e) = Halves(h, e)
      BY <1>18 DEF Halves
    <2>3. CutHead(f, length, h, e)
      BY <1>12, <1>13, <1>18
    <2>4. Cardinality(Halves(h, e)) # 1
      BY <1>17, <2>2
    <2>5. Cardinality(Halves(h, e)) = 2 => (CHOOSE i \in Halves(h, e) : TRUE) \in Halves(h, e)
      BY Counts
    <2>6. length' = IF Cardinality(Halves(h, e)) = 2
                    THEN h[CHOOSE i \in Halves(h, e) : TRUE][2] ELSE length
      <3>1. Cardinality(Halves(h, e)) = 2 =>
              d[CHOOSE i \in Halves(h, e) : TRUE] = h[CHOOSE i \in Halves(h, e) : TRUE]
        BY <1>18, <2>5 DEF Halves
      <3> QED BY <1>17, <2>2, <3>1
    <2>7. IF e = k THEN length' = f ELSE HeadLeft(f, length', Rest(h, e))
      BY <1>13, <2>3, <2>4, <2>6 DEF CutHead
    <2>8. length' \in Int
      <3>1. e # k => length' \in {0, f}
        BY <2>7 DEF HeadLeft
      <3> QED BY <1>10, <2>7, <3>1
    <2> QED BY <1>11, <1>17, <2>1, <2>7, <2>8
  <1>19. ASSUME length' \in Int, data' \in Seq(Unit) PROVE HsType'
    BY <1>1, <1>2, <1>5, <1>6, <1>19 DEF HsType
  <1>20. CASE k <= n
    <2>1. /\ Rest(d, k) \o w = r /\ \A i \in 1..k : d[i] = h[i]
          /\ Rest(d, k) \in Seq(Unit)
      <3>1. /\ d \in Seq(Unit) /\ w \in Seq(Unit) /\ h \in Seq(Unit) /\ r \in Seq(Unit)
            /\ SameStream(d, w, h, r) /\ k = Len(h) /\ k <= Len(d)
        BY <1>6, <1>12, <1>13, <1>15, <1>20 DEF SameStream
      <3>2. Peeled(d, w, h, r, k)
        BY ONLY <3>1, Peel
      <3> QED BY <3>2 DEF Peeled
    <2>2. StandsFirst(d, n, <<"end">>, k)
      <3>1. k \in 1..n /\ k \in 1..k /\ \A i \in 1..(k - 1) : i \in 1..k
        BY <1>4, <1>20
      <3>2. h[k] = <<"end">> /\ \A i \in 1..(k - 1) : h[i] # <<"end">>
        BY <1>12, <1>13
      <3> QED BY <2>1, <3>1, <3>2 DEF StandsFirst
    <2>3. EndsOf(d, n) # {} /\ e = k
      <3>1. n \in Nat
        BY <1>4
      <3>2. /\ EndsOf(d, n) # {}
            /\ (CHOOSE i \in EndsOf(d, n) : \A j \in EndsOf(d, n) : i <= j) = k
        BY <2>2, <3>1, FirstAt DEF EndsOf
      <3> QED BY <1>16, <3>2 DEF EndOf
    <2>4. rpc' = "body" /\ length' = f /\ length' \in Int
      BY <1>13, <1>18, <2>1, <2>3
    <2>5. data' \o wire' = q \o t /\ data' \in Seq(Unit)
      BY <1>1, <1>5, <1>14, <1>17, <2>1, <2>3
    <2>6. Inside(m, b, t, q)'
      BY <1>1, <1>9, <1>10, <1>11, <2>4, <2>5 DEF Inside, InMessage, AtBody
    <2> QED BY <1>1, <1>7, <1>19, <2>4, <2>5, <2>6, InsideKept
  <1>21. CASE n < k
    <2>1. /\ Rest(h, n) \o r = w /\ \A i \in 1..n : h[i] = d[i]
          /\ Rest(h, n) \in Seq(Unit)
      <3>1. /\ d \in Seq(Unit) /\ w \in Seq(Unit) /\ h \in Seq(Unit) /\ r \in Seq(Unit)
            /\ SameStream(h, r, d, w) /\ n = Len(d) /\ n <= Len(h)
        BY <1>6, <1>12, <1>13, <1>15, <1>21 DEF SameStream
      <3>2. Peeled(h, r, d, w, n)
        BY ONLY <3>1, Peel
      <3> QED BY <3>2 DEF Peeled
    <2>2. EndsOf(d, n) = {}
      <3>1. \A i \in 1..n : i \in 1..(k - 1)
        BY <1>4, <1>21
      <3>2. \A i \in 1..n : d[i] # <<"end">>
        BY <1>12, <1>13, <2>1, <3>1
      <3> QED BY <3>2 DEF EndsOf, PlacesOf
    <2>3. e = n /\ e \in 1..k /\ e # k
      BY <1>4, <1>16, <1>21, <2>2 DEF EndOf
    <2>4. rpc' = "inhead" /\ HeadLeft(f, length', Rest(h, n)) /\ length' \in Int
      BY <1>18, <2>1, <2>2, <2>3
    <2>5. data' = <<>> /\ data' \in Seq(Unit)
      <3>1. Rest(d, n) \in Seq(Unit) /\ Len(Rest(d, n)) = 0
        BY <1>4, <1>6, CutInTwo
      <3> QED BY <1>17, <2>3, <3>1, UnitsEmpty
    <2>6. PICK g : g = Rest(h, n)
      OBVIOUS
    <2>7. g \in Seq(Unit) /\ g \o q \in Seq(Unit) /\ (g \o q) \o t = w
      <3>1. g \in Seq(Unit) /\ q \in Seq(Unit) /\ t \in Seq(Unit)
        BY <1>8, <1>10, <2>1, <2>6
      <3>2. (g \o q) \o t = g \o (q \o t) /\ g \o q \in Seq(Unit)
        <4>1. Associate(g, q, t)
          BY ONLY <3>1, UnitsAssociate
        <4>2. g \o q \in Seq(Unit)
          BY ONLY <3>1, UnitsJoin
        <4> QED BY <4>1, <4>2 DEF Associate
      <3> QED BY <1>14, <2>1, <2>6, <3>1, <3>2
    <2>8. data' \o wire' = (g \o q) \o t
      BY <1>1, <1>5, <1>6, <2>5, <2>7, UnitsEmpty
    <2>9. Inside(m, b, t, g \o q)'
      BY <1>1, <1>9, <1>11, <2>4, <2>5, <2>6, <2>7, <2>8 DEF Inside, InMessage, AtHead
    <2> QED BY <1>1, <1>7, <1>19, <2>4, <2>5, <2>9, InsideKept
  <1> QED BY <1>4, <1>13, <1>20, <1>21

-----------------------------------------------------------------------------
(* HttpStream.  A body with Content-Length.                                 *)

LEMMA BeginChunksStep ==
  ASSUME NEW bs, NEW F, NEW cur, HsState(bs, F, cur), BeginChunks
  PROVE  Whole'
  <1>1. /\ rpc = "body" /\ length = Chunked /\ rpc' = "chunk" /\ wire' = wire /\ data' = data
        /\ sentBodies' = sentBodies /\ given' = given /\ length' = length /\ body' = body
        /\ expect' = expect
    BY DEF BeginChunks
  <1>2. HsType /\ HsType'
    BY <1>1 DEF HsState, HsType
  <1>3. PICK m, b, t : IsHere(bs, F, m, b, t) /\ Inside(m, b, t, cur)
    BY <1>1, InsideIs DEF Outside
  <1>4. AtBody(m, b, cur) /\ data \o wire = cur \o t /\ cur \in Seq(Unit)
    BY <1>1, <1>3 DEF Inside, InMessage
  <1>5. m \in Int /\ b \in Bodies
    BY <1>3 DEF IsHere
  <1>6. b.how = "chunked" /\ b.how # "length"
    <2>1. FieldOf(b) = Chunked
      BY <1>1, <1>4 DEF AtBody
    <2>2. FieldOf(b) \notin Nat
      BY <2>1, ChunkedIs
    <2> QED BY <1>5, <2>2, BodyIs
  <1>7. Bytes(m, 0, 0) = <<>>
    <2>1. 0 \in Int /\ 0 \in Nat
      OBVIOUS
    <2>2. Bytes(m, 0, 0) \in Seq(Unit) /\ Len(Bytes(m, 0, 0)) = 0
      BY <1>5, <2>1, BytesAre
    <2> QED BY <2>2, UnitsEmpty
  <1>8. body = Bytes(m, 0, 0) /\ ChunksLeft(m, b, 0, cur)
    BY <1>4, <1>6, <1>7 DEF AtBody, Coded, ChunksLeft
  <1>9. AtChunks(m, b, cur)'
    BY <1>1, <1>6, <1>8 DEF AtChunks
  <1>10. Inside(m, b, t, cur)'
    BY <1>1, <1>4, <1>9 DEF Inside, InMessage
  <1> QED BY <1>1, <1>2, <1>3, <1>10, InsideKept

LEMMA TakeBodyStep ==
  ASSUME NEW bs, NEW F, NEW cur, HsState(bs, F, cur), over \in BOOLEAN, TakeBody
  PROVE  over' \/ Whole'
  <1> SUFFICES ASSUME ~over' PROVE Whole'
    OBVIOUS
  <1>1. /\ rpc = "body" /\ length # Chunked /\ data' = <<>> /\ wire' = wire
        /\ sentBodies' = sentBodies /\ given' = given /\ length' = length
        /\ body' = Prefix(data, MinOf(length, Len(data)))
        /\ expect' = (IF length > Len(data) THEN length - Len(data) ELSE 0)
        /\ over' = (over \/ Len(data) > length)
        /\ rpc' = (IF length > Len(data) THEN "fixsize" ELSE "given")
    BY DEF TakeBody
  <1>2. HsType
    BY DEF HsState
  <1>3. PICK m, b, t : IsHere(bs, F, m, b, t) /\ Inside(m, b, t, cur)
    BY <1>1, InsideIs DEF Outside
  <1>4. AtBody(m, b, cur) /\ data \o wire = cur \o t /\ cur \in Seq(Unit)
    BY <1>1, <1>3 DEF Inside, InMessage
  <1>5. m \in Int /\ b \in Bodies /\ t \in Seq(Unit)
    BY <1>3 DEF IsHere
  <1>6. b.how = "length" /\ length = Total(b) /\ length \in Nat
    BY <1>1, <1>4, <1>5, BodyIs DEF AtBody
  <1>7. cur = BodyBytes(m, b) /\ Len(cur) = length
    BY <1>4, <1>5, <1>6, CodedIs DEF AtBody, Coded
  <1>8. PICK k : k = Len(data)
    OBVIOUS
  <1>9. k \in Nat /\ k <= length
    <2>1. k \in Nat
      BY <1>2, <1>8 DEF HsType
    <2>2. ~(Len(data) > length)
      BY <1>1
    <2>3. ~(k > length)
      BY <1>8, <2>2
    <2> QED BY <1>6, <2>1, <2>3
  <1>10. Peeled(cur, t, data, wire, k)
    <2>1. /\ cur \in Seq(Unit) /\ t \in Seq(Unit) /\ data \in Seq(Unit) /\ wire \in Seq(Unit)
          /\ SameStream(cur, t, data, wire) /\ k = Len(data) /\ k <= Len(cur)
      BY <1>2, <1>4, <1>5, <1>7, <1>8, <1>9 DEF SameStream, HsType
    <2> QED BY ONLY <2>1, Peel
  <1>11. PICK r : r = Rest(cur, k)
    OBVIOUS
  <1>12. r \in Seq(Unit) /\ r \o t = wire /\ Len(r) = length - k /\ cur = data \o r
    BY <1>7, <1>10, <1>11 DEF Peeled
  <1>13. body' = data
    <2>1. MinOf(length, Len(data)) = k
      BY <1>6, <1>8, <1>9 DEF MinOf
    <2>2. /\ data \in Seq(Unit) /\ wire \in Seq(Unit) /\ SameStream(data, wire, data, wire)
          /\ k = Len(data) /\ k <= Len(data)
      BY <1>2, <1>8, <1>9 DEF SameStream, HsType
    <2>3. Peeled(data, wire, data, wire, k)
      BY ONLY <2>2, Peel
    <2> QED BY <1>1, <2>1, <2>3 DEF Peeled
  <1>14. data' \o wire' = r \o t
    BY <1>1, <1>2, <1>12, UnitsEmpty DEF HsType
  <1>15. HsType'
    BY <1>1, <1>2, <1>6, <1>8, <1>9, <1>13, UnitsEmpty DEF HsType
  <1>16. InMessage(m, b, r)'
    <2>1. CASE length > k
      <3>1. rpc' = "fixsize" /\ expect' = length - k
        BY <1>1, <1>8, <2>1
      <3>2. AtRest(m, b, r)'
        BY <1>1, <1>7, <1>12, <1>13, <3>1 DEF AtRest
      <3> QED BY <3>1, <3>2 DEF InMessage
    <2>2. CASE ~(length > k)
      <3>1. rpc' = "given"
        BY <1>1, <1>8, <2>2
      <3>2. Len(r) = 0
        BY <1>6, <1>9, <1>12, <2>2
      <3>3. r = <<>>
        BY <1>12, <3>2, UnitsEmpty
      <3>4. body' = cur
        BY <1>2, <1>12, <1>13, <3>3, UnitsEmpty DEF HsType
      <3>5. AtEnd(m, b, r)'
        BY <1>7, <3>3, <3>4 DEF AtEnd
      <3> QED BY <3>1, <3>5 DEF InMessage
    <2> QED BY <2>1, <2>2
  <1>17. Inside(m, b, t, r)'
    BY <1>12, <1>14, <1>16 DEF Inside
  <1> QED BY <1>1, <1>3, <1>15, <1>17, InsideKept

(* What a read takes from the wire when no unit is buffered.                *)
LEMMA ReadOf ==
  ASSUME HsType, data = <<>>, NEW cur \in Seq(Unit), NEW t \in Seq(Unit), data \o wire = cur \o t,
         NEW n \in Nat, n <= Len(wire), NEW d, NEW w, d = Prefix(wire, n), w = Rest(wire, n)
  PROVE  d \in Seq(Unit) /\ w \in Seq(Unit) /\ Len(d) = n /\ SameStream(d, w, cur, t)
  <1>1. d \in Seq(Unit) /\ w \in Seq(Unit) /\ Len(d) = n /\ wire = d \o w
    BY CutInTwo DEF HsType
  <1>2. wire = cur \o t
    BY UnitsEmpty DEF HsType
  <1> QED BY <1>1, <1>2 DEF SameStream

LEMMA ReadFixSizeStep ==
  ASSUME NEW bs, NEW F, NEW cur, HsState(bs, F, cur), NEW n, ReadFixSize(n)
  PROVE  Whole'
  <1>1. /\ rpc = "fixsize" /\ n \in 1..MinOf(expect, Len(wire)) /\ data' = data
        /\ sentBodies' = sentBodies /\ given' = given /\ length' = length
        /\ body' = body \o Prefix(wire, n) /\ wire' = Rest(wire, n) /\ expect' = expect - n
        /\ rpc' = (IF expect = n THEN "given" ELSE "fixsize")
    BY DEF ReadFixSize
  <1>2. HsType
    BY DEF HsState
  <1>3. PICK m, b, t : IsHere(bs, F, m, b, t) /\ Inside(m, b, t, cur)
    BY <1>1, InsideIs DEF Outside
  <1>4. AtRest(m, b, cur) /\ data \o wire = cur \o t /\ cur \in Seq(Unit)
    BY <1>1, <1>3 DEF Inside, InMessage
  <1>5. t \in Seq(Unit)
    BY <1>3 DEF IsHere
  <1>6. data = <<>> /\ Len(cur) = expect /\ body \o cur = BodyBytes(m, b)
    BY <1>4 DEF AtRest
  <1>7. n \in Nat /\ n <= Len(wire) /\ n <= expect /\ expect \in Int
    <2>1. expect \in Int /\ Len(wire) \in Nat
      BY <1>2 DEF HsType
    <2> QED BY <1>1, <2>1, AtMost
  <1>8. PICK d, w : d = Prefix(wire, n) /\ w = Rest(wire, n)
    OBVIOUS
  <1>9. d \in Seq(Unit) /\ w \in Seq(Unit) /\ Len(d) = n /\ SameStream(d, w, cur, t)
    BY <1>2, <1>4, <1>5, <1>6, <1>7, <1>8, ReadOf
  <1>10. Peeled(cur, t, d, w, n)
    <2>1. /\ cur \in Seq(Unit) /\ t \in Seq(Unit) /\ d \in Seq(Unit) /\ w \in Seq(Unit)
          /\ SameStream(cur, t, d, w) /\ n = Len(d) /\ n <= Len(cur)
      BY <1>4, <1>5, <1>6, <1>7, <1>9 DEF SameStream
    <2> QED BY ONLY <2>1, Peel
  <1>11. PICK r : r = Rest(cur, n)
    OBVIOUS
  <1>12. r \in Seq(Unit) /\ r \o t = w /\ Len(r) = expect - n /\ cur = d \o r
    BY <1>6, <1>10, <1>11 DEF Peeled
  <1>13. body' = body \o d /\ body' \in Seq(Unit) /\ body' \o r = BodyBytes(m, b)
    <2>1. body \in Seq(Unit) /\ d \in Seq(Unit) /\ r \in Seq(Unit)
      BY <1>2, <1>9, <1>12 DEF HsType
    <2>2. (body \o d) \o r = body \o (d \o r) /\ body \o d \in Seq(Unit)
      <3>1. Associate(body, d, r)
        BY ONLY <2>1, UnitsAssociate
      <3>2. body \o d \in Seq(Unit)
        BY ONLY <2>1, UnitsJoin
      <3> QED BY <3>1, <3>2 DEF Associate
    <2> QED BY <1>1, <1>6, <1>8, <1>12, <2>2
  <1>14. data' \o wire' = r \o t
    BY <1>1, <1>6, <1>8, <1>9, <1>12, UnitsEmpty
  <1>15. HsType'
    BY <1>1, <1>2, <1>7, <1>8, <1>9, <1>13 DEF HsType
  <1>16. InMessage(m, b, r)'
    <2>1. CASE expect # n
      <3>1. AtRest(m, b, r)'
        BY <1>1, <1>6, <1>12, <1>13 DEF AtRest
      <3> QED BY <1>1, <2>1, <3>1 DEF InMessage
    <2>2. CASE expect = n
      <3>1. r = <<>>
        BY <1>7, <1>12, <2>2, UnitsEmpty
      <3>2. body' = BodyBytes(m, b)
        BY <1>13, <3>1, UnitsEmpty
      <3>3. AtEnd(m, b, r)'
        BY <3>1, <3>2 DEF AtEnd
      <3> QED BY <1>1, <2>2, <3>3 DEF InMessage
    <2> QED BY <2>1, <2>2
  <1>17. Inside(m, b, t, r)'
    BY <1>12, <1>14, <1>16 DEF Inside
  <1> QED BY <1>1, <1>3, <1>15, <1>17, InsideKept

-----------------------------------------------------------------------------
(* HttpStream.  The header of a chunk.                                      *)

LEMMA HeaderStep ==
  ASSUME NEW bs, NEW F, NEW cur, HsState(bs, F, cur), rpc = "chunk", torn \in BOOLEAN,
         NEW m, NEW b, NEW t, IsHere(bs, F, m, b, t), Inside(m, b, t, cur),
         NEW d \in Seq(Unit), Len(d) # 0, NEW w \in Seq(Unit), SameStream(d, w, cur, t),
         ExecuteChunkHeader(d), wire' = w,
         sentBodies' = sentBodies, given' = given, body' = body, expect' = expect
  PROVE  torn' \/ Whole'
  <1>1. HsType
    BY DEF HsState
  <1>2. AtChunks(m, b, cur) /\ cur \in Seq(Unit)
    BY DEF Inside, InMessage
  <1>3. m \in Int /\ b \in Bodies /\ t \in Seq(Unit)
    BY DEF IsHere
  <1>4. b.how = "chunked"
    BY <1>2 DEF AtChunks
  <1>5. PICK x \in Nat : body = Bytes(m, 0, x) /\ ChunksLeft(m, b, x, cur)
    BY <1>2 DEF AtChunks
  <1>6. PICK n, u : IsNextChunk(m, b, x, cur, n, u)
    BY <1>3, <1>4, <1>5, NextChunk
  <1>7. PICK y : y = (Bytes(m, x, n) \o CRLF) \o u
    OBVIOUS
  <1>8. PICK h : h = SizeLine(n)
    OBVIOUS
  <1>9. n \in 0..3 /\ u \in Seq(Unit) /\ AfterOne(m, b, x, n, u) /\ cur = h \o y
    BY <1>6, <1>7, <1>8 DEF IsNextChunk
  <1>10. IsSizeLine(h, n) /\ h \in Seq(Unit)
    BY <1>8, <1>9, SizeLineIs DEF IsSizeLine
  <1>11. y \in Seq(Unit)
    <2>1. x \in Int
      OBVIOUS
    <2> QED BY ONLY <1>3, <1>7, <1>9, <2>1, ChunkIs
  <1>12. PICK k \in 3..4 : k = Len(h)
    BY <1>10 DEF IsSizeLine
  <1>13. /\ h[k] = <<"lf">> /\ h[1][1] = "digit"
         /\ \A i \in 1..(k - 1) : h[i] # <<"lf">>
    BY <1>10, <1>12 DEF IsSizeLine
  <1>14. PICK v : v = y \o t
    OBVIOUS
  <1>15. v \in Seq(Unit) /\ d \o w = h \o v
    <2>1. (h \o y) \o t = h \o (y \o t)
      <3>1. Associate(h, y, t)
        BY ONLY <1>3, <1>10, <1>11, UnitsAssociate
      <3> QED BY <3>1 DEF Associate
    <2>2. y \o t \in Seq(Unit)
      BY ONLY <1>3, <1>11, UnitsJoin
    <2> QED BY <1>9, <1>14, <2>1, <2>2 DEF SameStream
  <1>16. PICK l \in Nat \ {0} : l = Len(d)
    OBVIOUS
  <1>17. PICK e : e = HeaderOf(d)
    OBVIOUS
  <1>18. HeaderOf(d) = IF PlacesOf(d, l, <<"lf">>) = {} THEN 0
                       ELSE CHOOSE i \in PlacesOf(d, l, <<"lf">>) :
                              \A j \in PlacesOf(d, l, <<"lf">>) : i <= j
    BY <1>16 DEF HeaderOf, PlacesOf
  <1>19. CASE k <= l
    <2>1. Peeled(d, w, h, v, k)
      <3>1. /\ d \in Seq(Unit) /\ w \in Seq(Unit) /\ h \in Seq(Unit) /\ v \in Seq(Unit)
            /\ SameStream(d, w, h, v) /\ k = Len(h) /\ k <= Len(d)
        BY <1>10, <1>12, <1>15, <1>16, <1>19 DEF SameStream
      <3> QED BY ONLY <3>1, Peel
    <2>2. \A i \in 1..k : d[i] = h[i]
      BY <2>1 DEF Peeled
    <2>3. StandsFirst(d, l, <<"lf">>, k)
      <3>1. k \in 1..l /\ k \in 1..k /\ \A i \in 1..(k - 1) : i \in 1..k
        BY <1>19
      <3> QED BY <1>13, <2>2, <3>1 DEF StandsFirst
    <2>4. HeaderOf(d) = k
      <3>1. l \in Nat
        OBVIOUS
      <3>2. /\ PlacesOf(d, l, <<"lf">>) # {}
            /\ (CHOOSE i \in PlacesOf(d, l, <<"lf">>) : \A j \in PlacesOf(d, l, <<"lf">>) : i <= j) = k
        BY <2>3, <3>1, FirstAt
      <3> QED BY <1>18, <3>2
    <2>5. d[1][1] = "digit" /\ k # 0
      BY <1>13, <2>2
    <2>6. rpc' = "chunkdata" /\ data' = Rest(d, k) /\ length' = Number(Prefix(d, k - 2))
      BY <2>4, <2>5 DEF ExecuteChunkHeader
    <2>7. length' = n
      <3>1. /\ n \in 0..3 /\ IsSizeLine(h, n) /\ d \in Seq(Unit) /\ Len(h) <= Len(d)
            /\ \A i \in 1..Len(h) : d[i] = h[i]
        BY <1>9, <1>10, <1>12, <1>16, <1>19, <2>2
      <3>2. Number(Prefix(d, Len(h) - 2)) = n
        BY ONLY <3>1, SizeIsRead
      <3> QED BY <1>12, <2>6, <3>2
    <2>8. data' \o wire' = y \o t /\ data' \in Seq(Unit)
      BY <1>14, <2>1, <2>6 DEF Peeled
    <2>9. HsType'
      BY <1>1, <1>9, <2>7, <2>8 DEF HsType
    <2>10. AtChunk(m, b, y)'
      BY <1>4, <1>5, <1>7, <1>9, <2>7 DEF AtChunk
    <2>11. Inside(m, b, t, y)'
      BY <1>11, <2>6, <2>8, <2>10 DEF Inside, InMessage
    <2> QED BY <2>9, <2>11, InsideKept
  <1>20. CASE ~(k <= l)
    <2>1. Peeled(h, v, d, w, l)
      <3>1. /\ d \in Seq(Unit) /\ w \in Seq(Unit) /\ h \in Seq(Unit) /\ v \in Seq(Unit)
            /\ SameStream(h, v, d, w) /\ l = Len(d) /\ l <= Len(h)
        BY <1>10, <1>12, <1>15, <1>16, <1>20 DEF SameStream
      <3> QED BY ONLY <3>1, Peel
    <2>2. \A i \in 1..l : h[i] = d[i]
      BY <2>1 DEF Peeled
    <2>3. \A i \in 1..l : d[i] # <<"lf">>
      <3>1. \A i \in 1..l : i \in 1..(k - 1)
        BY <1>20
      <3> QED BY <1>13, <2>2, <3>1
    <2>4. HeaderOf(d) = 0
      <3>1. PlacesOf(d, l, <<"lf">>) = {}
        BY <2>3 DEF PlacesOf
      <3> QED BY <1>18, <3>1
    <2>5. d[1][1] = "digit"
      <3>1. 1 \in 1..l
        OBVIOUS
      <3> QED BY <1>13, <2>2, <3>1
    <2> QED BY <2>4, <2>5 DEF ExecuteChunkHeader
  <1> QED BY <1>19, <1>20

LEMMA ChunkHeaderStep ==
  ASSUME NEW bs, NEW F, NEW cur, HsState(bs, F, cur), torn \in BOOLEAN, ChunkHeader
  PROVE  torn' \/ Whole'
  <1>1. /\ rpc = "chunk" /\ data # <<>> /\ ExecuteChunkHeader(data) /\ wire' = wire
        /\ sentBodies' = sentBodies /\ given' = given /\ body' = body /\ expect' = expect
    BY DEF ChunkHeader
  <1>2. data \in Seq(Unit) /\ wire \in Seq(Unit)
    BY DEF HsState, HsType
  <1>3. PICK m, b, t : IsHere(bs, F, m, b, t) /\ Inside(m, b, t, cur)
    BY <1>1, InsideIs DEF Outside
  <1>4. SameStream(data, wire, cur, t)
    BY <1>3 DEF Inside, SameStream
  <1>5. Len(data) # 0
    BY <1>1, <1>2, UnitsEmpty
  <1> QED BY <1>1, <1>2, <1>3, <1>4, <1>5, HeaderStep

LEMMA ReadChunkHeaderStep ==
  ASSUME NEW bs, NEW F, NEW cur, HsState(bs, F, cur), torn \in BOOLEAN, NEW n, ReadChunkHeader(n)
  PROVE  torn' \/ Whole'
  <1>1. /\ rpc = "insize" \/ (rpc = "chunk" /\ data = <<>>)
        /\ n \in 1..MinOf(BufSize, Len(wire)) /\ ExecuteChunkHeader(Prefix(wire, n))
        /\ wire' = Rest(wire, n)
        /\ sentBodies' = sentBodies /\ given' = given /\ body' = body /\ expect' = expect
    BY DEF ReadChunkHeader
  <1>2. HsType
    BY DEF HsState
  <1>3. PICK m, b, t : IsHere(bs, F, m, b, t) /\ Inside(m, b, t, cur)
    BY <1>1, InsideIs DEF Outside
  <1>4. rpc = "chunk" /\ data = <<>>
    BY <1>1, <1>3 DEF Inside, InMessage
  <1>5. n \in Nat /\ n <= Len(wire) /\ n >= 1
    <2>1. BufSize \in Int /\ Len(wire) \in Nat
      BY <1>2, HsAssumption DEF HsType
    <2> QED BY <1>1, <2>1, AtMost
  <1>6. cur \in Seq(Unit) /\ t \in Seq(Unit) /\ data \o wire = cur \o t
    BY <1>3 DEF Inside, IsHere
  <1>7. PICK d, w : d = Prefix(wire, n) /\ w = Rest(wire, n)
    OBVIOUS
  <1>8. d \in Seq(Unit) /\ w \in Seq(Unit) /\ Len(d) = n /\ SameStream(d, w, cur, t)
    BY <1>2, <1>4, <1>5, <1>6, <1>7, ReadOf
  <1>9. Len(d) # 0 /\ ExecuteChunkHeader(d) /\ wire' = w
    BY <1>1, <1>5, <1>7, <1>8
  <1> QED BY <1>1, <1>3, <1>4, <1>8, <1>9, HeaderStep

-----------------------------------------------------------------------------
(* HttpStream.  The bytes of a chunk.                                       *)

LEMMA PrefixOfJoin ==
  ASSUME NEW p \in Seq(Unit), NEW q \in Seq(Unit), NEW s, s = p \o q, NEW k, k = Len(p)
  PROVE  Prefix(s, k) = p
  <1>1. s \in Seq(Unit) /\ <<>> \in Seq(Unit) /\ s \o <<>> = p \o q /\ k <= Len(s)
    BY UnitsJoin, UnitsEmpty
  <1>2. SameStream(s, <<>>, p, q)
    BY <1>1 DEF SameStream
  <1>3. Peeled(s, <<>>, p, q, k)
    BY ONLY <1>1, <1>2, p \in Seq(Unit), q \in Seq(Unit), k = Len(p), Peel
  <1> QED BY <1>3 DEF Peeled

LEMMA AfterChunkIs ==
  ASSUME NEW m \in Int, NEW b \in Bodies, b.how = "chunked", NEW x \in Nat, NEW n \in 0..3,
         NEW u, AfterOne(m, b, x, n, u), body' = Bytes(m, 0, x + n),
         rpc' = IF n = 0 THEN "given" ELSE "chunk"
  PROVE  InMessage(m, b, u)'
  <1>1. CASE n = 0
    <2>1. u = <<>> /\ x = Total(b) /\ x + n = x
      BY <1>1 DEF AfterOne
    <2>2. body' = BodyBytes(m, b)
      BY <2>1, CodedIs
    <2>3. AtEnd(m, b, u)'
      BY <2>1, <2>2 DEF AtEnd
    <2> QED BY <1>1, <2>3 DEF InMessage
  <1>2. CASE n # 0
    <2>1. ChunksLeft(m, b, x + n, u) /\ x + n \in Nat
      BY <1>2 DEF AfterOne
    <2>2. AtChunks(m, b, u)'
      BY <2>1 DEF AtChunks
    <2> QED BY <1>2, <2>2 DEF InMessage
  <1> QED BY <1>1, <1>2

(* The chunk that is being read, with its line end.                         *)
IsChunkHere(m, b, t, cur, x, u, p, y, v) ==
  /\ m \in Int /\ b \in Bodies /\ b.how = "chunked" /\ length \in 0..3 /\ x \in Nat
  /\ u \in Seq(Unit) /\ AfterOne(m, b, x, length, u) /\ body = Bytes(m, 0, x)
  /\ p = Bytes(m, x, length) /\ p \in Seq(Unit) /\ Len(p) = length
  /\ y = p \o CRLF /\ y \in Seq(Unit) /\ Len(y) = length + 2
  /\ t \in Seq(Unit) /\ v = u \o t /\ v \in Seq(Unit) /\ SameStream(data, wire, y, v)
  /\ body \o p = Bytes(m, 0, x + length)

LEMMA ChunkIsHere ==
  ASSUME NEW bs, NEW F, NEW cur, HsState(bs, F, cur), rpc = "chunkdata",
         NEW m, NEW b, NEW t, IsHere(bs, F, m, b, t), Inside(m, b, t, cur)
  PROVE  \E x, u, p, y, v : IsChunkHere(m, b, t, cur, x, u, p, y, v)
  <1>1. AtChunk(m, b, cur) /\ data \o wire = cur \o t
    BY DEF Inside, InMessage
  <1>2. m \in Int /\ b \in Bodies /\ t \in Seq(Unit)
    BY DEF IsHere
  <1>3. b.how = "chunked" /\ length \in 0..3 /\ length \in Nat
    BY <1>1 DEF AtChunk
  <1>4. PICK x \in Nat, u \in Seq(Unit) :
          /\ AfterOne(m, b, x, length, u) /\ body = Bytes(m, 0, x)
          /\ cur = (Bytes(m, x, length) \o CRLF) \o u
    BY <1>1 DEF AtChunk
  <1>5. PICK p, y, v : p = Bytes(m, x, length) /\ y = p \o CRLF /\ v = u \o t
    OBVIOUS
  <1>6. p \in Seq(Unit) /\ Len(p) = length
    <2>1. m \in Int /\ x \in Int /\ length \in Nat
      BY <1>2, <1>3
    <2>2. Bytes(m, x, length) \in Seq(Unit) /\ Len(Bytes(m, x, length)) = length
      BY ONLY <2>1, BytesAre
    <2> QED BY <1>5, <2>2
  <1>7. y \in Seq(Unit) /\ Len(y) = length + 2
    <2>1. PICK e : e = CRLF
      OBVIOUS
    <2>2. p \in Seq(Unit) /\ e \in Seq(Unit) /\ Len(e) = 2
      BY <1>6, <2>1, LineEndIs
    <2>3. p \o e \in Seq(Unit) /\ Len(p \o e) = Len(p) + Len(e)
      BY ONLY <2>2, UnitsJoin
    <2> QED BY <1>5, <1>6, <2>1, <2>2, <2>3
  <1>8. v \in Seq(Unit) /\ data \o wire = y \o v
    <2>1. u \in Seq(Unit)
      OBVIOUS
    <2>2. (y \o u) \o t = y \o (u \o t) /\ u \o t \in Seq(Unit)
      <3>1. Associate(y, u, t)
        BY ONLY <1>2, <1>7, <2>1, UnitsAssociate
      <3>2. u \o t \in Seq(Unit)
        BY ONLY <1>2, <1>7, <2>1, UnitsJoin
      <3> QED BY <3>1, <3>2 DEF Associate
    <2> QED BY <1>1, <1>4, <1>5, <2>2
  <1>9. body \o p = Bytes(m, 0, x + length)
    BY <1>2, <1>3, <1>4, <1>5, BytesFollow
  <1>10. IsChunkHere(m, b, t, cur, x, u, p, y, v)
    BY <1>2, <1>3, <1>4, <1>5, <1>6, <1>7, <1>8, <1>9 DEF IsChunkHere, SameStream
  <1> QED BY <1>10

LEMMA ChunkInBufferStep ==
  ASSUME NEW bs, NEW F, NEW cur, HsState(bs, F, cur), ChunkInBuffer
  PROVE  Whole'
  <1>1. /\ rpc = "chunkdata" /\ length + 2 <= Len(data)
        /\ body' = body \o Prefix(data, length) /\ data' = Rest(data, length + 2)
        /\ rpc' = AfterChunk /\ wire' = wire /\ length' = length /\ expect' = expect
        /\ sentBodies' = sentBodies /\ given' = given
    BY DEF ChunkInBuffer
  <1>2. HsType
    BY DEF HsState
  <1>3. PICK m, b, t : IsHere(bs, F, m, b, t) /\ Inside(m, b, t, cur)
    BY <1>1, InsideIs DEF Outside
  <1>4. PICK x, u, p, y, v : IsChunkHere(m, b, t, cur, x, u, p, y, v)
    BY <1>1, <1>3, ChunkIsHere
  <1>5. PICK k : k = length + 2
    OBVIOUS
  <1>6. Peeled(data, wire, y, v, k)
    <2>1. /\ data \in Seq(Unit) /\ wire \in Seq(Unit) /\ y \in Seq(Unit) /\ v \in Seq(Unit)
          /\ SameStream(data, wire, y, v) /\ k = Len(y) /\ k <= Len(data)
      BY <1>1, <1>2, <1>4, <1>5 DEF HsType, IsChunkHere
    <2> QED BY ONLY <2>1, Peel
  <1>7. PICK r : r = Rest(data, k)
    OBVIOUS
  <1>8. r \in Seq(Unit) /\ r \o wire = v /\ data = y \o r
    BY <1>6, <1>7 DEF Peeled
  <1>9. Prefix(data, length) = p
    <2>1. p \in Seq(Unit) /\ CRLF \in Seq(Unit) /\ r \in Seq(Unit)
      BY <1>4, <1>8, LineEndIs DEF IsChunkHere
    <2>2. (p \o CRLF) \o r = p \o (CRLF \o r) /\ CRLF \o r \in Seq(Unit)
      <3>1. Associate(p, CRLF, r)
        BY ONLY <2>1, UnitsAssociate
      <3>2. CRLF \o r \in Seq(Unit)
        BY ONLY <2>1, UnitsJoin
      <3> QED BY <3>1, <3>2 DEF Associate
    <2>3. PICK q : q = CRLF \o r
      OBVIOUS
    <2>4. data = p \o q /\ q \in Seq(Unit) /\ length = Len(p)
      BY <1>4, <1>8, <2>2, <2>3 DEF IsChunkHere
    <2> QED BY ONLY <2>1, <2>4, PrefixOfJoin
  <1>10. body' = Bytes(m, 0, x + length)
    BY <1>1, <1>4, <1>9 DEF IsChunkHere
  <1>11. rpc' = IF length = 0 THEN "given" ELSE "chunk"
    BY <1>1 DEF AfterChunk
  <1>12. InMessage(m, b, u)'
    BY <1>4, <1>10, <1>11, AfterChunkIs DEF IsChunkHere
  <1>13. body' \in Seq(Unit)
    <2>1. m \in Int /\ 0 \in Int /\ x + length \in Nat
      BY <1>4 DEF IsChunkHere
    <2> QED BY <1>10, <2>1, BytesAre
  <1>14. data' \in Seq(Unit) /\ data' \o wire' = u \o t
    BY <1>1, <1>4, <1>5, <1>7, <1>8 DEF IsChunkHere
  <1>15. HsType'
    BY <1>1, <1>2, <1>13, <1>14 DEF HsType
  <1>16. Inside(m, b, t, u)'
    BY <1>4, <1>12, <1>14 DEF Inside, IsChunkHere
  <1> QED BY <1>1, <1>3, <1>15, <1>16, InsideKept

LEMMA ChunkBeyondBufferStep ==
  ASSUME NEW bs, NEW F, NEW cur, HsState(bs, F, cur), ChunkBeyondBuffer
  PROVE  Whole'
  <1>1. /\ rpc = "chunkdata" /\ length + 2 > Len(data)
        /\ body' = body \o data /\ data' = <<>> /\ expect' = (length - Len(data)) + 2
        /\ rpc' = "chunkrest" /\ wire' = wire /\ length' = length
        /\ sentBodies' = sentBodies /\ given' = given
    BY DEF ChunkBeyondBuffer
  <1>2. HsType
    BY DEF HsState
  <1>3. PICK m, b, t : IsHere(bs, F, m, b, t) /\ Inside(m, b, t, cur)
    BY <1>1, InsideIs DEF Outside
  <1>4. PICK x, u, p, y, v : IsChunkHere(m, b, t, cur, x, u, p, y, v)
    BY <1>1, <1>3, ChunkIsHere
  <1>5. PICK l \in Nat : l = Len(data) /\ l <= length + 2
    BY <1>1, <1>2, <1>4 DEF HsType, IsChunkHere
  <1>6. Peeled(y, v, data, wire, l)
    <2>1. /\ data \in Seq(Unit) /\ wire \in Seq(Unit) /\ y \in Seq(Unit) /\ v \in Seq(Unit)
          /\ SameStream(y, v, data, wire) /\ l = Len(data) /\ l <= Len(y)
      BY <1>2, <1>4, <1>5 DEF HsType, IsChunkHere, SameStream
    <2> QED BY ONLY <2>1, Peel
  <1>7. PICK w : w = Rest(y, l)
    OBVIOUS
  <1>8. w \in Seq(Unit) /\ w \o v = wire /\ y = data \o w /\ Len(w) = Len(y) - l
    BY <1>6, <1>7 DEF Peeled
  <1>9. body \in Seq(Unit) /\ data \in Seq(Unit) /\ CRLF \in Seq(Unit) /\ p \in Seq(Unit)
    BY <1>2, <1>4, LineEndIs DEF HsType, IsChunkHere
  <1>10. body' \o w = Bytes(m, 0, x + length) \o CRLF
    <2>1. (body \o data) \o w = body \o (data \o w)
      <3>1. Associate(body, data, w)
        BY ONLY <1>8, <1>9, UnitsAssociate
      <3> QED BY <3>1 DEF Associate
    <2>2. (body \o p) \o CRLF = body \o (p \o CRLF)
      <3>1. Associate(body, p, CRLF)
        BY ONLY <1>9, UnitsAssociate
      <3> QED BY <3>1 DEF Associate
    <2> QED BY <1>1, <1>4, <1>8, <2>1, <2>2 DEF IsChunkHere
  <1>11. u \in Seq(Unit) /\ t \in Seq(Unit) /\ v = u \o t
    BY <1>4 DEF IsChunkHere
  <1>12. (w \o u) \o t = w \o (u \o t) /\ w \o u \in Seq(Unit)
    <2>1. Associate(w, u, t)
      BY ONLY <1>8, <1>11, UnitsAssociate
    <2>2. w \o u \in Seq(Unit)
      BY ONLY <1>8, <1>11, UnitsJoin
    <2> QED BY <2>1, <2>2 DEF Associate
  <1>13. body' \in Seq(Unit)
    BY <1>1, <1>9, UnitsJoin
  <1>14. expect' = Len(w) /\ expect' \in Int
    BY <1>1, <1>4, <1>5, <1>8 DEF IsChunkHere
  <1>15. HsType'
    BY <1>1, <1>2, <1>13, <1>14, UnitsEmpty DEF HsType
  <1>16. AtChunkRest(m, b, w \o u)'
    <2>1. /\ b.how = "chunked" /\ length' \in 0..3 /\ data' = <<>> /\ x \in Nat
          /\ AfterOne(m, b, x, length', u)
      BY <1>1, <1>4 DEF IsChunkHere
    <2>2. body' \o w = Bytes(m, 0, x + length') \o CRLF /\ Len(w) = expect'
      BY <1>1, <1>10, <1>14
    <2> QED BY <1>8, <1>11, <2>1, <2>2 DEF AtChunkRest
  <1>17. data' \o wire' = (w \o u) \o t
    <2>1. <<>> \o wire = wire
      BY <1>2, UnitsEmpty DEF HsType
    <2> QED BY <1>1, <1>8, <1>11, <1>12, <2>1
  <1>18. Inside(m, b, t, w \o u)'
    BY <1>1, <1>12, <1>16, <1>17 DEF Inside, InMessage
  <1> QED BY <1>1, <1>3, <1>15, <1>18, InsideKept

LEMMA ReadChunkRestStep ==
  ASSUME NEW bs, NEW F, NEW cur, HsState(bs, F, cur), NEW n, ReadChunkRest(n)
  PROVE  Whole'
  <1>1. PICK z : z = body \o Prefix(wire, n)
    OBVIOUS
  <1>2. /\ rpc = "chunkrest" /\ n \in 1..MinOf(MinOf(expect, BufSize), Len(wire))
        /\ wire' = Rest(wire, n) /\ expect' = expect - n
        /\ expect = n => body' = Prefix(z, Len(z) - 2) /\ rpc' = AfterChunk
        /\ expect # n => body' = z /\ rpc' = rpc
        /\ data' = data /\ length' = length
        /\ sentBodies' = sentBodies /\ given' = given
    BY <1>1 DEF ReadChunkRest
  <1>3. HsType
    BY DEF HsState
  <1>4. PICK m, b, t : IsHere(bs, F, m, b, t) /\ Inside(m, b, t, cur)
    BY <1>2, InsideIs DEF Outside
  <1>5. AtChunkRest(m, b, cur) /\ data \o wire = cur \o t /\ cur \in Seq(Unit)
    BY <1>2, <1>4 DEF Inside, InMessage
  <1>6. t \in Seq(Unit) /\ m \in Int /\ b \in Bodies
    BY <1>4 DEF IsHere
  <1>7. b.how = "chunked" /\ length \in 0..3 /\ data = <<>>
    BY <1>5 DEF AtChunkRest
  <1>8. PICK x \in Nat, w \in Seq(Unit), u \in Seq(Unit) :
          /\ AfterOne(m, b, x, length, u) /\ body \o w = Bytes(m, 0, x + length) \o CRLF
          /\ Len(w) = expect /\ cur = w \o u
    BY <1>5 DEF AtChunkRest
  <1>9. n \in Nat /\ n <= Len(wire) /\ n <= expect /\ expect \in Int
    <2>1. expect \in Int /\ Len(wire) \in Nat /\ BufSize \in Int
      BY <1>3, HsAssumption DEF HsType
    <2> QED BY <1>2, <2>1 DEF MinOf
  <1>10. PICK d, a : d = Prefix(wire, n) /\ a = Rest(wire, n)
    OBVIOUS
  <1>11. d \in Seq(Unit) /\ a \in Seq(Unit) /\ Len(d) = n /\ SameStream(d, a, cur, t)
    BY <1>3, <1>5, <1>6, <1>7, <1>9, <1>10, ReadOf
  <1>12. PICK v : v = u \o t
    OBVIOUS
  <1>13. w \in Seq(Unit) /\ u \in Seq(Unit)
    OBVIOUS
  <1>14. v \in Seq(Unit) /\ cur \o t = w \o v
    <2>1. (w \o u) \o t = w \o (u \o t) /\ u \o t \in Seq(Unit)
      <3>1. Associate(w, u, t)
        BY ONLY <1>6, <1>13, UnitsAssociate
      <3>2. u \o t \in Seq(Unit)
        BY ONLY <1>6, <1>13, UnitsJoin
      <3> QED BY <3>1, <3>2 DEF Associate
    <2> QED BY <1>8, <1>12, <2>1
  <1>15. Peeled(w, v, d, a, n)
    <2>1. /\ w \in Seq(Unit) /\ v \in Seq(Unit) /\ d \in Seq(Unit) /\ a \in Seq(Unit)
          /\ SameStream(w, v, d, a) /\ n = Len(d) /\ n <= Len(w)
      BY <1>8, <1>9, <1>11, <1>13, <1>14 DEF SameStream
    <2> QED BY ONLY <2>1, Peel
  <1>16. PICK r : r = Rest(w, n)
    OBVIOUS
  <1>17. r \in Seq(Unit) /\ r \o v = a /\ w = d \o r /\ Len(r) = expect - n
    BY <1>8, <1>15, <1>16 DEF Peeled
  <1>18. PICK p : p = Bytes(m, 0, x + length)
    OBVIOUS
  <1>19. p \in Seq(Unit)
    <2>1. m \in Int /\ 0 \in Int /\ x + length \in Nat
      BY <1>6, <1>7
    <2> QED BY <1>18, <2>1, BytesAre
  <1>20. z = body \o d /\ z \in Seq(Unit) /\ z \o r = p \o CRLF
    <2>1. body \in Seq(Unit) /\ d \in Seq(Unit) /\ r \in Seq(Unit)
      BY <1>3, <1>11, <1>17 DEF HsType
    <2>2. (body \o d) \o r = body \o (d \o r) /\ body \o d \in Seq(Unit)
      <3>1. Associate(body, d, r)
        BY ONLY <2>1, UnitsAssociate
      <3>2. body \o d \in Seq(Unit)
        BY ONLY <2>1, UnitsJoin
      <3> QED BY <3>1, <3>2 DEF Associate
    <2> QED BY <1>1, <1>8, <1>10, <1>17, <1>18, <2>2
  <1>21. CASE expect = n
    <2>1. r = <<>>
      BY <1>9, <1>17, <1>21, UnitsEmpty
    <2>2. PICK e : e = CRLF
      OBVIOUS
    <2>3. e \in Seq(Unit) /\ Len(e) = 2
      BY <2>2, LineEndIs
    <2>4. z = p \o e
      BY <1>20, <2>1, <2>2, UnitsEmpty
    <2>5. Len(z) - 2 = Len(p)
      <3>1. Len(p \o e) = Len(p) + Len(e) /\ Len(p) \in Nat
        BY ONLY <1>19, <2>3, UnitsJoin
      <3> QED BY <2>3, <2>4, <3>1
    <2>6. body' = p
      <3>1. PICK k : k = Len(z) - 2
        OBVIOUS
      <3>2. p \in Seq(Unit) /\ e \in Seq(Unit) /\ z = p \o e /\ k = Len(p)
        BY <1>19, <2>3, <2>4, <2>5, <3>1
      <3>3. Prefix(z, k) = p
        BY ONLY <3>2, PrefixOfJoin
      <3> QED BY <1>2, <1>21, <3>1, <3>3
    <2>7. rpc' = IF length = 0 THEN "given" ELSE "chunk"
      BY <1>2, <1>21 DEF AfterChunk
    <2>8. InMessage(m, b, u)'
      BY <1>6, <1>7, <1>8, <1>18, <2>6, <2>7, AfterChunkIs
    <2>9. a = v
      BY <1>14, <1>17, <2>1, UnitsEmpty
    <2>10. data' \o wire' = u \o t
      BY <1>2, <1>7, <1>10, <1>12, <1>14, <2>9, UnitsEmpty
    <2>11. Inside(m, b, t, u)'
      BY <2>8, <2>10 DEF Inside
    <2>12. HsType'
      BY <1>2, <1>3, <1>9, <1>10, <1>11, <1>19, <2>6 DEF HsType
    <2> QED BY <1>2, <1>4, <2>11, <2>12, InsideKept
  <1>22. CASE expect # n
    <2>1. body' = z /\ rpc' = "chunkrest"
      BY <1>2, <1>22
    <2>2. (r \o u) \o t = r \o (u \o t) /\ r \o u \in Seq(Unit)
      <3>1. Associate(r, u, t)
        BY ONLY <1>6, <1>13, <1>17, UnitsAssociate
      <3>2. r \o u \in Seq(Unit)
        BY ONLY <1>6, <1>13, <1>17, UnitsJoin
      <3> QED BY <3>1, <3>2 DEF Associate
    <2>3. data' \o wire' = (r \o u) \o t
      BY <1>2, <1>7, <1>10, <1>11, <1>12, <1>17, <2>2, UnitsEmpty
    <2>4. AtChunkRest(m, b, r \o u)'
      <3>1. body' \o r = Bytes(m, 0, x + length') \o CRLF /\ Len(r) = expect'
        BY <1>2, <1>17, <1>18, <1>20, <2>1
      <3>2. /\ b.how = "chunked" /\ length' \in 0..3 /\ data' = <<>>
            /\ AfterOne(m, b, x, length', u)
        BY <1>2, <1>7, <1>8
      <3> QED BY <1>17, <3>1, <3>2 DEF AtChunkRest
    <2>5. Inside(m, b, t, r \o u)'
      BY <2>1, <2>2, <2>3, <2>4 DEF Inside, InMessage
    <2>6. HsType'
      BY <1>2, <1>3, <1>9, <1>10, <1>11, <1>20, <2>1 DEF HsType
    <2> QED BY <1>2, <1>4, <2>5, <2>6, InsideKept
  <1> QED BY <1>21, <1>22

-----------------------------------------------------------------------------
(* HttpStream.  Every step, and the theorem.                                *)

LEMMA FlagsStep ==
  ASSUME torn \in BOOLEAN, over \in BOOLEAN, [HsNext]_hsvars
  PROVE  torn' \in BOOLEAN /\ over' \in BOOLEAN /\ (torn => torn') /\ (over => over')
  <1>1. CASE UNCHANGED hsvars
    BY <1>1 DEF hsvars
  <1>2. ASSUME NEW s, NEW b, Send(s, b)
        PROVE  torn' = torn /\ over' = over
    BY <1>2 DEF Send
  <1>3. CASE Recv \/ BeginChunks \/ ChunkInBuffer \/ ChunkBeyondBuffer \/ ReadFails
    BY <1>3 DEF Recv, BeginChunks, ChunkInBuffer, ChunkBeyondBuffer, ReadFails, Close
  <1>4. CASE TakeBody \/ Hand
    BY <1>4 DEF TakeBody, Hand
  <1>5. ASSUME NEW d, ExecuteChunkHeader(d)
        PROVE  torn' = torn \/ torn' = TRUE
    BY <1>5 DEF ExecuteChunkHeader
  <1>6. CASE ChunkHeader
    BY <1>5, <1>6 DEF ChunkHeader
  <1>7. ASSUME NEW n, ReadHead(n)
        PROVE  torn' \in BOOLEAN /\ (torn => torn') /\ over' = over
    BY <1>7 DEF ReadHead
  <1>8. ASSUME NEW n, ReadFixSize(n) \/ ReadChunkRest(n)
        PROVE  torn' = torn /\ over' = over
    BY <1>8 DEF ReadFixSize, ReadChunkRest
  <1>9. ASSUME NEW n, ReadChunkHeader(n)
        PROVE  (torn' = torn \/ torn' = TRUE) /\ over' = over
    BY <1>5, <1>9 DEF ReadChunkHeader
  <1> QED BY <1>1, <1>2, <1>3, <1>4, <1>6, <1>7, <1>8, <1>9 DEF HsNext

LEMMA BodiesStep == HsInv /\ [HsNext]_hsvars => HsInv'
  <1> SUFFICES ASSUME HsInv, [HsNext]_hsvars PROVE HsInv'
    OBVIOUS
  <1>1. torn \in BOOLEAN /\ over \in BOOLEAN
    BY DEF HsInv
  <1>2. torn' \in BOOLEAN /\ over' \in BOOLEAN /\ (torn => torn') /\ (over => over')
    BY <1>1, FlagsStep
  <1> SUFFICES ASSUME ~torn', ~over' PROVE Whole'
    BY <1>2 DEF HsInv
  <1>3. PICK bs, F, cur : HsState(bs, F, cur)
    BY <1>2 DEF HsInv, Whole
  <1>4. CASE UNCHANGED hsvars
    <2>1. HsState(bs, F, cur)'
      BY <1>3, <1>4 DEF hsvars, HsState, HsType, GivenSoFar, Streamed, Inside, InMessage,
           AtHead, AtBody, AtRest, AtChunks, AtChunk, AtChunkRest, AtEnd
    <2> QED BY <2>1 DEF Whole
  <1>5. CASE \E s \in {"request", "response"}, b \in Bodies : Send(s, b)
    BY <1>3, <1>5, SendStep
  <1>6. CASE Recv
    BY <1>3, <1>6, RecvStep
  <1>7. CASE TakeBody
    BY <1>1, <1>3, <1>7, TakeBodyStep
  <1>8. CASE BeginChunks
    BY <1>3, <1>8, BeginChunksStep
  <1>9. CASE ChunkHeader
    BY <1>1, <1>3, <1>9, ChunkHeaderStep
  <1>10. CASE ChunkInBuffer
    BY <1>3, <1>10, ChunkInBufferStep
  <1>11. CASE ChunkBeyondBuffer
    BY <1>3, <1>11, ChunkBeyondBufferStep
  <1>12. CASE Hand
    BY <1>1, <1>3, <1>12, HandStep
  <1>13. CASE ReadFails
    BY <1>3, <1>13, CloseStep DEF ReadFails
  <1>14. ASSUME NEW n \in 1..BufSize, ReadHead(n) PROVE Whole'
    BY <1>1, <1>3, <1>14, ReadHeadStep
  <1>15. ASSUME NEW n \in 1..BufSize, ReadFixSize(n) PROVE Whole'
    BY <1>3, <1>15, ReadFixSizeStep
  <1>16. ASSUME NEW n \in 1..BufSize, ReadChunkHeader(n) PROVE Whole'
    BY <1>1, <1>3, <1>16, ReadChunkHeaderStep
  <1>17. ASSUME NEW n \in 1..BufSize, ReadChunkRest(n) PROVE Whole'
    BY <1>3, <1>17, ReadChunkRestStep
  <1> QED BY <1>4, <1>5, <1>6, <1>7, <1>8, <1>9, <1>10, <1>11, <1>12, <1>13,
             <1>14, <1>15, <1>16, <1>17 DEF HsNext

LEMMA BodiesFollow == HsInv => BodiesInOrder
  <1> SUFFICES ASSUME HsInv, ~torn, ~over PROVE given = Prefix(sentBodies, Len(given))
    BY DEF BodiesInOrder
  <1>1. HsType /\ GivenSoFar
    BY DEF HsInv, Whole, HsState
  <1>2. PICK g \in Nat, N \in Nat : g = Len(given) /\ N = Len(sentBodies) /\ g <= N
    BY <1>1 DEF HsType, GivenSoFar
  <1>3. \A k \in 1..g : given[k] = sentBodies[k]
    BY <1>1, <1>2 DEF GivenSoFar
  <1>4. \A k \in 1..g : sentBodies[k] \in Seq(Unit)
    <2>1. \A k \in 1..N : sentBodies[k] \in Seq(Unit)
      BY <1>1, <1>2 DEF HsType
    <2> QED BY <1>2, <2>1
  <1>5. PICK p : p = SubSeq(sentBodies, 1, g)
    OBVIOUS
  <1>6. p \in Seq(Seq(Unit)) /\ Len(p) = g /\ \A k \in 1..g : p[k] = sentBodies[k]
    <2>1. /\ SubSeq(sentBodies, 1, g) \in Seq(Seq(Unit))
          /\ Len(SubSeq(sentBodies, 1, g)) = IF 1 <= g THEN g - 1 + 1 ELSE 0
          /\ \A k \in 1..(g - 1 + 1) : SubSeq(sentBodies, 1, g)[k] = sentBodies[1 + k - 1]
      BY ONLY <1>4, g \in Nat, 1 \in Int, g \in Int, SubSeqProperties
    <2> QED BY <1>5, <2>1
  <1>7. \A k \in 1..g : given[k] = p[k]
    BY <1>3, <1>6
  <1>8. given = p
    BY <1>1, <1>2, <1>6, <1>7, SeqEqual DEF HsType
  <1> QED BY <1>2, <1>5, <1>8 DEF Prefix

(* The bodies that recvRequest and recvResponse hand on are those the peer  *)
(* sent, whole and in order, however the reads cut the stream, for any size *)
(* of the buffer and any number of messages, with Content-Length and any    *)
(* length or in one or two chunks of up to three bytes: as long as no read  *)
(* ends inside a framing field or a chunk header, which the parsers lose,   *)
(* and no buffer holds the beginning of the next message, which is dropped. *)
THEOREM BodiesComeInOrder == HsSpec => []BodiesInOrder
  <1>1. HsInit => HsInv
    BY BodiesAtFirst
  <1>2. HsInv /\ [HsNext]_hsvars => HsInv'
    BY BodiesStep
  <1>3. HsInv => BodiesInOrder
    BY BodiesFollow
  <1> QED BY <1>1, <1>2, <1>3, PTL DEF HsSpec
=============================================================================
