----------------------------- MODULE ByteArray ------------------------------
(***************************************************************************)
(* ByteArray (src/bytearray.cc): a chain of blocks with one position for   *)
(* reading and writing, and the block m_cur the position is in.  Numbers   *)
(* are scaled down: a byte has 2 bits, one of which is the continuation    *)
(* bit of a varint, a fixed-size integer has 2 bytes, and a varint 3 bits. *)
(*                                                                         *)
(* m_capacity is Len(nodes) * BaseSize: clear and addCapacity change both  *)
(* together.  Copies of m_cur, npos and ncap run along the chain in step   *)
(* with the bytes, so byte k behind the position is in block BlockAt.      *)
(***************************************************************************)
EXTENDS Integers, Sequences, FiniteSets, SequencesExt

CONSTANTS BaseSize,    \* m_baseSize
          MaxBlocks,   \* bound: blocks of a chain
          MaxPuts,     \* bound: calls that write
          FixedValues, VarintValues, ZigzagValues, StringValues   \* what the program writes

Byte == 0..3

(* Values have the width of their type; the length of a string is a fixed-  *)
(* size integer.                                                            *)
ASSUME BaAssumption ==
  /\ BaseSize \in Nat \ {0} /\ MaxBlocks \in Nat /\ MaxPuts \in Nat
  /\ FixedValues \subseteq 0..15 /\ VarintValues \subseteq 0..7 /\ ZigzagValues \subseteq -4..3
  /\ \A s \in StringValues : s \in Seq(Byte) /\ Len(s) <= 15

VARIABLES
  nodes,       \* the chain from m_root: a sequence of blocks
  m_cur,       \* number of a block, or NULL
  m_position, m_size,
  m_endian,    \* "big" or "little"; the host is little-endian
  items,       \* what was put and not overwritten since (history)
  misread,     \* a get returned something else than was put (history)
  puts,        \* calls that wrote
  fault,       \* a null block was followed: the program is gone
  file         \* writeToFile: what it has written and where it is

bavars == <<nodes, m_cur, m_position, m_size, m_endian, items, misread, puts, fault, file>>

NULL == 0
Junk == -1                                   \* memory nobody wrote
FreshNode == [o \in 0..(BaseSize - 1) |-> Junk]

NoFile == [open |-> FALSE, out |-> <<>>, cur |-> NULL, pos |-> 0, left |-> 0, bad |-> FALSE]

Chain == [nodes |-> nodes, cur |-> m_cur, pos |-> m_position, size |-> m_size]
BlockOrNull(n, i) == IF i > Len(n) THEN NULL ELSE i
BlockAt(cur, pos, k) == cur + (((pos % BaseSize) + k) \div BaseSize)
Larger(a, b) == IF a > b THEN a ELSE b
-----------------------------------------------------------------------------

(* Mutant: m_cur is not moved to the first new block.                       *)
addCapacityStays(b, n) ==
  LET old_cap == Len(b.nodes) * BaseSize - b.pos
      count == (n - old_cap + BaseSize - 1) \div BaseSize
  IN IF n = 0 \/ old_cap >= n THEN b
     ELSE [b EXCEPT !.nodes = @ \o [i \in 1..count |-> FreshNode]]

addCapacity(b, n) ==
  LET old_cap == Len(b.nodes) * BaseSize - b.pos
      count == (n - old_cap + BaseSize - 1) \div BaseSize
  IN IF n = 0 \/ old_cap >= n THEN b
     ELSE [b EXCEPT !.nodes = @ \o [i \in 1..count |-> FreshNode],
                    !.cur = IF old_cap = 0 THEN Len(b.nodes) + 1 ELSE @]

(* The bytes s copied to the chain from block b.cur on.                     *)
CopyIn(b, s) ==
  [i \in 1..Len(b.nodes) |-> [o \in 0..(BaseSize - 1) |->
     LET k == ((i - b.cur) * BaseSize) + o - (b.pos % BaseSize)
     IN IF k \in 0..(Len(s) - 1) THEN s[k + 1] ELSE b.nodes[i][o]]]

write(b0, s) ==
  LET b == addCapacity(b0, Len(s))
      n == Len(s)
  IN IF n = 0 THEN b0
     ELSE [nodes |-> CopyIn(b, s), pos |-> b.pos + n, size |-> Larger(b.size, b.pos + n),
           cur |-> BlockOrNull(b.nodes, BlockAt(b.cur, b.pos, n))]

(* n bytes from the position on, in the block cur and those behind it; what *)
(* was never written reads as fill.                                         *)
CopyOut(b, cur, n, fill) ==
  [k \in 1..n |-> LET c == b.nodes[BlockAt(cur, b.pos, k - 1)][(b.pos + k - 1) % BaseSize]
                  IN IF c = Junk THEN fill ELSE c]

(* read(buf, n): m_cur->size is looked at even when n is 0.                 *)
read(b, n, fill) ==
  IF n > b.size - b.pos THEN [b |-> b, s |-> <<>>, end |-> "throw"]
  ELSE IF b.cur = NULL THEN [b |-> b, s |-> <<>>, end |-> "null"]
  ELSE [s |-> CopyOut(b, b.cur, n, fill), end |-> "ok",
        b |-> [b EXCEPT !.pos = @ + n,
                        !.cur = BlockOrNull(b.nodes, BlockAt(b.cur, b.pos, n))]]

SetPosition(b, v) ==
  [b EXCEPT !.pos = v, !.size = Larger(@, v),
            !.cur = BlockOrNull(b.nodes, (v \div BaseSize) + 1)]
-----------------------------------------------------------------------------
(* writeFint16 and the like: host order is little-endian.                   *)
EncodeFixed(v) ==
  LET host == <<v % 4, v \div 4>> IN IF m_endian = "little" THEN host ELSE Reverse(host)
DecodeFixed(s) == LET h == IF m_endian = "little" THEN s ELSE Reverse(s) IN h[1] + 4 * h[2]

(* -v overflows for the least v and stays itself.                           *)
EncodeZigzag(v) == IF v < 0 THEN ((-v) * 2 - 1) % 8 ELSE v * 2
(* (v >> 1) ^ -(v & 1), read as a signed number                             *)
DecodeZigzag(v) ==
  LET x == IF v % 2 = 1 THEN 7 - (v \div 2) ELSE v \div 2 IN IF x >= 4 THEN x - 8 ELSE x

(* writeUint32, writeUint64: the low bits first, with the continuation bit. *)
Weight == <<1, 2, 4>>

EncodeVarint(v) ==
  LET n == IF v < 2 THEN 1 ELSE IF v < 4 THEN 2 ELSE 3
  IN [i \in 1..n |-> ((v \div Weight[i]) % 2) + (IF i < n THEN 2 ELSE 0)]

(* readUint32, readUint64: one read() for each byte, as many as the width   *)
(* has groups of bits.                                                      *)
ReadVarintByte(a, weight, fill) ==
  IF a.more = FALSE \/ a.end # "ok" THEN a
  ELSE LET r == read(a.b, 1, fill)
       IN IF r.end # "ok" THEN [a EXCEPT !.end = r.end, !.b = r.b]
          ELSE [b |-> r.b, end |-> "ok", more |-> r.s[1] >= 2, v |-> a.v + (r.s[1] % 2) * weight]

ReadVarint(b, fill) ==
  LET a0 == [b |-> b, end |-> "ok", more |-> TRUE, v |-> 0]
      a1 == ReadVarintByte(a0, Weight[1], fill)
      a2 == ReadVarintByte(a1, Weight[2], fill)
  IN ReadVarintByte(a2, Weight[3], fill)

ReadFixed(b, fill) ==
  LET r == read(b, 2, fill)
  IN [b |-> r.b, end |-> r.end, v |-> IF r.end = "ok" THEN DecodeFixed(r.s) ELSE 0]

(* readStringF16 and the like: the length, then that many bytes.            *)
ReadString(b, fill) ==
  LET len == ReadFixed(b, fill)
      r == read(len.b, len.v, fill)
  IN IF len.end # "ok" THEN len ELSE [b |-> r.b, end |-> r.end, v |-> r.s]

PutItem(b, kind, v) ==
  CASE kind = "fixed"  -> write(b, EncodeFixed(v))
    [] kind = "varint" -> write(b, EncodeVarint(v))
    [] kind = "zigzag" -> write(b, EncodeVarint(EncodeZigzag(v)))
    [] kind = "string" -> write(write(b, EncodeFixed(Len(v))), v)

GetItem(b, kind, fill) ==
  CASE kind = "fixed"  -> ReadFixed(b, fill)
    [] kind = "varint" -> ReadVarint(b, fill)
    [] kind = "zigzag" -> LET r == ReadVarint(b, fill)
                          IN [b |-> r.b, end |-> r.end, v |-> DecodeZigzag(r.v)]
    [] kind = "string" -> ReadString(b, fill)

ItemKinds == {"fixed", "varint", "zigzag", "string"}
Values(kind) == CASE kind = "fixed"  -> FixedValues
                  [] kind = "varint" -> VarintValues
                  [] kind = "zigzag" -> ZigzagValues
                  [] kind = "string" -> StringValues
-----------------------------------------------------------------------------
AsSeq(kind, v) == IF kind = "string" THEN v ELSE <<v>>

SetChain(b) == nodes' = b.nodes /\ m_cur' = b.cur /\ m_position' = b.pos /\ m_size' = b.size

Overwritten(from, to) == {i \in items : i.at < to /\ from < i.to}

BaInit ==
  /\ nodes = <<FreshNode>> /\ m_cur = 1 /\ m_position = 0 /\ m_size = 0
  /\ m_endian = "big" /\ items = {} /\ misread = FALSE /\ fault = FALSE /\ puts = 0
  /\ file = NoFile

Put(kind, v) ==
  /\ puts < MaxPuts /\ puts' = puts + 1
  /\ LET b == PutItem(Chain, kind, v)
     IN /\ Len(b.nodes) <= MaxBlocks
        /\ SetChain(b)
        /\ items' = (items \ Overwritten(m_position, b.pos))
                      \cup {[kind |-> kind, v |-> AsSeq(kind, v), at |-> m_position, to |-> b.pos,
                             endian |-> m_endian]}
  /\ UNCHANGED <<m_endian, misread, fault>>

Get(kind) ==
  /\ \E fill \in Byte :
       LET r == GetItem(Chain, kind, fill)
       IN /\ SetChain(r.b)
          /\ fault' = (r.end = "null")
          /\ misread' = (misread \/ \E i \in items :
               /\ i.kind = kind /\ i.at = m_position /\ i.endian = m_endian
               /\ r.end # "null" /\ (r.end = "throw" \/ AsSeq(kind, r.v) # i.v))
  /\ UNCHANGED <<m_endian, items, puts>>

SetPositionTo(v) ==
  /\ v \in 0..(Len(nodes) * BaseSize)     \* else it throws
  /\ SetChain(SetPosition(Chain, v))
  /\ UNCHANGED <<m_endian, items, misread, puts, fault>>

SetIsLittleEndian(e) ==
  /\ m_endian' = e
  /\ UNCHANGED <<nodes, m_cur, m_position, m_size, items, misread, puts, fault>>

Clear ==
  /\ SetChain([nodes |-> <<nodes[1]>>, cur |-> 1, pos |-> 0, size |-> 0])
  /\ items' = {}
  /\ UNCHANGED <<m_endian, misread, puts, fault>>

(* SocketStream::read(ba, n): getWriteBuffers, recv into them, of which the *)
(* first got bytes arrive, and setPosition.                                 *)
RecvInto(n, got_bytes) ==
  LET b == addCapacity(Chain, n)
      data == [k \in 1..got_bytes |-> 3]
  IN /\ puts < MaxPuts /\ puts' = puts + 1
     /\ Len(b.nodes) <= MaxBlocks
     /\ SetChain(IF got_bytes = 0 THEN b
                 ELSE SetPosition([b EXCEPT !.nodes = CopyIn(b, data)], b.pos + got_bytes))
     /\ items' = items \ Overwritten(m_position, m_position + got_bytes)
     /\ UNCHANGED <<m_endian, misread, fault>>

(* writeToFile, one block at a time, less the offset in the block even when *)
(* that is less than is left.                                               *)
OpenFile ==
  file' = [open |-> TRUE, out |-> <<>>, cur |-> m_cur, pos |-> m_position,
           left |-> m_size - m_position, bad |-> FALSE]

(* Mutant: a whole block is written, whatever is left.                      *)
WriteBlockWhole ==
  /\ file.left > 0 /\ ~file.bad
  /\ LET diff == file.pos % BaseSize
         len == BaseSize - diff
     IN IF len < 0 \/ file.cur > Len(nodes) THEN file' = [file EXCEPT !.bad = TRUE]
        ELSE file' = [file EXCEPT !.out = @ \o [k \in 1..len |-> nodes[file.cur][diff + k - 1]],
                                  !.cur = @ + 1, !.pos = @ + len, !.left = @ - len]

WriteBlock ==
  /\ file.left > 0 /\ ~file.bad
  /\ LET diff == file.pos % BaseSize
         len == (IF file.left > BaseSize THEN BaseSize ELSE file.left) - diff
     IN IF len < 0 \/ file.cur > Len(nodes) THEN file' = [file EXCEPT !.bad = TRUE]
        ELSE file' = [file EXCEPT !.out = @ \o [k \in 1..len |-> nodes[file.cur][diff + k - 1]],
                                  !.cur = @ + 1, !.pos = @ + len, !.left = @ - len]

CloseFile == (file.left <= 0 \/ file.bad) /\ file' = NoFile

(* The calls follow one another.                                            *)
BaNext ==
  /\ ~fault
  /\ \/ /\ ~file.open /\ UNCHANGED file
        /\ \/ \E k \in ItemKinds : Get(k) \/ \E v \in Values(k) : Put(k, v)
           \/ \E v \in 0..(BaseSize * MaxBlocks) : SetPositionTo(v)
           \/ \E e \in {"big", "little"} : SetIsLittleEndian(e)
           \/ Clear
           \/ \E n \in 1..3, m \in 0..3 : m <= n /\ RecvInto(n, m)
     \/ /\ (~file.open /\ OpenFile) \/ (file.open /\ (WriteBlock \/ CloseFile))
        /\ UNCHANGED <<nodes, m_cur, m_position, m_size, m_endian, items, misread, puts, fault>>

BaSpec == BaInit /\ [][BaNext]_bavars
-----------------------------------------------------------------------------
(* getReadBuffers(buffers, len): what the iovecs from m_cur on hold;        *)
(* toString copies the same bytes.                                          *)
ReadBuffers == IF m_position >= m_size THEN <<>>
               ELSE CopyOut(Chain, m_cur, m_size - m_position, Junk)

(* getReadBuffers(buffers, len, m_position) counts the blocks from m_root.  *)
ReadBuffersFrom == IF m_position >= m_size THEN <<>>
                   ELSE CopyOut(Chain, (m_position \div BaseSize) + 1, m_size - m_position, Junk)

(* What was put is got back, wherever the block boundaries fall, as long as *)
(* nothing was written over it and the byte order is the same; both kinds   *)
(* of iovecs hold the bytes from the position on.  A null block is followed *)
(* in one case only: reading nothing (an empty string) at the very end of   *)
(* the last block.                                                          *)
ItemsReadBack ==
  /\ ~misread
  /\ ReadBuffers = ReadBuffersFrom
  /\ fault => m_position = Len(nodes) * BaseSize

(* A file written from a block boundary holds the bytes from the position   *)
(* on, which is not so of one written from inside a block.                  *)
FileHoldsBytes ==
  file.open /\ m_position % BaseSize = 0 =>
    ~file.bad /\ (file.left <= 0 => file.out = ReadBuffers)
=============================================================================
