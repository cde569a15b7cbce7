--------------------------- MODULE ResponseParser ---------------------------
(***************************************************************************)
(* HttpResponseParser and the machine under it (httpclient_parser.cc), as  *)
(* HttpConnection::recvResponse drives it: first one response header over  *)
(* any number of buffers, then chunk headers, where execute() is called    *)
(* with chunck = true and starts the machine anew for every buffer.        *)
(*                                                                         *)
(* The machine runs a header field and the three fields it knows side by   *)
(* side, so a known field whose value is empty stays possible on the next  *)
(* lines: states are <<place, field, letters read>>.                       *)
(***************************************************************************)
EXTENDS HttpParser

VARIABLES
  chunck,        \* execute()'s third argument: a chunk header is parsed
  chunked, chunks_done, close,   \* of httpclient_parser
  content_len,   \* "none" (-1), "zero", "positive"
  zeros,         \* the digits since mark are all 0
  ended          \* action done was executed (header_done was called)

rspvars == <<pvars, chunck, chunked, chunks_done, close, content_len, zeros, ended>>
-----------------------------------------------------------------------------
(* Bytes.  A letter stands for both cases, except that the status line      *)
(* wants H, T and P in upper case; "b" is any hex letter, "z" any letter    *)
(* and "!" any token character that the machine does not name.              *)
CDigit   == {"0", "1"}
HexDigit == CDigit \cup {"a", "b", "c", "d", "e", "f"}
Letter   == {"a", "b", "c", "d", "e", "f", "g", "h", "i", "k", "l", "n", "o", "r", "s",
             "t", "u", "z", "H", "T", "P"}
CToken   == Letter \cup CDigit \cup {"-", ".", "!"}
Blank    == {"SP", "TAB"}           \* TAB: also VT and FF
CSpace   == Blank \cup {"LF", "CR"}
CChar    == CToken \cup CSpace \cup {"/", ":", ";", "=", "x"}
Text     == CChar \ {"LF", "CR"}

SmallOf(c) == CASE c = "H" -> "h" [] c = "T" -> "t" [] OTHER -> c

(* The fields the machine knows, and the one value of each that it knows;   *)
(* of Content-Length that is a number.                                      *)
TransferEncoding == <<"t", "r", "a", "n", "s", "f", "e", "r", "-",
                      "e", "n", "c", "o", "d", "i", "n", "g">>
Connection    == <<"c", "o", "n", "n", "e", "c", "t", "i", "o", "n">>
ContentLength == <<"c", "o", "n", "t", "e", "n", "t", "-", "l", "e", "n", "g", "t", "h">>

FieldName == [te |-> TransferEncoding, co |-> Connection, cl |-> ContentLength]
FieldWord == [te |-> <<"c", "h", "u", "n", "k", "e", "d">>,
              co |-> <<"c", "l", "o", "s", "e">>,
              cl |-> <<"#">>]
Known == DOMAIN FieldName

(* c is letter number i of the word; a number goes on for ever.             *)
IsLetter(f, i, c) ==
  \/ f # "cl" /\ i <= Len(FieldWord[f]) /\ SmallOf(c) = FieldWord[f][i]
  \/ f = "cl" /\ c \in CDigit
NextLetter(f, i) == IF f = "cl" THEN 1 ELSE i + 1
WordEnds(f, i) == i = Len(FieldWord[f])

CGo(to, acts) == [to |-> to, acts |-> acts]
CFail == CGo(Error, <<>>)

RspDone    == <<"done">>                \* state 120, first_final
DoneAfter(f) == <<"done after", f>>     \* states 121 to 123, also final
Line       == <<"line">>
ClosedLine == <<"closed line">>         \* conn_close is complete
AnyName    == <<"name">>
AnyGap     == <<"gap">>
AnyValue   == <<"value">>
LineFeed   == <<"lf">>
-----------------------------------------------------------------------------
(* Chunked_Header                                                           *)
ChunkStep(q, c) ==
  CASE q = <<"size">> /\ c \in HexDigit -> CGo(<<"size">>, <<>>)
    [] q = <<"size">> /\ c = "LF" -> CGo(RspDone, <<"chunk_size", "done">>)
    [] q = <<"size">> /\ c = "CR" -> CGo(<<"end">>, <<"chunk_size">>)
    [] q = <<"size">> /\ c = ";"  -> CGo(<<"ext">>, <<"chunk_size">>)
    [] q = <<"end">>  /\ c = "LF" -> CGo(RspDone, <<"done">>)
    [] OTHER -> CFail

ChunkExtStep(q, c) ==
  LET w == IF q = <<"extname">> THEN <<"write_field", "start_value">> ELSE <<>>
  IN CASE q = <<"ext">> /\ c \in CToken -> CGo(<<"extname">>, <<"start_field">>)
       [] q = <<"ext=">> /\ c \in CToken -> CGo(<<"extvalue">>, <<"start_value">>)
       [] q \in {<<"extname">>, <<"extvalue">>} /\ c \in CToken -> CGo(q, <<>>)
       [] q \in {<<"extname">>, <<"extvalue">>} /\ c = "LF" ->
            CGo(RspDone, w \o <<"write_value", "done">>)
       [] q \in {<<"extname">>, <<"extvalue">>} /\ c = "CR" -> CGo(<<"end">>, w \o <<"write_value">>)
       [] q \in {<<"extname">>, <<"extvalue">>} /\ c = ";" -> CGo(<<"ext">>, w \o <<"write_value">>)
       [] q = <<"extname">> /\ c = "=" -> CGo(<<"ext=">>, w)
       [] OTHER -> CFail

(* Status_Line                                                              *)
CVersionText == << {"H"}, {"T"}, {"T"}, {"P"}, {"/"}, CDigit, {"."}, CDigit >>

CVersionStep(i, c) ==
  CASE i <= 8 /\ c \in CVersionText[i] -> CGo(<<"version", i + 1>>, <<>>)
    [] i \in {7, 9} /\ c \in CDigit -> CGo(<<"version", i>>, <<>>)
    [] i = 9 /\ c = "SP" -> CGo(<<"status">>, <<"http_version">>)
    [] OTHER -> CFail

(* Mutant: the first digit of the status is not marked.                     *)
StatusStepUnmarked(q, c) ==
  CASE q = <<"status">> /\ c \in CDigit -> CGo(<<"status", "code">>, <<>>)
    [] q = <<"status", "code">> /\ c \in CDigit -> CGo(q, <<>>)
    [] q = <<"status", "code">> /\ c = "SP" -> CGo(<<"reason">>, <<"status_code">>)
    [] q = <<"reason">> /\ c # "LF" -> CGo(<<"reason", "phrase">>, <<"mark">>)
    [] q = <<"reason", "phrase">> /\ c \in Text -> CGo(q, <<>>)
    [] q = <<"reason", "phrase">> /\ c = "LF" -> CGo(Line, <<"reason_phrase">>)
    [] q = <<"reason", "phrase">> /\ c = "CR" -> CGo(LineFeed, <<"reason_phrase">>)
    [] OTHER -> CFail

StatusStep(q, c) ==
  CASE q = <<"status">> /\ c \in CDigit -> CGo(<<"status", "code">>, <<"mark">>)
    [] q = <<"status", "code">> /\ c \in CDigit -> CGo(q, <<>>)
    [] q = <<"status", "code">> /\ c = "SP" -> CGo(<<"reason">>, <<"status_code">>)
    [] q = <<"reason">> /\ c # "LF" -> CGo(<<"reason", "phrase">>, <<"mark">>)
    [] q = <<"reason", "phrase">> /\ c \in Text -> CGo(q, <<>>)
    [] q = <<"reason", "phrase">> /\ c = "LF" -> CGo(Line, <<"reason_phrase">>)
    [] q = <<"reason", "phrase">> /\ c = "CR" -> CGo(LineFeed, <<"reason_phrase">>)
    [] OTHER -> CFail
-----------------------------------------------------------------------------
(* A line begins: the name of a field, or the blank line.                   *)
IsPrefixOfName(w) == \E f \in Known : IsPrefix(w, FieldName[f])

NameStart(c) ==
  IF IsPrefixOfName(<<SmallOf(c)>>) THEN <<"prefix", <<SmallOf(c)>> >> ELSE AnyName

LineStep(q, c) ==
  LET acts == IF q = ClosedLine THEN <<"write_connection_close">> ELSE <<>>
  IN CASE c \in CToken -> CGo(NameStart(c), acts \o <<"start_field">>)
       [] c = "LF" -> CGo(RspDone, acts \o <<"done">>)
       [] c = "CR" -> CGo(<<"end">>, acts)
       [] OTHER -> CFail

(* The letters of the name so far are the beginning w of a known name.      *)
PrefixNameStep(w, c) ==
  LET v == Append(w, SmallOf(c))
  IN CASE c \in CToken -> CGo(IF IsPrefixOfName(v) THEN <<"prefix", v>> ELSE AnyName, <<>>)
       [] c = ":" -> CGo(IF \E f \in Known : FieldName[f] = w
                         THEN <<"gap", CHOOSE f \in Known : FieldName[f] = w>> ELSE AnyGap,
                         <<"write_field">>)
       [] OTHER -> CFail

AnyFieldStep(q, c) ==
  CASE q = AnyName /\ c \in CToken -> CGo(AnyName, <<>>)
    [] q = AnyName /\ c = ":" -> CGo(AnyGap, <<"write_field">>)
    [] q = AnyGap /\ c \in Blank -> CGo(AnyGap, <<"start_value">>)
    [] q = AnyGap /\ c \in Text \ Blank -> CGo(AnyValue, <<"start_value">>)
    [] q = AnyGap /\ c = "LF" -> CGo(Line, <<"start_value", "write_value">>)
    [] q = AnyGap /\ c = "CR" -> CGo(LineFeed, <<"start_value", "write_value">>)
    [] q = AnyValue /\ c \in Text -> CGo(AnyValue, <<>>)
    [] q = AnyValue /\ c = "LF" -> CGo(Line, <<"write_value">>)
    [] q = AnyValue /\ c = "CR" -> CGo(LineFeed, <<"write_value">>)
    [] q = LineFeed /\ c = "LF" -> CGo(Line, <<>>)
    [] OTHER -> CFail

(* A known field.  What ends its line once the word is complete; the word   *)
(* of Connection is written only as the value of an ordinary field.         *)
WordEnd(f, c, ordinary) ==
  LET w == IF f # "co" \/ ordinary THEN <<"write_value">> ELSE <<>>
  IN CASE f = "te" /\ c = "LF" -> CGo(Line, w \o <<"trans_chunked">>)
       [] f = "te" /\ c = "CR" -> CGo(<<"chunked cr">>, w)
       [] f = "co" /\ c = "LF" -> CGo(ClosedLine, w)
       [] f = "co" /\ c = "CR" -> CGo(<<"close cr">>, w)
       [] f = "cl" -> CGo(IF c = "LF" THEN Line ELSE LineFeed, <<"write_content_len">> \o w)

(* After its colon, on the same line.                                       *)
KnownGapStep(f, c) ==
  CASE c \in Blank -> CGo(<<"gap", f>>, <<"start_value">>)
    [] IsLetter(f, 1, c) -> CGo(<<"word", f, 1>>, <<"start_value">>)
    [] c = "LF" -> CGo(<<"empty", f>>, <<"start_value", "write_value">>)
    [] c = "CR" -> CGo(<<"empty cr", f>>, <<"start_value", "write_value">>)
    [] OTHER -> CGo(AnyValue, <<"start_value">>)

WordStep(f, i, c) ==
  CASE IsLetter(f, i + 1, c) -> CGo(<<"word", f, NextLetter(f, i)>>, <<>>)
    [] c \in {"LF", "CR"} /\ WordEnds(f, i) -> WordEnd(f, c, TRUE)
    [] c = "LF" -> CGo(Line, <<"write_value">>)
    [] c = "CR" -> CGo(LineFeed, <<"write_value">>)
    [] OTHER -> CGo(AnyValue, <<>>)

(* Its value was empty: the next line is a new field, or still the value,   *)
(* or both as long as the letters agree.                                    *)
EmptyStep(f, c) ==
  LET both == IF f = "co" THEN <<>> ELSE <<"start_value">>
  IN CASE IsLetter(f, 1, c) -> CGo(<<"both", f, 1>>, both \o <<"start_field">>)
       [] c \in CToken -> CGo(NameStart(c), <<"start_field">>)
       [] c \in Blank -> CGo(<<"fold", f>>, <<>>)
       [] c = "LF" -> CGo(DoneAfter(f), <<"done">>)
       [] c = "CR" -> CGo(<<"empty end", f>>, <<>>)
       [] OTHER -> CFail

BothStep(f, i, c) ==
  LET v == Append(SubSeq(FieldWord[f], 1, i), SmallOf(c))
  IN CASE IsLetter(f, i + 1, c) -> CGo(<<"both", f, NextLetter(f, i)>>, <<>>)
       [] f # "cl" /\ c \in CToken /\ IsPrefixOfName(v) -> CGo(<<"prefix", v>>, <<>>)
       [] c \in CToken -> CGo(AnyName, <<>>)
       [] c = ":" -> CGo(AnyGap, <<"write_field">>)
       [] c \in {"LF", "CR"} /\ WordEnds(f, i) -> WordEnd(f, c, FALSE)
       [] OTHER -> CFail

(* Only the value is left: space* and then the word.                        *)
FoldStep(q, f, c) ==
  CASE IsLetter(f, 1, c) -> CGo(<<"folded", f, 1>>, IF f = "co" THEN <<>> ELSE <<"start_value">>)
    [] q[1] = "empty cr" /\ c = "LF" -> CGo(<<"empty", f>>, <<>>)
    [] q[1] = "empty end" /\ c = "LF" -> CGo(DoneAfter(f), <<"done">>)
    [] c \in CSpace -> CGo(<<"fold", f>>, <<>>)
    [] OTHER -> CFail

FoldedWordStep(f, i, c) ==
  CASE IsLetter(f, i + 1, c) -> CGo(<<"folded", f, NextLetter(f, i)>>, <<>>)
    [] c \in {"LF", "CR"} /\ WordEnds(f, i) -> WordEnd(f, c, FALSE)
    [] OTHER -> CFail

KnownFieldStep(q, c) ==
  CASE q[1] = "gap" -> KnownGapStep(q[2], c)
    [] q[1] = "word" -> WordStep(q[2], q[3], c)
    [] q[1] = "empty" -> EmptyStep(q[2], c)
    [] q[1] = "both" -> BothStep(q[2], q[3], c)
    [] q[1] = "folded" -> FoldedWordStep(q[2], q[3], c)
    [] OTHER -> FoldStep(q, q[2], c)

ClientStep(q, c) ==
  CASE q = Start /\ c = "H" -> CGo(<<"version", 2>>, <<"mark">>)
    [] q = Start /\ c \in HexDigit -> CGo(<<"size">>, <<"mark">>)
    [] q \in {<<"size">>, <<"end">>} -> ChunkStep(q, c)
    [] q[1] \in {"ext", "ext=", "extname", "extvalue"} -> ChunkExtStep(q, c)
    [] q[1] = "version" -> CVersionStep(q[2], c)
    [] q[1] \in {"status", "reason"} -> StatusStep(q, c)
    [] q \in {Line, ClosedLine} -> LineStep(q, c)
    [] q[1] = "prefix" -> PrefixNameStep(q[2], c)
    [] q \in {AnyName, AnyGap, AnyValue, LineFeed} -> AnyFieldStep(q, c)
    [] q = <<"chunked cr">> /\ c = "LF" -> CGo(Line, <<"trans_chunked">>)
    [] q = <<"close cr">> /\ c = "LF" -> CGo(ClosedLine, <<>>)
    [] Len(q) > 1 /\ q[2] \in Known -> KnownFieldStep(q, c)
    [] OTHER -> CFail
-----------------------------------------------------------------------------
(* The token a state is inside of.                                          *)
ClientToken(q) ==
  CASE q[1] \in {"version", "size"} -> q[1]
    [] q[1] \in {"status", "reason"} /\ Len(q) = 2 -> q[1]
    [] q[1] \in {"name", "prefix", "extname", "both"} -> "name"
    [] q[1] \in {"gap", "value", "word", "ext=", "extvalue"} -> "value"
    [] q[1] \in {"empty", "empty cr", "empty end", "done after", "fold", "folded"} -> "value"
    [] OTHER -> "none"

RspFinished == cs = RspDone
RspHasError == m_error # 0 \/ cs = Error

(* The version is any two numbers; only 1.1 and 1.0 are accepted, and of a  *)
(* version that was cut only the empty rest.                                *)
OnResponseVersion(r) ==
  {[r EXCEPT !.m_error = 1001]}
    \cup IF r.mark = "version" \/ r.first THEN {Give(r, "version", Piece(r, "version"))} ELSE {}

OnChunkSize(r) ==
  [r EXCEPT !.chunked = TRUE, !.content_len = IF r.zeros THEN "zero" ELSE "positive",
            !.chunks_done = r.zeros, !.got = @ \cup {<<"size", Piece(r, "size")>>}]

ClientAct(a, r, s) ==
  CASE a = "mark" -> {MarkToken(r, ClientToken(s))}
    [] a = "start_field" -> {[r EXCEPT !.field_start = "name"]}
    [] a = "write_field" -> {WriteField(r)}
    [] a = "start_value" -> {[r EXCEPT !.mark = "value"]}
    [] a = "write_value" -> {OnHttpField(r)}
    [] a = "write_content_len" -> {[r EXCEPT !.content_len = IF r.zeros THEN "zero" ELSE "positive"]}
    [] a = "write_connection_close" -> {[r EXCEPT !.close = TRUE]}
    [] a = "trans_chunked" -> {[r EXCEPT !.chunked = TRUE]}
    [] a = "reason_phrase" -> {Give(r, "reason", Piece(r, "reason"))}
    [] a = "status_code" -> {Give(r, "status", Piece(r, "status"))}
    [] a = "http_version" -> OnResponseVersion(r)
    [] a = "chunk_size" -> {OnChunkSize(r)}
    [] a = "done" -> {[r EXCEPT !.ended = TRUE]}

(* Whether the digits since mark are all 0, once the byte c is read.        *)
Zeros(z, c, acts) ==
  IF ToSet(acts) \cap {"mark", "start_value"} # {} THEN c = "0"
  ELSE z /\ (c \in HexDigit => c = "0")

ResponseRegisters ==
  [chunked |-> chunked, chunks_done |-> chunks_done, close |-> close,
   content_len |-> content_len, zeros |-> zeros, ended |-> ended] @@ Registers
-----------------------------------------------------------------------------
ClientParserInit ==
  /\ chunked' = FALSE /\ chunks_done' = FALSE /\ close' = FALSE
  /\ content_len' = "none" /\ zeros' = TRUE

RspInit ==
  /\ NoParser /\ chunck = FALSE /\ chunked = FALSE /\ chunks_done = FALSE /\ close = FALSE
  /\ content_len = "none" /\ zeros = TRUE /\ ended = FALSE

(* recvResponse makes a parser for the next response.                       *)
HttpResponseParser ==
  /\ RspHasError \/ RspFinished
  /\ NewParser /\ ClientParserInit /\ chunck' = FALSE /\ ended' = FALSE

(* The next chunk header, in what the last buffer still holds.              *)
ExecuteChunk ==
  /\ RspFinished /\ ~RspHasError /\ chunked /\ ~chunks_done
  /\ NewParser /\ ClientParserInit /\ chunck' = TRUE /\ ended' = FALSE

(* The buffer is used up and the next one read.  Inside a chunk header the  *)
(* machine starts again, wherever it was.                                   *)
ExecuteNextBuffer ==
  /\ ~RspFinished
  /\ NextBuffer(IF chunck THEN {"size"} ELSE {ClientToken(cs)})
  /\ IF chunck THEN cs' = Start /\ ClientParserInit
     ELSE zeros' = TRUE /\ UNCHANGED <<cs, chunked, chunks_done, close, content_len>>
  /\ UNCHANGED <<chunck, ended>>

(* One byte through httpclient_parser_execute.                              *)
ExecuteClientByte(c) ==
  /\ cs # Error /\ ~RspFinished
  /\ LET s == ClientStep(cs, c)
     IN \E r \in FoldLeft(LAMBDA rs, a : UNION {ClientAct(a, x, s.to) : x \in rs},
                         {ResponseRegisters}, s.acts) :
          /\ cs' = s.to /\ SetRegisters(r)
          /\ chunked' = r.chunked /\ chunks_done' = r.chunks_done /\ close' = r.close
          /\ content_len' = r.content_len /\ ended' = r.ended
          /\ zeros' = Zeros(r.zeros, c, s.acts)
  /\ UNCHANGED <<chunck, reads>>

RspNext ==
  HttpResponseParser \/ ExecuteChunk \/ ExecuteNextBuffer \/ \E c \in CChar : ExecuteClientByte(c)
-----------------------------------------------------------------------------
(* A response header that is reported finished without an error had each of *)
(* its parts given whole unless a buffer ended inside that part, and never  *)
(* whole if one did; a header field is lost or torn only if a buffer ended  *)
(* inside a name or a value.                                                *)
ResponseWhole ==
  RspFinished /\ ~RspHasError =>
    /\ {<<"size", "whole">>, <<"size", "torn">>} \cap got = {} =>
         \A t \in {"version", "status", "reason"} :
           IF t \in cut THEN <<t, "torn">> \in got ELSE <<t, "whole">> \in got
    /\ <<"field", "torn">> \in got \/ <<"field", "dropped">> \in got
         => cut \cap {"name", "value"} # {}
=============================================================================
