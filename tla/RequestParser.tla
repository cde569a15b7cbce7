--------------------------- MODULE RequestParser ---------------------------
(***************************************************************************)
(* HttpRequestParser and the machine under it (http/http11_parser.cc), as  *)
(* HttpSession::recvRequest drives it: one execute() for each read.        *)
(*                                                                         *)
(* The machine's numbered states are tuples <<machine, name, ...>>, where  *)
(* machine is "http" for a request line and "json" for the "@" form, whose *)
(* copy of the target states differs only in how it is left.  A character  *)
(* stands for all the bytes the machine does not tell apart.               *)
(***************************************************************************)
EXTENDS HttpParser

VARIABLES
  query_start,   \* execute() leaves it alone: "stale" when set for an earlier buffer
  uri_relaxed,   \* never initialised by http_parser_init
  sent           \* "none", "xml" or "json": xml_sent, json_sent

rqvars == <<pvars, query_start, uri_relaxed, sent>>
-----------------------------------------------------------------------------
(* Bytes, by the classes the machine distinguishes.                         *)
Digit     == {"0", "1", "2", "3", "5"}       \* "3": 3, 4 and 6 to 9
HexLetter == {"A", "a"}
Hex       == Digit \cup HexLetter
Upper     == {"A", "G", "H", "P", "T"}
Alpha     == Upper \cup {"a", "g", "v"}
CountByte == {"b2", "b3", "b4", "b5", "b6"}  \* the bytes 2 to 6
Control   == CountByte \cup {"ctl"}          \* the others below 32, and ` |
Space     == {"SP", "TAB", "LF", "VT", "CR"}

(* sub_delims, with more_delims when uri_relaxed; "!" stands for every mark *)
(* that is allowed both in a URI and in a field name.                       *)
MoreDelims == {"{", "}", "^"}
SubDelims  == {"!", "(", "+"} \cup MoreDelims
Unreserved == Alpha \cup Digit \cup {"-", "."}
PChar      == Unreserved \cup SubDelims \cup {":", "@", "hi"}

Char == PChar \cup Control \cup Space
          \cup {"NUL", "DEL", "\"", "#", "%", "/", "<", ">", "?", "[", "]"}

(* token = ascii -- (HTTP_CTL | HTTP_separator), where (0 - 31) is the byte *)
(* 0 less the byte 31: control characters, CR and LF are token characters.  *)
Token == Alpha \cup Digit \cup Control
           \cup {"LF", "VT", "CR", "!", "#", "%", "+", "-", ".", "^"}

Content == Char \ {"NUL", "DEL", "LF", "CR"}
-----------------------------------------------------------------------------
Done  == <<"request done">>  \* state 348, first_final
SocketDone == <<"socketdone">>  \* state 349

http(s) == <<"http", s>>
Method(n)  == <<"http", "method", n>>
Version(i) == <<"http", "version", i>>

(* Mutant: the first byte of a method is not marked.                        *)
StartRulesUnmarked ==
  { Rule(Start, Upper \cup Digit, Method(1), <<>>),
    Rule(Start, {"<"}, <<"xml", "open">>, <<"mark">>),
    Rule(Start, {"@"}, <<"json", "target">>, <<"mark">>) }

StartRules ==
  { Rule(Start, Upper \cup Digit, Method(1), <<"mark">>),
    Rule(Start, {"<"}, <<"xml", "open">>, <<"mark">>),
    Rule(Start, {"@"}, <<"json", "target">>, <<"mark">>) }

(* Method = (upper | digit){1,20}                                           *)
MethodRules ==
  { Rule(Method(n), Upper \cup Digit, Method(n + 1), <<>>) : n \in 1..19 }
  \cup { Rule(Method(n), {"SP"}, http("target"), <<"request_method">>) : n \in 1..20 }

(* HTTP_Version CRLF                                                        *)
VersionText == << {"H"}, {"T"}, {"T"}, {"P"}, {"/"}, {"1"}, {"."}, {"0", "1"} >>

VersionRules ==
  { Rule(Version(i), VersionText[i], Version(i + 1),
         IF i = 1 THEN <<"mark">> ELSE <<>>) : i \in 1..8 }
  \cup { Rule(Version(9), {"LF"}, http("line"), <<"http_version">>),
         Rule(Version(9), {"CR"}, http("lf"), <<"http_version">>) }

FieldNameRules ==
  { Rule(http("line"), Token \ {"LF", "CR"}, http("name"), <<"start_field">>),
    Rule(http("line"), {"LF"}, Done, <<"start_field", "done">>),
    Rule(http("line"), {"CR"}, http("cr"), <<"start_field">>),
    Rule(http("name"), Token, http("name"), <<>>),
    Rule(http("name"), {":"}, http("gap"), <<"write_field">>) }

FieldValueRules ==
  { Rule(http("gap"), {"SP", "TAB"}, http("gap"), <<"start_value">>),
    Rule(http("gap"), Content \ {"SP", "TAB"}, http("value"), <<"start_value">>),
    Rule(http("gap"), {"LF"}, http("line"), <<"start_value", "write_value">>),
    Rule(http("gap"), {"CR"}, http("lf"), <<"start_value", "write_value">>),
    Rule(http("value"), Content, http("value"), <<>>),
    Rule(http("value"), {"LF"}, http("line"), <<"write_value">>),
    Rule(http("value"), {"CR"}, http("lf"), <<"write_value">>),
    Rule(http("lf"), {"LF"}, http("line"), <<>>) }

(* After the last CR a token character still begins a field name; 348 goes  *)
(* on in the same way if execute() is called again.                         *)
EndRules ==
  { Rule(http("cr"), {"LF"}, Done, <<"done">>),
    Rule(http("cr"), Token \ {"LF"}, http("name"), <<>>),
    Rule(http("cr"), {":"}, http("gap"), <<"write_field">>),
    Rule(Done, Token, http("name"), <<>>),
    Rule(Done, {":"}, http("gap"), <<"write_field">>) }
-----------------------------------------------------------------------------
(* The target.  A state that may end the path: <<>> or <<"mark">> comes     *)
(* before the callbacks when the path is empty up to here.                  *)
Leave(q, m) ==
  IF q[1] = "json"
  THEN { Rule(q, {"SP"}, <<"json", "open">>, m \o <<"request_path">>) }
  ELSE { Rule(q, {"SP"}, Version(1), m \o <<"request_path", "request_uri">>),
         Rule(q, {"#"}, http("fragment0"), m \o <<"request_path", "request_uri">>),
         Rule(q, {"?"}, http("query0"), m \o <<"request_path">>) }

(* pct_encoded inside the token that continues in state back.               *)
Percent(q, back, m) ==
  { Rule(q, {"%"}, back \o <<"%">>, m),
    Rule(back \o <<"%">>, Hex, back \o <<"%%">>, <<>>),
    Rule(back \o <<"%%">>, Hex, back, <<>>) }

TargetRules ==
  { Rule(http("target"), Alpha, http("scheme"), <<"mark">>),
    Rule(http("target"), Digit \cup SubDelims \cup {"-", ".", "@"}, http("segment0"), <<"mark">>),
    Rule(http("target"), {"/"}, http("slash"), <<"mark">>) }
  \cup Leave(http("target"), <<"mark">>)
  \cup Percent(http("target"), http("segment0"), <<"mark">>)

SchemeRules ==
  { Rule(http("scheme"), Alpha \cup Digit \cup {"+", "-", "."}, http("scheme"), <<>>),
    Rule(http("scheme"), (SubDelims \ {"+"}) \cup {"@"}, http("segment0"), <<>>),
    Rule(http("scheme"), {"/"}, http("path"), <<>>),
    Rule(http("scheme"), {":"}, http("hier"), <<>>),
    Rule(http("hier"), PChar, http("path"), <<"mark">>),
    Rule(http("hier"), {"/"}, http("slash"), <<"mark">>) }
  \cup Leave(http("scheme"), <<>>) \cup Percent(http("scheme"), http("segment0"), <<>>)
  \cup Leave(http("hier"), <<"mark">>) \cup Percent(http("hier"), http("path"), <<"mark">>)

FragmentStartRules ==
  { Rule(http("fragment0"), PChar \cup {"/", "?"}, http("fragment"), <<"mark">>),
    Rule(http("fragment0"), {"SP"}, Version(1), <<"mark", "fragment">>) }
  \cup Percent(http("fragment0"), http("fragment"), <<"mark">>)

FragmentRules ==
  { Rule(http("fragment"), PChar \cup {"/", "?"}, http("fragment"), <<>>),
    Rule(http("fragment"), {"SP"}, Version(1), <<"fragment">>) }
  \cup Percent(http("fragment"), http("fragment"), <<>>)

QueryRules ==
  UNION { { Rule(q.s, PChar \cup {"/", "?"}, http("query"), q.m),
            Rule(q.s, {"SP"}, Version(1), q.m \o <<"query_string", "request_uri">>),
            Rule(q.s, {"#"}, http("fragment0"), q.m \o <<"query_string", "request_uri">>) }
          \cup Percent(q.s, http("query"), q.m)
        : q \in { [s |-> http("query0"), m |-> <<"start_query">>],
                  [s |-> http("query"), m |-> <<>>] } }

(* The relative part, for both machines.                                    *)
SegmentRules(m) ==
  { Rule(<<m, "segment0">>, (PChar \ {":", "hi"}), <<m, "segment0">>, <<>>),
    Rule(<<m, "segment0">>, {"/"}, <<m, "path">>, <<>>),
    Rule(<<m, "path">>, PChar \cup {"/"}, <<m, "path">>, <<>>) }
  \cup Leave(<<m, "segment0">>, <<>>) \cup Percent(<<m, "segment0">>, <<m, "segment0">>, <<>>)
  \cup Leave(<<m, "path">>, <<>>) \cup Percent(<<m, "path">>, <<m, "path">>, <<>>)

NameChar == Unreserved \cup SubDelims

LiteralOpen == [phase |-> "prefix", n |-> 0, d |-> 0]

SlashRules(m) ==
  { Rule(<<m, "slash">>, PChar, <<m, "path">>, <<>>),
    Rule(<<m, "slash">>, {"/"}, <<m, "authority">>, <<>>),
    Rule(<<m, "authority">>, {"["}, <<m, "literal", LiteralOpen>>, <<>>) }
  \cup Leave(<<m, "slash">>, <<>>) \cup Percent(<<m, "slash">>, <<m, "path">>, <<>>)

RegNameRules(m) ==
  UNION { { Rule(q, NameChar, <<m, "regname">>, <<>>),
            Rule(q, {"/"}, <<m, "path">>, <<>>),
            Rule(q, {":"}, <<m, "port">>, <<>>),
            Rule(q, {"@"}, <<m, "host">>, <<>>) }
          \cup Leave(q, <<>>) \cup Percent(q, <<m, "regname">>, <<>>)
        : q \in {<<m, "authority">>, <<m, "regname">>} }

UserInfoRules(m) ==
  { Rule(<<m, "port">>, Digit, <<m, "port">>, <<>>),
    Rule(<<m, "port">>, (NameChar \ Digit) \cup {":"}, <<m, "userinfo">>, <<>>),
    Rule(<<m, "port">>, {"/"}, <<m, "path">>, <<>>),
    Rule(<<m, "port">>, {"@"}, <<m, "host">>, <<>>),
    Rule(<<m, "userinfo">>, NameChar \cup {":"}, <<m, "userinfo">>, <<>>),
    Rule(<<m, "userinfo">>, {"@"}, <<m, "host">>, <<>>) }
  \cup Leave(<<m, "port">>, <<>>)
  \cup Percent(<<m, "port">>, <<m, "userinfo">>, <<>>)
  \cup Percent(<<m, "userinfo">>, <<m, "userinfo">>, <<>>)

HostRules(m) ==
  UNION { { Rule(q, NameChar, <<m, "hostname">>, <<>>),
            Rule(q, {"/"}, <<m, "path">>, <<>>),
            Rule(q, {":"}, <<m, "hostport">>, <<>>) }
          \cup Leave(q, <<>>) \cup Percent(q, <<m, "hostname">>, <<>>)
        : q \in {<<m, "host">>, <<m, "hostname">>} }
  \cup { Rule(<<m, "host">>, {"["}, <<m, "literal", LiteralOpen>>, <<>>) }

HostEndRules(m) ==
  { Rule(<<m, "closed">>, {":"}, <<m, "hostport">>, <<>>),
    Rule(<<m, "hostport">>, Digit, <<m, "hostport">>, <<>>) }
  \cup UNION { { Rule(q, {"/"}, <<m, "path">>, <<>>) } \cup Leave(q, <<>>)
             : q \in {<<m, "closed">>, <<m, "hostport">>} }

XmlRules ==
  LET Tag == Alpha \cup Digit \cup {"-", "."}
  IN { Rule(<<"xml", "open">>, Tag, <<"xml", "tag">>, <<>>),
       Rule(<<"xml", "tag">>, Tag, <<"xml", "tag">>, <<>>),
       Rule(<<"xml", "tag">>, Space \cup {"/", ">"}, <<"xml", "data">>, <<"request_path">>),
       Rule(<<"xml", "data">>, Char \ {">"}, <<"xml", "data">>, <<>>),
       Rule(<<"xml", "data">>, {">"}, <<"xml", "close">>, <<>>),
       Rule(<<"xml", "close">>, {">"}, <<"xml", "close">>, <<>>),
       Rule(<<"xml", "close">>, {"NUL"}, SocketDone, <<"xml", "done">>),
       Rule(<<"xml", "close">>, Char \ {">", "NUL"}, <<"xml", "data">>, <<>>) }

JsonRules ==
  { Rule(<<"json", "target">>, PChar \ {":", "hi"}, <<"json", "segment0">>, <<>>),
    Rule(<<"json", "target">>, {"/"}, <<"json", "slash">>, <<>>),
    Rule(<<"json", "open">>, {"{"}, <<"json", "data">>, <<"mark">>),
    Rule(<<"json", "data">>, Char \ {"}"}, <<"json", "data">>, <<>>),
    Rule(<<"json", "data">>, {"}"}, <<"json", "close">>, <<>>),
    Rule(<<"json", "close">>, {"}"}, <<"json", "close">>, <<>>),
    Rule(<<"json", "close">>, {"NUL"}, SocketDone, <<"json", "done">>),
    Rule(<<"json", "close">>, Char \ {"}", "NUL"}, <<"json", "data">>, <<>>) }
  \cup Leave(<<"json", "target">>, <<>>)
  \cup Percent(<<"json", "target">>, <<"json", "segment0">>, <<>>)
-----------------------------------------------------------------------------
(* IP_literal.  In the grammar 6( h16 ":" ) is the byte 6 and one group,    *)
(* "1"-"9" is "1", and {k,} has no upper bound; the machine is what follows *)
(* from that.  A literal is read in phases: groups before "::" (n of them,  *)
(* counted up to 7, and d digits of the next), what "::" allows after n     *)
(* groups, the groups after it (u of the numbers of groups in ends), the    *)
(* IPv4 tail (k dots) or IPvFuture.                                         *)
Cap7(n) == IF n < 7 THEN n ELSE 7

Groups(ends) == [phase |-> "tail", ends |-> ends, u |-> 0, d |-> 0, o |-> ""]

When(cond, next) == IF cond THEN {next} ELSE {}

PrefixStep(l, c) ==
  When(c \in Hex /\ l.d < 4, [l EXCEPT !.d = @ + 1])
  \cup When(c = ":" /\ l.d > 0, [phase |-> "colon", n |-> Cap7(l.n + 1)])
  \cup When(l = LiteralOpen /\ c = "b6", Groups({3}))
  \cup When(l = LiteralOpen /\ c = ":", [phase |-> "colon", n |-> 0])
  \cup When(l = LiteralOpen /\ c = "v", [phase |-> "future", at |-> "v"])

ColonStep(l, c) ==
  When(c \in Hex /\ l.n > 0, [phase |-> "prefix", n |-> l.n, d |-> 1])
  \cup When(c = ":", [phase |-> "::", n |-> l.n])

(* The numbers of groups that may follow "::", and the bytes that may stand *)
(* in front of them.                                                        *)
EndsAfter(n) == IF n = 0 THEN 0..3 ELSE {k \in 0..3 : n + k >= 7}
BytesAfter(n) == CASE n = 0 -> {"b2", "b3", "b4", "b5"}
                   [] n = 1 -> {"b4"}
                   [] n = 2 -> {"b3"}
                   [] OTHER -> {"b2", "b3"}

(* dec_octet: a digit, 1d, 1dd, 20d or 250                                  *)
Octet(o, c) ==
  CASE o = "" /\ c \in {"1", "2"} -> c
    [] o = "" /\ c \in Digit \ {"1", "2"} -> "full"
    [] o = "1" /\ c \in Digit -> "1d"
    [] o = "2" /\ c = "0" -> "20"
    [] o = "2" /\ c = "5" -> "25"
    [] o \in {"1d", "20"} /\ c \in Digit -> "full"
    [] o = "25" /\ c = "0" -> "full"
    [] OTHER -> "no"
OctetEnds(o) == o \in {"1", "2", "1d", "full"}

GroupsStep(l, c) ==
  When(c \in Hex /\ l.d < 4 /\ \E k \in l.ends : k > l.u,
       [l EXCEPT !.d = @ + 1, !.o = Octet(@, c)])
  \cup When(c = ":" /\ l.d > 0 /\ \E k \in l.ends : k > l.u + 1,
            [l EXCEPT !.u = @ + 1, !.d = 0, !.o = ""])
  \cup When(c = "." /\ OctetEnds(l.o) /\ l.u + 2 \in l.ends,
            [phase |-> "v4", k |-> 1, o |-> ""])
  \cup When(c = "]" /\ l.d > 0 /\ l.u + 1 \in l.ends, [phase |-> "closed"])

DoubleColonStep(l, c) ==
  When(c \in BytesAfter(l.n), Groups({3}))
  \cup When(c = "]" /\ 0 \in EndsAfter(l.n), [phase |-> "closed"])
  \cup (IF c \in Hex THEN GroupsStep(Groups(EndsAfter(l.n)), c) ELSE {})

IPv4Step(l, c) ==
  When(c \in Digit /\ Octet(l.o, c) # "no", [l EXCEPT !.o = Octet(@, c)])
  \cup When(c = "." /\ OctetEnds(l.o) /\ l.k < 3, [l EXCEPT !.k = @ + 1, !.o = ""])
  \cup When(c = "]" /\ OctetEnds(l.o) /\ l.k = 3, [phase |-> "closed"])

FutureStep(l, c) ==
  When(l.at \in {"v", "hex"} /\ c \in Hex, [l EXCEPT !.at = "hex"])
  \cup When(l.at = "hex" /\ c = ".", [l EXCEPT !.at = "dot"])
  \cup When(l.at \in {"dot", "text"} /\ c \in NameChar \cup {":"}, [l EXCEPT !.at = "text"])
  \cup When(l.at = "text" /\ c = "]", [phase |-> "closed"])

LiteralStep(l, c) ==
  CASE l.phase = "prefix" -> PrefixStep(l, c)
    [] l.phase = "colon"  -> ColonStep(l, c)
    [] l.phase = "::"     -> DoubleColonStep(l, c)
    [] l.phase = "tail"   -> GroupsStep(l, c)
    [] l.phase = "v4"     -> IPv4Step(l, c)
    [] OTHER              -> FutureStep(l, c)
-----------------------------------------------------------------------------
AuthorityRules(m) ==
  SlashRules(m) \cup RegNameRules(m) \cup UserInfoRules(m) \cup HostRules(m) \cup HostEndRules(m)

(* The target states of a request line, and the copy of them for "@".       *)
HttpTarget == SegmentRules("http") \cup AuthorityRules("http")
JsonTarget == SegmentRules("json") \cup AuthorityRules("json")

Rules ==
  StartRules \cup MethodRules \cup VersionRules \cup FieldNameRules \cup FieldValueRules
    \cup EndRules \cup TargetRules \cup SchemeRules \cup FragmentStartRules
    \cup FragmentRules \cup QueryRules \cup XmlRules \cup JsonRules \cup HttpTarget \cup JsonTarget

RulesFrom == [ q \in {r.from : r \in Rules} |-> {r \in Rules : r.from = q} ]

InTarget(q) == q[1] \in {"http", "json"} /\ ~(q[2] \in {"line", "name", "gap", "value",
                   "lf", "cr", "open", "data", "close", "method", "version"})

(* The machine's step on one byte: where it goes and what it does, or Error.*)
Step(q, c, relaxed) ==
  IF InTarget(q) /\ c \in MoreDelims /\ ~relaxed
  THEN [to |-> Error, acts |-> <<>>]
  ELSE LET next == IF Len(q) = 3 /\ q[2] = "literal"
                   THEN { [to |-> IF l.phase = "closed" THEN <<q[1], "closed">>
                                  ELSE <<q[1], "literal", l>>,
                           acts |-> <<>>] : l \in LiteralStep(q[3], c) }
                   ELSE IF q \in DOMAIN RulesFrom
                   THEN { [to |-> r.to, acts |-> r.acts]
                          : r \in {x \in RulesFrom[q] : c \in x.on} }
                   ELSE {}
       IN IF next = {} THEN [to |-> Error, acts |-> <<>>]
          ELSE CHOOSE n \in next : TRUE
-----------------------------------------------------------------------------
(* The token a state is inside of; a read that ends there cuts it.          *)
TokenOf(q) ==
  CASE q[1] = "xml" -> "xml"
    [] q[1] = "json" /\ q[2] \in {"open", "data", "close"} -> "json"
    [] Len(q) < 2 \/ q[2] = "line" -> "none"
    [] q[2] = "method" -> "method"
    [] q[2] = "version" -> "version"
    [] q[2] \in {"fragment0", "fragment"} -> "fragment"
    [] q[2] \in {"query0", "query"} -> "query"
    [] q[2] \in {"name", "cr"} -> "name"
    [] q[2] \in {"gap", "value"} -> "value"
    [] q[2] = "lf" -> "none"
    [] OTHER -> "path"

(* A read that ends before the first byte of a token does not cut it.       *)
Begun(q) == TokenOf(q) # "none"
              /\ q \notin {http("target"), http("hier"), http("fragment0"), http("query0"),
                           Version(1)}

Finished == cs \in {Done, SocketDone}
HasError == m_error # 0 \/ cs = Error

(* One action of the machine on the registers r, at the byte that takes it  *)
(* from q to s, with the callback it makes.  Two callbacks depend on bytes  *)
(* the model does not keep: whether a method is known (CharsToHttpMethod    *)
(* compares prefixes, so part of one can be), and how far a stale           *)
(* query_start is from p (a negative length throws).                        *)
OnRequestMethod(r) ==
  { [r EXCEPT !.m_error = 1000] }
    \cup IF r.mark # "method" /\ r.first THEN {} ELSE {Give(r, "method", Piece(r, "method"))}

(* Of a version that was cut only the empty rest compares equal.            *)
OnRequestVersion(r) ==
  IF r.mark = "version" \/ r.first THEN {Give(r, "version", Piece(r, "version"))}
  ELSE {[r EXCEPT !.m_error = 1001]}

OnRequestQuery(r) ==
  IF r.query_start = "query" THEN {Give(r, "query", "whole")}
  ELSE {Give(r, "query", "torn"), Give(r, "query", "threw")}

OnRequestPath(r) ==
  Give(r, "path", IF r.mark \in {"path", "xml"} THEN "whole" ELSE "torn")

Act(a, r, q, s) ==
  CASE a = "mark" -> {MarkToken(r, TokenOf(IF q = Start THEN s ELSE q))}
    [] a = "start_field" -> {[r EXCEPT !.field_start = "name"]}
    [] a = "write_field" -> {WriteField(r)}
    [] a = "start_value" -> {[r EXCEPT !.mark = "value"]}
    [] a = "write_value" -> {OnHttpField(r)}
    [] a = "request_method" -> OnRequestMethod(r)
    [] a = "start_query" -> {[r EXCEPT !.query_start = "query"]}
    [] a = "query_string" -> OnRequestQuery(r)
    [] a = "http_version" -> OnRequestVersion(r)
    [] a = "request_path" -> {OnRequestPath(r)}
    [] a = "fragment" -> {Give(r, "fragment", Piece(r, "fragment"))}
    [] a \in {"xml", "json"} -> {[r EXCEPT !.sent = a]}
    [] OTHER -> {r}              \* request_uri and done change nothing here

Perform(acts, r, q, s) ==
  FoldLeft(LAMBDA rs, a : UNION {Act(a, x, q, s) : x \in rs}, {r}, acts)

RequestRegisters == [query_start |-> query_start, sent |-> sent] @@ Registers
-----------------------------------------------------------------------------
RqInit == NoParser /\ query_start = "reset" /\ uri_relaxed = FALSE /\ sent = "none"

(* recvRequest makes a parser and has its first bytes.                      *)
HttpRequestParser ==
  /\ HasError \/ Finished
  /\ NewParser
  /\ query_start' = "reset" /\ uri_relaxed' \in BOOLEAN /\ sent' = "none"

(* The buffer is used up and execute() is called for the next one.          *)
ExecuteNext ==
  /\ ~Finished
  /\ NextBuffer(IF Begun(cs) THEN {TokenOf(cs)} ELSE {})
  /\ query_start' = IF query_start = "query" THEN "stale" ELSE query_start
  /\ UNCHANGED <<cs, uri_relaxed, sent>>

(* One byte through http_parser_execute.                                    *)
ExecuteByte(c) ==
  /\ cs # Error /\ ~Finished
  /\ LET s == Step(cs, c, uri_relaxed)
     IN \E r \in Perform(s.acts, RequestRegisters, cs, s.to) :
          /\ cs' = IF <<"query", "threw">> \in r.got THEN Error ELSE s.to
          /\ SetRegisters(r) /\ query_start' = r.query_start /\ sent' = r.sent
  /\ UNCHANGED <<uri_relaxed, reads>>

RqNext == HttpRequestParser \/ ExecuteNext \/ \E c \in Char : ExecuteByte(c)
-----------------------------------------------------------------------------
(* A request that is reported finished has been given its method, path and  *)
(* version, and every part that no read cut was given whole; a part that a  *)
(* read cut is never given whole, because execute() puts the offsets back   *)
(* to the start of the new buffer.                                          *)
RequestWhole ==
  Finished /\ ~HasError =>
    /\ sent = "none" => \A t \in {"method", "path", "version"} :
                          <<t, "whole">> \in got \/ <<t, "torn">> \in got
    /\ \A t \in {"method", "path", "query", "fragment", "version"} :
         /\ <<t, "torn">> \in got => t \in cut \/ "xml" \in cut
         /\ <<t, "whole">> \in got => t \notin cut
    /\ <<"field", "torn">> \in got \/ <<"field", "dropped">> \in got
         => cut \cap {"name", "value"} # {}
=============================================================================
