----------------------------- MODULE HttpParser -----------------------------
(***************************************************************************)
(* What HttpRequestParser and HttpResponseParser (http/http_parser.cc) have *)
(* in common: a Ragel machine that is fed one buffer per execute() and that *)
(* remembers where in the buffer a token began.                            *)
(*                                                                         *)
(* The offsets mark, field_start and field_len are abstracted to what they *)
(* point at: the start of a token of this buffer, or the start of the      *)
(* buffer ("reset"), where execute() puts them.  Transitions are tables of *)
(* rules, one table for each part of a grammar.                            *)
(***************************************************************************)
EXTENDS Naturals, Sequences, FiniteSets, SequencesExt

CONSTANT MaxReads      \* bound: reads that one message is spread over

VARIABLES
  cs,            \* parser->cs
  mark, field_start, field_len,
  first,         \* p is at the first byte of this buffer
  m_error,       \* m_error of the C++ parser
  got,           \* what the callbacks were given, <<token, outcome>>
  reads,         \* buffers so far
  cut            \* tokens inside which a buffer ended (history)

pvars == <<cs, mark, field_start, field_len, first, m_error, got, reads, cut>>

Rule(from, on, to, acts) == [from |-> from, on |-> on, to |-> to, acts |-> acts]

Error == <<"error">>
Start == <<"start">>

Give(r, token, outcome) == [r EXCEPT !.got = @ \cup {<<token, outcome>>}]

(* The callback is given mark..p: the token if mark is its first byte.      *)
Piece(r, token) == IF r.mark = token THEN "whole" ELSE "torn"

MarkToken(r, t) == [r EXCEPT !.mark = t, !.cut = @ \ {t}]

(* LEN(field_start, fpc)                                                    *)
WriteField(r) ==
  [r EXCEPT !.field_len = IF r.field_start = "name" THEN "name"
                          ELSE IF r.first THEN "zero" ELSE "part"]

(* on_request_http_field, on_response_http_field: no header without a name. *)
OnHttpField(r) ==
  IF r.field_len = "zero" THEN Give(r, "field", "dropped")
  ELSE Give(r, "field", IF r.field_start = "name" /\ r.field_len = "name" /\ r.mark = "value"
                        THEN "whole" ELSE "torn")

Registers == [mark |-> mark, field_start |-> field_start, field_len |-> field_len,
              first |-> first, m_error |-> m_error, got |-> got, cut |-> cut]

SetRegisters(r) ==
  /\ mark' = r.mark /\ field_start' = r.field_start /\ field_len' = r.field_len
  /\ first' = FALSE /\ m_error' = r.m_error /\ got' = r.got /\ cut' = r.cut

NoParser ==
  /\ cs = Error /\ mark = "reset" /\ field_start = "reset" /\ field_len = "zero"
  /\ first = TRUE /\ m_error = 0 /\ got = {} /\ reads = 0 /\ cut = {}

(* A parser is made and has its first buffer.                               *)
NewParser ==
  /\ cs' = Start /\ mark' = "reset" /\ field_start' = "reset" /\ field_len' = "zero"
  /\ first' = TRUE /\ m_error' = 0 /\ got' = {} /\ reads' = 1 /\ cut' = {}

(* execute() for the next buffer: the offsets go back to 0.                 *)
NextBuffer(token) ==
  /\ ~first /\ m_error = 0 /\ cs # Error /\ reads < MaxReads
  /\ mark' = "reset" /\ field_start' = "reset" /\ field_len' = "zero"
  /\ first' = TRUE /\ reads' = reads + 1 /\ cut' = cut \cup token
  /\ UNCHANGED <<m_error, got>>
=============================================================================
