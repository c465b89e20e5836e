---------------------------- MODULE LogFormatter ----------------------------
(***************************************************************************)
(* LogFormatter::init() of sylar/log.cc: the parser that turns a pattern   *)
(* such as "%d%T[%p]%T%m%n" into a list of items, and says with m_error    *)
(* whether Logger::setFormatter may use it.                                *)
(*                                                                         *)
(* A pattern is a sequence of characters, one step reads what one round of *)
(* the code's outer loop does, and the inner loop, which only looks ahead, *)
(* is the operator Scan.  Positions count from 1.                          *)
(***************************************************************************)
EXTENDS Integers, Sequences, SequencesExt

CONSTANTS
  Chars,           \* characters
  Patterns,        \* the patterns tried
  Letters,         \* the characters isalpha() accepts
  ItemNames,       \* the names in s_format_item, one letter each
  PatternContract  \* what a pattern respects

PatternClauses ==
  { "no_escape",  \* no %% in it
    "no_brace" }  \* no { and no }

ASSUME LogFormatterAssumption ==
  /\ Patterns \subseteq Seq(Chars)
  /\ ItemNames \subseteq Letters
  /\ {"%", "{", "}"} \cap Letters = {}
  /\ PatternContract \subseteq PatternClauses

VARIABLES m_pattern, i, nstr, vec, m_items, m_error, stage

parserVars == <<m_pattern, i, nstr, vec, m_items, m_error, stage>>

(* The text and the format of an entry of vec, and whether it is an item. *)
Entries ==
  [str : Seq(Chars \cup {"pattern_error"}), fmt : Seq(Chars), type : {0, 1}]

(* FormatItem: a text, an item of s_format_item, or an error text. *)
Items ==
  [kind : {"text", "item", "error"}, str : Seq(Chars \cup {"pattern_error"}),
   fmt : Seq(Chars)]

ParserTypeOK ==
  /\ m_pattern \in Patterns
  /\ i \in 1..(Len(m_pattern) + 1)
  /\ nstr \in Seq(Chars)
  /\ vec \in Seq(Entries)
  /\ m_items \in Seq(Items)
  /\ m_error \in BOOLEAN
  /\ stage \in {"loop", "items", "done"}

ParserInit ==
  /\ m_pattern \in Patterns
  /\ i = 1 /\ nstr = <<>> /\ vec = <<>> /\ m_items = <<>>
  /\ m_error = FALSE
  /\ stage = "loop"

----------------------------------------------------------------------------
Min0(S, default) == IF S = {} THEN default ELSE Min(S)

(* The first position from a to b - 1 that holds a character of C, or b. *)
Find(C, a, b) == Min0({n \in a..(b - 1) : m_pattern[n] \in C}, b)

(* The first position from a on that the inner loop does not pass. *)
WordEnd(a) ==
  Min0({n \in a..Len(m_pattern) : m_pattern[n] \notin Letters \cup {"{", "}"}},
       Len(m_pattern) + 1)

(* The inner loop for a % at i: where it stops, whether it stops inside a
   brace (fmt_status), and what it takes for the format.  substr starts one
   position too late, and with an empty brace its length wraps around. *)
Scan ==
  LET end == WordEnd(i + 1)
      open == Find({"{"}, i + 1, end)
      close == Find({"}"}, open + 1, end)
  IN
  IF open = end THEN [n |-> end, fmt_status |-> 0, fmt |-> <<>>]
  ELSE IF close = end
       THEN [n |-> end, fmt_status |-> 1, fmt |-> <<>>]
  ELSE [n |-> close + 1, fmt_status |-> 0,
        fmt |-> SubSeq(m_pattern, open + 2,
                       IF close = open + 1 THEN Len(m_pattern) ELSE close - 1)]

Entry(str, fmt, type) == [str |-> str, fmt |-> fmt, type |-> type]

(* vec with the text read so far, if there is any. *)
Flushed == IF nstr # <<>> THEN Append(vec, Entry(nstr, <<>>, 0)) ELSE vec

Reading == stage = "loop" /\ i <= Len(m_pattern)
Escaped ==
  m_pattern[i] = "%" /\ i + 1 <= Len(m_pattern) /\ m_pattern[i + 1] = "%"

Literal ==
  /\ Reading /\ m_pattern[i] # "%"
  /\ nstr' = Append(nstr, m_pattern[i])
  /\ i' = i + 1
  /\ UNCHANGED <<m_pattern, vec, m_items, m_error, stage>>

(* %% adds one %, and the next round starts at the second. *)
Escape ==
  /\ Reading /\ Escaped
  /\ nstr' = Append(nstr, "%")
  /\ i' = i + 1
  /\ UNCHANGED <<m_pattern, vec, m_items, m_error, stage>>

(* Fault: the text before an item is put behind it. *)
ItemFirst ==
  /\ Reading /\ m_pattern[i] = "%" /\ ~Escaped /\ Scan.fmt_status = 0
  /\ vec' = Append(vec, Entry(SubSeq(m_pattern, i + 1, Scan.n - 1), Scan.fmt, 1))
  /\ i' = Scan.n
  /\ UNCHANGED <<m_pattern, nstr, m_items, m_error, stage>>

(* Name and brace together are the name. *)
Item ==
  /\ Reading /\ m_pattern[i] = "%" /\ ~Escaped /\ Scan.fmt_status = 0
  /\ vec' = Append(Flushed, Entry(SubSeq(m_pattern, i + 1, Scan.n - 1),
                                  Scan.fmt, 1))
  /\ nstr' = <<>>
  /\ i' = Scan.n
  /\ UNCHANGED <<m_pattern, m_items, m_error, stage>>

(* Fault: an open brace is not an error. *)
UnclosedAccepted ==
  /\ Reading /\ m_pattern[i] = "%" /\ ~Escaped /\ Scan.fmt_status = 1
  /\ vec' = Append(vec, Entry(<<"pattern_error">>, Scan.fmt, 0))
  /\ i' = i + 1
  /\ UNCHANGED <<m_pattern, nstr, m_items, m_error, stage>>

(* A brace that is not closed: the text stays, and the loop goes on behind
   the %. *)
Unclosed ==
  /\ Reading /\ m_pattern[i] = "%" /\ ~Escaped /\ Scan.fmt_status = 1
  /\ m_error' = TRUE
  /\ vec' = Append(vec, Entry(<<"pattern_error">>, Scan.fmt, 0))
  /\ i' = i + 1
  /\ UNCHANGED <<m_pattern, nstr, m_items, stage>>

(* The text behind the last item. *)
LastText ==
  /\ stage = "loop" /\ i > Len(m_pattern)
  /\ vec' = Flushed
  /\ nstr' = <<>>
  /\ stage' = "items"
  /\ UNCHANGED <<m_pattern, i, m_items, m_error>>

Known(str) == Len(str) = 1 /\ str[1] \in ItemNames

(* The item an entry of vec becomes: text, an item of s_format_item with its
   format, or the text <<error_format ...>>. *)
ItemOf(e) ==
  IF e.type = 0 THEN [kind |-> "text", str |-> e.str, fmt |-> <<>>]
  ELSE IF Known(e.str) THEN [kind |-> "item", str |-> e.str, fmt |-> e.fmt]
  ELSE [kind |-> "error", str |-> e.str, fmt |-> <<>>]

MakeItems ==
  /\ stage = "items"
  /\ m_items' = [k \in DOMAIN vec |-> ItemOf(vec[k])]
  /\ m_error' = (m_error \/ \E k \in DOMAIN vec :
                              vec[k].type = 1 /\ ~Known(vec[k].str))
  /\ stage' = "done"
  /\ UNCHANGED <<m_pattern, i, nstr, vec>>

ParserNext == Literal \/ Escape \/ Item \/ Unclosed \/ LastText \/ MakeItems

ParserSpec == ParserInit /\ [][ParserNext]_parserVars

----------------------------------------------------------------------------
(* Properties.                                                             *)

One(kind, str) == <<[kind |-> kind, str |-> str, fmt |-> <<>>]>>

(* What a pattern means from character k on, if `from' is what it means behind
   k: a character prints itself, %% prints a %, and a % with the letters behind
   it is an item, if it has the name of one. *)
MeaningAt(p, from, k) ==
  LET wordEnd == Min0({n \in (k + 1)..Len(p) : p[n] \notin Letters}, Len(p) + 1)
      word == SubSeq(p, k + 1, wordEnd - 1)
  IN
  IF k > Len(p) THEN <<>>
  ELSE IF p[k] # "%" THEN One("text", <<p[k]>>) \o from[k + 1]
  ELSE IF k < Len(p) /\ p[k + 1] = "%" THEN One("text", <<"%">>) \o from[k + 2]
  ELSE One(IF Known(word) THEN "item" ELSE "error", word) \o from[wordEnd]

Meaning(p) ==
  LET from[k \in 1..(Len(p) + 1)] == MeaningAt(p, from, k) IN from[1]

(* An item, or the characters of a text one by one. *)
CutItem(item) ==
  IF item.kind = "text"
  THEN [c \in DOMAIN item.str |-> [item EXCEPT !.str = <<item.str[c]>>]]
  ELSE <<item>>

Cut(items) == FlattenSeq([k \in DOMAIN items |-> CutItem(items[k])])

NoEscape(p) == \A k \in 1..(Len(p) - 1) : ~(p[k] = "%" /\ p[k + 1] = "%")

Respects(p) ==
  /\ "no_escape" \in PatternContract => NoEscape(p)
  /\ "no_brace" \in PatternContract => \A k \in DOMAIN p : p[k] \notin {"{", "}"}

(* The items print what the pattern means, character by character and in its
   order ("parse %% as %", log.cc:714). *)
ParsedAsMeant ==
  stage = "done" /\ Respects(m_pattern) => Cut(m_items) = Meaning(m_pattern)

(* What was read to get an item. *)
Source(item) == IF item.kind = "text" THEN item.str ELSE <<"%">> \o item.str

(* A pattern that is accepted, and so put to use by setFormatter, is printed
   whole: no error text is among its items and, if it has no %% (of which one
   % is meant to be dropped, log.cc:714), the items account in their order for
   every character of it. *)
AcceptedIsWhole ==
  stage = "done" /\ ~m_error =>
    /\ \A k \in DOMAIN m_items : m_items[k].kind # "error"
    /\ NoEscape(m_pattern) =>
         FlattenSeq([k \in DOMAIN m_items |-> Source(m_items[k])]) = m_pattern
=============================================================================
