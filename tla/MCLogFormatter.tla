--------------------------- MODULE MCLogFormatter ---------------------------
(* Instance of LogFormatter for TLC: every pattern of up to five characters
   over an item's letter, another letter, a blank, % and the braces, with the
   patterns of Logger's constructor and of bin/conf/log.yml. *)
EXTENDS LogFormatter

MCItems == {"m", "p", "r", "c", "t", "F", "n", "d", "f", "l", "T", "N"}
MCLetters == MCItems \cup {"x"}
MCChars == MCLetters \cup {"%", "{", "}", " ", "[", "]", ":"}
MCContract == PatternClauses
Escapes == PatternClauses \ {"no_escape"}

MCPatterns ==
  SeqOf({"%", "m", "x", " ", "{", "}"}, 5) \cup
  { <<"%", "d", "%", "T", "%", "t", "%", "T", "%", "N", "%", "T", "%", "F",
      "%", "T", "[", "%", "p", "]", "%", "T", "[", "%", "c", "]", "%", "T",
      "%", "f", ":", "%", "l", "%", "T", "%", "m", "%", "n">>,
    <<"%", "d", "%", "T", "[", "%", "p", "]", "%", "T", "%", "m", "%", "n">>,
    <<"%", "d", "%", "T", "%", "m", "%", "n">> }
=============================================================================
