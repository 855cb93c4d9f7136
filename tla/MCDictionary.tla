---------------------------- MODULE MCDictionary ----------------------------
(* A buffer of three bytes, and inputs of up to five bytes over two letters,
   two kinds of blanks and the zero byte: words that are shorter than the
   buffer, as long and longer.  Keys that are prefixes of one another, one that
   is there twice, and one as long as the buffer. *)
EXTENDS Dictionary

a == 97
b == 98

MCWords ==
  <<[key |-> <<a>>, value |-> <<51>>],
    [key |-> <<a, b>>, value |-> <<52, 52>>],
    [key |-> <<a, b, a>>, value |-> <<>>],
    [key |-> <<a>>, value |-> <<53>>]>>

MCNoKey == <<78, 75>>
MCBuffErr == <<79>>

MCStreams == UNION {[1 .. n -> {a, b, SPACE, LF, NUL}] : n \in 0 .. 5}
=============================================================================
