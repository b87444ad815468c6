------------------------------ MODULE MCSplit ------------------------------
(* Instances of Split for TLC: every text of up to five characters, and the *)
(* texts with enough words for the vector to grow.                          *)
EXTENDS Split

MCChar == {DELIMITER, MINUS, 0, 1, 6}

ShortTexts == UNION {[1 .. n -> MCChar] : n \in 0 .. 5}

LongTexts == {[p \in 1 .. n |-> IF p = n THEN c ELSE DELIMITER] :
                 n \in {7, 8}, c \in {DELIMITER, 1}}

MCText == ShortTexts \cup LongTexts

MCElem == 1 .. SSIZE_MAX
=============================================================================
