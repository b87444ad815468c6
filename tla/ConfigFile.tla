----------------------------- MODULE ConfigFile -----------------------------
(***************************************************************************)
(* vanessa_config_file_read and vanessa_config_file_read_fd of             *)
(* config_file.c: one call, character by character.  The macros of the     *)
(* parser are operators on its local variables, under their names; a case  *)
(* of the switch applies them in the order of the code.                    *)
(*                                                                         *)
(* Where the chunks end that read returns does not matter to the loop: the *)
(* file may end, or read may fail, after any character.  Blank and tab are *)
(* one character here, and so are newline and carriage return: the code    *)
(* never tells them apart.  Files have no NUL bytes here: a string ends    *)
(* with one, so that a token with a NUL byte in it is cut there (109, 122) *)
(* and its key may be taken for a single letter (149).                     *)
(***************************************************************************)
EXTENDS Integers, Sequences

CONSTANTS
    NULL,
    BLANK, NEWLINE, BACKSLASH, HASH, DOUBLE, SINGLE,  \* the special characters
    Other,              \* all other characters but NUL
    DASH,               \* the dash in front of a key
    FlagArg,            \* the flag arguments, as sets of VANESSA_CONFIG_FILE_
    MAX_LINE_LENGTH,    \* the size of token_buffer
    BlockSize,          \* VANESSA_DEFAULT_DYNAMIC_ARRAY_BLOCK_SIZE
    MaxText             \* bound: characters in the file

Special == {BLANK, NEWLINE, BACKSLASH, HASH, DOUBLE, SINGLE}
Character == Special \cup Other
max_token_pos == MAX_LINE_LENGTH - 3

\* "VANESSA_CONFIG_FILE_X and VANESSA_CONFIG_FILE_BLANK may not be used together"
\* (config_file.c 61-62).
ASSUME ConfigAssumption ==
    /\ FlagArg \subseteq SUBSET {"MULTI_VALUE", "X", "BLANK"}
    /\ \A flag \in FlagArg : ~ {"X", "BLANK"} \subseteq flag
    /\ MAX_LINE_LENGTH \in Nat /\ MAX_LINE_LENGTH > 3
    /\ BlockSize \in Nat \ {0}
    /\ MaxText \in Nat
    /\ NULL \notin Seq(Character \cup {DASH})

\* The cases of the switch are different characters.
ASSUME CharactersDiffer ==
    /\ BLANK \notin {NEWLINE, BACKSLASH, HASH, DOUBLE, SINGLE}
    /\ NEWLINE \notin {BACKSLASH, HASH, DOUBLE, SINGLE}
    /\ BACKSLASH \notin {HASH, DOUBLE, SINGLE}
    /\ HASH \notin {DOUBLE, SINGLE}
    /\ DOUBLE # SINGLE
    /\ Special \cap Other = {}

VARIABLES
    p,            \* the local variables of the parser, NULL before it runs
    text,         \* the characters it has read
    status,       \* "before", "reading", "returned", "failed" or "undefined"
    closed,       \* how often the file descriptor was closed
    lost          \* what nothing points to and nobody freed or closed

vars == <<p, text, status, closed, lost>>

\* The local variables; in_quote is one of these.
NO_QUOTE     == 0
SINGLE_QUOTE == 1
DOUBLE_QUOTE == 2

NewParser(flag) ==
    [flag |-> flag,
     a |-> IF "MULTI_VALUE" \in flag THEN <<>> ELSE << <<>> >>,
     token |-> <<>>, last_escaped |-> 0, overrun |-> FALSE,
     in_escape |-> FALSE, in_comment |-> FALSE, in_quote |-> NO_QUOTE,
     in_key |-> TRUE, in_value |-> FALSE, added_key |-> FALSE]

----------------------------------------------------------------------------
\* remove_trailing_whitespace: t without the blanks at its end, as far as they
\* come after the first n characters.
Trimmed(t, n) ==
    LET ends == {k \in 0 .. Len(t) :
                    /\ k >= n \/ k = Len(t)
                    /\ \A j \in k + 1 .. Len(t) : t[j] = BLANK}
    IN  SubSeq(t, 1, CHOOSE k \in ends : \A j \in ends : k <= j)

\* ADD_TOKEN.  When last_escaped lies behind the end of the token, the trimming
\* starts behind its terminator: the token stays as it is, and what is read
\* there, and may be overwritten, is no part of it.
AddToken(s, t) ==
    [s EXCEPT !.a = Append(@, Trimmed(t, s.last_escaped)),
              !.overrun = @ \/ s.last_escaped > Len(t)]

\* The key with the dashes the flags ask for
Dashed(s) ==
    IF "BLANK" \in s.flag THEN s.token
    ELSE IF "X" \in s.flag \/ Len(s.token) = 1 THEN <<DASH>> \o s.token
    ELSE <<DASH, DASH>> \o s.token

\* Outside of escapes and quotes
Bare(s) == ~ s.in_escape /\ s.in_quote = NO_QUOTE

\* Mutant: the offset of the last token stays.
BeginKeyKeepingOffset(s) ==
    IF Bare(s) /\ ~ s.in_comment
      THEN [s EXCEPT !.a = IF s.added_key /\ "MULTI_VALUE" \in s.flag
                           THEN Append(@, NULL) ELSE @,
                     !.in_key = TRUE, !.added_key = FALSE]
      ELSE s

BeginKey(s) ==
    LET ends == s.added_key /\ "MULTI_VALUE" \in s.flag
        r    == [s EXCEPT !.last_escaped = 0]
    IN  IF Bare(s) /\ ~ s.in_comment
          THEN [r EXCEPT !.a = IF ends THEN Append(@, NULL) ELSE @,
                         !.in_key = TRUE, !.added_key = FALSE]
          ELSE r

EndKey(s) ==
    LET r == IF s.token = <<>> THEN s
             ELSE [AddToken(s, Dashed(s)) EXCEPT !.added_key = TRUE]
    IN  IF Bare(s) /\ s.in_key
          THEN [r EXCEPT !.token = <<>>, !.in_key = FALSE]
          ELSE s

BeginValue(s) ==
    [s EXCEPT !.last_escaped = 0,
              !.in_value = @ \/ (~ s.in_key /\ ~ s.in_comment
                                  /\ s.in_quote = NO_QUOTE)]

EndValue(s) ==
    IF Bare(s) /\ s.in_value
      THEN [AddToken(s, s.token) EXCEPT !.token = <<>>, !.in_value = FALSE]
      ELSE s

EndComment(s) == [s EXCEPT !.in_comment = @ /\ s.in_escape]

\* Mutant: a hash begins a comment inside of quotes as well.
BeginCommentQuoted(s) == [s EXCEPT !.in_comment = @ \/ ~ s.in_escape]

BeginComment(s) == [s EXCEPT !.in_comment = @ \/ Bare(s)]

BeginEscape(s) == [s EXCEPT !.in_escape = TRUE]

\* Mutant: the trimming does not spare the escaped character.
EndEscapeOneShort(s) ==
    IF s.in_escape
      THEN [s EXCEPT !.in_escape = FALSE, !.last_escaped = Len(s.token)]
      ELSE s

EndEscape(s) ==
    IF s.in_escape
      THEN [s EXCEPT !.in_escape = FALSE, !.last_escaped = Len(s.token) + 1]
      ELSE s

----------------------------------------------------------------------------
\* The cases of the switch

OnBlank(s) ==
    LET r == EndKey(IF "MULTI_VALUE" \in s.flag THEN EndValue(s) ELSE s)
    IN  EndEscape(IF r.in_escape THEN BeginValue(r) ELSE r)

OnNewline(s) == EndEscape(BeginKey(EndValue(EndComment(EndKey(s)))))

OnBackslash(s) ==
    BeginValue(IF s.in_escape \/ s.in_quote = SINGLE_QUOTE THEN EndEscape(s)
                                                           ELSE BeginEscape(s))

OnHash(s) == EndEscape(BeginValue(EndValue(EndKey(BeginComment(s)))))

\* The quote opens or closes a quoted part, and is itself skipped.
Quotes(s, mark) ==
    /\ ~ s.in_escape
    /\ ~ s.in_comment
    /\ s.in_quote \in {NO_QUOTE, mark}

OnQuote(s, mark) ==
    LET r == BeginValue(s)
    IN  EndEscape(IF ~ Quotes(s, mark) THEN r
                  ELSE IF s.in_quote = mark
                    THEN [r EXCEPT !.in_quote = NO_QUOTE,
                                   !.last_escaped = Len(r.token)]
                    ELSE [r EXCEPT !.in_quote = mark])

OnOther(s) == EndEscape(BeginValue(s))

\* Mutant: the end of token_buffer is not minded.
StoreAlways(s, c, skip_char) ==
    IF (s.in_key \/ s.in_value) /\ c # NEWLINE /\ ~ s.in_escape /\ ~ skip_char
      THEN [s EXCEPT !.token = Append(@, c)]
      ELSE s

\* What follows the switch
Store(s, c, skip_char) ==
    IF /\ s.in_key \/ s.in_value
       /\ c # NEWLINE
       /\ ~ s.in_escape
       /\ ~ skip_char
       /\ Len(s.token) < max_token_pos
      THEN [s EXCEPT !.token = Append(@, c)]
      ELSE s

\* One round of the loop over read_buffer
Handled(s, c) ==
    LET r == [s EXCEPT !.overrun = FALSE] IN
    CASE c = BLANK     -> Store(OnBlank(r), c, FALSE)
      [] c = NEWLINE   -> Store(OnNewline(r), c, FALSE)
      [] c = BACKSLASH -> Store(OnBackslash(r), c, FALSE)
      [] c = HASH      -> Store(OnHash(r), c, FALSE)
      [] c = DOUBLE    -> Store(OnQuote(r, DOUBLE_QUOTE), c, Quotes(r, DOUBLE_QUOTE))
      [] c = SINGLE    -> Store(OnQuote(r, SINGLE_QUOTE), c, Quotes(r, SINGLE_QUOTE))
      [] OTHER         -> Store(OnOther(r), c, FALSE)

----------------------------------------------------------------------------
\* vanessa_config_file_read opens the file, and the parser gets ready.
Begin(flag) ==
    /\ status = "before"
    /\ status' = "reading"
    /\ p' = NewParser(flag)
    /\ UNCHANGED <<text, closed, lost>>

\* open fails, or fstat or the creation of the array, after which nobody closes
\* the file.
BeginFails ==
    /\ status = "before"
    /\ status' = "failed"
    /\ lost' \in {{}, {"fd"}}
    /\ UNCHANGED <<p, text, closed>>

\* realloc or strdup fails for the dummy argv[0]; the file is closed, and the
\* array, when it was strdup, not freed.
BeginAddFails(flag) ==
    /\ status = "before"
    /\ "MULTI_VALUE" \notin flag
    /\ status' = "failed"
    /\ closed' = closed + 1
    /\ lost' \in {{}, {"array"}}
    /\ UNCHANGED <<p, text>>

Reading == status = "reading" /\ Len(text) < MaxText

\* A character of the file is handled.
Read(c) ==
    /\ Reading
    /\ text' = Append(text, c)
    /\ p' = Handled(p, c)
    /\ UNCHANGED <<status, closed, lost>>

\* The trimming reads, and may write, behind the end of token_buffer or what was
\* never written: anything may happen then, also what Read does.
Overrun(c) ==
    /\ Reading
    /\ Handled(p, c).overrun
    /\ text' = Append(text, c)
    /\ status' = "undefined"
    /\ UNCHANGED <<p, closed, lost>>

\* element_duplicate, strdup, fails for a token, or realloc for the first one.
AddFails(c) ==
    /\ Reading
    /\ \E n \in Len(p.a) .. Len(Handled(p, c).a) - 1 : Handled(p, c).a[n + 1] # NULL
    /\ text' = Append(text, c)
    /\ status' = "failed"
    /\ closed' = closed + 1
    /\ lost' \in {{"array"}} \cup (IF p.a = <<>> THEN {{}} ELSE {})
    /\ UNCHANGED p

\* realloc fails when a vector has to grow; the destruction of the array reads
\* its elements through NULL.
ReallocFails(c) ==
    /\ Reading
    /\ \E n \in Len(p.a) .. Len(Handled(p, c).a) - 1 : n > 0 /\ n % BlockSize = 0
    /\ text' = Append(text, c)
    /\ status' = "undefined"
    /\ UNCHANGED <<p, closed, lost>>

\* Mutant: the file is not closed.
ReadFailsOpen ==
    /\ status = "reading"
    /\ status' = "failed"
    /\ UNCHANGED <<p, text, closed, lost>>

ReadFails ==
    /\ status = "reading"
    /\ status' = "failed"
    /\ closed' = closed + 1
    /\ UNCHANGED <<p, text, lost>>

\* The file ends: a token in progress is dropped, vanessa_config_file_read closes
\* the file.
End ==
    /\ status = "reading"
    /\ status' = "returned"
    /\ closed' = closed + 1
    /\ UNCHANGED <<p, text, lost>>

Init ==
    /\ p = NULL
    /\ text = <<>>
    /\ status = "before"
    /\ closed = 0
    /\ lost = {}

Next ==
    \/ \E flag \in FlagArg : Begin(flag)
    \/ BeginFails
    \/ \E flag \in FlagArg : BeginAddFails(flag)
    \/ \E c \in Character : Read(c)
    \/ \E c \in Character : Overrun(c)
    \/ \E c \in Character : AddFails(c)
    \/ \E c \in Character : ReallocFails(c)
    \/ ReadFails
    \/ End

Spec == Init /\ [][Next]_vars

----------------------------------------------------------------------------
HasParser == p # NULL

Token == {t \in Seq(Character) : Len(t) <= max_token_pos}

Parser ==
    [flag : FlagArg,
     a : Seq({NULL} \cup Seq(Character \cup {DASH})),
     token : Token, last_escaped : 0 .. max_token_pos + 1, overrun : BOOLEAN,
     in_escape : BOOLEAN, in_comment : BOOLEAN,
     in_quote : {NO_QUOTE, SINGLE_QUOTE, DOUBLE_QUOTE},
     in_key : BOOLEAN, in_value : BOOLEAN, added_key : BOOLEAN]

\* token_buffer has room for the token, its two dashes and its terminator.
TypeOK ==
    /\ HasParser => p \in Parser
    /\ text \in Seq(Character)
    /\ status \in {"before", "reading", "returned", "failed", "undefined"}
    /\ closed \in Nat
    /\ lost \subseteq {"fd", "array"}

\* The flags agree.
FlagsAgree(s) ==
    /\ ~ (s.in_key /\ s.in_value)
    /\ s.in_comment => ~ s.in_key /\ ~ s.in_value /\ s.in_quote = NO_QUOTE
    /\ s.in_quote # NO_QUOTE => s.in_key \/ s.in_value
    /\ s.token # <<>> => s.in_key \/ s.in_value
    /\ s.added_key => ~ s.in_key

\* Whatever characters come: the parser is in a key, in a value, in a comment or
\* in between, and never in two of them; no character is kept that is not part
\* of a key or value, and no quote is left open in between (config_file.c
\* 129-193, 262-341).
ContextSound == HasParser => FlagsAgree(p)

\* The trimming of a token begins at most one character behind it, in spite of
\* the offsets that outlive the token they were set for (config_file.c 121, 192).
TrimsNearby ==
    HasParser /\ (p.in_key \/ p.in_value) => p.last_escaped <= Len(p.token) + 1

\* Once the parser runs, the file is closed exactly once, by one of the two
\* functions, unless something undefined has happened (config_file.c 125, 252,
\* 376-381).
ClosedOnce ==
    HasParser => closed = IF status \in {"returned", "failed"} THEN 1 ELSE 0
=============================================================================
