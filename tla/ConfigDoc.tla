----------------------------- MODULE ConfigDoc -----------------------------
(***************************************************************************)
(* What a text means to vanessa_config_file_read_fd, as definitions on     *)
(* whole texts: quotes and escapes are resolved into symbols, symbols are  *)
(* split into lines, lines into a key and values.  Meaning follows the     *)
(* rules the code keeps to, DocMeaning those of its documentation          *)
(* (config_file.c 63-98), and Undisputed are the texts about which the     *)
(* two agree.                                                              *)
(***************************************************************************)
EXTENDS ConfigFile, SequencesExt, FiniteSetsExt

\* What surrounds the character behind c, which x surrounds
Follow(x, c) ==
    LET inside == [x EXCEPT !.escaped = FALSE] IN
    CASE x.escaped -> inside
      [] ~ x.escaped /\ c = BACKSLASH /\ x.within # "single" ->
            [x EXCEPT !.escaped = TRUE]
      [] ~ x.escaped /\ x.within = "line" /\ c = HASH ->
            [inside EXCEPT !.within = "comment"]
      [] ~ x.escaped /\ x.within = "line" /\ c = SINGLE ->
            [inside EXCEPT !.within = "single"]
      [] ~ x.escaped /\ x.within = "line" /\ c = DOUBLE ->
            [inside EXCEPT !.within = "double"]
      [] ~ x.escaped /\ <<x.within, c>> \in {<<"comment", NEWLINE>>,
              <<"single", SINGLE>>, <<"double", DOUBLE>>} ->
            [inside EXCEPT !.within = "line"]
      [] OTHER -> inside

\* What surrounds each character of t, and what would follow it
Contexts(t) ==
    LET ctx[n \in 0 .. Len(t)] ==
            IF n = 0 THEN [within |-> "line", escaped |-> FALSE]
            ELSE Follow(ctx[n - 1], t[n])
    IN  ctx

\* A line consists of these symbols: a literal character, whitespace between
\* words, the mark that a word is here (of which only quotes may be left).
Literal(c) == <<"literal", c>>
Space      == <<"space", BLANK>>
Mark       == <<"mark", NULL>>
LineEnd    == <<"end", NULL>>

\* The symbols the character c stands for in the context x
SymbolsOf(x, c) ==
    CASE x.within = "comment" ->
            IF c = NEWLINE /\ ~ x.escaped THEN <<LineEnd>> ELSE <<>>
      [] x.within # "comment" /\ x.escaped ->
            <<IF c = NEWLINE THEN Mark ELSE Literal(c)>>
      [] x.within = "line" /\ ~ x.escaped ->
            CASE c = BLANK             -> <<Space>>
              [] c = NEWLINE           -> <<LineEnd>>
              [] c \in {SINGLE, DOUBLE} -> <<Mark>>
              [] c \in {BACKSLASH, HASH} -> <<>>
              [] OTHER                 -> <<Literal(c)>>
      [] x.within = "single" /\ ~ x.escaped ->
            CASE c = SINGLE  -> <<Mark>>
              [] c = NEWLINE -> <<>>
              [] OTHER       -> <<Literal(c)>>
      [] x.within = "double" /\ ~ x.escaped ->
            CASE c = DOUBLE -> <<Mark>>
              [] c \in {BACKSLASH, NEWLINE} -> <<>>
              [] OTHER -> <<Literal(c)>>

Symbols(t) ==
    LET ctx == Contexts(t)
    IN  FlattenSeq([n \in 1 .. Len(t) |-> SymbolsOf(ctx[n - 1], t[n])])

----------------------------------------------------------------------------
\* e continues the last of several pieces.
Continue(pieces, e) == [pieces EXCEPT ![Len(pieces)] = Append(@, e)]

NextLines(lines, e) ==
    IF e = LineEnd THEN Append(lines, <<>>) ELSE Continue(lines, e)

Split(y) ==
    LET lines[n \in 0 .. Len(y)] ==
            IF n = 0 THEN << <<>> >> ELSE NextLines(lines[n - 1], y[n])
    IN  lines[Len(y)]

\* The lines of a text, the last of which is what follows the last line end
Lines(t) == Split(Symbols(t))

\* Whitespace ends the key, and a value that is a word; otherwise it is part of
\* the value, but not in front of it.
NextParts(parts, e, flag) ==
    CASE e # Space -> Continue(parts, e)
      [] e = Space /\ (Len(parts) = 1 \/ "MULTI_VALUE" \in flag) ->
            Append(parts, <<>>)
      [] e = Space /\ Len(parts) # 1 /\ "MULTI_VALUE" \notin flag ->
            IF Last(parts) = <<>> THEN parts ELSE Continue(parts, e)

\* The key in a line and its values: words, or what is left of the line
Parts(line, flag) ==
    LET parts[n \in 0 .. Len(line)] ==
            IF n = 0 THEN << <<>> >> ELSE NextParts(parts[n - 1], line[n], flag)
    IN  parts[Len(line)]

NoSpaces(y) == {n \in 1 .. Len(y) : y[n] # Space}

WithoutLeading(y) == SubSeq(y, Min(NoSpaces(y) \cup {Len(y) + 1}), Len(y))

WithoutTrailing(y) == SubSeq(y, 1, Max(NoSpaces(y) \cup {0}))

\* The characters of a word
Spelled(y) ==
    FlattenSeq([n \in 1 .. Len(y) |-> IF y[n] = Mark THEN <<>> ELSE <<y[n][2]>>])

\* A token has no more than the first max_token_pos characters.
Whole(word) == Len(Spelled(WithoutTrailing(word))) <= max_token_pos

Shown(word) ==
    LET spelled == Spelled(WithoutTrailing(word))
    IN  IF Whole(word) THEN spelled ELSE SubSeq(spelled, 1, max_token_pos)

Prefix(key, flag) ==
    CASE "BLANK" \in flag -> <<>>
      [] "X" \in flag \/ ("BLANK" \notin flag /\ Len(key) = 1) -> <<DASH>>
      [] OTHER -> <<DASH, DASH>>

\* The entry, if any, of the nth part of a line
EntryOf(part, n, flag) ==
    LET word == Shown(part) IN
    CASE n = 1 /\ word # <<>>  -> <<Prefix(word, flag) \o word>>
      [] n # 1 /\ part # <<>>  -> <<word>>
      [] OTHER                 -> <<>>

\* The entries a line gives, as the flags have it
Entries(line, flag) ==
    LET parts == Parts(line, flag)
    IN  FlattenSeq([n \in 1 .. Len(parts) |-> EntryOf(parts[n], n, flag)])
          \o (IF "MULTI_VALUE" \in flag /\ Shown(parts[1]) # <<>>
              THEN <<NULL>> ELSE <<>>)

\* There is an argv[0] to begin with.
Dummy(flag) == IF "MULTI_VALUE" \in flag THEN <<>> ELSE << <<>> >>

Meaning(t, flag) ==
    Dummy(flag) \o FlattenSeq([k \in 1 .. Len(Lines(t)) |-> Entries(Lines(t)[k], flag)])

----------------------------------------------------------------------------
\* What the documentation says otherwise.

\* "Anything other than a (') inside double quotes (") will be treated as a
\* litreal" (config_file.c 79-80), a backslash too.
DocFollow(x, c) ==
    IF x.within = "double" /\ c = BACKSLASH THEN x ELSE Follow(x, c)

DocContexts(t) ==
    LET ctx[n \in 0 .. Len(t)] ==
            IF n = 0 THEN [within |-> "line", escaped |-> FALSE]
            ELSE DocFollow(ctx[n - 1], t[n])
    IN  ctx

\* So is the end of a line, also inside single quotes (78).
DocSymbolsOf(x, c) ==
    IF <<x.within, c>> \in {<<"double", BACKSLASH>>, <<"double", NEWLINE>>,
                            <<"single", NEWLINE>>}
      THEN <<Literal(c)>>
      ELSE SymbolsOf(x, c)

DocSymbols(t) ==
    LET ctx == DocContexts(t)
    IN  FlattenSeq([n \in 1 .. Len(t) |-> DocSymbolsOf(ctx[n - 1], t[n])])

\* "Leading whitespace is ignored" (72): a line begins with its key.
DocLines(t) ==
    LET lines == Split(DocSymbols(t))
    IN  [k \in 1 .. Len(lines) |-> WithoutLeading(lines[k])]

\* "a NULL entry is inserted after each line" (92-93) that is not blank, whether
\* or not its key has characters.
DocEntries(line, flag) ==
    LET parts == Parts(line, flag)
    IN  FlattenSeq([n \in 1 .. Len(parts) |-> EntryOf(parts[n], n, flag)])
          \o (IF "MULTI_VALUE" \in flag /\ line # <<>> THEN <<NULL>> ELSE <<>>)

DocMeaning(t, flag) ==
    Dummy(flag)
      \o FlattenSeq([k \in 1 .. Len(DocLines(t)) |-> DocEntries(DocLines(t)[k], flag)])

----------------------------------------------------------------------------
\* Where the documentation is silent, or says several things: a line without an
\* end; whitespace that is escaped or quoted at the end of a key, of which the
\* code trims as much as it puts dashes in front; any whitespace where a long
\* token is cut; a continuation in front of whitespace.
EndsWithLine(t) == Last(Lines(t)) = <<>>

EndsVisibly(word) == Shown(word) = <<>> \/ Last(Shown(word)) # BLANK

PartDefinite(part, n, flag) ==
    EndsVisibly(part) \/ (Whole(part) /\ (n # 1 \/ "BLANK" \in flag))

LineDefinite(line, flag) ==
    LET parts == Parts(line, flag)
    IN  \A n \in 1 .. Len(parts) : PartDefinite(parts[n], n, flag)

TrimsDefinitely(lines, flag) ==
    \A k \in 1 .. Len(lines) : LineDefinite(lines[k], flag)

ContinuesVisibly(t) ==
    \A n \in 1 .. Len(t) - 1 :
        /\ Contexts(t)[n - 1].escaped
        /\ Contexts(t)[n - 1].within # "comment"
        /\ t[n] = NEWLINE
        => t[n + 1] # BLANK

\* Where the documentation and the code disagree.  In quotes: the end of a line
\* inside of them, and a backslash inside double ones; what becomes of a single
\* quote there the documentation leaves open, and for a backslash in a comment
\* two of its rules compete (74, 75).
QuotesUndisputed(t) ==
    \A n \in 1 .. Len(t) :
        <<Contexts(t)[n - 1].within, t[n]>> \notin
            {<<"single", NEWLINE>>, <<"double", NEWLINE>>, <<"double", BACKSLASH>>,
             <<"double", SINGLE>>, <<"comment", BACKSLASH>>}

\* In lines: a key of no characters, and a token that is cut.
LinesUndisputed(lines, flag) ==
    \A k \in 1 .. Len(lines) :
        LET parts == Parts(lines[k], flag) IN
        lines[k] # <<>> => /\ Shown(parts[1]) # <<>>
                          /\ \A n \in 1 .. Len(parts) : Whole(parts[n])

\* And whitespace in front of a line
NothingLeads(lines) ==
    \A k \in 1 .. Len(lines) : lines[k] # <<>> => lines[k][1] # Space

Undisputed(t, flag) ==
    /\ QuotesUndisputed(t)
    /\ LinesUndisputed(Lines(t), flag)
    /\ NothingLeads(Lines(t))

Returned(lines) ==
    /\ status = "returned"
    /\ EndsWithLine(text)
    /\ TrimsDefinitely(lines, p.flag)
    /\ ContinuesVisibly(text)

\* The array that is returned has the keys and values of the text, in their
\* order, with their escaped and quoted characters and without the whitespace
\* around them, the dashes and separators that the flags ask for, and nothing
\* else (config_file.c 129-193, 262-341).  These are the keys and values the
\* documentation promises wherever it is undisputed; where it is not, they
\* follow the rules of the code: a backslash escapes inside double quotes as well
\* (79-80 says it does not), the end of a line inside quotes is dropped (78-80), a
\* line with whitespace in front has no key (72), and NULL comes after the lines
\* with a key only (92-93).
ActualMeaning ==
    Returned(Lines(text)) =>
        /\ p.a = Meaning(text, p.flag)
        /\ Undisputed(text, p.flag) => p.a = DocMeaning(text, p.flag)

\* "Leading whitespace is ignored" (config_file.c 72): the key of a line may have
\* whitespace in front.
DocumentedMeaning ==
    /\ Returned(DocLines(text))
    /\ QuotesUndisputed(text)
    /\ LinesUndisputed(DocLines(text), p.flag)
    => p.a = DocMeaning(text, p.flag)
=============================================================================
