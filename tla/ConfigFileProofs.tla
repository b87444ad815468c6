-------------------------- MODULE ConfigFileProofs --------------------------
(***************************************************************************)
(* Theorems about config_file.c.  About ConfigFile: for every file, every  *)
(* length of the buffer and every choice of flags; first what keeps the    *)
(* parser sound, then what it returns.  About Permission: for every set of *)
(* files, ids, modes and flags, and however often other processes change   *)
(* the files.                                                              *)
(***************************************************************************)
EXTENDS ConfigDoc, Permission, TLAPS, SequenceTheorems, WellFoundedInduction

Entry == {NULL} \cup Seq(Character \cup {DASH})

\* Every set of naturals has a least one.
LEMMA LeastNatural ==
    ASSUME NEW T \in SUBSET Nat, T # {}
    PROVE  \E m \in T : \A n \in T : m <= n
<1> DEFINE R == {pair \in Nat \X Nat : pair[1] < pair[2]}
<1>1. IsWellFoundedOn(R, Nat)
  BY NatLessThanWellFounded DEF OpToRel
<1>2. ASSUME NEW m \in Nat, NEW n \in Nat, n < m PROVE <<n, m>> \in R
  BY <1>2
<1> HIDE DEF R
<1>3. PICK m \in T : \A n \in T : ~ (<<n, m>> \in R)
  BY <1>1, WFMin
<1>4. ASSUME NEW n \in T PROVE m <= n
  <2>1. ~ (n < m)
    BY <1>2, <1>3, Zenon
  <2> QED
    BY <2>1
<1> QED
  BY <1>3, <1>4

\* What is left of a token is a beginning of it.
LEMMA TrimmedToken ==
    ASSUME NEW C, NEW t \in Seq(C), NEW n \in Nat
    PROVE  Trimmed(t, n) \in Seq(C)
<1> DEFINE ends == {k \in 0 .. Len(t) :
                      /\ k >= n \/ k = Len(t)
                      /\ \A j \in k + 1 .. Len(t) : t[j] = BLANK}
           end  == CHOOSE k \in ends : \A j \in ends : k <= j
<1>1. Len(t) \in Nat
  BY LenProperties
<1>2. Len(t) \in ends /\ ends \in SUBSET Nat
  BY <1>1
<1>3. end \in ends
  <2> HIDE DEF ends
  <2>1. \E k \in ends : \A j \in ends : k <= j
    BY <1>2, LeastNatural
  <2> QED
    BY <2>1
<1>4. end \in 0 .. Len(t)
  BY <1>3
<1> HIDE DEF end
<1>5. \A i \in 1 .. end : t[i] \in C
  BY <1>1, <1>4, ElementOfSeq
<1>6. SubSeq(t, 1, end) \in Seq(C)
  BY <1>4, <1>5, SubSeqProperties
<1> QED
  BY <1>6 DEF Trimmed, end

----------------------------------------------------------------------------
\* What every round of the loop preserves.
NearEnd(s) == s.in_key \/ s.in_value => s.last_escaped <= Len(s.token) + 1

Sound(s) ==
    /\ s \in Parser
    /\ FlagsAgree(s)
    /\ NearEnd(s)

LEMMA BufferFits == max_token_pos \in Nat \ {0}
BY ConfigAssumption DEF max_token_pos

LEMMA ParserFields ==
    ASSUME NEW s \in Parser
    PROVE  /\ s.flag \in FlagArg
           /\ s.a \in Seq(Entry)
           /\ s.token \in Seq(Character)
           /\ Len(s.token) \in 0 .. max_token_pos
           /\ s.last_escaped \in 0 .. max_token_pos + 1
           /\ s.in_quote \in {NO_QUOTE, SINGLE_QUOTE, DOUBLE_QUOTE}
BY BufferFits, LenProperties DEF Parser, Token, Entry

LEMMA EmptyToken == <<>> \in Token /\ Len(<<>>) = 0
BY BufferFits, EmptySeq DEF Token

\* ADD_TOKEN changes nothing but the array and the record of a bad read.
LEMMA AddTokenSound ==
    ASSUME NEW s \in Parser, NEW t \in Seq(Character \cup {DASH})
    PROVE  LET r == AddToken(s, t)
           IN  /\ r \in Parser /\ r.flag = s.flag
               /\ r.a = Append(s.a, Trimmed(t, s.last_escaped))
               /\ r.token = s.token /\ r.last_escaped = s.last_escaped
               /\ r.in_escape = s.in_escape /\ r.in_comment = s.in_comment
               /\ r.in_quote = s.in_quote
               /\ r.in_key = s.in_key /\ r.in_value = s.in_value
               /\ r.added_key = s.added_key
<1>1. Trimmed(t, s.last_escaped) \in Entry
  <2>1. s.last_escaped \in Nat
    BY ParserFields, BufferFits
  <2> QED
    BY <2>1, TrimmedToken DEF Entry
<1>2. Append(s.a, Trimmed(t, s.last_escaped)) \in Seq(Entry)
  BY <1>1, ParserFields, AppendProperties
<1>3. (s.overrun \/ s.last_escaped > Len(t)) \in BOOLEAN
  OBVIOUS
<1> QED
  BY <1>2, <1>3 DEF AddToken, Parser, Entry

LEMMA DashedToken ==
    ASSUME NEW s \in Parser
    PROVE  Dashed(s) \in Seq(Character \cup {DASH})
<1>1. s.token \in Seq(Character \cup {DASH})
  BY ParserFields
<1>2. <<DASH>> \in Seq(Character \cup {DASH})
  OBVIOUS
<1>3. <<DASH, DASH>> \in Seq(Character \cup {DASH})
  OBVIOUS
<1> QED
  BY <1>1, <1>2, <1>3, ConcatProperties DEF Dashed

LEMMA EndKeySound ==
    ASSUME NEW s \in Parser
    PROVE  LET r == EndKey(s)
               e == Bare(s) /\ s.in_key
               adds == e /\ s.token # <<>>
           IN  /\ r \in Parser /\ r.flag = s.flag
               /\ r.a = IF adds THEN Append(s.a, Trimmed(Dashed(s), s.last_escaped))
                        ELSE s.a
               /\ r.token = IF e THEN <<>> ELSE s.token
               /\ r.last_escaped = s.last_escaped
               /\ r.in_escape = s.in_escape /\ r.in_comment = s.in_comment
               /\ r.in_quote = s.in_quote
               /\ r.in_key = (s.in_key /\ ~ e) /\ r.in_value = s.in_value
               /\ r.added_key = (s.added_key \/ adds)
<1>1. CASE Bare(s) /\ s.in_key /\ s.token # <<>>
  <2> DEFINE q == AddToken(s, Dashed(s))
  <2>1. /\ q \in Parser /\ q.flag = s.flag
        /\ q.a = Append(s.a, Trimmed(Dashed(s), s.last_escaped))
        /\ q.last_escaped = s.last_escaped
        /\ q.in_escape = s.in_escape /\ q.in_comment = s.in_comment
        /\ q.in_quote = s.in_quote /\ q.in_value = s.in_value
    BY AddTokenSound, DashedToken
  <2>2. EndKey(s) = [[q EXCEPT !.added_key = TRUE] EXCEPT !.token = <<>>, !.in_key = FALSE]
    BY <1>1 DEF EndKey
  <2> HIDE DEF q
  <2> QED
    BY <1>1, <2>1, <2>2, EmptyToken DEF Parser
<1>2. CASE Bare(s) /\ s.in_key /\ s.token = <<>>
  BY <1>2, EmptyToken DEF EndKey, Parser
<1>3. CASE ~ (Bare(s) /\ s.in_key)
  BY <1>3 DEF EndKey, Parser
<1> QED
  BY <1>1, <1>2, <1>3

LEMMA EndValueSound ==
    ASSUME NEW s \in Parser
    PROVE  LET r == EndValue(s)
               e == Bare(s) /\ s.in_value
           IN  /\ r \in Parser /\ r.flag = s.flag
               /\ r.a = IF e THEN Append(s.a, Trimmed(s.token, s.last_escaped)) ELSE s.a
               /\ r.token = IF e THEN <<>> ELSE s.token
               /\ r.last_escaped = s.last_escaped
               /\ r.in_escape = s.in_escape /\ r.in_comment = s.in_comment
               /\ r.in_quote = s.in_quote
               /\ r.in_key = s.in_key /\ r.in_value = (s.in_value /\ ~ e)
               /\ r.added_key = s.added_key
<1>1. CASE Bare(s) /\ s.in_value
  <2> DEFINE q == AddToken(s, s.token)
  <2>0. s.token \in Seq(Character \cup {DASH})
    BY ParserFields
  <2>1. /\ q \in Parser /\ q.flag = s.flag
        /\ q.a = Append(s.a, Trimmed(s.token, s.last_escaped))
        /\ q.last_escaped = s.last_escaped
        /\ q.in_escape = s.in_escape /\ q.in_comment = s.in_comment
        /\ q.in_quote = s.in_quote /\ q.in_key = s.in_key
        /\ q.added_key = s.added_key
    BY <2>0, AddTokenSound
  <2>2. EndValue(s) = [q EXCEPT !.token = <<>>, !.in_value = FALSE]
    BY <1>1 DEF EndValue
  <2> HIDE DEF q
  <2> QED
    BY <1>1, <2>1, <2>2, EmptyToken DEF Parser
<1>2. CASE ~ (Bare(s) /\ s.in_value)
  BY <1>2 DEF EndValue, Parser
<1> QED
  BY <1>1, <1>2

LEMMA BeginKeySound ==
    ASSUME NEW s \in Parser
    PROVE  LET r == BeginKey(s)
               b == Bare(s) /\ ~ s.in_comment
           IN  /\ r \in Parser /\ r.flag = s.flag
               /\ r.a = IF b /\ s.added_key /\ "MULTI_VALUE" \in s.flag
                        THEN Append(s.a, NULL) ELSE s.a
               /\ r.token = s.token /\ r.last_escaped = 0
               /\ r.in_escape = s.in_escape /\ r.in_comment = s.in_comment
               /\ r.in_quote = s.in_quote
               /\ r.in_key = (s.in_key \/ b) /\ r.in_value = s.in_value
               /\ r.added_key = (s.added_key /\ ~ b)
<1>1. /\ s.a \in Seq(Entry) /\ NULL \in Entry
      /\ 0 \in 0 .. max_token_pos + 1
  BY ParserFields, BufferFits DEF Entry
<1>2. Append(s.a, NULL) \in Seq(Entry)
  BY <1>1, AppendProperties
<1> QED
  BY <1>1, <1>2 DEF BeginKey, Parser, Entry

LEMMA BeginValueSound ==
    ASSUME NEW s \in Parser
    PROVE  LET r == BeginValue(s)
               b == ~ s.in_key /\ ~ s.in_comment /\ s.in_quote = NO_QUOTE
           IN  /\ r \in Parser /\ r.flag = s.flag /\ r.a = s.a
               /\ r.token = s.token /\ r.last_escaped = 0
               /\ r.in_escape = s.in_escape /\ r.in_comment = s.in_comment
               /\ r.in_quote = s.in_quote
               /\ r.in_key = s.in_key /\ r.in_value = (s.in_value \/ b)
               /\ r.added_key = s.added_key
<1>1. 0 \in 0 .. max_token_pos + 1
  BY BufferFits
<1>2. CASE ~ s.in_key /\ ~ s.in_comment /\ s.in_quote = NO_QUOTE
  BY <1>1, <1>2 DEF BeginValue, Parser
<1>3. CASE ~ (~ s.in_key /\ ~ s.in_comment /\ s.in_quote = NO_QUOTE)
  BY <1>1, <1>3 DEF BeginValue, Parser
<1> QED
  BY <1>2, <1>3

LEMMA CommentSound ==
    ASSUME NEW s \in Parser
    PROVE  /\ LET r == EndComment(s)
              IN  /\ r \in Parser /\ r.flag = s.flag /\ r.a = s.a
                  /\ r.token = s.token /\ r.last_escaped = s.last_escaped
                  /\ r.in_escape = s.in_escape
                  /\ r.in_comment = (s.in_comment /\ s.in_escape)
                  /\ r.in_quote = s.in_quote
                  /\ r.in_key = s.in_key /\ r.in_value = s.in_value
                  /\ r.added_key = s.added_key
           /\ LET r == BeginComment(s)
              IN  /\ r \in Parser /\ r.flag = s.flag /\ r.a = s.a
                  /\ r.token = s.token /\ r.last_escaped = s.last_escaped
                  /\ r.in_escape = s.in_escape
                  /\ r.in_comment = (s.in_comment \/ Bare(s))
                  /\ r.in_quote = s.in_quote
                  /\ r.in_key = s.in_key /\ r.in_value = s.in_value
                  /\ r.added_key = s.added_key
BY DEF EndComment, BeginComment, Bare, Parser

LEMMA EscapeSound ==
    ASSUME NEW s \in Parser
    PROVE  /\ LET r == EndEscape(s)
              IN  /\ r \in Parser /\ r.flag = s.flag /\ r.a = s.a
                  /\ r.token = s.token
                  /\ r.last_escaped = IF s.in_escape THEN Len(s.token) + 1
                                      ELSE s.last_escaped
                  /\ r.in_escape = FALSE /\ r.in_comment = s.in_comment
                  /\ r.in_quote = s.in_quote
                  /\ r.in_key = s.in_key /\ r.in_value = s.in_value
                  /\ r.added_key = s.added_key
           /\ LET r == BeginEscape(s)
              IN  /\ r \in Parser /\ r.flag = s.flag /\ r.a = s.a
                  /\ r.token = s.token /\ r.last_escaped = s.last_escaped
                  /\ r.in_escape = TRUE /\ r.in_comment = s.in_comment
                  /\ r.in_quote = s.in_quote
                  /\ r.in_key = s.in_key /\ r.in_value = s.in_value
                  /\ r.added_key = s.added_key
<1>1. Len(s.token) + 1 \in 0 .. max_token_pos + 1
  BY ParserFields, BufferFits
<1> QED
  BY <1>1 DEF EndEscape, BeginEscape, Parser

----------------------------------------------------------------------------
\* Those macros that may come in any order keep the parser sound.
LEMMA EndKeyKeeps ==
    ASSUME NEW s, Sound(s)
    PROVE  Sound(EndKey(s))
BY EndKeySound DEF Sound, FlagsAgree, NearEnd, Bare

LEMMA EndValueKeeps ==
    ASSUME NEW s, Sound(s)
    PROVE  Sound(EndValue(s))
BY EndValueSound DEF Sound, FlagsAgree, NearEnd, Bare

LEMMA BeginValueKeeps ==
    ASSUME NEW s, Sound(s)
    PROVE  Sound(BeginValue(s))
<1>1. s \in Parser /\ Len(s.token) \in Nat
  BY ParserFields, BufferFits DEF Sound
<1>2. NearEnd(BeginValue(s))
  BY <1>1, BeginValueSound DEF NearEnd
<1>3. FlagsAgree(BeginValue(s))
  BY <1>1, BeginValueSound DEF Sound, FlagsAgree
<1> QED
  BY <1>1, <1>2, <1>3, BeginValueSound DEF Sound

LEMMA EndEscapeKeeps ==
    ASSUME NEW s, Sound(s)
    PROVE  Sound(EndEscape(s))
<1>1. s \in Parser /\ Len(s.token) \in Nat
  BY ParserFields, BufferFits DEF Sound
<1>2. NearEnd(EndEscape(s))
  <2> DEFINE r == EndEscape(s)
  <2>1. /\ r.token = s.token /\ r.in_key = s.in_key /\ r.in_value = s.in_value
        /\ r.last_escaped \in {Len(s.token) + 1, s.last_escaped}
    BY <1>1, EscapeSound
  <2> HIDE DEF r
  <2>2. NearEnd(s)
    BY DEF Sound
  <2> QED
    BY <1>1, <2>1, <2>2 DEF NearEnd, r
<1>3. FlagsAgree(EndEscape(s))
  BY <1>1, EscapeSound DEF Sound, FlagsAgree
<1> QED
  BY <1>1, <1>2, <1>3, EscapeSound DEF Sound

LEMMA BeginEscapeKeeps ==
    ASSUME NEW s, Sound(s)
    PROVE  Sound(BeginEscape(s))
BY EscapeSound DEF Sound, FlagsAgree, NearEnd

LEMMA EndCommentKeeps ==
    ASSUME NEW s, Sound(s)
    PROVE  Sound(EndComment(s))
BY CommentSound DEF Sound, FlagsAgree, NearEnd

----------------------------------------------------------------------------
\* The cases of the switch

LEMMA OnBlankSound ==
    ASSUME NEW s, Sound(s)
    PROVE  Sound(OnBlank(s))
<1> DEFINE q == IF "MULTI_VALUE" \in s.flag THEN EndValue(s) ELSE s
           k == EndKey(q)
           v == IF k.in_escape THEN BeginValue(k) ELSE k
<1>1. Sound(q)
  BY EndValueKeeps
<1>2. Sound(k)
  BY <1>1, EndKeyKeeps
<1>3. Sound(v)
  BY <1>2, BeginValueKeeps
<1> QED
  BY <1>3, EndEscapeKeeps DEF OnBlank

\* A key begins where a value has ended.
LEMMA OnNewlineSound ==
    ASSUME NEW s, Sound(s)
    PROVE  Sound(OnNewline(s))
<1> DEFINE c == EndComment(EndKey(s))
           v == EndValue(c)
           k == BeginKey(v)
<1>1. Sound(c)
  BY EndKeyKeeps, EndCommentKeeps
<1> HIDE DEF c
<1>2. Sound(v) /\ (Bare(v) => ~ v.in_value)
  BY <1>1, EndValueKeeps, EndValueSound DEF Sound, Bare
<1> HIDE DEF v
<1>3. Sound(k)
  <2>1. v \in Parser /\ Len(v.token) \in Nat
    BY <1>2, ParserFields, BufferFits DEF Sound
  <2>2. NearEnd(k)
    BY <2>1, BeginKeySound DEF NearEnd
  <2>3. FlagsAgree(k)
    BY <1>2, <2>1, BeginKeySound DEF Sound, FlagsAgree
  <2> QED
    BY <2>1, <2>2, <2>3, BeginKeySound DEF Sound
<1> QED
  BY <1>3, EndEscapeKeeps DEF OnNewline, v, c

LEMMA OnBackslashSound ==
    ASSUME NEW s, Sound(s)
    PROVE  Sound(OnBackslash(s))
BY EndEscapeKeeps, BeginEscapeKeeps, BeginValueKeeps DEF OnBackslash

\* The comment begins before the key and the value end, both of which then do.
LEMMA OnHashSound ==
    ASSUME NEW s, Sound(s)
    PROVE  Sound(OnHash(s))
<1> DEFINE c == BeginComment(s)
           k == EndKey(c)
           v == EndValue(k)
<1>1. s \in Parser /\ FlagsAgree(s) /\ NearEnd(s)
  BY DEF Sound
<1>2. /\ c \in Parser /\ NearEnd(c)
      /\ c.in_comment = (s.in_comment \/ Bare(c))
      /\ c.token = s.token /\ c.in_quote = s.in_quote /\ c.in_key = s.in_key
      /\ c.in_value = s.in_value /\ c.added_key = s.added_key
  BY <1>1, CommentSound DEF NearEnd, Bare
<1> HIDE DEF c
<1>3. /\ k \in Parser /\ NearEnd(k)
      /\ k.in_comment = (s.in_comment \/ Bare(k))
      /\ k.in_quote = s.in_quote /\ k.in_value = s.in_value
      /\ k.in_key = (s.in_key /\ ~ Bare(k))
      /\ k.token = IF Bare(k) /\ s.in_key THEN <<>> ELSE s.token
      /\ k.added_key => ~ k.in_key
  BY <1>1, <1>2, EndKeySound DEF NearEnd, FlagsAgree, Bare
<1> HIDE DEF k
<1>4. /\ v \in Parser /\ NearEnd(v)
      /\ v.in_comment = (s.in_comment \/ Bare(v))
      /\ v.in_quote = s.in_quote
      /\ v.in_key = (s.in_key /\ ~ Bare(v))
      /\ v.in_value = (s.in_value /\ ~ Bare(v))
      /\ v.token = IF Bare(v) /\ (s.in_key \/ s.in_value) THEN <<>> ELSE s.token
      /\ v.added_key => ~ v.in_key
  BY <1>3, EndValueSound DEF NearEnd, Bare
<1>5. OnHash(s) = EndEscape(BeginValue(v))
  BY DEF OnHash, v, k, c
<1> HIDE DEF v
<1>6. FlagsAgree(v)
  BY <1>1, <1>4 DEF FlagsAgree, Bare
<1> QED
  BY <1>4, <1>5, <1>6, BeginValueKeeps, EndEscapeKeeps DEF Sound

\* A quote opens in a key or value only, as BEGIN_VALUE has just seen to.
LEMMA OnQuoteSound ==
    ASSUME NEW s, Sound(s), NEW mark \in {SINGLE_QUOTE, DOUBLE_QUOTE}
    PROVE  Sound(OnQuote(s, mark))
<1> DEFINE r == BeginValue(s)
<1>1. /\ r \in Parser /\ FlagsAgree(r) /\ NearEnd(r)
      /\ r.in_comment = s.in_comment
      /\ ~ s.in_comment => r.in_key \/ r.in_value
      /\ Len(r.token) \in 0 .. max_token_pos
  <2>1. Sound(r)
    BY BeginValueKeeps
  <2> QED
    BY <2>1, BeginValueSound, ParserFields DEF Sound, FlagsAgree
<1> HIDE DEF r
<1>2. CASE ~ Quotes(s, mark)
  BY <1>1, <1>2, EndEscapeKeeps DEF OnQuote, Sound, r
<1>3. CASE Quotes(s, mark) /\ s.in_quote = mark
  <2> DEFINE q == [r EXCEPT !.in_quote = NO_QUOTE, !.last_escaped = Len(r.token)]
  <2>1. Len(r.token) \in 0 .. max_token_pos + 1
    BY <1>1, BufferFits
  <2>2. q \in Parser
    BY <1>1, <2>1 DEF Parser
  <2>3. q.last_escaped = Len(q.token)
    BY <1>1 DEF Parser
  <2>4. NearEnd(q)
    BY <1>1, <2>1, <2>3 DEF NearEnd, Parser
  <2>5. FlagsAgree(q)
    BY <1>1 DEF FlagsAgree, Parser
  <2> QED
    BY <1>3, <2>2, <2>4, <2>5, EndEscapeKeeps DEF OnQuote, Sound, r
<1>4. CASE Quotes(s, mark) /\ s.in_quote # mark
  <2> DEFINE q == [r EXCEPT !.in_quote = mark]
  <2>1. q \in Parser /\ NearEnd(q) /\ FlagsAgree(q)
    BY <1>1, <1>4 DEF Quotes, Parser, NearEnd, FlagsAgree
  <2> QED
    BY <1>4, <2>1, EndEscapeKeeps DEF OnQuote, Sound, r
<1> QED
  BY <1>2, <1>3, <1>4

LEMMA OnOtherSound ==
    ASSUME NEW s, Sound(s)
    PROVE  Sound(OnOther(s))
BY BeginValueKeeps, EndEscapeKeeps DEF OnOther

LEMMA StoreSound ==
    ASSUME NEW s, Sound(s), NEW c \in Character, NEW skip_char \in BOOLEAN
    PROVE  Sound(Store(s, c, skip_char))
<1>1. /\ s \in Parser /\ FlagsAgree(s) /\ NearEnd(s)
      /\ s.token \in Seq(Character) /\ Len(s.token) \in 0 .. max_token_pos
      /\ s.last_escaped \in Nat
  BY ParserFields, BufferFits DEF Sound
<1>2. CASE /\ s.in_key \/ s.in_value
           /\ c # NEWLINE /\ ~ s.in_escape /\ ~ skip_char
           /\ Len(s.token) < max_token_pos
  <2> DEFINE t == Append(s.token, c)
             r == [s EXCEPT !.token = t]
  <2>1. t \in Seq(Character) /\ Len(t) = Len(s.token) + 1
    BY <1>1, AppendProperties
  <2>2. t \in Token
    BY <1>1, <1>2, <2>1, BufferFits DEF Token
  <2> HIDE DEF t
  <2>3. r \in Parser
    BY <1>1, <2>2 DEF Parser
  <2>4. FlagsAgree(r)
    BY <1>1, <1>2 DEF FlagsAgree, Parser
  <2>5. NearEnd(r)
    BY <1>1, <2>1 DEF NearEnd, Parser
  <2>6. Store(s, c, skip_char) = r
    BY <1>2 DEF Store, t
  <2> QED
    BY <2>3, <2>4, <2>5, <2>6 DEF Sound
<1> QED
  BY <1>2 DEF Store

LEMMA HandledSound ==
    ASSUME NEW s, Sound(s), NEW c \in Character
    PROVE  Sound(Handled(s, c))
<1> DEFINE r == [s EXCEPT !.overrun = FALSE]
<1>1. Sound(r)
  BY DEF Sound, Parser, FlagsAgree, NearEnd
<1> HIDE DEF r
<1>2. \A mark : Quotes(r, mark) \in BOOLEAN
  BY DEF Quotes
<1>3. /\ Sound(Store(OnBlank(r), c, FALSE))
      /\ Sound(Store(OnNewline(r), c, FALSE))
      /\ Sound(Store(OnBackslash(r), c, FALSE))
      /\ Sound(Store(OnHash(r), c, FALSE))
      /\ Sound(Store(OnOther(r), c, FALSE))
  BY <1>1, StoreSound, OnBlankSound, OnNewlineSound, OnBackslashSound,
     OnHashSound, OnOtherSound
<1>4. \A mark \in {SINGLE_QUOTE, DOUBLE_QUOTE} :
        Sound(Store(OnQuote(r, mark), c, Quotes(r, mark)))
  BY <1>1, <1>2, StoreSound, OnQuoteSound
<1> QED
  BY <1>3, <1>4 DEF Handled, r

LEMMA NewParserSound ==
    ASSUME NEW flags \in FlagArg
    PROVE  Sound(NewParser(flags))
<1>1. << <<>> >> \in Seq(Entry) /\ <<>> \in Seq(Entry)
  BY DEF Entry
<1>2. 0 \in 0 .. max_token_pos + 1 /\ <<>> \in Token
  BY BufferFits, EmptyToken
<1>3. NewParser(flags) \in Parser
  BY <1>1, <1>2 DEF NewParser, Parser, Entry
<1>4. FlagsAgree(NewParser(flags)) /\ NearEnd(NewParser(flags))
  BY EmptyToken DEF NewParser, FlagsAgree, NearEnd
<1> QED
  BY <1>3, <1>4 DEF Sound

----------------------------------------------------------------------------
\* The inductive invariant
IInv ==
    /\ TypeOK
    /\ HasParser => Sound(p)
    /\ status = "before" => ~ HasParser /\ closed = 0
    /\ status = "reading" => Sound(p) /\ closed = 0
    /\ ClosedOnce

LEMMA InitIInv == Init => IInv
BY EmptySeq DEF Init, IInv, TypeOK, HasParser, ClosedOnce

LEMMA NextIInv == IInv /\ [Next]_vars => IInv'
<1> SUFFICES ASSUME IInv, [Next]_vars PROVE IInv'
  OBVIOUS
<1> USE DEF IInv, TypeOK, HasParser, ClosedOnce
<1>1. ASSUME NEW flags \in FlagArg, Begin(flags) PROVE IInv'
  BY <1>1, NewParserSound DEF Begin, Sound
<1>2. CASE BeginFails
  BY <1>2 DEF BeginFails
<1>3. ASSUME NEW flags \in FlagArg, BeginAddFails(flags) PROVE IInv'
  BY <1>3 DEF BeginAddFails
<1>4. ASSUME NEW c \in Character, Read(c) PROVE IInv'
  <2>1. Append(text, c) \in Seq(Character)
    BY AppendProperties
  <2>2. Sound(Handled(p, c))
    BY <1>4, HandledSound DEF Read, Reading
  <2> QED
    BY <1>4, <2>1, <2>2 DEF Read, Reading, Sound
<1>5. ASSUME NEW c \in Character, Overrun(c) PROVE IInv'
  BY <1>5, AppendProperties DEF Overrun, Reading
<1>6. ASSUME NEW c \in Character, AddFails(c) PROVE IInv'
  BY <1>6, AppendProperties DEF AddFails, Reading
<1>7. ASSUME NEW c \in Character, ReallocFails(c) PROVE IInv'
  BY <1>7, AppendProperties DEF ReallocFails, Reading
<1>8. CASE ReadFails
  BY <1>8 DEF ReadFails
<1>9. CASE End
  BY <1>9 DEF End
<1>10. CASE UNCHANGED vars
  BY <1>10 DEF vars
<1> QED
  BY <1>1, <1>2, <1>3, <1>4, <1>5, <1>6, <1>7, <1>8, <1>9, <1>10 DEF Next

LEMMA InvariantHolds == Spec => []IInv
BY InitIInv, NextIInv, PTL DEF Spec

\* The token never outgrows its buffer, and no offset lies further behind it
\* than its terminator and one (config_file.c 192, 335-339).
THEOREM TypeCorrect == Spec => []TypeOK
<1>1. IInv => TypeOK
  BY DEF IInv
<1> QED
  BY <1>1, InvariantHolds, PTL

\* The parser is in a key, in a value, in a comment or in between, and keeps
\* nothing in between, whatever the file has (config_file.c 129-193, 262-341).
THEOREM ContextAlwaysSound == Spec => []ContextSound
<1>1. IInv => ContextSound
  BY DEF IInv, Sound, ContextSound
<1> QED
  BY <1>1, InvariantHolds, PTL

\* The trimming begins at most one character behind the token in progress
\* (config_file.c 121, 192).
THEOREM TrimsAlwaysNearby == Spec => []TrimsNearby
<1>1. IInv => TrimsNearby
  BY DEF IInv, Sound, NearEnd, TrimsNearby
<1> QED
  BY <1>1, InvariantHolds, PTL

\* The file is closed exactly once by whichever return is taken (config_file.c
\* 125, 252, 376-381).
THEOREM FileClosedOnce == Spec => []ClosedOnce
<1>1. IInv => ClosedOnce
  BY DEF IInv
<1> QED
  BY <1>1, InvariantHolds, PTL

----------------------------------------------------------------------------
(***************************************************************************)
(* What a text means: how its contexts, symbols, lines, parts and words    *)
(* change with one character more.                                         *)
(***************************************************************************)

\* Induction up to n, over a set.
LEMMA UpToInduction ==
    ASSUME NEW n \in Nat, NEW T, 0 \in T, \A k \in 1 .. n : k - 1 \in T => k \in T
    PROVE  \A k \in 0 .. n : k \in T
<1> DEFINE B == {k \in 0 .. n : k \notin T}
<1>1. ASSUME B # {} PROVE FALSE
  <2>1. PICK m \in B : \A k \in B : m <= k
    <3>1. B \in SUBSET Nat
      OBVIOUS
    <3> HIDE DEF B
    <3> QED
      BY <1>1, <3>1, LeastNatural
  <2>2. m - 1 \in 0 .. n /\ ~ m <= m - 1 /\ m \in 1 .. n
    BY <2>1
  <2> QED
    BY <2>1, <2>2
<1> QED
  BY <1>1

\* f[k] is what k steps make of base.
StepsOf(f, n, base, step) ==
    /\ f[0] = base
    /\ \A k \in 1 .. n : f[k] = step[k][f[k - 1]]

\* What steps compute exists, and is the only such.
LEMMA StepsExist ==
    ASSUME NEW n \in Nat, NEW A, NEW base \in A, NEW step \in [1 .. n -> [A -> A]]
    PROVE  \E f \in [0 .. n -> A] : StepsOf(f, n, base, step)
<1> DEFINE G == {k \in 0 .. n : \E f \in [0 .. k -> A] : StepsOf(f, k, base, step)}
<1>1. 0 \in G
  <2> DEFINE f == [k \in 0 .. 0 |-> base]
  <2>1. f \in [0 .. 0 -> A] /\ f[0] = base
    OBVIOUS
  <2>2. StepsOf(f, 0, base, step)
    BY <2>1 DEF StepsOf
  <2> HIDE DEF f
  <2> QED
    BY <2>1, <2>2
<1>2. ASSUME NEW k \in 1 .. n, k - 1 \in G PROVE k \in G
  <2>1. PICK f \in [0 .. k - 1 -> A] : StepsOf(f, k - 1, base, step)
    BY <1>2
  <2> DEFINE g == [i \in 0 .. k |-> IF i = k THEN step[k][f[k - 1]] ELSE f[i]]
  <2>2. step[k][f[k - 1]] \in A /\ f[0] \in A
    OBVIOUS
  <2>3. g \in [0 .. k -> A]
    BY <2>2
  <2>4. g[0] = base
    BY <2>1 DEF StepsOf
  <2>5. ASSUME NEW i \in 1 .. k PROVE g[i] = step[i][g[i - 1]]
    <3>1. CASE i = k
      <4>1. g[i] = step[k][f[k - 1]] /\ g[i - 1] = f[k - 1]
        BY <3>1
      <4> QED
        BY <3>1, <4>1
    <3>2. CASE i # k
      <4>1. i \in 1 .. k - 1 /\ g[i] = f[i] /\ g[i - 1] = f[i - 1]
        BY <3>2
      <4> QED
        BY <2>1, <4>1 DEF StepsOf
    <3> QED
      BY <3>1, <3>2
  <2> HIDE DEF g
  <2>6. StepsOf(g, k, base, step)
    BY <2>4, <2>5 DEF StepsOf
  <2> QED
    BY <2>3, <2>6
<1> HIDE DEF G
<1>3. \A k \in 0 .. n : k \in G
  BY <1>1, <1>2, UpToInduction
<1>4. n \in G
  BY <1>3
<1> QED
  BY <1>4 DEF G

LEMMA StepsUnique ==
    ASSUME NEW n \in Nat, NEW m \in 0 .. n, NEW base, NEW step,
           NEW f, StepsOf(f, n, base, step), NEW g, StepsOf(g, m, base, step)
    PROVE  \A k \in 0 .. m : f[k] = g[k]
<1> DEFINE G == {k \in 0 .. m : f[k] = g[k]}
<1>1. 0 \in G
  BY DEF StepsOf
<1>2. ASSUME NEW k \in 1 .. m, k - 1 \in G PROVE k \in G
  BY <1>2 DEF StepsOf
<1> HIDE DEF G
<1>3. \A k \in 0 .. m : k \in G
  BY <1>1, <1>2, UpToInduction
<1> QED
  BY <1>3 DEF G

----------------------------------------------------------------------------
LEMMA AppendIsFunction ==
    ASSUME NEW S, NEW s \in Seq(S), NEW e \in S
    PROVE  Append(s, e) = [k \in 1 .. Len(s) + 1 |-> IF k = Len(s) + 1 THEN e ELSE s[k]]
<1> DEFINE n == Len(s)
           u == Append(s, e)
<1>1. /\ n \in Nat /\ u \in Seq(S) /\ Len(u) = n + 1 /\ u[n + 1] = e
      /\ \A k \in 1 .. n : u[k] = s[k]
  BY LenProperties, AppendProperties
<1>2. u \in [1 .. n + 1 -> S]
  <2> HIDE DEF u
  <2> QED
    BY <1>1, LenProperties
<1>3. ASSUME NEW k \in 1 .. n + 1 PROVE u[k] = IF k = n + 1 THEN e ELSE s[k]
  <2>1. k = n + 1 \/ k \in 1 .. n
    BY <1>1
  <2> QED
    BY <1>1, <2>1
<1> HIDE DEF u, n
<1>4. u = [k \in 1 .. n + 1 |-> IF k = n + 1 THEN e ELSE s[k]]
  BY <1>2, <1>3
<1> QED
  BY <1>4 DEF u, n

\* What FlattenSeq computes
LEMMA FlattenSteps ==
    ASSUME NEW A, NEW s \in Seq(Seq(A)), NEW f \in [0 .. Len(s) -> Seq(A)],
           f[0] = <<>>, \A k \in 1 .. Len(s) : f[k] = f[k - 1] \o s[k]
    PROVE  FlattenSeq(s) = f[Len(s)]
<1> DEFINE n == Len(s)
           Rounds(h) == [i \in 1 .. n |-> IF i = 1 THEN s[i] ELSE h[i - 1] \o s[i]]
           flat == CHOOSE h : h = Rounds(h)
           g == [i \in 1 .. n |-> f[i]]
<1>1. /\ n \in Nat /\ \A k \in 1 .. n : s[k] \in Seq(A)
      /\ \A k \in 1 .. n : f[k] = f[k - 1] \o s[k]
  BY LenProperties, ElementOfSeq
<1>2. CASE n = 0
  <2>1. s = <<>>
    BY <1>2, EmptySeq
  <2> QED
    BY <1>2, <2>1 DEF FlattenSeq
<1>3. CASE n # 0
  <2> HIDE DEF n
  <2>1. ASSUME NEW i \in 1 .. n
        PROVE  g[i] = IF i = 1 THEN s[i] ELSE g[i - 1] \o s[i]
    <3>1. CASE i = 1
      <4>1. 1 \in 1 .. n /\ 1 - 1 = 0
        BY <3>1
      <4>3. f[1] = f[0] \o s[1] /\ s[1] \in Seq(A)
        BY <1>1, <4>1
      <4>2. f[1] = s[1]
        BY <4>3, ConcatEmptySeq
      <4> QED
        BY <3>1, <4>2
    <3>2. CASE i # 1
      <4>1. f[i] = f[i - 1] \o s[i]
        BY <1>1, Zenon
      <4>2. i - 1 \in 1 .. n /\ g[i] = f[i] /\ g[i - 1] = f[i - 1]
        BY <1>1, <3>2
      <4> QED
        BY <3>2, <4>1, <4>2
    <3> QED
      BY <3>1, <3>2
  <2>2. g = Rounds(g)
    BY <2>1
  <2> HIDE DEF g
  <2>3. flat = Rounds(flat)
    BY <2>2
  <2> HIDE DEF flat
  <2>4. \A i \in 1 .. n : flat[i] = IF i = 1 THEN s[i] ELSE flat[i - 1] \o s[i]
    BY <2>3
  <2> DEFINE G == {k \in 0 .. n : k = 0 \/ flat[k] = g[k]}
  <2>5. 0 \in G
    BY <1>1
  <2>6. ASSUME NEW k \in 1 .. n, k - 1 \in G PROVE k \in G
    BY <2>1, <2>4, <2>6
  <2> HIDE DEF G
  <2>7. \A k \in 0 .. n : k \in G
    BY <1>1, <2>5, <2>6, UpToInduction
  <2>8. n \in 1 .. n /\ n \in 0 .. n
    BY <1>1, <1>3
  <2>9. flat[n] = g[n]
    BY <1>3, <2>7, <2>8 DEF G
  <2>10. FlattenSeq(s) = flat[n]
    BY <1>3 DEF FlattenSeq, flat, n
  <2> QED
    BY <2>8, <2>9, <2>10 DEF g, n
<1> QED
  BY <1>2, <1>3

LEMMA FlattenEmpty == FlattenSeq(<<>>) = <<>>
BY DEF FlattenSeq

LEMMA FlattenAppend ==
    ASSUME NEW A, NEW s \in Seq(Seq(A)), NEW x \in Seq(A)
    PROVE  /\ FlattenSeq(s) \in Seq(A)
           /\ FlattenSeq(Append(s, x)) = FlattenSeq(s) \o x
<1> DEFINE t == Append(s, x)
           n == Len(s)
           step == [k \in 1 .. n + 1 |-> [y \in Seq(A) |-> y \o t[k]]]
<1>1. /\ t \in Seq(Seq(A)) /\ n \in Nat /\ Len(t) = n + 1 /\ t[n + 1] = x
      /\ \A k \in 1 .. n : t[k] = s[k]
  BY AppendProperties, LenProperties
<1>2. \A k \in 1 .. n + 1 : t[k] \in Seq(A)
  BY <1>1, ElementOfSeq
<1> HIDE DEF t, n
<1>3. step \in [1 .. n + 1 -> [Seq(A) -> Seq(A)]]
  BY <1>2, ConcatProperties
<1>4. <<>> \in Seq(A)
  BY EmptySeq
<1>5. PICK f \in [0 .. n + 1 -> Seq(A)] : StepsOf(f, n + 1, <<>>, step)
  <2> HIDE DEF step
  <2>1. n + 1 \in Nat
    BY <1>1
  <2> QED
    BY <1>3, <1>4, <2>1, StepsExist
<1>6. f[0] = <<>> /\ \A k \in 1 .. n + 1 : f[k] = f[k - 1] \o t[k]
  <2>1. \A k \in 1 .. n + 1 : f[k - 1] \in Seq(A)
    BY <1>1
  <2> QED
    BY <1>5, <2>1 DEF StepsOf
<1> DEFINE g == [k \in 0 .. n |-> f[k]]
<1>7. /\ g \in [0 .. n -> Seq(A)] /\ g[0] = <<>>
      /\ \A k \in 1 .. n : g[k] = g[k - 1] \o s[k]
  <2>1. g \in [0 .. n -> Seq(A)] /\ g[0] = f[0]
    BY <1>1
  <2>2. ASSUME NEW k \in 1 .. n PROVE g[k] = g[k - 1] \o s[k]
    <3>1. k \in 1 .. n + 1 /\ g[k] = f[k] /\ g[k - 1] = f[k - 1]
      BY <1>1
    <3> QED
      BY <1>1, <1>6, <3>1
  <2> QED
    BY <1>6, <2>1, <2>2
<1>8. FlattenSeq(s) = g[n]
  <2> HIDE DEF g
  <2> QED
    BY <1>7, FlattenSteps DEF n
<1>9. g[n] = f[n] /\ f[n] \in Seq(A) /\ f[n + 1] = f[n] \o x
  <2>1. n + 1 \in 1 .. n + 1 /\ (n + 1) - 1 = n /\ n \in 0 .. n + 1
    BY <1>1
  <2>2. f[n + 1] = f[n] \o t[n + 1]
    BY <1>6, <2>1
  <2> QED
    BY <1>1, <2>1, <2>2
<1>10. FlattenSeq(t) = f[n + 1]
  <2>1. f \in [0 .. Len(t) -> Seq(A)] /\ \A k \in 1 .. Len(t) : f[k] = f[k - 1] \o t[k]
    BY <1>1, <1>6
  <2> QED
    BY <1>1, <1>6, <2>1, FlattenSteps
<1> QED
  BY <1>8, <1>9, <1>10 DEF t

----------------------------------------------------------------------------
\* What surrounds the characters of a text
Surrounding ==
    [within : {"line", "comment", "single", "double"}, escaped : BOOLEAN]

Outside == [within |-> "line", escaped |-> FALSE]

LEMMA FollowTyped ==
    ASSUME NEW x \in Surrounding, NEW c
    PROVE  Follow(x, c) \in Surrounding
BY DEF Follow, Surrounding

LEMMA ContextsSteps ==
    ASSUME NEW t \in Seq(Character)
    PROVE  /\ Contexts(t) \in [0 .. Len(t) -> Surrounding]
           /\ Contexts(t)[0] = Outside
           /\ \A k \in 1 .. Len(t) : Contexts(t)[k] = Follow(Contexts(t)[k - 1], t[k])
<1> DEFINE n == Len(t)
           Rounds(h) == [k \in 0 .. n |-> IF k = 0 THEN Outside ELSE Follow(h[k - 1], t[k])]
           ctx == CHOOSE h : h = Rounds(h)
           step == [k \in 1 .. n |-> [x \in Surrounding |-> Follow(x, t[k])]]
<1>1. n \in Nat /\ Outside \in Surrounding
  BY LenProperties DEF Outside, Surrounding
<1>2. Contexts(t) = ctx
  BY DEF Contexts, Outside
<1> HIDE DEF n
<1>3. step \in [1 .. n -> [Surrounding -> Surrounding]]
  BY FollowTyped
<1>4. PICK f \in [0 .. n -> Surrounding] : StepsOf(f, n, Outside, step)
  <2> HIDE DEF step
  <2> QED
    BY <1>1, <1>3, StepsExist
<1>5. f[0] = Outside /\ \A k \in 1 .. n : f[k] = Follow(f[k - 1], t[k])
  <2>1. \A k \in 1 .. n : f[k - 1] \in Surrounding
    BY <1>1
  <2> QED
    BY <1>4, <2>1 DEF StepsOf
<1>6. f = Rounds(f)
  <2>1. ASSUME NEW k \in 0 .. n
        PROVE  f[k] = IF k = 0 THEN Outside ELSE Follow(f[k - 1], t[k])
    <3>1. k = 0 \/ k \in 1 .. n
      BY <1>1
    <3> QED
      BY <1>1, <1>5, <3>1, Zenon
  <2> QED
    BY <2>1
<1>7. ctx = Rounds(ctx)
  BY <1>6
<1> HIDE DEF ctx
<1>8. \A k \in 0 .. n : ctx[k] = IF k = 0 THEN Outside ELSE Follow(ctx[k - 1], t[k])
  BY <1>7
<1>9. DOMAIN ctx = 0 .. n
  BY <1>7
<1> DEFINE G == {k \in 0 .. n : ctx[k] \in Surrounding}
<1>10. 0 \in 0 .. n /\ ctx[0] = Outside
  BY <1>1, <1>8
<1>11. \A k \in 1 .. n : ctx[k] = Follow(ctx[k - 1], t[k])
  BY <1>1, <1>8
<1>12. ASSUME NEW k \in 1 .. n, k - 1 \in G PROVE k \in G
  BY <1>1, <1>11, <1>12, FollowTyped
<1>13. 0 \in G
  BY <1>1, <1>10
<1> HIDE DEF G
<1>14. \A k \in 0 .. n : k \in G
  BY <1>1, <1>12, <1>13, UpToInduction
<1>15. ctx = [k \in 0 .. n |-> ctx[k]]
  BY <1>7, <1>9
<1>16. ctx \in [0 .. n -> Surrounding]
  BY <1>14, <1>15 DEF G
<1> QED
  BY <1>2, <1>10, <1>11, <1>16 DEF n

\* What follows the whole of t
Context(t) == Contexts(t)[Len(t)]

LEMMA ContextsEmpty == Context(<<>>) = Outside
<1>1. <<>> \in Seq(Character) /\ Len(<<>>) = 0
  BY EmptySeq
<1> QED
  BY <1>1, ContextsSteps DEF Context

LEMMA ContextsAppend ==
    ASSUME NEW t \in Seq(Character), NEW c \in Character
    PROVE  /\ \A k \in 0 .. Len(t) : Contexts(Append(t, c))[k] = Contexts(t)[k]
           /\ Context(t) \in Surrounding
           /\ Context(Append(t, c)) = Follow(Context(t), c)
<1> DEFINE n == Len(t)
           u == Append(t, c)
           old == Contexts(t)
           new == Contexts(u)
<1>1. /\ n \in Nat /\ u \in Seq(Character) /\ Len(u) = n + 1 /\ u[n + 1] = c
      /\ \A k \in 1 .. n : u[k] = t[k]
  BY LenProperties, AppendProperties
<1>2. /\ old \in [0 .. n -> Surrounding] /\ old[0] = Outside
      /\ \A k \in 1 .. n : old[k] = Follow(old[k - 1], t[k])
  BY ContextsSteps
<1>3. /\ new[0] = Outside
      /\ \A k \in 1 .. n + 1 : new[k] = Follow(new[k - 1], u[k])
  <2> HIDE DEF u
  <2> QED
    BY <1>1, ContextsSteps
<1>4. Context(t) = old[n] /\ Context(u) = new[n + 1]
  BY <1>1 DEF Context
<1> HIDE DEF n, u, old, new
<1> DEFINE G == {k \in 0 .. n : new[k] = old[k]}
<1>5. 0 \in G
  BY <1>1, <1>2, <1>3
<1>6. ASSUME NEW k \in 1 .. n, k - 1 \in G PROVE k \in G
  <2>1. new[k] = Follow(new[k - 1], u[k])
    <3>1. k \in 1 .. n + 1
      BY <1>1
    <3> QED
      BY <1>3, <3>1, Zenon
  <2>2. old[k] = Follow(old[k - 1], t[k])
    BY <1>2, Zenon
  <2>3. u[k] = t[k] /\ new[k - 1] = old[k - 1] /\ k \in 0 .. n
    BY <1>1, <1>6
  <2>4. new[k] = old[k]
    BY <2>1, <2>2, <2>3, Zenon
  <2> QED
    BY <2>3, <2>4
<1> HIDE DEF G
<1>7. \A k \in 0 .. n : k \in G
  BY <1>1, <1>5, <1>6, UpToInduction
<1>8. \A k \in 0 .. n : new[k] = old[k]
  BY <1>7 DEF G
<1>9. new[n + 1] = Follow(old[n], c) /\ old[n] \in Surrounding
  <2>1. n + 1 \in 1 .. n + 1 /\ (n + 1) - 1 = n /\ n \in 0 .. n
    BY <1>1
  <2>2. new[n + 1] = Follow(new[(n + 1) - 1], u[n + 1])
    BY <1>3, <2>1, Zenon
  <2> QED
    BY <1>1, <1>2, <1>8, <2>1, <2>2
<1> QED
  BY <1>4, <1>8, <1>9 DEF n, u, old, new

----------------------------------------------------------------------------
\* The symbols of a text
Symbol == {Literal(c) : c \in Character} \cup {Space, Mark, LineEnd}

LEMMA SymbolsDiffer ==
    /\ Space # Mark /\ Space # LineEnd /\ Mark # LineEnd
    /\ \A c : Literal(c) \notin {Space, Mark, LineEnd}
BY DEF Literal, Space, Mark, LineEnd

\* A character stands for one symbol at most.
LEMMA SymbolsOfTyped ==
    ASSUME NEW x \in Surrounding, NEW c \in Character
    PROVE  SymbolsOf(x, c) = <<>> \/ \E e \in Symbol : SymbolsOf(x, c) = <<e>>
<1>1. Literal(c) \in Symbol /\ Mark \in Symbol /\ Space \in Symbol /\ LineEnd \in Symbol
  BY DEF Symbol
<1> QED
  BY <1>1 DEF SymbolsOf, Surrounding

LEMMA SymbolsEmpty == Symbols(<<>>) = <<>>
<1>1. [n \in 1 .. Len(<<>>) |-> SymbolsOf(Contexts(<<>>)[n - 1], <<>>[n])] = <<>>
  BY EmptySeq
<1> QED
  BY <1>1, FlattenEmpty DEF Symbols

LEMMA SymbolsAppend ==
    ASSUME NEW t \in Seq(Character), NEW c \in Character
    PROVE  /\ Symbols(t) \in Seq(Symbol)
           /\ Symbols(Append(t, c)) = Symbols(t) \o SymbolsOf(Context(t), c)
<1> DEFINE n == Len(t)
           u == Append(t, c)
           old == [k \in 1 .. n |-> SymbolsOf(Contexts(t)[k - 1], t[k])]
           new == [k \in 1 .. n + 1 |-> SymbolsOf(Contexts(u)[k - 1], u[k])]
           last == SymbolsOf(Context(t), c)
<1>1. /\ n \in Nat /\ Len(u) = n + 1 /\ u[n + 1] = c
      /\ \A k \in 1 .. n : u[k] = t[k] /\ t[k] \in Character
  BY LenProperties, AppendProperties, ElementOfSeq
<1>2. \A x \in Surrounding, d \in Character : SymbolsOf(x, d) \in Seq(Symbol)
  <2>1. \A e \in Symbol : <<e>> \in Seq(Symbol)
    OBVIOUS
  <2>2. <<>> \in Seq(Symbol)
    BY EmptySeq
  <2> QED
    BY <2>1, <2>2, SymbolsOfTyped
<1>3. old \in Seq(Seq(Symbol)) /\ Len(old) = n
  <2>1. \A k \in 1 .. n : Contexts(t)[k - 1] \in Surrounding
    BY <1>1, ContextsSteps
  <2>2. old \in [1 .. n -> Seq(Symbol)]
    BY <1>1, <1>2, <2>1
  <2> HIDE DEF old
  <2> QED
    BY <1>1, <2>2
<1>4. last \in Seq(Symbol)
  BY <1>2, ContextsAppend
<1>5. new = Append(old, last)
  <2>1. Append(old, last) = [k \in 1 .. n + 1 |-> IF k = n + 1 THEN last ELSE old[k]]
    <3> HIDE DEF old, last
    <3> QED
      BY <1>3, <1>4, AppendIsFunction
  <2>2. ASSUME NEW k \in 1 .. n + 1
        PROVE  new[k] = IF k = n + 1 THEN last ELSE old[k]
    <3>1. CASE k = n + 1
      <4>1. k - 1 = n /\ u[k] = c /\ Contexts(u)[n] = Contexts(t)[n]
        <5>1. n \in 0 .. n
          BY <1>1
        <5> QED
          BY <1>1, <3>1, <5>1, ContextsAppend
      <4> QED
        BY <3>1, <4>1 DEF Context
    <3>2. CASE k # n + 1
      <4>1. k \in 1 .. n /\ k - 1 \in 0 .. n
        BY <1>1, <3>2
      <4>2. Contexts(u)[k - 1] = Contexts(t)[k - 1] /\ u[k] = t[k]
        BY <1>1, <4>1, ContextsAppend
      <4> QED
        BY <3>2, <4>1, <4>2
    <3> QED
      BY <3>1, <3>2
  <2> HIDE DEF old, last
  <2> QED
    BY <2>1, <2>2
<1>6. Symbols(t) = FlattenSeq(old)
  BY DEF Symbols
<1>7. Symbols(u) = FlattenSeq(new)
  <2>1. Symbols(u) = FlattenSeq([k \in 1 .. Len(u) |-> SymbolsOf(Contexts(u)[k - 1], u[k])])
    BY DEF Symbols
  <2> QED
    BY <1>1, <2>1
<1> HIDE DEF old, new, last
<1>8. /\ FlattenSeq(old) \in Seq(Symbol)
      /\ FlattenSeq(Append(old, last)) = FlattenSeq(old) \o last
  BY <1>3, <1>4, FlattenAppend
<1> QED
  BY <1>5, <1>6, <1>7, <1>8 DEF last

----------------------------------------------------------------------------
\* What going along y makes of base, when step[e] is what the element e does
Runs(f, y, C, A, base, step) ==
    /\ y \in Seq(C) /\ base \in A /\ step \in [C -> [A -> A]]
    /\ f \in [0 .. Len(y) -> A]
    /\ f[0] = base
    /\ \A k \in 1 .. Len(y) : f[k] = step[y[k]][f[k - 1]]

LEMMA RunExists ==
    ASSUME NEW C, NEW y \in Seq(C), NEW A, NEW base \in A, NEW step \in [C -> [A -> A]]
    PROVE  \E f : Runs(f, y, C, A, base, step)
<1> DEFINE n == Len(y)
           steps == [k \in 1 .. n |-> step[y[k]]]
<1>1. n \in Nat /\ \A k \in 1 .. n : y[k] \in C
  BY LenProperties, ElementOfSeq
<1>2. steps \in [1 .. n -> [A -> A]]
  BY <1>1
<1>3. PICK f \in [0 .. n -> A] : StepsOf(f, n, base, steps)
  <2> HIDE DEF steps, n
  <2> QED
    BY <1>1, <1>2, StepsExist
<1>4. Runs(f, y, C, A, base, step)
  BY <1>3 DEF StepsOf, Runs
<1> QED
  BY <1>4

\* g does so up to n, as long as it stays in A.
RunsIn(g, y, n, A, base, step) ==
    /\ g[0] = base
    /\ \A k \in 1 .. n : g[k - 1] \in A => g[k] = step[y[k]][g[k - 1]]

\* Whatever does the same as long as it stays in A computes the same.
LEMMA RunUnique ==
    ASSUME NEW C, NEW y, NEW A, NEW base, NEW step,
           NEW f, Runs(f, y, C, A, base, step),
           NEW n \in 0 .. Len(y), NEW g, RunsIn(g, y, n, A, base, step)
    PROVE  \A k \in 0 .. n : g[k] = f[k]
<1> DEFINE G == {k \in 0 .. n : g[k] = f[k]}
<1>1. /\ Len(y) \in Nat /\ n \in Nat
      /\ f \in [0 .. Len(y) -> A]
  BY LenProperties DEF Runs
<1>2. 0 \in G
  BY <1>1 DEF Runs, RunsIn
<1>3. ASSUME NEW k \in 1 .. n, k - 1 \in G PROVE k \in G
  <2>1. k \in 1 .. Len(y) /\ k - 1 \in 0 .. Len(y) /\ k \in 0 .. n
    BY <1>1
  <2>2. g[k - 1] = f[k - 1] /\ f[k - 1] \in A
    BY <1>1, <1>3, <2>1
  <2>3. f[k] = step[y[k]][f[k - 1]]
    BY <2>1, Zenon DEF Runs
  <2>4. g[k] = step[y[k]][g[k - 1]]
    BY <2>2, Zenon DEF RunsIn
  <2> QED
    BY <2>1, <2>2, <2>3, <2>4
<1> HIDE DEF G
<1>4. \A k \in 0 .. n : k \in G
  BY <1>1, <1>2, <1>3, UpToInduction
<1> QED
  BY <1>4 DEF G

\* One element more is one step more.
LEMMA RunAppend ==
    ASSUME NEW C, NEW y \in Seq(C), NEW e \in C, NEW A, NEW base, NEW step,
           NEW f, Runs(f, y, C, A, base, step),
           NEW g, Runs(g, Append(y, e), C, A, base, step)
    PROVE  /\ f[Len(y)] \in A
           /\ g[Len(Append(y, e))] = step[e][f[Len(y)]]
<1> DEFINE n == Len(y)
           u == Append(y, e)
<1>1. /\ n \in Nat /\ u \in Seq(C) /\ Len(u) = n + 1 /\ u[n + 1] = e
      /\ \A k \in 1 .. n : u[k] = y[k]
  BY LenProperties, AppendProperties
<1>2. n + 1 \in 1 .. n + 1 /\ (n + 1) - 1 = n /\ n \in 0 .. n
  BY <1>1
<1>3. /\ g[0] = base
      /\ \A k \in 1 .. n + 1 : g[k] = step[u[k]][g[k - 1]]
  BY <1>1 DEF Runs
<1>4. \A k \in 1 .. n : g[k] = step[y[k]][g[k - 1]]
  <2> TAKE k \in 1 .. n
  <2>1. k \in 1 .. n + 1
    BY <1>1
  <2>2. g[k] = step[u[k]][g[k - 1]]
    BY <1>3, <2>1, Zenon
  <2> QED
    BY <1>1, <2>2
<1>5. g[n] = f[n]
  <2>1. n \in 0 .. Len(y)
    BY <1>1
  <2>2. RunsIn(g, y, n, A, base, step)
    BY <1>3, <1>4 DEF RunsIn
  <2> HIDE DEF n
  <2>3. \A k \in 0 .. n : g[k] = f[k]
    BY <2>1, <2>2, RunUnique
  <2> QED
    BY <1>1, <2>3
<1>6. g[n + 1] = step[u[n + 1]][g[(n + 1) - 1]]
  BY <1>2, <1>3, Zenon
<1> HIDE DEF u
<1>7. f[n] \in A /\ g[Len(u)] = step[e][f[n]]
  <2>1. f[n] \in A
    BY <1>1, <1>2 DEF Runs, n
  <2> QED
    BY <1>1, <1>2, <1>5, <1>6, <2>1
<1> QED
  BY <1>7 DEF u, n

----------------------------------------------------------------------------
\* What a line or a text is split into: one piece at least
Pieces == Seq(Seq(Symbol)) \ {<<>>}

Nothing == << <<>> >>

LEMMA NothingIsPiece == Nothing \in Pieces /\ Len(Nothing) = 1 /\ Nothing[1] = <<>>
<1>1. <<>> \in Seq(Symbol)
  BY EmptySeq
<1> QED
  BY <1>1 DEF Nothing, Pieces

LEMMA PiecesTyped ==
    ASSUME NEW q \in Pieces
    PROVE  /\ q \in Seq(Seq(Symbol)) /\ Len(q) \in Nat \ {0}
           /\ \A k \in 1 .. Len(q) : q[k] \in Seq(Symbol)
           /\ Last(q) = q[Len(q)] /\ Last(q) \in Seq(Symbol)
<1>1. q \in Seq(Seq(Symbol)) /\ q # <<>>
  BY DEF Pieces
<1>2. Len(q) \in Nat \ {0}
  BY <1>1, EmptySeq
<1>3. \A k \in 1 .. Len(q) : q[k] \in Seq(Symbol)
  BY <1>1, ElementOfSeq
<1> QED
  BY <1>1, <1>2, <1>3 DEF Last

LEMMA ContinuePieces ==
    ASSUME NEW q \in Pieces, NEW e \in Symbol
    PROVE  LET r == Continue(q, e)
           IN  /\ r \in Pieces /\ Len(r) = Len(q)
               /\ \A k \in 1 .. Len(q) :
                     r[k] = IF k = Len(q) THEN Append(Last(q), e) ELSE q[k]
               /\ Last(r) = Append(Last(q), e)
<1> DEFINE n == Len(q)
           w == Append(q[n], e)
           r == [q EXCEPT ![n] = w]
<1>1. q \in Seq(Seq(Symbol)) /\ n \in Nat \ {0} /\ q[n] \in Seq(Symbol) /\ Last(q) = q[n]
  BY PiecesTyped
<1>2. w \in Seq(Symbol)
  BY <1>1, AppendProperties
<1>3. n \in 1 .. Len(q)
  BY <1>1
<1>4. Continue(q, e) = r
  BY DEF Continue
<1> HIDE DEF w
<1>5. /\ r \in Seq(Seq(Symbol)) /\ Len(r) = Len(q)
      /\ \A k \in 1 .. Len(q) : r[k] = IF k = n THEN w ELSE q[k]
  BY <1>1, <1>2, <1>3, ExceptSeq
<1> HIDE DEF r
<1>6. r # <<>> /\ Last(r) = w
  BY <1>1, <1>3, <1>5, EmptySeq DEF Last
<1> QED
  BY <1>1, <1>4, <1>5, <1>6 DEF w, Pieces

LEMMA AppendPiece ==
    ASSUME NEW q \in Pieces
    PROVE  LET r == Append(q, <<>>)
           IN  /\ r \in Pieces /\ Len(r) = Len(q) + 1
               /\ \A k \in 1 .. Len(q) : r[k] = q[k]
               /\ r[Len(q) + 1] = <<>> /\ Last(r) = <<>>
<1>1. q \in Seq(Seq(Symbol)) /\ <<>> \in Seq(Symbol)
  BY PiecesTyped, EmptySeq
<1> QED
  BY <1>1, AppendProperties DEF Pieces, Last

LEMMA NextLinesTyped ==
    ASSUME NEW q \in Pieces, NEW e \in Symbol
    PROVE  NextLines(q, e) \in Pieces
BY ContinuePieces, AppendPiece DEF NextLines

LEMMA NextPartsTyped ==
    ASSUME NEW q \in Pieces, NEW e \in Symbol, NEW flags
    PROVE  NextParts(q, e, flags) \in Pieces
<1>1. Continue(q, e) \in Pieces /\ Append(q, <<>>) \in Pieces
  BY ContinuePieces, AppendPiece
<1> QED
  BY <1>1 DEF NextParts

LineStep == [e \in Symbol |-> [q \in Pieces |-> NextLines(q, e)]]

LEMMA SplitRuns ==
    ASSUME NEW y \in Seq(Symbol)
    PROVE  \E f : Runs(f, y, Symbol, Pieces, Nothing, LineStep) /\ Split(y) = f[Len(y)]
<1> DEFINE n == Len(y)
           Rounds(h) == [k \in 0 .. n |-> IF k = 0 THEN Nothing ELSE NextLines(h[k - 1], y[k])]
           g == CHOOSE h : h = Rounds(h)
<1>1. /\ n \in Nat /\ Nothing \in Pieces /\ LineStep \in [Symbol -> [Pieces -> Pieces]]
      /\ \A k \in 1 .. n : y[k] \in Symbol
  BY LenProperties, ElementOfSeq, NothingIsPiece, NextLinesTyped DEF LineStep
<1>2. Split(y) = g[n]
  BY DEF Split, Nothing
<1>3. PICK f : Runs(f, y, Symbol, Pieces, Nothing, LineStep)
  BY <1>1, RunExists
<1>4. \A k \in 1 .. n, q \in Pieces : LineStep[y[k]][q] = NextLines(q, y[k])
  BY <1>1 DEF LineStep
<1>5. /\ f \in [0 .. n -> Pieces] /\ f[0] = Nothing
      /\ \A k \in 1 .. n : f[k] = LineStep[y[k]][f[k - 1]]
  BY <1>3 DEF Runs
<1> HIDE DEF n
<1>6. f = Rounds(f)
  <2>1. ASSUME NEW k \in 0 .. n
        PROVE  f[k] = IF k = 0 THEN Nothing ELSE NextLines(f[k - 1], y[k])
    <3>1. CASE k = 0
      BY <1>5, <3>1
    <3>2. CASE k # 0
      <4>1. k \in 1 .. n /\ k - 1 \in 0 .. n
        BY <1>1, <3>2
      <4>2. f[k] = LineStep[y[k]][f[k - 1]]
        BY <1>5, <4>1, Zenon
      <4>3. f[k - 1] \in Pieces
        BY <1>5, <4>1
      <4>4. f[k] = NextLines(f[k - 1], y[k])
        BY <1>4, <4>1, <4>2, <4>3, Zenon
      <4> QED
        BY <3>2, <4>4
    <3> QED
      BY <3>1, <3>2
  <2> QED
    BY <1>5, <2>1
<1>7. g = Rounds(g)
  BY <1>6
<1> HIDE DEF g
<1>8. g[0] = Nothing /\ \A k \in 1 .. n : g[k] = NextLines(g[k - 1], y[k])
  BY <1>1, <1>7
<1>9. RunsIn(g, y, n, Pieces, Nothing, LineStep)
  BY <1>4, <1>8 DEF RunsIn
<1>10. n \in 0 .. Len(y) /\ n \in 0 .. n
  BY <1>1 DEF n
<1>11. g[n] = f[n]
  BY <1>3, <1>9, <1>10, RunUnique
<1> QED
  BY <1>2, <1>3, <1>11 DEF n

PartStep(flags) ==
    [e \in Symbol |-> [q \in Pieces |-> NextParts(q, e, flags)]]

LEMMA PartsRuns ==
    ASSUME NEW y \in Seq(Symbol), NEW flags
    PROVE  \E f : /\ Runs(f, y, Symbol, Pieces, Nothing, PartStep(flags))
                 /\ Parts(y, flags) = f[Len(y)]
<1> DEFINE n == Len(y)
           Rounds(h) == [k \in 0 .. n |-> IF k = 0 THEN Nothing
                                          ELSE NextParts(h[k - 1], y[k], flags)]
           g == CHOOSE h : h = Rounds(h)
<1>1. /\ n \in Nat /\ Nothing \in Pieces /\ PartStep(flags) \in [Symbol -> [Pieces -> Pieces]]
      /\ \A k \in 1 .. n : y[k] \in Symbol
  BY LenProperties, ElementOfSeq, NothingIsPiece, NextPartsTyped DEF PartStep
<1>2. Parts(y, flags) = g[n]
  BY DEF Parts, Nothing
<1>3. PICK f : Runs(f, y, Symbol, Pieces, Nothing, PartStep(flags))
  BY <1>1, RunExists
<1>4. \A k \in 1 .. n, q \in Pieces : PartStep(flags)[y[k]][q] = NextParts(q, y[k], flags)
  BY <1>1 DEF PartStep
<1>5. /\ f \in [0 .. n -> Pieces] /\ f[0] = Nothing
      /\ \A k \in 1 .. n : f[k] = PartStep(flags)[y[k]][f[k - 1]]
  BY <1>3 DEF Runs
<1> HIDE DEF n
<1>6. f = Rounds(f)
  <2>1. ASSUME NEW k \in 0 .. n
        PROVE  f[k] = IF k = 0 THEN Nothing ELSE NextParts(f[k - 1], y[k], flags)
    <3>1. CASE k = 0
      BY <1>5, <3>1
    <3>2. CASE k # 0
      <4>1. k \in 1 .. n /\ k - 1 \in 0 .. n
        BY <1>1, <3>2
      <4>2. f[k] = PartStep(flags)[y[k]][f[k - 1]]
        BY <1>5, <4>1, Zenon
      <4>3. f[k - 1] \in Pieces
        BY <1>5, <4>1
      <4>4. f[k] = NextParts(f[k - 1], y[k], flags)
        BY <1>4, <4>1, <4>2, <4>3, Zenon
      <4> QED
        BY <3>2, <4>4
    <3> QED
      BY <3>1, <3>2
  <2> QED
    BY <1>5, <2>1
<1>7. g = Rounds(g)
  BY <1>6
<1> HIDE DEF g
<1>8. g[0] = Nothing /\ \A k \in 1 .. n : g[k] = NextParts(g[k - 1], y[k], flags)
  BY <1>1, <1>7
<1>9. RunsIn(g, y, n, Pieces, Nothing, PartStep(flags))
  BY <1>4, <1>8 DEF RunsIn
<1>10. n \in 0 .. Len(y) /\ n \in 0 .. n
  BY <1>1 DEF n
<1>11. g[n] = f[n]
  BY <1>3, <1>9, <1>10, RunUnique
<1> QED
  BY <1>2, <1>3, <1>11 DEF n

LEMMA SplitEmpty == Split(<<>>) = Nothing
<1>1. <<>> \in Seq(Symbol) /\ Len(<<>>) = 0
  BY EmptySeq
<1> QED
  BY <1>1, SplitRuns DEF Runs

LEMMA PartsEmpty == ASSUME NEW flags PROVE Parts(<<>>, flags) = Nothing
<1>1. <<>> \in Seq(Symbol) /\ Len(<<>>) = 0
  BY EmptySeq
<1> QED
  BY <1>1, PartsRuns DEF Runs

LEMMA SplitAppend ==
    ASSUME NEW y \in Seq(Symbol), NEW e \in Symbol
    PROVE  /\ Split(y) \in Pieces
           /\ Split(Append(y, e)) = NextLines(Split(y), e)
<1> DEFINE u == Append(y, e)
<1>1. u \in Seq(Symbol)
  BY AppendProperties
<1>2. PICK f : Runs(f, y, Symbol, Pieces, Nothing, LineStep) /\ Split(y) = f[Len(y)]
  BY SplitRuns
<1>3. PICK g : Runs(g, u, Symbol, Pieces, Nothing, LineStep) /\ Split(u) = g[Len(u)]
  BY <1>1, SplitRuns
<1>4. f[Len(y)] \in Pieces /\ g[Len(u)] = LineStep[e][f[Len(y)]]
  BY <1>2, <1>3, RunAppend
<1>5. \A q \in Pieces : LineStep[e][q] = NextLines(q, e)
  BY DEF LineStep
<1> QED
  BY <1>2, <1>3, <1>4, <1>5

LEMMA PartsAppend ==
    ASSUME NEW y \in Seq(Symbol), NEW e \in Symbol, NEW flags
    PROVE  /\ Parts(y, flags) \in Pieces
           /\ Parts(Append(y, e), flags) = NextParts(Parts(y, flags), e, flags)
<1> DEFINE u == Append(y, e)
           step == PartStep(flags)
<1>1. u \in Seq(Symbol)
  BY AppendProperties
<1>2. PICK f : Runs(f, y, Symbol, Pieces, Nothing, step) /\ Parts(y, flags) = f[Len(y)]
  BY PartsRuns
<1>3. PICK g : Runs(g, u, Symbol, Pieces, Nothing, step) /\ Parts(u, flags) = g[Len(u)]
  BY <1>1, PartsRuns
<1>4. \A q \in Pieces : step[e][q] = NextParts(q, e, flags)
  BY DEF PartStep
<1> HIDE DEF step
<1>5. f[Len(y)] \in Pieces /\ g[Len(u)] = step[e][f[Len(y)]]
  BY <1>2, <1>3, RunAppend
<1> QED
  BY <1>2, <1>3, <1>4, <1>5

----------------------------------------------------------------------------
\* The characters of a word
Sign == Character \cup {NULL, DASH}

LEMMA SymbolSigns == \A e \in Symbol : e[2] \in Sign
BY DEF Symbol, Literal, Space, Mark, LineEnd, Character, Special, Sign

LEMMA SpelledEmpty == Spelled(<<>>) = <<>>
<1>1. [n \in 1 .. Len(<<>>) |-> IF <<>>[n] = Mark THEN <<>> ELSE <<<<>>[n][2]>>] = <<>>
  BY EmptySeq
<1> QED
  BY <1>1, FlattenEmpty DEF Spelled

LEMMA SpelledAppend ==
    ASSUME NEW w \in Seq(Symbol), NEW e \in Symbol
    PROVE  /\ Spelled(w) \in Seq(Sign)
           /\ Spelled(Append(w, e)) = IF e = Mark THEN Spelled(w)
                                      ELSE Append(Spelled(w), e[2])
<1> DEFINE n == Len(w)
           u == Append(w, e)
           One(d) == IF d = Mark THEN <<>> ELSE <<d[2]>>
           old == [k \in 1 .. n |-> One(w[k])]
           new == [k \in 1 .. n + 1 |-> One(u[k])]
<1>1. /\ n \in Nat /\ Len(u) = n + 1 /\ u[n + 1] = e
      /\ \A k \in 1 .. n : u[k] = w[k] /\ w[k] \in Symbol
  BY LenProperties, AppendProperties, ElementOfSeq
<1>2. \A d \in Symbol : One(d) \in Seq(Sign)
  BY SymbolSigns
<1>3. old \in [1 .. n -> Seq(Sign)]
  BY <1>1, <1>2
<1>4. Spelled(w) = FlattenSeq(old)
  BY DEF Spelled
<1>5. Spelled(u) = FlattenSeq(new)
  <2>1. Spelled(u) = FlattenSeq([k \in 1 .. Len(u) |-> One(u[k])])
    BY DEF Spelled
  <2> QED
    BY <1>1, <2>1
<1>6. old \in Seq(Seq(Sign)) /\ Len(old) = n
  <2> HIDE DEF old
  <2> QED
    BY <1>1, <1>3
<1>7. new = Append(old, One(e))
  <2>1. Append(old, One(e)) = [k \in 1 .. n + 1 |-> IF k = n + 1 THEN One(e) ELSE old[k]]
    <3> DEFINE x == One(e)
    <3>1. x \in Seq(Sign)
      BY <1>2
    <3> HIDE DEF old, x
    <3>2. Append(old, x) = [k \in 1 .. Len(old) + 1 |->
                              IF k = Len(old) + 1 THEN x ELSE old[k]]
      BY <1>6, <3>1, AppendIsFunction
    <3> QED
      BY <1>6, <3>2 DEF x
  <2>2. ASSUME NEW k \in 1 .. n + 1
        PROVE  new[k] = IF k = n + 1 THEN One(e) ELSE old[k]
    <3>1. k = n + 1 \/ k \in 1 .. n
      BY <1>1
    <3> HIDE DEF One
    <3> QED
      BY <1>1, <3>1
  <2> HIDE DEF One, old
  <2> QED
    BY <2>1, <2>2
<1>8. /\ FlattenSeq(old) \in Seq(Sign)
      /\ FlattenSeq(Append(old, One(e))) = FlattenSeq(old) \o One(e)
  <2> HIDE DEF One, old
  <2> QED
    BY <1>2, <1>6, FlattenAppend
<1> HIDE DEF old, new
<1>9. Spelled(w) \in Seq(Sign) /\ Spelled(u) = Spelled(w) \o One(e)
  BY <1>4, <1>5, <1>7, <1>8
<1>10. CASE e = Mark
  BY <1>9, <1>10, ConcatEmptySeq
<1>11. CASE e # Mark
  <2>1. e[2] \in Sign
    BY SymbolSigns
  <2>2. Append(Spelled(w), e[2]) = Spelled(w) \o <<e[2]>>
    BY <1>9, <2>1, AppendIsConcat
  <2> QED
    BY <1>9, <1>11, <2>2
<1> QED
  BY <1>10, <1>11 DEF u

\* What Max finds
LEMMA MaxOf ==
    ASSUME NEW n \in Nat, NEW T \in SUBSET (0 .. n), T # {}
    PROVE  Max(T) \in T /\ \A k \in T : Max(T) >= k
<1> DEFINE D == {n - k : k \in T}
<1>1. D \in SUBSET Nat /\ D # {}
  <2>1. \A k \in T : n - k \in Nat
    OBVIOUS
  <2>2. PICK k \in T : TRUE
    OBVIOUS
  <2>3. n - k \in D
    BY <2>2
  <2> QED
    BY <2>1, <2>3
<1> HIDE DEF D
<1>2. PICK m \in D : \A d \in D : m <= d
  BY <1>1, LeastNatural
<1>3. PICK j \in T : m = n - j
  BY DEF D
<1>4. \A k \in T : n - k \in D
  BY DEF D
<1>5. \A k \in T : j >= k
  BY <1>2, <1>3, <1>4
<1> QED
  BY <1>5 DEF Max

LEMMA TrailingEmpty == WithoutTrailing(<<>>) = <<>>
<1>1. \A m \in 0 .. 0 : SubSeq(<<>>, 1, m) = <<>>
  BY SubSeqEmpty
<1>2. NoSpaces(<<>>) = {}
  BY EmptySeq DEF NoSpaces
<1>3. Max({0}) \in {0}
  BY MaxOf
<1> QED
  BY <1>1, <1>2, <1>3 DEF WithoutTrailing

\* Whitespace at the end is left out, until something else follows.
LEMMA TrailingAppend ==
    ASSUME NEW w \in Seq(Symbol), NEW e \in Symbol
    PROVE  /\ WithoutTrailing(w) \in Seq(Symbol)
           /\ WithoutTrailing(Append(w, e)) = IF e = Space THEN WithoutTrailing(w)
                                              ELSE Append(w, e)
<1> DEFINE n == Len(w)
           u == Append(w, e)
           m == Max(NoSpaces(w) \cup {0})
<1>1. /\ n \in Nat /\ u \in Seq(Symbol) /\ Len(u) = n + 1 /\ u[n + 1] = e
      /\ \A k \in 1 .. n : u[k] = w[k] /\ w[k] \in Symbol
  BY LenProperties, AppendProperties, ElementOfSeq
<1> HIDE DEF u
<1>2. m \in 0 .. n
  <2> DEFINE T == NoSpaces(w) \cup {0}
  <2>1. T \in SUBSET (0 .. n) /\ T # {}
    BY <1>1 DEF NoSpaces
  <2> HIDE DEF T
  <2>2. Max(T) \in T
    BY <1>1, <2>1, MaxOf
  <2> QED
    BY <2>1, <2>2 DEF T
<1>3. WithoutTrailing(w) = SubSeq(w, 1, m)
  BY DEF WithoutTrailing
<1> HIDE DEF m, n
<1>4. /\ SubSeq(w, 1, m) \in Seq(Symbol) /\ Len(SubSeq(w, 1, m)) = m
      /\ \A k \in 1 .. m : SubSeq(w, 1, m)[k] = w[k]
  <2>1. \A k \in 1 .. m : w[k] \in Symbol
    BY <1>1, <1>2
  <2>2. m \in Int /\ (IF 1 <= m THEN m - 1 + 1 ELSE 0) = m /\ m - 1 + 1 = m
    BY <1>1, <1>2
  <2>3. /\ SubSeq(w, 1, m) \in Seq(Symbol)
        /\ Len(SubSeq(w, 1, m)) = IF 1 <= m THEN m - 1 + 1 ELSE 0
        /\ \A i \in 1 .. m - 1 + 1 : SubSeq(w, 1, m)[i] = w[1 + i - 1]
    BY <2>1, <2>2, SubSeqProperties
  <2> QED
    BY <2>2, <2>3
<1>5. CASE e = Space
  <2>1. NoSpaces(u) = NoSpaces(w)
    BY <1>1, <1>5 DEF NoSpaces, n
  <2>2. WithoutTrailing(u) = SubSeq(u, 1, m)
    BY <2>1 DEF WithoutTrailing, m
  <2>3. /\ SubSeq(u, 1, m) \in Seq(Symbol) /\ Len(SubSeq(u, 1, m)) = m
        /\ \A k \in 1 .. m : SubSeq(u, 1, m)[k] = u[k]
    <3>1. \A k \in 1 .. m : u[k] \in Symbol
      BY <1>1, <1>2
    <3>2. m \in Int /\ (IF 1 <= m THEN m - 1 + 1 ELSE 0) = m /\ m - 1 + 1 = m
      BY <1>1, <1>2
    <3>3. /\ SubSeq(u, 1, m) \in Seq(Symbol)
          /\ Len(SubSeq(u, 1, m)) = IF 1 <= m THEN m - 1 + 1 ELSE 0
          /\ \A i \in 1 .. m - 1 + 1 : SubSeq(u, 1, m)[i] = u[1 + i - 1]
      BY <3>1, <3>2, SubSeqProperties
    <3> QED
      BY <3>2, <3>3
  <2>4. SubSeq(u, 1, m) = SubSeq(w, 1, m)
    <3>1. \A k \in 1 .. m : SubSeq(u, 1, m)[k] = SubSeq(w, 1, m)[k]
      BY <1>1, <1>2, <1>4, <2>3
    <3> QED
      BY <1>4, <2>3, <3>1, SeqEqual
  <2> QED
    BY <1>3, <1>4, <1>5, <2>2, <2>4 DEF u
<1>6. CASE e # Space
  <2> DEFINE T == NoSpaces(u) \cup {0}
  <2>1. T \in SUBSET (0 .. n + 1) /\ n + 1 \in T
    BY <1>1, <1>6 DEF NoSpaces
  <2> HIDE DEF T
  <2>2. Max(T) = n + 1
    <3>1. n + 1 \in Nat /\ T # {}
      BY <1>1, <2>1
    <3>2. Max(T) \in T /\ \A k \in T : Max(T) >= k
      BY <2>1, <3>1, MaxOf
    <3>3. Max(T) \in 0 .. n + 1
      BY <2>1, <3>2
    <3>4. Max(T) >= n + 1
      BY <2>1, <3>2
    <3> QED
      BY <1>1, <3>3, <3>4
  <2>3. WithoutTrailing(u) = SubSeq(u, 1, Len(u))
    BY <1>1, <2>2 DEF WithoutTrailing, T
  <2> QED
    BY <1>1, <1>3, <1>4, <1>6, <2>3, SubSeqFull DEF u
<1> QED
  BY <1>5, <1>6

----------------------------------------------------------------------------
\* The first max_token_pos elements
Cut(y) == IF Len(y) <= max_token_pos THEN y ELSE SubSeq(y, 1, max_token_pos)

LEMMA CutProperties ==
    ASSUME NEW C, NEW y \in Seq(C)
    PROVE  /\ Cut(y) \in Seq(C)
           /\ Len(Cut(y)) \in Nat
           /\ Len(Cut(y)) = IF Len(y) <= max_token_pos THEN Len(y) ELSE max_token_pos
           /\ \A k \in 1 .. Len(Cut(y)) : Cut(y)[k] = y[k]
<1> DEFINE m == max_token_pos
           z == SubSeq(y, 1, m)
<1>1. Len(y) \in Nat /\ m \in Nat \ {0} /\ \A k \in 1 .. Len(y) : y[k] \in C
  BY LenProperties, BufferFits, ElementOfSeq
<1>2. CASE Len(y) <= m
  BY <1>1, <1>2 DEF Cut
<1>3. CASE ~ Len(y) <= m
  <2> HIDE DEF m
  <2>1. \A k \in 1 .. m : y[k] \in C
    BY <1>1, <1>3
  <2>2. m \in Int /\ (IF 1 <= m THEN m - 1 + 1 ELSE 0) = m /\ m - 1 + 1 = m
    BY <1>1
  <2>3. /\ z \in Seq(C) /\ Len(z) = IF 1 <= m THEN m - 1 + 1 ELSE 0
        /\ \A i \in 1 .. m - 1 + 1 : z[i] = y[1 + i - 1]
    BY <2>1, <2>2, SubSeqProperties
  <2>4. Len(z) = m /\ \A k \in 1 .. m : z[k] = y[k]
    BY <2>2, <2>3
  <2>5. Cut(y) = z
    BY <1>3 DEF Cut, m
  <2> HIDE DEF z
  <2> QED
    BY <1>1, <1>3, <2>3, <2>4, <2>5 DEF m
<1> QED
  BY <1>2, <1>3

LEMMA CutEqual ==
    ASSUME NEW C, NEW y \in Seq(C), NEW z \in Seq(C),
           Len(Cut(y)) = Len(Cut(z)), \A k \in 1 .. Len(Cut(y)) : y[k] = z[k]
    PROVE  Cut(y) = Cut(z)
<1>1. \A k \in 1 .. Len(Cut(y)) : Cut(y)[k] = Cut(z)[k]
  BY CutProperties
<1>2. Cut(y) \in Seq(C) /\ Cut(z) \in Seq(C)
  BY CutProperties
<1> QED
  BY <1>1, <1>2, SeqEqual

LEMMA CutAppend ==
    ASSUME NEW C, NEW y \in Seq(C), NEW c \in C
    PROVE  Cut(Append(y, c)) = IF Len(Cut(y)) < max_token_pos THEN Append(Cut(y), c)
                               ELSE Cut(y)
<1> DEFINE u == Append(y, c)
<1>1. /\ u \in Seq(C) /\ Len(u) = Len(y) + 1 /\ Len(y) \in Nat
      /\ \A k \in 1 .. Len(y) : u[k] = y[k]
  BY AppendProperties, LenProperties
<1>2. max_token_pos \in Nat
  BY BufferFits
<1> HIDE DEF u
<1>3. CASE Len(Cut(y)) < max_token_pos
  <2>1. Len(y) < max_token_pos
    BY <1>1, <1>2, <1>3, CutProperties
  <2>2. Len(u) <= max_token_pos /\ Len(y) <= max_token_pos
    BY <1>1, <1>2, <2>1
  <2>3. Cut(u) = u /\ Cut(y) = y
    BY <2>2 DEF Cut
  <2> QED
    BY <1>3, <2>3 DEF u
<1>4. CASE ~ Len(Cut(y)) < max_token_pos
  <2>1. Len(y) >= max_token_pos /\ Len(Cut(y)) = max_token_pos
    BY <1>1, <1>2, <1>4, CutProperties
  <2>2. Len(Cut(u)) = max_token_pos
    BY <1>1, <1>2, <2>1, CutProperties
  <2>3. \A k \in 1 .. Len(Cut(u)) : u[k] = y[k]
    BY <1>1, <1>2, <2>1, <2>2
  <2>4. Cut(u) = Cut(y)
    BY <1>1, <2>1, <2>2, <2>3, CutEqual
  <2> QED
    BY <1>4, <2>4 DEF u
<1> QED
  BY <1>3, <1>4

----------------------------------------------------------------------------
\* What shows of a word, and with the whitespace at its end
Inner(w) == Spelled(WithoutTrailing(w))

WordSound(w) ==
    /\ w \in Seq(Symbol)
    /\ Len(Inner(w)) <= Len(Spelled(w))
    /\ \A k \in 1 .. Len(Inner(w)) : Inner(w)[k] = Spelled(w)[k]
    /\ \A k \in Len(Inner(w)) + 1 .. Len(Spelled(w)) : Spelled(w)[k] = BLANK

LEMMA InnerTyped ==
    ASSUME NEW w \in Seq(Symbol)
    PROVE  /\ Inner(w) \in Seq(Sign) /\ Spelled(w) \in Seq(Sign)
           /\ Len(Inner(w)) \in Nat /\ Len(Spelled(w)) \in Nat
<1>1. WithoutTrailing(w) \in Seq(Symbol)
  BY TrailingAppend, SymbolSigns DEF Symbol
<1>2. Inner(w) \in Seq(Sign) /\ Spelled(w) \in Seq(Sign)
  BY <1>1, SpelledAppend DEF Inner, Symbol
<1> QED
  BY <1>2, LenProperties

LEMMA InnerEmpty == Spelled(<<>>) = <<>> /\ Inner(<<>>) = <<>> /\ WordSound(<<>>)
<1>1. <<>> \in Seq(Symbol) /\ Len(<<>>) = 0
  BY EmptySeq
<1> QED
  BY <1>1, SpelledEmpty, TrailingEmpty DEF Inner, WordSound

LEMMA InnerAppend ==
    ASSUME NEW w, WordSound(w), NEW e \in Symbol
    PROVE  /\ WordSound(Append(w, e))
           /\ Inner(Append(w, e)) = IF e = Space THEN Inner(w) ELSE Spelled(Append(w, e))
           /\ Spelled(Append(w, e)) = IF e = Mark THEN Spelled(w)
                                      ELSE Append(Spelled(w), e[2])
<1> DEFINE u == Append(w, e)
           s == Spelled(w)
<1>1. /\ w \in Seq(Symbol) /\ u \in Seq(Symbol)
      /\ s \in Seq(Sign) /\ Inner(w) \in Seq(Sign)
      /\ Len(s) \in Nat /\ Len(Inner(w)) \in Nat
  BY AppendProperties, InnerTyped DEF WordSound
<1>2. Inner(u) = IF e = Space THEN Inner(w) ELSE Spelled(u)
  BY <1>1, TrailingAppend DEF Inner
<1>3. Spelled(u) = IF e = Mark THEN s ELSE Append(s, e[2])
  BY <1>1, SpelledAppend
<1>4. CASE e = Space
  <2>1. Spelled(u) = Append(s, BLANK) /\ BLANK \in Sign
    BY <1>3, <1>4, SymbolsDiffer DEF Space, Sign, Character, Special
  <2> HIDE DEF s, u
  <2>2. /\ Len(Spelled(u)) = Len(s) + 1
        /\ \A k \in 1 .. Len(s) : Spelled(u)[k] = s[k]
        /\ Spelled(u)[Len(s) + 1] = BLANK
    BY <1>1, <2>1, AppendProperties
  <2>3. /\ Len(Inner(w)) <= Len(s)
        /\ \A k \in 1 .. Len(Inner(w)) : Inner(w)[k] = s[k]
        /\ \A k \in Len(Inner(w)) + 1 .. Len(s) : s[k] = BLANK
    BY DEF WordSound, s
  <2>4. Inner(u) = Inner(w)
    BY <1>2, <1>4
  <2>5. \A k \in Len(Inner(w)) + 1 .. Len(Spelled(u)) : Spelled(u)[k] = BLANK
    <3> TAKE k \in Len(Inner(w)) + 1 .. Len(Spelled(u))
    <3>1. k = Len(s) + 1 \/ k \in Len(Inner(w)) + 1 .. Len(s)
      BY <1>1, <2>2
    <3>2. k \in Len(Inner(w)) + 1 .. Len(s) => k \in 1 .. Len(s)
      BY <1>1
    <3> QED
      BY <2>2, <2>3, <3>1, <3>2
  <2>6. \A k \in 1 .. Len(Inner(w)) : Inner(w)[k] = Spelled(u)[k]
    BY <1>1, <2>2, <2>3
  <2>7. WordSound(u)
    BY <1>1, <2>2, <2>3, <2>4, <2>5, <2>6 DEF WordSound
  <2> QED
    BY <1>2, <1>3, <2>7 DEF u, s
<1>5. CASE e # Space
  <2>1. Inner(u) = Spelled(u)
    BY <1>2, <1>5
  <2> HIDE DEF u, s
  <2>2. Len(Spelled(u)) \in Nat
    BY <1>1, InnerTyped
  <2>3. WordSound(u)
    BY <1>1, <2>1, <2>2 DEF WordSound
  <2> QED
    BY <1>2, <1>3, <2>3 DEF u, s
<1> QED
  BY <1>4, <1>5

----------------------------------------------------------------------------
\* The entries of parts and lines
Written == {NULL} \cup Seq(Sign)

LEMMA ShownTyped ==
    ASSUME NEW w \in Seq(Symbol)
    PROVE  /\ Shown(w) = Cut(Inner(w))
           /\ Shown(w) \in Seq(Sign)
<1>1. Shown(w) = Cut(Inner(w))
  BY DEF Shown, Whole, Inner, Cut
<1> QED
  BY <1>1, InnerTyped, CutProperties

LEMMA EntryTyped ==
    ASSUME NEW w \in Seq(Symbol), NEW n, NEW flags
    PROVE  EntryOf(w, n, flags) \in Seq(Written)
<1>1. Shown(w) \in Seq(Sign)
  BY ShownTyped
<1>2. Prefix(Shown(w), flags) \in Seq(Sign)
  <2>1. DASH \in Sign
    BY DEF Sign
  <2>2. <<DASH>> \in Seq(Sign) /\ <<DASH, DASH>> \in Seq(Sign) /\ <<>> \in Seq(Sign)
    BY <2>1
  <2> QED
    BY <2>2 DEF Prefix
<1>3. Prefix(Shown(w), flags) \o Shown(w) \in Seq(Sign)
  BY <1>1, <1>2, ConcatProperties
<1>4. \A x \in Seq(Sign) : <<x>> \in Seq(Written)
  BY DEF Written
<1>5. <<>> \in Seq(Written)
  BY EmptySeq
<1> QED
  BY <1>1, <1>3, <1>4, <1>5 DEF EntryOf

\* All but the last of n + 1 sequences, and the last
LEMMA FlattenLast ==
    ASSUME NEW A, NEW n \in Nat, NEW h \in [1 .. n + 1 -> Seq(A)]
    PROVE  LET front == FlattenSeq([k \in 1 .. n |-> h[k]])
           IN  front \in Seq(A) /\ FlattenSeq(h) = front \o h[n + 1]
<1> DEFINE s == [k \in 1 .. n |-> h[k]]
           x == h[n + 1]
<1>1. s \in [1 .. n -> Seq(A)] /\ x \in Seq(A)
  OBVIOUS
<1>2. s \in Seq(Seq(A)) /\ Len(s) = n
  <2> HIDE DEF s
  <2> QED
    BY <1>1
<1>3. h = Append(s, x)
  <2>1. \A k \in 1 .. n + 1 : h[k] = IF k = n + 1 THEN x ELSE s[k]
    <3> TAKE k \in 1 .. n + 1
    <3>1. k = n + 1 \/ k \in 1 .. n
      OBVIOUS
    <3> QED
      BY <3>1
  <2> HIDE DEF s, x
  <2>2. h = [k \in 1 .. n + 1 |-> IF k = n + 1 THEN x ELSE s[k]]
    BY <2>1
  <2> QED
    BY <1>1, <1>2, <2>2, AppendIsFunction
<1> HIDE DEF s, x
<1>4. FlattenSeq(s) \in Seq(A) /\ FlattenSeq(Append(s, x)) = FlattenSeq(s) \o x
  BY <1>1, <1>2, FlattenAppend
<1> QED
  BY <1>3, <1>4 DEF s, x

\* The entries of all parts, and of all but the last
AllOf(q, flags)  == FlattenSeq([k \in 1 .. Len(q) |-> EntryOf(q[k], k, flags)])
Before(q, flags) == FlattenSeq([k \in 1 .. Len(q) - 1 |-> EntryOf(q[k], k, flags)])

LEMMA AllSplits ==
    ASSUME NEW q \in Pieces, NEW flags
    PROVE  /\ Before(q, flags) \in Seq(Written)
           /\ EntryOf(Last(q), Len(q), flags) \in Seq(Written)
           /\ AllOf(q, flags) = Before(q, flags) \o EntryOf(Last(q), Len(q), flags)
<1> DEFINE n == Len(q) - 1
           h == [k \in 1 .. n + 1 |-> EntryOf(q[k], k, flags)]
           g == [k \in 1 .. n |-> EntryOf(q[k], k, flags)]
<1>1. /\ n \in Nat /\ Len(q) = n + 1 /\ Last(q) = q[n + 1]
      /\ \A k \in 1 .. n + 1 : q[k] \in Seq(Symbol)
  BY PiecesTyped
<1> HIDE DEF n
<1>2. h \in [1 .. n + 1 -> Seq(Written)]
  BY <1>1, EntryTyped
<1>3. g = [k \in 1 .. n |-> h[k]] /\ h[n + 1] = EntryOf(q[n + 1], n + 1, flags)
  BY <1>1
<1> HIDE DEF h
<1>4. /\ FlattenSeq([k \in 1 .. n |-> h[k]]) \in Seq(Written)
      /\ FlattenSeq(h) = FlattenSeq([k \in 1 .. n |-> h[k]]) \o h[n + 1]
  BY <1>1, <1>2, FlattenLast
<1>5. AllOf(q, flags) = FlattenSeq(h)
  BY <1>1 DEF AllOf, h
<1>6. Before(q, flags) = FlattenSeq(g)
  BY DEF Before, n
<1>7. EntryOf(Last(q), Len(q), flags) \in Seq(Written)
  BY PiecesTyped, EntryTyped
<1> QED
  BY <1>1, <1>3, <1>4, <1>5, <1>6, <1>7

LEMMA BeforeNothing == ASSUME NEW flags PROVE Before(Nothing, flags) = <<>>
<1>1. [k \in 1 .. Len(Nothing) - 1 |-> EntryOf(Nothing[k], k, flags)] = <<>>
  BY NothingIsPiece
<1> QED
  BY <1>1, FlattenEmpty DEF Before

LEMMA BeforeContinue ==
    ASSUME NEW q \in Pieces, NEW e \in Symbol, NEW flags
    PROVE  Before(Continue(q, e), flags) = Before(q, flags)
<1> DEFINE r == Continue(q, e)
<1>1. /\ Len(r) = Len(q) /\ Len(q) \in Nat
      /\ \A k \in 1 .. Len(q) : r[k] = IF k = Len(q) THEN Append(Last(q), e) ELSE q[k]
  BY ContinuePieces, PiecesTyped
<1> HIDE DEF r
<1>2. \A k \in 1 .. Len(q) - 1 : r[k] = q[k]
  BY <1>1
<1>3. [k \in 1 .. Len(r) - 1 |-> EntryOf(r[k], k, flags)]
        = [k \in 1 .. Len(q) - 1 |-> EntryOf(q[k], k, flags)]
  BY <1>1, <1>2
<1> QED
  BY <1>3 DEF Before, r

LEMMA BeforeAppend ==
    ASSUME NEW q \in Pieces, NEW flags
    PROVE  Before(Append(q, <<>>), flags)
             = Before(q, flags) \o EntryOf(Last(q), Len(q), flags)
<1> DEFINE r == Append(q, <<>>)
<1>1. /\ Len(r) = Len(q) + 1 /\ Len(q) \in Nat
      /\ \A k \in 1 .. Len(q) : r[k] = q[k]
  BY AppendPiece, PiecesTyped
<1> HIDE DEF r
<1>2. Len(r) - 1 = Len(q)
  BY <1>1
<1>3. [k \in 1 .. Len(r) - 1 |-> EntryOf(r[k], k, flags)]
        = [k \in 1 .. Len(q) |-> EntryOf(q[k], k, flags)]
  BY <1>1, <1>2
<1>4. Before(r, flags) = AllOf(q, flags)
  BY <1>3 DEF Before, AllOf
<1> QED
  BY <1>4, AllSplits DEF r

----------------------------------------------------------------------------
\* What all lines but the last give
Earlier(ls, flags) ==
    Dummy(flags) \o FlattenSeq([k \in 1 .. Len(ls) - 1 |-> Entries(ls[k], flags)])

\* What ends the values of a key
EndOf(q, flags) ==
    IF "MULTI_VALUE" \in flags /\ Shown(q[1]) # <<>> THEN <<NULL>> ELSE <<>>

LEMMA EntriesTyped ==
    ASSUME NEW y \in Seq(Symbol), NEW flags
    PROVE  LET q == Parts(y, flags)
           IN  /\ Entries(y, flags) = (Before(q, flags) \o EntryOf(Last(q), Len(q), flags))
                                        \o EndOf(q, flags)
               /\ EndOf(q, flags) \in Seq(Written)
               /\ Entries(y, flags) \in Seq(Written)
<1> DEFINE q == Parts(y, flags)
<1>1. q \in Pieces
  BY PartsAppend, SymbolSigns DEF Symbol
<1>2. Entries(y, flags) = AllOf(q, flags) \o EndOf(q, flags)
  BY DEF Entries, AllOf, EndOf
<1> HIDE DEF q
<1>3. EndOf(q, flags) \in Seq(Written)
  <2>1. NULL \in Written
    BY DEF Written
  <2>2. <<NULL>> \in Seq(Written) /\ <<>> \in Seq(Written)
    BY <2>1
  <2> QED
    BY <2>2 DEF EndOf
<1>4. AllOf(q, flags) = Before(q, flags) \o EntryOf(Last(q), Len(q), flags)
  BY <1>1, AllSplits
<1>5. AllOf(q, flags) \in Seq(Written)
  BY <1>1, <1>4, AllSplits, ConcatProperties
<1> QED
  BY <1>2, <1>3, <1>4, <1>5, ConcatProperties DEF q

LEMMA DummyTyped == ASSUME NEW flags PROVE Dummy(flags) \in Seq(Written)
<1>1. <<>> \in Written
  BY EmptySeq DEF Written
<1>2. << <<>> >> \in Seq(Written) /\ <<>> \in Seq(Written)
  BY <1>1
<1> QED
  BY <1>2 DEF Dummy

LEMMA EarlierNothing == ASSUME NEW flags PROVE Earlier(Nothing, flags) = Dummy(flags)
<1>1. [k \in 1 .. Len(Nothing) - 1 |-> Entries(Nothing[k], flags)] = <<>>
  BY NothingIsPiece
<1> QED
  BY <1>1, FlattenEmpty, DummyTyped, ConcatEmptySeq DEF Earlier

LEMMA EarlierContinue ==
    ASSUME NEW q \in Pieces, NEW e \in Symbol, NEW flags
    PROVE  Earlier(Continue(q, e), flags) = Earlier(q, flags)
<1> DEFINE r == Continue(q, e)
<1>1. /\ Len(r) = Len(q) /\ Len(q) \in Nat
      /\ \A k \in 1 .. Len(q) : r[k] = IF k = Len(q) THEN Append(Last(q), e) ELSE q[k]
  BY ContinuePieces, PiecesTyped
<1> HIDE DEF r
<1>2. \A k \in 1 .. Len(q) - 1 : r[k] = q[k]
  BY <1>1
<1>3. [k \in 1 .. Len(r) - 1 |-> Entries(r[k], flags)]
        = [k \in 1 .. Len(q) - 1 |-> Entries(q[k], flags)]
  BY <1>1, <1>2
<1> QED
  BY <1>3 DEF Earlier, r

\* What all lines give
LEMMA EarlierAll ==
    ASSUME NEW q \in Pieces, NEW flags
    PROVE  /\ Earlier(q, flags) \in Seq(Written)
           /\ Dummy(flags) \o FlattenSeq([k \in 1 .. Len(q) |-> Entries(q[k], flags)])
                = Earlier(q, flags) \o Entries(Last(q), flags)
<1> DEFINE n == Len(q) - 1
           h == [k \in 1 .. n + 1 |-> Entries(q[k], flags)]
           g == [k \in 1 .. n |-> Entries(q[k], flags)]
<1>1. /\ n \in Nat /\ Len(q) = n + 1 /\ Last(q) = q[n + 1]
      /\ \A k \in 1 .. n + 1 : q[k] \in Seq(Symbol)
  BY PiecesTyped
<1> HIDE DEF n
<1>2. h \in [1 .. n + 1 -> Seq(Written)]
  BY <1>1, EntriesTyped
<1>3. g = [k \in 1 .. n |-> h[k]] /\ h[n + 1] = Entries(q[n + 1], flags)
  BY <1>1
<1> HIDE DEF h
<1>4. h[n + 1] \in Seq(Written)
  BY <1>1, <1>2
<1>5. FlattenSeq(g) \in Seq(Written) /\ FlattenSeq(h) = FlattenSeq(g) \o h[n + 1]
  BY <1>1, <1>2, <1>3, FlattenLast
<1>6. Earlier(q, flags) = Dummy(flags) \o FlattenSeq(g)
  BY DEF Earlier, n
<1> HIDE DEF g
<1>7. /\ Dummy(flags) \o FlattenSeq(g) \in Seq(Written)
      /\ (Dummy(flags) \o FlattenSeq(g)) \o h[n + 1] = Dummy(flags) \o FlattenSeq(h)
  <2> DEFINE d == Dummy(flags)
             x == FlattenSeq(g)
             y == h[n + 1]
  <2>1. d \in Seq(Written) /\ x \in Seq(Written) /\ y \in Seq(Written)
    BY <1>4, <1>5, DummyTyped
  <2>2. FlattenSeq(h) = x \o y
    BY <1>5
  <2> HIDE DEF d, x, y
  <2>3. d \o x \in Seq(Written) /\ (d \o x) \o y = d \o (x \o y)
    BY <2>1, ConcatProperties, ConcatAssociative
  <2> QED
    BY <2>2, <2>3 DEF d, x, y
<1>8. h = [k \in 1 .. Len(q) |-> Entries(q[k], flags)]
  BY <1>1 DEF h
<1> QED
  BY <1>1, <1>3, <1>6, <1>7, <1>8

LEMMA EarlierAppend ==
    ASSUME NEW q \in Pieces, NEW flags
    PROVE  Earlier(Append(q, <<>>), flags) = Earlier(q, flags) \o Entries(Last(q), flags)
<1> DEFINE r == Append(q, <<>>)
<1>1. /\ Len(r) = Len(q) + 1 /\ Len(q) \in Nat
      /\ \A k \in 1 .. Len(q) : r[k] = q[k]
  BY AppendPiece, PiecesTyped
<1> HIDE DEF r
<1>2. Len(r) - 1 = Len(q)
  BY <1>1
<1>3. [k \in 1 .. Len(r) - 1 |-> Entries(r[k], flags)]
        = [k \in 1 .. Len(q) |-> Entries(q[k], flags)]
  BY <1>1, <1>2
<1>4. Earlier(r, flags)
        = Dummy(flags) \o FlattenSeq([k \in 1 .. Len(q) |-> Entries(q[k], flags)])
  BY <1>3 DEF Earlier
<1> QED
  BY <1>4, EarlierAll DEF r

----------------------------------------------------------------------------
(***************************************************************************)
(* What a round of the loop does to the local variables of the parser, by  *)
(* what surrounds the character.                                           *)
(***************************************************************************)

\* What a round of the loop does, by the surroundings of the character

Fresh(s) == [s EXCEPT !.overrun = FALSE]

\* r and s differ at most in what concerns escapes.
Same(r, s) ==
    /\ r.flag = s.flag /\ r.a = s.a /\ r.token = s.token
    /\ r.in_comment = s.in_comment /\ r.in_quote = s.in_quote
    /\ r.in_key = s.in_key /\ r.in_value = s.in_value /\ r.added_key = s.added_key

LEMMA FreshSound ==
    ASSUME NEW s, Sound(s)
    PROVE  /\ Sound(Fresh(s)) /\ Fresh(s) \in Parser /\ FlagsAgree(Fresh(s))
           /\ Same(Fresh(s), s)
           /\ Fresh(s).in_escape = s.in_escape /\ Fresh(s).last_escaped = s.last_escaped
BY DEF Fresh, Sound, Parser, FlagsAgree, NearEnd, Same

LEMMA HandledCases ==
    ASSUME NEW s, NEW c \in Character
    PROVE  /\ c = BLANK     => Handled(s, c) = Store(OnBlank(Fresh(s)), c, FALSE)
           /\ c = NEWLINE   => Handled(s, c) = Store(OnNewline(Fresh(s)), c, FALSE)
           /\ c = BACKSLASH => Handled(s, c) = Store(OnBackslash(Fresh(s)), c, FALSE)
           /\ c = HASH      => Handled(s, c) = Store(OnHash(Fresh(s)), c, FALSE)
           /\ c = DOUBLE    => Handled(s, c) = Store(OnQuote(Fresh(s), DOUBLE_QUOTE), c,
                                                     Quotes(Fresh(s), DOUBLE_QUOTE))
           /\ c = SINGLE    => Handled(s, c) = Store(OnQuote(Fresh(s), SINGLE_QUOTE), c,
                                                     Quotes(Fresh(s), SINGLE_QUOTE))
           /\ c \in Other   => Handled(s, c) = Store(OnOther(Fresh(s)), c, FALSE)
           /\ c \in {BLANK, NEWLINE, BACKSLASH, HASH, DOUBLE, SINGLE} \cup Other
BY CharactersDiffer DEF Handled, Fresh, Character, Special

\* r is s, with c stored if there is reason and room to.
Stored(r, s, c, skip_char) ==
    /\ r.flag = s.flag /\ r.a = s.a
    /\ r.token = IF /\ s.in_key \/ s.in_value
                    /\ c # NEWLINE /\ ~ s.in_escape /\ ~ skip_char
                    /\ Len(s.token) < max_token_pos
                 THEN Append(s.token, c) ELSE s.token
    /\ r.in_comment = s.in_comment /\ r.in_quote = s.in_quote
    /\ r.in_key = s.in_key /\ r.in_value = s.in_value
    /\ r.added_key = s.added_key
    /\ r.in_escape = s.in_escape /\ r.last_escaped = s.last_escaped

LEMMA StoreFields ==
    ASSUME NEW s \in Parser, NEW c, NEW skip_char
    PROVE  Stored(Store(s, c, skip_char), s, c, skip_char)
BY DEF Store, Stored, Parser

LEMMA StoreQuiet ==
    ASSUME NEW s, NEW c, NEW skip_char,
           ~ (s.in_key \/ s.in_value) \/ c = NEWLINE \/ s.in_escape \/ skip_char
    PROVE  Store(s, c, skip_char) = s
BY DEF Store

\* A character behind a backslash, in a key or value
LEMMA OnEscaped ==
    ASSUME NEW s, Sound(s), s.in_escape, s.in_key \/ s.in_value
    PROVE  /\ LET r == OnBlank(s)
              IN  r \in Parser /\ Same(r, s) /\ ~ r.in_escape /\ r.last_escaped = Len(s.token) + 1
           /\ LET r == OnNewline(s)
              IN  r \in Parser /\ Same(r, s) /\ ~ r.in_escape /\ r.last_escaped = Len(s.token) + 1
           /\ LET r == OnBackslash(s)
              IN  r \in Parser /\ Same(r, s) /\ ~ r.in_escape /\ r.last_escaped = 0
           /\ LET r == OnHash(s)
              IN  r \in Parser /\ Same(r, s) /\ ~ r.in_escape /\ r.last_escaped = Len(s.token) + 1
           /\ LET r == OnOther(s)
              IN  r \in Parser /\ Same(r, s) /\ ~ r.in_escape /\ r.last_escaped = Len(s.token) + 1
           /\ \A mark : LET r == OnQuote(s, mark)
              IN  r \in Parser /\ Same(r, s) /\ ~ r.in_escape /\ r.last_escaped = Len(s.token) + 1
<1>1. s \in Parser /\ FlagsAgree(s)
  BY DEF Sound
<1>2. ~ s.in_comment /\ (s.in_quote = NO_QUOTE => s.in_key \/ s.in_value)
  BY <1>1 DEF FlagsAgree
<1> DEFINE v == BeginValue(s)
           w == EndEscape(v)
<1>3. v \in Parser /\ Same(v, s) /\ v.in_escape
  <2>1. s.in_value \in BOOLEAN /\ s.in_key \in BOOLEAN
    BY <1>1 DEF Parser
  <2> QED
    BY <1>1, <1>2, <2>1, BeginValueSound DEF Same, FlagsAgree
<1> HIDE DEF v
<1>4. w \in Parser /\ Same(w, s) /\ ~ w.in_escape /\ w.last_escaped = Len(s.token) + 1
  <2>1. w \in Parser /\ Same(w, v) /\ ~ w.in_escape /\ w.last_escaped = Len(v.token) + 1
    BY <1>3, EscapeSound DEF Same
  <2> HIDE DEF w
  <2> QED
    BY <1>3, <2>1 DEF Same
<1> HIDE DEF w
<1>5. EndKey(s) = s /\ EndValue(s) = s /\ ~ Bare(s)
  BY DEF EndKey, EndValue, Bare
<1>6. OnBlank(s) = w
  BY <1>5 DEF OnBlank, w, v
<1>7. OnOther(s) = w
  BY DEF OnOther, w, v
<1>8. \A mark : OnQuote(s, mark) = w
  BY DEF OnQuote, Quotes, w, v
<1>9. OnHash(s) = w
  <2>1. BeginComment(s) = s
    BY <1>1, <1>5 DEF BeginComment, Parser
  <2> QED
    BY <1>5, <2>1 DEF OnHash, w, v
<1>10. LET r == OnBackslash(s)
       IN  r \in Parser /\ Same(r, s) /\ ~ r.in_escape /\ r.last_escaped = 0
  <2> DEFINE q == EndEscape(s)
             r == BeginValue(q)
  <2>1. q \in Parser /\ Same(q, s) /\ ~ q.in_escape
    BY <1>1, EscapeSound DEF Same
  <2>2. OnBackslash(s) = r
    BY DEF OnBackslash
  <2> HIDE DEF q
  <2>3. q.in_value \in BOOLEAN /\ q.in_key \in BOOLEAN /\ (q.in_key \/ q.in_value)
    BY <2>1 DEF Parser, Same
  <2>4. r \in Parser /\ Same(r, q) /\ ~ r.in_escape /\ r.last_escaped = 0
    BY <2>1, <2>3, BeginValueSound DEF Same
  <2> HIDE DEF r
  <2> QED
    BY <2>1, <2>2, <2>4 DEF Same
<1>11. LET r == OnNewline(s)
       IN  r \in Parser /\ Same(r, s) /\ ~ r.in_escape /\ r.last_escaped = Len(s.token) + 1
  <2> DEFINE q == BeginKey(s)
             r == EndEscape(q)
  <2>1. EndComment(s) = s
    BY <1>1, <1>2 DEF EndComment, Parser
  <2>2. OnNewline(s) = r
    BY <1>5, <2>1 DEF OnNewline
  <2>3. q \in Parser /\ Same(q, s) /\ q.in_escape
    BY <1>1, <1>5, BeginKeySound DEF Same, Parser
  <2> HIDE DEF q
  <2>4. r \in Parser /\ Same(r, s) /\ ~ r.in_escape /\ r.last_escaped = Len(s.token) + 1
    <3>1. r \in Parser /\ Same(r, q) /\ ~ r.in_escape /\ r.last_escaped = Len(q.token) + 1
      BY <2>3, EscapeSound DEF Same
    <3> HIDE DEF r
    <3> QED
      BY <2>3, <3>1 DEF Same
  <2> QED
    BY <2>2, <2>4
<1> QED
  BY <1>4, <1>6, <1>7, <1>8, <1>9, <1>10, <1>11

LEMMA HandledEscaped ==
    ASSUME NEW s, Sound(s), NEW c \in Character, s.in_escape, s.in_key \/ s.in_value
    PROVE  LET r == Handled(s, c)
           IN  /\ r.flag = s.flag /\ r.a = s.a
               /\ r.token = IF c # NEWLINE /\ Len(s.token) < max_token_pos
                            THEN Append(s.token, c) ELSE s.token
               /\ r.in_comment = s.in_comment /\ r.in_quote = s.in_quote
               /\ r.in_key = s.in_key /\ r.in_value = s.in_value
               /\ r.added_key = s.added_key
               /\ ~ r.in_escape
               /\ r.last_escaped = IF c = BACKSLASH THEN 0 ELSE Len(s.token) + 1
<1> DEFINE f == Fresh(s)
           r == Handled(s, c)
<1>1. /\ Sound(f) /\ f.in_escape /\ (f.in_key \/ f.in_value) /\ Same(f, s)
  BY FreshSound DEF Same
<1> HIDE DEF f
<1>2. \A mark : Quotes(f, mark) = FALSE
  BY <1>1 DEF Quotes
<1>3. PICK x \in Parser : /\ r = Store(x, c, FALSE) /\ Same(x, f) /\ ~ x.in_escape
                          /\ x.last_escaped = IF c = BACKSLASH THEN 0 ELSE Len(f.token) + 1
  <2> DEFINE Good(x) == /\ x \in Parser /\ Same(x, f) /\ ~ x.in_escape
                        /\ x.last_escaped = IF c = BACKSLASH THEN 0 ELSE Len(f.token) + 1
  <2>1. /\ c # BACKSLASH => /\ Good(OnBlank(f)) /\ Good(OnNewline(f))
                            /\ Good(OnHash(f)) /\ Good(OnOther(f))
                            /\ \A mark : Good(OnQuote(f, mark))
        /\ c = BACKSLASH => Good(OnBackslash(f))
    BY <1>1, OnEscaped
  <2> HIDE DEF Good
  <2>2. \E x : Good(x) /\ r = Store(x, c, FALSE)
    <3>1. /\ c = BLANK     => r = Store(OnBlank(f), c, FALSE)
          /\ c = NEWLINE   => r = Store(OnNewline(f), c, FALSE)
          /\ c = BACKSLASH => r = Store(OnBackslash(f), c, FALSE)
          /\ c = HASH      => r = Store(OnHash(f), c, FALSE)
          /\ c = DOUBLE    => r = Store(OnQuote(f, DOUBLE_QUOTE), c, FALSE)
          /\ c = SINGLE    => r = Store(OnQuote(f, SINGLE_QUOTE), c, FALSE)
          /\ c \in Other   => r = Store(OnOther(f), c, FALSE)
          /\ c \in {BLANK, NEWLINE, BACKSLASH, HASH, DOUBLE, SINGLE} \cup Other
      BY <1>2, HandledCases DEF f
    <3>2. c \in {BLANK, NEWLINE, HASH, DOUBLE, SINGLE} \cup Other => c # BACKSLASH
      BY CharactersDiffer DEF Special
    <3> HIDE DEF r
    <3> QED
      BY <2>1, <3>1, <3>2
  <2> QED
    BY <2>2 DEF Good
<1> HIDE DEF r
<1>4. Stored(r, x, c, FALSE)
  BY <1>3, StoreFields
<1> QED
  BY <1>1, <1>3, <1>4 DEF r, Same, Stored

\* A character of a comment that does not end it
LEMMA OnCommented ==
    ASSUME NEW s, Sound(s), s.in_comment
    PROVE  /\ LET r == OnBlank(s) IN r \in Parser /\ Same(r, s) /\ ~ r.in_escape
           /\ s.in_escape => LET r == OnNewline(s)
                             IN  r \in Parser /\ Same(r, s) /\ ~ r.in_escape
           /\ LET r == OnBackslash(s)
              IN  r \in Parser /\ Same(r, s) /\ r.in_escape = ~ s.in_escape
           /\ LET r == OnHash(s) IN r \in Parser /\ Same(r, s) /\ ~ r.in_escape
           /\ LET r == OnOther(s) IN r \in Parser /\ Same(r, s) /\ ~ r.in_escape
           /\ \A mark : LET r == OnQuote(s, mark)
                        IN  r \in Parser /\ Same(r, s) /\ ~ r.in_escape
<1>1. s \in Parser /\ FlagsAgree(s)
  BY DEF Sound
<1>2. ~ s.in_key /\ ~ s.in_value /\ s.in_quote = NO_QUOTE
  BY <1>1 DEF FlagsAgree
<1>3. EndKey(s) = s /\ EndValue(s) = s
  BY <1>2 DEF EndKey, EndValue
<1>4. \A v \in Parser : Same(v, s) =>
         /\ BeginValue(v) \in Parser /\ Same(BeginValue(v), s)
         /\ BeginValue(v).in_escape = v.in_escape
  <2> TAKE v \in Parser
  <2> HAVE Same(v, s)
  <2>1. v.in_comment /\ v.in_value \in BOOLEAN
    BY DEF Same, Parser
  <2> QED
    BY <2>1, BeginValueSound DEF Same
<1>5. \A v \in Parser : Same(v, s) =>
         EndEscape(v) \in Parser /\ Same(EndEscape(v), s) /\ ~ EndEscape(v).in_escape
  <2> TAKE v \in Parser
  <2> HAVE Same(v, s)
  <2> DEFINE r == EndEscape(v)
  <2>1. /\ r \in Parser /\ r.flag = v.flag /\ r.a = v.a /\ r.token = v.token
        /\ r.in_escape = FALSE /\ r.in_comment = v.in_comment /\ r.in_quote = v.in_quote
        /\ r.in_key = v.in_key /\ r.in_value = v.in_value /\ r.added_key = v.added_key
    BY EscapeSound
  <2> QED
    BY <2>1 DEF Same
<1>6. Same(s, s)
  BY DEF Same
<1> DEFINE w == EndEscape(BeginValue(s))
<1>7. w \in Parser /\ Same(w, s) /\ ~ w.in_escape
  BY <1>1, <1>4, <1>5, <1>6
<1>8. OnBlank(s) = IF s.in_escape THEN w ELSE EndEscape(s)
  BY <1>3 DEF OnBlank
<1>9. OnOther(s) = w
  BY DEF OnOther
<1>10. \A mark : OnQuote(s, mark) = w
  BY DEF OnQuote, Quotes
<1>11. OnHash(s) = w
  <2>1. BeginComment(s) = s
    BY <1>1 DEF BeginComment, Parser
  <2> QED
    BY <1>3, <2>1 DEF OnHash
<1>12. LET r == OnBackslash(s)
       IN  r \in Parser /\ Same(r, s) /\ r.in_escape = ~ s.in_escape
  <2> DEFINE q == IF s.in_escape THEN EndEscape(s) ELSE BeginEscape(s)
  <2>1. q \in Parser /\ Same(q, s) /\ q.in_escape = ~ s.in_escape
    <3>1. CASE s.in_escape
      <4>1. q = EndEscape(s)
        BY <3>1
      <4>2. EndEscape(s) \in Parser /\ Same(EndEscape(s), s) /\ ~ EndEscape(s).in_escape
        BY <1>1, <1>5, <1>6
      <4> QED
        BY <3>1, <4>1, <4>2, EscapeSound, <1>1
    <3>2. CASE ~ s.in_escape
      <4> DEFINE r == BeginEscape(s)
      <4>1. /\ r \in Parser /\ r.flag = s.flag /\ r.a = s.a /\ r.token = s.token
            /\ r.in_escape = TRUE /\ r.in_comment = s.in_comment
            /\ r.in_quote = s.in_quote
            /\ r.in_key = s.in_key /\ r.in_value = s.in_value
            /\ r.added_key = s.added_key
        BY <1>1, EscapeSound
      <4> HIDE DEF r
      <4>2. q = r
        BY <3>2 DEF r
      <4> HIDE DEF q
      <4> QED
        BY <3>2, <4>1, <4>2 DEF Same
    <3> QED
      BY <3>1, <3>2
  <2>2. OnBackslash(s) = BeginValue(q)
    BY <1>2 DEF OnBackslash, NO_QUOTE, SINGLE_QUOTE
  <2> HIDE DEF q
  <2> QED
    BY <1>4, <2>1, <2>2
<1>13. ASSUME s.in_escape
       PROVE  LET r == OnNewline(s)
              IN  r \in Parser /\ Same(r, s) /\ ~ r.in_escape
  <2> DEFINE q == BeginKey(s)
  <2>1. EndComment(s) = s
    BY <1>1, <1>13 DEF EndComment, Parser
  <2>2. OnNewline(s) = EndEscape(q)
    BY <1>3, <2>1 DEF OnNewline
  <2>3. q \in Parser /\ Same(q, s)
    BY <1>1, <1>13, BeginKeySound DEF Same, Parser, Bare
  <2> HIDE DEF q
  <2> QED
    BY <1>5, <2>2, <2>3
<1> HIDE DEF w
<1> QED
  BY <1>1, <1>5, <1>6, <1>7, <1>8, <1>9, <1>10, <1>11, <1>12, <1>13

LEMMA HandledComment ==
    ASSUME NEW s, Sound(s), NEW c \in Character, s.in_comment,
           ~ (c = NEWLINE /\ ~ s.in_escape)
    PROVE  LET r == Handled(s, c)
           IN  Same(r, s) /\ r.in_escape = (c = BACKSLASH /\ ~ s.in_escape)
<1> DEFINE f == Fresh(s)
           r == Handled(s, c)
<1>1. /\ Sound(f) /\ f.in_comment /\ Same(f, s) /\ f.in_escape = s.in_escape
      /\ f \in Parser
  BY FreshSound DEF Same
<1> HIDE DEF f
<1>2. \A mark : Quotes(f, mark) = FALSE
  BY <1>1 DEF Quotes
<1>3. PICK x \in Parser : /\ r = Store(x, c, FALSE) /\ Same(x, f)
                          /\ x.in_escape = (c = BACKSLASH /\ ~ f.in_escape)
  <2> DEFINE Good(x) == /\ x \in Parser /\ Same(x, f)
                        /\ x.in_escape = (c = BACKSLASH /\ ~ f.in_escape)
  <2>1. /\ c # BACKSLASH => /\ Good(OnBlank(f)) /\ (c = NEWLINE => Good(OnNewline(f)))
                            /\ Good(OnHash(f)) /\ Good(OnOther(f))
                            /\ \A mark : Good(OnQuote(f, mark))
        /\ c = BACKSLASH => Good(OnBackslash(f))
    <3>1. \A x \in Parser : x.in_escape \in BOOLEAN
      BY DEF Parser
    <3> QED
      BY <1>1, <3>1, OnCommented
  <2> HIDE DEF Good
  <2>2. \E x : Good(x) /\ r = Store(x, c, FALSE)
    <3>1. /\ c = BLANK     => r = Store(OnBlank(f), c, FALSE)
          /\ c = NEWLINE   => r = Store(OnNewline(f), c, FALSE)
          /\ c = BACKSLASH => r = Store(OnBackslash(f), c, FALSE)
          /\ c = HASH      => r = Store(OnHash(f), c, FALSE)
          /\ c = DOUBLE    => r = Store(OnQuote(f, DOUBLE_QUOTE), c, FALSE)
          /\ c = SINGLE    => r = Store(OnQuote(f, SINGLE_QUOTE), c, FALSE)
          /\ c \in Other   => r = Store(OnOther(f), c, FALSE)
          /\ c \in {BLANK, NEWLINE, BACKSLASH, HASH, DOUBLE, SINGLE} \cup Other
      BY <1>2, HandledCases DEF f
    <3>2. c \in {BLANK, NEWLINE, HASH, DOUBLE, SINGLE} \cup Other => c # BACKSLASH
      BY CharactersDiffer DEF Special
    <3> HIDE DEF r
    <3> QED
      BY <2>1, <3>1, <3>2
  <2> QED
    BY <2>2 DEF Good
<1> HIDE DEF r
<1>4. FlagsAgree(f) /\ ~ x.in_key /\ ~ x.in_value
  BY <1>1, <1>3 DEF Sound, FlagsAgree, Same
<1>5. Same(r, x) /\ r.in_escape = x.in_escape
  BY <1>3, <1>4, StoreQuiet DEF Same
<1> QED
  BY <1>1, <1>3, <1>5 DEF r, Same

\* A character between quotes that is not special there
LEMMA OnQuoted ==
    ASSUME NEW s, Sound(s), s.in_quote # NO_QUOTE, ~ s.in_escape
    PROVE  /\ LET r == OnBlank(s) IN r \in Parser /\ Same(r, s) /\ ~ r.in_escape
           /\ LET r == OnNewline(s) IN r \in Parser /\ Same(r, s) /\ ~ r.in_escape
           /\ s.in_quote = SINGLE_QUOTE =>
                 LET r == OnBackslash(s) IN r \in Parser /\ Same(r, s) /\ ~ r.in_escape
           /\ LET r == OnHash(s) IN r \in Parser /\ Same(r, s) /\ ~ r.in_escape
           /\ LET r == OnOther(s) IN r \in Parser /\ Same(r, s) /\ ~ r.in_escape
           /\ \A mark : s.in_quote # mark =>
                 /\ ~ Quotes(s, mark)
                 /\ LET r == OnQuote(s, mark)
                    IN  r \in Parser /\ Same(r, s) /\ ~ r.in_escape
<1>1. s \in Parser /\ FlagsAgree(s)
  BY DEF Sound
<1>2. ~ s.in_comment /\ ~ Bare(s)
  BY <1>1 DEF FlagsAgree, Bare
<1>3. EndKey(s) = s /\ EndValue(s) = s
  BY <1>2 DEF EndKey, EndValue
<1>4. \A v \in Parser : Same(v, s) =>
         /\ BeginValue(v) \in Parser /\ Same(BeginValue(v), s)
         /\ BeginValue(v).in_escape = v.in_escape
  <2> TAKE v \in Parser
  <2> HAVE Same(v, s)
  <2>1. v.in_quote # NO_QUOTE /\ v.in_value \in BOOLEAN
    BY DEF Same, Parser
  <2> QED
    BY <2>1, BeginValueSound DEF Same
<1>5. \A v \in Parser : Same(v, s) =>
         EndEscape(v) \in Parser /\ Same(EndEscape(v), s) /\ ~ EndEscape(v).in_escape
  <2> TAKE v \in Parser
  <2> HAVE Same(v, s)
  <2> DEFINE r == EndEscape(v)
  <2>1. /\ r \in Parser /\ r.flag = v.flag /\ r.a = v.a /\ r.token = v.token
        /\ r.in_escape = FALSE /\ r.in_comment = v.in_comment /\ r.in_quote = v.in_quote
        /\ r.in_key = v.in_key /\ r.in_value = v.in_value /\ r.added_key = v.added_key
    BY EscapeSound
  <2> QED
    BY <2>1 DEF Same
<1>6. Same(s, s)
  BY DEF Same
<1> DEFINE w == EndEscape(BeginValue(s))
<1>7. w \in Parser /\ Same(w, s) /\ ~ w.in_escape
  BY <1>1, <1>4, <1>5, <1>6
<1>8. OnBlank(s) = EndEscape(s)
  BY <1>3 DEF OnBlank
<1>9. OnOther(s) = w
  BY DEF OnOther
<1>10. \A mark : s.in_quote # mark => ~ Quotes(s, mark) /\ OnQuote(s, mark) = w
  BY DEF OnQuote, Quotes
<1>11. OnHash(s) = w
  <2>1. BeginComment(s) = s
    BY <1>1, <1>2 DEF BeginComment, Parser
  <2> QED
    BY <1>3, <2>1 DEF OnHash
<1>12. ASSUME s.in_quote = SINGLE_QUOTE
       PROVE  LET r == OnBackslash(s) IN r \in Parser /\ Same(r, s) /\ ~ r.in_escape
  <2> DEFINE q == EndEscape(s)
  <2>1. q \in Parser /\ Same(q, s) /\ ~ q.in_escape
    BY <1>1, <1>5, <1>6
  <2>2. OnBackslash(s) = BeginValue(q)
    BY <1>12 DEF OnBackslash
  <2> HIDE DEF q
  <2> QED
    BY <1>4, <2>1, <2>2
<1>13. LET r == OnNewline(s) IN r \in Parser /\ Same(r, s) /\ ~ r.in_escape
  <2> DEFINE q == BeginKey(s)
  <2>1. EndComment(s) = s
    BY <1>1, <1>2 DEF EndComment, Parser
  <2>2. OnNewline(s) = EndEscape(q)
    BY <1>3, <2>1 DEF OnNewline
  <2>3. q \in Parser /\ Same(q, s)
    BY <1>1, <1>2, BeginKeySound DEF Same, Parser
  <2> HIDE DEF q
  <2> QED
    BY <1>5, <2>2, <2>3
<1> HIDE DEF w
<1> QED
  BY <1>1, <1>5, <1>6, <1>7, <1>8, <1>9, <1>10, <1>11, <1>12, <1>13

\* The quote that ends a quoted part, and the one that begins it
Closes(s, c) == <<s.in_quote, c>> \in {<<SINGLE_QUOTE, SINGLE>>, <<DOUBLE_QUOTE, DOUBLE>>}

LEMMA HandledQuoted ==
    ASSUME NEW s, Sound(s), NEW c \in Character, s.in_quote # NO_QUOTE, ~ s.in_escape,
           ~ Closes(s, c), ~ (c = BACKSLASH /\ s.in_quote = DOUBLE_QUOTE)
    PROVE  LET r == Handled(s, c)
           IN  /\ r.flag = s.flag /\ r.a = s.a
               /\ r.token = IF c # NEWLINE /\ Len(s.token) < max_token_pos
                            THEN Append(s.token, c) ELSE s.token
               /\ r.in_comment = s.in_comment /\ r.in_quote = s.in_quote
               /\ r.in_key = s.in_key /\ r.in_value = s.in_value
               /\ r.added_key = s.added_key
               /\ ~ r.in_escape
<1> DEFINE f == Fresh(s)
           r == Handled(s, c)
<1>1. /\ Sound(f) /\ f.in_quote # NO_QUOTE /\ Same(f, s) /\ ~ f.in_escape
      /\ f \in Parser /\ FlagsAgree(f)
  BY FreshSound DEF Same
<1> HIDE DEF f
<1>2. f.in_quote = s.in_quote /\ s.in_quote \in {SINGLE_QUOTE, DOUBLE_QUOTE}
  BY <1>1 DEF Same, Parser
<1>3. PICK x \in Parser : r = Store(x, c, FALSE) /\ Same(x, f) /\ ~ x.in_escape
  <2> DEFINE Good(x) == x \in Parser /\ Same(x, f) /\ ~ x.in_escape
  <2>1. /\ Good(OnBlank(f)) /\ Good(OnNewline(f)) /\ Good(OnHash(f)) /\ Good(OnOther(f))
        /\ f.in_quote = SINGLE_QUOTE => Good(OnBackslash(f))
        /\ \A mark : f.in_quote # mark => ~ Quotes(f, mark) /\ Good(OnQuote(f, mark))
    BY <1>1, OnQuoted
  <2> HIDE DEF Good
  <2>2. \E x : Good(x) /\ r = Store(x, c, FALSE)
    <3>1. /\ c = BLANK     => r = Store(OnBlank(f), c, FALSE)
          /\ c = NEWLINE   => r = Store(OnNewline(f), c, FALSE)
          /\ c = BACKSLASH => r = Store(OnBackslash(f), c, FALSE)
          /\ c = HASH      => r = Store(OnHash(f), c, FALSE)
          /\ c = DOUBLE    => r = Store(OnQuote(f, DOUBLE_QUOTE), c, Quotes(f, DOUBLE_QUOTE))
          /\ c = SINGLE    => r = Store(OnQuote(f, SINGLE_QUOTE), c, Quotes(f, SINGLE_QUOTE))
          /\ c \in Other   => r = Store(OnOther(f), c, FALSE)
          /\ c \in {BLANK, NEWLINE, BACKSLASH, HASH, DOUBLE, SINGLE} \cup Other
      BY HandledCases DEF f
    <3>2. /\ c = DOUBLE => f.in_quote # DOUBLE_QUOTE
          /\ c = SINGLE => f.in_quote # SINGLE_QUOTE
          /\ c = BACKSLASH => f.in_quote = SINGLE_QUOTE
      BY <1>2 DEF Closes
    <3>3. /\ c = DOUBLE => Quotes(f, DOUBLE_QUOTE) = FALSE
          /\ c = SINGLE => Quotes(f, SINGLE_QUOTE) = FALSE
      BY <2>1, <3>2 DEF Quotes
    <3> HIDE DEF r
    <3> QED
      BY <2>1, <3>1, <3>2, <3>3
  <2> QED
    BY <2>2 DEF Good
<1> HIDE DEF r
<1>4. x.in_key \/ x.in_value
  BY <1>1, <1>3 DEF FlagsAgree, Same
<1>5. Stored(r, x, c, FALSE)
  BY <1>3, StoreFields
<1> QED
  BY <1>1, <1>3, <1>4, <1>5 DEF r, Same, Stored

LEMMA HandledClose ==
    ASSUME NEW s, Sound(s), NEW c \in Character, ~ s.in_escape, Closes(s, c)
    PROVE  LET r == Handled(s, c)
           IN  /\ r.flag = s.flag /\ r.a = s.a /\ r.token = s.token
               /\ r.in_comment = s.in_comment /\ r.in_quote = NO_QUOTE
               /\ r.in_key = s.in_key /\ r.in_value = s.in_value
               /\ r.added_key = s.added_key
               /\ ~ r.in_escape /\ r.last_escaped = Len(s.token)
<1> DEFINE f == Fresh(s)
           mark == s.in_quote
           v == BeginValue(f)
           x == [v EXCEPT !.in_quote = NO_QUOTE, !.last_escaped = Len(v.token)]
           r == EndEscape(x)
<1>1. /\ f \in Parser /\ FlagsAgree(f) /\ Same(f, s) /\ ~ f.in_escape
      /\ mark \in {SINGLE_QUOTE, DOUBLE_QUOTE} /\ mark # NO_QUOTE
  BY FreshSound DEF Same, Closes, NO_QUOTE, SINGLE_QUOTE, DOUBLE_QUOTE
<1>2. \/ c = DOUBLE /\ mark = DOUBLE_QUOTE
      \/ c = SINGLE /\ mark = SINGLE_QUOTE
  BY DEF Closes
<1> HIDE DEF f
<1>3. f.in_quote = mark /\ ~ f.in_comment
  BY <1>1 DEF Same, FlagsAgree
<1> HIDE DEF mark
<1>4. Quotes(f, mark)
  BY <1>1, <1>3 DEF Quotes
<1>5. OnQuote(f, mark) = r
  BY <1>3, <1>4 DEF OnQuote
<1>6. Quotes(f, mark) = TRUE
  BY <1>4 DEF Quotes
<1>7. Handled(s, c) = Store(r, c, TRUE)
  BY <1>2, <1>5, <1>6, HandledCases DEF f
<1>8. Store(r, c, TRUE) = r
  BY DEF Store
<1>9. v \in Parser /\ Same(v, f) /\ ~ v.in_escape
  <2>1. f.in_value \in BOOLEAN
    BY <1>1 DEF Parser
  <2> QED
    BY <1>1, <1>3, <2>1, BeginValueSound DEF Same
<1> HIDE DEF v
<1>10. /\ x.flag = v.flag /\ x.a = v.a /\ x.token = v.token
       /\ x.in_comment = v.in_comment /\ x.in_quote = NO_QUOTE
       /\ x.in_key = v.in_key /\ x.in_value = v.in_value /\ x.added_key = v.added_key
       /\ ~ x.in_escape /\ x.last_escaped = Len(v.token)
  BY <1>9 DEF Parser
<1>11. r = x
  BY <1>10 DEF EndEscape
<1> HIDE DEF x, r
<1> QED
  BY <1>1, <1>7, <1>8, <1>9, <1>10, <1>11 DEF Same

----------------------------------------------------------------------------
\* Outside of escapes, quotes and comments

\* BEGIN_VALUE has begun a value, if there is no key or value.
Begun(r, s) ==
    /\ r.flag = s.flag /\ r.a = s.a
    /\ ~ r.in_comment /\ r.in_key = s.in_key /\ r.in_value = ~ s.in_key
    /\ r.added_key = s.added_key

LEMMA BegunSound ==
    ASSUME NEW s, Sound(s), Bare(s), ~ s.in_comment
    PROVE  LET r == BeginValue(s)
           IN  /\ r \in Parser /\ Begun(r, s) /\ r.token = s.token /\ r.last_escaped = 0
               /\ ~ r.in_escape /\ r.in_quote = NO_QUOTE /\ (r.in_key \/ r.in_value)
<1>1. s \in Parser /\ FlagsAgree(s) /\ s.in_key \in BOOLEAN /\ s.in_value \in BOOLEAN
  BY DEF Sound, Parser
<1>2. ~ s.in_escape /\ s.in_quote = NO_QUOTE
  BY DEF Bare
<1>3. (s.in_value \/ ~ s.in_key) = ~ s.in_key
  BY <1>1 DEF FlagsAgree
<1> QED
  BY <1>1, <1>2, <1>3, BeginValueSound DEF Begun

LEMMA FreshBare ==
    ASSUME NEW s, Sound(s), Bare(s)
    PROVE  Sound(Fresh(s)) /\ Bare(Fresh(s)) /\ Same(Fresh(s), s)
BY FreshSound DEF Bare, Same

LEMMA HandledOther ==
    ASSUME NEW s, Sound(s), NEW c \in Other, Bare(s), ~ s.in_comment
    PROVE  LET r == Handled(s, c)
           IN  /\ Begun(r, s) /\ ~ r.in_escape /\ r.in_quote = NO_QUOTE
               /\ r.token = IF Len(s.token) < max_token_pos THEN Append(s.token, c)
                            ELSE s.token
               /\ r.last_escaped = 0
<1> DEFINE f == Fresh(s)
           v == BeginValue(f)
           r == Handled(s, c)
<1>1. Sound(f) /\ Bare(f) /\ Same(f, s) /\ ~ f.in_comment
  BY FreshBare DEF Same
<1>2. r = Store(EndEscape(v), c, FALSE) /\ c # NEWLINE
  BY HandledCases, CharactersDiffer DEF OnOther, Character, Special
<1> HIDE DEF f
<1>3. /\ v \in Parser /\ Begun(v, f) /\ v.token = f.token /\ v.last_escaped = 0
      /\ ~ v.in_escape /\ v.in_quote = NO_QUOTE /\ (v.in_key \/ v.in_value)
  BY <1>1, BegunSound
<1> HIDE DEF v
<1>4. EndEscape(v) = v
  BY <1>3 DEF EndEscape
<1> HIDE DEF r
<1>5. Stored(r, v, c, FALSE)
  BY <1>2, <1>3, <1>4, StoreFields
<1> QED
  BY <1>1, <1>2, <1>3, <1>5 DEF Begun, Same, Stored, r

LEMMA HandledOpen ==
    ASSUME NEW s, Sound(s), NEW c, Bare(s), ~ s.in_comment,
           NEW mark, <<mark, c>> \in {<<SINGLE_QUOTE, SINGLE>>, <<DOUBLE_QUOTE, DOUBLE>>}
    PROVE  LET r == Handled(s, c)
           IN  /\ Begun(r, s) /\ ~ r.in_escape /\ r.in_quote = mark
               /\ r.token = s.token
<1> DEFINE f == Fresh(s)
           v == BeginValue(f)
           x == [v EXCEPT !.in_quote = mark]
           r == Handled(s, c)
<1>1. Sound(f) /\ Bare(f) /\ Same(f, s) /\ ~ f.in_comment
  BY FreshBare DEF Same
<1>2. \/ c = DOUBLE /\ mark = DOUBLE_QUOTE
      \/ c = SINGLE /\ mark = SINGLE_QUOTE
  OBVIOUS
<1>3. c \in Character /\ mark # NO_QUOTE
  BY <1>2 DEF Character, Special, NO_QUOTE, SINGLE_QUOTE, DOUBLE_QUOTE
<1>4. Quotes(f, mark) = TRUE /\ f.in_quote # mark
  BY <1>1, <1>3 DEF Quotes, Bare
<1>5. OnQuote(f, mark) = EndEscape(x)
  BY <1>4 DEF OnQuote
<1>6. r = Store(OnQuote(f, mark), c, Quotes(f, mark))
  BY <1>2, <1>3, HandledCases
<1>7. r = Store(EndEscape(x), c, TRUE)
  BY <1>4, <1>5, <1>6
<1> HIDE DEF f
<1>8. /\ v \in Parser /\ Begun(v, f) /\ v.token = f.token /\ ~ v.in_escape
  BY <1>1, BegunSound
<1> HIDE DEF v, r
<1>9. Begun(x, f) /\ x.token = f.token /\ ~ x.in_escape /\ x.in_quote = mark
  BY <1>8 DEF Begun, Parser
<1> HIDE DEF x
<1>10. EndEscape(x) = x
  BY <1>9 DEF EndEscape
<1>11. r = x
  BY <1>7, <1>10, StoreQuiet
<1> QED
  BY <1>1, <1>9, <1>11 DEF Begun, Same, r

LEMMA HandledBackslash ==
    ASSUME NEW s, Sound(s), ~ s.in_escape, s.in_quote # SINGLE_QUOTE, ~ s.in_comment
    PROVE  LET r == Handled(s, BACKSLASH)
           IN  /\ Begun(r, s) /\ r.in_escape /\ r.in_quote = s.in_quote
               /\ r.token = s.token
<1> DEFINE f == Fresh(s)
           b == BeginEscape(f)
           v == BeginValue(b)
           r == Handled(s, BACKSLASH)
<1>1. /\ f \in Parser /\ FlagsAgree(f) /\ Same(f, s) /\ ~ f.in_comment /\ ~ f.in_escape
      /\ f.in_quote = s.in_quote
  BY FreshSound DEF Same
<1>2. r = Store(v, BACKSLASH, FALSE)
  <2>1. OnBackslash(f) = v
    BY <1>1 DEF OnBackslash
  <2>2. BACKSLASH \in Character
    BY DEF Character, Special
  <2> QED
    BY <2>1, <2>2, HandledCases
<1> HIDE DEF f
<1>3. b \in Parser /\ Same(b, f) /\ b.in_escape
  BY <1>1, EscapeSound DEF Same
<1> HIDE DEF b
<1>4. v \in Parser /\ Begun(v, f) /\ v.in_escape /\ v.in_quote = f.in_quote /\ v.token = f.token
  <2>1. /\ v \in Parser /\ v.flag = b.flag /\ v.a = b.a /\ v.token = b.token
        /\ v.in_escape = b.in_escape /\ v.in_comment = b.in_comment
        /\ v.in_quote = b.in_quote /\ v.in_key = b.in_key
        /\ v.in_value = (b.in_value \/ (~ b.in_key /\ ~ b.in_comment /\ b.in_quote = NO_QUOTE))
        /\ v.added_key = b.added_key
    BY <1>3, BeginValueSound
  <2>2. (f.in_value \/ (~ f.in_key /\ f.in_quote = NO_QUOTE)) = ~ f.in_key
    BY <1>1 DEF FlagsAgree, Parser
  <2> HIDE DEF v
  <2> QED
    BY <1>1, <1>3, <2>1, <2>2 DEF Begun, Same
<1> HIDE DEF v, r
<1>5. r = v
  BY <1>2, <1>4, StoreQuiet
<1> QED
  BY <1>1, <1>4, <1>5 DEF Begun, Same, r

\* The array when the key or value ends, and whether a key has been added then
Added(s) ==
    IF s.in_key /\ s.token # <<>> THEN Append(s.a, Trimmed(Dashed(s), s.last_escaped))
    ELSE IF s.in_value THEN Append(s.a, Trimmed(s.token, s.last_escaped))
    ELSE s.a

AddsKey(s) == s.added_key \/ (s.in_key /\ s.token # <<>>)

\* The key and the value have ended.
LEMMA EndsBoth ==
    ASSUME NEW s \in Parser, Bare(s), s.in_value => ~ s.in_key,
           s.token # <<>> => s.in_key \/ s.in_value
    PROVE  LET r == EndValue(EndKey(s))
           IN  /\ r \in Parser /\ r.flag = s.flag /\ r.a = Added(s) /\ r.token = <<>>
               /\ r.last_escaped = s.last_escaped
               /\ r.in_comment = s.in_comment /\ ~ r.in_escape /\ r.in_quote = NO_QUOTE
               /\ ~ r.in_key /\ ~ r.in_value /\ r.added_key = AddsKey(s)
<1> DEFINE k == EndKey(s)
           r == EndValue(k)
<1>1. /\ k \in Parser /\ k.flag = s.flag
      /\ k.a = IF s.in_key /\ s.token # <<>>
               THEN Append(s.a, Trimmed(Dashed(s), s.last_escaped)) ELSE s.a
      /\ k.token = IF s.in_key THEN <<>> ELSE s.token
      /\ k.last_escaped = s.last_escaped
      /\ k.in_escape = s.in_escape /\ k.in_comment = s.in_comment
      /\ k.in_quote = s.in_quote /\ ~ k.in_key /\ k.in_value = s.in_value
      /\ k.added_key = AddsKey(s)
  <2>1. s.in_key \in BOOLEAN /\ s.added_key \in BOOLEAN
    BY DEF Parser
  <2> QED
    BY <2>1, EndKeySound DEF AddsKey
<1> HIDE DEF k
<1>2. Bare(k) /\ ~ s.in_escape /\ s.in_quote = NO_QUOTE
  BY <1>1 DEF Bare
<1>3. /\ r \in Parser /\ r.flag = k.flag
      /\ r.a = IF k.in_value THEN Append(k.a, Trimmed(k.token, k.last_escaped)) ELSE k.a
      /\ r.token = IF k.in_value THEN <<>> ELSE k.token
      /\ r.last_escaped = k.last_escaped
      /\ r.in_escape = k.in_escape /\ r.in_comment = k.in_comment
      /\ r.in_quote = k.in_quote
      /\ r.in_key = k.in_key /\ ~ r.in_value /\ r.added_key = k.added_key
  BY <1>1, <1>2, EndValueSound
<1> HIDE DEF r
<1>4. r.a = Added(s)
  BY <1>1, <1>3 DEF Added
<1>5. r.token = <<>>
  BY <1>1, <1>3
<1> QED
  BY <1>1, <1>2, <1>3, <1>4, <1>5 DEF r, k

LEMMA FreshAdded ==
    ASSUME NEW s, Sound(s)
    PROVE  Added(Fresh(s)) = Added(s) /\ AddsKey(Fresh(s)) = AddsKey(s)
<1> DEFINE f == Fresh(s)
<1>1. Same(f, s) /\ f.last_escaped = s.last_escaped
  BY FreshSound
<1> HIDE DEF f
<1>2. Dashed(f) = Dashed(s)
  BY <1>1 DEF Dashed, Same
<1>3. Added(f) = Added(s) /\ AddsKey(f) = AddsKey(s)
  BY <1>1, <1>2 DEF Added, AddsKey, Same
<1> QED
  BY <1>3 DEF f

LEMMA HandledHash ==
    ASSUME NEW s, Sound(s), Bare(s), ~ s.in_comment
    PROVE  LET r == Handled(s, HASH)
           IN  /\ r.flag = s.flag /\ r.a = Added(s) /\ r.token = <<>>
               /\ r.in_comment /\ ~ r.in_escape /\ r.in_quote = NO_QUOTE
               /\ ~ r.in_key /\ ~ r.in_value /\ r.added_key = AddsKey(s)
<1> DEFINE f == Fresh(s)
           c == BeginComment(f)
           k == EndValue(EndKey(c))
           v == BeginValue(k)
           r == Handled(s, HASH)
<1>1. /\ f \in Parser /\ FlagsAgree(f) /\ Same(f, s) /\ Bare(f)
      /\ Added(f) = Added(s) /\ AddsKey(f) = AddsKey(s)
  BY FreshSound, FreshBare, FreshAdded
<1>2. r = Store(EndEscape(v), HASH, FALSE)
  <2>1. HASH \in Character
    BY DEF Character, Special
  <2> QED
    BY <2>1, HandledCases DEF OnHash
<1> HIDE DEF f
<1>3. /\ c \in Parser /\ c.flag = f.flag /\ c.a = f.a /\ c.token = f.token
      /\ c.last_escaped = f.last_escaped /\ c.in_escape = f.in_escape
      /\ c.in_comment = TRUE /\ c.in_quote = f.in_quote
      /\ c.in_key = f.in_key /\ c.in_value = f.in_value /\ c.added_key = f.added_key
  <2>1. (f.in_comment \/ Bare(f)) = TRUE
    BY <1>1
  <2> QED
    BY <1>1, <2>1, CommentSound
<1> HIDE DEF c
<1>4. Dashed(c) = Dashed(f)
  BY <1>3 DEF Dashed
<1>5. Added(c) = Added(f) /\ AddsKey(c) = AddsKey(f) /\ Bare(c)
  BY <1>1, <1>3, <1>4 DEF Added, AddsKey, Bare
<1>6. /\ k \in Parser /\ k.flag = c.flag /\ k.a = Added(c) /\ k.token = <<>>
      /\ k.in_comment /\ ~ k.in_escape /\ k.in_quote = NO_QUOTE
      /\ ~ k.in_key /\ ~ k.in_value /\ k.added_key = AddsKey(c)
  <2>1. /\ c.in_value => ~ c.in_key
        /\ c.token # <<>> => c.in_key \/ c.in_value
    BY <1>1, <1>3 DEF FlagsAgree
  <2> QED
    BY <1>3, <1>5, <2>1, EndsBoth
<1> HIDE DEF k
<1>7. /\ v \in Parser /\ v.flag = k.flag /\ v.a = k.a /\ v.token = k.token
      /\ v.in_comment /\ ~ v.in_escape /\ v.in_quote = NO_QUOTE
      /\ ~ v.in_key /\ ~ v.in_value /\ v.added_key = k.added_key
  BY <1>6, BeginValueSound
<1> HIDE DEF v
<1>8. EndEscape(v) = v
  BY <1>7 DEF EndEscape
<1>9. r = v
  BY <1>2, <1>7, <1>8, StoreQuiet
<1> HIDE DEF r
<1> QED
  BY <1>1, <1>3, <1>5, <1>6, <1>7, <1>9 DEF r, Same

\* The end of a line, also of one that ends in a comment
LEMMA HandledLineEnd ==
    ASSUME NEW s, Sound(s), Bare(s)
    PROVE  LET r == Handled(s, NEWLINE)
           IN  /\ r.flag = s.flag
               /\ r.a = IF AddsKey(s) /\ "MULTI_VALUE" \in s.flag THEN Append(Added(s), NULL)
                        ELSE Added(s)
               /\ r.token = <<>> /\ ~ r.in_comment /\ ~ r.in_escape
               /\ r.in_quote = NO_QUOTE /\ r.last_escaped = 0
               /\ r.in_key /\ ~ r.in_value /\ ~ r.added_key
<1> DEFINE f == Fresh(s)
           k == EndKey(f)
           c == EndComment(k)
           v == EndValue(c)
           w == EndValue(k)
           b == BeginKey(v)
           r == Handled(s, NEWLINE)
<1>1. /\ f \in Parser /\ FlagsAgree(f) /\ Same(f, s) /\ Bare(f)
      /\ Added(f) = Added(s) /\ AddsKey(f) = AddsKey(s)
  BY FreshSound, FreshBare, FreshAdded
<1>2. r = Store(EndEscape(b), NEWLINE, FALSE)
  <2>1. NEWLINE \in Character
    BY DEF Character, Special
  <2> QED
    BY <2>1, HandledCases DEF OnNewline
<1> HIDE DEF f
<1>3. /\ w \in Parser /\ w.flag = f.flag /\ w.a = Added(f) /\ w.token = <<>>
      /\ ~ w.in_escape /\ w.in_quote = NO_QUOTE
      /\ ~ w.in_key /\ ~ w.in_value /\ w.added_key = AddsKey(f)
  BY <1>1, EndsBoth DEF FlagsAgree
<1>4. k \in Parser /\ k.in_escape = f.in_escape /\ k.in_quote = f.in_quote
  BY <1>1, EndKeySound
<1> HIDE DEF k
<1>5. /\ c \in Parser /\ c.flag = k.flag /\ c.a = k.a /\ c.token = k.token
      /\ c.last_escaped = k.last_escaped /\ c.in_escape = k.in_escape
      /\ c.in_comment = FALSE /\ c.in_quote = k.in_quote
      /\ c.in_key = k.in_key /\ c.in_value = k.in_value /\ c.added_key = k.added_key
  <2>1. (k.in_comment /\ k.in_escape) = FALSE
    BY <1>1, <1>4 DEF Bare
  <2> QED
    BY <1>4, <2>1, CommentSound
<1> HIDE DEF c
\* That the comment ends first makes no difference to the value.
<1>6. /\ v \in Parser /\ v.flag = w.flag /\ v.a = w.a /\ v.token = w.token
      /\ v.in_comment = FALSE /\ v.in_escape = w.in_escape /\ v.in_quote = w.in_quote
      /\ v.in_key = w.in_key /\ v.in_value = w.in_value /\ v.added_key = w.added_key
  <2>1. Bare(c) = Bare(k) /\ Bare(k) = TRUE
    BY <1>1, <1>4, <1>5 DEF Bare
  <2>2. /\ v \in Parser /\ v.flag = c.flag
        /\ v.a = IF c.in_value THEN Append(c.a, Trimmed(c.token, c.last_escaped)) ELSE c.a
        /\ v.token = IF c.in_value THEN <<>> ELSE c.token
        /\ v.in_escape = c.in_escape /\ v.in_comment = c.in_comment
        /\ v.in_quote = c.in_quote /\ v.in_key = c.in_key /\ v.in_value = FALSE
        /\ v.added_key = c.added_key
    BY <1>5, <2>1, EndValueSound
  <2>3. /\ w.flag = k.flag
        /\ w.a = IF k.in_value THEN Append(k.a, Trimmed(k.token, k.last_escaped)) ELSE k.a
        /\ w.token = IF k.in_value THEN <<>> ELSE k.token
        /\ w.in_escape = k.in_escape
        /\ w.in_quote = k.in_quote /\ w.in_key = k.in_key /\ w.in_value = FALSE
        /\ w.added_key = k.added_key
    BY <1>4, <2>1, EndValueSound
  <2> HIDE DEF v, w
  <2> QED
    BY <1>5, <2>2, <2>3
<1> HIDE DEF v, w
<1>7. Bare(v) /\ ~ v.in_comment
  BY <1>3, <1>6 DEF Bare
<1>8. /\ b \in Parser /\ b.flag = v.flag
      /\ b.a = IF v.added_key /\ "MULTI_VALUE" \in v.flag THEN Append(v.a, NULL) ELSE v.a
      /\ b.token = v.token /\ b.last_escaped = 0
      /\ b.in_escape = v.in_escape /\ b.in_comment = v.in_comment
      /\ b.in_quote = v.in_quote
      /\ b.in_key = TRUE /\ b.in_value = v.in_value /\ b.added_key = FALSE
  BY <1>6, <1>7, BeginKeySound
<1> HIDE DEF b
<1>9. EndEscape(b) = b
  BY <1>3, <1>6, <1>8 DEF EndEscape
<1>10. r = b
  BY <1>2, <1>9, StoreQuiet
<1> HIDE DEF r
<1>11. w.flag = s.flag /\ w.a = Added(s) /\ w.added_key = AddsKey(s)
  BY <1>1, <1>3 DEF Same
<1>12. r.a = IF AddsKey(s) /\ "MULTI_VALUE" \in s.flag THEN Append(Added(s), NULL)
             ELSE Added(s)
  BY <1>6, <1>8, <1>10, <1>11
<1> QED
  BY <1>3, <1>6, <1>8, <1>10, <1>11, <1>12 DEF r

\* Whitespace ends a key, and a value if it is a word.
Stops(s) == s.in_key \/ (s.in_value /\ "MULTI_VALUE" \in s.flag)

LEMMA HandledBlank ==
    ASSUME NEW s, Sound(s), Bare(s), ~ s.in_comment
    PROVE  LET r == Handled(s, BLANK)
           IN  /\ r.flag = s.flag
               /\ r.a = IF Stops(s) THEN Added(s) ELSE s.a
               /\ r.token = IF Stops(s) THEN <<>>
                            ELSE IF s.in_value /\ Len(s.token) < max_token_pos
                            THEN Append(s.token, BLANK) ELSE s.token
               /\ ~ r.in_comment /\ ~ r.in_escape /\ r.in_quote = NO_QUOTE
               /\ r.last_escaped = s.last_escaped
               /\ ~ r.in_key /\ r.in_value = (s.in_value /\ ~ Stops(s))
               /\ r.added_key = AddsKey(s)
<1> DEFINE f == Fresh(s)
           q == IF "MULTI_VALUE" \in f.flag THEN EndValue(f) ELSE f
           k == EndKey(q)
           r == Handled(s, BLANK)
<1>1. /\ f \in Parser /\ FlagsAgree(f) /\ Same(f, s) /\ Bare(f) /\ ~ f.in_comment
      /\ f.last_escaped = s.last_escaped
      /\ Added(f) = Added(s) /\ AddsKey(f) = AddsKey(s)
  BY FreshSound, FreshBare, FreshAdded DEF Same
<1>2. r = Store(EndEscape(IF k.in_escape THEN BeginValue(k) ELSE k), BLANK, FALSE)
  <2>1. BLANK \in Character
    BY DEF Character, Special
  <2> QED
    BY <2>1, HandledCases DEF OnBlank
<1> HIDE DEF f
<1> DEFINE ends == f.in_value /\ "MULTI_VALUE" \in f.flag
<1>3. /\ q \in Parser /\ q.flag = f.flag
      /\ q.a = IF ends THEN Append(f.a, Trimmed(f.token, f.last_escaped)) ELSE f.a
      /\ q.token = IF ends THEN <<>> ELSE f.token
      /\ q.last_escaped = f.last_escaped
      /\ q.in_escape = f.in_escape /\ q.in_comment = f.in_comment
      /\ q.in_quote = f.in_quote
      /\ q.in_key = f.in_key /\ q.in_value = (f.in_value /\ ~ ends)
      /\ q.added_key = f.added_key
  <2>1. CASE "MULTI_VALUE" \in f.flag
    BY <1>1, <2>1, EndValueSound
  <2>2. CASE "MULTI_VALUE" \notin f.flag
    <3>1. f.in_value \in BOOLEAN
      BY <1>1 DEF Parser
    <3> QED
      BY <1>1, <2>2, <3>1
  <2> QED
    BY <2>1, <2>2
<1> HIDE DEF q
<1>4. Bare(q)
  BY <1>1, <1>3 DEF Bare
<1>5. /\ k \in Parser /\ k.flag = q.flag
      /\ k.a = IF q.in_key /\ q.token # <<>>
               THEN Append(q.a, Trimmed(Dashed(q), q.last_escaped)) ELSE q.a
      /\ k.token = IF q.in_key THEN <<>> ELSE q.token
      /\ k.last_escaped = q.last_escaped
      /\ k.in_escape = q.in_escape /\ k.in_comment = q.in_comment
      /\ k.in_quote = q.in_quote /\ ~ k.in_key /\ k.in_value = q.in_value
      /\ k.added_key = (q.added_key \/ (q.in_key /\ q.token # <<>>))
  BY <1>3, <1>4, EndKeySound
<1> HIDE DEF k
<1>6. ~ k.in_escape /\ k.in_quote = NO_QUOTE /\ ~ k.in_comment
  BY <1>1, <1>3, <1>5 DEF Bare
<1>7. r = Store(k, BLANK, FALSE)
  BY <1>2, <1>6 DEF EndEscape
<1>8. Stored(r, k, BLANK, FALSE)
  BY <1>5, <1>7, StoreFields
<1> HIDE DEF r
<1>9. f.in_key => ~ f.in_value
  BY <1>1 DEF FlagsAgree
<1>10. Dashed(q) = Dashed(f) \/ ends
  BY <1>3 DEF Dashed
<1>11. Stops(s) <=> f.in_key \/ ends
  BY <1>1 DEF Stops, Same
<1>12. k.a = IF f.in_key \/ ends THEN Added(f) ELSE f.a
  <2>1. CASE f.in_key
    <3>1. ~ ends /\ q.token = f.token /\ q.a = f.a /\ Dashed(q) = Dashed(f) /\ ~ f.in_value
      BY <1>3, <1>9, <1>10, <2>1
    <3> QED
      BY <1>3, <1>5, <2>1, <3>1 DEF Added
  <2>2. CASE ~ f.in_key
    BY <1>3, <1>5, <2>2 DEF Added
  <2> QED
    BY <2>1, <2>2
<1>13. k.token = IF f.in_key \/ ends THEN <<>> ELSE f.token
  BY <1>3, <1>5
<1>14. k.in_value = (f.in_value /\ ~ (f.in_key \/ ends))
  <2>1. f.in_value \in BOOLEAN
    BY <1>1 DEF Parser
  <2> QED
    BY <1>3, <1>5, <1>9, <2>1
<1>15. k.added_key = AddsKey(f)
  <2>1. CASE f.in_key
    <3>1. ~ ends /\ q.token = f.token
      BY <1>3, <1>9, <2>1
    <3> QED
      BY <1>3, <1>5, <2>1, <3>1 DEF AddsKey
  <2>2. CASE ~ f.in_key
    <3>1. f.added_key \in BOOLEAN
      BY <1>1 DEF Parser
    <3> QED
      BY <1>3, <1>5, <2>2, <3>1 DEF AddsKey
  <2> QED
    BY <2>1, <2>2
<1>16. BLANK # NEWLINE
  BY CharactersDiffer
<1>17. /\ f.flag = s.flag /\ f.a = s.a /\ f.token = s.token /\ f.in_value = s.in_value
  BY <1>1 DEF Same
<1> HIDE DEF ends
<1>18. /\ r.flag = s.flag /\ r.a = IF Stops(s) THEN Added(s) ELSE s.a
       /\ ~ r.in_comment /\ ~ r.in_escape /\ r.in_quote = NO_QUOTE
       /\ r.last_escaped = s.last_escaped /\ ~ r.in_key
       /\ r.in_value = (s.in_value /\ ~ Stops(s)) /\ r.added_key = AddsKey(s)
  BY <1>1, <1>3, <1>5, <1>6, <1>8, <1>11, <1>12, <1>14, <1>15, <1>17 DEF Stored
<1>19. r.token = IF Stops(s) THEN <<>>
                 ELSE IF s.in_value /\ Len(s.token) < max_token_pos
                 THEN Append(s.token, BLANK) ELSE s.token
  BY <1>5, <1>6, <1>8, <1>11, <1>13, <1>14, <1>16, <1>17 DEF Stored
<1> QED
  BY <1>18, <1>19 DEF r

----------------------------------------------------------------------------
\* The flags stay as they are.
SameFlag(r, s) == r \in Parser /\ r.flag = s.flag

LEMMA MacroFlags ==
    ASSUME NEW s \in Parser
    PROVE  /\ SameFlag(EndKey(s), s) /\ SameFlag(EndValue(s), s)
           /\ SameFlag(BeginKey(s), s) /\ SameFlag(BeginValue(s), s)
           /\ SameFlag(EndComment(s), s) /\ SameFlag(BeginComment(s), s)
           /\ SameFlag(EndEscape(s), s) /\ SameFlag(BeginEscape(s), s)
<1>1. SameFlag(EndKey(s), s)
  BY EndKeySound DEF SameFlag
<1>2. SameFlag(EndValue(s), s)
  BY EndValueSound DEF SameFlag
<1>3. SameFlag(BeginKey(s), s)
  BY BeginKeySound DEF SameFlag
<1>4. SameFlag(BeginValue(s), s)
  BY BeginValueSound DEF SameFlag
<1>5. SameFlag(EndComment(s), s) /\ SameFlag(BeginComment(s), s)
  BY CommentSound DEF SameFlag
<1>6. SameFlag(EndEscape(s), s) /\ SameFlag(BeginEscape(s), s)
  BY EscapeSound DEF SameFlag
<1> QED
  BY <1>1, <1>2, <1>3, <1>4, <1>5, <1>6

LEMMA SameFlagChain ==
    ASSUME NEW q, NEW r, NEW s, SameFlag(q, r), SameFlag(r, s)
    PROVE  SameFlag(q, s)
BY DEF SameFlag

LEMMA OnFlags ==
    ASSUME NEW s \in Parser
    PROVE  /\ SameFlag(OnBlank(s), s) /\ SameFlag(OnNewline(s), s)
           /\ SameFlag(OnBackslash(s), s) /\ SameFlag(OnHash(s), s)
           /\ SameFlag(OnOther(s), s)
           /\ \A mark \in {SINGLE_QUOTE, DOUBLE_QUOTE} : SameFlag(OnQuote(s, mark), s)
<1>0. SameFlag(s, s)
  BY DEF SameFlag
<1>1. SameFlag(OnBlank(s), s)
  <2> DEFINE k == IF "MULTI_VALUE" \in s.flag THEN EndValue(s) ELSE s
             r == EndKey(k)
             b == IF r.in_escape THEN BeginValue(r) ELSE r
  <2>1. SameFlag(k, s)
    BY <1>0, MacroFlags
  <2> HIDE DEF k
  <2>2. SameFlag(r, s)
    BY <2>1, MacroFlags DEF SameFlag
  <2> HIDE DEF r
  <2>3. SameFlag(b, s)
    BY <2>2, MacroFlags DEF SameFlag
  <2> HIDE DEF b
  <2>4. SameFlag(EndEscape(b), s)
    BY <2>3, MacroFlags DEF SameFlag
  <2> QED
    BY <2>4 DEF OnBlank, k, r, b
<1>2. SameFlag(OnNewline(s), s)
  <2>1. SameFlag(EndKey(s), s)
    BY MacroFlags
  <2>2. SameFlag(EndComment(EndKey(s)), s)
    BY <2>1, MacroFlags DEF SameFlag
  <2>3. SameFlag(EndValue(EndComment(EndKey(s))), s)
    BY <2>2, MacroFlags DEF SameFlag
  <2>4. SameFlag(BeginKey(EndValue(EndComment(EndKey(s)))), s)
    BY <2>3, MacroFlags DEF SameFlag
  <2> QED
    BY <2>4, MacroFlags DEF SameFlag, OnNewline
<1>3. SameFlag(OnBackslash(s), s)
  <2> DEFINE b == IF s.in_escape \/ s.in_quote = SINGLE_QUOTE THEN EndEscape(s)
                  ELSE BeginEscape(s)
  <2>1. SameFlag(b, s)
    BY MacroFlags
  <2> HIDE DEF b
  <2>2. SameFlag(BeginValue(b), s)
    BY <2>1, MacroFlags DEF SameFlag
  <2> QED
    BY <2>2 DEF OnBackslash, b
<1>4. SameFlag(OnHash(s), s)
  <2>1. SameFlag(BeginComment(s), s)
    BY MacroFlags
  <2>2. SameFlag(EndKey(BeginComment(s)), s)
    BY <2>1, MacroFlags DEF SameFlag
  <2>3. SameFlag(EndValue(EndKey(BeginComment(s))), s)
    BY <2>2, MacroFlags DEF SameFlag
  <2>4. SameFlag(BeginValue(EndValue(EndKey(BeginComment(s)))), s)
    BY <2>3, MacroFlags DEF SameFlag
  <2> QED
    BY <2>4, MacroFlags DEF SameFlag, OnHash
<1>5. SameFlag(OnOther(s), s)
  BY MacroFlags DEF SameFlag, OnOther
<1>6. ASSUME NEW mark \in {SINGLE_QUOTE, DOUBLE_QUOTE} PROVE SameFlag(OnQuote(s, mark), s)
  <2> DEFINE r == BeginValue(s)
             b == IF ~ Quotes(s, mark) THEN r
                  ELSE IF s.in_quote = mark
                    THEN [r EXCEPT !.in_quote = NO_QUOTE, !.last_escaped = Len(r.token)]
                    ELSE [r EXCEPT !.in_quote = mark]
  <2>1. SameFlag(r, s)
    BY MacroFlags
  <2> HIDE DEF r
  <2>2. r \in Parser /\ Len(r.token) \in 0 .. max_token_pos /\ max_token_pos \in Nat
    BY <2>1, ParserFields, BufferFits DEF SameFlag
  <2>3. SameFlag(b, s)
    <3>1. Len(r.token) \in 0 .. max_token_pos + 1
      BY <2>2
    <3>2. SameFlag([r EXCEPT !.in_quote = NO_QUOTE, !.last_escaped = Len(r.token)], r)
      BY <2>2, <3>1 DEF SameFlag, Parser
    <3>3. SameFlag([r EXCEPT !.in_quote = mark], r)
      BY <2>2 DEF SameFlag, Parser
    <3> QED
      BY <2>1, <3>2, <3>3 DEF SameFlag
  <2> HIDE DEF b
  <2>4. SameFlag(EndEscape(b), s)
    BY <2>3, MacroFlags DEF SameFlag
  <2> QED
    BY <2>4 DEF OnQuote, r, b
<1> QED
  BY <1>1, <1>2, <1>3, <1>4, <1>5, <1>6

LEMMA HandledFlag ==
    ASSUME NEW s, Sound(s), NEW c \in Character
    PROVE  Handled(s, c).flag = s.flag
<1>1. Fresh(s) \in Parser /\ Fresh(s).flag = s.flag
  BY FreshSound DEF Same
<1>2. ASSUME NEW r, SameFlag(r, Fresh(s)), NEW skip_char
      PROVE Store(r, c, skip_char).flag = s.flag
  BY <1>1, <1>2, StoreFields DEF SameFlag, Stored
<1>3. c \in {BLANK, NEWLINE, BACKSLASH, HASH, DOUBLE, SINGLE} \cup Other
  BY HandledCases
<1>4. CASE c = BLANK
  <2>1. Handled(s, c) = Store(OnBlank(Fresh(s)), c, FALSE)
    BY <1>4, HandledCases
  <2> QED
    BY <1>1, <1>2, <2>1, OnFlags
<1>5. CASE c = NEWLINE
  <2>1. Handled(s, c) = Store(OnNewline(Fresh(s)), c, FALSE)
    BY <1>5, HandledCases
  <2> QED
    BY <1>1, <1>2, <2>1, OnFlags
<1>6. CASE c = BACKSLASH
  <2>1. Handled(s, c) = Store(OnBackslash(Fresh(s)), c, FALSE)
    BY <1>6, HandledCases
  <2> QED
    BY <1>1, <1>2, <2>1, OnFlags
<1>7. CASE c = HASH
  <2>1. Handled(s, c) = Store(OnHash(Fresh(s)), c, FALSE)
    BY <1>7, HandledCases
  <2> QED
    BY <1>1, <1>2, <2>1, OnFlags
<1>8. CASE c = DOUBLE
  <2>1. Handled(s, c) = Store(OnQuote(Fresh(s), DOUBLE_QUOTE), c, Quotes(Fresh(s), DOUBLE_QUOTE))
    BY <1>8, HandledCases
  <2>2. SameFlag(OnQuote(Fresh(s), DOUBLE_QUOTE), Fresh(s))
    BY <1>1, OnFlags
  <2> QED
    BY <1>2, <2>1, <2>2
<1>9. CASE c = SINGLE
  <2>1. Handled(s, c) = Store(OnQuote(Fresh(s), SINGLE_QUOTE), c, Quotes(Fresh(s), SINGLE_QUOTE))
    BY <1>9, HandledCases
  <2>2. SameFlag(OnQuote(Fresh(s), SINGLE_QUOTE), Fresh(s))
    BY <1>1, OnFlags
  <2> QED
    BY <1>2, <2>1, <2>2
<1>10. CASE c \in Other
  <2>1. Handled(s, c) = Store(OnOther(Fresh(s)), c, FALSE)
    BY <1>10, HandledCases
  <2> QED
    BY <1>1, <1>2, <2>1, OnFlags
<1> QED
  BY <1>3, <1>4, <1>5, <1>6, <1>7, <1>8, <1>9, <1>10

----------------------------------------------------------------------------
(***************************************************************************)
(* The parser agrees with the meaning of the text that it has read.        *)
(***************************************************************************)

\* Trimming leaves the first m characters, when only whitespace comes behind them
\* and neither n nor whitespace forbids to stop there.
LEMMA TrimmedAt ==
    ASSUME NEW C, NEW t \in Seq(C), NEW n \in Nat, NEW m \in 0 .. Len(t),
           \A k \in m + 1 .. Len(t) : t[k] = BLANK,
           n <= m \/ m = Len(t), n >= m \/ m = 0 \/ t[m] # BLANK
    PROVE  Trimmed(t, n) = SubSeq(t, 1, m)
<1> DEFINE ends == {k \in 0 .. Len(t) :
                      /\ k >= n \/ k = Len(t)
                      /\ \A j \in k + 1 .. Len(t) : t[j] = BLANK}
           end  == CHOOSE k \in ends : \A j \in ends : k <= j
<1>1. Len(t) \in Nat
  BY LenProperties
<1>2. m \in ends
  BY <1>1
<1>3. ASSUME NEW k \in ends PROVE m <= k
  <2>1. SUFFICES ASSUME k < m PROVE FALSE
    BY <1>1, <1>3
  <2>2. k >= n /\ m # 0 /\ m \in k + 1 .. Len(t)
    BY <1>1, <1>3, <2>1
  <2>3. t[m] = BLANK
    BY <1>3, <2>2
  <2> QED
    BY <1>1, <1>3, <2>1, <2>2, <2>3
<1>4. ends \in SUBSET Nat
  BY <1>1
<1> HIDE DEF ends
<1>5. end \in ends /\ \A j \in ends : end <= j
  <2>1. \E k \in ends : \A j \in ends : k <= j
    BY <1>2, <1>3
  <2> QED
    BY <2>1
<1> HIDE DEF end
<1>6. end = m
  <2>1. end <= m /\ m <= end
    BY <1>2, <1>3, <1>5, Zenon
  <2> QED
    BY <1>2, <1>4, <1>5, <2>1
<1> QED
  BY <1>6 DEF Trimmed, end, ends

\* Nothing is trimmed off what ends with something else than whitespace.
LEMMA TrimmedNothing ==
    ASSUME NEW C, NEW t \in Seq(C), NEW n \in Nat,
           t = <<>> \/ t[Len(t)] # BLANK \/ n >= Len(t)
    PROVE  Trimmed(t, n) = t
<1>1. Len(t) \in Nat /\ (t = <<>> => Len(t) = 0)
  BY LenProperties, EmptySeq
<1>2. Trimmed(t, n) = SubSeq(t, 1, Len(t))
  BY <1>1, TrimmedAt
<1>3. SubSeq(t, 1, Len(t)) = t
  BY <1>1
<1> QED
  BY <1>2, <1>3

\* What a text has been read as: what surrounds its end, its lines, and the parts
\* of the last of them
View(t, flags) ==
    [x |-> Context(t), ls |-> Lines(t), q |-> Parts(Last(Lines(t)), flags)]

IsView(v, flags) ==
    /\ v.x \in Surrounding /\ v.ls \in Pieces /\ v.q \in Pieces
    /\ v.q = Parts(Last(v.ls), flags)

\* What the character c does to it
NextView(v, c, flags) ==
    LET y == SymbolsOf(v.x, c) IN
    [x  |-> Follow(v.x, c),
     ls |-> IF y = <<>> THEN v.ls ELSE NextLines(v.ls, y[1]),
     q  |-> IF y = <<>> THEN v.q ELSE IF y[1] = LineEnd THEN Nothing
            ELSE NextParts(v.q, y[1], flags)]

LEMMA ViewTyped ==
    ASSUME NEW t \in Seq(Character), NEW flags
    PROVE  IsView(View(t, flags), flags)
<1>1. Context(t) \in Surrounding
  BY ContextsSteps, LenProperties DEF Context
<1>2. Symbols(t) \in Seq(Symbol)
  <2>1. BLANK \in Character
    BY DEF Character, Special
  <2> QED
    BY <2>1, SymbolsAppend
<1>3. Lines(t) \in Pieces
  <2>1. Space \in Symbol
    BY DEF Symbol
  <2> QED
    BY <1>2, <2>1, SplitAppend DEF Lines
<1>4. Last(Lines(t)) \in Seq(Symbol)
  BY <1>3, PiecesTyped
<1>5. Parts(Last(Lines(t)), flags) \in Pieces
  <2>1. Space \in Symbol
    BY DEF Symbol
  <2> QED
    BY <1>4, <2>1, PartsAppend
<1> QED
  BY <1>1, <1>3, <1>5 DEF IsView, View

LEMMA ViewEmpty ==
    ASSUME NEW flags
    PROVE  View(<<>>, flags) = [x |-> Outside, ls |-> Nothing, q |-> Nothing]
<1>1. Lines(<<>>) = Nothing
  BY SymbolsEmpty, SplitEmpty DEF Lines
<1>2. Last(Nothing) = <<>>
  BY NothingIsPiece, PiecesTyped
<1> QED
  BY <1>1, <1>2, ContextsEmpty, PartsEmpty DEF View

LEMMA ViewAppend ==
    ASSUME NEW t \in Seq(Character), NEW c \in Character, NEW flags
    PROVE  View(Append(t, c), flags) = NextView(View(t, flags), c, flags)
<1> DEFINE v == View(t, flags)
           y == SymbolsOf(v.x, c)
           u == Append(t, c)
<1>1. /\ v.x = Context(t) /\ v.ls = Lines(t) /\ v.q = Parts(Last(Lines(t)), flags)
  BY DEF View
<1>2. v.x \in Surrounding /\ v.ls \in Pieces /\ v.q \in Pieces
  BY ViewTyped DEF IsView
<1>3. Context(u) = Follow(v.x, c)
  BY <1>1, ContextsAppend
<1>4. Symbols(t) \in Seq(Symbol) /\ Symbols(u) = Symbols(t) \o y
  BY <1>1, SymbolsAppend
<1> HIDE DEF v
<1>5. CASE y = <<>>
  <2>1. Symbols(u) = Symbols(t)
    BY <1>4, <1>5, ConcatEmptySeq
  <2>2. Lines(u) = v.ls
    BY <1>1, <2>1 DEF Lines
  <2> QED
    BY <1>1, <1>3, <1>5, <2>2 DEF View, NextView
<1>6. ASSUME NEW e \in Symbol, y = <<e>> PROVE View(u, flags) = NextView(v, c, flags)
  <2>1. Symbols(u) = Append(Symbols(t), e)
    BY <1>4, <1>6
  <2>2. Lines(u) = NextLines(v.ls, e)
    BY <1>1, <1>4, <2>1, SplitAppend DEF Lines
  <2>3. y # <<>> /\ y[1] = e
    BY <1>6
  <2>4. Parts(Last(Lines(u)), flags) = IF e = LineEnd THEN Nothing
                                       ELSE NextParts(v.q, e, flags)
    <3>1. CASE e = LineEnd
      <4>1. Lines(u) = Append(v.ls, <<>>)
        BY <2>2, <3>1 DEF NextLines
      <4>2. Last(Lines(u)) = <<>>
        BY <1>2, <4>1, AppendPiece
      <4> QED
        BY <3>1, <4>2, PartsEmpty
    <3>2. CASE e # LineEnd
      <4>1. Last(Lines(u)) = Append(Last(v.ls), e)
        BY <1>2, <2>2, <3>2, ContinuePieces DEF NextLines
      <4>2. Last(v.ls) \in Seq(Symbol)
        BY <1>2, PiecesTyped
      <4> QED
        BY <1>1, <3>2, <4>1, <4>2, PartsAppend
    <3> QED
      BY <3>1, <3>2
  <2> HIDE DEF y, u
  <2> QED
    BY <1>3, <2>2, <2>3, <2>4 DEF View, NextView, y
<1>7. y = <<>> \/ \E e \in Symbol : y = <<e>>
  BY <1>2, SymbolsOfTyped
<1> HIDE DEF y, u
<1> QED
  BY <1>5, <1>6, <1>7 DEF v, u

----------------------------------------------------------------------------
\* The offset spares what shows of the word in progress, and no whitespace behind
\* it, unless the last character was an escaped line end.
Spares(s, cur, cont) ==
    LET m == Len(Inner(cur)) IN
    Whole(cur) =>
        /\ s.last_escaped <= m \/ (cont /\ m = Len(s.token))
        /\ s.last_escaped >= m \/ m = 0 \/ s.token[m] # BLANK

LEMMA LastCut ==
    ASSUME NEW C, NEW y \in Seq(C), y # <<>>
    PROVE  Len(y) \in Nat \ {0} /\ Last(y) = y[Len(y)] /\ y[Len(y)] \in C
<1>1. Len(y) \in Nat \ {0}
  BY LenProperties, EmptySeq
<1> QED
  BY <1>1, ElementOfSeq DEF Last

\* What is trimmed off a value is what the documentation says.
LEMMA TrimmedValue ==
    ASSUME NEW s, Sound(s), NEW cur, WordSound(cur), s.token = Cut(Spelled(cur)),
           NEW cont, Spares(s, cur, cont), EndsVisibly(cur) \/ Whole(cur)
    PROVE  Trimmed(s.token, s.last_escaped) = Shown(cur)
<1> DEFINE V == Inner(cur)
           S == Spelled(cur)
           L == s.last_escaped
<1>1. cur \in Seq(Symbol) /\ V \in Seq(Sign) /\ S \in Seq(Sign)
      /\ Len(V) \in Nat /\ Len(S) \in Nat
  BY InnerTyped DEF WordSound
<1>2. /\ Len(V) <= Len(S) /\ \A k \in 1 .. Len(V) : V[k] = S[k]
      /\ \A k \in Len(V) + 1 .. Len(S) : S[k] = BLANK
  BY DEF WordSound
<1>3. Shown(cur) = Cut(V)
  BY <1>1, ShownTyped
<1>4. Whole(cur) <=> Len(V) <= max_token_pos
  BY DEF Whole, Inner
<1>5. L \in Nat /\ max_token_pos \in Nat \ {0}
  BY BufferFits, ParserFields DEF Sound
<1> HIDE DEF V, S, L
<1>6. /\ Cut(S) \in Seq(Sign) /\ Len(Cut(S)) \in Nat
      /\ Len(Cut(S)) = IF Len(S) <= max_token_pos THEN Len(S) ELSE max_token_pos
      /\ \A k \in 1 .. Len(Cut(S)) : Cut(S)[k] = S[k]
  BY <1>1, CutProperties
<1>7. /\ Cut(V) \in Seq(Sign)
      /\ Len(Cut(V)) = IF Len(V) <= max_token_pos THEN Len(V) ELSE max_token_pos
      /\ \A k \in 1 .. Len(Cut(V)) : Cut(V)[k] = V[k]
  BY <1>1, CutProperties
<1>8. CASE Whole(cur)
  <2>1. Cut(V) = V /\ Len(V) \in 0 .. Len(Cut(S))
    BY <1>1, <1>2, <1>4, <1>5, <1>6, <1>8 DEF Cut
  <2>2. \A k \in Len(V) + 1 .. Len(Cut(S)) : Cut(S)[k] = BLANK
    BY <1>1, <1>2, <1>5, <1>6
  <2>3. /\ L <= Len(V) \/ Len(V) = Len(Cut(S))
        /\ L >= Len(V) \/ Len(V) = 0 \/ Cut(S)[Len(V)] # BLANK
    BY <1>8 DEF Spares, L, V, S
  <2>4. Trimmed(Cut(S), L) = SubSeq(Cut(S), 1, Len(V))
    BY <1>5, <1>6, <2>1, <2>2, <2>3, TrimmedAt
  <2>5. SubSeq(Cut(S), 1, Len(V)) = V
    <3>1. /\ SubSeq(Cut(S), 1, Len(V)) \in Seq(Sign) /\ Len(SubSeq(Cut(S), 1, Len(V))) = Len(V)
          /\ \A k \in 1 .. Len(V) : SubSeq(Cut(S), 1, Len(V))[k] = Cut(S)[k]
      BY <1>1, <1>6, <2>1, SubSeqProperties, ElementOfSeq
    <3>2. \A k \in 1 .. Len(V) : SubSeq(Cut(S), 1, Len(V))[k] = V[k]
      BY <1>1, <1>2, <1>6, <2>1, <3>1
    <3> QED
      BY <1>1, <3>1, <3>2, SeqEqual
  <2> QED
    BY <1>3, <2>1, <2>4, <2>5 DEF S, L
<1>9. CASE ~ Whole(cur)
  <2>1. Len(V) > max_token_pos /\ Len(S) > max_token_pos
    BY <1>1, <1>2, <1>4, <1>5, <1>9
  <2>2. Cut(S) = Cut(V)
    <3>1. Len(Cut(S)) = Len(Cut(V))
      BY <1>1, <1>5, <1>6, <1>7, <2>1
    <3>2. \A k \in 1 .. Len(Cut(S)) : S[k] = V[k]
      BY <1>1, <1>2, <1>5, <1>6, <2>1
    <3> QED
      BY <1>1, <3>1, <3>2, CutEqual
  <2>3. EndsVisibly(cur)
    BY <1>9
  <2>4. Cut(V) = <<>> \/ Cut(V)[Len(Cut(V))] # BLANK
    BY <1>3, <2>3, <1>7, LastCut DEF EndsVisibly
  <2>5. Trimmed(Cut(V), L) = Cut(V)
    BY <1>5, <1>7, <2>4, TrimmedNothing
  <2> QED
    BY <1>3, <2>2, <2>5 DEF S, L
<1> QED
  BY <1>8, <1>9

\* The key gets the dashes that the flags ask for, and keeps its whitespace.
LEMMA TrimmedKey ==
    ASSUME NEW s, Sound(s), NEW cur, WordSound(cur), s.token = Cut(Spelled(cur)),
           NEW cont, Spares(s, cur, cont), Inner(cur) = Spelled(cur), s.token # <<>>,
           EndsVisibly(cur) \/ (Whole(cur) /\ "BLANK" \in s.flag)
    PROVE  /\ Shown(cur) = s.token
           /\ Trimmed(Dashed(s), s.last_escaped) = Prefix(s.token, s.flag) \o s.token
<1>1. Shown(cur) = s.token
  BY ShownTyped DEF WordSound
<1>2. s.token \in Seq(Character) /\ s.last_escaped \in Nat
  BY ParserFields, BufferFits DEF Sound
<1>3. Len(s.token) \in Nat \ {0} /\ Last(s.token) = s.token[Len(s.token)]
  BY <1>2, LastCut
<1>6. ~ {"X", "BLANK"} \subseteq s.flag
  BY ParserFields, ConfigAssumption DEF Sound
<1>7. Prefix(s.token, s.flag) = IF "BLANK" \in s.flag THEN <<>>
                                ELSE IF "X" \in s.flag \/ Len(s.token) = 1 THEN <<DASH>>
                                ELSE <<DASH, DASH>>
  <2>1. CASE "BLANK" \in s.flag
    <3>1. "X" \notin s.flag
      BY <1>6, <2>1
    <3> QED
      BY <2>1, <3>1, Zenon DEF Prefix
  <2>2. CASE "BLANK" \notin s.flag
    BY <2>2, Zenon DEF Prefix
  <2> QED
    BY <2>1, <2>2
<1>4. CASE EndsVisibly(cur)
  <2>1. s.token[Len(s.token)] # BLANK
    BY <1>1, <1>3, <1>4 DEF EndsVisibly
  <2> DEFINE D == Prefix(s.token, s.flag) \o s.token
             P == Prefix(s.token, s.flag)
  <2>2. Dashed(s) = D
    <3>1. CASE "BLANK" \in s.flag
      BY <1>2, <1>7, <3>1, ConcatEmptySeq DEF Dashed
    <3>2. CASE "BLANK" \notin s.flag /\ ("X" \in s.flag \/ Len(s.token) = 1)
      BY <1>7, <3>2 DEF Dashed
    <3>3. CASE "BLANK" \notin s.flag /\ ~ ("X" \in s.flag \/ Len(s.token) = 1)
      BY <1>7, <3>3 DEF Dashed
    <3> QED
      BY <3>1, <3>2, <3>3
  <2>3. P \in Seq(Character \cup {DASH}) /\ Len(P) \in Nat
    <3>1. P \in {<<>>, <<DASH>>, <<DASH, DASH>>}
      BY <1>7, Zenon
    <3>2. {<<>>, <<DASH>>, <<DASH, DASH>>} \subseteq Seq(Character \cup {DASH})
      OBVIOUS
    <3> HIDE DEF P
    <3>3. P \in Seq(Character \cup {DASH})
      BY <3>1, <3>2, Zenon
    <3> QED
      BY <3>3, LenProperties
  <2>4. s.token \in Seq(Character \cup {DASH})
    BY <1>2
  <2> HIDE DEF P
  <2>5. /\ D \in Seq(Character \cup {DASH})
        /\ D[Len(D)] = s.token[Len(s.token)]
    BY <1>3, <2>3, <2>4, ConcatProperties DEF P
  <2> HIDE DEF D
  <2>6. Trimmed(D, s.last_escaped) = D
    BY <1>2, <2>1, <2>5, TrimmedNothing
  <2> QED
    BY <1>1, <2>2, <2>6 DEF D
<1>5. CASE Whole(cur) /\ "BLANK" \in s.flag
  <2>1. Dashed(s) = s.token /\ Prefix(s.token, s.flag) \o s.token = s.token
    BY <1>2, <1>5, <1>7, ConcatEmptySeq DEF Dashed
  <2>2. Trimmed(s.token, s.last_escaped) = Shown(cur)
    BY <1>5, TrimmedValue
  <2> QED
    BY <1>1, <2>1, <2>2
<1> QED
  BY <1>4, <1>5

LEMMA AppendOne ==
    ASSUME NEW C, NEW y \in Seq(C), NEW e
    PROVE  Append(y, e) = y \o <<e>>
<1>1. y \in Seq(C \cup {e}) /\ e \in C \cup {e}
  OBVIOUS
<1> QED
  BY <1>1, AppendIsConcat

\* The part of the line that ends gives the entry it should.
LEMMA AddsEntry ==
    ASSUME NEW s, Sound(s), NEW cur, WordSound(cur), s.token = Cut(Spelled(cur)),
           NEW cont, Spares(s, cur, cont), s.in_key \/ s.in_value,
           s.in_key => Inner(cur) = Spelled(cur), s.in_value => cur # <<>>,
           NEW n, s.in_key <=> n = 1, PartDefinite(cur, n, s.flag)
    PROVE  Added(s) = s.a \o EntryOf(cur, n, s.flag)
<1>0. s.a \in Seq(Entry)
  BY ParserFields DEF Sound
<1>1. CASE s.in_key
  <2>1. Shown(cur) = s.token
    BY <1>1, ShownTyped DEF WordSound
  <2>2. n = 1 /\ ~ s.in_value
    BY <1>1 DEF Sound, FlagsAgree
  <2>3. CASE s.token = <<>>
    <3>1. EntryOf(cur, n, s.flag) = <<>>
      BY <2>1, <2>2, <2>3 DEF EntryOf
    <3>2. Added(s) = s.a
      BY <2>2, <2>3 DEF Added
    <3> QED
      BY <1>0, <3>1, <3>2, ConcatEmptySeq
  <2>4. CASE s.token # <<>>
    <3>1. Trimmed(Dashed(s), s.last_escaped) = Prefix(s.token, s.flag) \o s.token
      BY <1>1, <2>2, <2>4, TrimmedKey DEF PartDefinite
    <3>2. EntryOf(cur, n, s.flag) = <<Prefix(s.token, s.flag) \o s.token>>
      BY <2>1, <2>2, <2>4 DEF EntryOf
    <3>3. Added(s) = Append(s.a, Trimmed(Dashed(s), s.last_escaped))
      BY <1>1, <2>4 DEF Added
    <3> QED
      BY <1>0, <3>1, <3>2, <3>3, AppendOne
  <2> QED
    BY <2>3, <2>4
<1>2. CASE ~ s.in_key
  <2>1. n # 1 /\ s.in_value /\ cur # <<>>
    BY <1>2
  <2>2. Trimmed(s.token, s.last_escaped) = Shown(cur)
    BY TrimmedValue DEF PartDefinite
  <2>3. EntryOf(cur, n, s.flag) = <<Shown(cur)>>
    BY <2>1 DEF EntryOf
  <2>4. Added(s) = Append(s.a, Shown(cur))
    BY <1>2, <2>1, <2>2 DEF Added
  <2> QED
    BY <1>0, <2>3, <2>4, AppendOne
<1> QED
  BY <1>1, <1>2

----------------------------------------------------------------------------
\* What surrounds a character, and what it stands for, in one context after the
\* other
Within(x, where, escaped) == x = [within |-> where, escaped |-> escaped]

LEMMA SurroundingFields ==
    ASSUME NEW x \in Surrounding
    PROVE  /\ x.within \in {"line", "comment", "single", "double"}
           /\ x.escaped \in BOOLEAN
           /\ Within(x, x.within, x.escaped)
BY DEF Surrounding, Within

LEMMA InComment ==
    ASSUME NEW x \in Surrounding, NEW c \in Character, x.within = "comment"
    PROVE  /\ c = NEWLINE /\ ~ x.escaped =>
                SymbolsOf(x, c) = <<LineEnd>> /\ Within(Follow(x, c), "line", FALSE)
           /\ ~ (c = NEWLINE /\ ~ x.escaped) =>
                /\ SymbolsOf(x, c) = <<>>
                /\ Within(Follow(x, c), "comment", c = BACKSLASH /\ ~ x.escaped)
<1>1. SymbolsOf(x, c) = IF c = NEWLINE /\ ~ x.escaped THEN <<LineEnd>> ELSE <<>>
  BY DEF SymbolsOf
<1>2. NEWLINE # BACKSLASH
  BY CharactersDiffer
<1>3. c = NEWLINE /\ ~ x.escaped => Within(Follow(x, c), "line", FALSE)
  BY <1>2 DEF Follow, Within, Surrounding
<1>4. ~ (c = NEWLINE /\ ~ x.escaped) =>
        Within(Follow(x, c), "comment", c = BACKSLASH /\ ~ x.escaped)
  <2>1. CASE x.escaped
    BY <2>1 DEF Follow, Within, Surrounding
  <2>2. CASE ~ x.escaped /\ c = BACKSLASH
    BY <2>2 DEF Follow, Within, Surrounding
  <2>3. CASE ~ x.escaped /\ c # BACKSLASH /\ c # NEWLINE
    BY <2>3 DEF Follow, Within, Surrounding
  <2> QED
    BY <2>1, <2>2, <2>3
<1> QED
  BY <1>1, <1>3, <1>4

LEMMA InEscape ==
    ASSUME NEW x \in Surrounding, NEW c \in Character, x.within # "comment", x.escaped
    PROVE  /\ SymbolsOf(x, c) = <<IF c = NEWLINE THEN Mark ELSE Literal(c)>>
           /\ Within(Follow(x, c), x.within, FALSE)
<1>1. SymbolsOf(x, c) = <<IF c = NEWLINE THEN Mark ELSE Literal(c)>>
  BY DEF SymbolsOf
<1>2. Within(Follow(x, c), x.within, FALSE)
  BY DEF Follow, Within, Surrounding
<1> QED
  BY <1>1, <1>2

LEMMA InQuotes ==
    ASSUME NEW x \in Surrounding, NEW c \in Character, x.within \in {"single", "double"},
           ~ x.escaped
    PROVE  LET closes == <<x.within, c>> \in {<<"single", SINGLE>>, <<"double", DOUBLE>>}
               escapes == x.within = "double" /\ c = BACKSLASH
           IN  /\ closes => SymbolsOf(x, c) = <<Mark>> /\ Within(Follow(x, c), "line", FALSE)
               /\ escapes => SymbolsOf(x, c) = <<>> /\ Within(Follow(x, c), "double", TRUE)
               /\ ~ closes /\ ~ escapes =>
                    /\ SymbolsOf(x, c) = IF c = NEWLINE THEN <<>> ELSE <<Literal(c)>>
                    /\ Within(Follow(x, c), x.within, FALSE)
<1>1. /\ NEWLINE # SINGLE /\ NEWLINE # DOUBLE /\ BACKSLASH # DOUBLE /\ BACKSLASH # SINGLE
      /\ BACKSLASH # NEWLINE
  BY CharactersDiffer
<1>2. CASE x.within = "single"
  <2>1. SymbolsOf(x, c) = CASE c = SINGLE  -> <<Mark>>
              [] c = NEWLINE -> <<>>
              [] OTHER       -> <<Literal(c)>>
    BY <1>2 DEF SymbolsOf
  <2>2. CASE c = SINGLE
    BY <1>1, <1>2, <2>1, <2>2 DEF Follow, Within, Surrounding
  <2>3. CASE c # SINGLE
    <3>1. Within(Follow(x, c), "single", FALSE)
      BY <1>1, <1>2, <2>3 DEF Follow, Within, Surrounding
    <3> QED
      BY <1>1, <1>2, <2>1, <2>3, <3>1
  <2> QED
    BY <2>2, <2>3
<1>3. CASE x.within = "double"
  <2>1. SymbolsOf(x, c) = CASE c = DOUBLE -> <<Mark>>
              [] c \in {BACKSLASH, NEWLINE} -> <<>>
              [] OTHER -> <<Literal(c)>>
    BY <1>3 DEF SymbolsOf
  <2>2. CASE c = DOUBLE
    BY <1>1, <1>3, <2>1, <2>2 DEF Follow, Within, Surrounding
  <2>3. CASE c = BACKSLASH
    BY <1>1, <1>3, <2>1, <2>3 DEF Follow, Within, Surrounding
  <2>4. CASE c # DOUBLE /\ c # BACKSLASH
    <3>1. Within(Follow(x, c), "double", FALSE)
      BY <1>1, <1>3, <2>4 DEF Follow, Within, Surrounding
    <3> QED
      BY <1>1, <1>3, <2>1, <2>4, <3>1
  <2> QED
    BY <2>2, <2>3, <2>4
<1> QED
  BY <1>2, <1>3

LEMMA InLine ==
    ASSUME NEW x \in Surrounding, NEW c \in Character, x.within = "line", ~ x.escaped
    PROVE  /\ c = BLANK => SymbolsOf(x, c) = <<Space>> /\ Within(Follow(x, c), "line", FALSE)
           /\ c = NEWLINE => SymbolsOf(x, c) = <<LineEnd>> /\ Within(Follow(x, c), "line", FALSE)
           /\ c = BACKSLASH => SymbolsOf(x, c) = <<>> /\ Within(Follow(x, c), "line", TRUE)
           /\ c = HASH => SymbolsOf(x, c) = <<>> /\ Within(Follow(x, c), "comment", FALSE)
           /\ c = SINGLE => SymbolsOf(x, c) = <<Mark>> /\ Within(Follow(x, c), "single", FALSE)
           /\ c = DOUBLE => SymbolsOf(x, c) = <<Mark>> /\ Within(Follow(x, c), "double", FALSE)
           /\ c \in Other => SymbolsOf(x, c) = <<Literal(c)>> /\ Within(Follow(x, c), "line", FALSE)
<1>1. SymbolsOf(x, c) = CASE c = BLANK             -> <<Space>>
              [] c = NEWLINE           -> <<LineEnd>>
              [] c \in {SINGLE, DOUBLE} -> <<Mark>>
              [] c \in {BACKSLASH, HASH} -> <<>>
              [] OTHER                 -> <<Literal(c)>>
  BY DEF SymbolsOf
<1>2. CASE c = BLANK
  BY <1>1, <1>2, CharactersDiffer DEF Follow, Within, Surrounding, Special
<1>3. CASE c = NEWLINE
  BY <1>1, <1>3, CharactersDiffer DEF Follow, Within, Surrounding, Special
<1>4. CASE c = BACKSLASH
  BY <1>1, <1>4, CharactersDiffer DEF Follow, Within, Surrounding, Special
<1>5. CASE c = HASH
  BY <1>1, <1>5, CharactersDiffer DEF Follow, Within, Surrounding, Special
<1>6. CASE c = SINGLE
  BY <1>1, <1>6, CharactersDiffer DEF Follow, Within, Surrounding, Special
<1>7. CASE c = DOUBLE
  BY <1>1, <1>7, CharactersDiffer DEF Follow, Within, Surrounding, Special
<1>8. CASE c \in Other
  <2>1. c \notin {BLANK, NEWLINE, BACKSLASH, HASH, SINGLE, DOUBLE}
    BY <1>8, CharactersDiffer DEF Special
  <2> QED
    BY <1>1, <2>1 DEF Follow, Within, Surrounding
<1> QED
  BY <1>2, <1>3, <1>4, <1>5, <1>6, <1>7, <1>8 DEF Character, Special

----------------------------------------------------------------------------
\* The parser and what it has read agree: on the context,
SameContext(s, x) ==
    /\ s.in_escape = x.escaped
    /\ s.in_comment = (x.within = "comment")
    /\ s.in_quote = IF x.within = "single" THEN SINGLE_QUOTE
                    ELSE IF x.within = "double" THEN DOUBLE_QUOTE ELSE NO_QUOTE

\* on the word in progress,
SameWord(s, x, q) ==
    LET word == Last(q) IN
    /\ WordSound(word)
    /\ Len(q) = 1 \/ "MULTI_VALUE" \in s.flag => Inner(word) = Spelled(word)
    /\ s.token = IF x.within = "comment" THEN <<>> ELSE Cut(Spelled(word))

\* and on which word of the line that is
SamePlace(s, x, q) ==
    IF x.within = "comment"
    THEN ~ s.in_key /\ ~ s.in_value /\ s.added_key = (Shown(q[1]) # <<>>)
    ELSE /\ s.in_key = (Len(q) = 1)
         /\ s.in_value /\ Last(q) = <<>> => x.escaped
         /\ ~ s.in_key /\ ~ s.in_value =>
               Last(q) = <<>> /\ ~ x.escaped /\ x.within = "line"
         /\ s.added_key = (Len(q) # 1 /\ Shown(q[1]) # <<>>)

\* on the array,
SameArray(s, v) ==
    s.a = Earlier(v.ls, s.flag)
            \o IF v.x.within = "comment" THEN AllOf(v.q, s.flag) ELSE Before(v.q, s.flag)

\* as long as what has been read trims definitely,
DefiniteSoFar(v, flags) ==
    /\ \A k \in 1 .. Len(v.ls) - 1 : LineDefinite(v.ls[k], flags)
    /\ \A n \in 1 .. Len(v.q) - 1 : PartDefinite(v.q[n], n, flags)
    /\ v.x.within = "comment" => PartDefinite(Last(v.q), Len(v.q), flags)

\* and on what is to be spared when the word ends
SameOffset(s, v, cont) ==
    Bare(s) /\ (s.in_key \/ s.in_value) => Spares(s, Last(v.q), cont)

\* All of it, fine being whether every continuation was visible and cont whether
\* the last character was one.
Agree(s, v, fine, cont) ==
    /\ SameContext(s, v.x)
    /\ SameWord(s, v.x, v.q)
    /\ SamePlace(s, v.x, v.q)
    /\ fine => SameOffset(s, v, cont)
    /\ fine /\ DefiniteSoFar(v, s.flag) => SameArray(s, v)

\* The word in progress has become another, and nothing else has changed.
Grown(v2, v, word, flags) ==
    /\ v.x.within # "comment" /\ v2.x.within # "comment"
    /\ Len(v2.q) = Len(v.q) /\ Last(v2.q) = word
    /\ Len(v.q) # 1 => v2.q[1] = v.q[1]
    /\ Before(v2.q, flags) = Before(v.q, flags)
    /\ Earlier(v2.ls, flags) = Earlier(v.ls, flags)
    /\ DefiniteSoFar(v2, flags) => DefiniteSoFar(v, flags)

LEMMA SameGrows ==
    ASSUME NEW v, NEW v2, NEW flags, v2.ls = v.ls, v2.q = v.q,
           v.x.within # "comment", v2.x.within # "comment"
    PROVE  Grown(v2, v, Last(v.q), flags)
BY DEF Grown, DefiniteSoFar

LEMMA ContinueGrows ==
    ASSUME NEW flags, NEW v, IsView(v, flags), NEW e \in Symbol,
           NEW v2, v2.ls = Continue(v.ls, e), v2.q = Continue(v.q, e),
           v.x.within # "comment", v2.x.within # "comment"
    PROVE  Grown(v2, v, Append(Last(v.q), e), flags)
<1>1. v.ls \in Pieces /\ v.q \in Pieces
  BY DEF IsView
<1>2. /\ Len(v2.q) = Len(v.q) /\ Last(v2.q) = Append(Last(v.q), e)
      /\ \A k \in 1 .. Len(v.q) : k # Len(v.q) => v2.q[k] = v.q[k]
  BY <1>1, ContinuePieces
<1>3. /\ Len(v2.ls) = Len(v.ls)
      /\ \A k \in 1 .. Len(v.ls) : k # Len(v.ls) => v2.ls[k] = v.ls[k]
  BY <1>1, ContinuePieces
<1>4. Len(v.q) \in Nat \ {0} /\ Len(v.ls) \in Nat \ {0}
  BY <1>1, PiecesTyped
<1>5. Before(v2.q, flags) = Before(v.q, flags) /\ Earlier(v2.ls, flags) = Earlier(v.ls, flags)
  BY <1>1, BeforeContinue, EarlierContinue
<1>6. \A k \in 1 .. Len(v.q) - 1 : k \in 1 .. Len(v.q) /\ v2.q[k] = v.q[k]
  BY <1>2, <1>4
<1>7. \A k \in 1 .. Len(v.ls) - 1 : v2.ls[k] = v.ls[k]
  BY <1>3, <1>4
<1>8. DefiniteSoFar(v2, flags) => DefiniteSoFar(v, flags)
  <2>1. SUFFICES ASSUME DefiniteSoFar(v2, flags) PROVE DefiniteSoFar(v, flags)
    OBVIOUS
  <2>2. ASSUME NEW k \in 1 .. Len(v.ls) - 1 PROVE LineDefinite(v.ls[k], flags)
    <3>1. k \in 1 .. Len(v2.ls) - 1
      BY <1>3
    <3>2. LineDefinite(v2.ls[k], flags)
      BY <2>1, <3>1, Zenon DEF DefiniteSoFar
    <3> QED
      BY <1>7, <3>2
  <2>3. ASSUME NEW n \in 1 .. Len(v.q) - 1 PROVE PartDefinite(v.q[n], n, flags)
    <3>1. n \in 1 .. Len(v2.q) - 1
      BY <1>2
    <3>2. PartDefinite(v2.q[n], n, flags)
      BY <2>1, <3>1, Zenon DEF DefiniteSoFar
    <3> QED
      BY <1>6, <3>2
  <2> QED
    BY <2>2, <2>3, Zenon DEF DefiniteSoFar
<1>9. Len(v.q) # 1 => v2.q[1] = v.q[1]
  <2>1. \A n \in Nat \ {0} : n # 1 => 1 \in 1 .. n - 1
    OBVIOUS
  <2>2. Len(v.q) # 1 => 1 \in 1 .. Len(v.q) - 1
    BY <1>4, <2>1, Zenon
  <2> QED
    BY <1>6, <2>2, Zenon
<1> QED
  BY <1>2, <1>5, <1>8, <1>9 DEF Grown

\* What is to be shown when the word in progress grows.
Grows(r, s, v2, v, word) ==
    /\ Grown(v2, v, word, s.flag)
    /\ r.flag = s.flag /\ r.a = s.a /\ r.added_key = s.added_key /\ r.in_key = s.in_key
    /\ SameContext(r, v2.x)
    /\ WordSound(word)
    /\ Len(v.q) = 1 \/ "MULTI_VALUE" \in s.flag => Inner(word) = Spelled(word)
    /\ r.token = Cut(Spelled(word))
    /\ r.in_value /\ word = <<>> => v2.x.escaped
    /\ ~ r.in_key /\ ~ r.in_value => word = <<>> /\ ~ v2.x.escaped /\ v2.x.within = "line"

LEMMA GrownAgrees ==
    ASSUME NEW s, NEW v, NEW fine, NEW cont, Agree(s, v, fine, cont),
           NEW r, NEW v2, NEW word, NEW fine2, NEW cont2, Grows(r, s, v2, v, word),
           fine2 => fine,
           fine2 /\ Bare(r) /\ (r.in_key \/ r.in_value) => Spares(r, word, cont2)
    PROVE  Agree(r, v2, fine2, cont2)
<1>1. SameContext(r, v2.x)
  BY DEF Grows
<1>2. v.x.within # "comment" /\ v2.x.within # "comment" /\ Last(v2.q) = word
      /\ Len(v2.q) = Len(v.q) /\ r.flag = s.flag
  BY DEF Grows, Grown
<1>3. SameWord(r, v2.x, v2.q)
  BY <1>2 DEF Grows, SameWord
<1>4. SamePlace(r, v2.x, v2.q)
  <2>1. SamePlace(s, v.x, v.q)
    BY DEF Agree
  <2>2. /\ s.in_key = (Len(v.q) = 1)
        /\ s.added_key = (Len(v.q) # 1 /\ Shown(v.q[1]) # <<>>)
    BY <1>2, <2>1 DEF SamePlace
  <2>3. Len(v.q) # 1 => v2.q[1] = v.q[1]
    BY DEF Grows, Grown
  <2>4. r.in_key = s.in_key /\ r.added_key = s.added_key
    BY DEF Grows
  <2>5. /\ r.in_key = (Len(v2.q) = 1)
        /\ r.added_key = (Len(v2.q) # 1 /\ Shown(v2.q[1]) # <<>>)
    BY <1>2, <2>2, <2>3, <2>4
  <2> QED
    BY <1>2, <2>5 DEF Grows, SamePlace
<1>5. fine2 => SameOffset(r, v2, cont2)
  BY <1>2 DEF SameOffset
<1>6. fine2 /\ DefiniteSoFar(v2, r.flag) => SameArray(r, v2)
  <2>1. fine2 /\ DefiniteSoFar(v2, r.flag) => SameArray(s, v)
    BY <1>2 DEF Grows, Grown, Agree
  <2> QED
    BY <1>2, <2>1 DEF SameArray, Grows, Grown
<1> QED
  BY <1>1, <1>3, <1>4, <1>5, <1>6 DEF Agree

----------------------------------------------------------------------------
\* A word grows by a character, or by the mark of a quote.
LEMMA WordGrows ==
    ASSUME NEW old, WordSound(old), NEW e \in Symbol, e # Space
    PROVE  LET word == Append(old, e)
           IN  /\ WordSound(word) /\ word # <<>> /\ Inner(word) = Spelled(word)
               /\ Spelled(word) \in Seq(Sign) /\ Len(Spelled(word)) \in Nat
               /\ Spelled(old) \in Seq(Sign) /\ Len(Spelled(old)) \in Nat
               /\ e = Mark => Spelled(word) = Spelled(old)
               /\ e # Mark => Spelled(word) = Append(Spelled(old), e[2])
               /\ Whole(word) => /\ Len(Spelled(word)) <= max_token_pos
                                 /\ Cut(Spelled(word)) = Spelled(word)
                                 /\ Cut(Spelled(old)) = Spelled(old)
<1> DEFINE word == Append(old, e)
<1>1. old \in Seq(Symbol)
  BY DEF WordSound
<1>2. /\ WordSound(word) /\ Inner(word) = Spelled(word)
      /\ Spelled(word) = IF e = Mark THEN Spelled(old) ELSE Append(Spelled(old), e[2])
  BY InnerAppend
<1>3. word \in Seq(Symbol) /\ word # <<>>
  BY <1>1, AppendProperties
<1>4. /\ Spelled(word) \in Seq(Sign) /\ Len(Spelled(word)) \in Nat
      /\ Spelled(old) \in Seq(Sign) /\ Len(Spelled(old)) \in Nat
  BY <1>1, <1>3, InnerTyped
<1>5. Len(Spelled(old)) <= Len(Spelled(word))
  <2>1. e[2] \in Sign
    BY SymbolSigns
  <2> QED
    BY <1>2, <1>4, <2>1, AppendProperties
<1>6. Whole(word) <=> Len(Inner(word)) <= max_token_pos
  BY DEF Whole, Inner
<1> HIDE DEF word
<1>7. Whole(word) => /\ Len(Spelled(word)) <= max_token_pos
                     /\ Cut(Spelled(word)) = Spelled(word)
                     /\ Cut(Spelled(old)) = Spelled(old)
  BY <1>2, <1>4, <1>5, <1>6, BufferFits DEF Cut
<1> QED
  BY <1>2, <1>3, <1>4, <1>7 DEF word

\* One round of the loop
Round(s, v, c, fine, cont, fine2, cont2) ==
    /\ Sound(s) /\ IsView(v, s.flag) /\ c \in Character
    /\ Agree(s, v, fine, cont)
    /\ fine2 => fine /\ ~ (cont /\ c = BLANK)
    /\ cont2 = (v.x.escaped /\ v.x.within # "comment" /\ c = NEWLINE)

LEMMA RoundFacts ==
    ASSUME NEW s, NEW v, NEW c, NEW fine, NEW cont, NEW fine2, NEW cont2,
           Round(s, v, c, fine, cont, fine2, cont2)
    PROVE  /\ Sound(s) /\ c \in Character /\ IsView(v, s.flag)
           /\ v.x \in Surrounding /\ v.ls \in Pieces /\ v.q \in Pieces
           /\ SameContext(s, v.x) /\ SameWord(s, v.x, v.q) /\ SamePlace(s, v.x, v.q)
           /\ WordSound(Last(v.q))
           /\ v.x.within # "comment" =>
                /\ ~ s.in_comment
                /\ s.token = Cut(Spelled(Last(v.q)))
                /\ s.in_key = (Len(v.q) = 1)
                /\ ~ s.in_key /\ ~ s.in_value =>
                       Last(v.q) = <<>> /\ ~ v.x.escaped /\ v.x.within = "line"
                /\ s.in_value /\ Last(v.q) = <<>> => v.x.escaped
                /\ s.added_key = (Len(v.q) # 1 /\ Shown(v.q[1]) # <<>>)
           /\ Len(v.q) = 1 \/ "MULTI_VALUE" \in s.flag =>
                 Inner(Last(v.q)) = Spelled(Last(v.q))
           /\ Len(v.q) \in Nat \ {0}
<1>1. /\ Sound(s) /\ c \in Character /\ IsView(v, s.flag)
      /\ SameContext(s, v.x) /\ SameWord(s, v.x, v.q) /\ SamePlace(s, v.x, v.q)
  BY DEF Round, Agree
<1>2. v.x \in Surrounding /\ v.ls \in Pieces /\ v.q \in Pieces
  BY <1>1 DEF IsView
<1>3. Len(v.q) \in Nat \ {0}
  BY <1>2, PiecesTyped
<1>4. /\ WordSound(Last(v.q))
      /\ Len(v.q) = 1 \/ "MULTI_VALUE" \in s.flag => Inner(Last(v.q)) = Spelled(Last(v.q))
  BY <1>1 DEF SameWord
<1>5. v.x.within # "comment" =>
                /\ ~ s.in_comment
                /\ s.token = Cut(Spelled(Last(v.q)))
                /\ s.in_key = (Len(v.q) = 1)
                /\ ~ s.in_key /\ ~ s.in_value =>
                       Last(v.q) = <<>> /\ ~ v.x.escaped /\ v.x.within = "line"
                /\ s.in_value /\ Last(v.q) = <<>> => v.x.escaped
                /\ s.added_key = (Len(v.q) # 1 /\ Shown(v.q[1]) # <<>>)
  BY <1>1 DEF SameContext, SameWord, SamePlace
<1> QED
  BY <1>1, <1>2, <1>3, <1>4, <1>5

\* The view when the character stands for nothing, or continues the word
LEMMA NextViewQuiet ==
    ASSUME NEW v, NEW c, NEW flags, SymbolsOf(v.x, c) = <<>>
    PROVE  LET v2 == NextView(v, c, flags)
           IN  v2.x = Follow(v.x, c) /\ v2.ls = v.ls /\ v2.q = v.q
BY DEF NextView

LEMMA NextViewGrows ==
    ASSUME NEW v, NEW c, NEW flags, NEW e, SymbolsOf(v.x, c) = <<e>>,
           e # Space, e # LineEnd
    PROVE  LET v2 == NextView(v, c, flags)
           IN  /\ v2.x = Follow(v.x, c)
               /\ v2.ls = Continue(v.ls, e) /\ v2.q = Continue(v.q, e)
<1>1. SymbolsOf(v.x, c) # <<>> /\ SymbolsOf(v.x, c)[1] = e
  OBVIOUS
<1>2. NextLines(v.ls, e) = Continue(v.ls, e)
  BY DEF NextLines
<1>3. NextParts(v.q, e, flags) = Continue(v.q, e)
  BY Zenon DEF NextParts
<1> QED
  BY <1>1, <1>2, <1>3 DEF NextView

LEMMA LiteralSymbol ==
    ASSUME NEW c \in Character
    PROVE  /\ Literal(c) \in Symbol /\ Literal(c) # Space /\ Literal(c) # LineEnd
           /\ Literal(c) # Mark /\ Literal(c)[2] = c
           /\ Mark \in Symbol /\ Mark # Space /\ Mark # LineEnd
BY SymbolsDiffer DEF Symbol, Literal

\* An escaped character is part of the word, and whitespace no reason to trim it.
LEMMA EscapedAgrees ==
    ASSUME NEW s, NEW v, NEW c, NEW fine, NEW cont, NEW fine2, NEW cont2,
           Round(s, v, c, fine, cont, fine2, cont2),
           v.x.within # "comment", v.x.escaped
    PROVE  Agree(Handled(s, c), NextView(v, c, s.flag), fine2, cont2)
<1> DEFINE e    == IF c = NEWLINE THEN Mark ELSE Literal(c)
           old  == Last(v.q)
           word == Append(old, e)
           r    == Handled(s, c)
           v2   == NextView(v, c, s.flag)
<1>1. /\ Sound(s) /\ c \in Character /\ IsView(v, s.flag) /\ v.x \in Surrounding
      /\ SameContext(s, v.x) /\ WordSound(old) /\ ~ s.in_comment
      /\ s.token = Cut(Spelled(old)) /\ (s.in_key \/ s.in_value)
  BY RoundFacts
<1>2. s.in_escape
  BY <1>1 DEF SameContext
<1>3. e \in Symbol /\ e # Space /\ e # LineEnd
  BY <1>1, LiteralSymbol
<1>4. /\ SymbolsOf(v.x, c) = <<e>> /\ Within(Follow(v.x, c), v.x.within, FALSE)
  BY <1>1, InEscape
<1>5. v2.x = Follow(v.x, c) /\ v2.ls = Continue(v.ls, e) /\ v2.q = Continue(v.q, e)
  BY <1>3, <1>4, NextViewGrows
<1>6. v2.x.within = v.x.within /\ v2.x.escaped = FALSE
  BY <1>4, <1>5 DEF Within
<1>7. /\ r.flag = s.flag /\ r.a = s.a
      /\ r.token = IF c # NEWLINE /\ Len(s.token) < max_token_pos
                   THEN Append(s.token, c) ELSE s.token
      /\ r.in_comment = s.in_comment /\ r.in_quote = s.in_quote
      /\ r.in_key = s.in_key /\ r.in_value = s.in_value
      /\ r.added_key = s.added_key /\ ~ r.in_escape
      /\ r.last_escaped = IF c = BACKSLASH THEN 0 ELSE Len(s.token) + 1
      /\ Sound(r)
  BY <1>1, <1>2, HandledEscaped, HandledSound
<1>8. /\ WordSound(word) /\ word # <<>> /\ Inner(word) = Spelled(word)
      /\ Spelled(word) \in Seq(Sign) /\ Len(Spelled(word)) \in Nat
      /\ Spelled(old) \in Seq(Sign) /\ Len(Spelled(old)) \in Nat
      /\ e = Mark => Spelled(word) = Spelled(old)
      /\ e # Mark => Spelled(word) = Append(Spelled(old), e[2])
      /\ Whole(word) => /\ Len(Spelled(word)) <= max_token_pos
                        /\ Cut(Spelled(word)) = Spelled(word)
                        /\ Cut(Spelled(old)) = Spelled(old)
  BY <1>1, <1>3, WordGrows
<1>9. /\ c = NEWLINE => e = Mark
      /\ c # NEWLINE => e # Mark /\ e[2] = c
  BY <1>1, LiteralSymbol
<1>10. c \in Sign
  BY <1>1 DEF Sign
<1>11. Grown(v2, v, word, s.flag)
  BY <1>1, <1>3, <1>5, <1>6, ContinueGrows
<1>12. cont2 = (c = NEWLINE) /\ (fine2 => fine)
  BY DEF Round
<1> HIDE DEF e, r, v2, word, old
<1>13. r.token = Cut(Spelled(word))
  <2>1. CASE c = NEWLINE
    BY <1>1, <1>7, <1>8, <1>9, <2>1
  <2>2. CASE c # NEWLINE
    <3>1. Spelled(word) = Append(Spelled(old), c)
      BY <1>8, <1>9, <2>2
    <3>2. Cut(Append(Spelled(old), c)) = IF Len(Cut(Spelled(old))) < max_token_pos
                                         THEN Append(Cut(Spelled(old)), c)
                                         ELSE Cut(Spelled(old))
      BY <1>8, <1>10, CutAppend
    <3> QED
      BY <1>1, <1>7, <2>2, <3>1, <3>2
  <2> QED
    BY <2>1, <2>2
<1>14. SameContext(r, v2.x)
  <2>1. r.in_escape \in BOOLEAN
    BY <1>7 DEF Sound, Parser
  <2> QED
    BY <1>1, <1>6, <1>7, <2>1 DEF SameContext
<1>15. Grows(r, s, v2, v, word)
  BY <1>1, <1>7, <1>8, <1>11, <1>13, <1>14 DEF Grows
<1>16. Spares(r, word, cont2)
  <2>1. SUFFICES ASSUME Whole(word)
                 PROVE  /\ \/ r.last_escaped <= Len(Inner(word))
                           \/ cont2 /\ Len(Inner(word)) = Len(r.token)
                        /\ \/ r.last_escaped >= Len(Inner(word)) \/ Len(Inner(word)) = 0
                           \/ r.token[Len(Inner(word))] # BLANK
    BY DEF Spares
  <2>2. /\ s.token = Spelled(old) /\ r.token = Spelled(word) /\ Inner(word) = Spelled(word)
    BY <1>1, <1>8, <1>13, <2>1
  <2>3. CASE c = NEWLINE
    <3>1. c # BACKSLASH
      BY <2>3, CharactersDiffer
    <3>2. Spelled(word) = Spelled(old) /\ cont2
      BY <1>8, <1>9, <1>12, <2>3
    <3>3. r.last_escaped = Len(Spelled(word)) + 1
      BY <1>7, <2>2, <3>1, <3>2
    <3> QED
      BY <1>8, <2>2, <3>2, <3>3
  <2>4. CASE c # NEWLINE
    <3>1. Spelled(word) = Append(Spelled(old), c)
      BY <1>8, <1>9, <2>4
    <3>2. Len(Spelled(word)) = Len(Spelled(old)) + 1 /\ Spelled(word)[Len(Spelled(word))] = c
      BY <1>8, <1>10, <3>1, AppendProperties
    <3>3. CASE c = BACKSLASH
      <4>1. c # BLANK
        BY <3>3, CharactersDiffer
      <4> QED
        BY <1>7, <1>8, <2>2, <3>2, <3>3, <4>1
    <3>4. CASE c # BACKSLASH
      BY <1>7, <1>8, <2>2, <3>2, <3>4
    <3> QED
      BY <3>3, <3>4
  <2> QED
    BY <2>3, <2>4
<1>17. Agree(s, v, fine, cont)
  BY DEF Round
<1> QED
  BY <1>12, <1>15, <1>16, <1>17, GrownAgrees DEF r, v2

\* What shows of a token when a character is added to it
LEMMA TokenGrows ==
    ASSUME NEW old, WordSound(old), NEW c \in Character
    PROVE  /\ Cut(Spelled(Append(old, Literal(c)))) =
                IF Len(Cut(Spelled(old))) < max_token_pos
                THEN Append(Cut(Spelled(old)), c) ELSE Cut(Spelled(old))
           /\ Spelled(Append(old, Mark)) = Spelled(old)
<1>0. /\ Literal(c) \in Symbol /\ Literal(c) # Space /\ Literal(c) # Mark
      /\ Literal(c)[2] = c
  BY LiteralSymbol
<1>1. Spelled(Append(old, Literal(c))) = Append(Spelled(old), c)
  <2>1. Spelled(Append(old, Literal(c))) = Append(Spelled(old), Literal(c)[2])
    BY <1>0, WordGrows
  <2> QED
    BY <1>0, <2>1
<1>2. Spelled(old) \in Seq(Sign) /\ c \in Sign
  BY LiteralSymbol, WordGrows DEF Sign
<1>3. Spelled(Append(old, Mark)) = Spelled(old)
  BY LiteralSymbol, WordGrows
<1> QED
  BY <1>1, <1>2, <1>3, CutAppend

\* A quote closes: what is behind it may be trimmed, what is in it not.
LEMMA CloseAgrees ==
    ASSUME NEW s, NEW v, NEW c, NEW fine, NEW cont, NEW fine2, NEW cont2,
           Round(s, v, c, fine, cont, fine2, cont2), ~ v.x.escaped,
           <<v.x.within, c>> \in {<<"single", SINGLE>>, <<"double", DOUBLE>>}
    PROVE  Agree(Handled(s, c), NextView(v, c, s.flag), fine2, cont2)
<1> DEFINE old  == Last(v.q)
           word == Append(old, Mark)
           r    == Handled(s, c)
           v2   == NextView(v, c, s.flag)
<1>0. v.x.within \in {"single", "double"}
  OBVIOUS
<1>1. /\ Sound(s) /\ c \in Character /\ IsView(v, s.flag) /\ v.x \in Surrounding
      /\ SameContext(s, v.x) /\ WordSound(old) /\ ~ s.in_comment
      /\ s.token = Cut(Spelled(old)) /\ (s.in_key \/ s.in_value)
  BY <1>0, RoundFacts
<1>2. ~ s.in_escape /\ Closes(s, c)
  BY <1>1 DEF SameContext, Closes
<1>3. Mark \in Symbol /\ Mark # Space /\ Mark # LineEnd
  BY <1>1, LiteralSymbol
<1>4. SymbolsOf(v.x, c) = <<Mark>> /\ Within(Follow(v.x, c), "line", FALSE)
  BY <1>0, <1>1, InQuotes
<1>5. v2.x = Follow(v.x, c) /\ v2.ls = Continue(v.ls, Mark) /\ v2.q = Continue(v.q, Mark)
  BY <1>3, <1>4, NextViewGrows
<1>6. v2.x.within = "line" /\ v2.x.escaped = FALSE
  BY <1>4, <1>5 DEF Within
<1>7. /\ r.flag = s.flag /\ r.a = s.a /\ r.token = s.token
      /\ r.in_comment = s.in_comment /\ r.in_quote = NO_QUOTE
      /\ r.in_key = s.in_key /\ r.in_value = s.in_value
      /\ r.added_key = s.added_key /\ ~ r.in_escape
      /\ r.last_escaped = Len(s.token) /\ Sound(r)
  BY <1>1, <1>2, HandledClose, HandledSound
<1>8. /\ WordSound(word) /\ word # <<>> /\ Inner(word) = Spelled(word)
      /\ Len(Spelled(word)) \in Nat /\ Spelled(word) = Spelled(old)
      /\ Whole(word) => Cut(Spelled(word)) = Spelled(word)
  BY <1>1, <1>3, WordGrows
<1>9. Grown(v2, v, word, s.flag)
  BY <1>0, <1>1, <1>3, <1>5, <1>6, ContinueGrows
<1>10. fine2 => fine
  BY DEF Round
<1> HIDE DEF r, v2, word, old
<1>11. SameContext(r, v2.x)
  <2>1. r.in_escape \in BOOLEAN /\ r.in_comment \in BOOLEAN
    BY <1>7 DEF Sound, Parser
  <2> QED
    BY <1>1, <1>6, <1>7, <2>1 DEF SameContext
<1>12. Grows(r, s, v2, v, word)
  BY <1>1, <1>7, <1>8, <1>9, <1>11 DEF Grows
<1>13. Spares(r, word, cont2)
  <2>1. Whole(word) => r.last_escaped = Len(Inner(word))
    BY <1>1, <1>7, <1>8
  <2> QED
    BY <1>8, <2>1 DEF Spares
<1>14. Agree(s, v, fine, cont)
  BY DEF Round
<1> QED
  BY <1>10, <1>12, <1>13, <1>14, GrownAgrees DEF r, v2

\* Inside of quotes all characters are literal but for line ends, which are left
\* out.
LEMMA QuotedAgrees ==
    ASSUME NEW s, NEW v, NEW c, NEW fine, NEW cont, NEW fine2, NEW cont2,
           Round(s, v, c, fine, cont, fine2, cont2), ~ v.x.escaped,
           v.x.within \in {"single", "double"},
           <<v.x.within, c>> \notin {<<"single", SINGLE>>, <<"double", DOUBLE>>},
           ~ (v.x.within = "double" /\ c = BACKSLASH)
    PROVE  Agree(Handled(s, c), NextView(v, c, s.flag), fine2, cont2)
<1> DEFINE old  == Last(v.q)
           word == IF c = NEWLINE THEN old ELSE Append(old, Literal(c))
           r    == Handled(s, c)
           v2   == NextView(v, c, s.flag)
<1>1. /\ Sound(s) /\ c \in Character /\ IsView(v, s.flag) /\ v.x \in Surrounding
      /\ SameContext(s, v.x) /\ WordSound(old) /\ ~ s.in_comment
      /\ s.token = Cut(Spelled(old)) /\ (s.in_key \/ s.in_value)
      /\ s.in_value => old # <<>>
      /\ Len(v.q) = 1 \/ "MULTI_VALUE" \in s.flag => Inner(old) = Spelled(old)
  BY RoundFacts
<1>2. ~ s.in_escape /\ ~ Closes(s, c) /\ s.in_quote # NO_QUOTE
      /\ ~ (c = BACKSLASH /\ s.in_quote = DOUBLE_QUOTE)
  BY <1>1 DEF SameContext, Closes, NO_QUOTE, SINGLE_QUOTE, DOUBLE_QUOTE
<1>3. /\ SymbolsOf(v.x, c) = IF c = NEWLINE THEN <<>> ELSE <<Literal(c)>>
      /\ Within(Follow(v.x, c), v.x.within, FALSE)
  BY <1>1, InQuotes
<1>4. /\ r.flag = s.flag /\ r.a = s.a
      /\ r.token = IF c # NEWLINE /\ Len(s.token) < max_token_pos
                   THEN Append(s.token, c) ELSE s.token
      /\ r.in_comment = s.in_comment /\ r.in_quote = s.in_quote
      /\ r.in_key = s.in_key /\ r.in_value = s.in_value
      /\ r.added_key = s.added_key /\ ~ r.in_escape /\ Sound(r)
  BY <1>1, <1>2, HandledQuoted, HandledSound
<1>5. /\ v2.x.within = v.x.within /\ v2.x.escaped = FALSE
      /\ Grown(v2, v, word, s.flag)
  <2>1. CASE c = NEWLINE
    <3>1. v2.x = Follow(v.x, c) /\ v2.ls = v.ls /\ v2.q = v.q
      BY <1>3, <2>1, NextViewQuiet
    <3>2. v2.x.within = v.x.within /\ v2.x.escaped = FALSE
      BY <1>3, <3>1 DEF Within
    <3> HIDE DEF v2
    <3> QED
      BY <2>1, <3>1, <3>2, SameGrows
  <2>2. CASE c # NEWLINE
    <3>1. Literal(c) \in Symbol /\ Literal(c) # Space /\ Literal(c) # LineEnd
      BY <1>1, LiteralSymbol
    <3>2. /\ v2.x = Follow(v.x, c)
          /\ v2.ls = Continue(v.ls, Literal(c)) /\ v2.q = Continue(v.q, Literal(c))
      BY <1>3, <2>2, <3>1, NextViewGrows
    <3>3. v2.x.within = v.x.within /\ v2.x.escaped = FALSE
      BY <1>3, <3>2 DEF Within
    <3> HIDE DEF v2
    <3> QED
      BY <1>1, <2>2, <3>1, <3>2, <3>3, ContinueGrows
  <2> QED
    BY <2>1, <2>2
<1>6. /\ WordSound(word) /\ r.token = Cut(Spelled(word))
      /\ Len(v.q) = 1 \/ "MULTI_VALUE" \in s.flag => Inner(word) = Spelled(word)
      /\ r.in_value => word # <<>>
  <2> HIDE DEF r, v2
  <2>1. CASE c = NEWLINE
    BY <1>1, <1>4, <2>1
  <2>2. CASE c # NEWLINE
    <3>1. Literal(c) \in Symbol /\ Literal(c) # Space
      BY <1>1, LiteralSymbol
    <3>2. WordSound(word) /\ Inner(word) = Spelled(word) /\ word # <<>>
      BY <1>1, <2>2, <3>1, WordGrows
    <3>3. r.token = Cut(Spelled(word))
      <4>1. Cut(Spelled(Append(old, Literal(c)))) =
                IF Len(Cut(Spelled(old))) < max_token_pos
                THEN Append(Cut(Spelled(old)), c) ELSE Cut(Spelled(old))
        BY <1>1, TokenGrows
      <4>2. word = Append(old, Literal(c))
        BY <2>2
      <4> HIDE DEF word, old
      <4> QED
        BY <1>1, <1>4, <2>2, <4>1, <4>2
    <3> QED
      BY <3>2, <3>3
  <2> QED
    BY <2>1, <2>2
<1>7. fine2 => fine
  BY DEF Round
<1> HIDE DEF r, v2, word, old
<1>8. SameContext(r, v2.x)
  <2>1. r.in_escape \in BOOLEAN /\ r.in_comment \in BOOLEAN
    BY <1>4 DEF Sound, Parser
  <2> QED
    BY <1>1, <1>4, <1>5, <2>1 DEF SameContext
<1>9. Grows(r, s, v2, v, word)
  BY <1>1, <1>4, <1>5, <1>6, <1>8 DEF Grows
<1>10. ~ Bare(r)
  BY <1>2, <1>4 DEF Bare
<1>11. Agree(s, v, fine, cont)
  BY DEF Round
<1> QED
  BY <1>7, <1>9, <1>10, <1>11, GrownAgrees DEF r, v2

\* A backslash escapes, in a line and in double quotes.
LEMMA BackslashAgrees ==
    ASSUME NEW s, NEW v, NEW fine, NEW cont, NEW fine2, NEW cont2,
           Round(s, v, BACKSLASH, fine, cont, fine2, cont2), ~ v.x.escaped,
           v.x.within \in {"line", "double"}
    PROVE  Agree(Handled(s, BACKSLASH), NextView(v, BACKSLASH, s.flag), fine2, cont2)
<1> DEFINE old  == Last(v.q)
           r    == Handled(s, BACKSLASH)
           v2   == NextView(v, BACKSLASH, s.flag)
<1>1. /\ Sound(s) /\ BACKSLASH \in Character /\ v.x \in Surrounding
      /\ SameContext(s, v.x) /\ WordSound(old) /\ ~ s.in_comment
      /\ s.token = Cut(Spelled(old))
      /\ Len(v.q) = 1 \/ "MULTI_VALUE" \in s.flag => Inner(old) = Spelled(old)
  BY RoundFacts
<1>2. ~ s.in_escape /\ s.in_quote # SINGLE_QUOTE
  BY <1>1 DEF SameContext, NO_QUOTE, SINGLE_QUOTE, DOUBLE_QUOTE
<1>3. SymbolsOf(v.x, BACKSLASH) = <<>> /\ Within(Follow(v.x, BACKSLASH), v.x.within, TRUE)
  <2>1. CASE v.x.within = "line"
    BY <1>1, <2>1, InLine
  <2>2. CASE v.x.within = "double"
    <3>1. BACKSLASH # DOUBLE
      BY CharactersDiffer
    <3> QED
      BY <1>1, <2>2, <3>1, InQuotes
  <2> QED
    BY <2>1, <2>2
<1>4. v2.x = Follow(v.x, BACKSLASH) /\ v2.ls = v.ls /\ v2.q = v.q
  BY <1>3, NextViewQuiet
<1>5. v2.x.within = v.x.within /\ v2.x.escaped = TRUE
  BY <1>3, <1>4 DEF Within
<1>6. /\ Begun(r, s) /\ r.in_escape /\ r.in_quote = s.in_quote /\ r.token = s.token
      /\ Sound(r)
  BY <1>1, <1>2, HandledBackslash, HandledSound
<1>7. fine2 => fine
  BY DEF Round
<1> HIDE DEF r, v2, old
<1>8. Grown(v2, v, old, s.flag)
  BY <1>4, <1>5, SameGrows DEF old
<1>9. SameContext(r, v2.x)
  <2>1. r.in_escape \in BOOLEAN /\ r.in_comment \in BOOLEAN
    BY <1>6 DEF Sound, Parser
  <2> QED
    BY <1>1, <1>5, <1>6, <2>1 DEF SameContext, Begun
<1>10. Grows(r, s, v2, v, old)
  <2>1. r.in_key \/ r.in_value
    BY <1>6 DEF Begun
  <2> QED
    BY <1>1, <1>5, <1>6, <1>8, <1>9, <2>1 DEF Grows, Begun
<1>11. ~ Bare(r)
  BY <1>6 DEF Bare
<1>12. Agree(s, v, fine, cont)
  BY DEF Round
<1> QED
  BY <1>7, <1>10, <1>11, <1>12, GrownAgrees DEF r, v2

\* A quote opens, and a word is here even if nothing is in the quotes.
LEMMA OpenAgrees ==
    ASSUME NEW s, NEW v, NEW c, NEW fine, NEW cont, NEW fine2, NEW cont2,
           Round(s, v, c, fine, cont, fine2, cont2), ~ v.x.escaped,
           v.x.within = "line", c \in {SINGLE, DOUBLE}
    PROVE  Agree(Handled(s, c), NextView(v, c, s.flag), fine2, cont2)
<1> DEFINE old  == Last(v.q)
           word == Append(old, Mark)
           mark == IF c = SINGLE THEN SINGLE_QUOTE ELSE DOUBLE_QUOTE
           r    == Handled(s, c)
           v2   == NextView(v, c, s.flag)
<1>1. /\ Sound(s) /\ c \in Character /\ IsView(v, s.flag) /\ v.x \in Surrounding
      /\ SameContext(s, v.x) /\ WordSound(old) /\ ~ s.in_comment
      /\ s.token = Cut(Spelled(old))
  BY RoundFacts
<1>2. Bare(s)
  BY <1>1 DEF SameContext, Bare
<1>3. Mark \in Symbol /\ Mark # Space /\ Mark # LineEnd
  BY <1>1, LiteralSymbol
<1>4. SymbolsOf(v.x, c) = <<Mark>>
      /\ Within(Follow(v.x, c), IF c = SINGLE THEN "single" ELSE "double", FALSE)
  <2>1. SINGLE # DOUBLE
    BY CharactersDiffer
  <2> QED
    BY <1>1, <2>1, InLine
<1>5. v2.x = Follow(v.x, c) /\ v2.ls = Continue(v.ls, Mark) /\ v2.q = Continue(v.q, Mark)
  BY <1>3, <1>4, NextViewGrows
<1>6. v2.x.within = (IF c = SINGLE THEN "single" ELSE "double") /\ v2.x.escaped = FALSE
  BY <1>4, <1>5 DEF Within
<1>7. Begun(r, s) /\ ~ r.in_escape /\ r.in_quote = mark /\ r.token = s.token /\ Sound(r)
  <2>1. <<mark, c>> \in {<<SINGLE_QUOTE, SINGLE>>, <<DOUBLE_QUOTE, DOUBLE>>}
    OBVIOUS
  <2> HIDE DEF mark
  <2> QED
    BY <1>1, <1>2, <2>1, HandledOpen, HandledSound
<1>8. /\ WordSound(word) /\ word # <<>> /\ Inner(word) = Spelled(word)
      /\ Spelled(word) = Spelled(old)
  BY <1>1, <1>3, WordGrows
<1>9. Grown(v2, v, word, s.flag)
  <2>1. v.x.within # "comment" /\ v2.x.within # "comment"
    BY <1>6
  <2> HIDE DEF v2
  <2> QED
    BY <1>1, <1>3, <1>5, <2>1, ContinueGrows
<1>10. fine2 => fine
  BY DEF Round
<1> HIDE DEF r, v2, word, old
<1>11. SameContext(r, v2.x)
  <2>1. r.in_escape \in BOOLEAN /\ r.in_comment \in BOOLEAN
    BY <1>7 DEF Sound, Parser
  <2> QED
    BY <1>1, <1>6, <1>7, <2>1 DEF SameContext, Begun
<1>12. Grows(r, s, v2, v, word)
  <2>1. r.in_key \/ r.in_value
    BY <1>7 DEF Begun
  <2> QED
    BY <1>1, <1>7, <1>8, <1>9, <1>11, <2>1 DEF Grows, Begun
<1>13. ~ Bare(r)
  BY <1>7 DEF Bare, NO_QUOTE, SINGLE_QUOTE, DOUBLE_QUOTE
<1>14. Agree(s, v, fine, cont)
  BY DEF Round
<1> QED
  BY <1>10, <1>12, <1>13, <1>14, GrownAgrees DEF r, v2

\* Any other character is itself.
LEMMA OtherAgrees ==
    ASSUME NEW s, NEW v, NEW c, NEW fine, NEW cont, NEW fine2, NEW cont2,
           Round(s, v, c, fine, cont, fine2, cont2), ~ v.x.escaped,
           v.x.within = "line", c \in Other
    PROVE  Agree(Handled(s, c), NextView(v, c, s.flag), fine2, cont2)
<1> DEFINE old  == Last(v.q)
           word == Append(old, Literal(c))
           r    == Handled(s, c)
           v2   == NextView(v, c, s.flag)
<1>1. /\ Sound(s) /\ c \in Character /\ IsView(v, s.flag) /\ v.x \in Surrounding
      /\ SameContext(s, v.x) /\ WordSound(old) /\ ~ s.in_comment
      /\ s.token = Cut(Spelled(old))
  BY RoundFacts
<1>2. Bare(s)
  BY <1>1 DEF SameContext, Bare
<1>3. /\ Literal(c) \in Symbol /\ Literal(c) # Space /\ Literal(c) # LineEnd
      /\ Literal(c) # Mark /\ Literal(c)[2] = c
  BY <1>1, LiteralSymbol
<1>4. SymbolsOf(v.x, c) = <<Literal(c)>> /\ Within(Follow(v.x, c), "line", FALSE)
  BY <1>1, InLine
<1>5. /\ v2.x = Follow(v.x, c)
      /\ v2.ls = Continue(v.ls, Literal(c)) /\ v2.q = Continue(v.q, Literal(c))
  BY <1>3, <1>4, NextViewGrows
<1>6. v2.x.within = "line" /\ v2.x.escaped = FALSE
  BY <1>4, <1>5 DEF Within
<1>7. /\ Begun(r, s) /\ ~ r.in_escape /\ r.in_quote = NO_QUOTE
      /\ r.token = IF Len(s.token) < max_token_pos THEN Append(s.token, c) ELSE s.token
      /\ r.last_escaped = 0 /\ Sound(r)
  BY <1>1, <1>2, HandledOther, HandledSound
<1>8. /\ WordSound(word) /\ word # <<>> /\ Inner(word) = Spelled(word)
      /\ Len(Spelled(word)) \in Nat /\ Spelled(old) \in Seq(Sign)
      /\ Spelled(word) = Append(Spelled(old), c)
      /\ Whole(word) => Cut(Spelled(word)) = Spelled(word)
  <2>1. Spelled(word) = Append(Spelled(old), Literal(c)[2])
    BY <1>1, <1>3, WordGrows
  <2> QED
    BY <1>1, <1>3, <2>1, WordGrows
<1>9. Grown(v2, v, word, s.flag)
  <2>1. v.x.within # "comment" /\ v2.x.within # "comment"
    BY <1>6
  <2> HIDE DEF v2
  <2> QED
    BY <1>1, <1>3, <1>5, <2>1, ContinueGrows
<1>10. r.token = Cut(Spelled(word))
  <2>1. Cut(Spelled(word)) = IF Len(Cut(Spelled(old))) < max_token_pos
                             THEN Append(Cut(Spelled(old)), c) ELSE Cut(Spelled(old))
    BY <1>1, TokenGrows
  <2> HIDE DEF r, v2, word, old
  <2> QED
    BY <1>1, <1>7, <2>1
<1>11. fine2 => fine
  BY DEF Round
<1> HIDE DEF r, v2, word, old
<1>12. SameContext(r, v2.x)
  <2>1. r.in_escape \in BOOLEAN /\ r.in_comment \in BOOLEAN
    BY <1>7 DEF Sound, Parser
  <2> QED
    BY <1>1, <1>6, <1>7, <2>1 DEF SameContext, Begun
<1>13. Grows(r, s, v2, v, word)
  <2>1. r.in_key \/ r.in_value
    BY <1>7 DEF Begun
  <2> QED
    BY <1>1, <1>7, <1>8, <1>9, <1>10, <1>12, <2>1 DEF Grows, Begun
<1>14. Spares(r, word, cont2)
  <2>1. c # BLANK
    BY CharactersDiffer DEF Special
  <2>2. c \in Sign
    BY <1>1 DEF Sign
  <2>3. Len(Spelled(word)) = Len(Spelled(old)) + 1 /\ Spelled(word)[Len(Spelled(word))] = c
    BY <1>8, <2>2, AppendProperties
  <2>4. Whole(word) => r.token = Spelled(word)
    BY <1>8, <1>10
  <2> QED
    BY <1>7, <1>8, <2>1, <2>3, <2>4 DEF Spares
<1>15. Agree(s, v, fine, cont)
  BY DEF Round
<1> QED
  BY <1>11, <1>13, <1>14, <1>15, GrownAgrees DEF r, v2

----------------------------------------------------------------------------
\* What was definite before whitespace in front of a value
LEMMA SkipGrows ==
    ASSUME NEW flags, NEW v, IsView(v, flags), NEW e \in Symbol,
           NEW v2, v2.ls = Continue(v.ls, e), v2.q = v.q,
           v.x.within # "comment", v2.x.within # "comment"
    PROVE  Grown(v2, v, Last(v.q), flags)
<1>1. v.ls \in Pieces
  BY DEF IsView
<1>2. /\ Len(v2.ls) = Len(v.ls)
      /\ \A k \in 1 .. Len(v.ls) : k # Len(v.ls) => v2.ls[k] = v.ls[k]
  BY <1>1, ContinuePieces
<1>3. Len(v.ls) \in Nat \ {0}
  BY <1>1, PiecesTyped
<1>4. Earlier(v2.ls, flags) = Earlier(v.ls, flags)
  BY <1>1, EarlierContinue
<1>5. \A k \in 1 .. Len(v.ls) - 1 : v2.ls[k] = v.ls[k]
  BY <1>2, <1>3
<1>6. DefiniteSoFar(v2, flags) => DefiniteSoFar(v, flags)
  <2>1. SUFFICES ASSUME DefiniteSoFar(v2, flags) PROVE DefiniteSoFar(v, flags)
    OBVIOUS
  <2>2. ASSUME NEW k \in 1 .. Len(v.ls) - 1 PROVE LineDefinite(v.ls[k], flags)
    <3>1. k \in 1 .. Len(v2.ls) - 1
      BY <1>2
    <3>2. LineDefinite(v2.ls[k], flags)
      BY <2>1, <3>1, Zenon DEF DefiniteSoFar
    <3> QED
      BY <1>5, <3>2
  <2>3. \A n \in 1 .. Len(v.q) - 1 : PartDefinite(v.q[n], n, flags)
    BY <2>1 DEF DefiniteSoFar
  <2> QED
    BY <2>2, <2>3, Zenon DEF DefiniteSoFar
<1> QED
  BY <1>4, <1>6 DEF Grown

\* What the whitespace behind a part makes of the view
LEMMA NextViewEnds ==
    ASSUME NEW flags, NEW v, IsView(v, flags), v.x.within = "line", ~ v.x.escaped,
           Len(v.q) = 1 \/ "MULTI_VALUE" \in flags
    PROVE  LET v2 == NextView(v, BLANK, flags)
           IN  /\ Within(v2.x, "line", FALSE)
               /\ Len(v2.q) = Len(v.q) + 1 /\ Last(v2.q) = <<>> /\ v2.q[1] = v.q[1]
               /\ Before(v2.q, flags) = Before(v.q, flags)
                                          \o EntryOf(Last(v.q), Len(v.q), flags)
               /\ Earlier(v2.ls, flags) = Earlier(v.ls, flags)
               /\ DefiniteSoFar(v2, flags) =>
                    DefiniteSoFar(v, flags) /\ PartDefinite(Last(v.q), Len(v.q), flags)
<1> DEFINE v2 == NextView(v, BLANK, flags)
<1>1. v.x \in Surrounding /\ v.ls \in Pieces /\ v.q \in Pieces
  BY DEF IsView
<1>2. BLANK \in Character
  BY DEF Character, Special
<1>3. SymbolsOf(v.x, BLANK) = <<Space>> /\ Within(Follow(v.x, BLANK), "line", FALSE)
  BY <1>1, <1>2, InLine
<1>4. Space # LineEnd /\ Space \in Symbol
  BY SymbolsDiffer DEF Symbol
<1>5. NextParts(v.q, Space, flags) = Append(v.q, <<>>)
  BY Zenon DEF NextParts
<1>6. NextLines(v.ls, Space) = Continue(v.ls, Space)
  BY <1>4 DEF NextLines
<1>7. Within(v2.x, "line", FALSE) /\ v2.ls = Continue(v.ls, Space) /\ v2.q = Append(v.q, <<>>)
  <2>1. <<Space>> # <<>> /\ <<Space>>[1] = Space
    OBVIOUS
  <2>2. /\ v2.x = Follow(v.x, BLANK) /\ v2.ls = NextLines(v.ls, Space)
        /\ v2.q = NextParts(v.q, Space, flags)
    BY <1>3, <1>4, <2>1 DEF NextView
  <2> QED
    BY <1>3, <1>5, <1>6, <2>2
<1> HIDE DEF v2
<1>8. /\ Len(v2.q) = Len(v.q) + 1 /\ Last(v2.q) = <<>>
      /\ \A k \in 1 .. Len(v.q) : v2.q[k] = v.q[k]
      /\ Len(v.q) \in Nat \ {0} /\ Last(v.q) = v.q[Len(v.q)]
  BY <1>1, <1>7, AppendPiece, PiecesTyped
<1>9. Before(v2.q, flags) = Before(v.q, flags) \o EntryOf(Last(v.q), Len(v.q), flags)
  BY <1>1, <1>7, BeforeAppend
<1>10. /\ Len(v2.ls) = Len(v.ls) /\ Len(v.ls) \in Nat \ {0}
       /\ \A k \in 1 .. Len(v.ls) : k # Len(v.ls) => v2.ls[k] = v.ls[k]
       /\ Earlier(v2.ls, flags) = Earlier(v.ls, flags)
  <2>1. /\ Len(v2.ls) = Len(v.ls)
        /\ \A k \in 1 .. Len(v.ls) : k # Len(v.ls) => v2.ls[k] = v.ls[k]
    BY <1>1, <1>4, <1>7, ContinuePieces
  <2>2. Len(v.ls) \in Nat \ {0}
    BY <1>1, PiecesTyped
  <2>3. Earlier(v2.ls, flags) = Earlier(v.ls, flags)
    BY <1>1, <1>4, <1>7, EarlierContinue
  <2> QED
    BY <2>1, <2>2, <2>3
<1>11. ASSUME DefiniteSoFar(v2, flags)
       PROVE  DefiniteSoFar(v, flags) /\ PartDefinite(Last(v.q), Len(v.q), flags)
  <2>1. ASSUME NEW k \in 1 .. Len(v.ls) - 1 PROVE LineDefinite(v.ls[k], flags)
    <3>1. k \in 1 .. Len(v2.ls) - 1 /\ v2.ls[k] = v.ls[k]
      BY <1>10
    <3>2. LineDefinite(v2.ls[k], flags)
      BY <1>11, <3>1, Zenon DEF DefiniteSoFar
    <3> QED
      BY <3>1, <3>2
  <2>2. ASSUME NEW n \in 1 .. Len(v.q) PROVE PartDefinite(v.q[n], n, flags)
    <3>1. n \in 1 .. Len(v2.q) - 1 /\ v2.q[n] = v.q[n]
      BY <1>8
    <3>2. PartDefinite(v2.q[n], n, flags)
      BY <1>11, <3>1, Zenon DEF DefiniteSoFar
    <3> QED
      BY <3>1, <3>2
  <2>3. \A n \in 1 .. Len(v.q) - 1 : n \in 1 .. Len(v.q)
    BY <1>8
  <2>4. Len(v.q) \in 1 .. Len(v.q)
    BY <1>8
  <2>5. PartDefinite(Last(v.q), Len(v.q), flags)
    BY <1>8, <2>2, <2>4
  <2>6. \A n \in 1 .. Len(v.q) - 1 : PartDefinite(v.q[n], n, flags)
    BY <2>2, <2>3
  <2> QED
    BY <2>1, <2>5, <2>6, Zenon DEF DefiniteSoFar
<1>12. v2.q[1] = v.q[1]
  BY <1>8
<1> QED
  BY <1>7, <1>8, <1>9, <1>10, <1>11, <1>12 DEF v2

\* What the parser adds when the word in progress ends
LEMMA WordEnds ==
    ASSUME NEW s, NEW v, NEW c, NEW fine, NEW cont, NEW fine2, NEW cont2,
           Round(s, v, c, fine, cont, fine2, cont2),
           v.x.within = "line", ~ v.x.escaped
    PROVE  /\ AddsKey(s) = (Shown(v.q[1]) # <<>>)
           /\ fine2 /\ DefiniteSoFar(v, s.flag) /\ PartDefinite(Last(v.q), Len(v.q), s.flag) =>
                Added(s) = Earlier(v.ls, s.flag)
                            \o (Before(v.q, s.flag) \o EntryOf(Last(v.q), Len(v.q), s.flag))
<1> DEFINE old == Last(v.q)
<1>1. /\ Sound(s) /\ SameContext(s, v.x) /\ WordSound(old)
      /\ v.ls \in Pieces /\ v.q \in Pieces
      /\ s.token = Cut(Spelled(old)) /\ s.in_key = (Len(v.q) = 1)
      /\ ~ s.in_key /\ ~ s.in_value => old = <<>>
      /\ s.in_value => old # <<>>
      /\ s.added_key = (Len(v.q) # 1 /\ Shown(v.q[1]) # <<>>)
      /\ Len(v.q) = 1 => Inner(old) = Spelled(old)
      /\ Len(v.q) \in Nat \ {0} /\ old = v.q[Len(v.q)]
  BY RoundFacts, PiecesTyped
<1>2. Bare(s)
  BY <1>1 DEF SameContext, Bare
<1>3. /\ old \in Seq(Symbol) /\ Shown(old) = Cut(Inner(old))
  BY <1>1, ShownTyped DEF WordSound
<1>4. /\ fine2 => fine
      /\ fine => SameOffset(s, v, cont)
      /\ fine /\ DefiniteSoFar(v, s.flag) => SameArray(s, v)
  BY DEF Round, Agree
<1>5. /\ Earlier(v.ls, s.flag) \in Seq(Written) /\ Before(v.q, s.flag) \in Seq(Written)
      /\ EntryOf(old, Len(v.q), s.flag) \in Seq(Written)
  BY <1>1, EarlierAll, AllSplits
<1> HIDE DEF old
<1>6. AddsKey(s) = (Shown(v.q[1]) # <<>>)
  <2>1. CASE Len(v.q) = 1
    <3>1. Shown(v.q[1]) = s.token /\ s.in_key /\ ~ s.added_key
      BY <1>1, <1>3, <2>1
    <3> QED
      BY <3>1 DEF AddsKey
  <2>2. CASE Len(v.q) # 1
    BY <1>1, <2>2 DEF AddsKey
  <2> QED
    BY <2>1, <2>2
<1>7. ASSUME fine2, DefiniteSoFar(v, s.flag), PartDefinite(old, Len(v.q), s.flag)
      PROVE  Added(s) = Earlier(v.ls, s.flag)
                          \o (Before(v.q, s.flag) \o EntryOf(old, Len(v.q), s.flag))
  <2>1. s.a = Earlier(v.ls, s.flag) \o Before(v.q, s.flag)
    BY <1>4, <1>7 DEF SameArray
  <2>2. Added(s) = s.a \o EntryOf(old, Len(v.q), s.flag)
    <3>1. CASE s.in_key \/ s.in_value
      <4>1. Spares(s, old, cont)
        BY <1>2, <1>4, <1>7, <3>1 DEF SameOffset, old
      <4>2. s.in_key <=> Len(v.q) = 1
        BY <1>1
      <4>3. s.in_key => Inner(old) = Spelled(old)
        BY <1>1
      <4>4. /\ Sound(s) /\ WordSound(old) /\ s.token = Cut(Spelled(old))
            /\ s.in_value => old # <<>>
        BY <1>1
      <4>5. PartDefinite(old, Len(v.q), s.flag)
        BY <1>7
      <4> QED
        BY <3>1, <4>1, <4>2, <4>3, <4>4, <4>5, AddsEntry, Zenon
    <3>2. CASE ~ (s.in_key \/ s.in_value)
      <4>1. EntryOf(old, Len(v.q), s.flag) = <<>>
        BY <1>1, <3>2 DEF EntryOf
      <4>2. Added(s) = s.a
        BY <3>2 DEF Added
      <4>3. s.a \in Seq(Entry)
        BY <1>1, ParserFields DEF Sound
      <4> QED
        BY <4>1, <4>2, <4>3, ConcatEmptySeq
    <3> QED
      BY <3>1, <3>2
  <2> DEFINE A == Earlier(v.ls, s.flag)
             B == Before(v.q, s.flag)
             E == EntryOf(old, Len(v.q), s.flag)
  <2>3. A \in Seq(Written) /\ B \in Seq(Written) /\ E \in Seq(Written)
    BY <1>5
  <2> HIDE DEF A, B, E
  <2>4. (A \o B) \o E = A \o (B \o E)
    BY <2>3, ConcatAssociative
  <2> QED
    BY <2>1, <2>2, <2>4 DEF A, B, E
<1> QED
  BY <1>6, <1>7 DEF old

\* Whitespace ends the key, and a value that is a word.
LEMMA BlankEndsAgrees ==
    ASSUME NEW s, NEW v, NEW fine, NEW cont, NEW fine2, NEW cont2,
           Round(s, v, BLANK, fine, cont, fine2, cont2), ~ v.x.escaped,
           v.x.within = "line", Len(v.q) = 1 \/ "MULTI_VALUE" \in s.flag
    PROVE  Agree(Handled(s, BLANK), NextView(v, BLANK, s.flag), fine2, cont2)
<1> DEFINE old == Last(v.q)
           r   == Handled(s, BLANK)
           v2  == NextView(v, BLANK, s.flag)
<1>1. /\ Sound(s) /\ BLANK \in Character /\ IsView(v, s.flag) /\ SameContext(s, v.x)
      /\ v.ls \in Pieces /\ v.q \in Pieces /\ ~ s.in_comment
      /\ s.token = Cut(Spelled(old)) /\ s.in_key = (Len(v.q) = 1)
      /\ ~ s.in_key /\ ~ s.in_value => old = <<>>
      /\ Len(v.q) \in Nat \ {0}
  BY RoundFacts
<1>2. Bare(s)
  BY <1>1 DEF SameContext, Bare
<1>3. /\ Within(v2.x, "line", FALSE)
      /\ Len(v2.q) = Len(v.q) + 1 /\ Last(v2.q) = <<>> /\ v2.q[1] = v.q[1]
      /\ Before(v2.q, s.flag) = Before(v.q, s.flag) \o EntryOf(old, Len(v.q), s.flag)
      /\ Earlier(v2.ls, s.flag) = Earlier(v.ls, s.flag)
      /\ DefiniteSoFar(v2, s.flag) =>
            DefiniteSoFar(v, s.flag) /\ PartDefinite(old, Len(v.q), s.flag)
  BY <1>1, NextViewEnds
<1>4. /\ r.flag = s.flag
      /\ r.a = IF Stops(s) THEN Added(s) ELSE s.a
      /\ r.token = IF Stops(s) THEN <<>>
                   ELSE IF s.in_value /\ Len(s.token) < max_token_pos
                   THEN Append(s.token, BLANK) ELSE s.token
      /\ ~ r.in_comment /\ ~ r.in_escape /\ r.in_quote = NO_QUOTE
      /\ ~ r.in_key /\ r.in_value = (s.in_value /\ ~ Stops(s))
      /\ r.added_key = AddsKey(s) /\ Sound(r)
  BY <1>1, <1>2, HandledBlank, HandledSound
<1>5. /\ AddsKey(s) = (Shown(v.q[1]) # <<>>)
      /\ fine2 /\ DefiniteSoFar(v2, s.flag) =>
            Added(s) = Earlier(v2.ls, s.flag) \o Before(v2.q, s.flag)
  BY <1>3, WordEnds
<1> HIDE DEF r, v2, old
<1>6. s.in_value => Stops(s)
  BY <1>1 DEF Stops
<1>7. ~ Stops(s) => ~ s.in_key /\ ~ s.in_value /\ old = <<>>
  BY <1>1, <1>6 DEF Stops
<1>8. r.token = <<>>
  <2>1. old = <<>> => s.token = <<>>
    BY <1>1, InnerEmpty, BufferFits DEF Cut
  <2> QED
    BY <1>4, <1>7, <2>1
<1>9. r.a = Added(s)
  BY <1>4, <1>7 DEF Added, Stops
<1>10. ~ r.in_value
  BY <1>4, <1>6
<1>11. v2.x.within = "line" /\ v2.x.escaped = FALSE
  BY <1>3 DEF Within
<1>12. SameContext(r, v2.x)
  <2>1. r.in_escape \in BOOLEAN /\ r.in_comment \in BOOLEAN
    BY <1>4 DEF Sound, Parser
  <2> QED
    BY <1>4, <1>11, <2>1 DEF SameContext
<1>13. SameWord(r, v2.x, v2.q)
  <2>1. Cut(<<>>) = <<>>
    BY BufferFits DEF Cut
  <2> QED
    BY <1>3, <1>8, <1>11, <2>1, InnerEmpty DEF SameWord
<1>14. SamePlace(r, v2.x, v2.q)
  <2>1. Len(v2.q) # 1
    BY <1>1, <1>3
  <2>2. r.in_key = (Len(v2.q) = 1)
    <3>1. r.in_key \in BOOLEAN
      BY <1>4 DEF Sound, Parser
    <3> QED
      BY <1>4, <2>1, <3>1
  <2>3. r.added_key = (Len(v2.q) # 1 /\ Shown(v2.q[1]) # <<>>)
    BY <1>3, <1>4, <1>5, <2>1
  <2> QED
    BY <1>3, <1>10, <1>11, <2>2, <2>3 DEF SamePlace
<1>15. SameOffset(r, v2, cont2)
  BY <1>4, <1>10 DEF SameOffset
<1>16. fine2 /\ DefiniteSoFar(v2, r.flag) => SameArray(r, v2)
  BY <1>4, <1>5, <1>9, <1>11 DEF SameArray
<1> QED
  BY <1>12, <1>13, <1>14, <1>15, <1>16 DEF Agree, r, v2

\* Whitespace in front of a value is left out, and in it a part of it, which shows
\* when more follows.
LEMMA BlankInsideAgrees ==
    ASSUME NEW s, NEW v, NEW fine, NEW cont, NEW fine2, NEW cont2,
           Round(s, v, BLANK, fine, cont, fine2, cont2), ~ v.x.escaped,
           v.x.within = "line", Len(v.q) # 1, "MULTI_VALUE" \notin s.flag
    PROVE  Agree(Handled(s, BLANK), NextView(v, BLANK, s.flag), fine2, cont2)
<1> DEFINE old  == Last(v.q)
           word == IF s.in_value THEN Append(old, Space) ELSE old
           r    == Handled(s, BLANK)
           v2   == NextView(v, BLANK, s.flag)
<1>1. /\ Sound(s) /\ BLANK \in Character /\ IsView(v, s.flag) /\ SameContext(s, v.x)
      /\ v.x \in Surrounding /\ v.ls \in Pieces /\ v.q \in Pieces /\ ~ s.in_comment
      /\ WordSound(old) /\ s.token = Cut(Spelled(old)) /\ s.in_key = (Len(v.q) = 1)
      /\ ~ s.in_key /\ ~ s.in_value => old = <<>>
      /\ s.in_value => old # <<>>
      /\ Len(v.q) \in Nat \ {0}
  BY RoundFacts
<1>2. Bare(s) /\ ~ Stops(s) /\ ~ s.in_key
  BY <1>1 DEF SameContext, Bare, Stops
<1>3. Space \in Symbol /\ Space # LineEnd /\ Space # Mark /\ Space[2] = BLANK
  BY SymbolsDiffer DEF Symbol, Space
<1>4. SymbolsOf(v.x, BLANK) = <<Space>> /\ Within(Follow(v.x, BLANK), "line", FALSE)
  BY <1>1, InLine
<1>5. NextLines(v.ls, Space) = Continue(v.ls, Space)
  BY <1>3 DEF NextLines
<1>6. NextParts(v.q, Space, s.flag) = IF old = <<>> THEN v.q ELSE Continue(v.q, Space)
  <2>1. ~ (Len(v.q) = 1 \/ "MULTI_VALUE" \in s.flag)
    OBVIOUS
  <2> QED
    BY <2>1, Zenon DEF NextParts
<1>7. /\ v2.x = Follow(v.x, BLANK) /\ v2.ls = Continue(v.ls, Space)
      /\ v2.q = IF old = <<>> THEN v.q ELSE Continue(v.q, Space)
  <2>1. <<Space>> # <<>> /\ <<Space>>[1] = Space
    OBVIOUS
  <2> HIDE DEF old
  <2> QED
    BY <1>3, <1>4, <1>5, <1>6, <2>1 DEF NextView
<1>8. v2.x.within = "line" /\ v2.x.escaped = FALSE
  BY <1>4, <1>7 DEF Within
<1>9. /\ r.flag = s.flag /\ r.a = s.a
      /\ r.token = IF s.in_value /\ Len(s.token) < max_token_pos
                   THEN Append(s.token, BLANK) ELSE s.token
      /\ ~ r.in_comment /\ ~ r.in_escape /\ r.in_quote = NO_QUOTE
      /\ r.last_escaped = s.last_escaped
      /\ ~ r.in_key /\ r.in_value = s.in_value /\ r.added_key = AddsKey(s) /\ Sound(r)
  <2>1. s.in_value \in BOOLEAN
    BY <1>1 DEF Sound, Parser
  <2> QED
    BY <1>1, <1>2, <2>1, HandledBlank, HandledSound
<1>10. AddsKey(s) = s.added_key
  <2>1. s.added_key \in BOOLEAN
    BY <1>1 DEF Sound, Parser
  <2> QED
    BY <1>2, <2>1 DEF AddsKey
<1>11. /\ fine2 => fine /\ ~ cont
       /\ fine => SameOffset(s, v, cont)
       /\ Agree(s, v, fine, cont)
  BY DEF Round, Agree
<1> HIDE DEF r, v2
<1>12. Grown(v2, v, word, s.flag)
  <2>1. v.x.within # "comment" /\ v2.x.within # "comment"
    BY <1>8
  <2>2. CASE s.in_value
    <3>1. v2.q = Continue(v.q, Space) /\ word = Append(old, Space)
      BY <1>1, <1>7, <2>2
    <3> QED
      BY <1>1, <1>3, <1>7, <2>1, <3>1, ContinueGrows
  <2>3. CASE ~ s.in_value
    <3>1. v2.q = v.q /\ word = old
      BY <1>1, <1>2, <1>7, <2>3
    <3> QED
      BY <1>1, <1>3, <1>7, <2>1, <3>1, SkipGrows
  <2> QED
    BY <2>2, <2>3
<1>13. /\ WordSound(word) /\ Inner(word) = Inner(old)
       /\ Spelled(word) = IF s.in_value THEN Append(Spelled(old), BLANK) ELSE Spelled(old)
       /\ s.in_value => word # <<>>
       /\ Spelled(old) \in Seq(Sign) /\ Len(Inner(old)) \in Nat /\ Len(Spelled(old)) \in Nat
  <2>1. old \in Seq(Symbol)
    BY <1>1 DEF WordSound
  <2>2. Spelled(old) \in Seq(Sign) /\ Len(Inner(old)) \in Nat /\ Len(Spelled(old)) \in Nat
    BY <2>1, InnerTyped
  <2>3. /\ WordSound(Append(old, Space)) /\ Inner(Append(old, Space)) = Inner(old)
        /\ Spelled(Append(old, Space)) = Append(Spelled(old), BLANK)
    BY <1>1, <1>3, InnerAppend
  <2>4. Append(old, Space) # <<>>
    BY <1>3, <2>1, AppendProperties
  <2> HIDE DEF old
  <2> QED
    BY <1>1, <2>2, <2>3, <2>4
<1> HIDE DEF word, old
<1>14. r.token = Cut(Spelled(word))
  <2>1. BLANK \in Sign
    BY <1>1 DEF Sign
  <2>2. Cut(Append(Spelled(old), BLANK)) = IF Len(Cut(Spelled(old))) < max_token_pos
                                           THEN Append(Cut(Spelled(old)), BLANK)
                                           ELSE Cut(Spelled(old))
    BY <1>13, <2>1, CutAppend
  <2>3. CASE s.in_value
    BY <1>1, <1>9, <1>13, <2>2, <2>3
  <2>4. CASE ~ s.in_value
    BY <1>1, <1>9, <1>13, <2>4
  <2> QED
    BY <2>3, <2>4
<1>15. SameContext(r, v2.x)
  <2>1. r.in_escape \in BOOLEAN /\ r.in_comment \in BOOLEAN
    BY <1>9 DEF Sound, Parser
  <2> QED
    BY <1>8, <1>9, <2>1 DEF SameContext
<1>16. Grows(r, s, v2, v, word)
  <2>1. r.in_key = s.in_key
    <3>1. r.in_key \in BOOLEAN /\ s.in_key \in BOOLEAN
      BY <1>1, <1>9 DEF Sound, Parser
    <3> QED
      BY <1>2, <1>9, <3>1
  <2>2. ~ s.in_value => word = <<>>
    BY <1>1, <1>2 DEF word
  <2> QED
    BY <1>8, <1>9, <1>10, <1>12, <1>13, <1>14, <1>15, <2>1, <2>2 DEF Grows
<1>17. ASSUME fine2, r.in_value PROVE Spares(r, word, cont2)
  <2>1. Spares(s, old, cont)
    BY <1>2, <1>9, <1>11, <1>17 DEF SameOffset, old
  <2>2. Whole(word) <=> Whole(old)
    BY <1>13 DEF Whole, Inner
  <2>3. ASSUME Whole(old) PROVE /\ s.last_escaped <= Len(Inner(old))
                                /\ \/ s.last_escaped >= Len(Inner(old)) \/ Len(Inner(old)) = 0
                                   \/ s.token[Len(Inner(old))] # BLANK
    BY <1>11, <1>17, <2>1, <2>3 DEF Spares
  <2>4. ASSUME Whole(old), Len(Inner(old)) # 0
        PROVE r.token[Len(Inner(old))] = s.token[Len(Inner(old))]
    <3>1. Len(Inner(old)) <= max_token_pos
      BY <2>4 DEF Whole, Inner
    <3>2. Len(Inner(old)) \in 1 .. Len(s.token)
      <4>1. Len(Inner(old)) <= Len(Spelled(old))
        BY <1>1 DEF WordSound
      <4>2. Len(Cut(Spelled(old))) = IF Len(Spelled(old)) <= max_token_pos
                                     THEN Len(Spelled(old)) ELSE max_token_pos
        BY <1>13, CutProperties
      <4> QED
        BY <1>1, <1>13, <2>4, <3>1, <4>1, <4>2, BufferFits
    <3>3. s.token \in Seq(Character)
      BY <1>1, ParserFields DEF Sound
    <3> QED
      BY <1>1, <1>9, <3>2, <3>3, AppendProperties
  <2> QED
    BY <1>9, <1>13, <2>2, <2>3, <2>4 DEF Spares
<1> QED
  <2>1. fine2 /\ Bare(r) /\ (r.in_key \/ r.in_value) => Spares(r, word, cont2)
    BY <1>9, <1>17
  <2> QED
    BY <1>11, <1>16, <2>1, GrownAgrees DEF r, v2

\* A comment ends the word in progress.
LEMMA HashAgrees ==
    ASSUME NEW s, NEW v, NEW fine, NEW cont, NEW fine2, NEW cont2,
           Round(s, v, HASH, fine, cont, fine2, cont2), ~ v.x.escaped,
           v.x.within = "line"
    PROVE  Agree(Handled(s, HASH), NextView(v, HASH, s.flag), fine2, cont2)
<1> DEFINE old == Last(v.q)
           r   == Handled(s, HASH)
           v2  == NextView(v, HASH, s.flag)
<1>1. /\ Sound(s) /\ HASH \in Character /\ SameContext(s, v.x) /\ v.x \in Surrounding
      /\ v.q \in Pieces /\ ~ s.in_comment /\ WordSound(old)
      /\ Len(v.q) = 1 \/ "MULTI_VALUE" \in s.flag => Inner(old) = Spelled(old)
  BY RoundFacts
<1>2. Bare(s)
  BY <1>1 DEF SameContext, Bare
<1>3. SymbolsOf(v.x, HASH) = <<>> /\ Within(Follow(v.x, HASH), "comment", FALSE)
  BY <1>1, InLine
<1>4. v2.x = Follow(v.x, HASH) /\ v2.ls = v.ls /\ v2.q = v.q
  BY <1>3, NextViewQuiet
<1>5. v2.x.within = "comment" /\ v2.x.escaped = FALSE
  BY <1>3, <1>4 DEF Within
<1>6. /\ r.flag = s.flag /\ r.a = Added(s) /\ r.token = <<>>
      /\ r.in_comment /\ ~ r.in_escape /\ r.in_quote = NO_QUOTE
      /\ ~ r.in_key /\ ~ r.in_value /\ r.added_key = AddsKey(s) /\ Sound(r)
  BY <1>1, <1>2, HandledHash, HandledSound
<1>7. /\ AddsKey(s) = (Shown(v.q[1]) # <<>>)
      /\ fine2 /\ DefiniteSoFar(v, s.flag) /\ PartDefinite(old, Len(v.q), s.flag) =>
            Added(s) = Earlier(v.ls, s.flag)
                        \o (Before(v.q, s.flag) \o EntryOf(old, Len(v.q), s.flag))
  BY WordEnds
<1>8. AllOf(v.q, s.flag) = Before(v.q, s.flag) \o EntryOf(old, Len(v.q), s.flag)
  BY <1>1, AllSplits
<1> HIDE DEF r, v2
<1>9. DefiniteSoFar(v2, s.flag) =>
        DefiniteSoFar(v, s.flag) /\ PartDefinite(old, Len(v.q), s.flag)
  BY <1>4, <1>5 DEF DefiniteSoFar
<1> HIDE DEF old
<1>10. SameContext(r, v2.x)
  <2>1. r.in_escape \in BOOLEAN /\ r.in_comment \in BOOLEAN
    BY <1>6 DEF Sound, Parser
  <2> QED
    BY <1>5, <1>6, <2>1 DEF SameContext
<1>11. SameWord(r, v2.x, v2.q)
  BY <1>1, <1>4, <1>5, <1>6 DEF SameWord, old
<1>12. SamePlace(r, v2.x, v2.q)
  BY <1>4, <1>5, <1>6, <1>7 DEF SamePlace
<1>13. SameOffset(r, v2, cont2)
  BY <1>6 DEF SameOffset
<1>14. fine2 /\ DefiniteSoFar(v2, r.flag) => SameArray(r, v2)
  BY <1>4, <1>5, <1>6, <1>7, <1>8, <1>9 DEF SameArray
<1> QED
  BY <1>10, <1>11, <1>12, <1>13, <1>14 DEF Agree, r, v2

\* In a comment nothing happens, whatever quotes and escapes there are.
LEMMA CommentAgrees ==
    ASSUME NEW s, NEW v, NEW c, NEW fine, NEW cont, NEW fine2, NEW cont2,
           Round(s, v, c, fine, cont, fine2, cont2),
           v.x.within = "comment", ~ (c = NEWLINE /\ ~ v.x.escaped)
    PROVE  Agree(Handled(s, c), NextView(v, c, s.flag), fine2, cont2)
<1> DEFINE r  == Handled(s, c)
           v2 == NextView(v, c, s.flag)
<1>1. /\ Sound(s) /\ c \in Character /\ SameContext(s, v.x) /\ v.x \in Surrounding
      /\ SameWord(s, v.x, v.q) /\ SamePlace(s, v.x, v.q)
  BY RoundFacts
<1>2. s.in_comment /\ s.in_escape = v.x.escaped
  BY <1>1 DEF SameContext
<1>3. /\ SymbolsOf(v.x, c) = <<>>
      /\ Within(Follow(v.x, c), "comment", c = BACKSLASH /\ ~ v.x.escaped)
  BY <1>1, InComment
<1>4. v2.x = Follow(v.x, c) /\ v2.ls = v.ls /\ v2.q = v.q
  BY <1>3, NextViewQuiet
<1>5. v2.x.within = "comment" /\ v2.x.escaped = (c = BACKSLASH /\ ~ v.x.escaped)
  BY <1>3, <1>4 DEF Within
<1>6. Same(r, s) /\ r.in_escape = (c = BACKSLASH /\ ~ s.in_escape)
  BY <1>1, <1>2, HandledComment
<1>7. /\ fine2 => fine
      /\ fine /\ DefiniteSoFar(v, s.flag) => SameArray(s, v)
  BY DEF Round, Agree
<1> HIDE DEF r, v2
<1>8. DefiniteSoFar(v2, s.flag) => DefiniteSoFar(v, s.flag)
  BY <1>4, <1>5 DEF DefiniteSoFar
<1>9. SameContext(r, v2.x)
  BY <1>1, <1>2, <1>5, <1>6 DEF SameContext, Same
<1>10. SameWord(r, v2.x, v2.q)
  BY <1>1, <1>4, <1>5, <1>6 DEF SameWord, Same
<1>11. SamePlace(r, v2.x, v2.q)
  BY <1>1, <1>4, <1>5, <1>6 DEF SamePlace, Same
<1>12. SameOffset(r, v2, cont2)
  BY <1>11, <1>5 DEF SameOffset, SamePlace
<1>13. fine2 /\ DefiniteSoFar(v2, r.flag) => SameArray(r, v2)
  BY <1>4, <1>5, <1>6, <1>7, <1>8 DEF SameArray, Same
<1> QED
  BY <1>9, <1>10, <1>11, <1>12, <1>13 DEF Agree, r, v2

\* What the end of a line makes of the view
LEMMA NextViewLine ==
    ASSUME NEW flags, NEW v, IsView(v, flags), ~ v.x.escaped,
           v.x.within \in {"line", "comment"}
    PROVE  LET v2 == NextView(v, NEWLINE, flags)
           IN  /\ Within(v2.x, "line", FALSE) /\ v2.q = Nothing
               /\ Earlier(v2.ls, flags)
                    = Earlier(v.ls, flags)
                        \o ((Before(v.q, flags) \o EntryOf(Last(v.q), Len(v.q), flags))
                             \o EndOf(v.q, flags))
               /\ DefiniteSoFar(v2, flags) =>
                    DefiniteSoFar(v, flags) /\ PartDefinite(Last(v.q), Len(v.q), flags)
<1> DEFINE v2 == NextView(v, NEWLINE, flags)
<1>1. v.x \in Surrounding /\ v.ls \in Pieces /\ v.q \in Pieces /\ v.q = Parts(Last(v.ls), flags)
  BY DEF IsView
<1>2. NEWLINE \in Character
  BY DEF Character, Special
<1>3. SymbolsOf(v.x, NEWLINE) = <<LineEnd>> /\ Within(Follow(v.x, NEWLINE), "line", FALSE)
  BY <1>1, <1>2, InLine, InComment
<1>4. NextLines(v.ls, LineEnd) = Append(v.ls, <<>>)
  BY DEF NextLines
<1>5. Within(v2.x, "line", FALSE) /\ v2.ls = Append(v.ls, <<>>) /\ v2.q = Nothing
  <2>1. <<LineEnd>> # <<>> /\ <<LineEnd>>[1] = LineEnd
    OBVIOUS
  <2>2. v2.x = Follow(v.x, NEWLINE) /\ v2.ls = NextLines(v.ls, LineEnd) /\ v2.q = Nothing
    BY <1>3, <2>1 DEF NextView
  <2> QED
    BY <1>3, <1>4, <2>2
<1> HIDE DEF v2
<1>6. Last(v.ls) \in Seq(Symbol) /\ Last(v.ls) = v.ls[Len(v.ls)] /\ Len(v.ls) \in Nat \ {0}
  BY <1>1, PiecesTyped
<1>7. Entries(Last(v.ls), flags)
        = (Before(v.q, flags) \o EntryOf(Last(v.q), Len(v.q), flags)) \o EndOf(v.q, flags)
  BY <1>1, <1>6, EntriesTyped
<1>8. Earlier(v2.ls, flags) = Earlier(v.ls, flags) \o Entries(Last(v.ls), flags)
  BY <1>1, <1>5, EarlierAppend
<1>9. Len(v2.ls) = Len(v.ls) + 1 /\ \A k \in 1 .. Len(v.ls) : v2.ls[k] = v.ls[k]
  BY <1>1, <1>5, AppendPiece
<1>10. Len(v.q) \in Nat \ {0} /\ Last(v.q) = v.q[Len(v.q)]
  BY <1>1, PiecesTyped
<1>11. ASSUME DefiniteSoFar(v2, flags)
       PROVE  DefiniteSoFar(v, flags) /\ PartDefinite(Last(v.q), Len(v.q), flags)
  <2>1. ASSUME NEW k \in 1 .. Len(v.ls) PROVE LineDefinite(v.ls[k], flags)
    <3>1. k \in 1 .. Len(v2.ls) - 1 /\ v2.ls[k] = v.ls[k]
      BY <1>6, <1>9
    <3>2. LineDefinite(v2.ls[k], flags)
      BY <1>11, <3>1, Zenon DEF DefiniteSoFar
    <3> QED
      BY <3>1, <3>2
  <2>2. LineDefinite(Last(v.ls), flags)
    <3>1. Len(v.ls) \in 1 .. Len(v.ls)
      BY <1>6
    <3> QED
      BY <1>6, <2>1, <3>1
  <2>3. \A n \in 1 .. Len(v.q) : PartDefinite(v.q[n], n, flags)
    BY <1>1, <2>2, Zenon DEF LineDefinite
  <2>4. Len(v.q) \in 1 .. Len(v.q) /\ \A n \in 1 .. Len(v.q) - 1 : n \in 1 .. Len(v.q)
    BY <1>10
  <2>5. PartDefinite(Last(v.q), Len(v.q), flags)
    BY <1>10, <2>3, <2>4
  <2>6. \A n \in 1 .. Len(v.q) - 1 : PartDefinite(v.q[n], n, flags)
    BY <2>3, <2>4
  <2>7. \A k \in 1 .. Len(v.ls) - 1 : k \in 1 .. Len(v.ls)
    BY <1>6
  <2>8. \A k \in 1 .. Len(v.ls) - 1 : LineDefinite(v.ls[k], flags)
    BY <2>1, <2>7
  <2> QED
    BY <2>5, <2>6, <2>8, Zenon DEF DefiniteSoFar
<1> QED
  BY <1>5, <1>7, <1>8, <1>11 DEF v2

\* The end of a line ends the word in progress, and the values of the key.
LEMMA LineEndAgrees ==
    ASSUME NEW s, NEW v, NEW fine, NEW cont, NEW fine2, NEW cont2,
           Round(s, v, NEWLINE, fine, cont, fine2, cont2), ~ v.x.escaped,
           v.x.within \in {"line", "comment"}
    PROVE  Agree(Handled(s, NEWLINE), NextView(v, NEWLINE, s.flag), fine2, cont2)
<1> DEFINE old == Last(v.q)
           E   == Before(v.q, s.flag) \o EntryOf(old, Len(v.q), s.flag)
           r   == Handled(s, NEWLINE)
           v2  == NextView(v, NEWLINE, s.flag)
<1>1. /\ Sound(s) /\ NEWLINE \in Character /\ IsView(v, s.flag) /\ SameContext(s, v.x)
      /\ v.x \in Surrounding /\ SamePlace(s, v.x, v.q) /\ v.ls \in Pieces /\ v.q \in Pieces
  BY RoundFacts
<1>2. Bare(s)
  BY <1>1 DEF SameContext, Bare
<1>3. /\ Within(v2.x, "line", FALSE) /\ v2.q = Nothing
      /\ Earlier(v2.ls, s.flag) = Earlier(v.ls, s.flag) \o (E \o EndOf(v.q, s.flag))
      /\ DefiniteSoFar(v2, s.flag) =>
            DefiniteSoFar(v, s.flag) /\ PartDefinite(old, Len(v.q), s.flag)
  BY <1>1, NextViewLine
<1>4. /\ r.flag = s.flag
      /\ r.a = IF AddsKey(s) /\ "MULTI_VALUE" \in s.flag THEN Append(Added(s), NULL)
               ELSE Added(s)
      /\ r.token = <<>> /\ ~ r.in_comment /\ ~ r.in_escape
      /\ r.in_quote = NO_QUOTE /\ r.last_escaped = 0
      /\ r.in_key /\ ~ r.in_value /\ ~ r.added_key /\ Sound(r)
  BY <1>1, <1>2, HandledLineEnd, HandledSound
<1>5. /\ fine2 => fine
      /\ fine /\ DefiniteSoFar(v, s.flag) => SameArray(s, v)
  BY DEF Round, Agree
<1>6. AllOf(v.q, s.flag) = E /\ E \in Seq(Written)
  <2>1. /\ Before(v.q, s.flag) \in Seq(Written) /\ EntryOf(old, Len(v.q), s.flag) \in Seq(Written)
        /\ AllOf(v.q, s.flag) = E
    BY <1>1, AllSplits
  <2> QED
    BY <2>1, ConcatProperties
<1>7. /\ AddsKey(s) = (Shown(v.q[1]) # <<>>)
      /\ fine2 /\ DefiniteSoFar(v2, s.flag) => Added(s) = Earlier(v.ls, s.flag) \o E
  <2>1. CASE v.x.within = "line"
    BY <1>3, <2>1, WordEnds
  <2>2. CASE v.x.within = "comment"
    <3>1. ~ s.in_key /\ ~ s.in_value /\ s.added_key = (Shown(v.q[1]) # <<>>)
      BY <1>1, <2>2 DEF SamePlace
    <3>2. AddsKey(s) = s.added_key /\ Added(s) = s.a
      BY <3>1 DEF AddsKey, Added
    <3> HIDE DEF E, v2
    <3> QED
      BY <1>3, <1>5, <1>6, <2>2, <3>1, <3>2 DEF SameArray
  <2> QED
    BY <2>1, <2>2
<1>8. Earlier(v.ls, s.flag) \in Seq(Written) /\ EndOf(v.q, s.flag) \in Seq(Written)
  <2>1. EndOf(v.q, s.flag) \in Seq(Written)
    <3>1. v.q = Parts(Last(v.ls), s.flag) /\ Last(v.ls) \in Seq(Symbol)
      BY <1>1, PiecesTyped DEF IsView
    <3> QED
      BY <3>1, EntriesTyped
  <2> QED
    BY <1>1, <2>1, EarlierAll
<1> HIDE DEF r, v2, E, old
<1>9. ASSUME fine2, DefiniteSoFar(v2, s.flag)
      PROVE  r.a = Earlier(v2.ls, s.flag)
  <2> DEFINE A == Earlier(v.ls, s.flag)
             Z == EndOf(v.q, s.flag)
  <2>1. Added(s) = A \o E
    BY <1>7, <1>9
  <2>2. A \o E \in Seq(Written)
    BY <1>6, <1>8, ConcatProperties
  <2>3. r.a = (A \o E) \o Z
    <3>1. CASE AddsKey(s) /\ "MULTI_VALUE" \in s.flag
      <4>1. Z = <<NULL>> /\ r.a = Append(A \o E, NULL)
        BY <1>4, <1>7, <2>1, <3>1 DEF EndOf
      <4> QED
        BY <2>2, <4>1, AppendOne
    <3>2. CASE ~ (AddsKey(s) /\ "MULTI_VALUE" \in s.flag)
      <4>1. Z = <<>> /\ r.a = A \o E
        BY <1>4, <1>7, <2>1, <3>2 DEF EndOf
      <4> QED
        BY <2>2, <4>1, ConcatEmptySeq
    <3> QED
      BY <3>1, <3>2
  <2>4. A \in Seq(Written) /\ Z \in Seq(Written)
    BY <1>8
  <2>5. Earlier(v2.ls, s.flag) = A \o (E \o Z)
    BY <1>3
  <2> HIDE DEF A, Z
  <2>6. (A \o E) \o Z = A \o (E \o Z)
    BY <1>6, <2>4, ConcatAssociative
  <2> QED
    BY <2>3, <2>5, <2>6
<1>10. v2.x.within = "line" /\ v2.x.escaped = FALSE
  BY <1>3 DEF Within
<1>11. Len(v2.q) = 1 /\ Last(v2.q) = <<>>
  <2>1. Last(Nothing) = <<>> /\ Len(Nothing) = 1
    BY NothingIsPiece, PiecesTyped
  <2> QED
    BY <1>3, <2>1
<1>12. SameContext(r, v2.x)
  <2>1. r.in_escape \in BOOLEAN /\ r.in_comment \in BOOLEAN
    BY <1>4 DEF Sound, Parser
  <2> QED
    BY <1>4, <1>10, <2>1 DEF SameContext
<1>13. SameWord(r, v2.x, v2.q)
  <2>1. Cut(<<>>) = <<>>
    BY BufferFits DEF Cut
  <2> QED
    BY <1>4, <1>10, <1>11, <2>1, InnerEmpty DEF SameWord
<1>14. SamePlace(r, v2.x, v2.q)
  <2>1. r.in_key \in BOOLEAN /\ r.added_key \in BOOLEAN
    BY <1>4 DEF Sound, Parser
  <2> QED
    BY <1>4, <1>10, <1>11, <2>1 DEF SamePlace
<1>15. SameOffset(r, v2, cont2)
  BY <1>4, <1>11, InnerEmpty DEF SameOffset, Spares
<1>16. fine2 /\ DefiniteSoFar(v2, r.flag) => SameArray(r, v2)
  <2>1. SUFFICES ASSUME fine2, DefiniteSoFar(v2, s.flag) PROVE SameArray(r, v2)
    BY <1>4
  <2>2. Before(v2.q, s.flag) = <<>>
    BY <1>3, BeforeNothing
  <2>3. r.a = Earlier(v2.ls, s.flag) /\ r.a \in Seq(Entry)
    BY <1>4, <1>9, <2>1, ParserFields DEF Sound
  <2>4. r.a \o <<>> = r.a
    BY <2>3, ConcatEmptySeq
  <2> QED
    BY <1>4, <1>10, <2>2, <2>3, <2>4 DEF SameArray
<1> QED
  BY <1>12, <1>13, <1>14, <1>15, <1>16 DEF Agree, r, v2

\* Whatever character comes, the parser and what it has read agree again.
LEMMA RoundAgrees ==
    ASSUME NEW s, NEW v, NEW c, NEW fine, NEW cont, NEW fine2, NEW cont2,
           Round(s, v, c, fine, cont, fine2, cont2)
    PROVE  Agree(Handled(s, c), NextView(v, c, s.flag), fine2, cont2)
<1>1. c \in Character /\ v.x \in Surrounding /\ Len(v.q) \in Nat \ {0}
  BY RoundFacts
<1>2. CASE v.x.within = "comment"
  <2>1. CASE c = NEWLINE /\ ~ v.x.escaped
    BY <1>2, <2>1, LineEndAgrees
  <2>2. CASE ~ (c = NEWLINE /\ ~ v.x.escaped)
    BY <1>2, <2>2, CommentAgrees
  <2> QED
    BY <2>1, <2>2
<1>3. CASE v.x.within # "comment" /\ v.x.escaped
  BY <1>3, EscapedAgrees
<1>4. CASE v.x.within \in {"single", "double"} /\ ~ v.x.escaped
  <2>1. CASE <<v.x.within, c>> \in {<<"single", SINGLE>>, <<"double", DOUBLE>>}
    BY <1>4, <2>1, CloseAgrees
  <2>2. CASE v.x.within = "double" /\ c = BACKSLASH
    BY <1>4, <2>2, BackslashAgrees
  <2>3. CASE /\ <<v.x.within, c>> \notin {<<"single", SINGLE>>, <<"double", DOUBLE>>}
             /\ ~ (v.x.within = "double" /\ c = BACKSLASH)
    BY <1>4, <2>3, QuotedAgrees
  <2> QED
    BY <2>1, <2>2, <2>3
<1>5. CASE v.x.within = "line" /\ ~ v.x.escaped
  <2>1. CASE c = BLANK
    BY <1>5, <2>1, BlankEndsAgrees, BlankInsideAgrees
  <2>2. CASE c = NEWLINE
    BY <1>5, <2>2, LineEndAgrees
  <2>3. CASE c = BACKSLASH
    BY <1>5, <2>3, BackslashAgrees
  <2>4. CASE c = HASH
    BY <1>5, <2>4, HashAgrees
  <2>5. CASE c \in {SINGLE, DOUBLE}
    BY <1>5, <2>5, OpenAgrees
  <2>6. CASE c \in Other
    BY <1>5, <2>6, OtherAgrees
  <2> QED
    BY <1>1, <2>1, <2>2, <2>3, <2>4, <2>5, <2>6 DEF Character, Special
<1>6. v.x.within \in {"line", "comment", "single", "double"}
  BY <1>1, SurroundingFields
<1> QED
  BY <1>2, <1>3, <1>4, <1>5, <1>6

----------------------------------------------------------------------------
\* Whether the text so far ends with an escaped line end
Continued(t) ==
    /\ Len(t) > 0
    /\ Contexts(t)[Len(t) - 1].escaped /\ Contexts(t)[Len(t) - 1].within # "comment"
    /\ t[Len(t)] = NEWLINE

LEMMA ContinuedAppend ==
    ASSUME NEW t \in Seq(Character), NEW c \in Character
    PROVE  /\ ContinuesVisibly(Append(t, c)) =>
                ContinuesVisibly(t) /\ ~ (Continued(t) /\ c = BLANK)
           /\ Continued(Append(t, c)) =
                (Context(t).escaped /\ Context(t).within # "comment" /\ c = NEWLINE)
<1> DEFINE u == Append(t, c)
           n == Len(t)
<1>1. n \in Nat /\ Len(u) = n + 1 /\ u[n + 1] = c /\ \A k \in 1 .. n : u[k] = t[k]
  BY LenProperties, AppendProperties
<1>2. \A k \in 0 .. n : Contexts(u)[k] = Contexts(t)[k]
  BY ContextsAppend
<1>3. Context(t) = Contexts(t)[n]
  BY DEF Context
<1> HIDE DEF u, n
<1>4. Continued(u) = (Context(t).escaped /\ Context(t).within # "comment" /\ c = NEWLINE)
  <2>1. Len(u) > 0 /\ Len(u) - 1 = n /\ Contexts(u)[n] = Context(t) /\ u[Len(u)] = c
    BY <1>1, <1>2, <1>3
  <2> QED
    BY <2>1 DEF Continued
<1>5. ASSUME ContinuesVisibly(u) PROVE ContinuesVisibly(t) /\ ~ (Continued(t) /\ c = BLANK)
  <2>1. ASSUME NEW k \in 1 .. n, Contexts(t)[k - 1].escaped,
               Contexts(t)[k - 1].within # "comment", t[k] = NEWLINE
        PROVE  u[k + 1] # BLANK
    <3>1. k \in 1 .. Len(u) - 1 /\ Contexts(u)[k - 1] = Contexts(t)[k - 1] /\ u[k] = t[k]
      BY <1>1, <1>2
    <3> QED
      BY <1>5, <2>1, <3>1 DEF ContinuesVisibly
  <2>2. ContinuesVisibly(t)
    <3>1. ASSUME NEW k \in 1 .. n - 1, Contexts(t)[k - 1].escaped,
                 Contexts(t)[k - 1].within # "comment", t[k] = NEWLINE
          PROVE  t[k + 1] # BLANK
      <4>1. k \in 1 .. n /\ k + 1 \in 1 .. n
        BY <1>1
      <4>2. u[k + 1] # BLANK
        BY <2>1, <3>1, <4>1
      <4> QED
        BY <1>1, <4>1, <4>2
    <3> QED
      BY <3>1 DEF ContinuesVisibly, n
  <2>3. ~ (Continued(t) /\ c = BLANK)
    <3>1. SUFFICES ASSUME Continued(t) PROVE c # BLANK
      OBVIOUS
    <3>2. n \in 1 .. n /\ Contexts(t)[n - 1].escaped /\ t[n] = NEWLINE
          /\ Contexts(t)[n - 1].within # "comment"
      BY <1>1, <3>1 DEF Continued, n
    <3>3. u[n + 1] # BLANK
      BY <2>1, <3>2
    <3> QED
      BY <1>1, <3>3
  <2> QED
    BY <2>2, <2>3
<1> QED
  BY <1>4, <1>5 DEF u

\* The parser and the text it has read
Reads(s, t) ==
    t \in Seq(Character) /\ Agree(s, View(t, s.flag), ContinuesVisibly(t), Continued(t))

LEMMA HandledReads ==
    ASSUME NEW s, Sound(s), NEW t, Reads(s, t), NEW c \in Character
    PROVE  Reads(Handled(s, c), Append(t, c))
<1> DEFINE v == View(t, s.flag)
           u == Append(t, c)
<1>1. t \in Seq(Character) /\ u \in Seq(Character)
  BY AppendProperties DEF Reads
<1>2. IsView(v, s.flag) /\ v.x = Context(t)
  BY <1>1, ViewTyped DEF View
<1>3. View(u, s.flag) = NextView(v, c, s.flag)
  BY <1>1, ViewAppend
<1>4. Round(s, v, c, ContinuesVisibly(t), Continued(t), ContinuesVisibly(u), Continued(u))
  BY <1>1, <1>2, ContinuedAppend DEF Round, Reads
<1>5. Agree(Handled(s, c), NextView(v, c, s.flag), ContinuesVisibly(u), Continued(u))
  BY <1>4, RoundAgrees
<1>6. Handled(s, c).flag = s.flag
  BY HandledFlag
<1> QED
  BY <1>1, <1>3, <1>5, <1>6 DEF Reads

LEMMA NewParserReads ==
    ASSUME NEW flags \in FlagArg
    PROVE  Reads(NewParser(flags), <<>>)
<1> DEFINE s == NewParser(flags)
           v == View(<<>>, flags)
<1>1. /\ s.flag = flags /\ s.a = Dummy(flags) /\ s.token = <<>> /\ s.last_escaped = 0
      /\ s.in_escape = FALSE /\ s.in_comment = FALSE /\ s.in_quote = NO_QUOTE
      /\ s.in_key = TRUE /\ s.in_value = FALSE /\ s.added_key = FALSE
  BY DEF NewParser, Dummy
<1>2. v.x = Outside /\ v.ls = Nothing /\ v.q = Nothing
  BY ViewEmpty
<1>3. v.x.within = "line" /\ v.x.escaped = FALSE
  BY <1>2 DEF Outside
<1>4. Len(v.q) = 1 /\ Last(v.q) = <<>>
  <2>1. Last(Nothing) = <<>> /\ Len(Nothing) = 1
    BY NothingIsPiece, PiecesTyped
  <2> QED
    BY <1>2, <2>1
<1>5. Earlier(v.ls, flags) = Dummy(flags) /\ Before(v.q, flags) = <<>>
  BY <1>2, EarlierNothing, BeforeNothing
<1>6. Dummy(flags) \o <<>> = Dummy(flags)
  BY DummyTyped, ConcatEmptySeq
<1> HIDE DEF s, v
<1>7. SameContext(s, v.x)
  BY <1>1, <1>3 DEF SameContext
<1>8. SameWord(s, v.x, v.q)
  <2>1. Cut(<<>>) = <<>>
    BY BufferFits DEF Cut
  <2> QED
    BY <1>1, <1>3, <1>4, <2>1, InnerEmpty DEF SameWord
<1>9. SamePlace(s, v.x, v.q)
  BY <1>1, <1>3, <1>4 DEF SamePlace
<1>10. SameOffset(s, v, Continued(<<>>))
  BY <1>1, <1>4, InnerEmpty DEF SameOffset, Spares
<1>11. SameArray(s, v)
  BY <1>1, <1>3, <1>5, <1>6 DEF SameArray
<1>12. <<>> \in Seq(Character)
  OBVIOUS
<1> QED
  BY <1>1, <1>7, <1>8, <1>9, <1>10, <1>11, <1>12 DEF Agree, Reads, s, v

\* What the parser holds at the end of the file is what the text means.
LEMMA ReadsMeaning ==
    ASSUME NEW s, NEW t, Reads(s, t), EndsWithLine(t),
           TrimsDefinitely(Lines(t), s.flag), ContinuesVisibly(t)
    PROVE  s.a = Meaning(t, s.flag)
<1> DEFINE v == View(t, s.flag)
<1>1. t \in Seq(Character) /\ v.ls = Lines(t) /\ v.q = Parts(Last(v.ls), s.flag)
  BY DEF Reads, View
<1>2. v.ls \in Pieces
  BY <1>1, ViewTyped DEF IsView
<1>3. Last(v.ls) = <<>> /\ v.q = Nothing
  BY <1>1, PartsEmpty DEF EndsWithLine
<1>4. Agree(s, v, ContinuesVisibly(t), Continued(t))
  BY DEF Reads
<1> HIDE DEF v
<1>5. Last(v.q) = <<>> /\ Len(v.q) = 1
  BY <1>3, NothingIsPiece, PiecesTyped
<1>6. Shown(<<>>) = <<>>
  <2>1. <<>> \in Seq(Symbol)
    OBVIOUS
  <2>2. Shown(<<>>) = Cut(Inner(<<>>))
    BY <2>1, ShownTyped
  <2> QED
    BY <2>2, InnerEmpty, BufferFits DEF Cut
<1>7. EntryOf(<<>>, 1, s.flag) = <<>>
  BY <1>6 DEF EntryOf
<1>10. DefiniteSoFar(v, s.flag)
  <2>1. \A k \in 1 .. Len(v.ls) : LineDefinite(v.ls[k], s.flag)
    BY <1>1 DEF TrimsDefinitely
  <2>2. \A k \in 1 .. Len(v.ls) - 1 : k \in 1 .. Len(v.ls)
    BY <1>2, PiecesTyped
  <2>3. \A n \in 1 .. Len(v.q) - 1 : PartDefinite(v.q[n], n, s.flag)
    BY <1>5
  <2>4. PartDefinite(Last(v.q), Len(v.q), s.flag)
    BY <1>5, <1>6 DEF PartDefinite, EndsVisibly
  <2> QED
    BY <2>1, <2>2, <2>3, <2>4 DEF DefiniteSoFar
<1>11. SameArray(s, v)
  BY <1>4, <1>10 DEF Agree
<1>12. /\ Before(Nothing, s.flag) = <<>> /\ AllOf(Nothing, s.flag) = <<>>
       /\ Entries(<<>>, s.flag) = <<>>
  <2>1. Nothing \in Pieces /\ Last(Nothing) = <<>> /\ Len(Nothing) = 1 /\ Nothing[1] = <<>>
    BY NothingIsPiece, PiecesTyped
  <2>2. Before(Nothing, s.flag) = <<>>
    BY BeforeNothing
  <2>3. AllOf(Nothing, s.flag) = <<>> \o <<>>
    BY <1>7, <2>1, <2>2, AllSplits
  <2>4. EndOf(Nothing, s.flag) = <<>>
    BY <1>6, <2>1 DEF EndOf
  <2>5. <<>> \in Seq(Symbol) /\ Parts(<<>>, s.flag) = Nothing
    BY PartsEmpty
  <2>6. Entries(<<>>, s.flag) = (Before(Nothing, s.flag)
            \o EntryOf(Last(Nothing), Len(Nothing), s.flag)) \o EndOf(Nothing, s.flag)
    BY <2>5, EntriesTyped
  <2>7. Entries(<<>>, s.flag) = (<<>> \o <<>>) \o <<>>
    BY <1>7, <2>1, <2>2, <2>4, <2>6
  <2>8. <<>> \o <<>> = <<>>
    OBVIOUS
  <2> QED
    BY <2>2, <2>3, <2>7, <2>8
<1>13. s.a = Earlier(v.ls, s.flag) \o <<>>
  BY <1>3, <1>11, <1>12 DEF SameArray
<1>14. Meaning(t, s.flag)
         = Dummy(s.flag) \o FlattenSeq([k \in 1 .. Len(v.ls) |-> Entries(v.ls[k], s.flag)])
  BY <1>1 DEF Meaning
<1>15. Meaning(t, s.flag) = Earlier(v.ls, s.flag) \o Entries(Last(v.ls), s.flag)
  BY <1>2, <1>14, EarlierAll
<1> QED
  BY <1>3, <1>12, <1>13, <1>15

----------------------------------------------------------------------------
(***************************************************************************)
(* Where the documentation is undisputed it says what the code does.       *)
(***************************************************************************)

\* No character is in a place where the two have different symbols.
LEMMA UndisputedCharacter ==
    ASSUME NEW t, QuotesUndisputed(t), NEW k \in 1 .. Len(t)
    PROVE  LET x == Contexts(t)[k - 1]
           IN  DocFollow(x, t[k]) = Follow(x, t[k])
               /\ DocSymbolsOf(x, t[k]) = SymbolsOf(x, t[k])
<1> DEFINE x == Contexts(t)[k - 1]
<1>1. <<x.within, t[k]>> \notin
        {<<"single", NEWLINE>>, <<"double", NEWLINE>>, <<"double", BACKSLASH>>,
         <<"double", SINGLE>>, <<"comment", BACKSLASH>>}
  BY DEF QuotesUndisputed
<1> HIDE DEF x
<1>2. ~ (x.within = "double" /\ t[k] = BACKSLASH)
  BY <1>1
<1>3. <<x.within, t[k]>> \notin {<<"double", BACKSLASH>>, <<"double", NEWLINE>>,
                                 <<"single", NEWLINE>>}
  BY <1>1
<1>4. DocFollow(x, t[k]) = Follow(x, t[k])
  BY <1>2, Zenon DEF DocFollow
<1>5. DocSymbolsOf(x, t[k]) = SymbolsOf(x, t[k])
  BY <1>3, Zenon DEF DocSymbolsOf
<1> QED
  BY <1>4, <1>5 DEF x

LEMMA UndisputedContexts ==
    ASSUME NEW t \in Seq(Character), QuotesUndisputed(t)
    PROVE  DocContexts(t) = Contexts(t)
<1> DEFINE n == Len(t)
           c == Contexts(t)
           Rounds(h) == [k \in 0 .. n |->
                            IF k = 0 THEN Outside ELSE DocFollow(h[k - 1], t[k])]
           ctx == CHOOSE h : h = Rounds(h)
<1>1. n \in Nat
  BY LenProperties
<1>2. DocContexts(t) = ctx
  BY DEF DocContexts, Outside
<1>3. /\ c \in [0 .. n -> Surrounding] /\ c[0] = Outside
      /\ \A k \in 1 .. n : c[k] = Follow(c[k - 1], t[k])
  BY ContextsSteps
<1>4. \A k \in 1 .. n : DocFollow(c[k - 1], t[k]) = Follow(c[k - 1], t[k])
  BY UndisputedCharacter
<1> HIDE DEF n, c
<1>5. c = Rounds(c)
  <2>1. ASSUME NEW k \in 0 .. n
        PROVE  c[k] = IF k = 0 THEN Outside ELSE DocFollow(c[k - 1], t[k])
    <3>1. k = 0 \/ k \in 1 .. n
      BY <1>1
    <3>2. k \in 1 .. n => k # 0
      BY <1>1
    <3> QED
      BY <1>3, <1>4, <3>1, <3>2, Zenon
  <2>2. c = [k \in 0 .. n |-> c[k]]
    BY <1>3
  <2> QED
    BY <2>1, <2>2
<1>6. ctx = Rounds(ctx)
  BY <1>5
<1> HIDE DEF ctx
<1>7. DOMAIN ctx = 0 .. n /\ ctx = [k \in 0 .. n |-> ctx[k]]
  BY <1>6
<1>8. ctx[0] = Outside /\ \A k \in 1 .. n : ctx[k] = DocFollow(ctx[k - 1], t[k])
  <2>1. \A k \in 0 .. n : ctx[k] = IF k = 0 THEN Outside ELSE DocFollow(ctx[k - 1], t[k])
    BY <1>6
  <2> QED
    BY <1>1, <2>1
<1> DEFINE G == {k \in 0 .. n : ctx[k] = c[k]}
<1>9. 0 \in G
  BY <1>1, <1>3, <1>8
<1>10. ASSUME NEW k \in 1 .. n, k - 1 \in G PROVE k \in G
  <2>1. ctx[k - 1] = c[k - 1] /\ k \in 0 .. n
    BY <1>1, <1>10
  <2>2. ctx[k] = c[k]
    BY <1>3, <1>4, <1>8, <2>1, Zenon
  <2> QED
    BY <2>1, <2>2
<1> HIDE DEF G
<1>11. \A k \in 0 .. n : k \in G
  BY <1>1, <1>9, <1>10, UpToInduction
<1>12. \A k \in 0 .. n : ctx[k] = c[k]
  BY <1>11 DEF G
<1>13. ctx = c
  <2>1. [k \in 0 .. n |-> ctx[k]] = [k \in 0 .. n |-> c[k]]
    BY <1>12
  <2>2. c = [k \in 0 .. n |-> c[k]]
    BY <1>3
  <2> QED
    BY <1>7, <2>1, <2>2, Zenon
<1> QED
  BY <1>2, <1>13 DEF c

LEMMA UndisputedSymbols ==
    ASSUME NEW t \in Seq(Character), QuotesUndisputed(t)
    PROVE  DocSymbols(t) = Symbols(t)
<1> DEFINE c == Contexts(t)
<1>1. DocContexts(t) = c
  BY UndisputedContexts
<1>2. \A k \in 1 .. Len(t) : DocSymbolsOf(c[k - 1], t[k]) = SymbolsOf(c[k - 1], t[k])
  BY UndisputedCharacter
<1> HIDE DEF c
<1>3. [k \in 1 .. Len(t) |-> DocSymbolsOf(c[k - 1], t[k])]
        = [k \in 1 .. Len(t) |-> SymbolsOf(c[k - 1], t[k])]
  BY <1>2
<1>4. DocSymbols(t) = FlattenSeq([k \in 1 .. Len(t) |-> DocSymbolsOf(c[k - 1], t[k])])
  BY <1>1 DEF DocSymbols
<1>5. Symbols(t) = FlattenSeq([k \in 1 .. Len(t) |-> SymbolsOf(c[k - 1], t[k])])
  BY DEF Symbols, c
<1> QED
  BY <1>3, <1>4, <1>5

\* There is nothing to leave out in front of a line that begins visibly.
LEMMA NothingInFront ==
    ASSUME NEW y \in Seq(Symbol), y # <<>> => y[1] # Space
    PROVE  WithoutLeading(y) = y
<1>1. Len(y) \in Nat
  BY LenProperties
<1>2. SubSeq(y, 1, Len(y)) = y
  <2>1. \A k \in 1 .. Len(y) : y[k] \in Symbol
    BY ElementOfSeq
  <2>2. 1 \in Int /\ Len(y) \in Int
    BY <1>1
  <2>3. /\ Len(y) - 1 + 1 = Len(y)
        /\ (IF 1 <= Len(y) THEN Len(y) - 1 + 1 ELSE 0) = Len(y)
        /\ \A k \in 1 .. Len(y) : 1 + k - 1 = k
    BY <1>1
  <2>4. /\ SubSeq(y, 1, Len(y)) \in Seq(Symbol)
        /\ Len(SubSeq(y, 1, Len(y))) = IF 1 <= Len(y) THEN Len(y) - 1 + 1 ELSE 0
        /\ \A k \in 1 .. Len(y) - 1 + 1 : SubSeq(y, 1, Len(y))[k] = y[1 + k - 1]
    BY <2>1, <2>2, SubSeqProperties
  <2>5. /\ Len(SubSeq(y, 1, Len(y))) = Len(y)
        /\ \A k \in 1 .. Len(y) : SubSeq(y, 1, Len(y))[k] = y[k]
    BY <2>3, <2>4
  <2> QED
    BY <2>4, <2>5, SeqEqual
<1> DEFINE T == NoSpaces(y) \cup {Len(y) + 1}
<1>3. 1 \in T /\ \A k \in T : k \in Nat /\ 1 <= k
  <2>1. \A k \in T : k \in Nat /\ 1 <= k
    BY <1>1 DEF NoSpaces
  <2>2. y = <<>> => Len(y) + 1 = 1
    OBVIOUS
  <2>3. y # <<>> => 1 \in 1 .. Len(y)
    BY <1>1, EmptySeq
  <2>4. y # <<>> => 1 \in NoSpaces(y)
    BY <2>3 DEF NoSpaces
  <2> QED
    BY <2>1, <2>2, <2>4
<1> HIDE DEF T
<1>4. Min(T) = 1
  <2>1. /\ Min(T) \in T
        /\ \A k \in T : Min(T) <= k
    BY <1>3 DEF Min
  <2>2. Min(T) \in Nat /\ 1 <= Min(T) /\ Min(T) <= 1
    BY <1>3, <2>1
  <2> QED
    BY <2>2
<1>5. WithoutLeading(y) = SubSeq(y, 1, Len(y))
  BY <1>4 DEF WithoutLeading, T
<1> QED
  BY <1>2, <1>5

\* A key with characters is what tells a line from a blank one.
LEMMA UndisputedEntries ==
    ASSUME NEW y \in Seq(Symbol), NEW flags,
           y # <<>> => Shown(Parts(y, flags)[1]) # <<>>
    PROVE  DocEntries(y, flags) = Entries(y, flags)
<1> DEFINE q == Parts(y, flags)
           keys == FlattenSeq([k \in 1 .. Len(q) |-> EntryOf(q[k], k, flags)])
<1>1. y # <<>> <=> Shown(q[1]) # <<>>
  <2>1. CASE y = <<>>
    <3>1. q = Nothing /\ Nothing[1] = <<>>
      BY <2>1, PartsEmpty, NothingIsPiece
    <3>2. Shown(<<>>) = <<>>
      <4>1. <<>> \in Seq(Symbol)
        OBVIOUS
      <4>2. Shown(<<>>) = Cut(Inner(<<>>))
        BY <4>1, ShownTyped
      <4> QED
        BY <4>2, InnerEmpty, BufferFits DEF Cut
    <3> HIDE DEF q
    <3> QED
      BY <2>1, <3>1, <3>2
  <2>2. CASE y # <<>>
    BY <2>2
  <2> QED
    BY <2>1, <2>2
<1> DEFINE nonblank == IF "MULTI_VALUE" \in flags /\ y # <<>> THEN <<NULL>> ELSE <<>>
           keyed == IF "MULTI_VALUE" \in flags /\ Shown(q[1]) # <<>> THEN <<NULL>> ELSE <<>>
<1>2. DocEntries(y, flags) = keys \o nonblank
  BY DEF DocEntries
<1>3. Entries(y, flags) = keys \o keyed
  BY DEF Entries
<1>4. nonblank = keyed
  <2> HIDE DEF q
  <2> QED
    BY <1>1
<1> HIDE DEF q, keys, nonblank, keyed
<1> QED
  BY <1>2, <1>3, <1>4

LEMMA UndisputedMeans ==
    ASSUME NEW t \in Seq(Character), NEW flags, Undisputed(t, flags)
    PROVE  DocMeaning(t, flags) = Meaning(t, flags)
<1> DEFINE ls == Lines(t)
<1>1. ls \in Pieces
  BY ViewTyped DEF IsView, View
<1>2. /\ QuotesUndisputed(t) /\ LinesUndisputed(ls, flags) /\ NothingLeads(ls)
  BY DEF Undisputed
<1>3. Split(DocSymbols(t)) = ls
  BY <1>2, UndisputedSymbols DEF Lines
<1> HIDE DEF ls
<1>4. Len(ls) \in Nat /\ \A k \in 1 .. Len(ls) : ls[k] \in Seq(Symbol)
  BY <1>1, PiecesTyped
<1>5. DocLines(t) = ls
  <2>1. \A k \in 1 .. Len(ls) : WithoutLeading(ls[k]) = ls[k]
    BY <1>2, <1>4, NothingInFront DEF NothingLeads
  <2>2. [k \in 1 .. Len(ls) |-> WithoutLeading(ls[k])] = [k \in 1 .. Len(ls) |-> ls[k]]
    BY <2>1
  <2>3. ls = [k \in 1 .. Len(ls) |-> ls[k]]
    BY <1>1, PiecesTyped
  <2> QED
    BY <1>3, <2>2, <2>3 DEF DocLines
<1>6. \A k \in 1 .. Len(ls) : DocEntries(ls[k], flags) = Entries(ls[k], flags)
  BY <1>2, <1>4, UndisputedEntries DEF LinesUndisputed
<1>7. [k \in 1 .. Len(ls) |-> DocEntries(ls[k], flags)]
        = [k \in 1 .. Len(ls) |-> Entries(ls[k], flags)]
  BY <1>6
<1> QED
  BY <1>5, <1>7 DEF DocMeaning, Meaning, ls

----------------------------------------------------------------------------
\* The inductive invariant: what the parser holds is what it has read.
ReadsInv ==
    /\ IInv
    /\ status = "before" => text = <<>>
    /\ status \in {"reading", "returned"} => Reads(p, text)

LEMMA InitReadsInv == Init => ReadsInv
BY InitIInv DEF Init, ReadsInv

LEMMA NextReadsInv == ReadsInv /\ [Next]_vars => ReadsInv'
<1> SUFFICES ASSUME ReadsInv, [Next]_vars PROVE ReadsInv'
  OBVIOUS
<1>1. IInv'
  BY NextIInv DEF ReadsInv
<1>2. ASSUME NEW flags \in FlagArg, Begin(flags) PROVE ReadsInv'
  <2>1. Reads(NewParser(flags), <<>>)
    BY NewParserReads
  <2>2. p' = NewParser(flags) /\ text' = <<>> /\ status' = "reading"
    BY <1>2 DEF Begin, ReadsInv
  <2>3. Reads(p', text')
    BY <2>1, <2>2
  <2> QED
    BY <1>1, <2>2, <2>3 DEF ReadsInv
<1>3. CASE BeginFails
  BY <1>1, <1>3 DEF BeginFails, ReadsInv
<1>4. ASSUME NEW flags \in FlagArg, BeginAddFails(flags) PROVE ReadsInv'
  BY <1>1, <1>4 DEF BeginAddFails, ReadsInv
<1>5. ASSUME NEW c \in Character, Read(c) PROVE ReadsInv'
  <2>1. status = "reading" /\ p' = Handled(p, c) /\ text' = Append(text, c) /\ status' = "reading"
    BY <1>5 DEF Read, Reading
  <2>2. Sound(p)
    BY <2>1 DEF ReadsInv, IInv
  <2>3. Reads(p, text)
    BY <2>1 DEF ReadsInv
  <2>4. Reads(Handled(p, c), Append(text, c))
    BY <2>2, <2>3, HandledReads
  <2>5. Reads(p', text')
    BY <2>1, <2>4
  <2> QED
    BY <1>1, <2>1, <2>5 DEF ReadsInv
<1>6. ASSUME NEW c \in Character, Overrun(c) PROVE ReadsInv'
  BY <1>1, <1>6 DEF Overrun, ReadsInv
<1>7. ASSUME NEW c \in Character, AddFails(c) PROVE ReadsInv'
  BY <1>1, <1>7 DEF AddFails, ReadsInv
<1>8. ASSUME NEW c \in Character, ReallocFails(c) PROVE ReadsInv'
  BY <1>1, <1>8 DEF ReallocFails, ReadsInv
<1>9. CASE ReadFails
  BY <1>1, <1>9 DEF ReadFails, ReadsInv
<1>10. CASE End
  <2>1. p' = p /\ text' = text /\ status = "reading" /\ status' = "returned"
    BY <1>10 DEF End
  <2>2. Reads(p', text')
    BY <2>1 DEF ReadsInv
  <2> QED
    BY <1>1, <2>1, <2>2 DEF ReadsInv
<1>11. CASE UNCHANGED vars
  <2>1. p' = p /\ text' = text /\ status' = status
    BY <1>11 DEF vars
  <2> QED
    BY <1>1, <2>1 DEF ReadsInv
<1> QED
  BY <1>2, <1>3, <1>4, <1>5, <1>6, <1>7, <1>8, <1>9, <1>10, <1>11 DEF Next

LEMMA ReadsAlways == Spec => []ReadsInv
BY InitReadsInv, NextReadsInv, PTL DEF Spec

\* The array that is returned is what the text means by the rules that the code
\* keeps to, with its quotes, escapes, comments, dashes and separators; and if
\* documentation and code do not disagree about the text, it is what the text means
\* by the rules of the documentation (config_file.c 63-98, 129-193, 262-341).  This
\* holds for every length of the buffer and all flags, and for every text but those
\* the documentation leaves open: without an end of its last line, with protected
\* whitespace where tokens are trimmed, or with whitespace behind a continuation.
THEOREM ReturnsMeaning == Spec => []ActualMeaning
<1>1. ReadsInv => ActualMeaning
  <2>1. SUFFICES ASSUME ReadsInv, status = "returned", EndsWithLine(text),
                        TrimsDefinitely(Lines(text), p.flag), ContinuesVisibly(text)
                 PROVE  /\ p.a = Meaning(text, p.flag)
                        /\ Undisputed(text, p.flag) => p.a = DocMeaning(text, p.flag)
    BY DEF ActualMeaning, Returned
  <2>2. Reads(p, text)
    BY <2>1 DEF ReadsInv
  <2>3. p.a = Meaning(text, p.flag)
    BY <2>1, <2>2, ReadsMeaning
  <2>4. text \in Seq(Character)
    BY <2>2 DEF Reads
  <2> QED
    BY <2>3, <2>4, UndisputedMeans
<1> QED
  BY <1>1, ReadsAlways, PTL

----------------------------------------------------------------------------
(***************************************************************************)
(* The checks of owner, group and mode.                                    *)
(***************************************************************************)

\* The inductive invariant of a check: where it is says which descriptors are
\* open, and what fstat returned is one of the things that the checked file was.
CheckInv ==
    /\ CheckTypeOK
    /\ pc = "open" => fd = "lib" /\ stat_buf = NOTHING
    /\ pc = "fstat" => stat_buf = NOTHING /\ attr[table[fd]] \in seen
    /\ pc = "close" => fd = "lib"
    /\ pc \in {"open", "idle"} => table.lib = NOTHING
    /\ pc \in {"fstat", "check"} /\ fd = "own" => table.lib = NOTHING
    /\ stat_buf # NOTHING => stat_buf \in seen
    /\ pc \in {"idle", "close"} /\ stat_buf # NOTHING =>
          (verdict = 0 <=> Accepts(stat_buf))

\* Only the two required bits show as the digits of the required mode.
LEMMA RefusedNum ==
    ASSUME NEW m \in SUBSET Bit, m # Required
    PROVE  ModeNum(m) # ModeNum(Required)
BY DEF Bit, Required, ModeNum

\* Every other bit shows in a letter that the required mode has not.
LEMMA RefusedStr ==
    ASSUME NEW m \in SUBSET Bit, m # Required
    PROVE  ModeStr("none", m) # ModeStr("none", Required)
BY DEF Bit, Required, ModeStr, Letter

LEMMA CheckInitInv ==
    ASSUME CheckInit
    PROVE  CheckInv
BY PermissionAssumption DEF CheckInit, CheckInv, CheckTypeOK

\* When the checked file becomes another, it is seen as that.
LEMMA ChangeInv ==
    ASSUME CheckInv, NEW f \in File, NEW s \in Attr, Change(f, s)
    PROVE  CheckInv'
BY PermissionAssumption DEF Change, Counted, Accepts, CheckInv, CheckTypeOK

LEMMA CheckNextInv ==
    ASSUME CheckInv, [CheckNext]_check_vars
    PROVE  CheckInv'
<1> USE PermissionAssumption DEF CheckInv, CheckTypeOK
<1>1. ASSUME NEW f \in Flag, CheckPermission(f) PROVE CheckInv'
  BY <1>1 DEF CheckPermission, BeginCheck, files
<1>2. ASSUME NEW f \in Flag, CheckPermissionFd(f) PROVE CheckInv'
  BY <1>2 DEF CheckPermissionFd, BeginCheck, files
<1>3. CASE CheckExits
  BY <1>3 DEF CheckExits, BeginCheck, files, VANESSA_CONFIG_FILE_CHECK_ALL
<1>4. CASE CheckExitsFd
  BY <1>4 DEF CheckExitsFd, BeginCheck, files, VANESSA_CONFIG_FILE_CHECK_ALL
<1>5. CASE Open
  BY <1>5 DEF Open, files
<1>6. CASE OpenFails
  BY <1>6 DEF OpenFails, files
<1>7. CASE Fstat
  BY <1>7 DEF Fstat, files
<1>8. CASE FstatFails
  BY <1>8 DEF FstatFails, files
<1>9. CASE Check
  BY <1>9 DEF Check, files, Accepts
<1>10. CASE Close
  BY <1>10 DEF Close, files, Accepts
<1>11. ASSUME NEW f \in File, Chmod(f) PROVE CheckInv'
  BY <1>11, ChangeInv DEF Chmod, Attr
<1>12. ASSUME NEW f \in File, Chown(f) PROVE CheckInv'
  BY <1>12, ChangeInv DEF Chown, Attr
<1>13. ASSUME NEW f \in File, Chgrp(f) PROVE CheckInv'
  BY <1>13, ChangeInv DEF Chgrp, Attr
<1>14. CASE Rename
  BY <1>14 DEF Rename, Counted, Accepts
<1>15. CASE UNCHANGED check_vars
  BY <1>15 DEF check_vars, Accepts
<1> QED
  BY <1>1, <1>2, <1>3, <1>4, <1>5, <1>6, <1>7, <1>8, <1>9, <1>10, <1>11, <1>12,
     <1>13, <1>14, <1>15 DEF CheckNext

LEMMA CheckInvHolds == CheckSpec => []CheckInv
BY CheckInitInv, CheckNextInv, PTL DEF CheckSpec

\* A check only ever looks at an open descriptor, and only at what fstat returned
\* (config_file.c 573-657).
THEOREM ChecksTyped == CheckSpec => []CheckTypeOK
<1>1. CheckInv => CheckTypeOK
  BY DEF CheckInv
<1> QED
  BY <1>1, CheckInvHolds, PTL

\* Whatever other processes do meanwhile, the verdict is true of the checked file
\* as it was at one moment of the check (config_file.c 584-657).
THEOREM ChecksOfOneMoment == CheckSpec => []VerdictOfOneMoment
<1>1. CheckInv => VerdictOfOneMoment
  BY DEF CheckInv, VerdictOfOneMoment
<1> QED
  BY <1>1, CheckInvHolds, PTL

\* Every path out of a check closes the descriptor that it opened, and leaves that
\* of the caller open (config_file.c 680-690, 730-739).
THEOREM ChecksCloseDescriptors == CheckSpec => []DescriptorsBalanced
<1>1. CheckInv => DescriptorsBalanced
  BY PermissionAssumption DEF CheckInv, CheckTypeOK, DescriptorsBalanced
<1> QED
  BY <1>1, CheckInvHolds, PTL

\* Neither text of a refused mode is that of the required one (config_file.c
\* 642-653).
THEOREM RefusalsAlwaysLegible == CheckSpec => []RefusalLegible
<1>1. CheckInv => RefusalLegible
  <2>1. CheckInv /\ stat_buf # NOTHING => stat_buf.mode \in SUBSET Bit
    BY PermissionAssumption DEF CheckInv, CheckTypeOK, Attr
  <2> QED
    BY <2>1, RefusedNum, RefusedStr DEF RefusalLegible
<1> QED
  BY <1>1, CheckInvHolds, PTL
=============================================================================
