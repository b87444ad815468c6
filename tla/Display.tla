------------------------------ MODULE Display ------------------------------
(***************************************************************************)
(* vanessa_list_length, vanessa_dynamic_array_length, vanessa_hash_length  *)
(* and the three functions _display, which measure a buffer and fill it.   *)
(* They are functions of the values held: a list or an array is the        *)
(* sequence of its values, NULL among them, a hash the sequence of its     *)
(* buckets, NULL for one without a list.                                   *)
(*                                                                         *)
(* What element_display writes for a value is a sequence of element_length *)
(* characters, all of which are shown as the value itself.  A text does    *)
(* not include its terminator, for which there is one more place in a      *)
(* buffer.                                                                 *)
(***************************************************************************)
EXTENDS Integers, Sequences, FiniteSets, Pointers

CONSTANTS
    e_length,     \* the element_length argument: NULL or a function to Nat
    e_display,    \* the element_display argument: NULL or a callback
    DELIMITER,    \* the delimiter argument
    COMMA         \* what vanessa_hash_display puts between buckets

\* The separators are told apart from what is shown of the values.
ASSUME DisplayAssumption ==
    /\ NULL # <<>>
    /\ e_length # NULL =>
          /\ \A v \in DOMAIN e_length : e_length[v] \in Nat
          /\ {DELIMITER, COMMA} \cap DOMAIN e_length = {}

SeqOps == INSTANCE SequencesExt

LengthOf(v) == IF v = NULL THEN 0 ELSE e_length[v]

CharsOf(v) == [k \in 1 .. LengthOf(v) |-> v]

\* What the loops of both displays write: each value with a delimiter behind it.
Written(s) ==
    SeqOps!FoldLeft(LAMBDA text, v : text \o CharsOf(v) \o <<DELIMITER>>, <<>>, s)

\* What the loops of both lengths count: each value with a delimiter behind it.
Measured(base, s) == SeqOps!FoldLeft(LAMBDA len, v : len + LengthOf(v) + 1, base, s)

\* Mutant: the delimiters are not counted for NULL elements.
ListLengthOfValues(s) ==
    IF s = <<>> \/ e_length = NULL THEN 0
    ELSE SeqOps!FoldLeft(
             LAMBDA len, v : IF v = NULL THEN len ELSE len + LengthOf(v) + 1, 0, s) - 1

ListLength(s) ==
    IF s = <<>> \/ e_length = NULL THEN 0
    ELSE Measured(0, s) - 1

\* len after the loop of vanessa_list_display: a value that is NULL leaves it.
LastLength(s) ==
    SeqOps!FoldLeft(LAMBDA len, v : IF v = NULL THEN len ELSE LengthOf(v), 0, s)

ListDisplay(s) ==
    CASE s = <<>> -> NULL
      [] s # <<>> /\ NULL \in {e_length, e_display} -> <<>>
      [] OTHER -> IF LastLength(s) # 0 THEN SeqOps!Front(Written(s)) ELSE Written(s)

\* Mutant: the delimiters are not counted.
ArrayLengthOfElements(s) ==
    IF s = <<>> \/ e_length = NULL THEN 0
    ELSE SeqOps!FoldLeft(LAMBDA len, v : len + LengthOf(v), 0, s)

\* The delimiters are counted twice.
ArrayLength(s) ==
    IF s = <<>> \/ e_length = NULL THEN 0
    ELSE Measured(Len(s) - 1, s) - 1

ArrayDisplay(s) ==
    CASE s = <<>> -> NULL
      [] s # <<>> /\ NULL \in {e_length, e_display} -> <<>>
      [] OTHER -> SeqOps!Front(Written(s))

\* Mutant: no place for the comma behind a bucket.
HashLengthOfBuckets(buckets) ==
    SeqOps!FoldLeft(LAMBDA n, s : IF s = NULL THEN n ELSE n + ListLength(s), 0, buckets)

HashLength(buckets) ==
    LET len == SeqOps!FoldLeft(
                   LAMBDA n, s : IF s = NULL THEN n ELSE n + ListLength(s) + 1,
                   0, buckets)
    IN  IF len # 0 THEN len - 1 ELSE 0

\* NULL from vanessa_list_display is taken for an error.
HashDisplay(buckets) ==
    IF <<>> \in {buckets[n] : n \in 1 .. Len(buckets)} THEN NULL
    ELSE SeqOps!FoldLeft(
             LAMBDA str, s :
                 CASE s = NULL -> str
                   [] s # NULL /\ str = <<>> -> ListDisplay(s)
                   [] OTHER -> str \o <<COMMA>> \o ListDisplay(s),
             <<>>, buckets)

----------------------------------------------------------------------------
\* All values of the buckets, one bucket after the other
AllValues(buckets) ==
    SeqOps!FoldLeft(LAMBDA vs, s : IF s = NULL THEN vs ELSE vs \o s, <<>>, buckets)

Occurrences(C, s) == Cardinality({k \in DOMAIN s : s[k] \in C})

\* The text shows the values of s, each as often as it is there, with one
\* separator between any two.
Shows(text, s, separators) ==
    /\ \A v \in DOMAIN e_length :
          Occurrences({v}, text) = LengthOf(v) * Occurrences({v}, s)
    /\ Occurrences(separators, text) = Len(s) - 1

\* Between two buckets there is a comma, and the delimiter only within a bucket.
ShowsBuckets(text, buckets) ==
    /\ Shows(text, AllValues(buckets), {DELIMITER, COMMA})
    /\ DELIMITER # COMMA =>
          Occurrences({COMMA}, text) = Len(buckets) - Occurrences({NULL}, buckets) - 1
=============================================================================
