------------------------------- MODULE Split -------------------------------
(***************************************************************************)
(* One call of vanessa_dynamic_array_split_str or _split_str_to_int: the   *)
(* string is cut in place at each delimiter, and what is between two cuts  *)
(* is added to the array of DynamicArray, by its actions.  Each round of   *)
(* the loop is one action, because each may fail.                          *)
(*                                                                         *)
(* A character is a digit, DELIMITER, MINUS or NUL.  The terminator of the *)
(* string is the place behind the sequence.  Elements are named after the  *)
(* order of their allocation; value says what was copied into each.        *)
(* No string is so long that a vector with a slot for each of its          *)
(* characters, and a block more, would not fit into the address space.     *)
(***************************************************************************)
EXTENDS DynamicArray, ElementOps

CONSTANTS
    Text,         \* the strings callers pass
    MINUS, NUL

Digit == 0 .. 9

ASSUME TextAssumption ==
    /\ NUL \notin Digit \cup {DELIMITER, MINUS}
    /\ NULL \notin Text \cup {"array"}
    /\ \A t \in Text :
          /\ t \in Seq(Digit \cup {DELIMITER, MINUS})
          /\ Len(t) <= SSIZE_MAX
          /\ (Len(t) + VANESSA_DEFAULT_DYNAMIC_ARRAY_BLOCK_SIZE) * PointerSize <= SIZE_MAX
    /\ 1 .. SSIZE_MAX \subseteq Elem
    /\ 0 \in BlockArg

VARIABLES
    original,     \* ghost: the string as it was passed, or NULL
    to_int,       \* whether vanessa_dynamic_array_split_str_to_int was called
    text,         \* the string now
    string,       \* where string points to: the next word
    value,        \* the elements, in the order of their allocation
    pc,           \* "create", "loop", or "returned"
    result        \* what was returned: NULL or "array"

split_vars == <<original, to_int, text, string, value, pc, result, vars>>

----------------------------------------------------------------------------
\* Where the words of a text begin: at its start and behind each delimiter, but
\* not at its end.
Starts(t) == {p \in 1 .. Len(t) : p = 1 \/ t[p - 1] = DELIMITER}

WordFrom(t, p) ==
    LET cuts == {q \in p .. Len(t) : t[q] = DELIMITER}
    IN  SubSeq(t, p, IF cuts = {} THEN Len(t) ELSE SeqOps!Min(cuts) - 1)

\* Where the string that string points to ends
End == LET nul == SeqOps!SelectInSubSeq(text, string, Len(text), LAMBDA c : c = NUL)
       IN  IF nul = 0 THEN Len(text) + 1 ELSE nul

\* strchr(string, delimiter): 0 for NULL
Found == SeqOps!SelectInSubSeq(text, string, End - 1, LAMBDA c : c = DELIMITER)

\* atoi of a word: a sign and the digits behind it, as far as there are any
Atoi(word) ==
    LET signed == word # <<>> /\ word[1] = MINUS
        rest   == IF signed THEN Tail(word) ELSE word
        stop   == SeqOps!SelectInSeq(rest, LAMBDA c : c \notin Digit)
        digits == IF stop = 0 THEN rest ELSE SubSeq(rest, 1, stop - 1)
        number == SeqOps!FoldLeft(LAMBDA n, d : 10 * n + d, 0, digits)
    IN  IF signed THEN -number ELSE number

\* What element_duplicate copies: the word, or i, the int that it represents
Copied(word) == IF to_int THEN Atoi(word) ELSE word

\* atoi is undefined for words that are no int.
AllInts(t) == \A p \in Starts(t) : Atoi(WordFrom(t, p)) \in CInt

Add(word) ==
    /\ AddElement(Len(value) + 1)
    /\ value' = Append(value, Copied(word))

\* The array is destroyed when realloc fails, but not when element_duplicate does.
AddFails ==
    /\ AddDuplicateFails \/ AddReallocFails
    /\ value' = value
    /\ pc' = "returned"
    /\ result' = NULL

----------------------------------------------------------------------------
CreateArray ==
    /\ pc = "create"
    /\ original # NULL
    /\ Create(0)
    /\ pc' = "loop"
    /\ UNCHANGED <<original, to_int, text, string, value, result>>

RejectNull ==
    /\ pc = "create"
    /\ original = NULL
    /\ pc' = "returned"
    /\ UNCHANGED <<original, to_int, text, string, value, result, vars>>

CreateFails ==
    /\ pc = "create"
    /\ original # NULL
    /\ pc' = "returned"
    /\ UNCHANGED <<original, to_int, text, string, value, result, vars>>

\* Mutant: the delimiter stays and the loop begins again with it.
AddWordStays ==
    /\ pc = "loop"
    /\ Found # 0
    /\ Add(SubSeq(text, string, Found - 1))
    /\ string' = Found
    /\ UNCHANGED <<original, to_int, text, pc, result>>

\* Mutant: the next word begins with the delimiter's place.
AddWordNoStep ==
    /\ pc = "loop"
    /\ Found # 0
    /\ text' = [text EXCEPT ![Found] = NUL]
    /\ Add(SubSeq(text, string, Found - 1))
    /\ string' = Found
    /\ UNCHANGED <<original, to_int, pc, result>>

AddWord ==
    /\ pc = "loop"
    /\ Found # 0
    /\ text' = [text EXCEPT ![Found] = NUL]
    /\ Add(SubSeq(text, string, Found - 1))
    /\ string' = Found + 1
    /\ UNCHANGED <<original, to_int, pc, result>>

AddWordFails ==
    /\ pc = "loop"
    /\ Found # 0
    /\ text' = [text EXCEPT ![Found] = NUL]
    /\ AddFails
    /\ UNCHANGED <<original, to_int, string>>

AddLastWord ==
    /\ pc = "loop"
    /\ Found = 0
    /\ string < End
    /\ Add(SubSeq(text, string, End - 1))
    /\ pc' = "returned"
    /\ result' = "array"
    /\ UNCHANGED <<original, to_int, text, string>>

AddLastWordFails ==
    /\ pc = "loop"
    /\ Found = 0
    /\ string < End
    /\ AddFails
    /\ UNCHANGED <<original, to_int, text, string>>

\* The string ends with a delimiter, or is empty.
NoLastWord ==
    /\ pc = "loop"
    /\ Found = 0
    /\ string = End
    /\ pc' = "returned"
    /\ result' = "array"
    /\ UNCHANGED <<original, to_int, text, string, value, vars>>

----------------------------------------------------------------------------
SplitInit ==
    /\ Init
    /\ original \in Text \cup {NULL}
    /\ to_int \in BOOLEAN
    /\ to_int /\ original # NULL => AllInts(original)
    /\ text = original
    /\ string = 1
    /\ value = <<>>
    /\ pc = "create"
    /\ result = NULL

\* What the library does by itself, while every allocation succeeds
Proceed ==
    \/ RejectNull
    \/ CreateArray
    \/ AddWord
    \/ AddLastWord
    \/ NoLastWord

SplitNext ==
    \/ Proceed
    \/ CreateFails
    \/ AddWordFails
    \/ AddLastWordFails

\* The loop of a call runs on: nothing in it waits for anything.  An allocation
\* may fail at any time, but never has to.
FairSpec == SplitInit /\ [][SplitNext]_split_vars /\ WF_split_vars(Proceed)

----------------------------------------------------------------------------
\* Where the k-th word begins
Start(k) ==
    CHOOSE p \in Starts(original) :
        Cardinality({q \in Starts(original) : q <= p}) = k

Words ==
    [k \in 1 .. Cardinality(Starts(original)) |->
        Copied(WordFrom(original, Start(k)))]

\* What a caller reads from the array, by index
Read == [k \in 1 .. a.count |-> value[GetElement(a, k - 1)]]

SplitTypeOK ==
    /\ TypeOK
    /\ original \in Text \cup {NULL}
    /\ Len(value) <= SSIZE_MAX
    /\ a # NULL => string \in 1 .. Len(text) + 1
    /\ to_int => \A k \in DOMAIN value : value[k] \in CInt

\* An array that is returned has the words of the text in their order, empty ones
\* between two delimiters included and an empty one at the end left out, each as
\* it was copied although the buffer and i were used again; the text is cut at its
\* delimiters and nowhere else (dynamic_array.c 513-526, 561-579).
WordsRight ==
    result = "array" =>
        /\ Read = Words
        /\ \A p \in 1 .. Len(text) :
              text[p] = IF original[p] = DELIMITER THEN NUL ELSE original[p]

\* When NULL is returned, an array may be left that nobody can destroy: then it
\* holds the words in front of the one that was not added, each whole.  Up to the
\* default block size of words, the failure does not lead into the loop of
\* vanessa_dynamic_array_destroy over the vector that realloc has set to NULL
\* (dynamic_array.c 515-518, 522-525, 138-142, 181-186).
FailureContained ==
    pc = "returned" /\ result = NULL =>
        /\ a # NULL => SeqOps!IsStrictPrefix(Read, Words) /\ string = Start(a.count + 1)
        /\ undefined => Len(Words) > VANESSA_DEFAULT_DYNAMIC_ARRAY_BLOCK_SIZE

\* For ints that were split, vanessa_length_int counts the characters that
\* vanessa_display_int prints, but for the smallest int, and vanessa_match_int
\* takes two for equal exactly when they are, also where their difference wraps
\* around; its sign is not that of an order (element_ops.c 81-117).
IntsExact ==
    to_int => \A j, k \in DOMAIN value :
        /\ value[j] = INT_MIN \/ LengthInt(value[j]) = PrintedLength(value[j])
        /\ MatchInt(value[j], value[k]) = 0 <=> value[j] = value[k]

\* Every call returns (dynamic_array.c 513-521, 561-570).
SplitReturns == <>(pc = "returned")
=============================================================================
