# vanessa_adt: specifications and proofs

TLA+ modules for the data structures of libvanessa_adt (`src/libvanessa_adt/`),
TLC configurations that check them on small instances, and TLAPS proofs, for
every instance, of all their invariants and of four refinements.

    tlc -config List.cfg MCList       # any of the runs below
    tlapm ListProofs.tla              # any of the *Proofs modules

## 1. The system

The library is passive: no threads, no signals, no persistent state. A program
calls its functions one after the other, and hands in callbacks (destroy,
duplicate, match, sort, hash, display, length). Two things can interfere with a
call: an allocation (or a callback, or a call of the operating system) that fails in
the middle of it, and, in the checks of configuration files, other processes that
change the file.

| component | state | operations | uses |
|---|---|---|---|
| List (`list.c`) | `first`, `last`, cells with `next`/`prev`/`value`, the ring `recent` with `recent_offset`, `norecent`, callbacks | create, add, get (moves to the front under `VANESSA_LIST_REORDER`), remove, destroy, duplicate; count, iterate, length, display | element callbacks |
| Dynamic array (`dynamic_array.c`) | `vector`, `count`, `allocated_size`, `block_size`, callbacks | create, add, delete, reverse, destroy, duplicate; get, count, vector, length, display | element callbacks |
| String splitting (`dynamic_array.c`) | the string, cut in place, and the array being filled | split_str, split_str_to_int | Dynamic array, element operations |
| Hash (`hash.c`) | an array of buckets, each `NULL` or a list, callbacks | create, add, get, remove, destroy, duplicate; count, iterate, length, display | List |
| Queue (`queue.c`) | `first`, `last`, members, `size` | create, push, pop, destroy; peek, length | `e_destroy` |
| Key-value pair (`key_value.c`) | two pointers with their callbacks | create, assign, unassign, duplicate, destroy, get | - |
| Element operations (`element_ops.c`) | - | duplicate, display, measure and compare ints | - |
| Configuration parser (`config_file.c`) | the token buffer and the flags for escape, quote, comment, key and value | read_fd, read | Dynamic array |
| Configuration checks (`config_file.c`) | a descriptor and `stat_buf`, during a check | check_permission, check_exits, each for a path and for a descriptor; mode strings | the file system, which other processes change meanwhile |

How they interact: the hash calls the list for each bucket, creates bucket
lists on demand and relies on what a failed list call leaves behind. The
parser and the split functions fill dynamic arrays. All of them own the
elements that `element_duplicate` makes and give each to `element_destroy` once.

What is hard:

- **failure in the middle of a call.** `add` of list, array (`realloc`) and
  queue destroy the container when memory runs out; callers in the same library
  (`vanessa_list_duplicate`, the hash, `vanessa_dynamic_array_duplicate`)
  have to know. When the array's `element_duplicate` fails, the array is *not*
  destroyed.
- **the order of pointer assignments** in the move to the front and removal,
  and a pointer (`last`) that no test looks at until a later call needs it.
- **two structures for the same elements**: the recent ring and the chain.
- **boundaries**: the ring's wrap-around, vectors that grow and shrink by blocks
  in unsigned arithmetic, stale slots behind the last element, an int `size`.
- **states that look alike**: a bucket without a list, one with an empty list.
- **flags that combine**: the parser has seven, and an offset into the token in
  progress (`last_escaped`) that outlives it.
- **other processes**: between the `open`, the `fstat` and the return of a check the
  file's mode and owner may change, and its path may name another file.
- **loops over what a call rewires**: the duplication starts at `last` and follows
  `prev` after lookups have moved cells to the front.

What makes each component correct:

- List: the chain is doubly linked and holds exactly the allocated cells, `last`
  ends it, the ring never dangles, sorted insertion sorts, lookups are exact
  whichever structure answers, duplicates are complete, destroy frees all.
- Dynamic array: nothing is stored behind the vector, the unsigned subtractions
  do not wrap around, every live element is in exactly one used slot.
- Hash: each element is in the bucket where its hash looks for it, so that a
  lookup in one bucket is a lookup in the hash; duplicates are complete.
- Queue: first in, first out; one chain that survives running empty; an exact
  length.
- Key-value pair: every object has one owner, through assign, unassign, duplicate
  and destroy, and no pair shows an object that is gone.
- Parser: the array it returns is what the text means under the rules of quotes,
  escapes and comments, the documented ones where the code keeps to them; the token stays
  in its buffer; the file is closed
  once, by whichever return is taken.
- Splitting: the array has the words of the text, each copied before its buffer is
  used again; what a failure leaves behind is known; the loop ends.
- Checks: all of them speak of one file at one moment; a check closes its own
  descriptor, on each of its eight returns, and never its caller's; a mode that is
  refused can be told from the required one in the report.

`PROJECT.json` lists all components, also those not modelled, and the hazards
with the properties that cover each.

## 2. Modules

    Chain ---- ListOps ---- List ---- ListDoc ---- MCList        DocList
      |           +-------- Hash ---- MCHash                     DocHash
      +---- Queue ---- MCQueue                                   DocQueue
    Display ---- DynamicArray ---- MCDynamicArray                DocArray
      |            +---- Split ---- MCSplit
      |   ElementOps ------+
      +---- List, Hash
    ConfigFile ---- ConfigDoc ---- MCConfigFile
    KeyValue ---- MCKeyValue
    Permission ---- MCPermission

    SharedProofs ---- ListOpsProofs ---- ListProofs, HashProofs
      +---- QueueProofs
      +---- DynamicArrayProofs
    ConfigFileProofs (of ConfigDoc and Permission)   KeyValueProofs

All of these are EXTENDS. `Chain` and `Display` both extend `Pointers`. `Split` extends
`DynamicArray` and `ElementOps`. The four `Doc*` modules are instantiated by the module
that implements them (`List` by `ListDoc`).

| module | what it is |
|---|---|
| `Pointers` | `NULL`. |
| `Chain` | Links over cells: the cells a loop visits (`Reach`, a least set rather than a recursion), where a search stops (`FirstOnWalk`), the two chain invariants, and what a walk from the first cell shows (`Walk`, `Contents`): what is displayed, and what a refinement mapping reads off the cells. |
| `ListOps` | A `vanessa_list_t` with its heap as one record, and every function of `list.c` as an operator from lists to lists. |
| `List` | A program with one list and a duplicate of it; one action per function, and one per round of the loop of `vanessa_list_duplicate`. |
| `Hash` | A program with one hash and a duplicate of it; buckets are lists of `ListOps`. The mapping to `DocHash`. |
| `Queue` | A program with one queue. The mapping to `DocQueue`. |
| `DynamicArray` | A program with one array and a duplicate of it. The mapping to `DocArray`. |
| `ElementOps` | The callbacks for ints, in an int that wraps around. |
| `Split` | One call of a split function: an action for each word, and for each way to fail, that takes the action of `DynamicArray` which the code calls for it. |
| `Display` | The length and display functions of list, array and hash on the sequence of values held, and what a text has to show. |
| `Doc*` | The abstract specifications: what the documentation promises, without cells, buckets or slots. A list and an array are sequences, a hash is a bag, a queue is a sequence used at its two ends. Where the code does something else, a constant chooses between the two. |
| `ListDoc` | The refinement mapping from `List` to `DocList`, and a sentence of the documentation the code does not keep. |
| `KeyValue` | A program with a few key-value pairs that own, share, give back and duplicate its objects. |
| `ConfigFile` | One call of `vanessa_config_file_read`: an operator for each macro of the parser, an action for each character and for each way to fail. |
| `ConfigDoc` | What a text means: symbols, lines, words, entries, defined on whole texts and without any state of the parser; by the rules of the code (`Meaning`), by those of the documentation (`DocMeaning`), and for which texts the two agree (`Undisputed`). Each is a recursive function on the prefixes, not a `RECURSIVE` operator, so that it can be proved about. |
| `Permission` | Checks of a file, one after the other: an action for each call of the operating system, and for each change that another process makes. |
| `MC*` | Values, callbacks and symmetry for TLC, and the sentences of the documentation that a run refutes. |

How state and actions correspond to the code:

- A record holds the fields of the C structure under their names. `cells` is the
  set of cells that are allocated; the fields of others are `NULL`, so that a
  pointer to freed memory is visible as a pointer to a cell that is not in
  `cells`. `held` of an array plays that part for elements.
- A call that returns without having changed anything (`l` is `NULL`, the first
  `malloc` of a create fails, peeks, counts) is a stuttering step and no action.
- A failing allocation is an action of its own (`AddElementFails`,
  `AddListFails`, `DeleteReallocFails`...). It may happen in every call and in
  every round of a duplication.
- Values are model values, told apart as far as the callbacks do; `e_match` and
  `e_sort` are functions to `Int`, or `NULL` for the default. The match that is
  used compares a stored value with a key in that order, as the code does.
- `element_duplicate` is taken as one that returns a value equal to its argument
  for the callbacks; in `DynamicArray`, where ownership is the question, it
  returns an element the array does not hold.
- Where C leaves open what happens, the model does not continue with one
  guess: `undefined` becomes TRUE, and no action follows (`List`, `Hash`,
  `DynamicArray`). A round of a list's duplication that fails leaves the duplicate
  `FREED`: undefined, if rounds follow (list.c 607-609 do not look at the result), and
  once the program destroys what it was given. `AddNull` of a hash, which indexes with a
  variable that was never set, may crash or hit any bucket; the list that bucket had is
  `lost`. `AddOverflows` of an array stores behind a vector whose size in bytes wrapped
  around (dynamic_array.c 181-183).
- The parser's characters are seven kinds: those its `switch` names (blank and tab,
  newline and carriage return behave alike), the dash, and all others. Of the others the
  code tells one apart, the NUL byte, at which `strlen` and `strdup` end a token (109,
  122, 149): files contain none. Chunks of the file that
  `read` returns are not modelled: the loop keeps no state between them other
  than its local variables, so the file may end, or `read` fail, after any character.
- The macro `ADD_TOKEN` has four outcomes: the token is added, `strdup` fails
  (`AddFails`), `realloc` fails (`ReallocFails`), or the trimming starts behind the
  terminator of the token (`Overrun`), where it reads what was never written.
- The program destroys a duplicate before it goes on with the original. Each
  lives in a heap of its own, so calls on one cannot affect the other.
- The displays are operators on what a state holds (`Display`). A text of
  `element_length(v)` characters is that many times `v`, so that a text says which
  values it shows, how often, and how long it is. `DisplayExact` and
  `DisplayFits` compare it, in every state, with what the container holds and with
  the buffer that the length function asks for.
- The program of `KeyValue` keeps to what the documentation asks of it: it hands an
  object over (assign with a destroy function) only once and only when it is its
  own, does not destroy what a structure still shows, and duplicates a structure
  that destroys a part only when it can duplicate that part - otherwise both would
  destroy the same object, which the library leaves to its callers. A callback that
  is given `NULL`, as after a failed duplication, does nothing.
- In `Split` a text is a sequence of digits, `DELIMITER` and `MINUS`; the code cuts
  it by writing `NUL`. `original` keeps the text, and `value[e]` says what the element
  `e` had copied, which the code has in the memory of the element: a word, or the int
  `i` that is used again for the next. `a` keeps the array also where the code loses
  the pointer to it. `SSIZE_MAX` bounds both the text and the array, so that a loop which
  does not end is stuck, and violates `SplitReturns`, instead of running on; a text
  never has more words than characters, which is proved (`SplitTypeOK`).
- In `Permission` the file system is `named` (what the path names) and `attr` (what
  `fstat` says of each file). `Chmod`, `Chown`, `Chgrp` and `Rename` are other
  processes; they act between any two calls of the check, at most `MaxChanges`
  times. `seen` collects what the checked file was between the call - the
  `open`, for a path - and the return. The arguments `uid`, `gid` and
  `mode` are not modelled: the code does not use them.
- `lost` collects the kinds of memory that a destroy leaves allocated.

## 3. Runs

Where a call is one step of a model, that its loops end is part of `ChainIntact`:
what `first` reaches by `next` is the finite set of allocated cells, and each has one
predecessor. Two loops are followed round by round. `DuplicateAdvances` is the variant of
the one in `vanessa_list_duplicate`, an action property: each round leaves strictly
fewer cells in front of it. `SplitReturns` is the liveness of the one in the split
functions. It assumes weak fairness of `Proceed`, the steps that the library takes by
itself: nothing in the loop waits for anything, so a program that runs at all takes
them. The steps in which an allocation fails have no fairness, since none ever has to
fail. No other specification assumes fairness: when and whether a program makes
its next call is its own affair.

Runs that pass:

| run | shows | instance | states |
|---|---|---|---|
| `List` | chain, `last`, recent ring, sortedness, lookups, duplicates, freed cells, display, progress of a duplication; `List` implements `DocList` | 3 cells; 3 values, 2 of them equal for the callbacks, and `NULL`; `norecent` -1 (`VANESSA_LIST_REORDER`), -3 (stored as 0), 2; with and without match and sort; every failure | 37298 |
| `DynamicArray` | sizes, ownership, duplicates, display; `DynamicArray` implements `DocArray` | 4 elements and `NULL`; block sizes 0 (default 7), 1, 2 and 8, of which 8 overflows a `SIZE_MAX` of 15 with pointers of size 2, at most 4 elements in the array, indices of elements | 23629 |
| `Hash` | buckets, placement, lookups, duplicates, display, while `NULL` may be added; `Hash` implements `DocHash` | 2 buckets, 3 cells each, 4 values: two match, three share a bucket | 29004 |
| `Queue` | chain, length through its wrap-around; `Queue` implements `DocQueue` | 4 members, `INT_MAX` = 2 | 5610 |
| `Split` | the words, the cuts, what a failure leaves, ints measured and compared; every call returns | every text of up to 5 of 5 kinds of characters (`DELIMITER`, `MINUS`, 0, 1, 6) whose words are ints of `INT_MAX` = 15 (the smallest is among them), and texts of 7 and 8 words, for the block of 7 to overflow; `SSIZE_MAX` = 8; both functions; every failure | 46256 |
| `KeyValue` | nothing destroyed twice, no pointer to a destroyed object, no object without an owner | 2 structures, 4 objects; every combination of callbacks | 20455 |
| `ConfigFile` | token and offset in the buffer, flags that agree, the file closed once, and the array is what the text means, by the documentation where it and the code agree | every text of up to 6 of 7 kinds of characters; no flag, `BLANK`, `MULTI_VALUE` with `X`; tokens of 3 characters | 1268869 |
| `Permission` | the verdict is of one moment of one file, descriptors are balanced, refusals can be read | 2 files, one of them regular; 2 users and groups; 3 modes (the required one, and it with `IXOTH` or `ISVTX`); flags none, `UID` and `MODE`, all; 2 changes by others in each check | 1265760 |

The runs of list, hash, array, queue and key-value pair do not repeat their type invariants,
nor does `Hash` its freed cells: these are theorems (section 4).

The abstract specifications have constants for what the code does otherwise than its
documentation, so that each exception has a name. The queue has none, and implements
the documented specification (`DocumentedSpec`). The others implement an `ActualSpec`,
which is the documented one with these exceptions:

| component | the documentation says | `ActualSpec` allows | constant |
|---|---|---|---|
| list | "at the begining of the list" (list.c 472) | an unsorted list inserts behind its first element | `FrontPosition` |
| list | "the element will be inserted in order" (471) | any place in a list whose elements lookups move | `SortsReordered` |
| list, array | "l, unchanged if value is null" (list.c 474), "Nothing is done if e is NULL" (dynamic_array.c 159) | `NULL` is inserted, or appended | `AddsNull` |
| list | "NULL [...] on error" of a duplication (586) | nothing is said after a failed duplication that goes on with freed memory | `MayBreak` |
| array | "NULL [...] on error" of an addition or a deletion (161, 217) | nothing is said after a failed `realloc`, or a growth that overflows | `MayBreak` |
| hash | "h, unchanged if value is NULL" (hash.c 354), "NULL [...] on error" (412) | nothing is said after `NULL` was added, or an element found no memory | `MayBreak` |

`ActualMeaning` has two parts. The array that the parser returns is `Meaning`, the rules
of the code; and wherever documentation and code do not disagree (`Undisputed`), it is
`DocMeaning`, the rules of the documentation. They disagree about a backslash, a single
quote or the end of a line in double quotes, the end of a line in single quotes, a
backslash in a comment, whitespace in front of a line, a line whose key has no
characters, and tokens longer than the buffer. Both parts are about texts that end with
a line, that have no escaped or quoted whitespace at the end of a key, no whitespace where
a word longer than a token is cut, and none right behind a continuation: for these the
documentation is silent, or contradicts itself. What the code does with any of them is in
the table of disagreements. `DocumentedMeaning`, of the run `ConfigKeys`, allows one of
the disputed texts, that with whitespace in front of a line, and is violated.

The displays are compared with the delimiter that the documentation of each names, and
that of a hash with commas between the buckets (`ShowsBuckets`), which is what the code
writes: line 244 of hash.c has a comma where 208-211 document the delimiter.

Why the bounds are enough. Three cells give a chain a first, a middle and a last
cell: every combination of `NULL` neighbours in insertion, move and removal, a ring of
two that is overwritten, and a duplicate whose order differs. Two values that
compare equal and one that does not show stability and inexact matches. Four
slots with blocks of one and two grow and shrink twice; the default block of
seven never shrinks. Six characters are a key, an escaped or quoted value and the
newline, or two lines; a token of three is cut within them, and blocks of two make the
array grow in the middle of a line. Two buckets of which one is shared show collisions and the
choice of the bucket. Two changes during a check are one before and one after
`fstat`, or a file that is moved away and changed. Three modes are the required one and
one for each of the two bits that the texts show in another's place. Five characters are
a negative number of two digits with text on both sides, or three words with an empty one; eight
words make the array grow in the middle of a text; in ints of -16 to 15 every difference of
large numbers wraps around. Two structures and four objects are a pair, its duplicate and
an object of its own for every part. The theorems of section 4 hold for every number of them.
The configurations of list, hash and array say `CHECK_DEADLOCK FALSE`: a program that
has done something undefined is not continued. Those of the parser and of the split
functions say so because the model is one call, which returns. The others check that
no state is stuck.

Bounds in the models: cells are the memory there is; `SSIZE_MAX` and `INT_MAX`
are constants, small in the runs, and stand for the limits of the C types, as do `SIZE_MAX`
and `PointerSize`: a `size_t` is at most `SIZE_MAX`, and a vector has `PointerSize` bytes
for each slot. An `int` wraps around at `INT_MAX`. `MaxText` bounds the
characters of a file; nothing that is proved depends on it.

Runs in which TLC finds that the code does not do what a line of its
documentation says. Each has one property, which quotes that line, and an entry
under `findings`:

| run | what the code does |
|---|---|
| `ConfigKeys` | whitespace in front of a key makes it a value |
| `ListCopyReorder` | after a lookup moved the last element to the front, `last` is wrong and the duplicate incomplete |
| `HashDisplay` | one emptied bucket makes the whole hash display as `NULL` |
| `QueueDestroy` | `e_destroy` gets the address of a field instead of the element |

Further disagreements met while modelling. The modules have them, where the
last column says so; no run is about them:

| where | what the code does | in |
|---|---|---|
| list.c 487 | unsorted insertion goes behind the first element, not to "the begining of the list" (472) | `FrontPosition` in `ListDoc.Actual` |
| list.c 607 | the duplicate of three or more elements that are not sorted is in another order | `List.DuplicateElement` |
| list.c 607-609 | after a round of a duplication that failed, the others add to the freed duplicate; without others, a pointer to it is returned, where 586 says `NULL` | `List.DuplicateElementFails`, `DestroyFreed` |
| list.c 251, 262 | destroy frees no cell when there is no `element_destroy`, and never the recent array | `List.LostByDestroy` |
| list.c 482 | `NULL` is stored; line 474 says that the list is unchanged | `List.AddElement`, `AddsNull` in `ListDoc.Actual` |
| dynamic_array.c 192, 199 | `NULL` is appended, where line 159 says "Nothing is done if e is NULL" | `DynamicArray.AddElement`, `AddsNull` in `DynamicArray.Actual` |
| dynamic_array.c 181-183 | the size of the vector, in slots or in bytes, may exceed a `size_t`, and is not checked | `DynamicArray.AddOverflows` |
| dynamic_array.c 233 | an index that is no element's is not ignored, as line 216 says | `DynamicArray.DeleteElement`, when `ValidIndices` is FALSE |
| dynamic_array.c 418 | `get_element` with the index `count` reads the slot behind the last element, where line 409 says `NULL` | `DynamicArray.GetElement` |
| dynamic_array.c 515 | when `element_duplicate` fails in a split, the array of the words so far is lost | `Split.AddFails`, `FailureContained` |
| dynamic_array.c 182 | when `realloc` fails, elements are read through the `NULL` it returned, and the old vector is lost | `undefined` in `DynamicArray` |
| dynamic_array.c 286 | when `realloc` fails in a duplication, the duplicate is destroyed twice | `undefined` in `DynamicArray` |
| list.c 359 | when the last value that is not `NULL` has an empty text, the terminator is written one place behind the buffer | `Display.ListDisplay`, excluded in `List.DisplayExact` |
| dynamic_array.c 325 | every delimiter is counted twice, where line 305 says one per element | `Display.ArrayLength` |
| hash.c 255 | a hash without elements is displayed as "", where line 215 says `NULL` | `Display.HashDisplay` |
| hash.c 244 | between two buckets stands a comma, where 208-211 say "separated by delimiter" | `Display.HashDisplay`, `ShowsBuckets` |
| hash.c 361-375 | the bucket for `NULL` is a variable that was never set, and a list that is there is overwritten and lost; line 354 says that the hash is unchanged | `Hash.AddNull`, `MayBreak` in `Hash.Actual` |
| hash.c 433 | a list of a bucket that was freed while it was duplicated becomes part of the duplicate, where 412 says `NULL` | `Hash.DuplicateElementFails` |
| hash.c 375 | when the list's add fails it has destroyed the list, and the hash destroys it again | `undefined` in `Hash` |
| hash.c 398 | removing a value returns `NULL` when its bucket has no list, and the hash when the list is empty | - |
| hash.c 150 | the array of buckets is never freed | `Hash.LostByDestroy` |
| queue.c 43, 141 | the length overflows an int, although its getter returns a `ssize_t` | `Queue.Incremented` |
| key_value.c 158 | assign to a structure that owns its key and value overwrites them without destroying them | `lost` in `KeyValue` |
| config_file.c 121, 148 | escaped or quoted whitespace at the end of a key is trimmed, since `last_escaped` does not count the dashes | `ConfigFile.AddToken` |
| config_file.c 192 | a newline behind a continuation makes the trimming start behind the terminator | `ConfigFile.Overrun` |
| config_file.c 192, 335 | an escaped character that finds the token full is dropped, but the trimming starts behind it all the same: one place behind the terminator | `ConfigFile.Overrun`, `ConfigDoc.EndsVisibly` |
| config_file.c 288, 268 | a continuation begins the value, so that whitespace behind it is kept at its front, or ends an empty one | `ConfigFile.OnBackslash`, `OnBlank` |
| config_file.c 283 | a backslash in double quotes is an escape, although "Anything other than a (') inside double quotes (") will be treated as a litreal" (79-80) | `ConfigDoc.SymbolsOf` against `DocSymbolsOf` |
| config_file.c 314 | a single quote in double quotes is a character of the text, the one for which 79-80 make an exception | `ConfigDoc.SymbolsOf`, `QuotesUndisputed` |
| config_file.c 286 | a backslash in a comment keeps the comment from ending at the end of its line, as 74 and 75 do and do not say | `ConfigDoc.Follow`, `QuotesUndisputed` |
| config_file.c 338 | what a token has beyond the size of the buffer is dropped, of which the documentation says nothing | `ConfigFile.Store`, `ConfigDoc.LinesUndisputed` |
| config_file.c 336 | newlines in quotes are dropped, although anything in them is literal (78-80) | `ConfigFile.Store`, `ConfigDoc.SymbolsOf` against `DocSymbolsOf` |
| config_file.c 132 | `NULL` comes after the lines with a key only, where 92-93 say "after each line" | `ConfigDoc.Entries` against `DocEntries` |
| config_file.c 346 | a last line without newline loses its last token | `ConfigFile.End` |
| config_file.c 224, 377 | the file is not closed when `fstat` or the creation of the array fails; the array is not freed when `strdup` fails | `lost` in `ConfigFile` |
| config_file.c 567 | `uid`, `gid` and `mode`, documented in 552-555, are not used: the file is compared with the effective ids and with `S_IRUSR\|S_IWUSR` | `Permission.Accepts` |
| config_file.c 403 | a missing `break` shows every known file type as `p` | `Permission.ModeStr` |
| config_file.c 465 | the sticky bit is shown in the place of the group's execute bit | `Permission.ModeStr` |
| config_file.c 537 | `S_IXOTH` is shown as the group's execute bit in digits | `Permission.ModeNum` |
| element_ops.c 116 | `vanessa_match_int` is minus the distance of its arguments, in either order, so that `VANESSA_SORT_INT` does not sort, where lines 102-103 say that its sign does | `ElementOps.MatchInt` |
| element_ops.c 90 | the smallest int has length 2 | `ElementOps.LengthInt` |

Every property of a passing run has a mutant, listed under `mutants` in
`PROJECT.json` and marked `Mutant:` in the modules: a plausible slip in a
function that makes TLC find the property violated.

## 4. Theorems

All proved for every set of cells, values, callbacks, `norecent` arguments,
block sizes, hash functions, numbers of buckets, texts, files and ids, from the named `ASSUME`s of
the modules:

- `ChainAssumption`, `PointerAssumption`, `QueueAssumption`: `NULL` and `FREED`
  are not cells or lists; `INT_MAX` is a natural number.
- `ListAssumption`: callbacks are functions to integers.
- `ArrayAssumption`: sizes are naturals, a block is at most `SIZE_MAX`, which is more than
  `SSIZE_MAX`, `NULL` and never-written slots are no elements. The theorems about the
  array assume `ValidIndices` in addition:
  callers pass `delete_element` only indices of elements. Without that they are
  false: `count` goes down for any index. Those about `Split` do not need it: a split
  deletes nothing (`Filling`).
- `HashAssumption`: there is a bucket, and `element_hash` returns one (the
  documentation, hash.c 81-83, demands it; the code aborts otherwise).
- `KeyValueAssumption`: `NULL` is no object and no structure.
- `ConfigAssumption`: the flags are those documented (`X` and `BLANK` not together),
  and the buffer has room for a character besides dashes and terminator.
- `CharactersDiffer`: the characters that the `switch` names are different ones.
- `PermissionAssumption`: flags are documented ones, modes are sets of mode bits, the
  effective ids are ids, and "nothing" is neither a file nor what `fstat` returns.
- `DisplayAssumption`: `e_length` returns naturals (for every value
  of the container, say the assumptions of each), the separators are told apart from what
  is shown of values, and `NULL` is no empty text. Where the display has no part, as in
  `QueueProofs`, it comes along with `SharedProofs` and is not used.
- `TextAssumption`: a text has no `NUL` in it and not more characters than `SSIZE_MAX`, and
  `malloc` can name as many elements.
- `IntAssumption`: no int has more than ten digits.

The four refinements assume `NullIsNone` in addition: the `NULL` that stands for "no list" in
an abstract specification is not by accident one of its sequences or bags, which
TLA+ leaves open. That of the hash assumes `FiniteMemory` (finitely many cells, so
that values can be counted), as does the theorem about its display; that of the list
`SortsAreOrders` (every `element_sort` is a total preorder, without which "sorted" means
nothing).

| module | theorems |
|---|---|
| `ListProofs` | `TypeCorrect`, `ChainSafe`, `RecentSafe`, `OrderSafe`, `LookupSafe`, `CopySafe`, `FreeSafe`, `DisplayAlwaysExact`, `DuplicationAdvances`, `ImplementsDocumentation`: every property of run `List` |
| `HashProofs` | `TypeCorrect`, `BucketsAlwaysSound`, `ElementsAlwaysPlaced`, `LookupAlwaysFinds`, `CopyAlwaysComplete`, `CellsAlwaysFreed`, `DisplayAlwaysExact`, `ImplementsDocumentation`: every property of run `Hash` |
| `DynamicArrayProofs` | `TypeCorrect`, `SizesAlwaysSafe`, `ElementsAlwaysOwned`, `CopiesAreEqual`, `DisplayAlwaysFits`, `ImplementsDocumentation`: every property of run `DynamicArray`; `SplitsTyped`, `SplitsRight`, `SplitFailuresContained`, `IntsAlwaysExact`: every property of run `Split` but the liveness |
| `QueueProofs` | `TypeCorrect`, `ChainSafe`, `LengthAlwaysExact`, `ImplementsDocumentation`: every property of run `Queue` |
| `KeyValueProofs` | `TypeCorrect`, `OwnersAreUnique`, `NothingDangles`, `ObjectsAccounted`: every property of run `KeyValue` |
| `ConfigFileProofs` | `TypeCorrect`, `ContextAlwaysSound`, `TrimsAlwaysNearby`, `FileClosedOnce`, `ReturnsMeaning`: every property of run `ConfigFile`; `ChecksTyped`, `ChecksOfOneMoment`, `ChecksCloseDescriptors`, `RefusalsAlwaysLegible`: every property of run `Permission` |

The argument in each: an inductive invariant `IInv`, which holds initially
(`InitIInv`), is preserved by every action (`NextIInv`, one step per action) and
implies the properties.

- *Lists.* `Reach` is a least set, so it has the two halves of an induction
  principle without induction: it is closed under the link (`ReachStep`), and
  any closed set that holds the start contains it (`ReachStays`). The proofs that
  `LinkAfter`, `MoveToFront` and `Unlink` keep the chain whole (`ListOpsProofs`)
  compare the set reached before with the one reached after by closing one
  under the links of the other. `WellFormed(l)` is what every operator
  preserves: type, chain, ring, and `last` unless the list reorders - there it
  does not hold (run `ListCopyReorder`), and nothing else may depend on it.
  `CopyProgress` says what the loop of `vanessa_list_duplicate` has done:
  the cells copied and the cells still reachable by `prev` partition the list.
  `CopyComplete` alone is not inductive, as it says nothing while the loop runs.
  It also gives the variant: a round removes its cell from what is still reachable.
  `CellsFreed` is part of `IInv` as it stands: a round that fails loses nothing, as the
  duplicate is `WellFormed`, and what the rounds behind it do to the freed duplicate is
  `undefined`, of which the theorem does not speak.
- *Refinements of list and queue.* A walk numbers the cells from the first by
  `next`. Which value a recursion along `next` computes is out of the prover's reach,
  so the contents of a list are defined by *some* walk, and proved to be those of
  every one (`SharedProofs`): a walk visits every cell (`WalkIsOnto`, as `Reach` is
  least), none twice (`WalkIsOneToOne`, as each cell has one predecessor), and
  there is only one (`WalkIsUnique`). Insertion, removal and the move to the front then
  are operations on walks (`InsertedWalk`, `RemovedWalk`, `MovedWalk`), and through
  them on sequences; that a walk exists (`Walked`) is an invariant next to `IInv`.
- *Sorting.* `SortedBy` is stated about neighbours. That the cell found from the
  end is the right place needs that all cells behind it were rejected, which is
  what `FirstOnWalk` says, and the total preorder `IsOrder`.
- *Hash.* Each bucket is `WellFormed` without ring and order, so the list lemmas
  apply as they are; `Placed` follows from where `Add` is called. That a destroyed
  hash leaves no cell (`DestroyFreesCells`) is the chain invariant once more: the
  loops visit what `Reach` reaches, and that is all. The proof of
  `LookupAlwaysFinds` needs `Consistent`: values that match hash alike.
  The bag of a hash counts pairs of bucket and cell, a finite set: what an add or
  remove changes is one pair, so one count changes by one. The cells' order, and which bucket they
  are in, does not matter to it.
- *Dynamic array.* `SizesSafe` needs `SlackBounded`: at most one block of slack
  while there are elements. With it `allocated_size - block_size` cannot wrap around.
  `Owned` says that the used slots and the live elements correspond one to one
  (`NULL` elements aside), which the stale slot behind the last element does not
  disturb. That bytes fit a `size_t` is `BytesFit`; a duplicate's vector, which nothing
  guards, is no larger than that of the array (`CopyNoLarger`): both grow by the same
  blocks, and the duplicate only for an element that the array has room for. The
  refinement needs no walk: the abstract sequence is the used part of the vector, and
  growing, shrinking and moving to another block size are stuttering steps.
- *Queue.* `size` is the number of members modulo the number of ints
  (`Counts`), which survives the wrap-around; a number that fits is then
  the int itself (`CountsExact`). No bound on the number of members is assumed.
- *Key-value pairs.* `ShownOnce`: an object that a structure destroys is shown by
  no other part of any structure. `OwnedOnce` alone is not inductive enough: it lets
  a second structure show the object without destroying it, and then destroying the
  first leaves that one dangling.
- *Parser.* `Sound(s)` (type, flags, offset) is preserved by every macro but
  `BEGIN_KEY`, which needs that a value has ended, `BEGIN_COMMENT`, which needs
  that key and value end after it, and the quotes, which need that `BEGIN_VALUE`
  went before. Each case of the switch then is a chain of lemmas in the order
  of the code. That trimming leaves a token needs that it ends somewhere
  (`TrimmedToken`): a least natural, which exists because the naturals are
  well-founded.
- *What the parser returns.* `ActualMeaning` says nothing until the parser returns, so the
  invariant (`ReadsInv`) has to say what the parser holds after any beginning of the text.
  `View` is what `Meaning` makes of that beginning: what surrounds the next
  character, the lines, and the parts of the last line. One more character is one step of
  its folds (`ViewAppend`). `Agree` says how the parser's variables show it: the flags
  are the context, the token is the word in progress cut to the buffer, `in_key`, `in_value`
  and `added_key` are the place in the line, and the array has what the complete
  words give. The offset for trimming is the hard part (`Spares`): it is set wherever an
  escape or a quote ends and outlives the token it was set for, so it is not the end of
  what is to be kept. All that holds of it is that it cuts nothing visible off the word and
  spares no whitespace behind it, except right behind a continuation, where it is one too
  high, and once the word has outgrown the token. That is where two of the exclusions of
  `ActualMeaning` come from. `RoundAgrees` puts the cases of the `switch` together: each
  is a lemma that compares the macros with one step of the folds. The documentation's rules
  come in last: for an undisputed text their contexts, symbols, lines and entries are those
  of the code, one definition after the other (`UndisputedMeans`).
- *Checks.* `CheckInv` says for each place in a check which descriptors are open, that
  what `fstat` returned is one of the things that the checked file was (`seen`), and that
  the verdict is true of it. A change by another process (`ChangeInv`) adds to `seen` and
  touches nothing else. That a refused mode can be told from the required one is a fact
  about the two texts, for each of the 4096 modes (`RefusedNum`, `RefusedStr`).
- *Splitting.* `SplitInv` has three parts. The array is as in every use of it: `Split`
  takes the actions of `DynamicArray`, so the array's own `IInv` is preserved by
  `FillingIInv`. `Collected` and `CopiedFirst` say that the n-th element is in the n-th
  slot and is a copy of the n-th word. `Underway` says where a round begins: `string` is
  where a word begins or the end, behind as many words as there are elements, and the text
  is cut in
  front of it and nowhere else. The n-th word is the one that begins where n starts are
  not behind it (`StartCounts`); that the next cut is where the next word begins
  (`NextStart`), and that none begins at the end of a text, make the words those of `Words`.
  A failed `realloc` does something undefined only when the vector had elements, which
  takes more than a block of words.
- *Ints.* The rounds of the loop of `vanessa_length_int` are the powers of ten that fit:
  an int for which that is wrong would have a least one, whose tenth is smaller
  (`DivisionsCount`). A difference of two ints never wraps around to 0
  (`WrappedDifference`), as it is less than the number of ints.
- *Displays.* What `FoldLeft` computes is defined by a recursion over sets of places, which
  is a function: it exists (`FoldExists`), and its values at 0, 1 .. n are the rounds of
  the loop (`FoldSteps`). What a text shows after k rounds then is an invariant of the
  rounds, proved along `UpToInduction`: a set of naturals that has 0, and k whenever it has k - 1,
  has all, as otherwise there were a least one that it lacks. Occurrences in a
  concatenation add up (`OccurrencesConcat`), so `ListShown` and `ArrayShown` follow from
  one lemma, `WrittenShows`, about what both loops write. For a hash each bucket's
  text is `ListShown`, and the comma is the separator that the last value of one bucket and the
  first of the next still lack (`CommaJoins`, `HashShown`); since no value is shown as a comma,
  a bucket's text has none (`NoComma`), and those in the whole are those between buckets.
  That a state's list has a sequence of values at
  all is `WalkExists`, for which a list may be reordered as much as it likes.

What is only model-checked: `SplitReturns`, which as liveness is beyond the prover, and
the findings, which are counterexamples. Whether `DocMeaning` and the other `Doc*` definitions
say what the documentation says is for a reader to compare.

## 5. Not modelled

- A buffer of a display that cannot be allocated, and the first `malloc` of a
  create: `NULL` is returned, nothing has changed.
- `vanessa_*_iterate`, the peeks and the getters: they read and change nothing.
- Files with NUL bytes: the parser would cut a token at the first of them.
- Logging, the header's macros and repeated documentation, build and packaging, and
  the test programs, which print and assert nothing.
- Two threads in one structure, or a callback that calls back into the structure that called
  it: the library has no locks and promises nothing for either.

## 6. Plan

Done: every component with behaviour is modelled and checked; all invariants of all passing
runs are proved, and so are the refinements of four components and the variant of the loop of
`vanessa_list_duplicate`. Nothing of the plan is left; what the prover cannot reach is listed
at the end of section 4, and what is not modelled in section 5.
