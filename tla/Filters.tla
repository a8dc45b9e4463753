-------------------------------- MODULE Filters --------------------------------
(***************************************************************************)
(* From the values selected for each filter to the cache key and the SQL.  *)
(* The route normalises each list (MultiString.Clean) and the key is made  *)
(* of what is left; the loader cleans the lists once more, with a second   *)
(* copy of the same loop (cleanMulti), and turns each value into one more  *)
(* placeholder $n in the text and one more argument in a list.  Text and   *)
(* list are built apart, by a counter that starts behind the arguments the *)
(* caller puts in front; the logistics search adds one behind them all.    *)
(*                                                                         *)
(* A value is a word, maybe padded, maybe in capitals; the blank word and  *)
(* "semua" (all) select nothing.  The patterns of the channel are taken    *)
(* for words like the others.                                              *)
(***************************************************************************)
EXTENDS Integers, Sequences, SequencesExt

CONSTANTS
  Columns,     \* the filtered columns, in the order they are added
  Ranks,       \* words, as their places in alphabetical order
  Written,     \* and the parts each is written in: what is between its spaces,
               \* its brackets and its bars, and each bracket and bar
  MaxValues,   \* bound: values sent for one column
  Callers      \* [fixed, start, own, search] of each caller: how many arguments
               \* it puts in front, its startCounter, the column it leaves
               \* unfiltered (or None), and whether it may search

None == "none"

ASSUME FilterAssumption ==
  /\ Columns \in Seq(STRING)
  /\ Ranks \subseteq Nat \ {0} /\ Written \in [Ranks -> Seq(STRING) \ {<<>>}]
  \* A word has one place: those written as one part are told apart by it.
  /\ \A w, u \in Ranks : Len(Written[w]) = 1 /\ Written[w] = Written[u] => w = u
  /\ MaxValues \in Nat
  /\ Callers \subseteq [fixed : Nat, start : Nat, own : STRING, search : BOOLEAN]
  \* Each starts behind its arguments; the one that searches has two of them.
  /\ \A c \in Callers : c.start = c.fixed + 1 /\ (c.search => c.fixed = 2)

Blank == 0
Semua == -1
Values ==
  [word : Ranks, caps : BOOLEAN, padded : BOOLEAN]
    \cup {[word |-> w, caps |-> TRUE, padded |-> TRUE] : w \in {Blank, Semua}}

VARIABLES
  caller,    \* who builds the query
  at,        \* the column that is added next
  sent,      \* the values the request has for it, in the order they were sent
  key,       \* the normalised values of each column before it
  counter,   \* the number of the next placeholder
  text,      \* the placeholders in the query: [number, column]
  args       \* the arguments, in order: [column, word]

vars == <<caller, at, sent, key, counter, text, args>>

Fixed == [column |-> "own", word |-> Blank]    \* a date, a code, a limit

Init ==
  /\ caller \in Callers
  /\ at = 1 /\ sent = <<>> /\ key = <<>>
  /\ counter = caller.start
  /\ text = <<>>
  /\ args = [n \in 1..caller.fixed |-> Fixed]

-----------------------------------------------------------------------------
(* Cleaning.                                                               *)

TrimSpace(v) == [v EXCEPT !.padded = FALSE]
ToLower(v)   == [v EXCEPT !.caps = FALSE]

isSemuaOrEmpty(v) == v.word \in {Blank, Semua}

\* cleanMulti: the words selected, each once, as it was first written.
cleanMulti(values) ==
  LET keep(out, v) ==
        IF \/ isSemuaOrEmpty(v)
           \/ \E u \in ToSet(out) : ToLower(u) = ToLower(TrimSpace(v))
        THEN out ELSE Append(out, TrimSpace(v))
  IN  FoldLeft(keep, <<>>, values)

\* The loop of Clean, before it sorts.
FirstSpellings(values) ==
  LET keep(out, v) ==
        IF v.word \in {Blank, Semua} \/ \E i \in 1..Len(out) : out[i].word = v.word
        THEN out ELSE Append(out, TrimSpace(v))
  IN  FoldLeft(keep, <<>>, values)

\* (Seeded fault: the words are left in the order they were selected.)
CleanUnsorted(values) == FirstSpellings(values)

\* sort.SliceStable: a value comes behind those with a smaller word, and behind
\* those with its own word that were before it.
InOrder(list) ==
  LET Before(i) == {j \in 1..Len(list) : \/ list[j].word < list[i].word
                                         \/ list[j].word = list[i].word /\ j < i}
  IN  [n \in 1..Len(list) |->
         list[CHOOSE i \in 1..Len(list) : Cardinality(Before(i)) = n - 1]]

\* (Seeded fault: values are told apart as they were written.)
CleanAsWritten(values) ==
  LET keep(out, v) ==
        IF v.word \in {Blank, Semua} \/ TrimSpace(v) \in ToSet(out)
        THEN out ELSE Append(out, TrimSpace(v))
  IN  InOrder(FoldLeft(keep, <<>>, values))

\* MultiString.Clean: what its loop leaves, in alphabetical order.
Clean(values) == InOrder(FirstSpellings(values))

-----------------------------------------------------------------------------
(* The key of the options: the lists, formatted.                             *)

Mark(m)  == <<[part |-> m, caps |-> FALSE]>>
Parts(v) == [i \in 1..Len(Written[v.word]) |-> [part |-> Written[v.word][i], caps |-> v.caps]]

\* %v of a []string: its elements in brackets, with spaces between them.
Formatted(list) == Mark("[") \o FlattenSeq([i \in 1..Len(list) |-> Parts(list[i])]) \o Mark("]")

\* (Seeded fault: one list of all the words selected.)
OptionsKeyOneList(lists) == Formatted(FlattenSeq(lists))

\* "options:%v|%v|..."
OptionsKey(lists) ==
  FlattenSeq([c \in 1..Len(lists) |-> Formatted(lists[c]) \o Mark("|")])

-----------------------------------------------------------------------------
(* Building the query.                                                     *)

Send(v) ==
  /\ at <= Len(Columns) /\ Len(sent) < MaxValues
  /\ sent' = Append(sent, v)
  /\ UNCHANGED <<caller, at, key, counter, text, args>>

\* A column that has no value selected, or is the caller's own, adds nothing.
Skip ==
  /\ at <= Len(Columns)
  /\ cleanMulti(Clean(sent)) = <<>> \/ Columns[at] = caller.own
  /\ at' = at + 1 /\ sent' = <<>>
  /\ key' = Append(key, Clean(sent))
  /\ UNCHANGED <<caller, counter, text, args>>

\* (Seeded fault: the counter is advanced once per column, not per value.)
AddOncePerColumn ==
  LET column == Columns[at]
      words  == cleanMulti(Clean(sent))
  IN  /\ at <= Len(Columns) /\ column # caller.own /\ words # <<>>
      /\ text' = text \o [i \in 1..Len(words) |-> [number |-> counter, column |-> column]]
      /\ args' = args \o [i \in 1..Len(words) |-> [column |-> column, word |-> words[i].word]]
      /\ counter' = counter + 1
      /\ at' = at + 1 /\ sent' = <<>>
      /\ key' = Append(key, Clean(sent))
      /\ UNCHANGED caller

\* LIKE conditions for the channel, an IN list for the others: either way one
\* placeholder and one argument for each word.
Add ==
  LET column == Columns[at]
      words  == cleanMulti(Clean(sent))
  IN  /\ at <= Len(Columns) /\ column # caller.own /\ words # <<>>
      /\ text' = text \o [i \in 1..Len(words) |-> [number |-> counter + i - 1, column |-> column]]
      /\ args' = args \o [i \in 1..Len(words) |-> [column |-> column, word |-> words[i].word]]
      /\ counter' = counter + Len(words)
      /\ at' = at + 1 /\ sent' = <<>>
      /\ key' = Append(key, Clean(sent))
      /\ UNCHANGED caller

\* GetStatusLogistik: nextIdx := 3 + len(filterArgs).
Search ==
  /\ at = Len(Columns) + 1 /\ caller.search
  /\ text' = Append(text, [number |-> 3 + (Len(args) - caller.fixed), column |-> "search"])
  /\ args' = Append(args, [column |-> "search", word |-> Blank])
  /\ at' = at + 1
  /\ UNCHANGED <<caller, sent, key, counter>>

\* The query is run with its arguments.
Run == at > Len(Columns) /\ UNCHANGED vars

Next == (\E v \in Values : Send(v)) \/ Skip \/ Add \/ Search \/ Run
Spec == Init /\ [][Next]_vars

-----------------------------------------------------------------------------
(* Properties.                                                             *)

\* Every placeholder names an argument that was meant for its column, and every
\* argument behind the caller's own is named exactly once: no filter compares
\* its column with the value of another, whatever combination is selected.
PlaceholdersBound ==
  /\ \A i \in 1..Len(text) :
       text[i].number \in DOMAIN args /\ args[text[i].number].column = text[i].column
  /\ \A n \in DOMAIN args : n > caller.fixed =>
       \E i \in 1..Len(text) :
         text[i].number = n /\ \A j \in 1..Len(text) \ {i} : text[j].number # n

\* The arguments behind the caller's own are the very words of the cache key, in
\* its order, less the caller's own column: what the one loop has cleaned the
\* other neither drops, merges nor reorders, so two requests that share a key run
\* the same SQL.
InKey(c) == IF Columns[c] = caller.own THEN <<>> ELSE
  [i \in 1..Len(key[c]) |-> [column |-> Columns[c], word |-> key[c][i].word]]

KeyIsTheQuery ==
  LET searched == IF at > Len(Columns) + 1 THEN 1 ELSE 0
  IN  SubSeq(args, caller.fixed + 1, Len(args) - searched)
        = FoldLeft(LAMBDA list, next : list \o next, <<>>, [c \in 1..Len(key) |-> InKey(c)])

Spelled == {TrimSpace(v) : v \in {v \in ToSet(sent) : ~isSemuaOrEmpty(v)}}

\* One entry per dashboard (cacheKey, cache_layer.go:13-14): the key of a column
\* is the words selected in it, no other is filtered for, and the same words sent
\* again, more often, in another order or beside "semua" share a cache key, if
\* no word is spelled in two ways.
SameWordsSameKey ==
  /\ {v.word : v \in ToSet(Clean(sent))} = {v.word : v \in Spelled}
  /\ (\A u, v \in Spelled : u.word = v.word => u = v) =>
       /\ Clean(Reverse(sent)) = Clean(sent)
       /\ \A v \in Values : TrimSpace(v) \in Spelled \/ isSemuaOrEmpty(v) =>
            Clean(Append(sent, v)) = Clean(sent) /\ Clean(<<v>> \o sent) = Clean(sent)

Lists == {Clean(values) : values \in SeqOf(Values, MaxValues)}
Plain(list) == \A i \in 1..Len(list) :
  Len(Written[list[i].word]) = 1 /\ Written[list[i].word][1] \notin {"[", "]", "|"}

\* Two selections in a pair of columns share a key of the options only when one
\* of them has a name with a space, a bracket or a bar in it: "a b" alone, and "a"
\* with "b", print alike, but no plain word is taken for that of another column
\* (cache_layer.go:56).
OptionsKeyTells ==
  at = 3 /\ sent = <<>> /\ caller.fixed = 0 =>
    \A one, two \in Lists :
      OptionsKey(<<one, two>>) = OptionsKey(key) =>
        \/ <<one, two>> = key
        \/ \E list \in {one, two} \cup ToSet(key) : ~Plain(list)

=============================================================================
