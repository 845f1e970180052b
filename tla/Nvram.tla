-------------------------------- MODULE Nvram --------------------------------
(***************************************************************************)
(* The NVRAM's proxy data (lib/jevmachopp/NVRAM.cpp): a header of Apple's, *)
(* the common and the system partition.  It is modelled as the sequence of *)
(* the texts in it, each ended by its NUL.  A text is [name, words]: the   *)
(* name in front of its '=', or NoName, and the words between its spaces;  *)
(* the value of a variable may have no words.                              *)
(*                                                                         *)
(* A partition begins with a header, which is three texts when read as     *)
(* text: its first bytes, its name, and the padding behind that.  The      *)
(* first has the partition's length, counted in texts.                     *)
(***************************************************************************)
EXTENDS Integers, SequencesExt

NoVar == 0          \* nullptr, for what varNamed returns
HEADER_TEXTS == 3

NoName == ""

isEmpty(text) == text.name = NoName /\ text.words = <<>>

\* extractProxyData: the common partition is behind the first header.
common_part == 2

size_bytes(data, part) == data[part].len

system_part(data) == common_part + size_bytes(data, common_part)

varName(text) == text.name

\* Mutation of partVars: an empty text does not end the variables.
partVarsToEnd(data, part) ==
    LET first == part + HEADER_TEXTS
    IN [i \in 1 .. Len(data) - first + 1 |-> first + i - 1]

\* vars: the places of a partition's variables, up to the first empty text
\* BEHIND the first place (PackedCStrIterator); a partition without variables
\* has an empty one, and a full one goes on into what lies behind it.
partVars(data, part) ==
    LET first == part + HEADER_TEXTS
        ends == {k \in first + 1 .. Len(data) : isEmpty(data[k])}
        end == CHOOSE k \in ends : \A j \in ends : k <= j
    IN [i \in 1 .. end - first |-> first + i - 1]

\* The end of the range is a null pointer, so that is what a variable which
\* is not there is.
varNamed(data, part, name) ==
    LET places == partVars(data, part)
        found == SelectInSeq(places, LAMBDA k : varName(data[k]) = name)
    IN IF found = 0 THEN NoVar ELSE places[found]

\* The words of a variable, and no value at all for a null pointer.
Null == <<"null">>
varValue(data, place) == IF place = NoVar THEN Null ELSE data[place].words

\* DelimitedCStrIterator: there is at least one word, if only an empty one.
rangeForSpaceDelimitedCStr(words) == IF words = <<>> THEN <<"">> ELSE words

rangeContainsStr(range, strToFind) == strToFind \in ToSet(range)

-----------------------------------------------------------------------------
\* A partition as the system writes it: its variables are packed and the rest is
\* zeros, if there is a rest; and no variable lies behind its end before the
\* next empty text, which is the padding of a header or the end of the data.
IsPartition(data, part) ==
    LET first == part + HEADER_TEXTS
        next == part + size_bytes(data, part)
    IN /\ part \in DOMAIN data /\ size_bytes(data, part) \in Nat /\ first <= next
       /\ \A k \in first .. next - 1 :
             isEmpty(data[k]) => \A j \in k .. next - 1 : isEmpty(data[j])
       /\ \E e \in next + 1 .. Len(data) :
             isEmpty(data[e]) /\ \A k \in next .. e : varName(data[k]) = NoName

IsProxyData(data) ==
    /\ data \in Seq(Range(data))
    /\ IsPartition(data, common_part) /\ IsPartition(data, system_part(data))
=============================================================================
