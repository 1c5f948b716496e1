----------------------------- MODULE BufferView -----------------------------
(***************************************************************************)
(* What BufferBase, BufferRef and BufferSlice compute on the bytes of a    *)
(* Buffer, and how a FixedBuffer fills up (include/xio/Buffer.h).  A view  *)
(* is an offset and a length in the memory mem; a BufferRef is used as the *)
(* client cuts it down step by step (ref, chomp, trim, split), a           *)
(* BufferSlice as it moves its margins.  Loops over bytes are recursive    *)
(* functions of the position they are at.                                  *)
(***************************************************************************)
EXTENDS Integers, Sequences, SequencesExt

CONSTANTS
    Alphabet,   \* the bytes clients store
    Needles,    \* the strings clients search for
    Ints,       \* the numbers clients store
    INT_MAX,    \* the largest int; the smallest is -INT_MAX - 1
    MaxLen,     \* bound: bytes in the buffer; the capacity of a FixedBuffer
    WORD        \* size_t is modulo WORD

Spaces == {" ", "\n"}
Digits == <<"0", "1", "2", "3", "4", "5", "6", "7", "8", "9">>
LowerHex == Digits \o <<"a", "b", "c", "d", "e", "f">>
UpperHex == Digits \o <<"A", "B", "C", "D", "E", "F">>
INT_MIN == -INT_MAX - 1

ASSUME BufferViewAssumption ==
    /\ MaxLen \in Nat /\ WORD \in Nat /\ WORD > 2 * MaxLen + 2
    /\ <<>> \notin Needles
    /\ INT_MAX \in Nat /\ Ints \subseteq INT_MIN..INT_MAX

VARIABLES
    client,  \* "text" cuts BufferRefs, "numbers" uses slices and stores ints,
             \* "fixed" fills a FixedBuffer
    mem,     \* the bytes of the Buffer
    ref,     \* a BufferRef into it
    slice,   \* a BufferSlice of it
    stored,  \* history: the number that ref refers to, or None
    blank    \* history: "yes" once the client trimmed white space only

vars == <<client, mem, ref, slice, stored, blank>>

npos == WORD - 1
View(off, len) == [off |-> off, len |-> len]
None == <<>>

TypeOK ==
    /\ client \in {"text", "numbers", "fixed"} /\ blank \in {"yes", "no"}
    /\ mem \in Seq(Alphabet \cup {Digits[d] : d \in 1..10} \cup {"-", "NUL"}) /\ Len(mem) <= MaxLen
    /\ stored = None \/ stored \in {<<n>> : n \in Ints}
    /\ ref.off \in 0..MaxLen /\ ref.len \in 0..(WORD - 1)
    /\ slice.off \in 0..(WORD - 1) /\ slice.len \in 0..(WORD - 1)

Init ==
    /\ client \in {"text", "numbers", "fixed"}
    /\ mem = <<>> /\ ref = View(0, 0) /\ slice = View(0, 0)
    /\ stored = None /\ blank = "no"

(* at(i) of view v; behind the buffer lies a byte nobody searches for. *)
at(v, i) == IF v.off + i < Len(mem) THEN mem[v.off + i + 1] ELSE "beyond"
Bytes(v) == [i \in 1..v.len |-> at(v, i - 1)]
-----------------------------------------------------------------------------
(* Mutant: goes on behind the part of value that matched. *)
FindSkips(v, value, offset) ==
    LET matched(i) == CHOOSE n \in 0..Len(value) :
            /\ \A k \in 1..n : at(v, i + k - 1) = value[k]
            /\ n = Len(value) \/ at(v, i + n) # value[n + 1]
        scan[i \in 0..(2 * MaxLen)] ==
            IF i >= v.len THEN npos
            ELSE IF matched(i) = Len(value) THEN i
            ELSE scan[i + 1 + matched(i)]
    IN  scan[offset]

(* find(const char ptr, offset), find(value[N], offset) and find(char,     *)
(* offset): the comparison at i runs to the end of value, not of the view. *)
find(v, value, offset) ==
    LET scan[i \in 0..v.len] ==
            IF i = v.len THEN npos
            ELSE IF \A k \in 1..Len(value) : at(v, i + k - 1) = value[k] THEN i
            ELSE scan[i + 1]
    IN  scan[offset]

(* rfind(char), which is rfind(char, size() - 1) *)
rfind(v, c) ==
    LET scan[q \in 0..v.len] ==
            IF at(v, q) = c THEN q ELSE IF q = 0 THEN npos ELSE scan[q - 1]
    IN  IF v.len = 0 THEN npos ELSE scan[v.len - 1]

(* ref(offset, count), whose asserts the callers satisfy *)
refOf(v, offset, count) ==
    View(v.off + offset, IF count = npos THEN v.len - offset ELSE count)

(* begins(value) and ends(value), of a character or a string: memcmp *)
begins(v, value) ==
    Len(value) <= v.len /\ \A k \in 1..Len(value) : at(v, k - 1) = value[k]

ends(v, value) ==
    Len(value) <= v.len /\ \A k \in 1..Len(value) : at(v, v.len - Len(value) + k - 1) = value[k]

chomp(v) == IF ends(v, <<"\n">>) THEN refOf(v, 0, v.len - 1) ELSE refOf(v, 0, v.len)

(* trim() of a view that is not empty *)
trim(v) ==
    LET left[i \in 0..v.len] == IF i < v.len /\ at(v, i) \in Spaces THEN left[i + 1] ELSE i
        right[i \in 0..v.len] == IF i > 0 /\ at(v, i) \in Spaces THEN right[i - 1] ELSE i
    IN  refOf(v, left[0], (1 + right[v.len - 1] - left[0]) % WORD)

(* Mutant: the delimiter stays at the head of the second part. *)
SplitKeepsDelimiter(v, value) ==
    LET i == find(v, value, 0) IN
    IF i = npos THEN <<v, View(0, 0)>> ELSE <<refOf(v, 0, i), refOf(v, i, npos)>>

(* split(char) and split(const char ptr) *)
split(v, value) ==
    LET i == find(v, value, 0) IN
    IF i = npos THEN <<v, View(0, 0)>>
    ELSE <<refOf(v, 0, i), refOf(v, i + Len(value), npos)>>

IsDigit(c) == \E d \in 1..10 : Digits[d] = c
DigitValue(c) == (CHOOSE d \in 1..10 : Digits[d] = c) - 1

(* The loop of toInt() from position i on, as the set of its results.  An  *)
(* overflow is undefined: any int may come out of it.                      *)
DigitsFrom(v, i, negative) ==
    LET digits[k \in 0..v.len, val \in 0..INT_MAX] ==
            IF k = v.len \/ ~IsDigit(at(v, k)) THEN {IF negative THEN -val ELSE val}
            ELSE IF val * 10 + DigitValue(at(v, k)) > INT_MAX THEN INT_MIN..INT_MAX
            ELSE digits[k + 1, val * 10 + DigitValue(at(v, k))]
    IN  digits[i, 0]

(* Mutant: the sign is not skipped. *)
ToIntKeepsSign(v) == DigitsFrom(v, 0, begins(v, <<"-">>))

(* toInt(): an optional sign, and the digits behind it, if any *)
toInt(v) ==
    IF begins(v, <<"-">>) THEN DigitsFrom(v, 1, TRUE)
    ELSE IF begins(v, <<"+">>) THEN DigitsFrom(v, 1, FALSE)
    ELSE DigitsFrom(v, 0, FALSE)

(* hex<uint8_t>(), which wraps around *)
hex(v) ==
    LET isxdigit(c) == c \in Range(LowerHex) \cup Range(UpperHex)
        value(c) == IF IsDigit(c) THEN DigitValue(c)
                    ELSE IF c \in Range(LowerHex) THEN SelectInSeq(LowerHex, LAMBDA d : d = c) - 1
                    ELSE SelectInSeq(UpperHex, LAMBDA d : d = c) - 1
        digits[i \in 0..v.len, val \in 0..255] ==
            IF i < v.len /\ isxdigit(at(v, i))
            THEN digits[i + 1, (val * 16 + value(at(v, i))) % 256] ELSE val
    IN  digits[0, 0]

(* snprintf("%d", n) *)
Format(n) ==
    LET digits[m \in 0..(INT_MAX + 1)] ==
            (IF m < 10 THEN <<>> ELSE digits[m \div 10]) \o <<Digits[(m % 10) + 1]>>
    IN  IF n < 0 THEN <<"-">> \o digits[-n] ELSE digits[n]
-----------------------------------------------------------------------------
(* push_back(char), or b << c *)
PushBack(c) ==
    /\ client # "fixed" /\ Len(mem) < MaxLen
    /\ mem' = Append(mem, c)
    /\ UNCHANGED <<client, ref, slice, stored, blank>>

(* push_back(int); the client keeps a reference to what was appended. *)
PushBackInt(n) ==
    /\ client = "numbers" /\ Len(mem) + Len(Format(n)) <= MaxLen
    /\ mem' = mem \o Format(n)
    /\ ref' = View(Len(mem), Len(Format(n)))
    /\ stored' = <<n>>
    /\ UNCHANGED <<client, slice, blank>>

(* immutableEnsure: what a FixedBuffer can take is what it has. *)
immutableEnsure(size) == size <= MaxLen

(* FixedBuffer: push_back of a string that fits, or of nothing *)
FixedPushBack(value) ==
    /\ client = "fixed"
    /\ mem' = IF immutableEnsure(Len(mem) + Len(value)) THEN mem \o value ELSE mem
    /\ UNCHANGED <<client, ref, slice, stored, blank>>

(* Mutant: the text may end where the terminating NUL has to go. *)
FixedPrintfFull(value) ==
    /\ client = "fixed"
    /\ mem' = IF Len(mem) + Len(value) < MaxLen THEN mem \o value
              ELSE SubSeq(mem \o value, 1, MaxLen - 1) \o <<"NUL">>
    /\ UNCHANGED <<client, ref, slice, stored, blank>>

(* FixedBuffer: printf of a value, which needs room for a NUL as well; if  *)
(* there is none, the last byte of the storage becomes a NUL, whether or   *)
(* not it is one of the buffer's.                                          *)
FixedPrintf(value) ==
    /\ client = "fixed"
    /\ mem' = IF Len(mem) + Len(value) < MaxLen THEN mem \o value
              ELSE IF Len(mem) = MaxLen THEN [mem EXCEPT ![MaxLen] = "NUL"] ELSE mem
    /\ UNCHANGED <<client, ref, slice, stored, blank>>

(* FixedBuffer: resize(value).  Clients do not enlarge a buffer by it, as  *)
(* that would show bytes that nobody has stored.                           *)
FixedResize(value) ==
    /\ client = "fixed" /\ value <= Len(mem)
    /\ mem' = SubSeq(mem, 1, value)
    /\ UNCHANGED <<client, ref, slice, stored, blank>>

NewRef(v) == client = "text" /\ ref' = v /\ UNCHANGED <<client, mem, slice, stored>>

(* Mutant: the end is not checked. *)
RefUnchecked(offset, count) ==
    /\ offset <= Len(mem)
    /\ NewRef(View(offset, count)) /\ blank' = "no"

(* Buffer::ref(offset, count) *)
Ref(offset, count) ==
    /\ offset + count <= Len(mem)
    /\ NewRef(View(offset, count)) /\ blank' = "no"

(* The client does not use a view again that trim() has spoilt. *)
Usable(v) == v.len \in 0..MaxLen

Chomp == Usable(ref) /\ NewRef(chomp(ref)) /\ UNCHANGED blank

Blank(v) == \A i \in 0..(v.len - 1) : at(v, i) \in Spaces

Trim ==
    /\ Usable(ref) /\ ref.len > 0
    /\ NewRef(trim(ref))
    /\ blank' = IF Blank(ref) THEN "yes" ELSE blank

(* ref() asserts that what follows the delimiter begins inside the view. *)
Split(value, part) ==
    /\ Usable(ref) /\ find(ref, value, 0) \in (0..(ref.len - Len(value))) \cup {npos}
    /\ NewRef(split(ref, value)[part]) /\ UNCHANGED blank

NewSlice(v) == client = "numbers" /\ slice' = v /\ UNCHANGED <<client, mem, ref, stored, blank>>

Slice(offset, count) == offset + count <= Len(mem) /\ NewSlice(View(offset, count))

(* shl(n), which keeps the length, and shr(n), by a client that knows the  *)
(* margins of the buffer                                                   *)
Shl(n) == n <= slice.off /\ NewSlice(View(slice.off - n, slice.len))

Shr(n) ==
    /\ slice.off + slice.len + n <= Len(mem)
    /\ NewSlice(View(slice.off, slice.len + n))

Next ==
    \/ \E c \in Alphabet : PushBack(c)
    \/ \E n \in Ints : PushBackInt(n)
    \/ \E offset, count \in 0..MaxLen : Ref(offset, count) \/ Slice(offset, count)
    \/ Chomp \/ Trim
    \/ \E value \in Needles, part \in 1..2 : Split(value, part)
    \/ \E value \in Needles : FixedPushBack(value) \/ FixedPrintf(value)
    \/ \E n \in 0..MaxLen : FixedResize(n)
    \/ \E n \in 1..MaxLen : Shl(n) \/ Shr(n)

Spec == Init /\ [][Next]_vars
-----------------------------------------------------------------------------
(* However ref(), chomp(), trim() and split() are chained, the BufferRef   *)
(* stays inside the buffer's bytes, unless white space only was trimmed.   *)
RefInside == blank = "no" => ref.off + ref.len <= Len(mem)

Occurs(v, value, i) ==
    i + Len(value) <= v.len /\ SubSeq(Bytes(v), i + 1, i + Len(value)) = value

(* find() reports the first occurrence when the view has one, also after   *)
(* an occurrence of a proper prefix that overlaps it; rfind() reports the  *)
(* last, or npos if there is none; begins() and ends() agree with it.      *)
SearchIsExact ==
    /\ \A value \in Needles :
          /\ begins(ref, value) <=> Occurs(ref, value, 0)
          /\ ends(ref, value) <=> \E i \in 0..ref.len : /\ Occurs(ref, value, i)
                                                       /\ i + Len(value) = ref.len
    /\ \A value \in Needles, offset \in 0..ref.len, i \in 0..ref.len :
          /\ i >= offset /\ Occurs(ref, value, i)
          /\ \A j \in offset..(i - 1) : ~Occurs(ref, value, j)
          => find(ref, value, offset) = i
    /\ \A c \in Alphabet :
          LET q == rfind(ref, c) IN
          /\ q = npos => \A i \in 0..(ref.len - 1) : at(ref, i) # c
          /\ q # npos => /\ q < ref.len /\ at(ref, q) = c
                         /\ \A i \in (q + 1)..(ref.len - 1) : at(ref, i) # c

(* trim() takes all white space from both ends and nothing else.  The      *)
(* parts of split() and the delimiter make up the view again, and the      *)
(* delimiter is not in the first part.                                     *)
CutsAreExact ==
    /\ ref.len > 0 /\ ~Blank(ref) =>
          LET t == trim(ref) IN
          /\ at(t, 0) \notin Spaces /\ at(t, t.len - 1) \notin Spaces
          /\ Blank(View(ref.off, t.off - ref.off))
          /\ Blank(View(t.off + t.len, ref.off + ref.len - (t.off + t.len)))
    /\ \A value \in Needles :
          LET parts == split(ref, value)
              found == find(ref, value, 0)
          IN  /\ found # npos /\ found + Len(value) <= ref.len =>
                    Bytes(parts[1]) \o value \o Bytes(parts[2]) = Bytes(ref)
              /\ \A i \in 0..parts[1].len : ~Occurs(parts[1], value, i)

(* toInt() of what push_back(int) stored is the number, up to the largest  *)
(* int and down to -INT_MAX; the smallest overflows before its sign is     *)
(* applied.  hex() is the sum of the leading hexadecimal digits, of either *)
(* case, by their place values, modulo the type's range, leading zeros or  *)
(* none.                                                                   *)
NumbersAreExact ==
    /\ \A n \in Ints \ {INT_MIN} : stored = <<n>> => toInt(ref) = {n}
    /\ blank = "no" =>
          LET digit(i) == {d \in 1..16 : at(ref, i - 1) \in {LowerHex[d], UpperHex[d]}}
              hexs     == {n \in 0..ref.len : \A i \in 1..n : digit(i) # {}}
              len      == CHOOSE n \in hexs : \A k \in hexs : k <= n
              place    == [i \in 1..len |-> ((CHOOSE d \in digit(i) : TRUE) - 1) * 16 ^ (len - i)]
          IN  hex(ref) = FoldFunction(+, 0, place) % 256

(* push_back() and printf() to a FixedBuffer append all or nothing, never  *)
(* beyond its capacity, and what is in it stays; but printf() to one that  *)
(* is full to the last byte overwrites this byte.                          *)
FixedKeeps ==
    [][client = "fixed" =>
          \/ \E value \in Needles : mem' = mem \o value /\ Len(mem') <= MaxLen
          \/ IsPrefix(mem', mem)
          \/ Len(mem) = MaxLen /\ Front(mem') = Front(mem)]_vars
=============================================================================
