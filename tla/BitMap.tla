------------------------------ MODULE BitMap ------------------------------
(* util::BitMap (bitmap3.cpp, bitmap3.h): bits in words, searched and changed *)
(* a word at a time, with a count that is cached between changes.            *)
(* A word is the set of its offsets that are on, 0 the most significant.     *)
EXTENDS Integers, Sequences, SequencesExt, FiniteSetsExt

CONSTANTS WordBits, MaxWords
ASSUME BitMapAssumption == WordBits \in Nat \ {0}

VARIABLES bm,    \* words, and the cached count or NotCached
          bits   \* (reference) the bits that are on
bmVars == <<bm, bits>>

NotCached == -1
Offsets == 0 .. WordBits - 1
BitsOf(n) == 0 .. n * WordBits - 1
NumBits == Len(bm.words) * WordBits
\* Words are numbered from 0 in the code.
Word(m, w) == m.words[w + 1]
Test(m, b) == b % WordBits \in Word(m, b \div WordBits)

Changed(words) == [words |-> words, cached |-> NotCached]
WithWord(m, w, offs) == Changed([m.words EXCEPT ![w + 1] = offs])
Set(m, b, on) ==
  LET o == {b % WordBits} w == b \div WordBits IN WithWord(m, w, IF on THEN Word(m, w) \cup o ELSE Word(m, w) \ o)
Flip(m, b) == Set(m, b, ~Test(m, b))

CountBits(m) == IF m.cached # NotCached THEN m.cached ELSE FoldLeft(LAMBDA n, w : n + Cardinality(w), 0, m.words)
CacheCount(m) == [m EXCEPT !.cached = CountBits(m)]
AllOn(m) == IF m.cached # NotCached THEN m.cached = Len(m.words) * WordBits ELSE \A w \in Range(m.words) : w = Offsets
AnyOn(m) == IF m.cached # NotCached THEN m.cached > 0 ELSE \E w \in Range(m.words) : w # {}

\* The first bit of a kind from one bit to another: in the first word bit by bit, then the
\* whole words between, then the last word. {} if there is none.
FindNext(m, from, to, type) ==
  LET first == from \div WordBits
      last == to \div WordBits
      edge == Min({to, first * WordBits + WordBits - 1})
      In(a, z) == {b \in a .. z : Test(m, b) = type}
      mids == {w \in first + 1 .. last - 1 : Word(m, w) # IF type THEN {} ELSE Offsets}
      inMid == LET w == Min(mids) * WordBits IN In(w, w + WordBits - 1)
      found == CASE In(from, edge) # {} -> In(from, edge)
                 [] In(from, edge) = {} /\ edge = to -> {}
                 [] In(from, edge) = {} /\ edge # to /\ mids # {} -> inMid
                 [] OTHER -> In(last * WordBits, to)
  IN IF from > to \/ found = {} THEN {} ELSE {Min(found)}
FindPrev(m, from, to, type) ==
  LET first == from \div WordBits
      last == to \div WordBits
      edge == Max({to, first * WordBits})
      In(a, z) == {b \in a .. z : Test(m, b) = type}
      mids == {w \in last + 1 .. first - 1 : Word(m, w) # IF type THEN {} ELSE Offsets}
      inMid == LET w == Max(mids) * WordBits IN In(w, w + WordBits - 1)
      found == CASE In(edge, from) # {} -> In(edge, from)
                 [] In(edge, from) = {} /\ edge = to -> {}
                 [] In(edge, from) = {} /\ edge # to /\ mids # {} -> inMid
                 [] OTHER -> In(to, last * WordBits + WordBits - 1)
  IN IF from < to \/ found = {} THEN {} ELSE {Max(found)}

\* mutant: the masks are not combined where the range is in one word
MasksApart(w, first, last, a, z) == (IF w = first THEN a ELSE {}) \cup (IF w = last THEN z ELSE {})
\* What SetRange masks in the first and last words.
Masks(w, first, last, a, z) ==
  IF first = last THEN a \cap z ELSE IF w = first THEN a ELSE IF w = last THEN z ELSE Offsets
SetRange(m, from, to, on) ==
  LET first == from \div WordBits
      last == to \div WordBits
      a == {o \in Offsets : o >= from % WordBits}
      z == {o \in Offsets : o <= to % WordBits}
  IN Changed([i \in DOMAIN m.words |->
       IF i - 1 \notin first .. last THEN m.words[i]
       ELSE IF on THEN m.words[i] \cup Masks(i - 1, first, last, a, z)
       ELSE m.words[i] \ Masks(i - 1, first, last, a, z)])

SetAll(m, on) == [words |-> [i \in DOMAIN m.words |-> IF on THEN Offsets ELSE {}],
                  cached |-> IF on THEN Len(m.words) * WordBits ELSE 0]
FlipAll(m) == [words |-> [i \in DOMAIN m.words |-> Offsets \ m.words[i]],
               cached |-> IF m.cached = NotCached THEN NotCached ELSE Len(m.words) * WordBits - m.cached]

\* |=, &= and /= go as far as the other map, which must not be the longer one.
Combine(m, r, Op(_, _)) ==
  Changed([i \in DOMAIN m.words |-> IF i <= Len(r) THEN Op(m.words[i], r[i]) ELSE m.words[i]])
Or(m, r) == Combine(m, r, LAMBDA a, b : a \cup b)
And(m, r) == Combine(m, r, LAMBDA a, b : a \cap b)
AndNot(m, r) == Combine(m, r, LAMBDA a, b : a \ b)
Intersects(m, r) == \E i \in DOMAIN r : m.words[i] \cap r[i] # {}
Equals(m, r) == \A i \in DOMAIN r : m.words[i] = r[i]

\* <<= moves bits to higher numbers: whole words first, then within and across words.
Higher(offs, d) == {o + d : o \in offs} \cap Offsets
Lower(offs, d) == {o - d : o \in offs} \cap Offsets
ShiftUp(m, distance) ==
  LET ws == distance \div WordBits
      d == distance % WordBits
      moved == [i \in DOMAIN m.words |-> IF i > ws THEN m.words[i - ws] ELSE {}]
  IN Changed([i \in DOMAIN m.words |->
       Higher(moved[i], d) \cup IF i = 1 \/ d = 0 THEN {} ELSE Lower(moved[i - 1], WordBits - d)])
ShiftDown(m, distance) ==
  LET ws == distance \div WordBits
      d == distance % WordBits
      n == Len(m.words)
      moved == [i \in DOMAIN m.words |-> IF n - (i - 1) > ws THEN m.words[i + ws] ELSE {}]
  IN Changed([i \in DOMAIN m.words |->
       Lower(moved[i], d) \cup IF i = n \/ d = 0 THEN {} ELSE Higher(moved[i + 1], WordBits - d)])

\* A container at least doubles; the count is of the same bits and stays.
EnsureCapacity(m, words) == [m EXCEPT !.words = @ \o [i \in 1 .. Max({words, 2 * Len(@)}) - Len(@) |-> {}]]
---------------------------------------------------------------------------
BitMapInit == bm = [words |-> <<{}, {}>>, cached |-> 0] /\ bits = {}
To(m, b) == bm' = m /\ bits' = b
Rhs == UNION {[1 .. n -> {{}, Offsets, {0}, {WordBits - 1}}] : n \in {Len(bm.words) - 1, Len(bm.words)}}
OnIn(words) == {b \in BitsOf(Len(words)) : b % WordBits \in words[b \div WordBits + 1]}
BitMapNext ==
  \/ \E b \in 0 .. NumBits - 1 :
       \/ \E on \in BOOLEAN : To(Set(bm, b, on), IF on THEN bits \cup {b} ELSE bits \ {b})
       \/ To(Flip(bm, b), IF b \in bits THEN bits \ {b} ELSE bits \cup {b})
       \/ \E to \in b .. NumBits - 1 : \E on \in BOOLEAN : To(SetRange(bm, b, to, on), IF on THEN bits \cup b .. to ELSE bits \ (b .. to))
       \/ To(ShiftUp(bm, b), {x + b : x \in bits} \cap 0 .. NumBits - 1)
       \/ To(ShiftDown(bm, b), {x - b : x \in bits} \cap 0 .. NumBits - 1)
  \/ \E on \in BOOLEAN : To(SetAll(bm, on), IF on THEN 0 .. NumBits - 1 ELSE {})
  \/ To(FlipAll(bm), (0 .. NumBits - 1) \ bits)
  \/ \E r \in Rhs : \/ To(Or(bm, r), bits \cup OnIn(r))
                    \/ To(And(bm, r), bits \ (BitsOf(Len(r)) \ OnIn(r)))
                    \/ To(AndNot(bm, r), bits \ OnIn(r))
  \/ To(CacheCount(bm), bits)
  \/ Len(bm.words) < MaxWords /\ To(EnsureCapacity(bm, Len(bm.words) + 1), bits)
BitMapSpec == BitMapInit /\ [][BitMapNext]_bmVars
---------------------------------------------------------------------------
\* However a bitmap was changed, its words hold just the bits that are on, and the count, cached
\* or not, the tests for all and for any, the searches forwards and backwards for bits on or
\* off between any two bits, and the comparisons agree with them.
WordsAreBits ==
  LET n == NumBits - 1
      On(type) == IF type THEN bits ELSE (0 .. n) \ bits
      Lowest(s) == IF s = {} THEN {} ELSE {Min(s)}
      Highest(s) == IF s = {} THEN {} ELSE {Max(s)}
  IN /\ \A b \in 0 .. n : Test(bm, b) = (b \in bits)
     /\ CountBits(bm) = Cardinality(bits) /\ AllOn(bm) = (bits = 0 .. n) /\ AnyOn(bm) = (bits # {})
     /\ \A from, to \in 0 .. n : \A type \in BOOLEAN :
          /\ FindNext(bm, from, to, type) = Lowest(On(type) \cap from .. to)
          /\ FindPrev(bm, from, to, type) = Highest(On(type) \cap to .. from)
     /\ \A r \in {x \in Rhs : Len(x) = Len(bm.words)} :
          Intersects(bm, r) = (bits \cap OnIn(r) # {}) /\ Equals(bm, r) = (bits = OnIn(r))
===========================================================================
