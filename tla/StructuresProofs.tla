--------------------------- MODULE StructuresProofs ---------------------------
(*****************************************************************************)
(* The list of a value holds just the records that have it, a bitmap is the  *)
(* set of the bits that are on, and the extents of a file map each page of   *)
(* its tables to a page of the file: for any records, places, words, sizes.  *)
(*                                                                           *)
(* Bitmaps.  A bit is a word and an offset (WordOf, OfWord, SameBit), bits   *)
(* are in the order of their words and then of their offsets (Order), and a  *)
(* map that is made word by word has the bits that its words say (MadeOf).   *)
(* With these each change is shown to be that of the set (SetIs, SetRangeIs, *)
(* ShiftUpIs, CombinedIs, ...).  The count is a fold over the words: that it *)
(* is the number of bits (FoldCounts) is shown by a smallest set of words    *)
(* for which it would not be.  A search looks at the rest of a word, at      *)
(* whole words, and at the start of a word; what it finds first is before    *)
(* all that it has not looked at (FindNextIs, FindPrevIs).                   *)
(*                                                                           *)
(* Lists.  A list is empty, one record, or RIBs that are filed (Filed): they *)
(* are sorted and of different segments, each is sound (Sound), that is, in  *)
(* the form it says, and each has its place to itself; no other place is     *)
(* taken (Fit).  Each step is shown to keep this, and what the list is told  *)
(* to have (Told), first for one segment and then for the whole list.        *)
(*                                                                           *)
(* Extents.  With the number of pages that each table has before each of the *)
(* pointers (Laid), a page is looked for in the extent in which it is        *)
(* (FoundAt), and pages of the file and of the tables are one to one         *)
(* (AllPages).  An increase only adds to pointers and numbers (PointersLaid).*)
(*****************************************************************************)
EXTENDS Inverted, BitMap, Extents, FiniteSetTheorems, FunctionTheorems, SequenceTheorems, WellFoundedInduction, TLAPS
---------------------------------------------------------------------------
(* Bitmaps.                                                                 *)

\* A set of numbers that is not empty has a least one.
LEMMA LeastOf ==
  ASSUME NEW T \in SUBSET Nat, T # {}
  PROVE  \E m \in T : \A k \in T : m <= k
  <1> DEFINE Less == {p \in Nat \X Nat : p[1] < p[2]}
  <1>1. IsWellFoundedOn(Less, Nat)
    BY NatLessThanWellFounded DEF OpToRel
  <1> HIDE DEF Less
  <1>2. PICK m \in T : \A k \in T : ~(<<k, m>> \in Less)
    BY <1>1, WFMin
  <1>3. ASSUME NEW k \in T PROVE m <= k
    <2>1. k \in Nat /\ m \in Nat
      OBVIOUS
    <2>2. ~(<<k, m>> \in Less)
      BY <1>2
    <2>3. ~(k < m)
      BY <2>1, <2>2 DEF Less
    <2> QED BY <2>1, <2>3
  <1> QED BY <1>3

\* Bits by their words and offsets.
LEMMA Zero ==
  ASSUME NEW k \in Int, NEW W \in Nat \ {0}, k * W < W, -W < k * W
  PROVE  k = 0
  <1>1. CASE k > 0
    <2>1. (k - 1) * W >= 0
      BY <1>1
    <2>2. k * W = (k - 1) * W + W
      OBVIOUS
    <2> QED BY <2>1, <2>2
  <1>2. CASE k < 0
    <2>1. (-k - 1) * W >= 0
      BY <1>2
    <2>2. k * W = -((-k - 1) * W) - W
      OBVIOUS
    <2> QED BY <2>1, <2>2
  <1> QED BY <1>1, <1>2

\* Division of integers, as it is used here.
LEMMA DivMod ==
  ASSUME NEW b \in Int, NEW W \in Nat \ {0}
  PROVE  /\ b \div W \in Int /\ b % W \in 0 .. W - 1
         /\ b = ((b \div W) * W) + (b % W)
  OBVIOUS

\* A number has one quotient and one remainder.
LEMMA Quotient ==
  ASSUME NEW w \in Int, NEW W \in Nat \ {0}, NEW o \in 0 .. W - 1, NEW q \in Int, NEW r \in 0 .. W - 1, (w * W) + o = (q * W) + r
  PROVE  q = w /\ r = o
  <1>1. (q - w) * W = o - r
    <2>1. (q - w) * W = (q * W) - (w * W)
      OBVIOUS
    <2>2. q * W \in Int /\ w * W \in Int
      OBVIOUS
    <2> QED BY <2>1, <2>2
  <1>2. (q - w) \in Int
    OBVIOUS
  <1>3. q - w = 0
    BY <1>1, <1>2, Zero
  <1>4. q = w
    BY <1>3
  <1> QED BY <1>4

\* A bit is at an offset of a word.
LEMMA WordOf ==
  ASSUME NEW b \in Int
  PROVE  /\ b \div WordBits \in Int /\ b % WordBits \in Offsets
         /\ b = ((b \div WordBits) * WordBits) + (b % WordBits)
  BY BitMapAssumption, DivMod DEF Offsets

\* An offset of a word is a bit.
LEMMA OfWord ==
  ASSUME NEW w \in Int, NEW o \in Offsets
  PROVE  /\ (w * WordBits) + o \in Int
         /\ ((w * WordBits) + o) \div WordBits = w /\ ((w * WordBits) + o) % WordBits = o
  <1> DEFINE b == (w * WordBits) + o
  <1>1. b \in Int /\ w * WordBits \in Int
    BY BitMapAssumption DEF Offsets
  <1> HIDE DEF b
  <1>2. b \div WordBits \in Int /\ b % WordBits \in Offsets /\ b = ((b \div WordBits) * WordBits) + (b % WordBits)
    BY <1>1, WordOf
  <1>3. b = (w * WordBits) + o
    BY DEF b
  <1>4. b \div WordBits = w /\ b % WordBits = o
    BY <1>2, <1>3, Quotient, BitMapAssumption DEF Offsets
  <1> QED BY <1>1, <1>4 DEF b

\* The bits of a word come before those of the next.
LEMMA Mono ==
  ASSUME NEW w \in Int, NEW v \in Int, w < v
  PROVE  /\ w * WordBits \in Int /\ v * WordBits \in Int
         /\ (w * WordBits) + WordBits <= v * WordBits
  <1> DEFINE W == WordBits
  <1>1. W \in Nat \ {0}
    BY BitMapAssumption
  <1> HIDE DEF W
  <1>2. (v - w - 1) * W >= 0 /\ (v - w - 1) * W = (v * W) - (w * W) - W /\ v * W \in Int /\ w * W \in Int
    <2>1. v - w - 1 \in Nat
      OBVIOUS
    <2>2. (v - w - 1) * W >= 0
      BY <1>1, <2>1
    <2>3. (v - w - 1) * W = (v * W) - (w * W) - W
      BY <1>1
    <2> QED BY <1>1, <2>2, <2>3
  <1>3. (w * W) + W <= v * W
    BY <1>1, <1>2
  <1> QED BY <1>2, <1>3 DEF W

\* Bits are in the order of their words, and in a word of their offsets.
LEMMA Order ==
  ASSUME NEW x \in Int, NEW y \in Int
  PROVE  (x <= y) = (x \div WordBits < y \div WordBits \/ (x \div WordBits = y \div WordBits /\ x % WordBits <= y % WordBits))
  <1> DEFINE w == x \div WordBits
             v == y \div WordBits
             o == x % WordBits
             p == y % WordBits
  <1>1. /\ w \in Int /\ v \in Int /\ o \in Offsets /\ p \in Offsets
        /\ x = (w * WordBits) + o /\ y = (v * WordBits) + p
    BY WordOf
  <1>2. /\ w * WordBits \in Int /\ v * WordBits \in Int /\ WordBits \in Nat \ {0} /\ o \in 0 .. WordBits - 1 /\ p \in 0 .. WordBits - 1
    BY <1>1, BitMapAssumption DEF Offsets
  <1> HIDE DEF w, v, o, p
  <1>3. CASE w < v
    <2>1. (w * WordBits) + WordBits <= v * WordBits
      BY <1>1, <1>3, Mono
    <2>2. x <= y
      BY <1>1, <1>2, <2>1
    <2> QED BY <1>3, <2>2 DEF w, v
  <1>4. CASE v < w
    <2>1. (v * WordBits) + WordBits <= w * WordBits
      BY <1>1, <1>4, Mono
    <2>2. ~(x <= y)
      BY <1>1, <1>2, <2>1
    <2>3. ~(w < v) /\ w # v
      BY <1>1, <1>4
    <2> QED BY <2>2, <2>3 DEF w, v
  <1>5. CASE w = v
    <2>1. (x <= y) = (o <= p)
      BY <1>1, <1>2, <1>5
    <2>2. ~(w < v)
      BY <1>1, <1>5
    <2> QED BY <1>5, <2>1, <2>2 DEF w, v, o, p
  <1> QED BY <1>1, <1>3, <1>4, <1>5

\* The bits of n words.
LEMMA InBits ==
  ASSUME NEW n \in Nat, NEW x \in Int
  PROVE  (x \in BitsOf(n)) = (x \div WordBits \in 0 .. n - 1)
  <1> DEFINE w == x \div WordBits
             o == x % WordBits
  <1>1. w \in Int /\ o \in Offsets /\ x = (w * WordBits) + o
    BY WordOf
  <1>2. w * WordBits \in Int /\ n * WordBits \in Int /\ WordBits \in Nat \ {0} /\ o \in 0 .. WordBits - 1
    BY <1>1, BitMapAssumption DEF Offsets
  <1> HIDE DEF w, o
  <1>3. CASE w < 0
    <2>1. (w * WordBits) + WordBits <= 0 * WordBits
      BY <1>1, <1>3, Mono
    <2>2. x < 0
      BY <1>1, <1>2, <2>1
    <2> QED BY <1>1, <1>3, <2>2 DEF w, BitsOf
  <1>4. CASE w >= n
    <2>1. n * WordBits <= w * WordBits
      <3>1. CASE w > n
        <4>1. (n * WordBits) + WordBits <= w * WordBits
          BY <1>1, <3>1, Mono
        <4> QED BY <1>2, <4>1
      <3> QED BY <1>1, <1>2, <1>4, <3>1
    <2>2. ~(x <= (n * WordBits) - 1)
      BY <1>1, <1>2, <2>1
    <2>3. x \notin BitsOf(n)
      BY <1>2, <2>2 DEF BitsOf
    <2>4. w \notin 0 .. n - 1
      BY <1>1, <1>4
    <2> QED BY <2>3, <2>4 DEF w
  <1>5. CASE 0 <= w /\ w < n
    <2>1. (w * WordBits) + WordBits <= n * WordBits
      BY <1>1, <1>5, Mono
    <2>2. w * WordBits >= 0
      BY <1>1, <1>2, <1>5
    <2>3. x \in BitsOf(n)
      BY <1>1, <1>2, <2>1, <2>2 DEF BitsOf
    <2>4. w \in 0 .. n - 1
      BY <1>1, <1>5
    <2> QED BY <2>3, <2>4 DEF w
  <1> QED BY <1>1, <1>3, <1>4, <1>5

\* Words, and what of them is on.
WordSeq == Seq(SUBSET Offsets)
LEMMA BitOn ==
  ASSUME NEW ws \in WordSeq, NEW x \in Int
  PROVE  /\ (x \in OnIn(ws)) = (x \div WordBits \in 0 .. Len(ws) - 1 /\ x % WordBits \in ws[(x \div WordBits) + 1])
         /\ Len(ws) \in Nat /\ OnIn(ws) \in SUBSET BitsOf(Len(ws)) /\ BitsOf(Len(ws)) \in SUBSET Int
  <1>1. Len(ws) \in Nat /\ Len(ws) * WordBits \in Int
    BY BitMapAssumption DEF WordSeq
  <1>2. (x \in BitsOf(Len(ws))) = (x \div WordBits \in 0 .. Len(ws) - 1)
    BY <1>1, InBits
  <1>3. BitsOf(Len(ws)) \in SUBSET Int
    BY <1>1 DEF BitsOf
  <1> QED BY <1>1, <1>2, <1>3 DEF OnIn

\* A map, counted or not.
Map(m) == m \in [words : WordSeq, cached : Int]
\* m is a map of as many words as before, not counted, of the bits T.
Has(m, ws, T) == Map(m) /\ Len(m.words) = Len(ws) /\ OnIn(m.words) = T /\ m.cached = NotCached

\* The words of a sequence of words.
LEMMA WordThere ==
  ASSUME NEW ws \in WordSeq
  PROVE  /\ Len(ws) \in Nat /\ DOMAIN ws = 1 .. Len(ws) /\ ws \in [1 .. Len(ws) -> SUBSET Offsets]
         /\ \A w \in 0 .. Len(ws) - 1 : w + 1 \in 1 .. Len(ws) /\ ws[w + 1] \in SUBSET Offsets
  <1>1. Len(ws) \in Nat /\ DOMAIN ws = 1 .. Len(ws) /\ ws \in [1 .. Len(ws) -> SUBSET Offsets]
    BY LenProperties DEF WordSeq
  <1>2. \A w \in 0 .. Len(ws) - 1 : w + 1 \in 1 .. Len(ws)
    BY <1>1
  <1> QED BY <1>1, <1>2

\* Words made for those that were there.
LEMMA WordsMade ==
  ASSUME NEW ws \in WordSeq, NEW g \in [1 .. Len(ws) -> SUBSET Offsets]
  PROVE  g \in WordSeq /\ Len(g) = Len(ws)
  <1>1. Len(ws) \in Nat
    BY WordThere
  <1>2. g \in WordSeq
    BY <1>1, IsASeq DEF WordSeq
  <1> QED BY <1>1, <1>2, LenProperties DEF WordSeq

\* The bits of a sequence of words.
LEMMA BitAt ==
  ASSUME NEW ws \in WordSeq, NEW x \in BitsOf(Len(ws))
  PROVE  /\ x \in Int /\ x \div WordBits \in 0 .. Len(ws) - 1 /\ (x \div WordBits) + 1 \in 1 .. Len(ws) /\ x % WordBits \in Offsets
         /\ x = ((x \div WordBits) * WordBits) + (x % WordBits)
         /\ (x \in OnIn(ws)) = (x % WordBits \in ws[(x \div WordBits) + 1])
  <1>1. x \in Int /\ Len(ws) \in Nat
    BY BitOn DEF BitsOf
  <1>2. x \div WordBits \in 0 .. Len(ws) - 1
    BY <1>1, InBits
  <1>3. (x \div WordBits) + 1 \in 1 .. Len(ws)
    BY <1>2, WordThere
  <1>4. x % WordBits \in Offsets /\ x = ((x \div WordBits) * WordBits) + (x % WordBits)
    BY <1>1, WordOf
  <1>5. (x \in OnIn(ws)) = (x % WordBits \in ws[(x \div WordBits) + 1])
    BY DEF OnIn
  <1> QED BY <1>1, <1>2, <1>3, <1>4, <1>5

\* What is on is known bit by bit.
LEMMA OnInIs ==
  ASSUME NEW ws \in WordSeq, NEW T \in SUBSET BitsOf(Len(ws)),
         \A x \in BitsOf(Len(ws)) : (x % WordBits \in ws[(x \div WordBits) + 1]) = (x \in T)
  PROVE  OnIn(ws) = T
  BY DEF OnIn

\* A map that is made word by word.
LEMMA MadeOf ==
  ASSUME NEW ws \in WordSeq, NEW g \in [1 .. Len(ws) -> SUBSET Offsets], NEW T \in SUBSET BitsOf(Len(ws)),
         \A x \in BitsOf(Len(ws)) : (x % WordBits \in g[(x \div WordBits) + 1]) = (x \in T)
  PROVE  Has(Changed(g), ws, T)
  <1>1. g \in WordSeq /\ Len(g) = Len(ws)
    BY WordsMade
  <1>2. OnIn(g) = T
    <2>1. T \in SUBSET BitsOf(Len(g)) /\ \A x \in BitsOf(Len(g)) : (x % WordBits \in g[(x \div WordBits) + 1]) = (x \in T)
      BY <1>1
    <2> QED BY <1>1, <2>1, OnInIs
  <1>3. Changed(g).words = g /\ Changed(g).cached = NotCached /\ Map(Changed(g))
    BY <1>1 DEF Changed, Map, NotCached
  <1> QED BY <1>1, <1>2, <1>3 DEF Has

\* Two bits are one if they are at one offset of one word.
LEMMA SameBit ==
  ASSUME NEW x \in Int, NEW b \in Int
  PROVE  (x = b) = (x \div WordBits = b \div WordBits /\ x % WordBits = b % WordBits)
  BY WordOf

\* One bit is set or reset.
LEMMA SetIs ==
  ASSUME NEW m, Map(m), NEW b \in BitsOf(Len(m.words)), NEW on \in BOOLEAN
  PROVE  Has(Set(m, b, on), m.words, IF on THEN OnIn(m.words) \cup {b} ELSE OnIn(m.words) \ {b})
  <1> DEFINE ws == m.words
             o == b % WordBits
             w == b \div WordBits
             old == ws[w + 1]
             new == IF on THEN old \cup {o} ELSE old \ {o}
             g == [ws EXCEPT ![w + 1] = new]
             T == IF on THEN OnIn(ws) \cup {b} ELSE OnIn(ws) \ {b}
  <1>1. ws \in WordSeq
    BY DEF Map
  <1>2. w \in 0 .. Len(ws) - 1 /\ w + 1 \in 1 .. Len(ws) /\ o \in Offsets /\ b \in Int
    BY <1>1, BitAt
  <1>3. ws \in [1 .. Len(ws) -> SUBSET Offsets] /\ old \in SUBSET Offsets
    BY <1>1, <1>2, WordThere
  <1>4. Set(m, b, on) = Changed(g)
    BY DEF Set, WithWord, Word
  <1>5. new \in SUBSET Offsets
    BY <1>2, <1>3
  <1>6. g \in [1 .. Len(ws) -> SUBSET Offsets] /\ \A i \in 1 .. Len(ws) : g[i] = IF i = w + 1 THEN new ELSE ws[i]
    <2> HIDE DEF new, w, ws
    <2> QED BY <1>2, <1>3, <1>5
  <1>7. T \in SUBSET BitsOf(Len(ws))
    BY <1>1, BitOn DEF OnIn
  <1>8. ASSUME NEW x \in BitsOf(Len(ws))
        PROVE  (x % WordBits \in g[(x \div WordBits) + 1]) = (x \in T)
    <2>1. /\ x \in Int /\ (x \div WordBits) + 1 \in 1 .. Len(ws) /\ x \div WordBits \in Int
          /\ (x \in OnIn(ws)) = (x % WordBits \in ws[(x \div WordBits) + 1])
      BY <1>1, BitAt, WordOf
    <2>2. (x = b) = (x \div WordBits = w /\ x % WordBits = o)
      BY <1>2, <2>1, SameBit
    <2> HIDE DEF g, w, o
    <2>3. CASE x \div WordBits = w
      BY <1>6, <2>1, <2>2, <2>3 DEF T
    <2>4. CASE x \div WordBits # w
      <3>1. (x \div WordBits) + 1 # w + 1
        BY <1>2, <2>1, <2>4
      <3> QED BY <1>6, <2>1, <2>2, <2>4, <3>1 DEF T
    <2> QED BY <2>3, <2>4
  <1> HIDE DEF g, T, ws
  <1>9. Has(Changed(g), ws, T)
    BY <1>1, <1>6, <1>7, <1>8, MadeOf
  <1> QED BY <1>4, <1>9 DEF T, ws

\* A test says whether the bit is on.
LEMMA TestIs ==
  ASSUME NEW m, Map(m), NEW b \in BitsOf(Len(m.words))
  PROVE  Test(m, b) = (b \in OnIn(m.words))
  BY BitAt DEF Test, Word, Map

\* One bit is changed.
LEMMA FlipIs ==
  ASSUME NEW m, Map(m), NEW b \in BitsOf(Len(m.words))
  PROVE  Has(Flip(m, b), m.words, IF b \in OnIn(m.words) THEN OnIn(m.words) \ {b} ELSE OnIn(m.words) \cup {b})
  <1>1. Test(m, b) = (b \in OnIn(m.words))
    BY TestIs
  <1>2. CASE b \in OnIn(m.words)
    <2>1. Flip(m, b) = Set(m, b, FALSE)
      BY <1>1, <1>2 DEF Flip
    <2> QED BY <1>2, <2>1, SetIs
  <1>3. CASE b \notin OnIn(m.words)
    <2>1. Flip(m, b) = Set(m, b, TRUE)
      BY <1>1, <1>3 DEF Flip
    <2> QED BY <1>3, <2>1, SetIs
  <1> QED BY <1>2, <1>3

\* A bit is in a range if its word is, and its offset is in that word's mask.
LEMMA InRange ==
  ASSUME NEW from \in Int, NEW to \in Int, NEW x \in Int, from <= to
  PROVE  LET first == from \div WordBits
             last == to \div WordBits
             a == {o \in Offsets : o >= from % WordBits}
             z == {o \in Offsets : o <= to % WordBits}
             w == x \div WordBits
         IN (x \in from .. to) = (w \in first .. last /\ x % WordBits \in Masks(w, first, last, a, z))
  <1> DEFINE first == from \div WordBits
             last == to \div WordBits
             a == {o \in Offsets : o >= from % WordBits}
             z == {o \in Offsets : o <= to % WordBits}
             w == x \div WordBits
             o == x % WordBits
  <1>1. first \in Int /\ last \in Int /\ w \in Int /\ o \in Offsets /\ from % WordBits \in Int /\ to % WordBits \in Int /\ o \in Int
    BY WordOf DEF Offsets
  <1>2. (from <= x) = (first < w \/ (first = w /\ from % WordBits <= o))
    BY Order
  <1>3. (x <= to) = (w < last \/ (w = last /\ o <= to % WordBits))
    BY Order
  <1>4. first <= last
    <2>1. first < last \/ first = last
      BY Order
    <2> QED BY <1>1, <2>1
  <1>5. (o \in a) = (from % WordBits <= o) /\ (o \in z) = (o <= to % WordBits)
    BY <1>1
  <1>6. (x \in from .. to) = (from <= x /\ x <= to)
    OBVIOUS
  <1> HIDE DEF first, last, a, z, w, o
  <1>7. CASE w \notin first .. last
    BY <1>1, <1>2, <1>3, <1>4, <1>6, <1>7 DEF w, first, last
  <1>8. CASE w \in first .. last
    <2>1. (o \in Masks(w, first, last, a, z)) = ((w = first => o \in a) /\ (w = last => o \in z))
      BY <1>1, <1>8 DEF Masks
    <2>2. (x \in from .. to) = ((w = first => from % WordBits <= o) /\ (w = last => o <= to % WordBits))
      BY <1>1, <1>2, <1>3, <1>6, <1>8
    <2>3. (x \in from .. to) = (w \in first .. last /\ o \in Masks(w, first, last, a, z))
      BY <1>5, <1>8, <2>1, <2>2
    <2> QED BY <2>3 DEF first, last, a, z, w, o
  <1> QED BY <1>7, <1>8

\* The masks in the first and last words, and the whole words between, make the range.
LEMMA SetRangeIs ==
  ASSUME NEW m, Map(m), NEW from \in BitsOf(Len(m.words)), NEW to \in BitsOf(Len(m.words)), from <= to, NEW on \in BOOLEAN
  PROVE  Has(SetRange(m, from, to, on), m.words, IF on THEN OnIn(m.words) \cup from .. to ELSE OnIn(m.words) \ (from .. to))
  <1> DEFINE ws == m.words
             first == from \div WordBits
             last == to \div WordBits
             a == {o \in Offsets : o >= from % WordBits}
             z == {o \in Offsets : o <= to % WordBits}
             M(i) == Masks(i - 1, first, last, a, z)
             g == [i \in DOMAIN ws |-> IF i - 1 \notin first .. last THEN ws[i]
                                       ELSE IF on THEN ws[i] \cup M(i) ELSE ws[i] \ M(i)]
             T == IF on THEN OnIn(ws) \cup from .. to ELSE OnIn(ws) \ (from .. to)
  <1>1. ws \in WordSeq
    BY DEF Map
  <1>2. SetRange(m, from, to, on) = Changed(g)
    BY DEF SetRange
  <1>3. from \in Int /\ to \in Int /\ first \in 0 .. Len(ws) - 1 /\ last \in 0 .. Len(ws) - 1
    BY <1>1, BitAt
  <1>4. \A i : M(i) \in SUBSET Offsets
    BY DEF Masks
  <1>5. /\ g \in [1 .. Len(ws) -> SUBSET Offsets] /\ DOMAIN ws = 1 .. Len(ws)
        /\ \A i \in 1 .. Len(ws) : g[i] = IF i - 1 \notin first .. last THEN ws[i] ELSE IF on THEN ws[i] \cup M(i) ELSE ws[i] \ M(i)
    <2>1. DOMAIN ws = 1 .. Len(ws) /\ \A i \in 1 .. Len(ws) : ws[i] \in SUBSET Offsets
      BY <1>1, WordThere
    <2> HIDE DEF M, first, last
    <2> QED BY <1>4, <2>1
  <1>6. from .. to \subseteq BitsOf(Len(ws)) /\ T \in SUBSET BitsOf(Len(ws))
    <2>1. Len(ws) * WordBits \in Int
      BY <1>1, BitMapAssumption, WordThere
    <2>2. from .. to \subseteq BitsOf(Len(ws))
      BY <2>1 DEF BitsOf
    <2> QED BY <2>2, <1>1, BitOn
  <1>7. ASSUME NEW x \in BitsOf(Len(ws))
        PROVE  (x % WordBits \in g[(x \div WordBits) + 1]) = (x \in T)
    <2> DEFINE i == (x \div WordBits) + 1
    <2>1. /\ x \in Int /\ i \in 1 .. Len(ws) /\ x \div WordBits \in Int /\ i - 1 = x \div WordBits
          /\ (x \in OnIn(ws)) = (x % WordBits \in ws[i])
      <3>1. x \in Int /\ i \in 1 .. Len(ws) /\ (x \in OnIn(ws)) = (x % WordBits \in ws[i])
        BY <1>1, BitAt
      <3>2. x \div WordBits \in Int
        BY <3>1, WordOf
      <3> QED BY <3>1, <3>2
    <2>2. (x \in from .. to) = (i - 1 \in first .. last /\ x % WordBits \in M(i))
      <3>1. (x \in from .. to) = (x \div WordBits \in first .. last /\ x % WordBits \in Masks(x \div WordBits, first, last, a, z))
        <4>1. from \in Int /\ to \in Int /\ x \in Int
          BY <1>3, <2>1
        <4> HIDE DEF ws, i, g
        <4> QED BY <4>1, InRange
      <3>2. i - 1 = x \div WordBits
        BY <2>1
      <3> HIDE DEF i, first, last, a, z
      <3> QED BY <3>1, <3>2
    <2> DEFINE o == x % WordBits
    <2>0. g[i] = IF i - 1 \notin first .. last THEN ws[i] ELSE IF on THEN ws[i] \cup M(i) ELSE ws[i] \ M(i)
      BY <1>5, <2>1
    <2> HIDE DEF g, i, M, first, last, o
    <2>3. (o \in g[i]) = IF on THEN o \in ws[i] \/ (i - 1 \in first .. last /\ o \in M(i))
                    ELSE o \in ws[i] /\ ~(i - 1 \in first .. last /\ o \in M(i))
      <3>1. CASE i - 1 \notin first .. last
        BY <2>0, <3>1
      <3>2. CASE i - 1 \in first .. last /\ on
        BY <2>0, <3>2
      <3>3. CASE i - 1 \in first .. last /\ ~on
        BY <2>0, <3>3
      <3> QED BY <3>1, <3>2, <3>3
    <2>4. (x \in T) = IF on THEN x \in OnIn(ws) \/ x \in from .. to ELSE x \in OnIn(ws) /\ x \notin from .. to
      BY DEF T
    <2> QED BY <2>1, <2>2, <2>3, <2>4 DEF i, o
  <1> HIDE DEF g, T, ws
  <1>8. Has(Changed(g), ws, T)
    BY <1>1, <1>5, <1>6, <1>7, MadeOf
  <1> QED BY <1>2, <1>8 DEF T, ws

\* Where a bit comes from when all are shifted.
LEMMA Nearer ==
  ASSUME NEW x \in Int, NEW d \in Int
  PROVE  LET w == x \div WordBits
             o == x % WordBits
             ws == d \div WordBits
             dd == d % WordBits
         IN /\ o >= dd => (x - d) \div WordBits = w - ws /\ (x - d) % WordBits = o - dd
            /\ o < dd => (x - d) \div WordBits = w - ws - 1 /\ (x - d) % WordBits = o - dd + WordBits
            /\ o + dd < WordBits => (x + d) \div WordBits = w + ws /\ (x + d) % WordBits = o + dd
            /\ o + dd >= WordBits => (x + d) \div WordBits = w + ws + 1 /\ (x + d) % WordBits = o + dd - WordBits
  <1> DEFINE w == x \div WordBits
             o == x % WordBits
             ws == d \div WordBits
             dd == d % WordBits
             W == WordBits
  <1>1. /\ w \in Int /\ ws \in Int /\ o \in 0 .. W - 1 /\ dd \in 0 .. W - 1 /\ W \in Nat \ {0}
        /\ x = (w * W) + o /\ d = (ws * W) + dd
    BY WordOf, BitMapAssumption DEF Offsets
  <1> HIDE DEF w, o, ws, dd
  <1>2. ASSUME NEW v \in Int, NEW p \in 0 .. W - 1 PROVE ((v * W) + p) \div WordBits = v /\ ((v * W) + p) % WordBits = p
    BY <1>2, OfWord DEF Offsets
  <1>3. /\ (w - ws) * W = (w * W) - (ws * W) /\ (w - ws - 1) * W = (w * W) - (ws * W) - W
        /\ (w + ws) * W = (w * W) + (ws * W) /\ (w + ws + 1) * W = (w * W) + (ws * W) + W
        /\ w * W \in Int /\ ws * W \in Int
    BY <1>1
  <1> HIDE DEF W
  <1>4. ASSUME o >= dd PROVE (x - d) \div WordBits = w - ws /\ (x - d) % WordBits = o - dd
    <2>1. o - dd \in 0 .. W - 1 /\ w - ws \in Int /\ x - d = ((w - ws) * W) + (o - dd)
      BY <1>1, <1>3, <1>4
    <2> QED BY <2>1, <1>2
  <1>5. ASSUME o < dd PROVE (x - d) \div WordBits = w - ws - 1 /\ (x - d) % WordBits = o - dd + W
    <2>1. o - dd + W \in 0 .. W - 1 /\ w - ws - 1 \in Int /\ x - d = ((w - ws - 1) * W) + (o - dd + W)
      BY <1>1, <1>3, <1>5
    <2> QED BY <2>1, <1>2
  <1>6. ASSUME o + dd < W PROVE (x + d) \div WordBits = w + ws /\ (x + d) % WordBits = o + dd
    <2>1. o + dd \in 0 .. W - 1 /\ w + ws \in Int /\ x + d = ((w + ws) * W) + (o + dd)
      BY <1>1, <1>3, <1>6
    <2> QED BY <2>1, <1>2
  <1>7. ASSUME o + dd >= W PROVE (x + d) \div WordBits = w + ws + 1 /\ (x + d) % WordBits = o + dd - W
    <2>1. o + dd - W \in 0 .. W - 1 /\ w + ws + 1 \in Int /\ x + d = ((w + ws + 1) * W) + (o + dd - W)
      BY <1>1, <1>3, <1>7
    <2> QED BY <2>1, <1>2
  <1> QED BY <1>4, <1>5, <1>6, <1>7 DEF w, o, ws, dd, W

\* Offsets that are moved within a word.
LEMMA Moves ==
  ASSUME NEW offs \in SUBSET Offsets, NEW d \in Int, NEW o \in Offsets
  PROVE  /\ Higher(offs, d) \in SUBSET Offsets /\ Lower(offs, d) \in SUBSET Offsets
         /\ (o \in Higher(offs, d)) = (o - d \in offs)
         /\ (o \in Lower(offs, d)) = (o + d \in offs)
  <1>1. Offsets \subseteq Int
    BY DEF Offsets
  <1>2. \A p \in offs : (p + d = o) = (p = o - d) /\ (p - d = o) = (p = o + d)
    BY <1>1
  <1> QED BY <1>1, <1>2 DEF Higher, Lower

\* A shift to higher numbers moves each bit, and loses those beyond the last word.
LEMMA ShiftUpIs ==
  ASSUME NEW m, Map(m), NEW d \in BitsOf(Len(m.words))
  PROVE  Has(ShiftUp(m, d), m.words, {x + d : x \in OnIn(m.words)} \cap BitsOf(Len(m.words)))
  <1> DEFINE old == m.words
             n == Len(m.words)
             ws == d \div WordBits
             dd == d % WordBits
             moved == [i \in DOMAIN old |-> IF i > ws THEN old[i - ws] ELSE {}]
             g == [i \in DOMAIN old |-> Higher(moved[i], dd) \cup IF i = 1 \/ dd = 0 THEN {} ELSE Lower(moved[i - 1], WordBits - dd)]
             T == {x + d : x \in OnIn(m.words)} \cap BitsOf(Len(m.words))
  <1>1. old \in WordSeq /\ n = Len(old)
    BY DEF Map
  <1>2. ShiftUp(m, d) = Changed(g)
    BY DEF ShiftUp
  <1>3. d \in Int /\ ws \in 0 .. n - 1 /\ dd \in Offsets /\ dd \in Int /\ WordBits - dd \in Int
    <2>1. d \in Int /\ ws \in 0 .. n - 1 /\ dd \in Offsets
      BY <1>1, BitAt
    <2>2. dd \in Int /\ WordBits - dd \in Int
      BY <2>1, BitMapAssumption DEF Offsets
    <2> QED BY <2>1, <2>2
  <1>4. DOMAIN old = 1 .. n /\ n \in Nat /\ \A i \in 1 .. n : old[i] \in SUBSET Offsets
    BY <1>1, WordThere
  <1>5. \A i \in 1 .. n : moved[i] = (IF i > ws THEN old[i - ws] ELSE {}) /\ moved[i] \in SUBSET Offsets
    <2> HIDE DEF old, n, ws
    <2>1. \A i \in 1 .. n : moved[i] = IF i > ws THEN old[i - ws] ELSE {}
      BY <1>4
    <2>2. \A i \in 1 .. n : i > ws => i - ws \in 1 .. n
      BY <1>3, <1>4
    <2> QED BY <1>4, <2>1, <2>2
  <1> HIDE DEF moved, ws, dd
  <1>6. ASSUME NEW i \in 1 .. n
        PROVE  /\ g[i] = Higher(moved[i], dd) \cup IF i = 1 \/ dd = 0 THEN {} ELSE Lower(moved[i - 1], WordBits - dd)
               /\ g[i] \in SUBSET Offsets
    <2> HIDE DEF n
    <2>1. g[i] = Higher(moved[i], dd) \cup IF i = 1 \/ dd = 0 THEN {} ELSE Lower(moved[i - 1], WordBits - dd)
      BY <1>4
    <2>2. i # 1 => i - 1 \in 1 .. n
      BY <1>4
    <2> QED BY <1>3, <1>5, <2>1, <2>2, Moves
  <1>7. g \in [1 .. n -> SUBSET Offsets]
    BY <1>4, <1>6
  <1>8. T \in SUBSET BitsOf(n)
    OBVIOUS
  <1>9. ASSUME NEW x \in BitsOf(n)
        PROVE  (x % WordBits \in g[(x \div WordBits) + 1]) = (x \in T)
    <2> DEFINE w == x \div WordBits
               o == x % WordBits
    <2>1. x \in Int /\ w \in 0 .. n - 1 /\ w + 1 \in 1 .. n /\ o \in Offsets /\ o \in Int
      BY <1>1, BitAt DEF Offsets
    <2>2. (x \in T) = (x - d \in OnIn(old))
      <3>1. OnIn(old) \subseteq Int
        BY <1>1, BitOn
      <3>2. \A y \in OnIn(old) : (x = y + d) = (y = x - d)
        BY <1>3, <2>1, <3>1
      <3> QED BY <3>2
    <2>3. (x - d \in OnIn(old)) <=> ((x - d) \div WordBits \in 0 .. n - 1 /\ (x - d) % WordBits \in old[((x - d) \div WordBits) + 1])
      <3>1. x - d \in Int
        BY <1>3, <2>1
      <3> QED BY <1>1, <3>1, BitOn
    <2>4. /\ o >= dd => (x - d) \div WordBits = w - ws /\ (x - d) % WordBits = o - dd
          /\ o < dd => (x - d) \div WordBits = w - ws - 1 /\ (x - d) % WordBits = o - dd + WordBits
      BY <1>3, <2>1, Nearer DEF ws, dd
    <2> HIDE DEF w, o, g, T, old, n
    <2>5. (o \in g[w + 1]) <=> (\/ o - dd \in moved[w + 1]
                                \/ w + 1 # 1 /\ dd # 0 /\ o + (WordBits - dd) \in moved[w])
      <3>1. g[w + 1] = Higher(moved[w + 1], dd) \cup IF w + 1 = 1 \/ dd = 0 THEN {} ELSE Lower(moved[w], WordBits - dd)
        <4>1. (w + 1) - 1 = w
          BY <2>1
        <4> QED BY <1>6, <2>1, <4>1
      <3>2. (o \in Higher(moved[w + 1], dd)) = (o - dd \in moved[w + 1])
        <4>1. moved[w + 1] \in SUBSET Offsets /\ dd \in Int /\ o \in Offsets
          BY <1>3, <1>5, <2>1
        <4> QED BY <4>1, Moves
      <3>3. w + 1 # 1 => (o \in Lower(moved[w], WordBits - dd)) = (o + (WordBits - dd) \in moved[w])
        <4>1. w + 1 # 1 => w \in 1 .. n
          BY <1>4, <2>1
        <4>2. ASSUME w + 1 # 1 PROVE moved[w] \in SUBSET Offsets /\ WordBits - dd \in Int /\ o \in Offsets
          BY <1>3, <1>5, <2>1, <4>1, <4>2
        <4> HIDE DEF dd
        <4> QED BY <4>2, Moves
      <3> QED BY <3>1, <3>2, <3>3
    <2>6. CASE o >= dd
      <3>1. o + (WordBits - dd) \notin Offsets
        BY <1>3, <2>1, <2>6, BitMapAssumption DEF Offsets
      <3>2. w + 1 # 1 => o + (WordBits - dd) \notin moved[w]
        <4>1. w + 1 # 1 => w \in 1 .. n
          BY <1>4, <2>1
        <4> QED BY <1>5, <3>1, <4>1
      <3>3. (o \in g[w + 1]) <=> (o - dd \in moved[w + 1])
        BY <2>5, <3>2
      <3>4. moved[w + 1] = IF w + 1 > ws THEN old[(w + 1) - ws] ELSE {}
        BY <1>5, <2>1
      <3>5. (x - d \in OnIn(old)) <=> (w - ws \in 0 .. n - 1 /\ o - dd \in old[(w - ws) + 1])
        BY <2>3, <2>4, <2>6
      <3>6. (w - ws \in 0 .. n - 1) = (w + 1 > ws) /\ (w - ws) + 1 = (w + 1) - ws
        BY <1>3, <1>4, <2>1
      <3>7. (o \in g[w + 1]) <=> (x - d \in OnIn(old))
        BY <3>3, <3>4, <3>5, <3>6
      <3> QED BY <2>2, <3>7 DEF w, o
    <2>7. CASE o < dd
      <3>1. o - dd \notin Offsets /\ dd # 0
        BY <1>3, <2>1, <2>7, BitMapAssumption DEF Offsets
      <3>2. o - dd \notin moved[w + 1]
        BY <1>5, <2>1, <3>1
      <3>3. (o \in g[w + 1]) <=> (w + 1 # 1 /\ o + (WordBits - dd) \in moved[w])
        BY <2>5, <3>1, <3>2
      <3>4. w + 1 # 1 => moved[w] = IF w > ws THEN old[w - ws] ELSE {}
        <4>1. w + 1 # 1 => w \in 1 .. n
          BY <1>4, <2>1
        <4> QED BY <1>5, <4>1
      <3>5. (x - d \in OnIn(old)) <=> (w - ws - 1 \in 0 .. n - 1 /\ o - dd + WordBits \in old[(w - ws - 1) + 1])
        BY <2>3, <2>4, <2>7
      <3>6. /\ (w - ws - 1 \in 0 .. n - 1) = (w + 1 # 1 /\ w > ws) /\ (w - ws - 1) + 1 = w - ws
            /\ o - dd + WordBits = o + (WordBits - dd)
        BY <1>3, <1>4, <2>1, BitMapAssumption
      <3>7. (o \in g[w + 1]) <=> (x - d \in OnIn(old))
        BY <3>3, <3>4, <3>5, <3>6
      <3> QED BY <2>2, <3>7 DEF w, o
    <2> QED BY <1>3, <2>1, <2>6, <2>7
  <1> HIDE DEF g, T, n, old
  <1>10. Has(Changed(g), old, T)
    BY <1>1, <1>7, <1>8, <1>9, MadeOf
  <1> QED BY <1>2, <1>10 DEF T, old

\* A shift to lower numbers, and its losses.
LEMMA ShiftDownIs ==
  ASSUME NEW m, Map(m), NEW d \in BitsOf(Len(m.words))
  PROVE  Has(ShiftDown(m, d), m.words, {x - d : x \in OnIn(m.words)} \cap BitsOf(Len(m.words)))
  <1> DEFINE old == m.words
             n == Len(m.words)
             ws == d \div WordBits
             dd == d % WordBits
             moved == [i \in DOMAIN old |-> IF n - (i - 1) > ws THEN old[i + ws] ELSE {}]
             g == [i \in DOMAIN old |-> Lower(moved[i], dd) \cup IF i = n \/ dd = 0 THEN {} ELSE Higher(moved[i + 1], WordBits - dd)]
             T == {x - d : x \in OnIn(m.words)} \cap BitsOf(Len(m.words))
  <1>1. old \in WordSeq /\ n = Len(old)
    BY DEF Map
  <1>2. ShiftDown(m, d) = Changed(g)
    BY DEF ShiftDown
  <1>3. d \in Int /\ ws \in 0 .. n - 1 /\ dd \in Offsets /\ dd \in Int /\ WordBits - dd \in Int
    <2>1. d \in Int /\ ws \in 0 .. n - 1 /\ dd \in Offsets
      BY <1>1, BitAt
    <2>2. dd \in Int /\ WordBits - dd \in Int
      BY <2>1, BitMapAssumption DEF Offsets
    <2> QED BY <2>1, <2>2
  <1>4. DOMAIN old = 1 .. n /\ n \in Nat /\ \A i \in 1 .. n : old[i] \in SUBSET Offsets
    BY <1>1, WordThere
  <1>5. \A i \in 1 .. n : moved[i] = (IF n - (i - 1) > ws THEN old[i + ws] ELSE {}) /\ moved[i] \in SUBSET Offsets
    <2> HIDE DEF old, n, ws
    <2>1. \A i \in 1 .. n : moved[i] = IF n - (i - 1) > ws THEN old[i + ws] ELSE {}
      BY <1>4
    <2>2. \A i \in 1 .. n : n - (i - 1) > ws => i + ws \in 1 .. n
      BY <1>3, <1>4
    <2> QED BY <1>4, <2>1, <2>2
  <1> HIDE DEF moved, ws, dd
  <1>6. ASSUME NEW i \in 1 .. n
        PROVE  /\ g[i] = Lower(moved[i], dd) \cup IF i = n \/ dd = 0 THEN {} ELSE Higher(moved[i + 1], WordBits - dd)
               /\ g[i] \in SUBSET Offsets
    <2> HIDE DEF n
    <2>1. g[i] = Lower(moved[i], dd) \cup IF i = n \/ dd = 0 THEN {} ELSE Higher(moved[i + 1], WordBits - dd)
      BY <1>4
    <2>2. i # n => i + 1 \in 1 .. n
      BY <1>4
    <2> QED BY <1>3, <1>5, <2>1, <2>2, Moves
  <1>7. g \in [1 .. n -> SUBSET Offsets]
    BY <1>4, <1>6
  <1>8. T \in SUBSET BitsOf(n)
    OBVIOUS
  <1>9. ASSUME NEW x \in BitsOf(n)
        PROVE  (x % WordBits \in g[(x \div WordBits) + 1]) = (x \in T)
    <2> DEFINE w == x \div WordBits
               o == x % WordBits
    <2>1. x \in Int /\ w \in 0 .. n - 1 /\ w + 1 \in 1 .. n /\ o \in Offsets /\ o \in Int
      BY <1>1, BitAt DEF Offsets
    <2>2. (x \in T) = (x + d \in OnIn(old))
      <3>1. OnIn(old) \subseteq Int
        BY <1>1, BitOn
      <3>2. \A y \in OnIn(old) : (x = y - d) = (y = x + d)
        BY <1>3, <2>1, <3>1
      <3> QED BY <3>2
    <2>3. (x + d \in OnIn(old)) <=> ((x + d) \div WordBits \in 0 .. n - 1 /\ (x + d) % WordBits \in old[((x + d) \div WordBits) + 1])
      <3>1. x + d \in Int
        BY <1>3, <2>1
      <3> QED BY <1>1, <3>1, BitOn
    <2>4. /\ o + dd < WordBits => (x + d) \div WordBits = w + ws /\ (x + d) % WordBits = o + dd
          /\ o + dd >= WordBits => (x + d) \div WordBits = w + ws + 1 /\ (x + d) % WordBits = o + dd - WordBits
      BY <1>3, <2>1, Nearer DEF ws, dd
    <2> HIDE DEF w, o, g, T, old, n
    <2>5. (o \in g[w + 1]) <=> (\/ o + dd \in moved[w + 1]
                                \/ w + 1 # n /\ dd # 0 /\ o - (WordBits - dd) \in moved[w + 2])
      <3>1. g[w + 1] = Lower(moved[w + 1], dd) \cup IF w + 1 = n \/ dd = 0 THEN {} ELSE Higher(moved[w + 2], WordBits - dd)
        <4>1. (w + 1) + 1 = w + 2
          BY <2>1
        <4> QED BY <1>6, <2>1, <4>1
      <3>2. (o \in Lower(moved[w + 1], dd)) = (o + dd \in moved[w + 1])
        <4>1. moved[w + 1] \in SUBSET Offsets /\ dd \in Int /\ o \in Offsets
          BY <1>3, <1>5, <2>1
        <4> QED BY <4>1, Moves
      <3>3. w + 1 # n => (o \in Higher(moved[w + 2], WordBits - dd)) = (o - (WordBits - dd) \in moved[w + 2])
        <4>1. w + 1 # n => w + 2 \in 1 .. n
          BY <1>4, <2>1
        <4>2. ASSUME w + 1 # n PROVE moved[w + 2] \in SUBSET Offsets /\ WordBits - dd \in Int /\ o \in Offsets
          BY <1>3, <1>5, <2>1, <4>1, <4>2
        <4> HIDE DEF dd
        <4> QED BY <4>2, Moves
      <3> QED BY <3>1, <3>2, <3>3
    <2>6. CASE o + dd < WordBits
      <3>1. o - (WordBits - dd) \notin Offsets
        BY <1>3, <2>1, <2>6, BitMapAssumption DEF Offsets
      <3>2. w + 1 # n => o - (WordBits - dd) \notin moved[w + 2]
        <4>1. w + 1 # n => w + 2 \in 1 .. n
          BY <1>4, <2>1
        <4> QED BY <1>5, <3>1, <4>1
      <3>3. (o \in g[w + 1]) = (o + dd \in moved[w + 1])
        BY <2>5, <3>2
      <3>4. moved[w + 1] = IF n - ((w + 1) - 1) > ws THEN old[(w + 1) + ws] ELSE {}
        BY <1>5, <2>1
      <3>5. (x + d \in OnIn(old)) <=> (w + ws \in 0 .. n - 1 /\ o + dd \in old[(w + ws) + 1])
        BY <2>3, <2>4, <2>6
      <3>6. (w + ws \in 0 .. n - 1) <=> (n - ((w + 1) - 1) > ws)
        <4>1. w \in Nat /\ ws \in Nat /\ n \in Nat
          BY <1>3, <1>4, <2>1
        <4> HIDE DEF w, o
        <4> QED BY <4>1
      <3>8. (w + ws) + 1 = (w + 1) + ws
        BY <1>3, <1>4, <2>1
      <3>7. (o \in g[w + 1]) = (x + d \in OnIn(old))
        BY <3>3, <3>4, <3>5, <3>6, <3>8
      <3> QED BY <2>2, <3>7 DEF w, o
    <2>7. CASE o + dd >= WordBits
      <3>1. o + dd \notin Offsets /\ dd # 0
        BY <1>3, <2>1, <2>7, BitMapAssumption DEF Offsets
      <3>2. o + dd \notin moved[w + 1]
        BY <1>5, <2>1, <3>1
      <3>3. (o \in g[w + 1]) <=> (w + 1 # n /\ o - (WordBits - dd) \in moved[w + 2])
        BY <2>5, <3>1, <3>2
      <3>4. w + 1 # n => moved[w + 2] = IF n - ((w + 2) - 1) > ws THEN old[(w + 2) + ws] ELSE {}
        <4>1. w + 1 # n => w + 2 \in 1 .. n
          BY <1>4, <2>1
        <4> QED BY <1>5, <4>1
      <3>5. (x + d \in OnIn(old)) <=> (w + ws + 1 \in 0 .. n - 1 /\ o + dd - WordBits \in old[(w + ws + 1) + 1])
        BY <2>3, <2>4, <2>7
      <3>6. /\ (w + ws + 1 \in 0 .. n - 1) <=> (w + 1 # n /\ n - ((w + 2) - 1) > ws)
            /\ (w + ws + 1) + 1 = (w + 2) + ws
            /\ o + dd - WordBits = o - (WordBits - dd)
        BY <1>3, <1>4, <2>1, BitMapAssumption
      <3>7. (o \in g[w + 1]) = (x + d \in OnIn(old))
        BY <3>3, <3>4, <3>5, <3>6
      <3> QED BY <2>2, <3>7 DEF w, o
    <2>8. o + dd < WordBits \/ o + dd >= WordBits
      BY <1>3, <2>1, BitMapAssumption
    <2> QED BY <2>6, <2>7, <2>8
  <1> HIDE DEF g, T, n, old
  <1>10. Has(Changed(g), old, T)
    BY <1>1, <1>7, <1>8, <1>9, MadeOf
  <1> QED BY <1>2, <1>10 DEF T, old

\* All bits, and another map's.
LEMMA SetAllIs ==
  ASSUME NEW m, Map(m), NEW on \in BOOLEAN
  PROVE  LET n == SetAll(m, on)
         IN Map(n) /\ Len(n.words) = Len(m.words) /\ OnIn(n.words) = (IF on THEN BitsOf(Len(m.words)) ELSE {})
            /\ n.cached = IF on THEN Len(m.words) * WordBits ELSE 0
  <1> DEFINE ws == m.words
             g == [i \in DOMAIN ws |-> IF on THEN Offsets ELSE {}]
             T == IF on THEN BitsOf(Len(ws)) ELSE {}
             c == IF on THEN Len(ws) * WordBits ELSE 0
  <1>1. ws \in WordSeq /\ DOMAIN ws = 1 .. Len(ws) /\ Len(ws) \in Nat
    BY WordThere DEF Map
  <1>2. g \in [1 .. Len(ws) -> SUBSET Offsets] /\ \A i \in 1 .. Len(ws) : g[i] = IF on THEN Offsets ELSE {}
    BY <1>1
  <1>3. ASSUME NEW x \in BitsOf(Len(ws)) PROVE (x % WordBits \in g[(x \div WordBits) + 1]) = (x \in T)
    <2>1. (x \div WordBits) + 1 \in 1 .. Len(ws) /\ x % WordBits \in Offsets
      BY <1>1, BitAt
    <2> QED BY <1>2, <2>1
  <1>4. SetAll(m, on).words = g /\ SetAll(m, on).cached = c /\ SetAll(m, on) = [words |-> g, cached |-> c]
    BY DEF SetAll
  <1>5. c \in Int
    BY <1>1, BitMapAssumption
  <1> HIDE DEF g, c, ws
  <1>6. Has(Changed(g), ws, T)
    BY <1>1, <1>2, <1>3, MadeOf
  <1>7. g \in WordSeq /\ Len(g) = Len(ws) /\ OnIn(g) = T
    BY <1>6 DEF Has, Changed, Map
  <1>8. Map(SetAll(m, on))
    BY <1>4, <1>5, <1>7 DEF Map
  <1> QED BY <1>4, <1>7, <1>8 DEF ws, c

\* All bits are changed, and a count that is cached is taken from their number.
LEMMA FlipAllIs ==
  ASSUME NEW m, Map(m)
  PROVE  LET n == FlipAll(m)
         IN Map(n) /\ Len(n.words) = Len(m.words) /\ OnIn(n.words) = BitsOf(Len(m.words)) \ OnIn(m.words)
            /\ n.cached = IF m.cached = NotCached THEN NotCached ELSE (Len(m.words) * WordBits) - m.cached
  <1> DEFINE ws == m.words
             g == [i \in DOMAIN ws |-> Offsets \ ws[i]]
             T == BitsOf(Len(ws)) \ OnIn(ws)
             c == IF m.cached = NotCached THEN NotCached ELSE (Len(ws) * WordBits) - m.cached
  <1>1. ws \in WordSeq /\ DOMAIN ws = 1 .. Len(ws) /\ Len(ws) \in Nat /\ m.cached \in Int
    BY WordThere DEF Map
  <1>2. g \in [1 .. Len(ws) -> SUBSET Offsets] /\ \A i \in 1 .. Len(ws) : g[i] = Offsets \ ws[i]
    BY <1>1
  <1>3. ASSUME NEW x \in BitsOf(Len(ws)) PROVE (x % WordBits \in g[(x \div WordBits) + 1]) = (x \in T)
    <2>1. (x \div WordBits) + 1 \in 1 .. Len(ws) /\ x % WordBits \in Offsets /\ (x \in OnIn(ws)) = (x % WordBits \in ws[(x \div WordBits) + 1])
      BY <1>1, BitAt
    <2> QED BY <1>2, <2>1
  <1>4. FlipAll(m).words = g /\ FlipAll(m).cached = c /\ FlipAll(m) = [words |-> g, cached |-> c]
    BY DEF FlipAll
  <1>5. c \in Int
    BY <1>1, BitMapAssumption DEF NotCached
  <1> HIDE DEF g, c, ws
  <1>6. Has(Changed(g), ws, T)
    BY <1>1, <1>2, <1>3, MadeOf
  <1>7. g \in WordSeq /\ Len(g) = Len(ws) /\ OnIn(g) = T
    BY <1>6 DEF Has, Changed, Map
  <1>8. Map(FlipAll(m))
    BY <1>4, <1>5, <1>7 DEF Map
  <1> QED BY <1>4, <1>7, <1>8 DEF ws, c

\* What a map is combined with: not longer.
Operand(r, ws) == r \in WordSeq /\ Len(r) <= Len(ws)
\* Its bits are bits of the map.
LEMMA OperandAt ==
  ASSUME NEW ws \in WordSeq, NEW r, Operand(r, ws)
  PROVE  /\ Len(r) \in Nat /\ \A i \in 1 .. Len(ws) : i <= Len(r) => r[i] \in SUBSET Offsets
         /\ BitsOf(Len(r)) \in SUBSET BitsOf(Len(ws)) /\ OnIn(r) \in SUBSET BitsOf(Len(r))
         /\ \A x \in BitsOf(Len(ws)) :
              /\ (x \in BitsOf(Len(r))) = ((x \div WordBits) + 1 <= Len(r))
              /\ (x \in OnIn(r)) <=> ((x \div WordBits) + 1 <= Len(r) /\ x % WordBits \in r[(x \div WordBits) + 1])
  <1>1. Len(r) \in Nat /\ Len(ws) \in Nat /\ \A i \in 1 .. Len(ws) : i <= Len(r) => r[i] \in SUBSET Offsets
    BY WordThere DEF Operand
  <1>2. OnIn(r) \in SUBSET BitsOf(Len(r))
    BY DEF OnIn
  <1>3. ASSUME NEW x \in Int PROVE (x \in BitsOf(Len(r))) => (x \in BitsOf(Len(ws)))
    BY <1>1, InBits DEF Operand
  <1>4. BitsOf(Len(r)) \subseteq Int
    BY <1>1, BitMapAssumption DEF BitsOf
  <1>5. ASSUME NEW x \in BitsOf(Len(ws))
        PROVE  (x \in BitsOf(Len(r))) = ((x \div WordBits) + 1 <= Len(r))
    <2>1. x \in Int /\ x \div WordBits \in 0 .. Len(ws) - 1
      BY BitAt
    <2>2. (x \in BitsOf(Len(r))) = (x \div WordBits \in 0 .. Len(r) - 1)
      BY <1>1, <2>1, InBits
    <2> QED BY <1>1, <2>1, <2>2
  <1>6. \A x \in BitsOf(Len(ws)) : (x \in OnIn(r)) <=> ((x \div WordBits) + 1 <= Len(r) /\ x % WordBits \in r[(x \div WordBits) + 1])
    BY <1>5 DEF OnIn
  <1> QED BY <1>1, <1>2, <1>3, <1>4, <1>5, <1>6

\* Or, And and AndNot as far as the other map goes.
LEMMA CombinedIs ==
  ASSUME NEW m, Map(m), NEW r, Operand(r, m.words)
  PROVE  /\ Has(Or(m, r), m.words, OnIn(m.words) \cup OnIn(r))
         /\ Has(And(m, r), m.words, OnIn(m.words) \ (BitsOf(Len(r)) \ OnIn(r)))
         /\ Has(AndNot(m, r), m.words, OnIn(m.words) \ OnIn(r))
  <1> DEFINE ws == m.words
             g1 == [i \in DOMAIN ws |-> IF i <= Len(r) THEN ws[i] \cup r[i] ELSE ws[i]]
             g2 == [i \in DOMAIN ws |-> IF i <= Len(r) THEN ws[i] \cap r[i] ELSE ws[i]]
             g3 == [i \in DOMAIN ws |-> IF i <= Len(r) THEN ws[i] \ r[i] ELSE ws[i]]
             T1 == OnIn(ws) \cup OnIn(r)
             T2 == OnIn(ws) \ (BitsOf(Len(r)) \ OnIn(r))
             T3 == OnIn(ws) \ OnIn(r)
  <1>1. ws \in WordSeq /\ DOMAIN ws = 1 .. Len(ws) /\ Len(ws) \in Nat /\ \A i \in 1 .. Len(ws) : ws[i] \in SUBSET Offsets
    BY WordThere DEF Map
  <1>2. Or(m, r) = Changed(g1) /\ And(m, r) = Changed(g2) /\ AndNot(m, r) = Changed(g3)
    BY DEF Or, And, AndNot, Combine
  <1> HIDE DEF ws
  <1>3. /\ Len(r) \in Nat /\ \A i \in 1 .. Len(ws) : i <= Len(r) => r[i] \in SUBSET Offsets
        /\ BitsOf(Len(r)) \in SUBSET BitsOf(Len(ws)) /\ OnIn(r) \in SUBSET BitsOf(Len(r))
    BY <1>1, OperandAt DEF ws
  <1>4. /\ g1 \in [1 .. Len(ws) -> SUBSET Offsets] /\ \A i \in 1 .. Len(ws) : g1[i] = IF i <= Len(r) THEN ws[i] \cup r[i] ELSE ws[i]
        /\ g2 \in [1 .. Len(ws) -> SUBSET Offsets] /\ \A i \in 1 .. Len(ws) : g2[i] = IF i <= Len(r) THEN ws[i] \cap r[i] ELSE ws[i]
        /\ g3 \in [1 .. Len(ws) -> SUBSET Offsets] /\ \A i \in 1 .. Len(ws) : g3[i] = IF i <= Len(r) THEN ws[i] \ r[i] ELSE ws[i]
    BY <1>1, <1>3
  <1>5. T1 \in SUBSET BitsOf(Len(ws)) /\ T2 \in SUBSET BitsOf(Len(ws)) /\ T3 \in SUBSET BitsOf(Len(ws))
    BY <1>1, <1>3, BitOn DEF OnIn
  <1>6. ASSUME NEW x \in BitsOf(Len(ws))
        PROVE  /\ (x % WordBits \in g1[(x \div WordBits) + 1]) = (x \in T1)
               /\ (x % WordBits \in g2[(x \div WordBits) + 1]) = (x \in T2)
               /\ (x % WordBits \in g3[(x \div WordBits) + 1]) = (x \in T3)
    <2> DEFINE i == (x \div WordBits) + 1
               o == x % WordBits
    <2>1. i \in 1 .. Len(ws) /\ (x \in OnIn(ws)) = (o \in ws[i])
      BY <1>1, BitAt
    <2>2. (x \in BitsOf(Len(r))) = (i <= Len(r)) /\ ((x \in OnIn(r)) <=> (i <= Len(r) /\ o \in r[i]))
      BY <1>1, OperandAt DEF ws
    <2>3. /\ g1[i] = IF i <= Len(r) THEN ws[i] \cup r[i] ELSE ws[i]
          /\ g2[i] = IF i <= Len(r) THEN ws[i] \cap r[i] ELSE ws[i]
          /\ g3[i] = IF i <= Len(r) THEN ws[i] \ r[i] ELSE ws[i]
      BY <1>4, <2>1
    <2> HIDE DEF i, o, g1, g2, g3
    <2>4. (o \in g1[i]) <=> (x \in T1)
      BY <2>1, <2>2, <2>3
    <2>5. (o \in g2[i]) <=> (x \in T2)
      BY <2>1, <2>2, <2>3
    <2>6. (o \in g3[i]) <=> (x \in T3)
      BY <2>1, <2>2, <2>3
    <2> QED BY <2>4, <2>5, <2>6 DEF i, o
  <1> HIDE DEF g1, g2, g3, T1, T2, T3
  <1>7. Has(Changed(g1), ws, T1)
    BY <1>1, <1>4, <1>5, <1>6, MadeOf
  <1>8. Has(Changed(g2), ws, T2)
    BY <1>1, <1>4, <1>5, <1>6, MadeOf
  <1>9. Has(Changed(g3), ws, T3)
    BY <1>1, <1>4, <1>5, <1>6, MadeOf
  <1> QED BY <1>2, <1>7, <1>8, <1>9 DEF T1, T2, T3, ws

\* Least and greatest of a bounded set.
LEMMA LeastIn ==
  ASSUME NEW a \in Int, NEW b \in Int, NEW T \in SUBSET (a .. b), T # {}
  PROVE  /\ Min(T) \in T /\ \A k \in T : Min(T) <= k
         /\ Max(T) \in T /\ \A k \in T : k <= Max(T)
  <1>1. \E m \in T : \A k \in T : m <= k
    <2> DEFINE U == {k - a : k \in T}
    <2>1. U \in SUBSET Nat /\ U # {}
      <3>1. \A k \in T : k - a \in Nat
        OBVIOUS
      <3> QED BY <3>1
    <2> HIDE DEF U
    <2>2. PICK u \in U : \A k \in U : u <= k
      BY <2>1, LeastOf
    <2>3. PICK m \in T : u = m - a
      BY DEF U
    <2>4. \A k \in T : m - a <= k - a
      BY <2>2, <2>3 DEF U
    <2> QED BY <2>4
  <1>2. \E m \in T : \A k \in T : m >= k
    <2> DEFINE U == {b - k : k \in T}
    <2>1. U \in SUBSET Nat /\ U # {}
      <3>1. \A k \in T : b - k \in Nat
        OBVIOUS
      <3> QED BY <3>1
    <2> HIDE DEF U
    <2>2. PICK u \in U : \A k \in U : u <= k
      BY <2>1, LeastOf
    <2>3. PICK m \in T : u = b - m
      BY DEF U
    <2>4. \A k \in T : b - m <= b - k
      BY <2>2, <2>3 DEF U
    <2> QED BY <2>4
  <1>3. Min(T) \in T /\ \A k \in T : Min(T) <= k
    BY <1>1 DEF Min
  <1>4. Max(T) \in T /\ \A k \in T : Max(T) >= k
    BY <1>2 DEF Max
  <1> QED BY <1>3, <1>4

\* What is on in some of the words, and what the count is chosen by.
PartOn(ws, T) == {x \in OnIn(ws) : (x \div WordBits) + 1 \in T}
SummedOn(ws, it) ==
  it = [T \in SUBSET (DOMAIN ws) |-> IF T = {} THEN 0 ELSE it[T \ {Max(T)}] + Cardinality(ws[Max(T)])]

\* There are finitely many bits, and as many as words of WordBits.
LEMMA OnIsFinite ==
  ASSUME NEW ws \in WordSeq
  PROVE  /\ IsFiniteSet(BitsOf(Len(ws))) /\ Cardinality(BitsOf(Len(ws))) = Len(ws) * WordBits
         /\ IsFiniteSet(OnIn(ws)) /\ Cardinality(OnIn(ws)) \in Nat
         /\ \A T : IsFiniteSet(PartOn(ws, T)) /\ Cardinality(PartOn(ws, T)) \in Nat
  <1>1. Len(ws) * WordBits \in Nat
    BY WordThere, BitMapAssumption
  <1>2. IsFiniteSet(BitsOf(Len(ws))) /\ Cardinality(BitsOf(Len(ws))) = Len(ws) * WordBits
    <2> DEFINE n == Len(ws) * WordBits
    <2>0. n - 1 \in Int /\ 0 \in Int
      BY <1>1
    <2> HIDE DEF n
    <2>1. IsFiniteSet(0 .. n - 1) /\ Cardinality(0 .. n - 1) = IF 0 > n - 1 THEN 0 ELSE (n - 1) - 0 + 1
      BY <2>0, FS_Interval
    <2>2. Cardinality(0 .. n - 1) = n
      BY <1>1, <2>1 DEF n
    <2> QED BY <2>1, <2>2 DEF n, BitsOf
  <1>3. OnIn(ws) \in SUBSET BitsOf(Len(ws)) /\ \A T : PartOn(ws, T) \in SUBSET BitsOf(Len(ws))
    BY DEF OnIn, PartOn
  <1> QED BY <1>2, <1>3, FS_Subset, FS_CardinalityType

\* The bits of one word are as many as its offsets that are on.
LEMMA WordCount ==
  ASSUME NEW ws \in WordSeq, NEW k \in 1 .. Len(ws)
  PROVE  Cardinality(PartOn(ws, {k})) = Cardinality(ws[k])
  <1> DEFINE P == PartOn(ws, {k})
             F == [x \in P |-> x % WordBits]
  <1>1. ws[k] \in SUBSET Offsets /\ Len(ws) \in Nat
    BY WordThere
  <1>2. ASSUME NEW x \in P PROVE x \in Int /\ x \div WordBits = k - 1 /\ x % WordBits \in ws[k] /\ F[x] = x % WordBits
    <2>1. x \in BitsOf(Len(ws)) /\ (x \div WordBits) + 1 = k /\ x \in OnIn(ws)
      BY DEF PartOn, OnIn
    <2>2. x \in Int /\ x \div WordBits \in 0 .. Len(ws) - 1 /\ x % WordBits \in ws[(x \div WordBits) + 1]
      BY <2>1, BitAt
    <2>3. x \div WordBits = k - 1
      BY <1>1, <2>1, <2>2
    <2> QED BY <2>1, <2>2, <2>3
  <1>3. ASSUME NEW o \in ws[k] PROVE \E x \in P : F[x] = o
    <2> DEFINE x == ((k - 1) * WordBits) + o
    <2>1. o \in Offsets /\ k - 1 \in Int
      BY <1>1
    <2>2. x \in Int /\ x \div WordBits = k - 1 /\ x % WordBits = o
      BY <2>1, OfWord
    <2> HIDE DEF x
    <2>3. (k - 1) + 1 = k /\ k - 1 \in 0 .. Len(ws) - 1
      BY <1>1
    <2>4. x \in OnIn(ws)
      BY <2>2, <2>3, BitOn
    <2>5. x \in P
      BY <2>2, <2>3, <2>4 DEF PartOn
    <2> QED BY <1>2, <2>2, <2>5
  <1>4. F \in [P -> ws[k]]
    BY <1>2
  <1> HIDE DEF F, P
  <1>5. \A x, y \in P : F[x] = F[y] => x = y
    BY <1>2, SameBit
  <1>6. F \in Bijection(P, ws[k])
    <2>1. F \in Injection(P, ws[k])
      BY <1>4, <1>5 DEF Injection, IsInjective
    <2>2. F \in Surjection(P, ws[k])
      BY <1>3, <1>4 DEF Surjection
    <2> QED BY <2>1, <2>2 DEF Bijection
  <1>7. IsFiniteSet(P)
    BY OnIsFinite DEF P
  <1> QED BY <1>6, <1>7, FS_Bijection DEF ExistsBijection, P

\* The bits of some words, by those of one and of the rest.
LEMMA PartOnWithout ==
  ASSUME NEW ws \in WordSeq, NEW T \in SUBSET (1 .. Len(ws)), NEW k \in T
  PROVE  Cardinality(PartOn(ws, T)) = Cardinality(PartOn(ws, T \ {k})) + Cardinality(ws[k])
  <1> DEFINE A == PartOn(ws, T \ {k})
             B == PartOn(ws, {k})
  <1>1. PartOn(ws, T) = A \cup B /\ A \cap B = {}
    BY DEF PartOn
  <1>2. IsFiniteSet(A) /\ IsFiniteSet(B) /\ Cardinality(A) \in Nat /\ Cardinality(B) \in Nat
    BY OnIsFinite
  <1>3. Cardinality(B) = Cardinality(ws[k])
    BY WordCount
  <1> HIDE DEF A, B
  <1>4. Cardinality(A \cup B) = Cardinality(A) + Cardinality(B) - Cardinality(A \cap B)
    BY <1>2, FS_Union
  <1>5. Cardinality(A \cap B) = 0
    BY <1>1, FS_EmptySet
  <1> QED BY <1>1, <1>2, <1>3, <1>4, <1>5 DEF A, B

\* The count, by what it is chosen by.
LEMMA FoldIsCount ==
  ASSUME NEW ws
  PROVE  FoldLeft(LAMBDA n, w : n + Cardinality(w), 0, ws) = (CHOOSE it : SummedOn(ws, it))[DOMAIN ws]
  BY DEF FoldLeft, MapThenFoldSet, SummedOn

\* The count of the offsets of all words is the number of bits.
LEMMA FoldCounts ==
  ASSUME NEW ws \in WordSeq
  PROVE  FoldLeft(LAMBDA n, w : n + Cardinality(w), 0, ws) = Cardinality(OnIn(ws))
  <1> DEFINE g == [T \in SUBSET (DOMAIN ws) |-> Cardinality(PartOn(ws, T))]
  <1>1. DOMAIN ws = 1 .. Len(ws) /\ Len(ws) \in Nat
    BY WordThere
  <1>2. ASSUME NEW T \in SUBSET (DOMAIN ws), T # {} PROVE Max(T) \in T
    <2>1. T \in SUBSET (1 .. Len(ws)) /\ 1 \in Int /\ Len(ws) \in Int
      BY <1>1
    <2> QED BY <1>2, <2>1, LeastIn
  <1>3. SummedOn(ws, g)
    <2>1. ASSUME NEW T \in SUBSET (DOMAIN ws)
          PROVE  g[T] = IF T = {} THEN 0 ELSE g[T \ {Max(T)}] + Cardinality(ws[Max(T)])
      <3>1. CASE T = {}
        <4>1. PartOn(ws, T) = {}
          BY <3>1 DEF PartOn
        <4> QED BY <3>1, <4>1, FS_EmptySet
      <3>2. CASE T # {}
        <4>1. Max(T) \in T
          BY <3>2, <1>2
        <4>2. Cardinality(PartOn(ws, T)) = Cardinality(PartOn(ws, T \ {Max(T)})) + Cardinality(ws[Max(T)])
          BY <1>1, <4>1, PartOnWithout
        <4> QED BY <3>2, <4>1, <4>2
      <3> QED BY <3>1, <3>2
    <2> QED BY <2>1 DEF SummedOn
  <1>4. ASSUME NEW it, SummedOn(ws, it), NEW S \in SUBSET (DOMAIN ws)
        PROVE  it[S] = g[S]
    <2> DEFINE Bad == {n \in Nat : \E T \in SUBSET (DOMAIN ws) : Cardinality(T) = n /\ it[T] # g[T]}
    <2>0. \A T \in SUBSET (DOMAIN ws) : IsFiniteSet(T) /\ Cardinality(T) \in Nat
      <3>1. IsFiniteSet(DOMAIN ws)
        <4>1. 1 \in Int /\ Len(ws) \in Int
          BY <1>1
        <4> QED BY <1>1, <4>1, FS_Interval
      <3> QED BY <3>1, FS_Subset, FS_CardinalityType
    <2>1. SUFFICES ASSUME Bad # {} PROVE FALSE
      BY <2>0, <2>1
    <2>2. PICK n \in Bad : \A k \in Bad : n <= k
      BY <2>1, LeastOf
    <2>3. PICK T \in SUBSET (DOMAIN ws) : Cardinality(T) = n /\ it[T] # g[T]
      BY <2>2
    <2>4. T # {}
      BY <1>3, <1>4, <2>3 DEF SummedOn
    <2>5. Max(T) \in T
      BY <1>2, <2>4
    <2>6. Cardinality(T \ {Max(T)}) = n - 1 /\ n - 1 \in Nat
      <3>1. IsFiniteSet(T) /\ Cardinality(T) = n /\ n \in Nat /\ Cardinality(T \ {Max(T)}) \in Nat
        BY <2>0, <2>3
      <3>2. Cardinality(T \ {Max(T)}) = Cardinality(T) - 1
        BY <3>1, <2>5, FS_RemoveElement
      <3> QED BY <3>1, <3>2
    <2>7. it[T \ {Max(T)}] = g[T \ {Max(T)}]
      <3>1. n - 1 \notin Bad
        <4>1. n \in Nat
          BY <2>2
        <4> HIDE DEF Bad
        <4>2. ~(n <= n - 1)
          BY <4>1
        <4> QED BY <2>2, <4>2
      <3> QED BY <2>6, <3>1
    <2>8. it[T] = it[T \ {Max(T)}] + Cardinality(ws[Max(T)])
      BY <1>4, <2>4 DEF SummedOn
    <2>9. g[T] = g[T \ {Max(T)}] + Cardinality(ws[Max(T)])
      <3> HIDE DEF g
      <3> QED BY <1>3, <2>4 DEF SummedOn
    <2> QED BY <2>3, <2>7, <2>8, <2>9
  <1>5. SummedOn(ws, CHOOSE it : SummedOn(ws, it))
    BY <1>3
  <1>6. (CHOOSE it : SummedOn(ws, it))[DOMAIN ws] = g[DOMAIN ws]
    BY <1>4, <1>5
  <1>7. PartOn(ws, DOMAIN ws) = OnIn(ws)
    <2>1. \A x \in OnIn(ws) : (x \div WordBits) + 1 \in DOMAIN ws
      BY <1>1, BitAt DEF OnIn
    <2> QED BY <2>1 DEF PartOn
  <1> QED BY <1>6, <1>7, FoldIsCount

\* The count, cached or not, is of the bits that are on.
LEMMA CountBitsIs ==
  ASSUME NEW m, Map(m), m.cached # NotCached => m.cached = Cardinality(OnIn(m.words))
  PROVE  CountBits(m) = Cardinality(OnIn(m.words))
  BY FoldCounts DEF CountBits, Map

\* Searches.
LEMMA InWord ==
  ASSUME NEW w \in Int, NEW b \in Int
  PROVE  /\ w * WordBits \in Int /\ (w * WordBits) + WordBits - 1 \in Int
         /\ (b \in (w * WordBits) .. ((w * WordBits) + WordBits - 1)) = (b \div WordBits = w)
         /\ (b >= w * WordBits) = (b \div WordBits >= w)
         /\ (b <= (w * WordBits) + WordBits - 1) = (b \div WordBits <= w)
         /\ (w * WordBits) \div WordBits = w /\ ((w * WordBits) + WordBits - 1) \div WordBits = w
  <1> DEFINE lo == w * WordBits
             hi == (w * WordBits) + WordBits - 1
             v == b \div WordBits
  <1>1. WordBits \in Nat \ {0} /\ 0 \in Offsets /\ WordBits - 1 \in Offsets /\ lo \in Int /\ hi \in Int /\ v \in Int /\ b % WordBits \in 0 .. WordBits - 1
    BY BitMapAssumption, WordOf DEF Offsets
  <1>2. /\ lo = (w * WordBits) + 0 /\ hi = (w * WordBits) + (WordBits - 1)
    BY <1>1
  <1>3. /\ lo \div WordBits = w /\ lo % WordBits = 0
        /\ hi \div WordBits = w /\ hi % WordBits = WordBits - 1
    BY <1>1, <1>2, OfWord
  <1> HIDE DEF lo, hi, v
  <1>4. (lo <= b) = (w < v \/ (w = v /\ 0 <= b % WordBits))
    BY <1>1, <1>3, Order DEF v
  <1>5. (b <= hi) = (v < w \/ (v = w /\ b % WordBits <= WordBits - 1))
    BY <1>1, <1>3, Order DEF v
  <1>6. (lo <= b) = (v >= w) /\ (b <= hi) = (v <= w)
    BY <1>1, <1>4, <1>5
  <1>7. (b \in lo .. hi) = (v = w)
    BY <1>1, <1>6
  <1>8. (b >= lo) = (lo <= b)
    BY <1>1
  <1> QED BY <1>1, <1>3, <1>6, <1>7, <1>8 DEF lo, hi, v

\* A bit of a later word is a later bit.
LEMMA Later == ASSUME NEW x \in Int, NEW y \in Int, x \div WordBits < y \div WordBits PROVE x < y
  <1>1. x <= y
    BY Order
  <1>2. x # y
    BY WordOf
  <1> QED BY <1>1, <1>2

\* The least and the greatest of a set are known by what they are.
LEMMA OnlyLeast ==
  ASSUME NEW D \in SUBSET Int, NEW x \in D
  PROVE  /\ (\A k \in D : x <= k) => Min(D) = x
         /\ (\A k \in D : k <= x) => Max(D) = x
  <1>1. ASSUME \A k \in D : x <= k PROVE Min(D) = x
    <2>1. \E z \in D : \A k \in D : z <= k
      BY <1>1
    <2>2. Min(D) \in D /\ \A k \in D : Min(D) <= k
      BY <2>1 DEF Min
    <2>3. x <= Min(D) /\ Min(D) <= x
      BY <1>1, <2>2
    <2>4. Min(D) \in Int /\ x \in Int
      BY <2>2
    <2> QED BY <2>3, <2>4
  <1>2. ASSUME \A k \in D : k <= x PROVE Max(D) = x
    <2>1. \E z \in D : \A k \in D : z >= k
      BY <1>2
    <2>2. Max(D) \in D /\ \A k \in D : Max(D) >= k
      BY <2>1 DEF Max
    <2>3. x <= Max(D) /\ Max(D) <= x
      BY <1>2, <2>2
    <2>4. Max(D) \in Int /\ x \in Int
      BY <2>2
    <2> QED BY <2>3, <2>4
  <1> QED BY <1>1, <1>2

\* The lesser and the greater of two numbers.
LEMMA OfTwo ==
  ASSUME NEW a \in Int, NEW b \in Int
  PROVE  Min({a, b}) = (IF a <= b THEN a ELSE b) /\ Max({a, b}) = (IF a <= b THEN b ELSE a)
  <1>1. {a, b} \in SUBSET Int /\ a \in {a, b} /\ b \in {a, b}
    OBVIOUS
  <1>2. CASE a <= b
    BY <1>1, <1>2, OnlyLeast
  <1>3. CASE ~(a <= b)
    <2>1. b <= a
      BY <1>3
    <2> QED BY <1>1, <1>3, <2>1, OnlyLeast
  <1> QED BY <1>2, <1>3

\* Bits that are on, or off.
Hits(m, type) == {b \in BitsOf(Len(m.words)) : Test(m, b) = type}

\* A word has a bit of a kind if it is not all of the other.
LEMMA WordHits ==
  ASSUME NEW m, Map(m), NEW type \in BOOLEAN, NEW w \in 0 .. Len(m.words) - 1
  PROVE  (Word(m, w) # IF type THEN {} ELSE Offsets) <=> (\E b \in Hits(m, type) : b \div WordBits = w)
  <1> DEFINE ws == m.words
  <1>1. ws \in WordSeq /\ w \in Int /\ ws[w + 1] \in SUBSET Offsets /\ Len(ws) \in Nat
    BY WordThere DEF Map
  <1>2. \A b \in Int : b \div WordBits = w => b \in BitsOf(Len(ws)) /\ Test(m, b) = (b % WordBits \in ws[w + 1])
    BY <1>1, InBits DEF Test, Word
  <1>3. ASSUME NEW o \in Offsets PROVE \E b \in Int : b \div WordBits = w /\ b % WordBits = o
    BY <1>1, OfWord
  <1>4. Word(m, w) = ws[w + 1]
    BY DEF Word
  <1>5. ASSUME NEW b \in Hits(m, type) PROVE b \in Int /\ b % WordBits \in Offsets /\ Test(m, b) = type
    BY BitAt DEF Hits, Map
  <1>6. CASE type
    <2>1. ASSUME NEW o \in ws[w + 1] PROVE \E b \in Hits(m, type) : b \div WordBits = w
      <3>1. PICK b \in Int : b \div WordBits = w /\ b % WordBits = o
        BY <1>1, <1>3
      <3>2. b \in Hits(m, type)
        BY <1>2, <1>6, <3>1 DEF Hits
      <3> QED BY <3>1, <3>2
    <2>2. ASSUME NEW b \in Hits(m, type), b \div WordBits = w PROVE b % WordBits \in ws[w + 1]
      BY <1>2, <1>5, <1>6, <2>2
    <2> QED BY <1>4, <1>6, <2>1, <2>2
  <1>7. CASE ~type
    <2>1. ASSUME NEW o \in Offsets, o \notin ws[w + 1] PROVE \E b \in Hits(m, type) : b \div WordBits = w
      <3>1. PICK b \in Int : b \div WordBits = w /\ b % WordBits = o
        BY <1>3
      <3>2. Test(m, b) = type
        BY <1>2, <1>7, <2>1, <3>1
      <3>3. b \in Hits(m, type)
        BY <1>2, <3>1, <3>2 DEF Hits
      <3> QED BY <3>1, <3>3
    <2>2. ASSUME NEW b \in Hits(m, type), b \div WordBits = w PROVE b % WordBits \in Offsets /\ b % WordBits \notin ws[w + 1]
      BY <1>2, <1>5, <1>7, <2>2
    <2>3. (ws[w + 1] # Offsets) <=> (\E o \in Offsets : o \notin ws[w + 1])
      BY <1>1
    <2> HIDE DEF ws
    <2>4. (ws[w + 1] # Offsets) <=> (\E b \in Hits(m, type) : b \div WordBits = w)
      BY <2>1, <2>2, <2>3
    <2> QED BY <1>4, <1>7, <2>4
  <1> QED BY <1>6, <1>7

\* The least, and the greatest, of a part that the rest does not precede, or follow.
LEMMA FirstOf ==
  ASSUME NEW a \in Int, NEW z \in Int, NEW D \in SUBSET (a .. z), NEW F \in SUBSET D, F # {}
  PROVE  /\ (\A x \in D \ F : \A y \in F : y <= x) => Min(F) = Min(D)
         /\ (\A x \in D \ F : \A y \in F : x <= y) => Max(F) = Max(D)
  <1>1. F \in SUBSET (a .. z) /\ D \in SUBSET Int
    OBVIOUS
  <1>2. /\ Min(F) \in F /\ \A k \in F : Min(F) <= k
        /\ Max(F) \in F /\ \A k \in F : k <= Max(F)
    BY <1>1, LeastIn
  <1>3. ASSUME \A x \in D \ F : \A y \in F : y <= x PROVE Min(F) = Min(D)
    <2>1. \A k \in D : Min(F) <= k
      BY <1>2, <1>3
    <2>2. Min(F) \in D
      BY <1>2
    <2> QED BY <1>1, <2>1, <2>2, OnlyLeast
  <1>4. ASSUME \A x \in D \ F : \A y \in F : x <= y PROVE Max(F) = Max(D)
    <2>1. \A k \in D : k <= Max(F)
      BY <1>2, <1>4
    <2>2. Max(F) \in D
      BY <1>2
    <2> QED BY <1>1, <2>1, <2>2, OnlyLeast
  <1> QED BY <1>3, <1>4

\* Bits of a kind are bits of the map, and what a search within a word looks at.
LEMMA HitsThere ==
  ASSUME NEW m, Map(m), NEW type \in BOOLEAN
  PROVE  /\ Hits(m, type) \in SUBSET Int
         /\ \A b \in Hits(m, type) : b \in BitsOf(Len(m.words)) /\ b \div WordBits \in 0 .. Len(m.words) - 1 /\ b \div WordBits \in Int
         /\ \A a, z \in Int : (a .. z) \subseteq BitsOf(Len(m.words)) => {b \in a .. z : Test(m, b) = type} = Hits(m, type) \cap a .. z
  <1>1. \A b \in Hits(m, type) : b \in BitsOf(Len(m.words))
    BY DEF Hits
  <1>2. \A b \in BitsOf(Len(m.words)) : b \in Int /\ b \div WordBits \in 0 .. Len(m.words) - 1 /\ b \div WordBits \in Int
    BY BitAt, WordOf DEF Map
  <1>3. \A a, z \in Int : (a .. z) \subseteq BitsOf(Len(m.words)) => {b \in a .. z : Test(m, b) = type} = Hits(m, type) \cap a .. z
    BY DEF Hits
  <1> QED BY <1>1, <1>2, <1>3

\* Between two bits of a map there are only bits of it, as there are between two words.
LEMMA Between ==
  ASSUME NEW m, Map(m), NEW a \in Int, NEW z \in Int,
         a \div WordBits >= 0, z \div WordBits <= Len(m.words) - 1
  PROVE  (a .. z) \subseteq BitsOf(Len(m.words))
  <1>1. Len(m.words) \in Nat
    BY WordThere DEF Map
  <1>2. ASSUME NEW x \in a .. z PROVE x \in BitsOf(Len(m.words))
    <2>1. x \in Int /\ a <= x /\ x <= z /\ x \div WordBits \in Int /\ a \div WordBits \in Int /\ z \div WordBits \in Int
      BY WordOf
    <2>2. a \div WordBits <= x \div WordBits /\ x \div WordBits <= z \div WordBits
      BY <2>1, Order
    <2>3. x \div WordBits \in 0 .. Len(m.words) - 1
      BY <1>1, <2>1, <2>2
    <2> QED BY <1>1, <2>1, <2>3, InBits
  <1> QED BY <1>2

\* A search forwards finds the least bit of the kind in its range.
LEMMA FindNextIs ==
  ASSUME NEW m, Map(m), NEW from \in BitsOf(Len(m.words)), NEW to \in BitsOf(Len(m.words)), NEW type \in BOOLEAN
  PROVE  LET D == Hits(m, type) \cap from .. to
         IN FindNext(m, from, to, type) = IF D = {} THEN {} ELSE {Min(D)}
  <1> DEFINE H == Hits(m, type)
             D == H \cap from .. to
             n == Len(m.words)
             W == WordBits
             first == from \div W
             last == to \div W
             edge == Min({to, first * W + W - 1})
             In(a, z) == {b \in a .. z : Test(m, b) = type}
             mids == {w \in first + 1 .. last - 1 : Word(m, w) # IF type THEN {} ELSE Offsets}
             low == Min(mids)
             inMid == In(low * W, low * W + W - 1)
             found == CASE In(from, edge) # {} -> In(from, edge)
                        [] In(from, edge) = {} /\ edge = to -> {}
                        [] In(from, edge) = {} /\ edge # to /\ mids # {} -> inMid
                        [] OTHER -> In(last * W, to)
  <1>0. FindNext(m, from, to, type) = IF from > to \/ found = {} THEN {} ELSE {Min(found)}
    BY DEF FindNext
  <1>1. /\ from \in Int /\ to \in Int /\ n \in Nat
        /\ first \in Int /\ last \in Int /\ first >= 0 /\ last >= 0 /\ first <= n - 1 /\ last <= n - 1
    <2>1. /\ from \in Int /\ to \in Int /\ first \in 0 .. n - 1 /\ last \in 0 .. n - 1 /\ n \in Nat
      BY BitAt, WordThere DEF Map
    <2> QED BY <2>1, WordOf
  <1>2. CASE from > to
    <2>1. D = {}
      BY <1>1, <1>2
    <2> QED BY <1>0, <1>2, <2>1
  <1>3. CASE from <= to
    <2>1. first <= last
      BY <1>1, <1>3, Order
    <2>2. D \in SUBSET (from .. to) /\ D \in SUBSET H /\ \A d \in D : d \in Int /\ d \div W \in Int /\ d \div W <= last
      <3>1. ASSUME NEW d \in D PROVE d \in Int /\ d \div W \in Int /\ d \div W <= last
        <4>1. d \in Int /\ d <= to
          BY <1>1
        <4>2. d \div W \in Int
          BY <4>1, WordOf
        <4>3. d \div W < last \/ d \div W = last
          BY <4>1, <1>1, Order
        <4> QED BY <4>1, <4>2, <4>3, <1>1
      <3> QED BY <3>1
    <2> DEFINE e == (first * W) + W - 1
    <2>3. e \in Int /\ e \div W = first /\ \A b \in Int : (b <= e) = (b \div W <= first)
      BY <1>1, InWord
    <2>4. edge = (IF to <= e THEN to ELSE e) /\ edge \in Int /\ edge <= to
      <3>1. edge = Min({to, e})
        OBVIOUS
      <3> HIDE DEF edge, e
      <3>2. edge = IF to <= e THEN to ELSE e
        BY <1>1, <2>3, <3>1, OfTwo
      <3> QED BY <1>1, <2>3, <3>2
    <2>5. In(from, edge) = D \cap from .. edge
      <3>1. (from .. to) \subseteq BitsOf(n)
        BY <1>1, Between
      <3>2. (from .. edge) \subseteq (from .. to)
        BY <1>1, <2>4
      <3>3. (from .. edge) \subseteq BitsOf(n)
        BY <3>1, <3>2
      <3> HIDE DEF edge, n, H
      <3>4. In(from, edge) = H \cap from .. edge
        BY <1>1, <2>4, <3>3, HitsThere DEF n, H
      <3> QED BY <3>2, <3>4
    <2>6. CASE In(from, edge) # {}
      <3>1. found = In(from, edge)
        BY <2>6
      <3> DEFINE F == D \cap from .. edge
      <3>2. F # {} /\ F \in SUBSET D /\ found = F
        BY <2>5, <2>6, <3>1
      <3>3. ASSUME NEW x \in D \ F, NEW y \in F PROVE y <= x
        <4>1. x \in Int /\ y \in Int /\ y <= edge /\ ~(x <= edge)
          <5> HIDE DEF H, edge
          <5> QED BY <1>1, <2>4
        <4> QED BY <2>4, <4>1
      <3> HIDE DEF F, D, found, H
      <3>4. Min(F) = Min(D)
        BY <1>1, <2>2, <3>2, <3>3, FirstOf
      <3>5. D # {} /\ ~(from > to)
        BY <1>1, <1>3, <3>2
      <3> QED BY <1>0, <3>2, <3>4, <3>5 DEF D, H
    <2>7. CASE In(from, edge) = {} /\ edge = to
      <3>1. found = {}
        BY <2>7
      <3>2. D = {}
        BY <2>2, <2>5, <2>7
      <3> QED BY <1>0, <3>1, <3>2
    <2>8. CASE In(from, edge) = {} /\ edge # to
      <3>1. ~(to <= e) /\ edge = e
        BY <2>4, <2>8
      <3>2. first < last
        BY <1>1, <2>3, <3>1
      <3>3. ASSUME NEW d \in D PROVE first < d \div W
        <4>1. ~(d <= edge)
          <5>1. d \in Int /\ from <= d
            BY <1>1, <2>2
          <5>2. d \notin from .. edge
            <6> HIDE DEF D, In, edge
            <6> QED BY <2>5, <2>8
          <5> HIDE DEF edge, D
          <5> QED BY <1>1, <2>4, <5>1, <5>2
        <4> QED BY <1>1, <2>2, <2>3, <3>1, <4>1
      <3>4. mids \in SUBSET ((first + 1) .. (last - 1)) /\ first + 1 \in Int /\ last - 1 \in Int
        BY <1>1
      <3>5. ASSUME NEW w \in (first + 1) .. (last - 1) PROVE (w \in mids) <=> (\E b \in H : b \div W = w)
        <4>1. w \in 0 .. n - 1
          BY <1>1
        <4>2. (Word(m, w) # IF type THEN {} ELSE Offsets) <=> (\E b \in H : b \div W = w)
          BY <4>1, WordHits
        <4> QED BY <4>2
      <3>6. CASE mids # {}
        <4>1. low \in mids /\ \A w \in mids : low <= w
          BY <3>4, <3>6, LeastIn
        <4>2. low \in Int /\ first < low /\ low < last /\ low >= 0 /\ low <= n - 1
          BY <1>1, <3>4, <4>1
        <4>3. found = inMid
          BY <2>8, <3>6
        <4> DEFINE F == {b \in H : b \div W = low}
                   lo == low * W
                   hi == (low * W) + W - 1
        <4> HIDE DEF low, mids, found
        <4>4. inMid = F
          <5>1. lo \in Int /\ hi \in Int /\ lo \div W = low /\ hi \div W = low
            BY <4>2, InWord
          <5>2. (lo .. hi) \subseteq BitsOf(n)
            BY <4>2, <5>1, Between
          <5>3. inMid = In(lo, hi)
            OBVIOUS
          <5>4. \A b \in Int : (b \in lo .. hi) = (b \div W = low)
            BY <4>2, InWord
          <5> HIDE DEF lo, hi, inMid
          <5>5. In(lo, hi) = H \cap lo .. hi
            BY <5>1, <5>2, HitsThere
          <5>6. \A b \in H : b \in Int
            BY HitsThere
          <5> HIDE DEF H
          <5> QED BY <5>3, <5>4, <5>5, <5>6
        <4>5. F # {}
          BY <3>4, <3>5, <4>1
        <4>6. ASSUME NEW b \in F PROVE b \in D /\ b \in Int /\ b \div W = low
          <5>1. b \in Int /\ b \div W = low /\ b \in H
            BY HitsThere
          <5>2. from < b /\ b < to
            BY <1>1, <4>2, <5>1, Later
          <5>3. b \in from .. to
            BY <1>1, <5>1, <5>2
          <5> QED BY <5>1, <5>3
        <4>7. ASSUME NEW x \in D \ F, NEW y \in F PROVE y <= x
          <5>1. x \in Int /\ x \div W \in Int /\ first < x \div W /\ x \div W <= last /\ x \in H
            BY <2>2, <3>3
          <5>2. x \div W # low
            BY <5>1
          <5>3. low < x \div W
            <6>1. CASE x \div W = last
              BY <4>2, <6>1
            <6>2. CASE x \div W # last
              <7>1. x \div W \in (first + 1) .. (last - 1)
                BY <1>1, <5>1, <6>2
              <7>2. x \div W \in mids
                BY <3>5, <5>1, <7>1
              <7>3. low <= x \div W
                BY <4>1, <7>2
              <7> QED BY <4>2, <5>1, <5>2, <7>3
            <6> QED BY <6>1, <6>2
          <5>4. y < x
            BY <4>6, <5>1, <5>3, Later
          <5> QED BY <4>6, <5>1, <5>4
        <4>8. F \in SUBSET D
          BY <4>6
        <4> HIDE DEF F, D, H, inMid
        <4>9. Min(F) = Min(D)
          BY <1>1, <2>2, <4>5, <4>7, <4>8, FirstOf
        <4>10. D # {} /\ ~(from > to)
          BY <1>1, <1>3, <4>5, <4>8
        <4> QED BY <1>0, <4>3, <4>4, <4>5, <4>9, <4>10 DEF D, H
      <3>7. CASE mids = {}
        <4>1. found = In(last * W, to)
          BY <2>8, <3>7
        <4> DEFINE lo == last * W
        <4>2. lo \in Int /\ lo \div W = last /\ \A b \in Int : (b >= lo) = (b \div W >= last)
          BY <1>1, InWord
        <4>3. (lo .. to) \subseteq BitsOf(n)
          BY <1>1, <4>2, Between
        <4> HIDE DEF mids, found, lo
        <4>4. In(lo, to) = H \cap lo .. to
          BY <1>1, <4>2, <4>3, HitsThere
        <4>5. from < lo
          BY <1>1, <3>2, <4>2, Later
        <4>6. ASSUME NEW d \in D PROVE d \in lo .. to
          <5>1. d \in Int /\ d \div W \in Int /\ first < d \div W /\ d \div W <= last /\ d \in H /\ d <= to
            BY <1>1, <2>2, <3>3
          <5>2. d \div W = last
            <6>1. SUFFICES ASSUME d \div W # last PROVE FALSE
              OBVIOUS
            <6>2. d \div W \in (first + 1) .. (last - 1)
              BY <1>1, <5>1, <6>1
            <6> QED BY <3>5, <3>7, <5>1, <6>2
          <5>3. d >= lo
            BY <1>1, <4>2, <5>1, <5>2
          <5> QED BY <1>1, <4>2, <5>1, <5>3
        <4>7. H \cap lo .. to = D
          <5>1. (lo .. to) \subseteq (from .. to)
            BY <1>1, <4>2, <4>5
          <5> HIDE DEF H
          <5> QED BY <4>6, <5>1
        <4>8. found = D
          BY <4>1, <4>4, <4>7 DEF lo
        <4>9. ~(from > to)
          BY <1>1, <1>3
        <4> HIDE DEF D
        <4> QED BY <1>0, <4>8, <4>9 DEF D, H
      <3> QED BY <3>6, <3>7
    <2> QED BY <2>6, <2>7, <2>8
  <1>4. from > to \/ from <= to
    BY <1>1
  <1> QED BY <1>2, <1>3, <1>4

\* A search backwards finds the greatest.
LEMMA FindPrevIs ==
  ASSUME NEW m, Map(m), NEW from \in BitsOf(Len(m.words)), NEW to \in BitsOf(Len(m.words)), NEW type \in BOOLEAN
  PROVE  LET D == Hits(m, type) \cap to .. from
         IN FindPrev(m, from, to, type) = IF D = {} THEN {} ELSE {Max(D)}
  <1> DEFINE H == Hits(m, type)
             D == H \cap to .. from
             n == Len(m.words)
             W == WordBits
             first == from \div W
             last == to \div W
             edge == Max({to, first * W})
             In(a, z) == {b \in a .. z : Test(m, b) = type}
             mids == {w \in last + 1 .. first - 1 : Word(m, w) # IF type THEN {} ELSE Offsets}
             high == Max(mids)
             inMid == In(high * W, high * W + W - 1)
             found == CASE In(edge, from) # {} -> In(edge, from)
                        [] In(edge, from) = {} /\ edge = to -> {}
                        [] In(edge, from) = {} /\ edge # to /\ mids # {} -> inMid
                        [] OTHER -> In(to, last * W + W - 1)
  <1>0. FindPrev(m, from, to, type) = IF from < to \/ found = {} THEN {} ELSE {Max(found)}
    BY DEF FindPrev
  <1>1. /\ from \in Int /\ to \in Int /\ n \in Nat
        /\ first \in Int /\ last \in Int /\ first >= 0 /\ last >= 0 /\ first <= n - 1 /\ last <= n - 1
    <2>1. /\ from \in Int /\ to \in Int /\ first \in 0 .. n - 1 /\ last \in 0 .. n - 1 /\ n \in Nat
      BY BitAt, WordThere DEF Map
    <2> QED BY <2>1, WordOf
  <1>2. CASE from < to
    <2>1. D = {}
      BY <1>1, <1>2
    <2> QED BY <1>0, <1>2, <2>1
  <1>3. CASE to <= from
    <2>1. last <= first
      BY <1>1, <1>3, Order
    <2>2. D \in SUBSET (to .. from) /\ D \in SUBSET H /\ \A d \in D : d \in Int /\ d \div W \in Int /\ last <= d \div W
      <3>1. ASSUME NEW d \in D PROVE d \in Int /\ d \div W \in Int /\ last <= d \div W
        <4>1. d \in Int /\ to <= d
          BY <1>1
        <4>2. d \div W \in Int
          BY <4>1, WordOf
        <4>3. last < d \div W \/ last = d \div W
          BY <4>1, <1>1, Order
        <4> QED BY <4>1, <4>2, <4>3, <1>1
      <3> QED BY <3>1
    <2> DEFINE e == first * W
    <2>3. e \in Int /\ e \div W = first /\ \A b \in Int : (b >= e) = (b \div W >= first)
      BY <1>1, InWord
    <2>4. edge = (IF to <= e THEN e ELSE to) /\ edge \in Int /\ to <= edge
      <3>1. edge = Max({to, e})
        OBVIOUS
      <3> HIDE DEF edge, e
      <3>2. edge = IF to <= e THEN e ELSE to
        BY <1>1, <2>3, <3>1, OfTwo
      <3> QED BY <1>1, <2>3, <3>2
    <2>5. In(edge, from) = D \cap edge .. from
      <3>1. (to .. from) \subseteq BitsOf(n)
        BY <1>1, Between
      <3>2. (edge .. from) \subseteq (to .. from)
        BY <1>1, <2>4
      <3>3. (edge .. from) \subseteq BitsOf(n)
        BY <3>1, <3>2
      <3> HIDE DEF edge, n, H
      <3>4. In(edge, from) = H \cap edge .. from
        BY <1>1, <2>4, <3>3, HitsThere DEF n, H
      <3> QED BY <3>2, <3>4
    <2>6. CASE In(edge, from) # {}
      <3>1. found = In(edge, from)
        BY <2>6
      <3> DEFINE F == D \cap edge .. from
      <3>2. F # {} /\ F \in SUBSET D /\ found = F
        BY <2>5, <2>6, <3>1
      <3>3. ASSUME NEW x \in D \ F, NEW y \in F PROVE x <= y
        <4>1. x \in Int /\ y \in Int /\ edge <= y /\ ~(edge <= x)
          <5> HIDE DEF H, edge
          <5> QED BY <1>1, <2>4
        <4> QED BY <2>4, <4>1
      <3> HIDE DEF F, D, found, H
      <3>4. Max(F) = Max(D)
        BY <1>1, <2>2, <3>2, <3>3, FirstOf
      <3>5. D # {} /\ ~(from < to)
        BY <1>1, <1>3, <3>2
      <3> QED BY <1>0, <3>2, <3>4, <3>5 DEF D, H
    <2>7. CASE In(edge, from) = {} /\ edge = to
      <3>1. found = {}
        BY <2>7
      <3>2. D = {}
        BY <2>2, <2>5, <2>7
      <3> QED BY <1>0, <3>1, <3>2
    <2>8. CASE In(edge, from) = {} /\ edge # to
      <3>1. edge = e /\ ~(to >= e)
        <4> HIDE DEF edge, e, In
        <4> QED BY <1>1, <2>3, <2>4, <2>8
      <3>2. last < first
        BY <1>1, <2>3, <3>1
      <3>3. ASSUME NEW d \in D PROVE d \div W < first
        <4>1. ~(d >= edge)
          <5>1. d \in Int /\ d <= from
            BY <1>1, <2>2
          <5>2. d \notin edge .. from
            <6> HIDE DEF D, In, edge
            <6> QED BY <2>5, <2>8
          <5> HIDE DEF edge, D
          <5> QED BY <1>1, <2>4, <5>1, <5>2
        <4> QED BY <1>1, <2>2, <2>3, <3>1, <4>1
      <3>4. mids \in SUBSET ((last + 1) .. (first - 1)) /\ last + 1 \in Int /\ first - 1 \in Int
        BY <1>1
      <3>5. ASSUME NEW w \in (last + 1) .. (first - 1) PROVE (w \in mids) <=> (\E b \in H : b \div W = w)
        <4>1. w \in 0 .. n - 1
          BY <1>1
        <4>2. (Word(m, w) # IF type THEN {} ELSE Offsets) <=> (\E b \in H : b \div W = w)
          BY <4>1, WordHits
        <4> QED BY <4>2
      <3>6. CASE mids # {}
        <4>1. high \in mids /\ \A w \in mids : w <= high
          BY <3>4, <3>6, LeastIn
        <4>2. high \in Int /\ last < high /\ high < first /\ high >= 0 /\ high <= n - 1
          BY <1>1, <3>4, <4>1
        <4>3. found = inMid
          BY <2>8, <3>6
        <4> DEFINE F == {b \in H : b \div W = high}
                   lo == high * W
                   hi == (high * W) + W - 1
        <4> HIDE DEF high, mids, found
        <4>4. inMid = F
          <5>1. lo \in Int /\ hi \in Int /\ lo \div W = high /\ hi \div W = high
            BY <4>2, InWord
          <5>2. (lo .. hi) \subseteq BitsOf(n)
            BY <4>2, <5>1, Between
          <5>3. inMid = In(lo, hi)
            OBVIOUS
          <5>4. \A b \in Int : (b \in lo .. hi) = (b \div W = high)
            BY <4>2, InWord
          <5> HIDE DEF lo, hi, inMid
          <5>5. In(lo, hi) = H \cap lo .. hi
            BY <5>1, <5>2, HitsThere
          <5>6. \A b \in H : b \in Int
            BY HitsThere
          <5> HIDE DEF H
          <5> QED BY <5>3, <5>4, <5>5, <5>6
        <4>5. F # {}
          BY <3>4, <3>5, <4>1
        <4>6. ASSUME NEW b \in F PROVE b \in D /\ b \in Int /\ b \div W = high
          <5>1. b \in Int /\ b \div W = high /\ b \in H
            BY HitsThere
          <5>2. to < b /\ b < from
            BY <1>1, <4>2, <5>1, Later
          <5>3. b \in to .. from
            BY <1>1, <5>1, <5>2
          <5> QED BY <5>1, <5>3
        <4>7. ASSUME NEW x \in D \ F, NEW y \in F PROVE x <= y
          <5>1. x \in Int /\ x \div W \in Int /\ x \div W < first /\ last <= x \div W /\ x \in H
            BY <2>2, <3>3
          <5>2. x \div W # high
            BY <5>1
          <5>3. x \div W < high
            <6>1. CASE x \div W = last
              BY <4>2, <6>1
            <6>2. CASE x \div W # last
              <7>1. x \div W \in (last + 1) .. (first - 1)
                BY <1>1, <5>1, <6>2
              <7>2. x \div W \in mids
                BY <3>5, <5>1, <7>1
              <7>3. x \div W <= high
                BY <4>1, <7>2
              <7> QED BY <4>2, <5>1, <5>2, <7>3
            <6> QED BY <6>1, <6>2
          <5>4. x < y
            BY <4>6, <5>1, <5>3, Later
          <5> QED BY <4>6, <5>1, <5>4
        <4>8. F \in SUBSET D
          BY <4>6
        <4> HIDE DEF F, D, H, inMid
        <4>9. Max(F) = Max(D)
          BY <1>1, <2>2, <4>5, <4>7, <4>8, FirstOf
        <4>10. D # {} /\ ~(from < to)
          BY <1>1, <1>3, <4>5, <4>8
        <4> QED BY <1>0, <4>3, <4>4, <4>5, <4>9, <4>10 DEF D, H
      <3>7. CASE mids = {}
        <4> DEFINE hi == (last * W) + W - 1
        <4>1. found = In(to, hi)
          BY <2>8, <3>7
        <4>2. hi \in Int /\ hi \div W = last /\ \A b \in Int : (b <= hi) = (b \div W <= last)
          BY <1>1, InWord
        <4>3. (to .. hi) \subseteq BitsOf(n)
          BY <1>1, <4>2, Between
        <4> HIDE DEF mids, found, hi
        <4>4. In(to, hi) = H \cap to .. hi
          BY <1>1, <4>2, <4>3, HitsThere
        <4>5. hi < from
          BY <1>1, <3>2, <4>2, Later
        <4>6. ASSUME NEW d \in D PROVE d \in to .. hi
          <5>1. d \in Int /\ d \div W \in Int /\ d \div W < first /\ last <= d \div W /\ d \in H /\ to <= d
            BY <1>1, <2>2, <3>3
          <5>2. d \div W = last
            <6>1. SUFFICES ASSUME d \div W # last PROVE FALSE
              OBVIOUS
            <6>2. d \div W \in (last + 1) .. (first - 1)
              BY <1>1, <5>1, <6>1
            <6> QED BY <3>5, <3>7, <5>1, <6>2
          <5>3. d <= hi
            BY <1>1, <4>2, <5>1, <5>2
          <5> QED BY <1>1, <4>2, <5>1, <5>3
        <4>7. H \cap to .. hi = D
          <5>1. (to .. hi) \subseteq (to .. from)
            BY <1>1, <4>2, <4>5
          <5> HIDE DEF H
          <5> QED BY <4>6, <5>1
        <4>8. found = D
          BY <4>1, <4>4, <4>7
        <4>9. ~(from < to)
          BY <1>1, <1>3
        <4> HIDE DEF D
        <4> QED BY <1>0, <4>8, <4>9 DEF D, H
      <3> QED BY <3>6, <3>7
    <2> QED BY <2>6, <2>7, <2>8
  <1>4. from < to \/ to <= from
    BY <1>1
  <1> QED BY <1>2, <1>3, <1>4

\* A count that is cached is of the bits that are on.
Counted(m) == m.cached # NotCached => m.cached = Cardinality(OnIn(m.words))

\* The tests for all bits and for any, by the cached count or by the words.
LEMMA AllOrAny ==
  ASSUME NEW m, Map(m), Counted(m)
  PROVE  AllOn(m) = (OnIn(m.words) = BitsOf(Len(m.words))) /\ AnyOn(m) = (OnIn(m.words) # {})
  <1> DEFINE ws == m.words
             B == BitsOf(Len(ws))
             T == OnIn(ws)
  <1>1. ws \in WordSeq /\ DOMAIN ws = 1 .. Len(ws) /\ Len(ws) \in Nat /\ \A i \in 1 .. Len(ws) : ws[i] \in SUBSET Offsets
    BY WordThere DEF Map
  <1>2. /\ T \in SUBSET B /\ IsFiniteSet(B) /\ IsFiniteSet(T) /\ Cardinality(B) = Len(ws) * WordBits /\ Cardinality(T) \in Nat
    BY <1>1, OnIsFinite DEF OnIn
  <1>3. \A x \in B : (x \div WordBits) + 1 \in 1 .. Len(ws) /\ x % WordBits \in Offsets /\ (x \in T) = (x % WordBits \in ws[(x \div WordBits) + 1])
    BY <1>1, BitAt
  <1>4. ASSUME NEW i \in 1 .. Len(ws), NEW o \in Offsets
        PROVE  \E x \in B : (x \div WordBits) + 1 = i /\ x % WordBits = o
    <2> DEFINE x == ((i - 1) * WordBits) + o
    <2>1. i - 1 \in Int /\ i - 1 \in 0 .. Len(ws) - 1 /\ (i - 1) + 1 = i
      BY <1>1
    <2>2. x \in Int /\ x \div WordBits = i - 1 /\ x % WordBits = o
      BY <2>1, OfWord
    <2> HIDE DEF x, ws
    <2>3. x \in B
      BY <1>1, <2>1, <2>2, InBits
    <2> QED BY <2>1, <2>2, <2>3
  <1>5. CASE m.cached # NotCached
    <2>1. m.cached = Cardinality(T)
      BY <1>5 DEF Counted
    <2>2. AllOn(m) = (Cardinality(T) = Len(ws) * WordBits) /\ AnyOn(m) = (Cardinality(T) > 0)
      BY <1>5, <2>1 DEF AllOn, AnyOn
    <2> HIDE DEF T, B, ws
    <2>3. (Cardinality(T) = Len(ws) * WordBits) <=> (T = B)
      BY <1>2, FS_Subset
    <2>4. (Cardinality(T) > 0) <=> (T # {})
      BY <1>2, FS_EmptySet
    <2> QED BY <2>2, <2>3, <2>4 DEF T, B, ws
  <1>6. CASE m.cached = NotCached
    <2>1. AllOn(m) = (\A i \in 1 .. Len(ws) : ws[i] = Offsets) /\ AnyOn(m) = (\E i \in 1 .. Len(ws) : ws[i] # {})
      <3>1. Range(ws) = {ws[i] : i \in 1 .. Len(ws)}
        BY <1>1 DEF Range
      <3>2. AllOn(m) = (\A w \in Range(ws) : w = Offsets) /\ AnyOn(m) = (\E w \in Range(ws) : w # {})
        BY <1>6 DEF AllOn, AnyOn
      <3> HIDE DEF ws
      <3>3. (\A w \in Range(ws) : w = Offsets) <=> (\A i \in 1 .. Len(ws) : ws[i] = Offsets)
        BY <3>1
      <3>4. (\E w \in Range(ws) : w # {}) <=> (\E i \in 1 .. Len(ws) : ws[i] # {})
        BY <3>1
      <3> QED BY <3>2, <3>3, <3>4
    <2> HIDE DEF T, B, ws
    <2>2. ASSUME T = B PROVE \A i \in 1 .. Len(ws) : ws[i] = Offsets
      <3>1. ASSUME NEW i \in 1 .. Len(ws), NEW o \in Offsets PROVE o \in ws[i]
        BY <1>3, <1>4, <2>2
      <3> QED BY <1>1, <3>1
    <2>3. ASSUME \A i \in 1 .. Len(ws) : ws[i] = Offsets PROVE T = B
      BY <1>2, <1>3, <2>3
    <2>4. ASSUME NEW x \in T PROVE \E i \in 1 .. Len(ws) : ws[i] # {}
      BY <1>2, <1>3
    <2>5. ASSUME NEW i \in 1 .. Len(ws), ws[i] # {} PROVE T # {}
      <3>1. PICK o \in Offsets : o \in ws[i]
        BY <1>1, <2>5
      <3> QED BY <1>3, <1>4, <3>1
    <2>6. (\A i \in 1 .. Len(ws) : ws[i] = Offsets) <=> (T = B)
      BY <2>2, <2>3
    <2>7. (\E i \in 1 .. Len(ws) : ws[i] # {}) <=> (T # {})
      BY <2>4, <2>5
    <2> QED BY <2>1, <2>6, <2>7 DEF T, B, ws
  <1> QED BY <1>5, <1>6

\* Maps of as many words are compared word by word.
LEMMA ComparedIs ==
  ASSUME NEW m, Map(m), NEW r \in WordSeq, Len(r) = Len(m.words)
  PROVE  Intersects(m, r) = (OnIn(m.words) \cap OnIn(r) # {}) /\ Equals(m, r) = (OnIn(m.words) = OnIn(r))
  <1> DEFINE ws == m.words
             B == BitsOf(Len(ws))
             T == OnIn(ws)
             R == OnIn(r)
  <1>1. /\ ws \in WordSeq /\ Len(ws) \in Nat /\ DOMAIN r = 1 .. Len(ws)
        /\ \A i \in 1 .. Len(ws) : ws[i] \in SUBSET Offsets /\ r[i] \in SUBSET Offsets
    BY WordThere DEF Map
  <1>2. T \in SUBSET B /\ R \in SUBSET B
    BY DEF OnIn
  <1>3. \A x \in B : /\ (x \div WordBits) + 1 \in 1 .. Len(ws) /\ x % WordBits \in Offsets
                     /\ (x \in T) = (x % WordBits \in ws[(x \div WordBits) + 1])
                     /\ (x \in R) = (x % WordBits \in r[(x \div WordBits) + 1])
    BY <1>1, BitAt
  <1>4. ASSUME NEW i \in 1 .. Len(ws), NEW o \in Offsets
        PROVE  \E x \in B : (x \div WordBits) + 1 = i /\ x % WordBits = o
    <2> DEFINE x == ((i - 1) * WordBits) + o
    <2>1. i - 1 \in Int /\ i - 1 \in 0 .. Len(ws) - 1 /\ (i - 1) + 1 = i
      BY <1>1
    <2>2. x \in Int /\ x \div WordBits = i - 1 /\ x % WordBits = o
      BY <2>1, OfWord
    <2> HIDE DEF x, ws
    <2>3. x \in B
      BY <1>1, <2>1, <2>2, InBits
    <2> QED BY <2>1, <2>2, <2>3
  <1>5. /\ Intersects(m, r) = (\E i \in 1 .. Len(ws) : ws[i] \cap r[i] # {})
        /\ Equals(m, r) = (\A i \in 1 .. Len(ws) : ws[i] = r[i])
    BY <1>1 DEF Intersects, Equals
  <1> HIDE DEF T, B, R, ws
  <1>6. (\E i \in 1 .. Len(ws) : ws[i] \cap r[i] # {}) <=> (T \cap R # {})
    <2>1. ASSUME NEW i \in 1 .. Len(ws), NEW o \in ws[i], o \in r[i] PROVE T \cap R # {}
      <3>1. o \in Offsets
        BY <1>1
      <3>2. PICK x \in B : (x \div WordBits) + 1 = i /\ x % WordBits = o
        BY <1>4, <3>1
      <3>3. x \in T /\ x \in R
        BY <1>3, <2>1, <3>2
      <3> QED BY <3>3
    <2>2. ASSUME NEW x \in T, x \in R PROVE \E i \in 1 .. Len(ws) : ws[i] \cap r[i] # {}
      BY <1>2, <1>3, <2>2
    <2> QED BY <2>1, <2>2
  <1>7. (\A i \in 1 .. Len(ws) : ws[i] = r[i]) <=> (T = R)
    <2>1. ASSUME \A i \in 1 .. Len(ws) : ws[i] = r[i] PROVE T = R
      BY <1>2, <1>3, <2>1
    <2>2. ASSUME T = R PROVE \A i \in 1 .. Len(ws) : ws[i] = r[i]
      <3>1. ASSUME NEW i \in 1 .. Len(ws), NEW o \in Offsets PROVE (o \in ws[i]) = (o \in r[i])
        BY <1>3, <1>4, <2>2
      <3> QED BY <1>1, <3>1
    <2> QED BY <2>1, <2>2
  <1> QED BY <1>5, <1>6, <1>7 DEF T, R, ws

\* A container that grows has the same bits, and may keep its count.
LEMMA GrownIs ==
  ASSUME NEW m, Map(m), Counted(m), Len(m.words) >= 1
  PROVE  LET n == EnsureCapacity(m, Len(m.words) + 1)
         IN Map(n) /\ Counted(n) /\ OnIn(n.words) = OnIn(m.words) /\ Len(n.words) >= 1
  <1> DEFINE ws == m.words
             k == Max({Len(ws) + 1, 2 * Len(ws)}) - Len(ws)
             pad == [i \in 1 .. k |-> {}]
             g == ws \o pad
             n == EnsureCapacity(m, Len(ws) + 1)
  <1>1. ws \in WordSeq /\ Len(ws) \in Nat /\ \A i \in 1 .. Len(ws) : ws[i] \in SUBSET Offsets
    BY WordThere DEF Map
  <1>2. k \in Nat
    <2> DEFINE a == Len(ws) + 1
               b == 2 * Len(ws)
    <2>1. a \in Int /\ b \in Int /\ a >= Len(ws) /\ b >= Len(ws)
      BY <1>1
    <2>2. k = Max({a, b}) - Len(ws)
      OBVIOUS
    <2> HIDE DEF a, b, k, ws
    <2>3. Max({a, b}) = IF a <= b THEN b ELSE a
      BY <2>1, OfTwo
    <2> QED BY <1>1, <2>1, <2>2, <2>3
  <1>3. n.words = g /\ n.cached = m.cached
    BY DEF EnsureCapacity, Map
  <1>4. n \in [words : {g}, cached : Int]
    BY DEF EnsureCapacity, Map
  <1> HIDE DEF n, k
  <1>5. pad \in WordSeq /\ Len(pad) = k /\ \A i \in 1 .. k : pad[i] = {}
    <2>1. pad \in [1 .. k -> SUBSET Offsets]
      OBVIOUS
    <2>2. pad \in WordSeq
      BY <1>2, <2>1, IsASeq DEF WordSeq
    <2> QED BY <1>2, <2>1, <2>2, LenProperties DEF WordSeq
  <1> HIDE DEF pad, ws
  <1>6. /\ g \in WordSeq /\ Len(g) = Len(ws) + k
        /\ \A i \in 1 .. Len(ws) + k : g[i] = IF i <= Len(ws) THEN ws[i] ELSE pad[i - Len(ws)]
    <2>1. ws \in Seq(SUBSET Offsets) /\ pad \in Seq(SUBSET Offsets)
      BY <1>1, <1>5 DEF WordSeq
    <2>2. ws \o pad \in Seq(SUBSET Offsets) /\ Len(ws \o pad) = Len(ws) + Len(pad)
          /\ \A i \in 1 .. Len(ws) + Len(pad) : (ws \o pad)[i] = IF i <= Len(ws) THEN ws[i] ELSE pad[i - Len(ws)]
      BY <2>1, ConcatProperties
    <2> QED BY <1>5, <2>2 DEF WordSeq
  <1> HIDE DEF g
  <1>7. OnIn(ws) \in SUBSET BitsOf(Len(g))
    <2>1. ASSUME NEW x \in OnIn(ws) PROVE x \in BitsOf(Len(g))
      <3>1. x \in Int /\ x \div WordBits \in 0 .. Len(ws) - 1
        BY <1>1, BitAt DEF OnIn
      <3>2. x \div WordBits \in 0 .. Len(g) - 1 /\ Len(g) \in Nat
        BY <1>1, <1>2, <1>6, <3>1
      <3> QED BY <3>1, <3>2, InBits
    <2> QED BY <2>1
  <1>8. ASSUME NEW x \in BitsOf(Len(g)) PROVE (x % WordBits \in g[(x \div WordBits) + 1]) = (x \in OnIn(ws))
    <2>1. x \in Int /\ x \div WordBits \in 0 .. Len(g) - 1 /\ (x \div WordBits) + 1 \in 1 .. Len(g)
      BY <1>6, BitAt
    <2>2. (x \in OnIn(ws)) = (x \div WordBits \in 0 .. Len(ws) - 1 /\ x % WordBits \in ws[(x \div WordBits) + 1])
      BY <1>1, <2>1, BitOn
    <2> DEFINE i == (x \div WordBits) + 1
    <2>3. (x \div WordBits \in 0 .. Len(ws) - 1) <=> i <= Len(ws)
      BY <1>1, <2>1
    <2>4. i \in 1 .. Len(ws) + k /\ (i > Len(ws) => i - Len(ws) \in 1 .. k)
      BY <1>1, <1>2, <1>6, <2>1
    <2> HIDE DEF i
    <2>5. CASE i <= Len(ws)
      <3>1. g[i] = ws[i]
        BY <1>6, <2>4, <2>5
      <3> QED BY <2>2, <2>3, <2>5, <3>1 DEF i
    <2>6. CASE ~(i <= Len(ws))
      <3>1. i > Len(ws)
        BY <1>1, <2>4, <2>6
      <3>2. g[i] = {}
        BY <1>5, <1>6, <2>4, <2>6, <3>1
      <3> QED BY <2>2, <2>3, <2>6, <3>2 DEF i
    <2> QED BY <2>5, <2>6
  <1>9. OnIn(g) = OnIn(ws)
    BY <1>6, <1>7, <1>8, OnInIs
  <1>10. Map(n) /\ Len(g) >= 1
    BY <1>1, <1>2, <1>4, <1>6 DEF Map, ws
  <1> QED BY <1>3, <1>9, <1>10 DEF n, ws, Counted

---------------------------------------------------------------------------
\* The inductive invariant: the words hold the bits that are on, and a cached count is of them.
BitInv == Map(bm) /\ Len(bm.words) >= 1 /\ bits = OnIn(bm.words) /\ Counted(bm)

\* The bits of the map.
LEMMA Bits == NumBits = Len(bm.words) * WordBits /\ 0 .. NumBits - 1 = BitsOf(Len(bm.words))
  BY DEF NumBits, BitsOf

\* A change that leaves the count to be taken afresh.
LEMMA Uncounted ==
  ASSUME BitInv, NEW T, Has(bm', bm.words, T), bits' = T
  PROVE  BitInv'
  BY DEF BitInv, Has, Counted, Map

\* A new map has no bits.
LEMMA BitsAtFirst == BitMapInit => BitInv
  <1> SUFFICES ASSUME BitMapInit PROVE BitInv
    OBVIOUS
  <1> DEFINE e == <<{}, {}>>
  <1>1. bm.words = e /\ bm.cached = 0 /\ bits = {}
    BY DEF BitMapInit
  <1>2. e \in WordSeq /\ Len(e) = 2 /\ e[1] = {} /\ e[2] = {}
    BY DEF WordSeq
  <1> HIDE DEF e
  <1>3. Map(bm)
    BY <1>1, <1>2 DEF BitMapInit, Map, e
  <1>4. OnIn(e) = {}
    <2>1. ASSUME NEW x \in BitsOf(Len(e)) PROVE x \notin OnIn(e)
      <3>1. (x \div WordBits) + 1 \in 1 .. 2 /\ (x \in OnIn(e)) = (x % WordBits \in e[(x \div WordBits) + 1])
        BY <1>2, BitAt
      <3>2. (x \div WordBits) + 1 = 1 \/ (x \div WordBits) + 1 = 2
        BY <3>1
      <3> QED BY <1>2, <3>1, <3>2
    <2> QED BY <2>1 DEF OnIn
  <1> QED BY <1>1, <1>2, <1>3, <1>4, FS_EmptySet DEF BitInv, Counted

\* The other maps that a map is combined with.
LEMMA Operands ==
  ASSUME BitInv, NEW r \in Rhs
  PROVE  Operand(r, bm.words)
  <1>1. Len(bm.words) \in Nat /\ Len(bm.words) >= 1
    BY WordThere DEF BitInv, Map
  <1>2. PICK n \in {Len(bm.words) - 1, Len(bm.words)} : r \in [1 .. n -> {{}, Offsets, {0}, {WordBits - 1}}]
    BY DEF Rhs
  <1>3. n \in Nat /\ n <= Len(bm.words)
    BY <1>1, <1>2
  <1>4. r \in [1 .. n -> SUBSET Offsets]
    <2>1. {{}, Offsets, {0}, {WordBits - 1}} \in SUBSET (SUBSET Offsets)
      BY BitMapAssumption DEF Offsets
    <2> QED BY <1>2, <2>1
  <1>5. r \in Seq(SUBSET Offsets)
    BY <1>3, <1>4, IsASeq
  <1>6. Len(r) = n
    BY <1>3, <1>4, <1>5, LenProperties
  <1> QED BY <1>3, <1>5, <1>6 DEF Operand, WordSeq

\* The changes by a bit keep the invariant, ...
LEMMA OneBit ==
  ASSUME BitInv, NEW b \in 0 .. NumBits - 1, NEW to \in b .. NumBits - 1, NEW on \in BOOLEAN,
         \/ To(Set(bm, b, on), IF on THEN bits \cup {b} ELSE bits \ {b})
         \/ To(Flip(bm, b), IF b \in bits THEN bits \ {b} ELSE bits \cup {b})
         \/ To(SetRange(bm, b, to, on), IF on THEN bits \cup b .. to ELSE bits \ (b .. to))
         \/ To(ShiftUp(bm, b), {x + b : x \in bits} \cap 0 .. NumBits - 1)
         \/ To(ShiftDown(bm, b), {x - b : x \in bits} \cap 0 .. NumBits - 1)
  PROVE  BitInv'
  <1>1. Map(bm) /\ bits = OnIn(bm.words) /\ b \in BitsOf(Len(bm.words)) /\ 0 .. NumBits - 1 = BitsOf(Len(bm.words))
    BY Bits DEF BitInv
  <1>2. to \in BitsOf(Len(bm.words)) /\ b <= to
    <2>1. NumBits \in Int
      BY <1>1, Bits, WordThere, BitMapAssumption DEF Map
    <2>2. to \in 0 .. NumBits - 1 /\ b <= to
      BY <2>1
    <2> QED BY <2>2, Bits
  <1>3. CASE To(Set(bm, b, on), IF on THEN bits \cup {b} ELSE bits \ {b})
    BY <1>1, <1>3, SetIs, Uncounted DEF To
  <1>4. CASE To(Flip(bm, b), IF b \in bits THEN bits \ {b} ELSE bits \cup {b})
    BY <1>1, <1>4, FlipIs, Uncounted DEF To
  <1>5. CASE To(SetRange(bm, b, to, on), IF on THEN bits \cup b .. to ELSE bits \ (b .. to))
    <2>1. Has(SetRange(bm, b, to, on), bm.words, IF on THEN bits \cup b .. to ELSE bits \ (b .. to))
      BY <1>1, <1>2, SetRangeIs
    <2> QED BY <1>5, <2>1, Uncounted DEF To
  <1>6. CASE To(ShiftUp(bm, b), {x + b : x \in bits} \cap 0 .. NumBits - 1)
    <2>1. Has(ShiftUp(bm, b), bm.words, {x + b : x \in bits} \cap 0 .. NumBits - 1)
      BY <1>1, ShiftUpIs
    <2> QED BY <1>6, <2>1, Uncounted DEF To
  <1>7. CASE To(ShiftDown(bm, b), {x - b : x \in bits} \cap 0 .. NumBits - 1)
    <2>1. Has(ShiftDown(bm, b), bm.words, {x - b : x \in bits} \cap 0 .. NumBits - 1)
      BY <1>1, ShiftDownIs
    <2> QED BY <1>7, <2>1, Uncounted DEF To
  <1> QED BY <1>3, <1>4, <1>5, <1>6, <1>7

\* ... as do those of all bits, ...
LEMMA AllBits ==
  ASSUME BitInv,
         \/ \E on \in BOOLEAN : To(SetAll(bm, on), IF on THEN 0 .. NumBits - 1 ELSE {})
         \/ To(FlipAll(bm), (0 .. NumBits - 1) \ bits)
  PROVE  BitInv'
  <1> DEFINE B == BitsOf(Len(bm.words))
  <1>1. Map(bm) /\ bits = OnIn(bm.words) /\ 0 .. NumBits - 1 = B /\ Counted(bm) /\ Len(bm.words) >= 1
    BY Bits DEF BitInv
  <1>2. /\ IsFiniteSet(B) /\ Cardinality(B) = Len(bm.words) * WordBits /\ IsFiniteSet(bits) /\ Cardinality(bits) \in Nat
        /\ bits \in SUBSET B /\ Cardinality(B) \in Nat
    BY <1>1, OnIsFinite, FS_CardinalityType DEF Map, OnIn
  <1>3. ASSUME NEW on \in BOOLEAN, To(SetAll(bm, on), IF on THEN 0 .. NumBits - 1 ELSE {}) PROVE BitInv'
    <2>1. /\ Map(bm') /\ Len(bm'.words) = Len(bm.words) /\ OnIn(bm'.words) = (IF on THEN B ELSE {})
          /\ bm'.cached = (IF on THEN Len(bm.words) * WordBits ELSE 0)
      BY <1>1, <1>3, SetAllIs DEF To
    <2>2. bits' = IF on THEN B ELSE {}
      BY <1>1, <1>3 DEF To
    <2> HIDE DEF B
    <2>3. bm'.cached = Cardinality(OnIn(bm'.words))
      BY <1>2, <2>1, FS_EmptySet
    <2> QED BY <1>1, <2>1, <2>2, <2>3 DEF BitInv, Counted, Map
  <1>4. ASSUME To(FlipAll(bm), (0 .. NumBits - 1) \ bits) PROVE BitInv'
    <2>1. /\ Map(bm') /\ Len(bm'.words) = Len(bm.words) /\ OnIn(bm'.words) = B \ bits
          /\ bm'.cached = IF bm.cached = NotCached THEN NotCached ELSE (Len(bm.words) * WordBits) - bm.cached
      BY <1>1, <1>4, FlipAllIs DEF To
    <2>2. bits' = B \ bits
      BY <1>1, <1>4 DEF To
    <2> HIDE DEF B
    <2>3. Cardinality(B \ bits) = Cardinality(B) - Cardinality(bits)
      <3>1. Cardinality(B \ bits) = Cardinality(B) - Cardinality(B \cap bits) /\ B \cap bits = bits
        BY <1>2, FS_Difference
      <3> QED BY <3>1
    <2>4. bm'.cached # NotCached => bm'.cached = Cardinality(B \ bits)
      BY <1>1, <1>2, <2>1, <2>3 DEF Counted
    <2> QED BY <1>1, <2>1, <2>2, <2>4 DEF BitInv, Counted, Map
  <1> QED BY <1>3, <1>4

\* ... and so does every call.
LEMMA BitsKept == BitInv /\ [BitMapNext]_bmVars => BitInv'
  <1> SUFFICES ASSUME BitInv, [BitMapNext]_bmVars PROVE BitInv'
    OBVIOUS
  <1>0. Map(bm) /\ bits = OnIn(bm.words) /\ Counted(bm) /\ Len(bm.words) >= 1
    BY DEF BitInv
  <1>1. ASSUME NEW b \in 0 .. NumBits - 1,
               \/ \E on \in BOOLEAN : To(Set(bm, b, on), IF on THEN bits \cup {b} ELSE bits \ {b})
               \/ To(Flip(bm, b), IF b \in bits THEN bits \ {b} ELSE bits \cup {b})
               \/ \E to \in b .. NumBits - 1 : \E on \in BOOLEAN : To(SetRange(bm, b, to, on), IF on THEN bits \cup b .. to ELSE bits \ (b .. to))
               \/ To(ShiftUp(bm, b), {x + b : x \in bits} \cap 0 .. NumBits - 1)
               \/ To(ShiftDown(bm, b), {x - b : x \in bits} \cap 0 .. NumBits - 1)
        PROVE  BitInv'
    <2>1. b \in b .. NumBits - 1 /\ TRUE \in BOOLEAN
      <3>1. NumBits \in Int
        BY <1>0, Bits, WordThere, BitMapAssumption DEF Map
      <3> QED BY <3>1
    <2> QED BY <1>1, <2>1, OneBit
  <1>2. CASE \/ \E on \in BOOLEAN : To(SetAll(bm, on), IF on THEN 0 .. NumBits - 1 ELSE {})
             \/ To(FlipAll(bm), (0 .. NumBits - 1) \ bits)
    BY <1>2, AllBits
  <1>3. ASSUME NEW r \in Rhs,
               \/ To(Or(bm, r), bits \cup OnIn(r))
               \/ To(And(bm, r), bits \ (BitsOf(Len(r)) \ OnIn(r)))
               \/ To(AndNot(bm, r), bits \ OnIn(r))
        PROVE  BitInv'
    <2>1. Operand(r, bm.words)
      BY Operands
    <2>2. /\ Has(Or(bm, r), bm.words, bits \cup OnIn(r))
          /\ Has(And(bm, r), bm.words, bits \ (BitsOf(Len(r)) \ OnIn(r)))
          /\ Has(AndNot(bm, r), bm.words, bits \ OnIn(r))
      BY <1>0, <2>1, CombinedIs
    <2>3. CASE To(Or(bm, r), bits \cup OnIn(r))
      BY <2>2, <2>3, Uncounted DEF To
    <2>4. CASE To(And(bm, r), bits \ (BitsOf(Len(r)) \ OnIn(r)))
      BY <2>2, <2>4, Uncounted DEF To
    <2>5. CASE To(AndNot(bm, r), bits \ OnIn(r))
      BY <2>2, <2>5, Uncounted DEF To
    <2> QED BY <1>3, <2>3, <2>4, <2>5
  <1>4. CASE To(CacheCount(bm), bits)
    <2>1. CountBits(bm) = Cardinality(bits) /\ Cardinality(bits) \in Nat
      BY <1>0, CountBitsIs, OnIsFinite DEF Counted, Map
    <2>2. bm' = [bm EXCEPT !.cached = Cardinality(bits)] /\ bits' = bits
      BY <1>4, <2>1 DEF To, CacheCount
    <2>3. bm'.words = bm.words /\ bm'.cached = Cardinality(bits) /\ Map(bm')
      BY <1>0, <2>1, <2>2 DEF Map
    <2> QED BY <1>0, <2>2, <2>3 DEF BitInv, Counted, Map
  <1>5. CASE To(EnsureCapacity(bm, Len(bm.words) + 1), bits)
    <2>1. Map(bm') /\ Counted(bm') /\ OnIn(bm'.words) = OnIn(bm.words) /\ Len(bm'.words) >= 1 /\ bits' = bits
      BY <1>0, <1>5, GrownIs DEF To
    <2> QED BY <1>0, <2>1 DEF BitInv, Counted, Map
  <1>6. CASE UNCHANGED bmVars
    BY <1>0, <1>6 DEF bmVars, BitInv, Counted, Map
  <1> QED BY <1>1, <1>2, <1>3, <1>4, <1>5, <1>6 DEF BitMapNext

\* The invariant implies what is to be shown.
LEMMA BitsAreTrue == BitInv => WordsAreBits
  <1> SUFFICES ASSUME BitInv PROVE WordsAreBits
    OBVIOUS
  <1> DEFINE n == NumBits - 1
             B == BitsOf(Len(bm.words))
             On(type) == IF type THEN bits ELSE (0 .. n) \ bits
             Lowest(s) == IF s = {} THEN {} ELSE {Min(s)}
             Highest(s) == IF s = {} THEN {} ELSE {Max(s)}
  <1>1. Map(bm) /\ bits = OnIn(bm.words) /\ Counted(bm) /\ 0 .. n = B /\ bits \in SUBSET B
    BY Bits DEF BitInv, OnIn
  <1>2. \A b \in 0 .. n : Test(bm, b) = (b \in bits)
    BY <1>1, TestIs
  <1>3. CountBits(bm) = Cardinality(bits)
    BY <1>1, CountBitsIs DEF Counted
  <1>4. AllOn(bm) = (bits = 0 .. n) /\ AnyOn(bm) = (bits # {})
    BY <1>1, AllOrAny
  <1>5. ASSUME NEW type \in BOOLEAN PROVE Hits(bm, type) = On(type)
    <2> HIDE DEF n, B
    <2>1. \A b \in B : Test(bm, b) = (b \in bits)
      BY <1>1, <1>2
    <2>2. Hits(bm, type) = {b \in B : Test(bm, b) = type}
      BY DEF Hits, B
    <2>3. CASE type
      BY <1>1, <2>1, <2>2, <2>3
    <2>4. CASE ~type
      <3>1. On(type) = B \ bits
        BY <1>1, <2>4
      <3>2. \A b \in B : (Test(bm, b) = type) <=> b \notin bits
        BY <2>1, <2>4
      <3> HIDE DEF On
      <3> QED BY <2>2, <3>1, <3>2
    <2> QED BY <2>3, <2>4
  <1>6. ASSUME NEW from \in 0 .. n, NEW to \in 0 .. n, NEW type \in BOOLEAN
        PROVE  /\ FindNext(bm, from, to, type) = Lowest(On(type) \cap from .. to)
               /\ FindPrev(bm, from, to, type) = Highest(On(type) \cap to .. from)
    <2>1. from \in BitsOf(Len(bm.words)) /\ to \in BitsOf(Len(bm.words)) /\ Map(bm)
      BY <1>1
    <2> HIDE DEF On, n, B
    <2> DEFINE D == Hits(bm, type) \cap from .. to
               E == Hits(bm, type) \cap to .. from
    <2>2. FindNext(bm, from, to, type) = IF D = {} THEN {} ELSE {Min(D)}
      BY <2>1, FindNextIs
    <2>3. FindPrev(bm, from, to, type) = IF E = {} THEN {} ELSE {Max(E)}
      BY <2>1, FindPrevIs
    <2>4. Hits(bm, type) = On(type)
      BY <1>5
    <2> QED BY <2>2, <2>3, <2>4
  <1>7. ASSUME NEW r \in {x \in Rhs : Len(x) = Len(bm.words)}
        PROVE  Intersects(bm, r) = (bits \cap OnIn(r) # {}) /\ Equals(bm, r) = (bits = OnIn(r))
    <2>1. r \in WordSeq /\ Len(r) = Len(bm.words)
      BY Operands DEF Operand
    <2> QED BY <1>1, <2>1, ComparedIs
  <1> HIDE DEF B
  <1> QED BY <1>2, <1>3, <1>4, <1>6, <1>7 DEF WordsAreBits

\* Through any changes, for words of any length, a bitmap's words are its bits: the count, cached or not,
\* the tests, the comparisons and the searches in both directions agree with them (bitmap3.cpp).
THEOREM WordsAreBitsHolds == BitMapSpec => []WordsAreBits
  <1> QED BY BitsAtFirst, BitsKept, BitsAreTrue, PTL DEF BitMapSpec
---------------------------------------------------------------------------
(* Lists: their forms.                                                      *)
\* What a place has: nothing, an array or a bitmap; the ILMR is not told of here.
Ribs == [seg : Nat, kind : {"one", "two", "array", "bitmap"}, recs : SUBSET Nat, place : Nat]
IsStore(t) == t = [z \in Places |-> t[z]]
RecsIn(b, t) == IF b.place = 0 THEN b.recs ELSE t[b.place].recs
\* The records of a set of RIBs.
Told(R, t) == UNION {{<<b.seg, a>> : a \in RecsIn(b, t)} : b \in R}
\* A RIB has records, in the form that it says.
InForm(b, t) ==
  \/ b.kind = "one" /\ b.place = 0 /\ Cardinality(b.recs) = 1
  \/ b.kind = "two" /\ b.place = 0 /\ Cardinality(b.recs) = 2
  \/ /\ b.kind = "array" /\ b.place \in Places
     /\ t[b.place] = ArrayOf(t[b.place].recs) /\ Cardinality(t[b.place].recs) <= DLIST_MAXRECS
  \/ /\ b.kind = "bitmap" /\ b.place \in Places
     /\ t[b.place] = BitMapOf(t[b.place].recs, Cardinality(t[b.place].recs))
Sound(b, t) ==
  /\ b \in Ribs /\ InForm(b, t)
  /\ RecsIn(b, t) # {} /\ \A a \in RecsIn(b, t) : <<b.seg, a>> \in ListRecs
\* The RIBs are of different segments and have the places for their own, and no other is taken.
Fit(p, R, t) ==
  /\ p \in Places /\ IsStore(t) /\ t[p] = Vacant
  /\ \A b \in R : Sound(b, t)
  /\ \A b, c \in R : b.seg = c.seg \/ (b.place = c.place /\ b.place # 0) => b = c
  /\ \A z \in Places : t[z] = Vacant \/ \E b \in R : b.place = z
State(p, q, t) == [entry |-> Listed(p), store |-> [t EXCEPT ![p] = [kind |-> "ilmr", ribs |-> q]]]
Sorted(q) == \A x, y \in DOMAIN q : x < y => q[x].seg < q[y].seg
NoStore == [z \in Places |-> Vacant]
Empty == [entry |-> INDEX_INVALID, store |-> NoStore]
\* The forms of a value's entry, and what they hold.
Filed(s, H, p, q, t) == s = State(p, q, t) /\ q \in Seq(Ribs) /\ q # <<>> /\ Sorted(q) /\ Fit(p, Range(q), t) /\ H = Told(Range(q), t)
Holds(s, H) ==
  \/ s = Empty /\ H = {}
  \/ \E r \in ListRecs : s = [Empty EXCEPT !.entry = Unique(r)] /\ H = {r}
  \/ \E p, q, t : Filed(s, H, p, q, t)
---------------------------------------------------------------------------
(* Places and RIBs.                                                         *)
LEMMA RibIs ==
  ASSUME NEW b \in Ribs
  PROVE  b.seg \in Nat /\ b.kind \in {"one", "two", "array", "bitmap"} /\ b.recs \subseteq Nat /\ b.place \in Nat
  BY DEF Ribs

LEMMA RibSeq ==
  ASSUME NEW q \in Seq(Ribs)
  PROVE  /\ DOMAIN q = 1 .. Len(q) /\ Len(q) \in Nat
         /\ \A i \in 1 .. Len(q) : q[i] \in Ribs /\ q[i].seg \in Nat /\ q[i].place \in Nat
  <1>1. DOMAIN q = 1 .. Len(q) /\ Len(q) \in Nat /\ \A i \in 1 .. Len(q) : q[i] \in Ribs
    OBVIOUS
  <1> QED BY <1>1, RibIs

LEMMA MinIs ==
  ASSUME NEW T \in SUBSET Nat, T # {}
  PROVE  Min(T) \in T /\ \A k \in T : Min(T) <= k
  <1>1. PICK m \in T : \A k \in T : m <= k
    BY LeastOf
  <1> QED BY <1>1 DEF Min

\* What the state of a list with an ILMR says.
LEMMA StateIs ==
  ASSUME NEW p \in Places, NEW q, NEW t, IsStore(t), t[p] = Vacant
  PROVE  LET s == State(p, q, t) IN
         /\ s.entry = Listed(p) /\ s.entry.form = "ilmr" /\ s.entry.place = p
         /\ RIBs(s) = q
         /\ \A z \in Places : z # p => s.store[z] = t[z]
         /\ s.store[p].kind = "ilmr" /\ s.store[p] # Vacant
         /\ DOMAIN s.store = Places
  BY DEF State, Listed, RIBs, IsStore, Vacant

LEMMA StorePut ==
  ASSUME NEW t, IsStore(t), NEW z \in Places, NEW v
  PROVE  /\ DOMAIN t = Places
         /\ IsStore([t EXCEPT ![z] = v])
         /\ [t EXCEPT ![z] = v][z] = v
         /\ \A y \in Places : y # z => [t EXCEPT ![z] = v][y] = t[y]
         /\ DOMAIN [t EXCEPT ![z] = v] = Places
  <1>1. DOMAIN t = Places
    BY DEF IsStore
  <1>2. [t EXCEPT ![z] = v] = [y \in Places |-> IF y = z THEN v ELSE t[y]]
    BY <1>1
  <1>3. [y \in Places |-> IF y = z THEN v ELSE t[y]] = [y \in Places |-> [x \in Places |-> IF x = z THEN v ELSE t[x]][y]]
    OBVIOUS
  <1> QED BY <1>1, <1>2, <1>3 DEF IsStore

\* Stores are the same if their places have the same.
LEMMA SameStore ==
  ASSUME NEW t, NEW u, IsStore(t), IsStore(u), \A z \in Places : t[z] = u[z]
  PROVE  t = u
  <1>1. [z \in Places |-> t[z]] = [z \in Places |-> u[z]]
    OBVIOUS
  <1> QED BY <1>1 DEF IsStore

LEMMA SetRIBsIs ==
  ASSUME NEW p \in Places, NEW q, NEW q2, NEW t, IsStore(t)
  PROVE  SetRIBs(State(p, q, t), q2) = State(p, q2, t)
  <1> DEFINE I == [kind |-> "ilmr", ribs |-> q]
             J == [kind |-> "ilmr", ribs |-> q2]
             f == [t EXCEPT ![p] = I]
  <1>1. IsStore(f) /\ IsStore([t EXCEPT ![p] = J]) /\ f[p] = I
    BY StorePut
  <1>2. [f[p] EXCEPT !.ribs = q2] = J
    BY <1>1
  <1>3. State(p, q, t).entry.place = p /\ State(p, q, t) = [entry |-> Listed(p), store |-> f]
    BY DEF State, Listed
  <1> HIDE DEF f, J, I
  <1>4. SetRIBs(State(p, q, t), q2) = [entry |-> Listed(p), store |-> [f EXCEPT ![p] = J]]
    BY <1>2, <1>3 DEF SetRIBs
  <1>5. [f EXCEPT ![p] = J] = [t EXCEPT ![p] = J]
    <2>1. IsStore([f EXCEPT ![p] = J]) /\ \A y \in Places : [f EXCEPT ![p] = J][y] = [t EXCEPT ![p] = J][y]
      BY <1>1, StorePut DEF f
    <2> QED BY <1>1, <2>1, SameStore
  <1> QED BY <1>4, <1>5 DEF State, J

LEMMA PutIs ==
  ASSUME NEW p \in Places, NEW q, NEW t, IsStore(t), NEW z \in Places, z # p, NEW v
  PROVE  /\ [State(p, q, t) EXCEPT !.store[z] = v] = State(p, q, [t EXCEPT ![z] = v])
         /\ IsStore([t EXCEPT ![z] = v])
         /\ [t EXCEPT ![z] = v][z] = v
         /\ \A y \in Places : y # z => [t EXCEPT ![z] = v][y] = t[y]
  <1> DEFINE I == [kind |-> "ilmr", ribs |-> q]
             f == [[t EXCEPT ![p] = I] EXCEPT ![z] = v]
             g == [[t EXCEPT ![z] = v] EXCEPT ![p] = I]
  <1> HIDE DEF I
  <1>1. IsStore([t EXCEPT ![p] = I]) /\ IsStore([t EXCEPT ![z] = v])
    BY StorePut
  <1>2. IsStore(f) /\ IsStore(g) /\ \A y \in Places : f[y] = g[y]
    BY <1>1, StorePut
  <1>3. f = g
    BY <1>2, SameStore
  <1>4. [State(p, q, t) EXCEPT !.store[z] = v] = [entry |-> Listed(p), store |-> f]
    BY DEF State, I
  <1>5. State(p, q, [t EXCEPT ![z] = v]) = [entry |-> Listed(p), store |-> g]
    BY DEF State, I
  <1> QED BY <1>3, <1>4, <1>5, StorePut

LEMMA GiveIs ==
  ASSUME NEW p \in Places, NEW q, NEW t, IsStore(t), NEW z \in Places, z # p
  PROVE  Give(State(p, q, t), z) = State(p, q, [t EXCEPT ![z] = Vacant])
  BY PutIs DEF Give

\* The ILMR moves.
Moved(s, z) == [s EXCEPT !.store[s.entry.place] = Vacant, !.store[z] = s.store[s.entry.place], !.entry.place = z]
LEMMA MoveIs ==
  ASSUME NEW p \in Places, NEW q, NEW q2, NEW t, IsStore(t), t[p] = Vacant, NEW z \in Places, z # p, t[z] = Vacant
  PROVE  SetRIBs(Moved(State(p, q, t), z), q2) = State(z, q2, t)
  <1> DEFINE s == State(p, q, t)
             I == [kind |-> "ilmr", ribs |-> q]
             moved == [s EXCEPT !.store[s.entry.place] = Vacant, !.store[z] = s.store[s.entry.place], !.entry.place = z]
             f == [[t EXCEPT ![p] = I] EXCEPT ![p] = Vacant]
             g == [f EXCEPT ![z] = I]
  <1>1. s.entry = Listed(p) /\ s.entry.place = p /\ s.store = [t EXCEPT ![p] = I] /\ s = [entry |-> Listed(p), store |-> [t EXCEPT ![p] = I]]
    BY DEF State, Listed
  <1>2. [t EXCEPT ![p] = I][p] = I
    BY StorePut
  <1>11. moved = [[[s EXCEPT !.store[p] = Vacant] EXCEPT !.store[z] = I] EXCEPT !.entry.place = z]
    BY <1>1, <1>2
  <1> HIDE DEF s, I
  <1>12. [s EXCEPT !.store[p] = Vacant] = [entry |-> Listed(p), store |-> f]
    BY <1>1
  <1>13. [[entry |-> Listed(p), store |-> f] EXCEPT !.store[z] = I] = [entry |-> Listed(p), store |-> g]
    OBVIOUS
  <1>14. [[entry |-> Listed(p), store |-> g] EXCEPT !.entry.place = z] = [entry |-> [Listed(p) EXCEPT !.place = z], store |-> g]
    OBVIOUS
  <1> HIDE DEF moved, f, g
  <1>3. moved = [entry |-> [Listed(p) EXCEPT !.place = z], store |-> g]
    BY <1>11, <1>12, <1>13, <1>14
  <1> USE DEF moved, f, g
  <1>4. [Listed(p) EXCEPT !.place = z] = Listed(z)
    BY DEF Listed
  <1>5. IsStore([t EXCEPT ![p] = I]) /\ IsStore([t EXCEPT ![z] = I])
    BY StorePut
  <1>6. IsStore(f)
    BY <1>5, StorePut
  <1>7. IsStore(g) /\ \A y \in Places : g[y] = [t EXCEPT ![z] = I][y]
    BY <1>5, <1>6, StorePut
  <1>8. g = [t EXCEPT ![z] = I]
    BY <1>5, <1>7, SameStore
  <1>9. moved = State(z, q, t)
    BY <1>3, <1>4, <1>8 DEF State, I
  <1>10. SetRIBs(State(z, q, t), q2) = State(z, q2, t)
    BY SetRIBsIs
  <1> QED BY <1>9, <1>10 DEF s, Moved

LEMMA PlaceIs ==
  ASSUME NEW p \in Places, NEW q, NEW t, IsStore(t), t[p] = Vacant
  PROVE  HasPlace(State(p, q, t)) => /\ NewPlace(State(p, q, t)) \in Places
                                     /\ NewPlace(State(p, q, t)) # p
                                     /\ t[NewPlace(State(p, q, t))] = Vacant
  <1> DEFINE s == State(p, q, t)
             T == {z \in Places : s.store[z] = Vacant}
  <1>1. SUFFICES ASSUME HasPlace(s)
                 PROVE  NewPlace(s) \in Places /\ NewPlace(s) # p /\ t[NewPlace(s)] = Vacant
    OBVIOUS
  <1>2. T # {} /\ T \subseteq Nat
    BY <1>1, ListAssumption DEF HasPlace
  <1>3. NewPlace(s) \in T
    BY <1>2, MinIs DEF NewPlace
  <1>4. (\A z \in Places : z # p => s.store[z] = t[z]) /\ s.store[p] # Vacant
    BY StateIs
  <1> HIDE DEF s
  <1> QED BY <1>3, <1>4

\* Where the RIB of a segment is or would be.
LEMMA FirstFromIs ==
  ASSUME NEW s, NEW q, RIBs(s) = q, q \in Seq(Ribs), NEW n \in Nat
  PROVE  /\ FirstFrom(s, n) \in 1 .. Len(q) + 1
         /\ FirstFrom(s, n) <= Len(q) => q[FirstFrom(s, n)].seg >= n
         /\ \A i \in 1 .. Len(q) : i < FirstFrom(s, n) => q[i].seg < n
  <1> DEFINE T == {x \in DOMAIN q : q[x].seg >= n} \cup {Len(q) + 1}
  <1>1. DOMAIN q = 1 .. Len(q) /\ Len(q) \in Nat /\ \A i \in 1 .. Len(q) : q[i] \in Ribs /\ q[i].seg \in Nat
    BY RibSeq
  <1>2. T \subseteq 1 .. Len(q) + 1 /\ T \subseteq Nat /\ T # {}
    BY <1>1
  <1>3. FirstFrom(s, n) = Min(T)
    BY DEF FirstFrom
  <1>4. FirstFrom(s, n) \in T /\ \A k \in T : FirstFrom(s, n) <= k
    BY <1>2, <1>3, MinIs
  <1>5. \A i \in 1 .. Len(q) : q[i].seg >= n => i \in T
    BY <1>1
  <1>6. FirstFrom(s, n) <= Len(q) => q[FirstFrom(s, n)].seg >= n
    BY <1>1, <1>4
  <1> HIDE DEF T
  <1>7. ASSUME NEW i \in 1 .. Len(q), i < FirstFrom(s, n)
        PROVE  q[i].seg < n
    <2>4. FirstFrom(s, n) \in Nat
      BY <1>2, <1>4
    <2>1. ~(FirstFrom(s, n) <= i)
      BY <2>4, <1>7
    <2>2. i \notin T
      BY <1>4, <2>1
    <2>3. ~(q[i].seg >= n)
      BY <1>5, <2>2
    <2> QED BY <1>1, <2>3
  <1> QED BY <1>2, <1>4, <1>6, <1>7

LEMMA RibixIs ==
  ASSUME NEW s, NEW q, RIBs(s) = q, q \in Seq(Ribs), NEW n \in Nat, NEW prev \in Nat
  PROVE  RibixForSeg(s, n, prev) \in 1 .. Len(q) + 1
  <1> DEFINE T == {x \in prev + 1 .. Len(q) : q[x].seg > n} \cup {Len(q) + 1}
  <1>1. T \subseteq 1 .. Len(q) + 1 /\ T \subseteq Nat /\ T # {}
    OBVIOUS
  <1>2. RibixForSeg(s, n, prev) = Min(T)
    BY DEF RibixForSeg
  <1> HIDE DEF T
  <1> QED BY <1>1, <1>2, MinIs
---------------------------------------------------------------------------
(* Sequences of RIBs.                                                       *)
LEMMA SegOnce ==
  ASSUME NEW q \in Seq(Ribs), Sorted(q), NEW x \in DOMAIN q, NEW y \in DOMAIN q, q[x].seg = q[y].seg
  PROVE  x = y
  <1>1. DOMAIN q = 1 .. Len(q) /\ Len(q) \in Nat /\ q[x].seg \in Nat /\ q[y].seg \in Nat
    BY RibSeq
  <1>2. ~(x < y) /\ ~(y < x)
    BY <1>1 DEF Sorted
  <1> QED BY <1>1, <1>2

LEMMA InsertIs ==
  ASSUME NEW q \in Seq(Ribs), NEW x \in 1 .. Len(q) + 1, NEW b \in Ribs
  PROVE  /\ InsertAt(q, x, b) \in Seq(Ribs)
         /\ Len(InsertAt(q, x, b)) = Len(q) + 1
         /\ \A i \in 1 .. Len(q) + 1 : InsertAt(q, x, b)[i] = IF i < x THEN q[i] ELSE IF i = x THEN b ELSE q[i - 1]
  <1> DEFINE f == SubSeq(q, 1, x - 1)
             g == SubSeq(q, x, Len(q))
             h == f \o <<b>>
  <1>1. Len(q) \in Nat /\ DOMAIN q = 1 .. Len(q) /\ \A i \in 1 .. Len(q) : q[i] \in Ribs
    OBVIOUS
  <1>2. f \in Seq(Ribs) /\ Len(f) = x - 1 /\ \A i \in 1 .. x - 1 : f[i] = q[i]
    <2>1. 1 \in Int /\ x - 1 \in Int /\ \A i \in 1 .. x - 1 : q[i] \in Ribs
      BY <1>1
    <2>2. Len(f) = (IF 1 <= x - 1 THEN (x - 1) - 1 + 1 ELSE 0) /\ f \in Seq(Ribs)
          /\ \A i \in 1 .. (x - 1) - 1 + 1 : f[i] = q[1 + i - 1]
      BY <2>1, SubSeqProperties
    <2> QED BY <2>2, <1>1
  <1>3. g \in Seq(Ribs) /\ Len(g) = Len(q) - x + 1 /\ \A i \in 1 .. Len(q) - x + 1 : g[i] = q[x + i - 1]
    <2>1. x \in Int /\ Len(q) \in Int /\ \A i \in x .. Len(q) : q[i] \in Ribs
      BY <1>1
    <2>2. Len(g) = (IF x <= Len(q) THEN Len(q) - x + 1 ELSE 0) /\ g \in Seq(Ribs)
          /\ \A i \in 1 .. Len(q) - x + 1 : g[i] = q[x + i - 1]
      BY <2>1, SubSeqProperties
    <2> QED BY <2>2, <1>1
  <1>4. <<b>> \in Seq(Ribs) /\ Len(<<b>>) = 1 /\ <<b>>[1] = b
    OBVIOUS
  <1> HIDE DEF f, g
  <1>5. h \in Seq(Ribs) /\ Len(h) = x /\ \A i \in 1 .. x : h[i] = IF i <= x - 1 THEN f[i] ELSE <<b>>[i - (x - 1)]
    BY <1>1, <1>2, <1>4, ConcatProperties
  <1>6. \A i \in 1 .. x : h[i] = IF i < x THEN q[i] ELSE b
    BY <1>1, <1>2, <1>4, <1>5
  <1> HIDE DEF h
  <1>7. h \o g \in Seq(Ribs) /\ Len(h \o g) = Len(q) + 1
        /\ \A i \in 1 .. Len(q) + 1 : (h \o g)[i] = IF i <= x THEN h[i] ELSE g[i - x]
    <2>1. Len(h) + Len(g) = Len(q) + 1
      BY <1>1, <1>3, <1>5
    <2> HIDE DEF h
    <2>2. \A i \in 1 .. Len(h) + Len(g) : (h \o g)[i] = IF i <= Len(h) THEN h[i] ELSE g[i - Len(h)]
      BY <1>3, <1>5, ConcatProperties
    <2>3. h \o g \in Seq(Ribs) /\ Len(h \o g) = Len(h) + Len(g)
      BY <1>3, <1>5, ConcatProperties
    <2> QED BY <2>1, <2>2, <2>3, <1>5
  <1>8. InsertAt(q, x, b) = h \o g
    BY DEF InsertAt, h, g, f
  <1>9. ASSUME NEW i \in 1 .. Len(q) + 1
        PROVE  (h \o g)[i] = IF i < x THEN q[i] ELSE IF i = x THEN b ELSE q[i - 1]
    <2>1. CASE i <= x
      BY <1>1, <1>6, <1>7, <2>1
    <2>2. CASE i > x
      <3>1. i - x \in 1 .. Len(q) - x + 1 /\ x + (i - x) - 1 = i - 1
        BY <1>1, <2>2
      <3>2. g[i - x] = q[i - 1]
        BY <1>3, <3>1
      <3>3. (h \o g)[i] = g[i - x]
        BY <1>7, <1>1, <2>2
      <3> QED BY <2>2, <3>2, <3>3, <1>1
    <2>3. i <= x \/ i > x
      BY <1>1
    <2> QED BY <2>1, <2>2, <2>3
  <1> QED BY <1>7, <1>8, <1>9

LEMMA InsertRange ==
  ASSUME NEW q \in Seq(Ribs), NEW x \in 1 .. Len(q) + 1, NEW b \in Ribs
  PROVE  Range(InsertAt(q, x, b)) = Range(q) \cup {b}
  <1> DEFINE r == InsertAt(q, x, b)
  <1>1. r \in Seq(Ribs) /\ Len(r) = Len(q) + 1
        /\ \A i \in 1 .. Len(q) + 1 : r[i] = IF i < x THEN q[i] ELSE IF i = x THEN b ELSE q[i - 1]
    BY InsertIs
  <1>2. DOMAIN q = 1 .. Len(q) /\ Len(q) \in Nat
    BY RibSeq
  <1>3. DOMAIN r = 1 .. Len(q) + 1
    BY <1>1, <1>2, RibSeq
  <1> HIDE DEF r
  <1>4. ASSUME NEW i \in DOMAIN r PROVE r[i] \in Range(q) \cup {b}
    <2>1. i < x => i \in DOMAIN q
      BY <1>2, <1>3
    <2>2. i > x => i - 1 \in DOMAIN q
      BY <1>2, <1>3
    <2>3. i \in Nat /\ x \in Nat
      BY <1>3, <1>2
    <2> QED BY <1>1, <1>3, <2>1, <2>2, <2>3 DEF Range
  <1>5. ASSUME NEW i \in DOMAIN q PROVE q[i] \in Range(r)
    <2>1. CASE i < x
      <3>1. i \in DOMAIN r /\ r[i] = q[i]
        BY <1>1, <1>2, <1>3, <2>1
      <3> QED BY <3>1 DEF Range
    <2>2. CASE ~(i < x)
      <3>1. i + 1 \in DOMAIN r /\ ~(i + 1 < x) /\ i + 1 # x /\ (i + 1) - 1 = i
        BY <1>2, <1>3, <2>2
      <3>2. r[i + 1] = q[i]
        BY <1>1, <1>3, <3>1
      <3> QED BY <3>1, <3>2 DEF Range
    <2> QED BY <2>1, <2>2
  <1>6. b \in Range(r)
    <2>1. x \in DOMAIN r /\ r[x] = b
      BY <1>1, <1>2, <1>3
    <2> QED BY <2>1 DEF Range
  <1>7. Range(r) \subseteq Range(q) \cup {b}
    BY <1>4 DEF Range
  <1>8. Range(q) \subseteq Range(r)
    BY <1>5 DEF Range
  <1> QED BY <1>6, <1>7, <1>8 DEF r

\* A RIB at its segment's place keeps the order.
LEMMA InsertSorted ==
  ASSUME NEW q \in Seq(Ribs), Sorted(q), NEW x \in 1 .. Len(q) + 1, NEW b \in Ribs,
         \A i \in 1 .. Len(q) : i < x => q[i].seg < b.seg,
         \A i \in 1 .. Len(q) : i >= x => q[i].seg > b.seg
  PROVE  Sorted(InsertAt(q, x, b))
  <1> DEFINE r == InsertAt(q, x, b)
  <1>1. r \in Seq(Ribs) /\ Len(r) = Len(q) + 1
        /\ \A i \in 1 .. Len(q) + 1 : r[i] = IF i < x THEN q[i] ELSE IF i = x THEN b ELSE q[i - 1]
    BY InsertIs
  <1>2. DOMAIN q = 1 .. Len(q) /\ Len(q) \in Nat
    BY RibSeq
  <1>3. DOMAIN r = 1 .. Len(q) + 1
    BY <1>1, <1>2, RibSeq
  <1> HIDE DEF r
  <1>4. ASSUME NEW i \in DOMAIN r, NEW j \in DOMAIN r, i < j PROVE r[i].seg < r[j].seg
    <2>1. i \in Nat /\ j \in Nat /\ x \in Nat
      BY <1>2, <1>3
    <2>2. CASE j < x
      <3>1. i \in DOMAIN q /\ j \in DOMAIN q /\ r[i] = q[i] /\ r[j] = q[j]
        BY <1>1, <1>2, <1>3, <1>4, <2>1, <2>2
      <3> QED BY <3>1, <1>4 DEF Sorted
    <2>3. CASE j = x
      <3>1. i \in 1 .. Len(q) /\ i < x /\ r[i] = q[i] /\ r[j] = b
        BY <1>1, <1>2, <1>3, <1>4, <2>1, <2>3
      <3> QED BY <3>1
    <2>4. CASE j > x
      <3>1. j - 1 \in 1 .. Len(q) /\ j - 1 >= x /\ r[j] = q[j - 1]
        BY <1>1, <1>2, <1>3, <2>1, <2>4
      <3>2. CASE i < x
        <4>1. r[i] = q[i] /\ i \in DOMAIN q /\ j - 1 \in DOMAIN q /\ i < j - 1
          BY <1>1, <1>2, <1>3, <2>1, <2>4, <3>1, <3>2
        <4> QED BY <3>1, <4>1 DEF Sorted
      <3>3. CASE i = x
        <4>1. r[i] = b
          BY <1>1, <1>3, <3>3
        <4>2. b.seg \in Nat /\ q[j - 1].seg \in Nat /\ q[j - 1].seg > b.seg
          BY <3>1, RibIs, RibSeq
        <4> QED BY <3>1, <4>1, <4>2
      <3>4. CASE i > x
        <4>1. r[i] = q[i - 1] /\ i - 1 \in DOMAIN q /\ j - 1 \in DOMAIN q /\ i - 1 < j - 1
          BY <1>1, <1>2, <1>3, <1>4, <2>1, <2>4, <3>1, <3>4
        <4> QED BY <3>1, <4>1 DEF Sorted
      <3> QED BY <2>1, <3>2, <3>3, <3>4
    <2> QED BY <2>1, <2>2, <2>3, <2>4
  <1> QED BY <1>4 DEF Sorted, r

LEMMA ReplaceIs ==
  ASSUME NEW q \in Seq(Ribs), Sorted(q), NEW x \in DOMAIN q, NEW b \in Ribs, b.seg = q[x].seg
  PROVE  /\ ReplaceAt(q, x, b) \in Seq(Ribs) /\ ReplaceAt(q, x, b) # <<>>
         /\ Sorted(ReplaceAt(q, x, b))
         /\ Range(ReplaceAt(q, x, b)) = {c \in Range(q) : c.seg # b.seg} \cup {b}
  <1> DEFINE r == [q EXCEPT ![x] = b]
  <1>1. ReplaceAt(q, x, b) = r
    BY DEF ReplaceAt
  <1>2. DOMAIN q = 1 .. Len(q) /\ Len(q) \in Nat
    BY RibSeq
  <1>3. r \in Seq(Ribs) /\ DOMAIN r = DOMAIN q /\ \A j \in DOMAIN q : r[j] = IF j = x THEN b ELSE q[j]
    <2>1. r \in Seq(Ribs) /\ Len(r) = Len(q) /\ \A j \in 1 .. Len(q) : r[j] = IF j = x THEN b ELSE q[j]
      BY <1>2, ExceptSeq
    <2>2. DOMAIN r = 1 .. Len(r)
      BY <2>1, RibSeq
    <2> QED BY <1>2, <2>1, <2>2
  <1>4. r # <<>>
    BY <1>3, EmptySeq
  <1> HIDE DEF r
  <1>5. Sorted(r)
    <2>1. \A j \in DOMAIN q : r[j].seg = q[j].seg
      BY <1>3
    <2> QED BY <1>3, <2>1 DEF Sorted
  <1>6. Range(r) = {c \in Range(q) : c.seg # b.seg} \cup {b}
    <2>1. b \in Range(r)
      BY <1>3 DEF Range
    <2>2. ASSUME NEW j \in DOMAIN q PROVE r[j] \in {c \in Range(q) : c.seg # b.seg} \cup {b}
      <3>1. j # x => q[j].seg # q[x].seg
        BY SegOnce
      <3> QED BY <1>3, <3>1 DEF Range
    <2>3. ASSUME NEW j \in DOMAIN q, q[j].seg # b.seg PROVE q[j] \in Range(r)
      <3>1. j # x /\ r[j] = q[j]
        BY <1>3, <2>3
      <3> QED BY <1>3, <3>1 DEF Range
    <2> QED BY <1>3, <2>1, <2>2, <2>3 DEF Range
  <1> QED BY <1>1, <1>3, <1>4, <1>5, <1>6

LEMMA RemoveIs ==
  ASSUME NEW q \in Seq(Ribs), NEW x \in DOMAIN q
  PROVE  /\ RemoveAt(q, x) \in Seq(Ribs)
         /\ Len(RemoveAt(q, x)) = Len(q) - 1
         /\ \A i \in 1 .. Len(q) - 1 : RemoveAt(q, x)[i] = IF i < x THEN q[i] ELSE q[i + 1]
  <1> DEFINE f == SubSeq(q, 1, x - 1)
             g == SubSeq(q, x + 1, Len(q))
  <1>1. Len(q) \in Nat /\ DOMAIN q = 1 .. Len(q) /\ x \in 1 .. Len(q) /\ \A i \in 1 .. Len(q) : q[i] \in Ribs
    OBVIOUS
  <1>2. f \in Seq(Ribs) /\ Len(f) = x - 1 /\ \A i \in 1 .. x - 1 : f[i] = q[i]
    <2>1. 1 \in Int /\ x - 1 \in Int /\ \A i \in 1 .. x - 1 : q[i] \in Ribs
      BY <1>1
    <2>2. Len(f) = (IF 1 <= x - 1 THEN (x - 1) - 1 + 1 ELSE 0) /\ f \in Seq(Ribs)
          /\ \A i \in 1 .. (x - 1) - 1 + 1 : f[i] = q[1 + i - 1]
      BY <2>1, SubSeqProperties
    <2> QED BY <2>2, <1>1
  <1>3. g \in Seq(Ribs) /\ Len(g) = Len(q) - x /\ \A i \in 1 .. Len(q) - x : g[i] = q[x + i]
    <2>1. x + 1 \in Int /\ Len(q) \in Int /\ \A i \in x + 1 .. Len(q) : q[i] \in Ribs
      BY <1>1
    <2>2. Len(g) = (IF x + 1 <= Len(q) THEN Len(q) - (x + 1) + 1 ELSE 0) /\ g \in Seq(Ribs)
          /\ \A i \in 1 .. Len(q) - (x + 1) + 1 : g[i] = q[(x + 1) + i - 1]
      BY <2>1, SubSeqProperties
    <2>3. Len(q) - (x + 1) + 1 = Len(q) - x /\ \A i \in 1 .. Len(q) - x : (x + 1) + i - 1 = x + i
      BY <1>1
    <2> QED BY <2>2, <2>3, <1>1
  <1> HIDE DEF f, g
  <1>4. Len(f) + Len(g) = Len(q) - 1
    BY <1>1, <1>2, <1>3
  <1>5. f \o g \in Seq(Ribs) /\ Len(f \o g) = Len(f) + Len(g)
        /\ \A i \in 1 .. Len(f) + Len(g) : (f \o g)[i] = IF i <= Len(f) THEN f[i] ELSE g[i - Len(f)]
    BY <1>2, <1>3, ConcatProperties
  <1>6. RemoveAt(q, x) = f \o g
    BY DEF RemoveAt, f, g
  <1>7. ASSUME NEW i \in 1 .. Len(q) - 1 PROVE (f \o g)[i] = IF i < x THEN q[i] ELSE q[i + 1]
    <2>1. (f \o g)[i] = IF i <= x - 1 THEN f[i] ELSE g[i - (x - 1)]
      BY <1>2, <1>4, <1>5
    <2>2. CASE i < x
      BY <1>1, <1>2, <2>1, <2>2
    <2>3. CASE ~(i < x)
      <3>1. i - (x - 1) \in 1 .. Len(q) - x /\ x + (i - (x - 1)) = i + 1 /\ ~(i <= x - 1)
        BY <1>1, <2>3
      <3>2. g[i - (x - 1)] = q[i + 1]
        BY <1>3, <3>1
      <3> QED BY <2>1, <2>3, <3>1, <3>2
    <2> QED BY <2>2, <2>3
  <1> QED BY <1>4, <1>5, <1>6, <1>7

LEMMA RemoveSorted ==
  ASSUME NEW q \in Seq(Ribs), Sorted(q), NEW x \in DOMAIN q
  PROVE  /\ Sorted(RemoveAt(q, x))
         /\ Range(RemoveAt(q, x)) = {c \in Range(q) : c.seg # q[x].seg}
         /\ Len(q) # 1 => RemoveAt(q, x) # <<>>
  <1> DEFINE r == RemoveAt(q, x)
             from(i) == IF i < x THEN i ELSE i + 1
  <1>1. DOMAIN q = 1 .. Len(q) /\ Len(q) \in Nat
    BY RibSeq
  <1>2. r \in Seq(Ribs) /\ Len(r) = Len(q) - 1 /\ \A i \in 1 .. Len(q) - 1 : r[i] = IF i < x THEN q[i] ELSE q[i + 1]
    BY RemoveIs
  <1>3. DOMAIN r = 1 .. Len(q) - 1
    BY <1>1, <1>2, RibSeq
  <1> HIDE DEF r
  <1>4. \A i \in DOMAIN r : from(i) \in DOMAIN q /\ from(i) # x /\ r[i] = q[from(i)]
    BY <1>1, <1>2, <1>3
  <1>5. \A i, j \in DOMAIN r : i < j => from(i) < from(j)
    BY <1>1, <1>3
  <1>6. \A j \in DOMAIN q : j # x => \E i \in DOMAIN r : r[i] = q[j]
    <2>1. SUFFICES ASSUME NEW j \in DOMAIN q, j # x PROVE \E i \in DOMAIN r : r[i] = q[j]
      OBVIOUS
    <2>2. CASE j < x
      <3>1. j \in DOMAIN r /\ from(j) = j
        BY <1>1, <1>3, <2>2
      <3> QED BY <1>4, <3>1
    <2>3. CASE j > x
      <3>1. j - 1 \in DOMAIN r /\ from(j - 1) = j
        BY <1>1, <1>3, <2>3
      <3>2. r[j - 1] = q[j]
        BY <1>4, <3>1
      <3> QED BY <3>1, <3>2
    <2> QED BY <1>1, <2>1, <2>2, <2>3
  <1> HIDE DEF from
  <1>7. Sorted(r)
    BY <1>4, <1>5 DEF Sorted
  <1>8. Range(r) = {c \in Range(q) : c.seg # q[x].seg}
    <2>1. \A j \in DOMAIN q : j # x => q[j].seg # q[x].seg
      BY SegOnce
    <2>2. ASSUME NEW i \in DOMAIN r PROVE r[i] \in Range(q) /\ r[i].seg # q[x].seg
      BY <1>4, <2>1 DEF Range
    <2>3. ASSUME NEW j \in DOMAIN q, q[j].seg # q[x].seg PROVE q[j] \in Range(r)
      <3>1. j # x
        BY <2>3
      <3> QED BY <1>6, <3>1 DEF Range
    <2> QED BY <2>2, <2>3 DEF Range
  <1>9. Len(q) # 1 => r # <<>>
    BY <1>1, <1>2, EmptySeq
  <1> QED BY <1>7, <1>8, <1>9 DEF r

---------------------------------------------------------------------------
(* What RIBs tell.                                                          *)
LEMMA ToldIs ==
  ASSUME NEW R, NEW t, NEW x
  PROVE  x \in Told(R, t) <=> \E b \in R : \E a \in RecsIn(b, t) : x = <<b.seg, a>>
  BY DEF Told

\* A record is told of by the RIB of its segment.
LEMMA ToldBy ==
  ASSUME NEW R, NEW t, NEW b \in R, \A c \in R : c.seg = b.seg => c = b, NEW a
  PROVE  <<b.seg, a>> \in Told(R, t) <=> a \in RecsIn(b, t)
  <1>1. ASSUME <<b.seg, a>> \in Told(R, t) PROVE a \in RecsIn(b, t)
    <2>1. PICK c \in R : \E d \in RecsIn(c, t) : <<b.seg, a>> = <<c.seg, d>>
      BY <1>1, ToldIs
    <2> QED BY <2>1
  <1> QED BY <1>1, ToldIs

LEMMA ToldRecs ==
  ASSUME NEW R, NEW t, \A b \in R : Sound(b, t)
  PROVE  Told(R, t) \subseteq ListRecs
  BY ToldIs DEF Sound

LEMMA RecIs ==
  ASSUME NEW r \in ListRecs
  PROVE  r[1] \in Nat /\ r[2] \in Nat /\ r = <<r[1], r[2]>>
  BY ListAssumption

\* The records of one segment are finitely many.
LEMMA NumbersFinite ==
  ASSUME NEW S, \A a \in S : \E r \in ListRecs : r[2] = a
  PROVE  IsFiniteSet(S)
  <1> DEFINE T == {r[2] : r \in ListRecs}
             f == [r \in ListRecs |-> r[2]]
  <1>1. f \in Surjection(ListRecs, T)
    BY DEF Surjection
  <1>2. IsFiniteSet(T)
    BY <1>1, FS_Surjection, ListAssumption
  <1>3. S \in SUBSET T
    OBVIOUS
  <1> HIDE DEF T
  <1> QED BY <1>2, <1>3, FS_Subset

LEMMA SoundIs ==
  ASSUME NEW b, NEW t, Sound(b, t)
  PROVE  /\ b \in Ribs /\ b.seg \in Nat
         /\ b.place = 0 \/ b.place \in Places
         /\ b.place \in Places => b.place # 0 /\ t[b.place].kind = b.kind /\ t[b.place] # Vacant
         /\ RecsIn(b, t) # {} /\ IsFiniteSet(RecsIn(b, t)) /\ RecsIn(b, t) \subseteq Nat
  <1>1. b \in Ribs /\ b.seg \in Nat
    BY RibIs DEF Sound
  <1>2. b.place = 0 \/ b.place \in Places
    BY DEF Sound, InForm
  <1>3. b.place \in Places => b.place # 0
    BY ListAssumption
  <1>4. b.place \in Places => t[b.place].kind = b.kind /\ b.kind \in {"array", "bitmap"}
    BY <1>3 DEF Sound, InForm, ArrayOf, BitMapOf
  <1>5. b.place \in Places => t[b.place] # Vacant
    BY <1>4 DEF Vacant
  <1>6. RecsIn(b, t) # {}
    BY DEF Sound
  <1>7. \A a \in RecsIn(b, t) : <<b.seg, a>> \in ListRecs
    BY DEF Sound
  <1>8. \A a \in RecsIn(b, t) : \E r \in ListRecs : r[2] = a
    BY <1>7
  <1>9. RecsIn(b, t) \subseteq Nat
    BY <1>8, RecIs
  <1> QED BY <1>1, <1>2, <1>3, <1>4, <1>5, <1>6, <1>8, <1>9, NumbersFinite

\* Whether a RIB is sound depends on its place only.
LEMMA SoundStays ==
  ASSUME NEW b, NEW t, NEW u, Sound(b, t), b.place # 0 => u[b.place] = t[b.place]
  PROVE  Sound(b, u) /\ RecsIn(b, u) = RecsIn(b, t)
  <1>1. RecsIn(b, u) = RecsIn(b, t)
    BY DEF RecsIn
  <1>2. InForm(b, u)
    BY ListAssumption DEF InForm, Sound
  <1> QED BY <1>1, <1>2 DEF Sound

LEMMA FitIs ==
  ASSUME NEW p, NEW R, NEW t, Fit(p, R, t)
  PROVE  /\ p \in Places /\ IsStore(t) /\ t[p] = Vacant
         /\ \A b \in R : Sound(b, t) /\ b.place # p
         /\ \A b, c \in R : b.seg = c.seg \/ (b.place = c.place /\ b.place # 0) => b = c
         /\ \A z \in Places : t[z] = Vacant \/ \E b \in R : b.place = z
  BY SoundIs DEF Fit

\* One segment's RIB gives way to another or to none, and its place with it.
Exchange(R, t, n, new, u, o) ==
  /\ IsStore(u) /\ u[o] = Vacant
  /\ \A b \in new : b.seg = n /\ Sound(b, u)
  /\ \A b, c \in new : b = c
  /\ \A b \in new : b.place # 0 => t[b.place] = Vacant \/ \E c \in R : c.seg = n /\ c.place = b.place
  /\ \A c \in R : c.seg # n /\ c.place # 0 => u[c.place] = t[c.place]
  /\ \A z \in Places : \/ u[z] = Vacant
                       \/ \E b \in new : b.place = z
                       \/ u[z] = t[z] /\ \A c \in R : c.seg = n => c.place # z
With(R, n, new) == {c \in R : c.seg # n} \cup new
OtherThan(H, n) == {r \in H : r[1] # n}
RecsOf(n, new, u) == UNION {{<<n, a>> : a \in RecsIn(b, u)} : b \in new}
LEMMA Exchanged ==
  ASSUME NEW p, NEW R, NEW t, Fit(p, R, t), NEW n, NEW new, NEW u, NEW o \in Places,
         Exchange(R, t, n, new, u, o)
  PROVE  /\ Fit(o, With(R, n, new), u)
         /\ Told(With(R, n, new), u) = OtherThan(Told(R, t), n) \cup RecsOf(n, new, u)
  <1> DEFINE Q == {c \in R : c.seg # n} \cup new
  <1> USE DEF Exchange
  <1>1. \A c \in R : c.seg # n => Sound(c, u) /\ RecsIn(c, u) = RecsIn(c, t)
    BY SoundStays, FitIs
  <1>2. \A b \in Q : Sound(b, u)
    BY <1>1
  <1>3. ASSUME NEW b \in Q, NEW c \in Q, b.seg = c.seg PROVE b = c
    BY <1>3, FitIs
  <1>4. ASSUME NEW b \in Q, NEW c \in Q, b.place = c.place, b.place # 0 PROVE b = c
    <2>1. CASE b \in R /\ c \in R
      BY <1>4, <2>1, FitIs
    <2>2. ASSUME NEW d \in new, NEW e \in R, e.seg # n, d.place = e.place, d.place # 0 PROVE FALSE
      <3>1. t[e.place] # Vacant
        <4>1. Sound(e, t)
          BY FitIs
        <4> QED BY <4>1, <2>2, SoundIs
      <3>2. PICK g \in R : g.seg = n /\ g.place = d.place
        BY <2>2, <3>1
      <3> QED BY <2>2, <3>2, FitIs
    <2>3. CASE b \in new /\ c \in new
      BY <2>3
    <2>4. CASE b \in new /\ c \in R /\ c.seg # n
      BY <1>4, <2>2, <2>4
    <2>5. CASE c \in new /\ b \in R /\ b.seg # n
      BY <1>4, <2>2, <2>5
    <2> QED BY <2>1, <2>3, <2>4, <2>5
  <1>5. ASSUME NEW z \in Places, u[z] # Vacant PROVE \E b \in Q : b.place = z
    <2>1. CASE \E b \in new : b.place = z
      BY <2>1
    <2>2. CASE u[z] = t[z] /\ \A c \in R : c.seg = n => c.place # z
      <3>1. PICK b \in R : b.place = z
        BY <1>5, <2>2, FitIs
      <3> QED BY <2>2, <3>1
    <2> QED BY <1>5, <2>1, <2>2
  <1>6. Fit(o, Q, u)
    BY <1>2, <1>3, <1>4, <1>5 DEF Fit
  <1>7. ASSUME NEW x PROVE x \in Told(Q, u) <=> x \in {r \in Told(R, t) : r[1] # n} \cup UNION {{<<n, a>> : a \in RecsIn(b, u)} : b \in new}
    <2>1. x \in Told(Q, u) <=> \/ \E b \in R : b.seg # n /\ \E a \in RecsIn(b, t) : x = <<b.seg, a>>
                               \/ \E b \in new : \E a \in RecsIn(b, u) : x = <<n, a>>
      <3>1. x \in Told(Q, u) <=> \E b \in Q : \E a \in RecsIn(b, u) : x = <<b.seg, a>>
        BY ToldIs
      <3>2. (\E b \in Q : \E a \in RecsIn(b, u) : x = <<b.seg, a>>)
              <=> \/ \E b \in R : b.seg # n /\ \E a \in RecsIn(b, u) : x = <<b.seg, a>>
                  \/ \E b \in new : \E a \in RecsIn(b, u) : x = <<b.seg, a>>
        OBVIOUS
      <3> QED BY <3>1, <3>2, <1>1
    <2>2. (\E b \in R : b.seg # n /\ \E a \in RecsIn(b, t) : x = <<b.seg, a>>) <=> x \in Told(R, t) /\ x[1] # n
      BY ToldIs
    <2> QED BY <2>1, <2>2
  <1> QED BY <1>6, <1>7 DEF With, OtherThan, RecsOf

\* An ILMR without RIBs.
LEMMA NewFits ==
  ASSUME NEW p \in Places
  PROVE  Fit(p, {}, NoStore) /\ Told({}, NoStore) = {}
  <1>1. IsStore(NoStore) /\ NoStore[p] = Vacant /\ \A z \in Places : NoStore[z] = Vacant
    BY DEF NoStore, IsStore
  <1> QED BY <1>1 DEF Fit, Told

---------------------------------------------------------------------------
(* The forms of a segment.                                                  *)
OfSegment(n, recs) == recs # {} /\ \A a \in recs : <<n, a>> \in ListRecs

LEMMA OfSegmentIs ==
  ASSUME NEW n, NEW recs, OfSegment(n, recs)
  PROVE  n \in Nat /\ recs \subseteq Nat /\ IsFiniteSet(recs) /\ Cardinality(recs) \in Nat \ {0}
  <1>1. \A a \in recs : n \in Nat /\ a \in Nat
    BY RecIs DEF OfSegment
  <1>2. IsFiniteSet(recs)
    <2>1. \A a \in recs : \E r \in ListRecs : r[2] = a
      BY DEF OfSegment
    <2> QED BY <2>1, NumbersFinite
  <1>3. Cardinality(recs) \in Nat /\ Cardinality(recs) # 0
    BY <1>2, FS_CardinalityType, FS_EmptySet DEF OfSegment
  <1> QED BY <1>1, <1>2, <1>3 DEF OfSegment

LEMMA OneIs ==
  ASSUME NEW n, NEW a, <<n, a>> \in ListRecs, NEW t
  PROVE  Sound(One(n, a), t) /\ RecsIn(One(n, a), t) = {a} /\ One(n, a).seg = n /\ One(n, a).place = 0
  <1>1. n \in Nat /\ a \in Nat
    BY RecIs
  <1>2. One(n, a) \in Ribs
    BY <1>1 DEF One, Ribs
  <1>3. One(n, a).seg = n /\ One(n, a).place = 0 /\ One(n, a).recs = {a} /\ One(n, a).kind = "one"
    BY DEF One
  <1>4. Cardinality({a}) = 1
    BY FS_Singleton
  <1> QED BY <1>2, <1>3, <1>4 DEF Sound, InForm, RecsIn

LEMMA TwoIs ==
  ASSUME NEW n, NEW recs, OfSegment(n, recs), Cardinality(recs) = 2, NEW t
  PROVE  Sound(Two(n, recs), t) /\ RecsIn(Two(n, recs), t) = recs /\ Two(n, recs).seg = n /\ Two(n, recs).place = 0
  <1>1. n \in Nat /\ recs \subseteq Nat
    BY OfSegmentIs
  <1>2. Two(n, recs) \in Ribs
    BY <1>1 DEF Two, Ribs
  <1>3. Two(n, recs).seg = n /\ Two(n, recs).place = 0 /\ Two(n, recs).recs = recs /\ Two(n, recs).kind = "two"
    BY DEF Two
  <1> QED BY <1>2, <1>3 DEF Sound, InForm, RecsIn, OfSegment

LEMMA ElsewhereIs ==
  ASSUME NEW n, NEW recs, OfSegment(n, recs), NEW z \in Places, NEW t, NEW kind \in {"array", "bitmap"},
         \/ kind = "array" /\ t[z] = ArrayOf(recs) /\ Cardinality(recs) <= DLIST_MAXRECS
         \/ kind = "bitmap" /\ t[z] = BitMapOf(recs, Cardinality(recs))
  PROVE  LET b == Elsewhere(n, kind, z) IN
         Sound(b, t) /\ RecsIn(b, t) = recs /\ b.seg = n /\ b.place = z
  <1> DEFINE b == Elsewhere(n, kind, z)
  <1>1. n \in Nat /\ z \in Nat /\ z # 0
    BY OfSegmentIs, ListAssumption
  <1>2. b \in Ribs
    BY <1>1 DEF Elsewhere, Ribs
  <1>3. b.seg = n /\ b.place = z /\ b.kind = kind
    BY DEF Elsewhere
  <1>4. t[z].recs = recs
    BY DEF ArrayOf, BitMapOf
  <1> HIDE DEF b
  <1>5. RecsIn(b, t) = recs
    BY <1>1, <1>3, <1>4 DEF RecsIn
  <1>6. InForm(b, t)
    BY <1>3, <1>4 DEF InForm
  <1> QED BY <1>2, <1>3, <1>5, <1>6 DEF Sound, OfSegment, b

\* A RIB of a new segment.
LEMMA Joined ==
  ASSUME NEW p, NEW R, NEW t, Fit(p, R, t), NEW b, NEW u, NEW o \in Places,
         IsStore(u), u[o] = Vacant, Sound(b, u), \A c \in R : c.seg # b.seg,
         b.place # 0 => t[b.place] = Vacant,
         \A z \in Places : z # b.place => u[z] = t[z]
  PROVE  Fit(o, R \cup {b}, u) /\ Told(R \cup {b}, u) = Told(R, t) \cup {<<b.seg, a>> : a \in RecsIn(b, u)}
  <1> DEFINE n == b.seg
  <1>1. \A c \in R : c.seg # n /\ c.place # 0 => u[c.place] = t[c.place]
    <2>1. SUFFICES ASSUME NEW c \in R, c.place # 0 PROVE u[c.place] = t[c.place]
      OBVIOUS
    <2>2. Sound(c, t) /\ c.place \in Places /\ t[c.place] # Vacant
      BY <2>1, FitIs, SoundIs
    <2>3. c.place # b.place
      BY <2>1, <2>2
    <2> QED BY <2>2, <2>3
  <1>2. \A z \in Places : \/ u[z] = Vacant
                          \/ \E d \in {b} : d.place = z
                          \/ u[z] = t[z] /\ \A c \in R : c.seg = n => c.place # z
    OBVIOUS
  <1>3. \A d \in {b} : d.seg = n /\ Sound(d, u)
    OBVIOUS
  <1>4. \A d, e \in {b} : d = e
    OBVIOUS
  <1>5. \A d \in {b} : d.place # 0 => t[d.place] = Vacant \/ \E c \in R : c.seg = n /\ c.place = d.place
    OBVIOUS
  <1> HIDE DEF n
  <1>10. Exchange(R, t, n, {b}, u, o)
    BY <1>1, <1>2, <1>3, <1>4, <1>5 DEF Exchange
  <1>6. Fit(o, With(R, n, {b}), u) /\ Told(With(R, n, {b}), u) = OtherThan(Told(R, t), n) \cup RecsOf(n, {b}, u)
    <2> DEFINE N == {b}
    <2> HIDE DEF N
    <2>1. Exchange(R, t, n, N, u, o)
      BY <1>10 DEF N
    <2>2. Fit(o, With(R, n, N), u) /\ Told(With(R, n, N), u) = OtherThan(Told(R, t), n) \cup RecsOf(n, N, u)
      BY <2>1, Exchanged
    <2> QED BY <2>2 DEF N
  <1>7. With(R, n, {b}) = R \cup {b}
    BY DEF n, With
  <1>8. OtherThan(Told(R, t), n) = Told(R, t)
    <2>1. \A r \in Told(R, t) : r[1] # n
      BY ToldIs DEF n
    <2> QED BY <2>1 DEF OtherThan
  <1>9. RecsOf(n, {b}, u) = {<<n, a>> : a \in RecsIn(b, u)}
    BY DEF RecsOf
  <1> QED BY <1>6, <1>7, <1>8, <1>9 DEF n
---------------------------------------------------------------------------
(* The list of a value.                                                     *)
LEMMA FiledIs ==
  ASSUME NEW s, NEW H, NEW p, NEW q, NEW t, Filed(s, H, p, q, t)
  PROVE  /\ s = State(p, q, t) /\ RIBs(s) = q /\ s.entry.form = "ilmr" /\ s.entry.place = p
         /\ q \in Seq(Ribs) /\ DOMAIN q = 1 .. Len(q) /\ Len(q) \in Nat \ {0} /\ Sorted(q)
         /\ Fit(p, Range(q), t) /\ p \in Places /\ IsStore(t) /\ t[p] = Vacant
         /\ H = Told(Range(q), t) /\ H \subseteq ListRecs
         /\ \A x \in DOMAIN q : /\ q[x] \in Range(q) /\ Sound(q[x], t) /\ q[x].place # p /\ q[x] \in Ribs
                                /\ RIBRecs(s, q[x]) = RecsIn(q[x], t)
                                /\ \A a : <<q[x].seg, a>> \in H <=> a \in RecsIn(q[x], t)
         /\ \A r \in H : \E x \in DOMAIN q : r[1] = q[x].seg /\ r[2] \in RecsIn(q[x], t) /\ r = <<q[x].seg, r[2]>>
  <1>1. s = State(p, q, t) /\ q \in Seq(Ribs) /\ q # <<>> /\ Sorted(q) /\ Fit(p, Range(q), t) /\ H = Told(Range(q), t)
    BY DEF Filed
  <1>2. p \in Places /\ IsStore(t) /\ t[p] = Vacant
    BY <1>1, FitIs
  <1>3. RIBs(s) = q /\ s.entry.form = "ilmr" /\ s.entry.place = p /\ \A z \in Places : z # p => s.store[z] = t[z]
    BY <1>1, <1>2, StateIs
  <1>4. DOMAIN q = 1 .. Len(q) /\ Len(q) \in Nat \ {0}
    BY <1>1, RibSeq, EmptySeq
  <1>5. H \subseteq ListRecs
    BY <1>1, FitIs, ToldRecs
  <1>6. ASSUME NEW x \in DOMAIN q
        PROVE  /\ q[x] \in Range(q) /\ Sound(q[x], t) /\ q[x].place # p /\ q[x] \in Ribs
               /\ RIBRecs(s, q[x]) = RecsIn(q[x], t)
               /\ \A a : <<q[x].seg, a>> \in H <=> a \in RecsIn(q[x], t)
    <2>1. q[x] \in Range(q)
      BY DEF Range
    <2>2. Sound(q[x], t) /\ q[x].place # p
      BY <1>1, <2>1, FitIs
    <2>3. q[x] \in Ribs /\ (q[x].place = 0 \/ q[x].place \in Places)
      BY <2>2, SoundIs
    <2>4. RIBRecs(s, q[x]) = RecsIn(q[x], t)
      BY <1>3, <2>2, <2>3 DEF RIBRecs, RecsIn
    <2>5. \A c \in Range(q) : c.seg = q[x].seg => c = q[x]
      BY <1>1, <2>1, FitIs
    <2>6. \A a : <<q[x].seg, a>> \in H <=> a \in RecsIn(q[x], t)
      BY <1>1, <2>1, <2>5, ToldBy
    <2> QED BY <2>1, <2>2, <2>3, <2>4, <2>6
  <1>7. ASSUME NEW r \in H
        PROVE  \E x \in DOMAIN q : r[1] = q[x].seg /\ r[2] \in RecsIn(q[x], t) /\ r = <<q[x].seg, r[2]>>
    <2>1. PICK b \in Range(q) : \E a \in RecsIn(b, t) : r = <<b.seg, a>>
      BY <1>1, ToldIs
    <2>2. PICK x \in DOMAIN q : q[x] = b
      BY DEF Range
    <2> QED BY <2>1, <2>2
  <1> QED BY <1>1, <1>2, <1>3, <1>4, <1>5, <1>6, <1>7

\* The records when a segment has those of S.
Merged(H, n, S) == {r \in H : r[1] # n} \cup {<<n, a>> : a \in S}

\* RIB b takes the place of c, and their places are changed alone.
Change(p, t, c, b, u) ==
  /\ b.seg = c.seg /\ IsStore(u) /\ u[p] = Vacant /\ Sound(b, u)
  /\ b.place # 0 => t[b.place] = Vacant \/ b.place = c.place
  /\ c.place \in Places /\ c.place # b.place => u[c.place] = Vacant
  /\ \A z \in Places : z # b.place /\ z # c.place => u[z] = t[z]

\* The RIB of a segment is another, or tells of other records.
LEMMA ChangedIs ==
  ASSUME NEW s, NEW H, NEW p, NEW q, NEW t, Filed(s, H, p, q, t),
         NEW x \in DOMAIN q, NEW b, NEW u, Change(p, t, q[x], b, u)
  PROVE  Filed(State(p, ReplaceAt(q, x, b), u), Merged(H, q[x].seg, RecsIn(b, u)),
               p, ReplaceAt(q, x, b), u)
  <1> DEFINE R == Range(q)
             n == q[x].seg
  <1> USE DEF Change
  <1>1. q \in Seq(Ribs) /\ Sorted(q) /\ Fit(p, R, t) /\ p \in Places /\ H = Told(R, t) /\ q[x] \in R /\ Sound(q[x], t)
    BY FiledIs
  <1>2. \A c \in R : c.seg # n /\ c.place # 0 => u[c.place] = t[c.place]
    <2>1. SUFFICES ASSUME NEW c \in R, c.seg # n, c.place # 0 PROVE u[c.place] = t[c.place]
      OBVIOUS
    <2>2. Sound(c, t) /\ c.place \in Places /\ t[c.place] # Vacant
      BY <1>1, <2>1, FitIs, SoundIs
    <2>3. c.place # q[x].place
      BY <1>1, <2>1, FitIs
    <2>4. c.place # b.place
      BY <2>1, <2>2, <2>3
    <2> QED BY <2>2, <2>3, <2>4
  <1>3. \A z \in Places : \/ u[z] = Vacant
                          \/ \E d \in {b} : d.place = z
                          \/ u[z] = t[z] /\ \A c \in R : c.seg = n => c.place # z
    <2>1. SUFFICES ASSUME NEW z \in Places, z # b.place, u[z] # Vacant PROVE u[z] = t[z] /\ \A c \in R : c.seg = n => c.place # z
      OBVIOUS
    <2>2. z # q[x].place
      BY <2>1
    <2>3. \A c \in R : c.seg = n => c = q[x]
      BY <1>1, FitIs
    <2> QED BY <2>1, <2>2, <2>3
  <1>4. \A d \in {b} : d.place # 0 => t[d.place] = Vacant \/ \E c \in R : c.seg = n /\ c.place = d.place
    BY <1>1
  <1>5. \A d \in {b} : d.seg = n /\ Sound(d, u)
    OBVIOUS
  <1>6. \A d, e \in {b} : d = e
    OBVIOUS
  <1> HIDE DEF n, R
  <1>11. Exchange(R, t, n, {b}, u, p)
    BY <1>2, <1>3, <1>4, <1>5, <1>6 DEF Exchange
  <1>7. Fit(p, With(R, n, {b}), u) /\ Told(With(R, n, {b}), u) = OtherThan(Told(R, t), n) \cup RecsOf(n, {b}, u)
    <2> DEFINE N == {b}
    <2> HIDE DEF N
    <2>1. Exchange(R, t, n, N, u, p)
      BY <1>11 DEF N
    <2>2. Fit(p, With(R, n, N), u) /\ Told(With(R, n, N), u) = OtherThan(Told(R, t), n) \cup RecsOf(n, N, u)
      BY <1>1, <2>1, Exchanged
    <2> QED BY <2>2 DEF N
  <1>8. b \in Ribs
    BY SoundIs
  <1>9. ReplaceAt(q, x, b) \in Seq(Ribs) /\ ReplaceAt(q, x, b) # <<>> /\ Sorted(ReplaceAt(q, x, b))
        /\ Range(ReplaceAt(q, x, b)) = With(R, n, {b})
    BY <1>1, <1>8, ReplaceIs DEF n, R, With
  <1>10. RecsOf(n, {b}, u) = {<<n, a>> : a \in RecsIn(b, u)}
    BY DEF RecsOf
  <1>12. Told(With(R, n, {b}), u) = Merged(H, n, RecsIn(b, u))
    BY <1>1, <1>7, <1>10 DEF OtherThan, Merged
  <1> QED BY <1>7, <1>9, <1>12 DEF Filed, n

\* The RIB of a segment goes.
LEMMA Dropped ==
  ASSUME NEW s, NEW H, NEW p, NEW q, NEW t, Filed(s, H, p, q, t),
         NEW x \in DOMAIN q, NEW u, IsStore(u),
         \A z \in Places : u[z] = IF z = q[x].place THEN Vacant ELSE t[z]
  PROVE  Holds(RemoveSegRIB(State(p, q, u), x), Merged(H, q[x].seg, {}))
  <1> DEFINE R == Range(q)
             n == q[x].seg
             G == Merged(H, n, {})
             Q == {c \in R : c.seg # n}
  <1>1. q \in Seq(Ribs) /\ Sorted(q) /\ Fit(p, R, t) /\ p \in Places /\ H = Told(R, t) /\ q[x] \in R /\ Sound(q[x], t)
        /\ q[x].place # p /\ t[p] = Vacant /\ Len(q) \in Nat \ {0} /\ DOMAIN q = 1 .. Len(q)
    BY FiledIs
  <1>2. \A c \in R : c.seg # n /\ c.place # 0 => u[c.place] = t[c.place]
    <2>1. SUFFICES ASSUME NEW c \in R, c.seg # n, c.place # 0 PROVE u[c.place] = t[c.place]
      OBVIOUS
    <2>2. Sound(c, t) /\ c.place \in Places
      BY <1>1, <2>1, FitIs, SoundIs
    <2>3. c.place # q[x].place
      BY <1>1, <2>1, FitIs
    <2> QED BY <2>2, <2>3
  <1>3. \A z \in Places : \/ u[z] = Vacant
                          \/ \E d \in {} : d.place = z
                          \/ u[z] = t[z] /\ \A c \in R : c.seg = n => c.place # z
    <2>1. SUFFICES ASSUME NEW z \in Places, u[z] # Vacant PROVE u[z] = t[z] /\ \A c \in R : c.seg = n => c.place # z
      OBVIOUS
    <2>2. z # q[x].place
      BY <2>1
    <2>3. \A c \in R : c.seg = n => c = q[x]
      BY <1>1, FitIs
    <2> QED BY <2>1, <2>2, <2>3
  <1>4. u[p] = Vacant
    BY <1>1
  <1> HIDE DEF n, R
  <1>5. Fit(p, With(R, n, {}), u) /\ Told(With(R, n, {}), u) = OtherThan(Told(R, t), n) \cup RecsOf(n, {}, u)
    <2>1. \A d \in {} : d.seg = n /\ Sound(d, u)
      OBVIOUS
    <2>2. \A d, e \in {} : d = e
      OBVIOUS
    <2>3. \A d \in {} : d.place # 0 => t[d.place] = Vacant \/ \E c \in R : c.seg = n /\ c.place = d.place
      OBVIOUS
    <2>4. Exchange(R, t, n, {}, u, p)
      BY <1>2, <1>3, <1>4, <2>1, <2>2, <2>3 DEF Exchange
    <2> QED BY <1>1, <2>4, Exchanged
  <1>6. Fit(p, Q, u) /\ Told(Q, u) = G
    <2>1. With(R, n, {}) = Q
      BY DEF With
    <2>2. OtherThan(Told(R, t), n) \cup RecsOf(n, {}, u) = G
      BY <1>1 DEF OtherThan, RecsOf, Merged
    <2> QED BY <1>5, <2>1, <2>2
  <1>7. RIBs(State(p, q, u)) = q /\ State(p, q, u).entry.place = p
    BY <1>1, <1>4, StateIs
  <1>8. CASE Len(q) # 1
    <2>1. RemoveAt(q, x) \in Seq(Ribs) /\ Sorted(RemoveAt(q, x)) /\ RemoveAt(q, x) # <<>> /\ Range(RemoveAt(q, x)) = Q
      BY <1>1, <1>8, RemoveIs, RemoveSorted DEF R, n
    <2>2. RemoveSegRIB(State(p, q, u), x) = State(p, RemoveAt(q, x), u)
      BY <1>1, <1>7, <1>8, SetRIBsIs DEF RemoveSegRIB
    <2>3. Filed(State(p, RemoveAt(q, x), u), G, p, RemoveAt(q, x), u)
      BY <1>6, <2>1 DEF Filed
    <2> QED BY <2>2, <2>3 DEF Holds, n
  <1>9. CASE Len(q) = 1
    <2>1. Q = {}
      <3>1. \A y \in DOMAIN q : y = x
        BY <1>1, <1>9
      <3> QED BY <3>1 DEF R, Range, n
    <2>2. G = {}
      BY <1>6, <2>1 DEF Told
    <2>3. \A z \in Places : u[z] = Vacant
      BY <1>6, <2>1, FitIs
    <2> DEFINE S == State(p, q, u)
               f == [u EXCEPT ![p] = [kind |-> "ilmr", ribs |-> q]]
    <2>4. IsStore(f) /\ IsStore([f EXCEPT ![p] = Vacant]) /\ \A z \in Places : [f EXCEPT ![p] = Vacant][z] = Vacant
      BY <1>1, <2>3, StorePut
    <2>5. IsStore(NoStore) /\ \A z \in Places : NoStore[z] = Vacant
      BY DEF NoStore, IsStore
    <2> HIDE DEF f
    <2>6. [f EXCEPT ![p] = Vacant] = NoStore
      <3>1. \A z \in Places : [f EXCEPT ![p] = Vacant][z] = NoStore[z]
        BY <2>4, <2>5
      <3> QED BY <2>4, <2>5, <3>1, SameStore
    <2>7. S = [entry |-> Listed(p), store |-> f]
      BY DEF State, f
    <2> HIDE DEF S
    <2>8. [Give(S, p) EXCEPT !.entry = INDEX_INVALID] = Empty
      <3>1. Give(S, p) = [entry |-> Listed(p), store |-> NoStore]
        BY <2>6, <2>7 DEF Give
      <3> QED BY <3>1 DEF Empty
    <2>9. RemoveSegRIB(S, x) = Empty
      BY <1>7, <1>9, <2>8 DEF RemoveSegRIB, S
    <2> QED BY <2>2, <2>9 DEF Holds, S, n
  <1> QED BY <1>8, <1>9

---------------------------------------------------------------------------
(* A record of a segment that has a RIB comes or goes.                      *)
Plus(S, T, a) == \A c : c \in S <=> c \in T \/ c = a
Less(S, T, a) == \A c : c \in S <=> c \in T /\ c # a
LEMMA OneMore ==
  ASSUME NEW s, NEW H, NEW p, NEW q, NEW t, Filed(s, H, p, q, t), NEW x \in DOMAIN q, NEW a,
         NEW S, Plus(S, RecsIn(q[x], t), a)
  PROVE  Merged(H, q[x].seg, S) = H \cup {<<q[x].seg, a>>}
  <1> DEFINE n == q[x].seg
             T == RecsIn(q[x], t)
  <1>1. \A c : <<n, c>> \in H <=> c \in T
    BY FiledIs
  <1>2. \A r \in H : r = <<r[1], r[2]>>
    <2>1. H \subseteq ListRecs
      BY FiledIs
    <2> QED BY <2>1, RecIs
  <1>3. \A c : c \in S <=> c \in T \/ c = a
    BY DEF Plus
  <1> HIDE DEF n, T
  <1>4. ASSUME NEW r PROVE r \in Merged(H, n, S) <=> r \in H \cup {<<n, a>>}
    BY <1>1, <1>2, <1>3 DEF Merged
  <1>5. Merged(H, n, S) = H \cup {<<n, a>>}
    BY <1>4
  <1> QED BY <1>5 DEF n

LEMMA OneLess ==
  ASSUME NEW s, NEW H, NEW p, NEW q, NEW t, Filed(s, H, p, q, t), NEW x \in DOMAIN q, NEW a,
         NEW S, Less(S, RecsIn(q[x], t), a)
  PROVE  Merged(H, q[x].seg, S) = H \ {<<q[x].seg, a>>}
  <1> DEFINE n == q[x].seg
             T == RecsIn(q[x], t)
  <1>1. \A c : <<n, c>> \in H <=> c \in T
    BY FiledIs
  <1>2. \A r \in H : r = <<r[1], r[2]>>
    <2>1. H \subseteq ListRecs
      BY FiledIs
    <2> QED BY <2>1, RecIs
  <1>3. \A c : c \in S <=> c \in T /\ c # a
    BY DEF Less
  <1> HIDE DEF n, T
  <1>4. ASSUME NEW r PROVE r \in Merged(H, n, S) <=> r \in H \ {<<n, a>>}
    BY <1>1, <1>2, <1>3 DEF Merged
  <1>5. Merged(H, n, S) = H \ {<<n, a>>}
    BY <1>4
  <1> QED BY <1>5 DEF n

LEMMA ReplaceSame ==
  ASSUME NEW q \in Seq(Ribs), NEW x \in DOMAIN q
  PROVE  ReplaceAt(q, x, q[x]) = q
  BY DEF ReplaceAt

\* What is added, or for want of room is not.
Added(o, s, G) ==
  \/ o.end = "ok" /\ Holds(o.s, G)
  \/ o.end = "benign" /\ o.s = s
  \/ o.end = "broken"

LEMMA DoneIs == \A s, ret : Done(s, ret).s = s /\ Done(s, ret).end = "ok"
  BY DEF Done
LEMMA FullIs == \A s, benign : Full(s, benign).s = s /\ Full(s, benign).end = IF benign THEN "benign" ELSE "broken"
  BY DEF Full

\* A RIB that tells of one record more.
LEMMA Grown ==
  ASSUME NEW s, NEW H, NEW p, NEW q, NEW t, Filed(s, H, p, q, t),
         NEW x \in DOMAIN q, NEW b, NEW u, Change(p, t, q[x], b, u),
         NEW a, Plus(RecsIn(b, u), RecsIn(q[x], t), a)
  PROVE  Holds(State(p, ReplaceAt(q, x, b), u), H \cup {<<q[x].seg, a>>})
  <1> DEFINE n == q[x].seg
             S == RecsIn(b, u)
  <1>1. Merged(H, n, S) = H \cup {<<n, a>>}
    BY OneMore
  <1>2. Filed(State(p, ReplaceAt(q, x, b), u), Merged(H, n, S), p, ReplaceAt(q, x, b), u)
    BY ChangedIs
  <1>3. Filed(State(p, ReplaceAt(q, x, b), u), H \cup {<<n, a>>}, p, ReplaceAt(q, x, b), u)
    BY <1>1, <1>2
  <1> QED BY <1>3 DEF Holds

\* A RIB that tells of one record less.
LEMMA Lessened ==
  ASSUME NEW s, NEW H, NEW p, NEW q, NEW t, Filed(s, H, p, q, t),
         NEW x \in DOMAIN q, NEW b, NEW u, Change(p, t, q[x], b, u),
         NEW a, Less(RecsIn(b, u), RecsIn(q[x], t), a)
  PROVE  Holds(State(p, ReplaceAt(q, x, b), u), H \ {<<q[x].seg, a>>})
  <1> DEFINE n == q[x].seg
             S == RecsIn(b, u)
  <1>1. Merged(H, n, S) = H \ {<<n, a>>}
    BY OneLess
  <1>2. Filed(State(p, ReplaceAt(q, x, b), u), Merged(H, n, S), p, ReplaceAt(q, x, b), u)
    BY ChangedIs
  <1>3. Filed(State(p, ReplaceAt(q, x, b), u), H \ {<<n, a>>}, p, ReplaceAt(q, x, b), u)
    BY <1>1, <1>2
  <1> QED BY <1>3 DEF Holds

LEMMA Emptied ==
  ASSUME NEW s, NEW H, NEW p, NEW q, NEW t, Filed(s, H, p, q, t),
         NEW x \in DOMAIN q, NEW u, IsStore(u),
         \A z \in Places : u[z] = IF z = q[x].place THEN Vacant ELSE t[z],
         NEW a, \A c \in RecsIn(q[x], t) : c = a
  PROVE  Holds(RemoveSegRIB(State(p, q, u), x), H \ {<<q[x].seg, a>>})
  <1> DEFINE n == q[x].seg
  <1>1. Merged(H, n, {}) = H \ {<<n, a>>}
    <2> DEFINE S == {}
    <2>1. Less(S, RecsIn(q[x], t), a)
      BY DEF Less
    <2> HIDE DEF S
    <2>2. Merged(H, n, S) = H \ {<<n, a>>}
      BY <2>1, OneLess
    <2> QED BY <2>2 DEF S
  <1>2. Holds(RemoveSegRIB(State(p, q, u), x), Merged(H, n, {}))
    BY Dropped
  <1> QED BY <1>1, <1>2

LEMMA MoreOf ==
  ASSUME NEW n, NEW recs, OfSegment(n, recs), NEW a, <<n, a>> \in ListRecs, a \notin recs
  PROVE  /\ OfSegment(n, recs \cup {a}) /\ Cardinality(recs \cup {a}) = Cardinality(recs) + 1
         /\ Cardinality(recs) \in Nat /\ IsFiniteSet(recs) /\ Plus(recs \cup {a}, recs, a)
  <1>1. IsFiniteSet(recs) /\ Cardinality(recs) \in Nat
    BY OfSegmentIs
  <1>2. Cardinality(recs \cup {a}) = Cardinality(recs) + 1
    BY <1>1, FS_AddElement
  <1> QED BY <1>1, <1>2 DEF OfSegment, Plus

LEMMA SoundOf ==
  ASSUME NEW b, NEW t, Sound(b, t)
  PROVE  /\ OfSegment(b.seg, RecsIn(b, t))
         /\ b.kind = "one" \/ b.kind = "two" => b.place = 0 /\ b.recs = RecsIn(b, t)
         /\ b.kind = "one" => Cardinality(RecsIn(b, t)) = 1
         /\ b.kind = "two" => Cardinality(RecsIn(b, t)) = 2
         /\ b.kind = "array" => b.place \in Places /\ t[b.place] = ArrayOf(RecsIn(b, t)) /\ Cardinality(RecsIn(b, t)) <= DLIST_MAXRECS
         /\ b.kind = "bitmap" => b.place \in Places /\ t[b.place] = BitMapOf(RecsIn(b, t), Cardinality(RecsIn(b, t)))
         /\ b.kind = "one" \/ b.kind = "two" \/ b.kind = "array" \/ b.kind = "bitmap"
  <1>1. OfSegment(b.seg, RecsIn(b, t))
    BY DEF Sound, OfSegment
  <1>2. b.place \in Places => RecsIn(b, t) = t[b.place].recs
    BY ListAssumption DEF RecsIn
  <1>3. b.place = 0 => RecsIn(b, t) = b.recs
    BY DEF RecsIn
  <1>4. InForm(b, t)
    BY DEF Sound
  <1> QED BY <1>1, <1>2, <1>3, <1>4 DEF InForm

\* The same RIB, of an array or a bitmap that has changed.
LEMMA SameRib ==
  ASSUME NEW b, NEW t, Sound(b, t), NEW recs, NEW u, b.place \in Places,
         \/ b.kind = "array" /\ u[b.place] = ArrayOf(recs) /\ Cardinality(recs) <= DLIST_MAXRECS
         \/ b.kind = "bitmap" /\ u[b.place] = BitMapOf(recs, Cardinality(recs)),
         OfSegment(b.seg, recs)
  PROVE  Sound(b, u) /\ RecsIn(b, u) = recs
  <1>1. b.place # 0
    BY ListAssumption
  <1>2. u[b.place].recs = recs
    BY DEF ArrayOf, BitMapOf
  <1>3. RecsIn(b, u) = recs
    BY <1>1, <1>2 DEF RecsIn
  <1>4. InForm(b, u)
    BY <1>2 DEF InForm
  <1> QED BY <1>3, <1>4 DEF Sound, OfSegment

LEMMA AddedOk ==
  ASSUME NEW o, NEW s, NEW G, NEW v, NEW ret, o = Done(v, ret), Holds(v, G)
  PROVE  Added(o, s, G)
  BY DEF Added, Done

LEMMA AddedNot ==
  ASSUME NEW o, NEW s, NEW G, NEW benign, o = Full(s, benign)
  PROVE  Added(o, s, G)
  BY DEF Added, Full

\* The same by name.
Put(s, z, v) == [s EXCEPT !.store[z] = v]
Keep(t, z, v) == [t EXCEPT ![z] = v]
PutRecords(s, z, recs) == [s EXCEPT !.store[z].recs = recs]
PutCount(s, z, k) == [s EXCEPT !.store[z].count = k]
LEMMA Kept ==
  ASSUME NEW t, IsStore(t), NEW z \in Places, NEW v
  PROVE  IsStore(Keep(t, z, v)) /\ Keep(t, z, v)[z] = v /\ \A y \in Places : y # z => Keep(t, z, v)[y] = t[y]
  BY StorePut DEF Keep

LEMMA PutKeeps ==
  ASSUME NEW p \in Places, NEW q, NEW t, IsStore(t), NEW z \in Places, z # p, NEW v
  PROVE  Put(State(p, q, t), z, v) = State(p, q, Keep(t, z, v))
  BY PutIs DEF Put, Keep

LEMMA GiveKeeps ==
  ASSUME NEW p \in Places, NEW q, NEW t, IsStore(t), NEW z \in Places, z # p
  PROVE  Give(State(p, q, t), z) = State(p, q, Keep(t, z, Vacant))
  BY GiveIs DEF Keep

LEMMA ArrayKeeps ==
  ASSUME NEW p \in Places, NEW q, NEW t, IsStore(t), NEW y \in Places, y # p, NEW recs, NEW r2, t[y] = ArrayOf(recs)
  PROVE  PutRecords(State(p, q, t), y, r2) = State(p, q, Keep(t, y, ArrayOf(r2)))
  <1> DEFINE s == State(p, q, t)
             f == [t EXCEPT ![p] = [kind |-> "ilmr", ribs |-> q]]
             v == ArrayOf(r2)
  <1>1. f[y] = t[y]
    BY StorePut
  <1>2. s = [entry |-> Listed(p), store |-> f]
    BY DEF State
  <1>3. v = [t[y] EXCEPT !.recs = r2]
    BY DEF ArrayOf
  <1> HIDE DEF f
  <1>4. PutRecords(s, y, r2) = Put(s, y, v)
    BY <1>1, <1>2, <1>3 DEF Put, PutRecords
  <1> HIDE DEF v
  <1>5. Put(s, y, v) = State(p, q, Keep(t, y, v))
    BY PutKeeps
  <1> QED BY <1>4, <1>5 DEF v

LEMMA BitMapKeeps ==
  ASSUME NEW p \in Places, NEW q, NEW t, IsStore(t), NEW y \in Places, y # p, NEW recs, NEW k, t[y] = BitMapOf(recs, k), NEW r2, NEW j
  PROVE  /\ PutRecords(State(p, q, t), y, r2) = State(p, q, Keep(t, y, BitMapOf(r2, k)))
         /\ PutCount(State(p, q, t), y, j) = State(p, q, Keep(t, y, BitMapOf(recs, j)))
  <1> DEFINE s == State(p, q, t)
             f == [t EXCEPT ![p] = [kind |-> "ilmr", ribs |-> q]]
             v == BitMapOf(r2, k)
             w == BitMapOf(recs, j)
  <1>1. f[y] = t[y]
    BY StorePut
  <1>2. s = [entry |-> Listed(p), store |-> f]
    BY DEF State
  <1>3. v = [t[y] EXCEPT !.recs = r2] /\ w = [t[y] EXCEPT !.count = j]
    BY DEF BitMapOf
  <1> HIDE DEF f
  <1>4. PutRecords(s, y, r2) = Put(s, y, v)
    BY <1>1, <1>2, <1>3 DEF Put, PutRecords
  <1>5. PutCount(s, y, j) = Put(s, y, w)
    BY <1>1, <1>2, <1>3 DEF Put, PutCount
  <1> HIDE DEF v, w
  <1>6. Put(s, y, v) = State(p, q, Keep(t, y, v))
    BY PutKeeps
  <1>7. Put(s, y, w) = State(p, q, Keep(t, y, w))
    BY PutKeeps
  <1> QED BY <1>4, <1>5, <1>6, <1>7 DEF v, w

LEMMA AddToSegmentIs ==
  ASSUME NEW s, NEW H, NEW p, NEW q, NEW t, Filed(s, H, p, q, t), NEW x \in DOMAIN q, NEW room,
         NEW a, <<q[x].seg, a>> \in ListRecs, a \notin RecsIn(q[x], t)
  PROVE  Added(AddToSegment(s, x, q[x], a, room), s, H \cup {<<q[x].seg, a>>})
  <1> DEFINE c == q[x]
             n == q[x].seg
             recs == RecsIn(q[x], t)
             G == H \cup {<<n, a>>}
             y == c.place
             z == NewPlace(s)
             o == AddToSegment(s, x, c, a, room)
  <1>1. /\ s = State(p, q, t) /\ RIBs(s) = q /\ q \in Seq(Ribs) /\ p \in Places /\ IsStore(t) /\ t[p] = Vacant
        /\ Sound(c, t) /\ c.place # p /\ RIBRecs(s, c) = recs
    BY FiledIs
  <1>2. /\ OfSegment(n, recs \cup {a}) /\ Cardinality(recs \cup {a}) = Cardinality(recs) + 1
        /\ Cardinality(recs) \in Nat /\ IsFiniteSet(recs) /\ Plus(recs \cup {a}, recs, a)
    <2>1. OfSegment(n, recs)
      BY <1>1, SoundOf
    <2> QED BY <2>1, MoreOf
  <1>3. HasPlace(s) => z \in Places /\ z # p /\ t[z] = Vacant
    BY <1>1, PlaceIs
  <1>4. y \in Places => t[y] # Vacant /\ y # 0
    BY <1>1, SoundIs
  <1> DEFINE more == recs \cup {a}
  <1>5. OfSegment(n, more) /\ Cardinality(more) = Cardinality(recs) + 1 /\ Plus(more, recs, a)
    BY <1>2
  <1> HIDE DEF more, o, G
  \* What is to be shown of a RIB and a store.
  <1>6. ASSUME NEW b, NEW u, Change(p, t, c, b, u), RecsIn(b, u) = more
        PROVE  Holds(State(p, ReplaceAt(q, x, b), u), G)
    <2>1. Plus(RecsIn(b, u), RecsIn(q[x], t), a)
      BY <1>5, <1>6
    <2> QED BY <1>6, <2>1, Grown DEF G
  <1>7. CASE c.kind = "one"
    <2> DEFINE b == Two(n, more)
    <2>1. c.recs = recs /\ y = 0 /\ Cardinality(recs) = 1
      BY <1>1, <1>7, SoundOf
    <2>2. Sound(b, t) /\ RecsIn(b, t) = more /\ b.seg = n /\ b.place = 0
      BY <1>2, <1>5, <2>1, TwoIs
    <2> HIDE DEF b
    <2>3. Change(p, t, c, b, t)
      BY <1>1, <2>1, <2>2, ListAssumption DEF Change
    <2>4. Holds(State(p, ReplaceAt(q, x, b), t), G)
      BY <1>6, <2>2, <2>3
    <2>5. o = Done(SetRIBs(s, ReplaceAt(q, x, b)), TRUE)
      BY <1>1, <1>7, <2>1 DEF AddToSegment, b, more, o
    <2>6. SetRIBs(s, ReplaceAt(q, x, b)) = State(p, ReplaceAt(q, x, b), t)
      BY <1>1, SetRIBsIs
    <2>7. o = Done(State(p, ReplaceAt(q, x, b), t), TRUE)
      BY <2>5, <2>6
    <2>8. Added(o, s, G)
      BY <2>4, <2>7, AddedOk
    <2> QED BY <2>8 DEF o, G
  <1>8. CASE c.kind = "two"
    <2>1. c.recs = recs /\ y = 0 /\ Cardinality(recs) = 2
      BY <1>1, <1>8, SoundOf
    <2>2. CASE ~HasPlace(s)
      <3>1. o = Full(s, TRUE)
        BY <1>8, <2>2 DEF AddToSegment, o
      <3>2. Added(o, s, G)
        BY <3>1, AddedNot
      <3> QED BY <3>2 DEF o, G
    <2>3. CASE HasPlace(s)
      <3> DEFINE b == Elsewhere(n, "array", z)
                 val == ArrayOf(more)
                 u == Keep(t, z, val)
      <3> HIDE DEF val
      <3>1. z \in Places /\ z # p /\ t[z] = Vacant
        BY <1>3, <2>3
      <3>2. o = Done(SetRIBs(Put(s, z, val), ReplaceAt(q, x, b)), TRUE)
        BY <1>1, <1>8, <2>1, <2>3 DEF AddToSegment, more, val, o, b, Put
      <3>3. Put(s, z, val) = State(p, q, u) /\ IsStore(u) /\ u[z] = val
            /\ \A k \in Places : k # z => u[k] = t[k]
        BY <1>1, <3>1, PutKeeps, Kept
      <3> HIDE DEF u
      <3>4. Cardinality(more) <= DLIST_MAXRECS
        BY <1>5, <2>1, ListAssumption
      <3>5. Sound(b, u) /\ RecsIn(b, u) = more /\ b.seg = n /\ b.place = z
        BY <1>5, <3>1, <3>3, <3>4, ElsewhereIs DEF val
      <3> HIDE DEF b
      <3>6. Change(p, t, c, b, u)
        BY <1>1, <2>1, <3>1, <3>3, <3>5, ListAssumption DEF Change
      <3>7. Holds(State(p, ReplaceAt(q, x, b), u), G)
        BY <1>6, <3>5, <3>6
      <3>8. SetRIBs(State(p, q, u), ReplaceAt(q, x, b)) = State(p, ReplaceAt(q, x, b), u)
        BY <1>1, <3>3, SetRIBsIs
      <3>9. o = Done(State(p, ReplaceAt(q, x, b), u), TRUE)
        BY <3>2, <3>3, <3>8
      <3>10. Added(o, s, G)
        BY <3>7, <3>9, AddedOk
      <3> QED BY <3>10 DEF o, G
    <2> QED BY <2>2, <2>3
  <1>9. CASE c.kind = "array"
    <2> DEFINE promoted == Cardinality(recs) = DLIST_MAXRECS
               new == IF promoted THEN BitMapOf(more, Cardinality(recs) + 1) ELSE ArrayOf(more)
               kind == IF promoted THEN "bitmap" ELSE "array"
               b == Elsewhere(n, kind, z)
    <2>1. y \in Places /\ t[y] = ArrayOf(recs) /\ Cardinality(recs) <= DLIST_MAXRECS
      BY <1>1, <1>9, SoundOf
    <2>2. s.store[y] = t[y] /\ t[y].recs = recs
      BY <1>1, <2>1, StateIs DEF ArrayOf
    <2>3. o = AddToList(s, x, c, a, room)
      BY <1>9 DEF AddToSegment, o
    <2>4. AddToList(s, x, c, a, room) =
            IF room /\ ~promoted THEN Done(PutRecords(s, y, more), TRUE)
            ELSE IF ~HasPlace(s) THEN Full(s, TRUE)
            ELSE Done(SetRIBs(Put(Give(s, y), z, new), ReplaceAt(RIBs(s), x, b)), TRUE)
      BY <2>2 DEF AddToList, more, Put, PutRecords
    <2>5. CASE room /\ ~promoted
      <3> DEFINE val == ArrayOf(more)
                 u == Keep(t, y, val)
      <3>1. PutRecords(s, y, more) = State(p, q, u)
        BY <1>1, <2>1, ArrayKeeps
      <3> HIDE DEF val
      <3>2. IsStore(u) /\ u[y] = val /\ \A k \in Places : k # y => u[k] = t[k]
        BY <1>1, <2>1, Kept
      <3> HIDE DEF u
      <3>3. Cardinality(more) <= DLIST_MAXRECS
        BY <1>2, <1>5, <2>1, <2>5, ListAssumption
      <3>4. Sound(c, u) /\ RecsIn(c, u) = more
        BY <1>1, <1>5, <1>9, <2>1, <3>2, <3>3, SameRib DEF val
      <3>5. Change(p, t, c, c, u)
        BY <1>1, <3>2, <3>4 DEF Change
      <3>6. Holds(State(p, ReplaceAt(q, x, c), u), G)
        BY <1>6, <3>4, <3>5
      <3>7. ReplaceAt(q, x, c) = q
        BY <1>1, ReplaceSame
      <3>8. o = Done(State(p, q, u), TRUE)
        BY <2>3, <2>4, <2>5, <3>1
      <3>9. Holds(State(p, q, u), G)
        BY <3>6, <3>7
      <3>10. Added(o, s, G)
        BY <3>8, <3>9, AddedOk
      <3> QED BY <3>10 DEF o, G
    <2>6. CASE ~(room /\ ~promoted) /\ ~HasPlace(s)
      <3>1. o = Full(s, TRUE)
        BY <2>3, <2>4, <2>6
      <3>2. Added(o, s, G)
        BY <3>1, AddedNot
      <3> QED BY <3>2 DEF o, G
    <2>7. CASE ~(room /\ ~promoted) /\ HasPlace(s)
      <3> DEFINE v == Keep(t, y, Vacant)
                 u == Keep(v, z, new)
      <3>1. z \in Places /\ z # p /\ t[z] = Vacant /\ z # y
        BY <1>3, <1>4, <2>1, <2>7
      <3>2. Give(s, y) = State(p, q, v) /\ IsStore(v) /\ v[y] = Vacant /\ \A k \in Places : k # y => v[k] = t[k]
        BY <1>1, <2>1, GiveKeeps, Kept
      <3> HIDE DEF v, new
      <3>12. t[p] = Vacant /\ v[p] = Vacant
        BY <1>1, <2>1, <3>2
      <3>3. Put(State(p, q, v), z, new) = State(p, q, u) /\ IsStore(u) /\ u[z] = new
            /\ \A k \in Places : k # z => u[k] = v[k]
        BY <1>1, <3>1, <3>2, PutKeeps, Kept
      <3> HIDE DEF u
      <3>4. /\ kind \in {"array", "bitmap"}
            /\ \/ kind = "array" /\ u[z] = ArrayOf(more) /\ Cardinality(more) <= DLIST_MAXRECS
               \/ kind = "bitmap" /\ u[z] = BitMapOf(more, Cardinality(more))
        BY <1>2, <1>5, <2>1, <3>3, ListAssumption DEF new
      <3> HIDE DEF kind
      <3>5. Sound(b, u) /\ RecsIn(b, u) = more /\ b.seg = n /\ b.place = z
        BY <1>5, <3>1, <3>4, ElsewhereIs
      <3> HIDE DEF b
      <3>6. Change(p, t, c, b, u)
        BY <1>1, <2>1, <3>1, <3>2, <3>3, <3>5 DEF Change
      <3>7. Holds(State(p, ReplaceAt(q, x, b), u), G)
        BY <1>6, <3>5, <3>6
      <3>8. SetRIBs(State(p, q, u), ReplaceAt(q, x, b)) = State(p, ReplaceAt(q, x, b), u)
        BY <1>1, <3>3, SetRIBsIs
      <3>9. o = Done(SetRIBs(Put(Give(s, y), z, new), ReplaceAt(q, x, b)), TRUE)
        BY <1>1, <2>3, <2>4, <2>7
      <3>10. o = Done(State(p, ReplaceAt(q, x, b), u), TRUE)
        BY <3>2, <3>3, <3>8, <3>9
      <3>11. Added(o, s, G)
        BY <3>7, <3>10, AddedOk
      <3> QED BY <3>11 DEF o, G
    <2> QED BY <2>5, <2>6, <2>7
  <1>10. CASE c.kind = "bitmap"
    <2> DEFINE k == Cardinality(recs)
               k1 == k + 1
               val == BitMapOf(more, k)
               val1 == BitMapOf(more, k1)
               v == Keep(t, y, val)
               u == Keep(v, y, val1)
    <2>1. y \in Places /\ t[y] = BitMapOf(recs, k)
      BY <1>1, <1>10, SoundOf
    <2>2. s.store[y] = t[y] /\ t[y].recs = recs /\ t[y].count = k
      BY <1>1, <2>1, StateIs DEF BitMapOf
    <2>3. o = Done(PutCount(PutRecords(s, y, more), y, k1), TRUE)
      <3>1. o = Done([s EXCEPT !.store[y].recs = @ \cup {a}, !.store[y].count = @ + 1], TRUE)
        BY <1>10 DEF AddToSegment, o
      <3>2. [s EXCEPT !.store[y].recs = @ \cup {a}, !.store[y].count = @ + 1]
              = PutCount(PutRecords(s, y, more), y, k1)
        BY <2>2 DEF more, PutCount, PutRecords
      <3> QED BY <3>1, <3>2
    <2>4. PutRecords(s, y, more) = State(p, q, v)
      BY <1>1, <2>1, BitMapKeeps
    <2> HIDE DEF val, val1, k1
    <2>5. IsStore(v) /\ v[y] = val /\ \A j \in Places : j # y => v[j] = t[j]
      BY <1>1, <2>1, Kept
    <2> HIDE DEF v
    <2>6. PutCount(State(p, q, v), y, k1) = State(p, q, u)
      BY <1>1, <2>1, <2>5, BitMapKeeps DEF val, val1
    <2>7. IsStore(u) /\ u[y] = val1 /\ \A j \in Places : j # y => u[j] = v[j]
      BY <2>1, <2>5, Kept
    <2> HIDE DEF u
    <2>8. Sound(c, u) /\ RecsIn(c, u) = more
      BY <1>1, <1>5, <1>10, <2>1, <2>7, SameRib DEF val1, k1
    <2>9. Change(p, t, c, c, u)
      BY <1>1, <2>5, <2>7, <2>8 DEF Change
    <2>10. Holds(State(p, ReplaceAt(q, x, c), u), G)
      BY <1>6, <2>8, <2>9
    <2>11. ReplaceAt(q, x, c) = q
      BY <1>1, ReplaceSame
    <2>12. o = Done(State(p, q, u), TRUE)
      BY <2>3, <2>4, <2>6
    <2>13. Holds(State(p, q, u), G)
      BY <2>10, <2>11
    <2>14. Added(o, s, G)
      BY <2>12, <2>13, AddedOk
    <2> QED BY <2>14 DEF o, G
  <1> QED BY <1>1, <1>7, <1>8, <1>9, <1>10, SoundOf

---------------------------------------------------------------------------
(* A RIB comes onto the ILMR's page, or the ILMR moves for it.               *)
LEMMA InsertedIs ==
  ASSUME NEW p \in Places, NEW q, NEW t, IsStore(t), t[p] = Vacant, NEW x, NEW b, NEW room, NEW benign
  PROVE  LET o == InsertSegRIB(State(p, q, t), x, b, room, benign) IN
         \/ o.end = "ok" /\ \E z \in Places : t[z] = Vacant /\ o.s = State(z, InsertAt(q, x, b), t)
         \/ o.end = (IF benign THEN "benign" ELSE "broken") /\ o.s = State(p, q, t)
  <1> DEFINE s == State(p, q, t)
             z == NewPlace(s)
             q2 == InsertAt(q, x, b)
             moved == Moved(s, z)
             o == InsertSegRIB(s, x, b, room, benign)
  <1>1. RIBs(s) = q
    BY StateIs
  <1>2. o = IF room THEN Done(SetRIBs(s, q2), TRUE) ELSE IF ~HasPlace(s) THEN Full(s, benign) ELSE Done(SetRIBs(moved, q2), TRUE)
    BY <1>1 DEF InsertSegRIB, Moved
  <1>3. SetRIBs(s, q2) = State(p, q2, t)
    <2> HIDE DEF q2
    <2> QED BY SetRIBsIs
  <1>4. HasPlace(s) => z \in Places /\ z # p /\ t[z] = Vacant
    BY PlaceIs
  <1>5. HasPlace(s) => SetRIBs(moved, q2) = State(z, q2, t)
    <2>1. SUFFICES ASSUME HasPlace(s) PROVE SetRIBs(moved, q2) = State(z, q2, t)
      OBVIOUS
    <2>2. z \in Places /\ z # p /\ t[z] = Vacant
      BY <1>4, <2>1
    <2> HIDE DEF q2, z
    <2> QED BY <2>2, MoveIs
  <1> HIDE DEF o, moved, s, q2, z
  <1>6. CASE room
    <2>1. o = Done(State(p, q2, t), TRUE)
      BY <1>2, <1>3, <1>6
    <2>2. o.end = "ok" /\ o.s = State(p, q2, t)
      BY <2>1, DoneIs
    <2> QED BY <2>2 DEF o, q2, s
  <1>7. CASE ~room /\ ~HasPlace(s)
    <2>1. o = Full(s, benign)
      BY <1>2, <1>7
    <2>2. o.end = (IF benign THEN "benign" ELSE "broken") /\ o.s = s
      BY <2>1, FullIs
    <2> QED BY <2>2 DEF o, s
  <1>8. CASE ~room /\ HasPlace(s)
    <2>1. o = Done(State(z, q2, t), TRUE)
      BY <1>2, <1>5, <1>8
    <2>2. o.end = "ok" /\ o.s = State(z, q2, t) /\ z \in Places /\ t[z] = Vacant
      BY <1>4, <1>8, <2>1, DoneIs
    <2> QED BY <2>2 DEF o, q2, s
  <1> QED BY <1>6, <1>7, <1>8

\* How an operation ends: the list holds what it is to, or, when it had no effect, what it did.
Outcome(o, H, G) ==
  \/ o.end = "ok" /\ Holds(o.s, G)
  \/ o.end = "benign" /\ Holds(o.s, H)
  \/ o.end = "broken"

LEMMA OutcomeOk ==
  ASSUME NEW o, NEW H, NEW G, NEW v, NEW ret, o = Done(v, ret), Holds(v, G)
  PROVE  Outcome(o, H, G)
  BY DEF Outcome, Done

LEMMA OutcomeNot ==
  ASSUME NEW o, NEW H, NEW G, NEW v, NEW benign, o = Full(v, benign), Holds(v, H)
  PROVE  Outcome(o, H, G)
  BY DEF Outcome, Full

LEMMA AddedOutcome ==
  ASSUME NEW o, NEW s, NEW H, NEW G, Added(o, s, G), Holds(s, H)
  PROVE  Outcome(o, H, G)
  BY DEF Outcome, Added

\* The same by name.
Joining(R, b) == R \cup {b}
LEMMA InsertJoins ==
  ASSUME NEW q \in Seq(Ribs), NEW x \in 1 .. Len(q) + 1, NEW b \in Ribs
  PROVE  Range(InsertAt(q, x, b)) = Joining(Range(q), b)
  BY InsertRange DEF Joining

LEMMA JoiningFits ==
  ASSUME NEW p, NEW R, NEW t, Fit(p, R, t), NEW b, NEW u, NEW o \in Places,
         IsStore(u), u[o] = Vacant, Sound(b, u), \A c \in R : c.seg # b.seg,
         b.place # 0 => t[b.place] = Vacant,
         \A z \in Places : z # b.place => u[z] = t[z]
  PROVE  Fit(o, Joining(R, b), u) /\ Told(Joining(R, b), u) = Told(R, t) \cup {<<b.seg, a>> : a \in RecsIn(b, u)}
  BY Joined DEF Joining

\* Where a segment's RIB is not, it can go.
LEMMA GoesThere ==
  ASSUME NEW s, NEW q \in Seq(Ribs), RIBs(s) = q, Sorted(q), NEW n \in Nat
  PROVE  LET x == FirstFrom(s, n) IN
         /\ x \in 1 .. Len(q) + 1
         /\ \A i \in 1 .. Len(q) : i < x => q[i].seg < n
         /\ \A i \in 1 .. Len(q) : i >= x /\ ~(x <= Len(q) /\ q[x].seg = n) => q[i].seg > n
         /\ x > Len(q) \/ q[x].seg > n => \A i \in DOMAIN q : q[i].seg # n
         /\ x <= Len(q) => x \in DOMAIN q /\ q[x].seg >= n
  <1> DEFINE x == FirstFrom(s, n)
  <1>1. x \in 1 .. Len(q) + 1 /\ (x <= Len(q) => q[x].seg >= n) /\ \A i \in 1 .. Len(q) : i < x => q[i].seg < n
    BY FirstFromIs
  <1>2. DOMAIN q = 1 .. Len(q) /\ Len(q) \in Nat /\ \A i \in 1 .. Len(q) : q[i].seg \in Nat
    BY RibSeq
  <1> HIDE DEF x
  <1>3. ASSUME NEW i \in 1 .. Len(q), i >= x PROVE x <= Len(q) /\ q[i].seg >= q[x].seg /\ x \in 1 .. Len(q)
    <2>1. x \in 1 .. Len(q)
      BY <1>1, <1>2, <1>3
    <2>2. CASE i = x
      BY <1>2, <2>1, <2>2
    <2>3. CASE i > x
      <3>1. q[x].seg < q[i].seg
        BY <1>2, <2>1, <2>3 DEF Sorted
      <3> QED BY <1>2, <2>1, <3>1
    <2> QED BY <1>2, <1>3, <2>1, <2>2, <2>3
  <1>4. ASSUME NEW i \in 1 .. Len(q), i >= x, ~(x <= Len(q) /\ q[x].seg = n) PROVE q[i].seg > n
    <2>1. x <= Len(q) /\ q[i].seg >= q[x].seg /\ x \in 1 .. Len(q)
      BY <1>3, <1>4
    <2>2. q[x].seg >= n /\ q[x].seg # n /\ q[x].seg \in Nat /\ q[i].seg \in Nat
      BY <1>1, <1>2, <1>4, <2>1
    <2> QED BY <2>1, <2>2
  <1>5. ASSUME x > Len(q) \/ q[x].seg > n, NEW i \in 1 .. Len(q) PROVE q[i].seg # n
    <2>1. CASE i < x
      BY <1>1, <1>2, <2>1
    <2>2. CASE i >= x
      <3>1. x <= Len(q) /\ x \in 1 .. Len(q)
        BY <1>3, <2>2
      <3>2. q[x].seg > n
        BY <1>2, <1>5, <3>1
      <3>3. q[i].seg > n
        BY <1>2, <1>4, <2>2, <3>1, <3>2
      <3> QED BY <1>2, <3>3
    <2> QED BY <1>1, <1>2, <2>1, <2>2
  <1>6. x <= Len(q) => x \in DOMAIN q /\ q[x].seg >= n
    BY <1>1, <1>2
  <1> QED BY <1>1, <1>2, <1>4, <1>5, <1>6 DEF x

LEMMA InsertFiled ==
  ASSUME NEW s, NEW H, NEW p, NEW q, NEW t, Filed(s, H, p, q, t), NEW r \in ListRecs, NEW room, NEW benign,
         LET x == FirstFrom(s, r[1]) IN ~(x <= Len(q) /\ q[x].seg = r[1])
  PROVE  Outcome(InsertSegRIB(s, FirstFrom(s, r[1]), One(r[1], r[2]), room, benign), H, H \cup {r})
  <1> DEFINE n == r[1]
             x == FirstFrom(s, n)
             b == One(n, r[2])
             q2 == InsertAt(q, x, b)
             o == InsertSegRIB(s, x, b, room, benign)
             R == Range(q)
             G == H \cup {r}
  <1>1. /\ s = State(p, q, t) /\ RIBs(s) = q /\ q \in Seq(Ribs) /\ Sorted(q) /\ DOMAIN q = 1 .. Len(q) /\ Len(q) \in Nat
        /\ Fit(p, R, t) /\ p \in Places /\ IsStore(t) /\ t[p] = Vacant /\ H = Told(R, t)
    BY FiledIs
  <1>2. n \in Nat /\ r = <<n, r[2]>>
    BY RecIs
  <1>3. Sound(b, t) /\ RecsIn(b, t) = {r[2]} /\ b.seg = n /\ b.place = 0 /\ b \in Ribs
    <2>1. <<n, r[2]>> \in ListRecs
      BY <1>2
    <2> QED BY <2>1, OneIs, SoundIs
  <1>4. /\ x \in 1 .. Len(q) + 1
        /\ \A i \in 1 .. Len(q) : i < x => q[i].seg < n
        /\ \A i \in 1 .. Len(q) : i >= x => q[i].seg > n
    BY <1>1, <1>2, GoesThere
  <1> HIDE DEF b, n, x
  <1>5. q2 \in Seq(Ribs) /\ Len(q2) = Len(q) + 1 /\ Range(q2) = Joining(R, b) /\ Sorted(q2)
    <2>1. q2 \in Seq(Ribs) /\ Len(q2) = Len(q) + 1
      BY <1>1, <1>3, <1>4, InsertIs
    <2>2. Range(q2) = Joining(R, b)
      BY <1>1, <1>3, <1>4, InsertJoins
    <2>3. Sorted(q2)
      BY <1>1, <1>3, <1>4, InsertSorted
    <2> QED BY <2>1, <2>2, <2>3
  <1>6. q2 # <<>>
    BY <1>1, <1>5, EmptySeq
  <1> HIDE DEF q2
  <1>7. \A c \in R : c.seg # b.seg
    <2>1. \A i \in 1 .. Len(q) : q[i].seg \in Nat
      BY <1>1, RibSeq
    <2>2. \A i \in 1 .. Len(q) : q[i].seg # n
      BY <1>1, <1>2, <1>4, <2>1
    <2> QED BY <1>1, <1>3, <2>2 DEF Range
  <1>8. ASSUME NEW z \in Places, t[z] = Vacant
        PROVE  Holds(State(z, q2, t), G)
    <2>1. Fit(z, Joining(R, b), t) /\ Told(Joining(R, b), t) = Told(R, t) \cup {<<b.seg, a>> : a \in RecsIn(b, t)}
      <3>1. (b.place # 0 => t[b.place] = Vacant) /\ \A y \in Places : y # b.place => t[y] = t[y]
        BY <1>3
      <3> HIDE DEF R
      <3> QED BY <1>1, <1>3, <1>7, <1>8, <3>1, JoiningFits
    <2>2. Told(Joining(R, b), t) = G
      BY <1>1, <1>2, <1>3, <2>1 DEF n
    <2>3. Filed(State(z, q2, t), G, z, q2, t)
      BY <1>5, <1>6, <2>1, <2>2 DEF Filed
    <2> QED BY <2>3 DEF Holds
  <1>9. \/ o.end = "ok" /\ \E z \in Places : t[z] = Vacant /\ o.s = State(z, q2, t)
        \/ o.end = (IF benign THEN "benign" ELSE "broken") /\ o.s = s
    BY <1>1, InsertedIs DEF q2
  <1>10. Holds(s, H)
    BY DEF Holds
  <1> HIDE DEF o, G
  <1>11. Outcome(o, H, G)
    BY <1>8, <1>9, <1>10 DEF Outcome
  <1> QED BY <1>11 DEF o, G, x, n, b

LEMMA AddFiled ==
  ASSUME NEW s, NEW H, NEW p, NEW q, NEW t, Filed(s, H, p, q, t), NEW r \in ListRecs, NEW room, NEW benign,
         NEW o,
         LET x == FirstFrom(s, r[1])
             there == x <= Len(q) /\ q[x].seg = r[1]
         IN o = IF ~there THEN InsertSegRIB(s, x, One(r[1], r[2]), room, benign)
                ELSE IF r[2] \in RIBRecs(s, q[x]) THEN Done(s, FALSE)
                ELSE AddToSegment(s, x, q[x], r[2], room)
  PROVE  Outcome(o, H, H \cup {r})
  <1> DEFINE n == r[1]
             x == FirstFrom(s, n)
             there == x <= Len(q) /\ q[x].seg = n
             G == H \cup {r}
  <1>1. RIBs(s) = q /\ q \in Seq(Ribs) /\ Sorted(q)
    BY FiledIs
  <1>2. n \in Nat /\ r = <<n, r[2]>>
    BY RecIs
  <1>3. Holds(s, H)
    BY DEF Holds
  <1>4. CASE ~there
    BY <1>4, InsertFiled
  <1>5. CASE there
    <2>1. x \in DOMAIN q
      BY <1>1, <1>2, <1>5, GoesThere
    <2>2. RIBRecs(s, q[x]) = RecsIn(q[x], t) /\ \A a : <<q[x].seg, a>> \in H <=> a \in RecsIn(q[x], t)
      BY <2>1, FiledIs
    <2>3. CASE r[2] \in RecsIn(q[x], t)
      <3>1. o = Done(s, FALSE)
        BY <1>5, <2>2, <2>3
      <3>2. r \in H
        BY <1>2, <1>5, <2>2, <2>3
      <3>3. H = G
        BY <3>2
      <3>4. Outcome(o, H, G)
        BY <1>3, <3>1, <3>3, OutcomeOk
      <3> QED BY <3>4
    <2>4. CASE r[2] \notin RecsIn(q[x], t)
      <3>1. o = AddToSegment(s, x, q[x], r[2], room)
        BY <1>5, <2>2, <2>4
      <3>2. <<q[x].seg, r[2]>> = r /\ <<q[x].seg, r[2]>> \in ListRecs
        BY <1>2, <1>5
      <3> HIDE DEF x
      <3>3. Added(AddToSegment(s, x, q[x], r[2], room), s, H \cup {<<q[x].seg, r[2]>>})
        BY <2>1, <2>4, <3>2, AddToSegmentIs
      <3>4. Added(o, s, G)
        BY <3>1, <3>2, <3>3
      <3> HIDE DEF G
      <3>5. Outcome(o, H, G)
        BY <1>3, <3>4, AddedOutcome
      <3> QED BY <3>5 DEF G
    <2> QED BY <2>3, <2>4
  <1> QED BY <1>4, <1>5

\* A list with an ILMR and no RIBs yet, and what it then holds.
LEMMA NewILMRIs ==
  ASSUME NEW s, NEW e, s = [entry |-> e, store |-> NoStore], HasPlace(s), NEW q
  PROVE  NewPlace(s) \in Places /\ NewILMR(s, q) = State(NewPlace(s), q, NoStore)
  <1> DEFINE z == NewPlace(s)
             T == {y \in Places : s.store[y] = Vacant}
  <1>1. T # {} /\ T \subseteq Nat
    BY ListAssumption DEF HasPlace
  <1>2. z \in T
    BY <1>1, MinIs DEF NewPlace
  <1>3. NewILMR(s, q) = State(z, q, NoStore)
    <2> HIDE DEF z
    <2>1. NewILMR(s, q) = [s EXCEPT !.entry = Listed(z), !.store[z] = [kind |-> "ilmr", ribs |-> q]]
      BY DEF NewILMR, z
    <2> QED BY <2>1 DEF State
  <1> QED BY <1>2, <1>3

\* A record alone becomes a RIB.
LEMMA PromotedIs ==
  ASSUME NEW r \in ListRecs, NEW s, s = [entry |-> Unique(r), store |-> NoStore], HasPlace(s)
  PROVE  LET b == One(r[1], r[2])
             z == NewPlace(s)
         IN Filed(NewILMR(s, <<b>>), {r}, z, <<b>>, NoStore)
  <1> DEFINE b == One(r[1], r[2])
             z == NewPlace(s)
             q == <<b>>
             R == {}
  <1>1. z \in Places /\ NewILMR(s, q) = State(z, q, NoStore)
    <2> HIDE DEF z, q
    <2> QED BY NewILMRIs DEF z
  <1>2. Sound(b, NoStore) /\ RecsIn(b, NoStore) = {r[2]} /\ b.seg = r[1] /\ b.place = 0 /\ b \in Ribs /\ r = <<r[1], r[2]>>
    <2>1. r = <<r[1], r[2]>> /\ <<r[1], r[2]>> \in ListRecs
      BY RecIs
    <2> QED BY <2>1, OneIs, SoundIs
  <1> HIDE DEF b
  <1>3. q \in Seq(Ribs) /\ q # <<>> /\ Len(q) = 1 /\ q[1] = b /\ DOMAIN q = 1 .. 1
    BY <1>2
  <1>4. Range(q) = Joining(R, b)
    BY <1>3 DEF Range, Joining
  <1>5. Sorted(q)
    BY <1>3 DEF Sorted
  <1>6. Fit(z, R, NoStore) /\ Told(R, NoStore) = {} /\ IsStore(NoStore) /\ NoStore[z] = Vacant
    <2> HIDE DEF z
    <2> QED BY <1>1, NewFits, FitIs
  <1> HIDE DEF q, z
  <1>7. Fit(z, Joining(R, b), NoStore) /\ Told(Joining(R, b), NoStore) = Told(R, NoStore) \cup {<<b.seg, a>> : a \in RecsIn(b, NoStore)}
    <2>1. \A c \in R : c.seg # b.seg
      OBVIOUS
    <2> HIDE DEF R
    <2> QED BY <1>1, <1>2, <1>6, <2>1, JoiningFits
  <1>8. Told(Joining(R, b), NoStore) = {r}
    BY <1>2, <1>6, <1>7
  <1>9. Filed(NewILMR(s, q), {r}, z, q, NoStore)
    BY <1>1, <1>3, <1>4, <1>5, <1>7, <1>8 DEF Filed
  <1> QED BY <1>9 DEF q, z, b

LEMMA AddRecordIs ==
  ASSUME NEW s, NEW H, Holds(s, H), NEW r \in ListRecs, NEW room
  PROVE  Outcome(AddRecord(s, r, room), H, H \cup {r})
  <1> DEFINE o == AddRecord(s, r, room)
             G == H \cup {r}
  <1>1. CASE s = Empty /\ H = {}
    <2> DEFINE v == [s EXCEPT !.entry = Unique(r)]
    <2>1. o = Done(v, TRUE)
      BY <1>1 DEF AddRecord, Empty
    <2>2. Holds(v, G)
      BY <1>1 DEF Holds
    <2> HIDE DEF v, o, G
    <2>3. Outcome(o, H, G)
      BY <2>1, <2>2, OutcomeOk
    <2> QED BY <2>3 DEF o, G
  <1>2. ASSUME NEW r0 \in ListRecs, s = [Empty EXCEPT !.entry = Unique(r0)], H = {r0}
        PROVE  Outcome(o, H, G)
    <2>1. s = [entry |-> Unique(r0), store |-> NoStore]
      BY <1>2 DEF Empty
    <2>2. s.entry = Unique(r0) /\ s.entry.form = "unique" /\ s.entry.rec = r0 /\ s.entry # INDEX_INVALID
      BY <2>1 DEF Unique, INDEX_INVALID
    <2>3. Holds(s, H)
      OBVIOUS
    <2>4. CASE r = r0
      <3>1. o = Done(s, FALSE)
        BY <2>2, <2>4 DEF AddRecord
      <3>2. H = G
        BY <1>2, <2>4
      <3> HIDE DEF o, G
      <3> QED BY <2>3, <3>1, <3>2, OutcomeOk
    <2>5. CASE r # r0
      <3>1. s.entry # Unique(r)
        BY <2>2, <2>5 DEF Unique
      <3>2. CASE ~HasPlace(s)
        <4>1. o = Full(s, TRUE)
          BY <2>2, <3>1, <3>2 DEF AddRecord
        <4> HIDE DEF o, G
        <4> QED BY <2>3, <4>1, OutcomeNot
      <3>3. CASE HasPlace(s)
        <4> DEFINE b == One(r0[1], r0[2])
                   z == NewPlace(s)
                   q == <<b>>
                   u == NewILMR(s, q)
                   x == FirstFrom(u, r[1])
                   there == x <= Len(q) /\ q[x].seg = r[1]
        <4>1. Filed(u, H, z, q, NoStore)
          BY <1>2, <2>1, <3>3, PromotedIs
        <4>2. RIBs(u) = q
          <5> HIDE DEF u, q, z
          <5> QED BY <4>1, FiledIs
        <4>3. o = IF ~there THEN InsertSegRIB(u, x, One(r[1], r[2]), room, FALSE)
                  ELSE IF r[2] \in RIBRecs(u, q[x]) THEN Done(u, FALSE)
                  ELSE AddToSegment(u, x, q[x], r[2], room)
          <5>1. o = IF ~(x <= Len(RIBs(u)) /\ RIBs(u)[x].seg = r[1]) THEN InsertSegRIB(u, x, One(r[1], r[2]), room, FALSE)
                    ELSE IF r[2] \in RIBRecs(u, RIBs(u)[x]) THEN Done(u, FALSE)
                    ELSE AddToSegment(u, x, RIBs(u)[x], r[2], room)
            BY <2>2, <3>1, <3>3 DEF AddRecord
          <5> HIDE DEF u, q, x
          <5> QED BY <4>2, <5>1
        <4> HIDE DEF o, u, q, z
        <4>4. Outcome(o, H, H \cup {r})
          BY <4>1, <4>3, AddFiled
        <4> QED BY <4>4
      <3> QED BY <3>2, <3>3
    <2> QED BY <2>4, <2>5
  <1>3. ASSUME NEW p, NEW q, NEW t, Filed(s, H, p, q, t)
        PROVE  Outcome(o, H, G)
    <2> DEFINE x == FirstFrom(s, r[1])
               there == x <= Len(q) /\ q[x].seg = r[1]
    <2>1. RIBs(s) = q /\ s.entry.form = "ilmr" /\ s.entry # INDEX_INVALID /\ s.entry # Unique(r)
      BY <1>3, FiledIs DEF Unique, INDEX_INVALID
    <2>2. o = IF ~there THEN InsertSegRIB(s, x, One(r[1], r[2]), room, TRUE)
              ELSE IF r[2] \in RIBRecs(s, q[x]) THEN Done(s, FALSE)
              ELSE AddToSegment(s, x, q[x], r[2], room)
      BY <2>1 DEF AddRecord
    <2> HIDE DEF o
    <2>3. Outcome(o, H, H \cup {r})
      BY <1>3, <2>2, AddFiled
    <2> QED BY <2>3
  <1> QED BY <1>1, <1>2, <1>3 DEF Holds

---------------------------------------------------------------------------
(* A record comes out.                                                       *)
Left(n, recs, a, left) ==
  /\ Cardinality(left) = Cardinality(recs) - 1 /\ Cardinality(recs) \in Nat \ {0}
  /\ left = {} <=> Cardinality(left) = 0
  /\ left # {} => OfSegment(n, left)
  /\ left = {} => \A c \in recs : c = a
  /\ Less(left, recs, a)
  /\ Cardinality(recs) = 2 => \E b : left = {b} /\ <<n, b>> \in ListRecs
LEMMA OneOut ==
  ASSUME NEW n, NEW recs, OfSegment(n, recs), NEW a \in recs,
         NEW left, left = recs \ {a}
  PROVE  Left(n, recs, a, left)
  <1>1. IsFiniteSet(recs) /\ Cardinality(recs) \in Nat \ {0}
    BY OfSegmentIs
  <1>2. IsFiniteSet(left) /\ Cardinality(left) = Cardinality(recs) - 1
    BY <1>1, FS_RemoveElement
  <1>3. left = {} <=> Cardinality(left) = 0
    BY <1>2, FS_EmptySet
  <1>4. left # {} => OfSegment(n, left)
    BY DEF OfSegment
  <1>5. Cardinality(recs) = 2 => \E b : left = {b}
    <2>1. Cardinality(left) = 1 => \E b : left = {b}
      BY <1>2, FS_Singleton
    <2> QED BY <1>2, <2>1
  <1>6. \A b : left = {b} => <<n, b>> \in ListRecs
    BY DEF OfSegment
  <1> QED BY <1>1, <1>2, <1>3, <1>4, <1>5, <1>6 DEF Less, Left

LEMMA RemoveFromSegmentIs ==
  ASSUME NEW s, NEW H, NEW p, NEW q, NEW t, Filed(s, H, p, q, t), NEW x \in DOMAIN q, NEW a \in RecsIn(q[x], t)
  PROVE  Holds(RemoveFromSegment(s, x, q[x], a), H \ {<<q[x].seg, a>>})
  <1> DEFINE c == q[x]
             n == q[x].seg
             recs == RecsIn(q[x], t)
             left == recs \ {a}
             G == H \ {<<n, a>>}
             y == c.place
             o == RemoveFromSegment(s, x, c, a)
  <1>1. /\ s = State(p, q, t) /\ RIBs(s) = q /\ q \in Seq(Ribs) /\ p \in Places /\ IsStore(t) /\ t[p] = Vacant
        /\ Sound(c, t) /\ c.place # p /\ RIBRecs(s, c) = recs
    BY FiledIs
  <1>2. OfSegment(n, recs)
    BY <1>1, SoundOf
  <1>3. /\ Cardinality(left) = Cardinality(recs) - 1 /\ Cardinality(recs) \in Nat \ {0}
        /\ left = {} <=> Cardinality(left) = 0
        /\ left # {} => OfSegment(n, left)
        /\ left = {} => \A d \in recs : d = a
        /\ Less(left, recs, a)
        /\ Cardinality(recs) = 2 => \E b : left = {b} /\ <<n, b>> \in ListRecs
    <2>1. left = recs \ {a} /\ a \in recs
      OBVIOUS
    <2> HIDE DEF left, recs, n
    <2>2. Left(n, recs, a, left)
      BY <1>2, <2>1, OneOut
    <2> QED BY <2>2 DEF Left
  <1>4. left = RIBRecs(s, c) \ {a}
    BY <1>1
  <1>5. left = {} => Cardinality(recs) = 1
    BY <1>3
  <1> HIDE DEF left, o, G
  \* What is to be shown of a RIB and a store, or of the RIB's going.
  <1>6. ASSUME NEW b, NEW u, Change(p, t, c, b, u), RecsIn(b, u) = left
        PROVE  Holds(State(p, ReplaceAt(q, x, b), u), G)
    <2>1. Less(RecsIn(b, u), RecsIn(q[x], t), a)
      BY <1>3, <1>6
    <2> QED BY <1>6, <2>1, Lessened DEF G
  <1>7. ASSUME NEW u, IsStore(u), left = {}, \A z \in Places : u[z] = IF z = y THEN Vacant ELSE t[z]
        PROVE  Holds(RemoveSegRIB(State(p, q, u), x), G)
    <2>1. \A d \in RecsIn(q[x], t) : d = a
      BY <1>3, <1>7
    <2> QED BY <1>7, <2>1, Emptied DEF G
  <1>8. CASE c.kind = "one"
    <2>1. y = 0 /\ Cardinality(recs) = 1
      BY <1>1, <1>8, SoundOf
    <2>2. left = {}
      BY <1>3, <2>1
    <2>3. \A z \in Places : t[z] = IF z = y THEN Vacant ELSE t[z]
      BY <2>1, ListAssumption
    <2>4. o = RemoveSegRIB(s, x)
      BY <1>8 DEF RemoveFromSegment, o
    <2>5. Holds(RemoveSegRIB(State(p, q, t), x), G)
      BY <1>1, <1>7, <2>2, <2>3
    <2> QED BY <1>1, <2>4, <2>5 DEF o, G
  <1>9. CASE c.kind = "two"
    <2>1. y = 0 /\ Cardinality(recs) = 2
      BY <1>1, <1>9, SoundOf
    <2>2. PICK d : left = {d} /\ <<n, d>> \in ListRecs
      BY <1>3, <2>1
    <2> DEFINE b == One(n, d)
    <2>3. (CHOOSE e \in left : TRUE) = d
      BY <2>2
    <2>4. Sound(b, t) /\ RecsIn(b, t) = left /\ b.seg = n /\ b.place = 0
      BY <2>2, OneIs
    <2>5. o = SetRIBs(s, ReplaceAt(q, x, b))
      BY <1>1, <1>4, <1>9, <2>3 DEF RemoveFromSegment, o
    <2> HIDE DEF b
    <2>6. Change(p, t, c, b, t)
      BY <1>1, <2>1, <2>4, ListAssumption DEF Change
    <2>7. Holds(State(p, ReplaceAt(q, x, b), t), G)
      BY <1>6, <2>4, <2>6
    <2>8. SetRIBs(s, ReplaceAt(q, x, b)) = State(p, ReplaceAt(q, x, b), t)
      BY <1>1, SetRIBsIs
    <2>9. Holds(o, G)
      BY <2>5, <2>7, <2>8
    <2> QED BY <2>9 DEF o, G
  <1>10. CASE c.kind = "array"
    <2> DEFINE val == ArrayOf(left)
               u == Keep(t, y, val)
               v == Keep(u, y, Vacant)
               S == State(p, q, u)
    <2>1. y \in Places /\ t[y] = ArrayOf(recs) /\ Cardinality(recs) <= DLIST_MAXRECS
      BY <1>1, <1>10, SoundOf
    <2>2. PutRecords(s, y, left) = S
      BY <1>1, <2>1, ArrayKeeps
    <2>3. o = IF left = {} THEN RemoveSegRIB(Give(S, y), x) ELSE S
      <3>1. o = IF left = {} THEN RemoveSegRIB(Give(PutRecords(s, y, left), y), x) ELSE PutRecords(s, y, left)
        BY <1>4, <1>10 DEF RemoveFromSegment, o, PutRecords
      <3> HIDE DEF S
      <3> QED BY <2>2, <3>1
    <2> HIDE DEF val
    <2>4. IsStore(u) /\ u[y] = val /\ \A k \in Places : k # y => u[k] = t[k]
      BY <1>1, <2>1, Kept
    <2> HIDE DEF u
    <2>5. CASE left = {}
      <3>1. Give(S, y) = State(p, q, v)
        BY <1>1, <2>1, <2>4, GiveKeeps
      <3>2. IsStore(v) /\ v[y] = Vacant /\ \A k \in Places : k # y => v[k] = u[k]
        BY <2>1, <2>4, Kept
      <3> HIDE DEF v
      <3>3. \A z \in Places : v[z] = IF z = y THEN Vacant ELSE t[z]
        BY <2>4, <3>2
      <3>4. Holds(RemoveSegRIB(State(p, q, v), x), G)
        BY <1>7, <2>5, <3>2, <3>3
      <3>5. Holds(o, G)
        BY <2>3, <2>5, <3>1, <3>4
      <3> QED BY <3>5 DEF o, G
    <2>6. CASE left # {}
      <3>1. Cardinality(left) <= DLIST_MAXRECS
        BY <1>3, <2>1, ListAssumption
      <3>2. Sound(c, u) /\ RecsIn(c, u) = left
        BY <1>1, <1>3, <1>10, <2>1, <2>4, <2>6, <3>1, SameRib DEF val
      <3>3. Change(p, t, c, c, u)
        BY <1>1, <2>4, <3>2 DEF Change
      <3>4. Holds(State(p, ReplaceAt(q, x, c), u), G)
        BY <1>6, <3>2, <3>3
      <3>5. ReplaceAt(q, x, c) = q
        BY <1>1, ReplaceSame
      <3>6. Holds(o, G)
        BY <2>3, <2>6, <3>4, <3>5
      <3> QED BY <3>6 DEF o, G
    <2> QED BY <2>5, <2>6
  <1>11. CASE c.kind = "bitmap"
    <2> DEFINE k == Cardinality(recs)
               k1 == k - 1
               val == BitMapOf(left, k)
               val1 == BitMapOf(left, k1)
               u == Keep(t, y, val)
               v == Keep(u, y, val1)
               w == Keep(v, y, Vacant)
               S == State(p, q, v)
    <2>1. y \in Places /\ t[y] = BitMapOf(recs, k)
      BY <1>1, <1>11, SoundOf
    <2>2. PutRecords(s, y, left) = State(p, q, u)
      BY <1>1, <2>1, BitMapKeeps
    <2> HIDE DEF val, val1, k1
    <2>3. IsStore(u) /\ u[y] = val /\ \A j \in Places : j # y => u[j] = t[j]
      BY <1>1, <2>1, Kept
    <2> HIDE DEF u
    <2>4. PutCount(State(p, q, u), y, k1) = S
      BY <1>1, <2>1, <2>3, BitMapKeeps DEF val, val1
    <2>5. IsStore(v) /\ v[y] = val1 /\ \A j \in Places : j # y => v[j] = u[j]
      BY <2>1, <2>3, Kept
    <2> HIDE DEF v
    <2>6. v[p] = Vacant
      BY <1>1, <2>3, <2>5
    <2>7. S.store[y] = val1 /\ val1.count = k1
      <3>1. S.store[y] = v[y]
        BY <1>1, <2>1, <2>5, <2>6, StateIs
      <3> QED BY <2>5, <3>1 DEF val1, BitMapOf
    <2>8. State(p, q, u).store[y].count = k
      <3>1. u[p] = Vacant
        BY <1>1, <2>3
      <3>2. State(p, q, u).store[y] = u[y]
        BY <1>1, <2>1, <2>3, <3>1, StateIs
      <3> QED BY <2>3, <3>2 DEF val, BitMapOf
    <2>9. o = IF k1 = 0 THEN RemoveSegRIB(Give(S, y), x) ELSE S
      <3> DEFINE V(U) == [U EXCEPT !.store[y].count = @ - 1]
      <3>1. o = IF V(PutRecords(s, y, left)).store[y].count = 0 THEN RemoveSegRIB(Give(V(PutRecords(s, y, left)), y), x)
                ELSE V(PutRecords(s, y, left))
        BY <1>4, <1>11 DEF RemoveFromSegment, o, PutRecords
      <3> DEFINE U == State(p, q, u)
      <3>2. PutRecords(s, y, left) = U
        BY <2>2
      <3>3. U.store[y].count = k
        BY <2>8
      <3> HIDE DEF U
      <3>4. V(U) = PutCount(U, y, k1)
        BY <3>3 DEF PutCount, k1
      <3>5. V(U) = S
        BY <2>4, <3>4 DEF U
      <3> HIDE DEF V, S
      <3> QED BY <2>7, <3>1, <3>2, <3>5
    <2>10. k1 = 0 <=> left = {}
      BY <1>3 DEF k1
    <2>11. CASE left = {}
      <3>1. Give(S, y) = State(p, q, w)
        BY <1>1, <2>1, <2>5, GiveKeeps
      <3>2. IsStore(w) /\ w[y] = Vacant /\ \A j \in Places : j # y => w[j] = v[j]
        BY <2>1, <2>5, Kept
      <3> HIDE DEF w
      <3>3. \A z \in Places : w[z] = IF z = y THEN Vacant ELSE t[z]
        BY <2>3, <2>5, <3>2
      <3>4. Holds(RemoveSegRIB(State(p, q, w), x), G)
        BY <1>7, <2>11, <3>2, <3>3
      <3>5. Holds(o, G)
        BY <2>9, <2>10, <2>11, <3>1, <3>4
      <3> QED BY <3>5 DEF o, G
    <2>12. CASE left # {}
      <3>1. k1 = Cardinality(left)
        BY <1>3 DEF k1
      <3>2. Sound(c, v) /\ RecsIn(c, v) = left
        BY <1>1, <1>3, <1>11, <2>1, <2>5, <2>12, <3>1, SameRib DEF val1
      <3>3. Change(p, t, c, c, v)
        BY <1>1, <2>3, <2>5, <2>6, <3>2 DEF Change
      <3>4. Holds(State(p, ReplaceAt(q, x, c), v), G)
        BY <1>6, <3>2, <3>3
      <3>5. ReplaceAt(q, x, c) = q
        BY <1>1, ReplaceSame
      <3>6. Holds(o, G)
        BY <2>9, <2>10, <2>12, <3>4, <3>5
      <3> QED BY <3>6 DEF o, G
    <2> QED BY <2>11, <2>12
  <1> QED BY <1>1, <1>8, <1>9, <1>10, <1>11, SoundOf

LEMMA RemoveRecordIs ==
  ASSUME NEW s, NEW H, Holds(s, H), NEW r \in ListRecs
  PROVE  Outcome(RemoveRecord(s, r), H, H \ {r})
  <1> DEFINE o == RemoveRecord(s, r)
             G == H \ {r}
  <1>1. CASE s = Empty /\ H = {}
    <2>1. s.entry.form # "ilmr" /\ s.entry # Unique(r)
      BY <1>1 DEF Empty, INDEX_INVALID, Unique
    <2>2. o = Done(s, FALSE)
      BY <2>1 DEF RemoveRecord
    <2>3. Holds(s, G)
      BY <1>1 DEF Holds
    <2> HIDE DEF o, G
    <2>4. Outcome(o, H, G)
      BY <2>2, <2>3, OutcomeOk
    <2> QED BY <2>4 DEF o, G
  <1>2. ASSUME NEW r0 \in ListRecs, s = [Empty EXCEPT !.entry = Unique(r0)], H = {r0}
        PROVE  Outcome(o, H, G)
    <2>1. s = [entry |-> Unique(r0), store |-> NoStore]
      BY <1>2 DEF Empty
    <2>2. CASE r = r0
      <3> DEFINE v == [s EXCEPT !.entry = INDEX_INVALID]
      <3>1. o = Done(v, TRUE)
        BY <2>1, <2>2 DEF RemoveRecord
      <3>2. v = Empty
        BY <2>1 DEF Empty
      <3>3. G = {}
        BY <1>2, <2>2
      <3>4. Holds(v, G)
        BY <3>2, <3>3 DEF Holds
      <3> HIDE DEF o, G, v
      <3> QED BY <3>1, <3>4, OutcomeOk
    <2>3. CASE r # r0
      <3>1. s.entry.form # "ilmr" /\ s.entry # Unique(r)
        BY <2>1, <2>3 DEF Unique
      <3>2. o = Done(s, FALSE)
        BY <3>1 DEF RemoveRecord
      <3>3. H = G
        BY <1>2, <2>3
      <3> HIDE DEF o, G
      <3> QED BY <3>2, <3>3, OutcomeOk
    <2> QED BY <2>2, <2>3
  <1>3. ASSUME NEW p, NEW q, NEW t, Filed(s, H, p, q, t)
        PROVE  Outcome(o, H, G)
    <2> DEFINE n == r[1]
               x == FirstFrom(s, n)
               absent == x > Len(q) \/ q[x].seg > n \/ r[2] \notin RIBRecs(s, q[x])
    <2>1. RIBs(s) = q /\ s.entry.form = "ilmr" /\ s.entry # Unique(r) /\ q \in Seq(Ribs) /\ Sorted(q)
      BY <1>3, FiledIs DEF Unique
    <2>2. o = IF absent THEN Done(s, FALSE) ELSE Done(RemoveFromSegment(s, x, q[x], r[2]), TRUE)
      BY <2>1 DEF RemoveRecord
    <2>3. n \in Nat /\ r = <<n, r[2]>>
      BY RecIs
    <2>4. /\ x \in 1 .. Len(q) + 1
          /\ x > Len(q) \/ q[x].seg > n => \A i \in DOMAIN q : q[i].seg # n
          /\ x <= Len(q) => x \in DOMAIN q /\ q[x].seg >= n
      BY <2>1, <2>3, GoesThere
    <2>5. DOMAIN q = 1 .. Len(q) /\ Len(q) \in Nat /\ \A i \in 1 .. Len(q) : q[i].seg \in Nat
      BY <2>1, RibSeq
    <2> HIDE DEF x, n
    <2>6. CASE x > Len(q) \/ q[x].seg > n
      <3>1. r \notin H
        BY <1>3, <2>4, <2>6, FiledIs DEF n
      <3>2. H = G /\ Holds(s, H) /\ o = Done(s, FALSE)
        BY <1>3, <2>2, <2>6, <3>1
      <3> HIDE DEF o, G
      <3> QED BY <3>2, OutcomeOk
    <2>7. CASE ~(x > Len(q) \/ q[x].seg > n)
      <3>1. x \in DOMAIN q /\ q[x].seg = n
        BY <2>3, <2>4, <2>5, <2>7
      <3>2. RIBRecs(s, q[x]) = RecsIn(q[x], t) /\ \A a : <<q[x].seg, a>> \in H <=> a \in RecsIn(q[x], t)
        BY <1>3, <3>1, FiledIs
      <3>3. CASE r[2] \notin RecsIn(q[x], t)
        <4>1. r \notin H
          BY <2>3, <3>1, <3>2, <3>3
        <4>2. H = G /\ Holds(s, H) /\ o = Done(s, FALSE)
          BY <1>3, <2>2, <3>2, <3>3, <4>1
        <4> HIDE DEF o, G
        <4> QED BY <4>2, OutcomeOk
      <3>4. CASE r[2] \in RecsIn(q[x], t)
        <4> DEFINE v == RemoveFromSegment(s, x, q[x], r[2])
                   rr == <<q[x].seg, r[2]>>
        <4>1. o = Done(v, TRUE)
          BY <2>2, <2>7, <3>2, <3>4
        <4>2. rr = r
          BY <2>3, <3>1
        <4>3. Holds(v, H \ {rr})
          BY <1>3, <3>1, <3>4, RemoveFromSegmentIs
        <4> HIDE DEF rr, v
        <4>4. Holds(v, G)
          BY <4>2, <4>3
        <4> HIDE DEF o, G
        <4> QED BY <4>1, <4>4, OutcomeOk
      <3> QED BY <3>3, <3>4
    <2> QED BY <2>6, <2>7
  <1> QED BY <1>1, <1>2, <1>3 DEF Holds

---------------------------------------------------------------------------
(* Numbers in order.                                                        *)
Below(S, n) == {m \in S : m <= n}
LEMMA RankIs ==
  ASSUME NEW S \in SUBSET Nat, IsFiniteSet(S)
  PROVE  /\ Cardinality(S) \in Nat
         /\ \A n \in S : Cardinality(Below(S, n)) \in 1 .. Cardinality(S)
         /\ \A m, n \in S : m < n => Cardinality(Below(S, m)) < Cardinality(Below(S, n))
  <1>1. \A n : Below(S, n) \subseteq S
    BY DEF Below
  <1>2. \A n : IsFiniteSet(Below(S, n)) /\ Cardinality(Below(S, n)) \in Nat /\ Cardinality(Below(S, n)) <= Cardinality(S) /\ Cardinality(S) \in Nat
    BY <1>1, FS_Subset, FS_CardinalityType
  <1>3. ASSUME NEW n \in S PROVE Cardinality(Below(S, n)) \in 1 .. Cardinality(S)
    <2>1. n \in Below(S, n)
      BY DEF Below
    <2>2. Cardinality(Below(S, n)) # 0
      BY <1>2, <2>1, FS_EmptySet
    <2> QED BY <1>2, <2>2
  <1>4. ASSUME NEW m \in S, NEW n \in S, m < n PROVE Cardinality(Below(S, m)) < Cardinality(Below(S, n))
    <2> DEFINE A == Below(S, m)
               B == Below(S, n)
               C == A \cup {n}
    <2>1. n \notin A /\ C \subseteq B
      <3>1. m \in Nat /\ n \in Nat /\ \A k \in S : k \in Nat
        OBVIOUS
      <3>2. n \notin A
        BY <1>4, <3>1 DEF Below
      <3>3. n \in B
        BY <3>1 DEF Below
      <3>4. \A k \in A : k \in B
        BY <1>4, <3>1 DEF Below
      <3> QED BY <3>2, <3>3, <3>4
    <2>2. IsFiniteSet(A) /\ Cardinality(A) \in Nat /\ IsFiniteSet(B) /\ Cardinality(B) \in Nat
      BY <1>2
    <2> HIDE DEF A, B
    <2>3. Cardinality(C) = Cardinality(A) + 1
      BY <2>1, <2>2, FS_AddElement
    <2> HIDE DEF C
    <2>4. Cardinality(C) <= Cardinality(B)
      BY <2>1, <2>2, FS_Subset
    <2>5. Cardinality(A) < Cardinality(B)
      BY <2>2, <2>3, <2>4
    <2> QED BY <2>5 DEF A, B
  <1> QED BY <1>2, <1>3, <1>4

LEMMA AscendingIs ==
  ASSUME NEW S \in SUBSET Nat, IsFiniteSet(S)
  PROVE  /\ Ascending(S) \in Seq(S) /\ Cardinality(S) \in Nat /\ Len(Ascending(S)) = Cardinality(S)
         /\ DOMAIN Ascending(S) = 1 .. Cardinality(S)
         /\ \A k \in 1 .. Cardinality(S) : Ascending(S)[k] \in S
         /\ \A n \in S : \E k \in 1 .. Cardinality(S) : Ascending(S)[k] = n
         /\ \A j, k \in 1 .. Cardinality(S) : j < k => Ascending(S)[j] < Ascending(S)[k]
  <1> DEFINE N == Cardinality(S)
             rank(n) == Cardinality(Below(S, n))
             f == Ascending(S)
             g == [n \in S |-> rank(n)]
  <1>1. N \in Nat /\ (\A n \in S : rank(n) \in 1 .. N) /\ \A m, n \in S : m < n => rank(m) < rank(n)
    BY RankIs
  <1>2. f = [k \in 1 .. N |-> CHOOSE n \in S : rank(n) = k]
    BY DEF Ascending, Below
  <1> HIDE DEF N, rank
  <1>3. \A m, n \in S : rank(m) = rank(n) => m = n
    <2>1. SUFFICES ASSUME NEW m \in S, NEW n \in S, rank(m) = rank(n) PROVE m = n
      OBVIOUS
    <2>2. m \in Nat /\ n \in Nat /\ rank(m) \in Nat /\ rank(n) \in Nat
      BY <1>1
    <2>3. ~(m < n) /\ ~(n < m)
      BY <1>1, <2>1, <2>2
    <2> QED BY <2>2, <2>3
  <1>4. \A k \in 1 .. N : \E n \in S : rank(n) = k
    <2> DEFINE T == 1 .. N
    <2>1. g \in Injection(S, T)
      BY <1>1, <1>3 DEF Injection, IsInjective
    <2>2. IsFiniteSet(T) /\ Cardinality(T) = N
      <3>1. Cardinality(1 .. N) = IF 1 > N THEN 0 ELSE N - 1 + 1
        BY <1>1, FS_Interval
      <3> QED BY <1>1, <3>1, FS_Interval
    <2>3. N = Cardinality(S)
      BY DEF N
    <2> HIDE DEF T, g
    <2>4. g \in Surjection(S, T)
      BY <2>1, <2>2, <2>3, FS_Injection
    <2> USE DEF T, g
    <2>5. \A k \in T : \E n \in S : g[n] = k
      BY <2>4 DEF Surjection
    <2> QED BY <2>5
  <1>5. \A k \in 1 .. N : f[k] \in S /\ rank(f[k]) = k
    BY <1>2, <1>4
  <1>6. f \in Seq(S) /\ Len(f) = N /\ DOMAIN f = 1 .. N
    <2>1. f \in [1 .. N -> S]
      BY <1>2, <1>4
    <2> HIDE DEF f
    <2> QED BY <1>1, <2>1
  <1>7. ASSUME NEW n \in S PROVE \E k \in 1 .. N : f[k] = n
    <2>1. rank(n) \in 1 .. N
      BY <1>1
    <2>2. f[rank(n)] \in S /\ rank(f[rank(n)]) = rank(n)
      BY <1>5, <2>1
    <2>3. f[rank(n)] = n
      BY <1>3, <2>2
    <2> QED BY <2>1, <2>3
  <1>8. ASSUME NEW j \in 1 .. N, NEW k \in 1 .. N, j < k PROVE f[j] < f[k]
    <2> DEFINE m == f[j]
               n == f[k]
    <2>1. m \in S /\ n \in S /\ rank(m) = j /\ rank(n) = k
      BY <1>5
    <2> HIDE DEF m, n
    <2>2. m \in Nat /\ n \in Nat
      BY <2>1
    <2>3. ~(n < m) /\ n # m
      BY <1>1, <1>8, <2>1
    <2>4. m < n
      BY <2>2, <2>3
    <2> QED BY <2>4 DEF m, n
  <1> QED BY <1>1, <1>5, <1>6, <1>7, <1>8 DEF N

\* The segments of a set of records in order.
LEMMA SegsOfIs ==
  ASSUME NEW set \in SUBSET ListRecs
  PROVE  LET f == SegsOf(set)
             N == Len(f)
         IN /\ N \in Nat /\ DOMAIN f = 1 .. N
            /\ \A k \in 1 .. N : f[k] \in Nat /\ OfSegment(f[k], SegOf(set, f[k]))
            /\ \A r \in set : \E k \in 1 .. N : f[k] = r[1]
            /\ \A j, k \in 1 .. N : j < k => f[j] < f[k]
  <1> DEFINE S == {r[1] : r \in set}
             g == [r \in set |-> r[1]]
             f == Ascending(S)
  <1>1. S \in SUBSET Nat
    BY RecIs
  <1>2. IsFiniteSet(S)
    <2>1. g \in Surjection(set, S)
      BY DEF Surjection
    <2>2. IsFiniteSet(set)
      BY FS_Subset, ListAssumption
    <2> HIDE DEF S, g
    <2> QED BY <2>1, <2>2, FS_Surjection
  <1>3. SegsOf(set) = f
    BY DEF SegsOf
  <1> HIDE DEF S
  <1>4. /\ Len(f) = Cardinality(S) /\ Cardinality(S) \in Nat
        /\ DOMAIN f = 1 .. Cardinality(S)
        /\ \A k \in 1 .. Cardinality(S) : f[k] \in S
        /\ \A n \in S : \E k \in 1 .. Cardinality(S) : f[k] = n
        /\ \A j, k \in 1 .. Cardinality(S) : j < k => f[j] < f[k]
    BY <1>1, <1>2, AscendingIs
  <1> HIDE DEF f
  <1>5. ASSUME NEW n \in S PROVE n \in Nat /\ OfSegment(n, SegOf(set, n))
    <2>1. PICK r \in set : r[1] = n
      BY DEF S
    <2>2. r[2] \in SegOf(set, n)
      BY <2>1 DEF SegOf
    <2>3. ASSUME NEW a \in SegOf(set, n) PROVE <<n, a>> \in ListRecs
      <3>1. PICK x \in set : x[1] = n /\ x[2] = a
        BY DEF SegOf
      <3>2. x = <<n, a>>
        BY <3>1, RecIs
      <3> QED BY <3>2
    <2> QED BY <1>1, <2>2, <2>3 DEF OfSegment
  <1>6. \A r \in set : r[1] \in S
    BY DEF S
  <1> QED BY <1>3, <1>4, <1>5, <1>6

---------------------------------------------------------------------------
(* Sets are filed segment by segment.                                        *)
\* What a segment's form leaves in the store: its array or bitmap, if it has one, in a place that was free.
Formed(t, b, u, n, recs) ==
  /\ IsStore(u) /\ Sound(b, u) /\ b.seg = n /\ RecsIn(b, u) = recs
  /\ b.place # 0 => t[b.place] = Vacant
  /\ \A z \in Places : z # b.place => u[z] = t[z]

LEMMA SegFormIs ==
  ASSUME NEW p \in Places, NEW q, NEW t, IsStore(t), t[p] = Vacant, NEW n, NEW recs, OfSegment(n, recs),
         Cardinality(recs) > 2 => HasPlace(State(p, q, t))
  PROVE  LET f == SegForm(State(p, q, t), n, recs)
         IN \E u : f.s = State(p, q, u) /\ u[p] = Vacant /\ Formed(t, f.rib, u, n, recs)
  <1> DEFINE s == State(p, q, t)
             k == Cardinality(recs)
             z == NewPlace(s)
             f == SegForm(s, n, recs)
  <1>1. k \in Nat \ {0} /\ IsFiniteSet(recs)
    BY OfSegmentIs
  <1>2. CASE k = 1
    <2>1. PICK a : recs = {a}
      BY <1>1, <1>2, FS_Singleton
    <2> DEFINE b == One(n, a)
    <2>2. (CHOOSE c \in recs : TRUE) = a
      BY <2>1
    <2>3. f.s = s /\ f.rib = b
      <3>1. f = [s |-> s, rib |-> One(n, CHOOSE c \in recs : TRUE)]
        BY <1>2 DEF SegForm
      <3> HIDE DEF f, s
      <3> QED BY <2>2, <3>1
    <2>4. <<n, a>> \in ListRecs
      BY <2>1 DEF OfSegment
    <2>5. Sound(b, t) /\ RecsIn(b, t) = recs /\ b.seg = n /\ b.place = 0
      BY <2>1, <2>4, OneIs
    <2> HIDE DEF b, f, s
    <2>6. Formed(t, f.rib, t, n, recs)
      BY <2>3, <2>5 DEF Formed
    <2> QED BY <2>3, <2>6 DEF f, s
  <1>3. CASE k = 2
    <2> DEFINE b == Two(n, recs)
    <2>1. f.s = s /\ f.rib = b
      BY <1>3 DEF SegForm
    <2>2. Sound(b, t) /\ RecsIn(b, t) = recs /\ b.seg = n /\ b.place = 0
      BY <1>3, TwoIs
    <2> HIDE DEF b, f, s
    <2>3. Formed(t, f.rib, t, n, recs)
      BY <2>1, <2>2 DEF Formed
    <2> QED BY <2>1, <2>3 DEF f, s
  <1>4. CASE k > 2
    <2> DEFINE val == IF k <= DLIST_MAXRECS THEN ArrayOf(recs) ELSE BitMapOf(recs, k)
               kind == IF k <= DLIST_MAXRECS THEN "array" ELSE "bitmap"
               b == Elsewhere(n, kind, z)
               u == Keep(t, z, val)
    <2>1. z \in Places /\ z # p /\ t[z] = Vacant
      <3>1. HasPlace(s)
        BY <1>4
      <3> QED BY <3>1, PlaceIs
    <2>2. f.s = Put(s, z, val) /\ f.rib = b
      <3>1. ~(k = 1) /\ ~(k = 2)
        BY <1>1, <1>4
      <3> HIDE DEF s, z
      <3> QED BY <1>4, <3>1 DEF SegForm, Put, z
    <2> HIDE DEF val, z
    <2>3. Put(s, z, val) = State(p, q, u)
      BY <2>1, PutKeeps
    <2>4. IsStore(u) /\ u[z] = val /\ \A y \in Places : y # z => u[y] = t[y]
      BY <2>1, Kept
    <2> HIDE DEF u
    <2>5. /\ kind \in {"array", "bitmap"}
          /\ \/ kind = "array" /\ u[z] = ArrayOf(recs) /\ Cardinality(recs) <= DLIST_MAXRECS
             \/ kind = "bitmap" /\ u[z] = BitMapOf(recs, Cardinality(recs))
      BY <2>4 DEF val
    <2> HIDE DEF kind
    <2>6. Sound(b, u) /\ RecsIn(b, u) = recs /\ b.seg = n /\ b.place = z
      BY <2>1, <2>5, ElsewhereIs
    <2> HIDE DEF b
    <2>7. Formed(t, b, u, n, recs)
      BY <2>1, <2>4, <2>6 DEF Formed
    <2>8. u[p] = Vacant
      BY <2>1, <2>4
    <2> HIDE DEF f, s
    <2>9. f.s = State(p, q, u)
      BY <2>2, <2>3 DEF s
    <2> QED BY <2>2, <2>7, <2>8, <2>9 DEF f, s
  <1> QED BY <1>1, <1>2, <1>3, <1>4

\* A list with an ILMR, its RIBs in whatever order.
Built(s, H, p, q, t) == s = State(p, q, t) /\ q \in Seq(Ribs) /\ Fit(p, Range(q), t) /\ H = Told(Range(q), t)

LEMMA BuiltIs ==
  ASSUME NEW s, NEW H, NEW p, NEW q, NEW t, Built(s, H, p, q, t)
  PROVE  /\ s = State(p, q, t) /\ RIBs(s) = q /\ q \in Seq(Ribs) /\ Len(q) \in Nat /\ DOMAIN q = 1 .. Len(q)
         /\ Fit(p, Range(q), t) /\ p \in Places /\ IsStore(t) /\ t[p] = Vacant /\ H = Told(Range(q), t)
         /\ \A b \in Range(q) : \E r \in H : r[1] = b.seg
  <1>1. s = State(p, q, t) /\ q \in Seq(Ribs) /\ Fit(p, Range(q), t) /\ H = Told(Range(q), t)
    BY DEF Built
  <1>2. p \in Places /\ IsStore(t) /\ t[p] = Vacant
    BY <1>1, FitIs
  <1>3. RIBs(s) = q
    BY <1>1, <1>2, StateIs
  <1>4. Len(q) \in Nat /\ DOMAIN q = 1 .. Len(q)
    BY <1>1, RibSeq
  <1>5. ASSUME NEW b \in Range(q) PROVE \E r \in H : r[1] = b.seg
    <2>1. Sound(b, t)
      BY <1>1, FitIs
    <2>2. PICK a \in RecsIn(b, t) : TRUE
      BY <2>1 DEF Sound
    <2>3. <<b.seg, a>> \in H
      BY <1>1, <2>2, ToldIs
    <2> QED BY <2>3
  <1> QED BY <1>1, <1>2, <1>3, <1>4, <1>5

\* The records with those of one segment more.
WithSegment(H, n, S) == H \cup {<<n, c>> : c \in S}
\* One segment more, none of whose records is there.
LEMMA FileSegmentIs ==
  ASSUME NEW a, a = [s |-> a.s, prev |-> a.prev, end |-> "ok"], a.prev \in Nat, NEW H, NEW p, NEW q, NEW t, Built(a.s, H, p, q, t),
         NEW set, NEW n \in Nat, OfSegment(n, SegOf(set, n)), \A r \in H : r[1] # n,
         NEW augmenting, NEW room, ~augmenting => Sorted(q) /\ \A r \in H : r[1] < n
  PROVE  LET o == FileSegment(a, n, set, augmenting, room) IN
         \/ o.end = "broken"
         \/ /\ o = [s |-> o.s, prev |-> o.prev, end |-> "ok"] /\ o.prev \in Nat
            /\ \E p2, q2, t2 : /\ Built(o.s, WithSegment(H, n, SegOf(set, n)), p2, q2, t2)
                               /\ q2 # <<>> /\ (~augmenting => Sorted(q2))
  <1> DEFINE recs == SegOf(set, n)
             o == FileSegment(a, n, set, augmenting, room)
             G == WithSegment(H, n, recs)
             R == Range(q)
             f == SegForm(a.s, n, recs)
             b == f.rib
             at == IF ~augmenting \/ q = <<>> THEN Len(q) + 1 ELSE RibixForSeg(a.s, n, a.prev)
             i == InsertSegRIB(f.s, at, b, room, FALSE)
  <1>1. /\ a.end = "ok" /\ a.s = State(p, q, t) /\ RIBs(a.s) = q /\ q \in Seq(Ribs) /\ Len(q) \in Nat /\ DOMAIN q = 1 .. Len(q)
        /\ Fit(p, R, t) /\ p \in Places /\ IsStore(t) /\ t[p] = Vacant /\ H = Told(R, t)
        /\ \A c \in R : \E r \in H : r[1] = c.seg
    BY BuiltIs
  <1>2. \A c \in R : c.seg # n
    BY <1>1
  <1>3. at \in 1 .. Len(q) + 1
    <2>1. RibixForSeg(a.s, n, a.prev) \in 1 .. Len(q) + 1
      <3> DEFINE S == a.s
                 prev == a.prev
      <3>1. RIBs(S) = q /\ prev \in Nat
        BY <1>1
      <3> HIDE DEF S, prev
      <3>2. RibixForSeg(S, n, prev) \in 1 .. Len(q) + 1
        BY <1>1, <3>1, RibixIs
      <3> QED BY <3>2 DEF S, prev
    <2> QED BY <1>1, <2>1
  <1>4. o = IF Cardinality(recs) > 2 /\ ~HasPlace(a.s) THEN [a EXCEPT !.end = "broken"]
            ELSE [s |-> i.s, prev |-> at, end |-> i.end]
    BY <1>1 DEF FileSegment
  <1> HIDE DEF o, G
  <1>5. CASE Cardinality(recs) > 2 /\ ~HasPlace(a.s)
    <2>1. o = [a EXCEPT !.end = "broken"]
      BY <1>4, <1>5
    <2>2. o.end = "broken"
      BY <2>1
    <2> QED BY <2>2 DEF o
  <1>6. CASE ~(Cardinality(recs) > 2 /\ ~HasPlace(a.s))
    <2>1. o = [s |-> i.s, prev |-> at, end |-> i.end]
      BY <1>4, <1>6
    <2> HIDE DEF at, recs
    <2>2. PICK u : f.s = State(p, q, u) /\ u[p] = Vacant /\ Formed(t, b, u, n, recs)
      BY <1>1, <1>6, SegFormIs DEF recs
    <2> HIDE DEF b, f
    <2>3. IsStore(u) /\ Sound(b, u) /\ b.seg = n /\ RecsIn(b, u) = recs /\ b \in Ribs
          /\ (b.place # 0 => t[b.place] = Vacant) /\ \A z \in Places : z # b.place => u[z] = t[z]
      BY <2>2, SoundIs DEF Formed
    <2> DEFINE q2 == InsertAt(q, at, b)
    <2>4. \/ i.end = "ok" /\ \E z \in Places : u[z] = Vacant /\ i.s = State(z, q2, u)
          \/ i.end = "broken"
      <3> DEFINE benign == FALSE
                 j == InsertSegRIB(State(p, q, u), at, b, room, benign)
      <3>1. i = j
        BY <2>2
      <3> HIDE DEF benign
      <3>2. \/ j.end = "ok" /\ \E z \in Places : u[z] = Vacant /\ j.s = State(z, q2, u)
            \/ j.end = (IF benign THEN "benign" ELSE "broken") /\ j.s = State(p, q, u)
        BY <1>1, <2>2, <2>3, InsertedIs
      <3> HIDE DEF j, i
      <3> QED BY <3>1, <3>2 DEF benign
    <2>5. q2 \in Seq(Ribs) /\ Len(q2) = Len(q) + 1
      BY <1>1, <1>3, <2>3, InsertIs
    <2>6. Range(q2) = Joining(R, b)
      BY <1>1, <1>3, <2>3, InsertJoins
    <2>7. q2 # <<>>
      BY <1>1, <2>5, EmptySeq
    <2>8. ~augmenting => Sorted(q2)
      <3>1. SUFFICES ASSUME ~augmenting PROVE Sorted(q2)
        OBVIOUS
      <3>2. at = Len(q) + 1
        BY <3>1 DEF at
      <3>3. \A j \in 1 .. Len(q) : j < at => q[j].seg < b.seg
        <4>1. ASSUME NEW j \in 1 .. Len(q) PROVE q[j].seg < n
          <5>1. q[j] \in R
            BY <1>1 DEF Range
          <5>2. PICK r \in H : r[1] = q[j].seg
            BY <1>1, <5>1
          <5> QED BY <3>1, <5>2
        <4> QED BY <2>3, <4>1
      <3>4. \A j \in 1 .. Len(q) : j >= at => q[j].seg > b.seg
        BY <1>1, <3>2
      <3> QED BY <1>1, <1>3, <2>3, <3>1, <3>3, <3>4, InsertSorted
    <2> HIDE DEF q2, i
    <2>9. ASSUME NEW z \in Places, u[z] = Vacant, i.s = State(z, q2, u)
          PROVE  Built(o.s, G, z, q2, u)
      <3>1. Fit(z, Joining(R, b), u) /\ Told(Joining(R, b), u) = Told(R, t) \cup {<<b.seg, d>> : d \in RecsIn(b, u)}
        <4>1. \A c \in R : c.seg # b.seg
          BY <1>2, <2>3
        <4> HIDE DEF R
        <4> QED BY <1>1, <2>3, <2>9, <4>1, JoiningFits
      <3>2. Told(Joining(R, b), u) = G
        BY <1>1, <2>3, <3>1 DEF G, WithSegment
      <3> QED BY <2>1, <2>5, <2>6, <2>9, <3>1, <3>2 DEF Built
    <2>10. CASE i.end = "broken"
      BY <2>1, <2>10 DEF o
    <2>11. CASE i.end = "ok" /\ \E z \in Places : u[z] = Vacant /\ i.s = State(z, q2, u)
      <3>1. PICK z \in Places : u[z] = Vacant /\ i.s = State(z, q2, u)
        BY <2>11
      <3>2. Built(o.s, G, z, q2, u)
        BY <2>9, <3>1
      <3>3. o.end = "ok" /\ o.prev \in Nat
        BY <1>1, <1>3, <2>1, <2>11 DEF at
      <3>5. o = [s |-> o.s, prev |-> o.prev, end |-> "ok"]
        BY <2>1, <2>11
      <3>4. \E p2, q3, t2 : Built(o.s, G, p2, q3, t2) /\ q3 # <<>> /\ (~augmenting => Sorted(q3))
        BY <2>7, <2>8, <3>2
      <3> QED BY <3>3, <3>4, <3>5 DEF o, G, recs
    <2> QED BY <2>4, <2>10, <2>11
  <1> QED BY <1>5, <1>6

\* The segments up to the m-th, filed in turn.
Turns(g, m, s, set, augmenting, room) ==
  g = [k \in 0 .. m |-> IF k = 0 THEN [s |-> s, prev |-> 1, end |-> "ok"]
                        ELSE FileSegment(g[k - 1], SegsOf(set)[k], set, augmenting, room)]

LEMMA TurnsAre ==
  ASSUME NEW m \in Nat, NEW s, NEW set, NEW augmenting, NEW room
  PROVE  \E g : Turns(g, m, s, set, augmenting, room)
  <1> DEFINE start == [s |-> s, prev |-> 1, end |-> "ok"]
             Step(a, k) == FileSegment(a, SegsOf(set)[k], set, augmenting, room)
             Are(j) == \E g : g = [k \in 0 .. j |-> IF k = 0 THEN start ELSE Step(g[k - 1], k)]
             Bad == {j \in Nat : ~Are(j)}
  <1> HIDE DEF start, Step
  <1>1. Are(0)
    <2> DEFINE g == [k \in 0 .. 0 |-> start]
    <2>1. g = [k \in 0 .. 0 |-> IF k = 0 THEN start ELSE Step(g[k - 1], k)]
      OBVIOUS
    <2> HIDE DEF g
    <2> QED BY <2>1
  <1>2. ASSUME NEW j \in Nat, j # 0, Are(j - 1) PROVE Are(j)
    <2>1. PICK g : g = [k \in 0 .. j - 1 |-> IF k = 0 THEN start ELSE Step(g[k - 1], k)]
      BY <1>2
    <2> DEFINE h == [k \in 0 .. j |-> IF k = j THEN Step(g[j - 1], j) ELSE g[k]]
    <2>2. \A k \in 0 .. j - 1 : g[k] = IF k = 0 THEN start ELSE Step(g[k - 1], k)
      BY <2>1
    <2>3. \A k \in 0 .. j - 1 : h[k] = g[k]
      BY <1>2
    <2>4. h[j] = Step(g[j - 1], j)
      BY <1>2
    <2> HIDE DEF h
    <2>5. ASSUME NEW k \in 0 .. j PROVE h[k] = IF k = 0 THEN start ELSE Step(h[k - 1], k)
      <3>1. CASE k = j
        <4>1. j - 1 \in 0 .. j - 1 /\ k # 0
          BY <1>2, <3>1
        <4> QED BY <2>3, <2>4, <3>1, <4>1
      <3>2. CASE k # j
        <4>1. k \in 0 .. j - 1 /\ (k # 0 => k - 1 \in 0 .. j - 1)
          BY <1>2, <3>2
        <4> QED BY <2>2, <2>3, <4>1
      <3> QED BY <3>1, <3>2
    <2>6. h = [k \in 0 .. j |-> h[k]]
      BY DEF h
    <2>7. [k \in 0 .. j |-> h[k]] = [k \in 0 .. j |-> IF k = 0 THEN start ELSE Step(h[k - 1], k)]
      BY <2>5
    <2> QED BY <2>6, <2>7
  <1>3. Are(m)
    <2>1. SUFFICES ASSUME ~Are(m) PROVE FALSE
      OBVIOUS
    <2> HIDE DEF Are
    <2>2. Bad # {} /\ Bad \in SUBSET Nat
      BY <2>1
    <2>3. PICK j \in Bad : \A k \in Bad : j <= k
      <3> HIDE DEF Bad
      <3> QED BY <2>2, LeastOf
    <2>4. j \in Nat /\ ~Are(j) /\ j # 0
      BY <1>1, <2>3
    <2>5. j - 1 \in Nat /\ ~(j <= j - 1)
      BY <2>4
    <2>6. j - 1 \notin Bad
      BY <2>3, <2>5
    <2>7. Are(j - 1)
      BY <2>5, <2>6
    <2> QED BY <1>2, <2>4, <2>7
  <1> QED BY <1>3 DEF Turns, start, Step

LEMMA InsertSegRIBsIs ==
  ASSUME NEW s, NEW set \in SUBSET ListRecs, NEW augmenting, NEW room
  PROVE  \E g : /\ Turns(g, Len(SegsOf(set)), s, set, augmenting, room)
                /\ InsertSegRIBs(s, set, augmenting, room) = g[Len(SegsOf(set))]
  <1> DEFINE N == Len(SegsOf(set))
             g == CHOOSE h : Turns(h, N, s, set, augmenting, room)
  <1>1. N \in Nat
    BY SegsOfIs
  <1> HIDE DEF N
  <1>2. \E h : Turns(h, N, s, set, augmenting, room)
    BY <1>1, TurnsAre
  <1>3. Turns(g, N, s, set, augmenting, room)
    BY <1>2
  <1>4. InsertSegRIBs(s, set, augmenting, room) = g[N]
    BY DEF InsertSegRIBs, Turns, N
  <1> QED BY <1>3, <1>4 DEF N

\* The records that are there after k segments.
Upto(H, set, k) == H \cup {r \in set : \E j \in 1 .. k : SegsOf(set)[j] = r[1]}
LEMMA UptoIs ==
  ASSUME NEW H, NEW set \in SUBSET ListRecs
  PROVE  /\ Upto(H, set, 0) = H
         /\ Upto(H, set, Len(SegsOf(set))) = H \cup set
         /\ \A k \in 1 .. Len(SegsOf(set)) :
              LET n == SegsOf(set)[k]
              IN Upto(H, set, k) = WithSegment(Upto(H, set, k - 1), n, SegOf(set, n))
  <1> DEFINE f == SegsOf(set)
             N == Len(f)
  <1>1. N \in Nat /\ \A r \in set : \E k \in 1 .. N : f[k] = r[1]
    BY SegsOfIs
  <1> HIDE DEF N, f
  <1>2. Upto(H, set, 0) = H
    BY DEF Upto
  <1>3. Upto(H, set, N) = H \cup set
    BY <1>1 DEF Upto, f
  <1>4. ASSUME NEW k \in 1 .. N PROVE Upto(H, set, k) = WithSegment(Upto(H, set, k - 1), f[k], SegOf(set, f[k]))
    <2> DEFINE n == f[k]
    <2>1. \A j : j \in 1 .. k <=> j \in 1 .. k - 1 \/ j = k
      BY <1>1
    <2> HIDE DEF n
    <2>2. \A x : x \in {<<n, c>> : c \in SegOf(set, n)} <=> x \in set /\ x[1] = n
      <3>1. ASSUME NEW x \in set, x[1] = n PROVE x \in {<<n, c>> : c \in SegOf(set, n)}
        <4>1. x = <<n, x[2]>>
          BY <3>1, RecIs
        <4>2. x[2] \in SegOf(set, n)
          BY <3>1 DEF SegOf
        <4> QED BY <4>1, <4>2
      <3>2. ASSUME NEW c \in SegOf(set, n) PROVE <<n, c>> \in set /\ <<n, c>>[1] = n
        <4>1. PICK x \in set : x[1] = n /\ x[2] = c
          BY DEF SegOf
        <4>2. x = <<n, c>>
          BY <4>1, RecIs
        <4> QED BY <4>1, <4>2
      <3> QED BY <3>1, <3>2
    <2> DEFINE E(i, x) == \E j \in 1 .. i : f[j] = x[1]
               U(i) == {r \in set : E(i, r)}
               S == {<<n, c>> : c \in SegOf(set, n)}
    <2>3. Upto(H, set, k) = H \cup U(k) /\ Upto(H, set, k - 1) = H \cup U(k - 1)
      BY DEF Upto, f
    <2>4. ASSUME NEW x PROVE E(k, x) <=> E(k - 1, x) \/ x[1] = n
      BY <2>1 DEF n
    <2> HIDE DEF E, S
    <2>5. \A x : x \in U(k) <=> x \in U(k - 1) \/ x \in S
      BY <2>2, <2>4 DEF S
    <2> HIDE DEF U
    <2>6. \A x : x \in Upto(H, set, k) <=> x \in Upto(H, set, k - 1) \/ x \in S
      BY <2>3, <2>5
    <2>8. Upto(H, set, k) = Upto(H, set, k - 1) \cup S
      BY <2>6
    <2> QED BY <2>8 DEF n, S, WithSegment
  <1> QED BY <1>2, <1>3, <1>4 DEF N, f

LEMMA UptoNext ==
  ASSUME NEW H, NEW set \in SUBSET ListRecs, NEW k \in 1 .. Len(SegsOf(set)), NEW n, n = SegsOf(set)[k]
  PROVE  Upto(H, set, k) = WithSegment(Upto(H, set, k - 1), n, SegOf(set, n))
  <1>1. \A i \in 1 .. Len(SegsOf(set)) :
           LET m == SegsOf(set)[i] IN Upto(H, set, i) = WithSegment(Upto(H, set, i - 1), m, SegOf(set, m))
    BY UptoIs
  <1> QED BY <1>1

\* How far the filing of a set has come: it goes on from a list that holds G, or is broken.
Going(a, G, augmenting) ==
  \/ a.end = "broken"
  \/ /\ a = [s |-> a.s, prev |-> a.prev, end |-> "ok"] /\ a.prev \in Nat
     /\ \E p, q, t : Built(a.s, G, p, q, t) /\ (~augmenting => Sorted(q))

LEMMA GoesOn ==
  ASSUME NEW a, NEW H, NEW set \in SUBSET ListRecs, NEW augmenting, NEW room,
         \A r \in set : \A x \in H : x[1] # r[1], ~augmenting => H = {},
         NEW k \in 1 .. Len(SegsOf(set)), Going(a, Upto(H, set, k - 1), augmenting)
  PROVE  Going(FileSegment(a, SegsOf(set)[k], set, augmenting, room), Upto(H, set, k), augmenting)
  <1> DEFINE f == SegsOf(set)
             N == Len(f)
             n == f[k]
             G == Upto(H, set, k - 1)
             o == FileSegment(a, n, set, augmenting, room)
  <1>1. /\ N \in Nat /\ n \in Nat /\ OfSegment(n, SegOf(set, n))
        /\ \A j \in 1 .. N : f[j] \in Nat
        /\ \A j \in 1 .. N : j < k => f[j] < n
    BY SegsOfIs
  <1>2. CASE a.end = "broken"
    <2>1. o = a
      BY <1>2 DEF FileSegment
    <2> HIDE DEF o
    <2> QED BY <1>2, <2>1 DEF Going, o
  <1>3. CASE a.end # "broken"
    <2>1. PICK p, q, t : Built(a.s, G, p, q, t) /\ (~augmenting => Sorted(q))
      BY <1>3 DEF Going
    <2>2. a = [s |-> a.s, prev |-> a.prev, end |-> "ok"] /\ a.prev \in Nat
      BY <1>3 DEF Going
    <2>3. PICK y \in set : y[1] = n
      <3>1. PICK c \in SegOf(set, n) : TRUE
        BY <1>1 DEF OfSegment
      <3> HIDE DEF n
      <3> QED BY <3>1 DEF SegOf
    <2>4. ASSUME NEW r \in G PROVE r[1] # n /\ (~augmenting => r[1] < n)
      <3>1. CASE r \in H
        BY <2>3, <3>1
      <3>2. CASE \E j \in 1 .. k - 1 : f[j] = r[1]
        <4>1. PICK j \in 1 .. k - 1 : f[j] = r[1]
          BY <3>2
        <4>2. j \in 1 .. N /\ j < k
          BY <1>1
        <4>3. f[j] < n /\ f[j] \in Nat
          BY <1>1, <4>2
        <4> HIDE DEF f, n
        <4> QED BY <1>1, <4>1, <4>3
      <3> QED BY <3>1, <3>2 DEF Upto
    <2> HIDE DEF G, n, f
    <2>5. ~augmenting => Sorted(q) /\ \A r \in G : r[1] < n
      BY <2>1, <2>4
    <2>6. \A r \in G : r[1] # n
      BY <2>4
    <2>7. \/ o.end = "broken"
          \/ /\ o = [s |-> o.s, prev |-> o.prev, end |-> "ok"] /\ o.prev \in Nat
             /\ \E p2, q2, t2 : /\ Built(o.s, WithSegment(G, n, SegOf(set, n)), p2, q2, t2)
                                /\ q2 # <<>> /\ (~augmenting => Sorted(q2))
      BY <1>1, <2>1, <2>2, <2>5, <2>6, FileSegmentIs
    <2>8. Upto(H, set, k) = WithSegment(G, n, SegOf(set, n))
      <3>1. n = SegsOf(set)[k]
        BY DEF n, f
      <3> QED BY <3>1, UptoNext DEF G
    <2> DEFINE W == Upto(H, set, k)
    <2> HIDE DEF o
    <2>9. \/ o.end = "broken"
          \/ /\ o = [s |-> o.s, prev |-> o.prev, end |-> "ok"] /\ o.prev \in Nat
             /\ \E p2, q2, t2 : Built(o.s, W, p2, q2, t2) /\ (~augmenting => Sorted(q2))
      BY <2>7, <2>8
    <2> HIDE DEF W
    <2>10. Going(o, W, augmenting)
      BY <2>9 DEF Going
    <2> QED BY <2>10 DEF o, W, n, f
  <1> QED BY <1>2, <1>3

LEMMA FiledAll ==
  ASSUME NEW s, NEW H, NEW p, NEW q, NEW t, Built(s, H, p, q, t),
         NEW set \in SUBSET ListRecs, set # {}, NEW augmenting, NEW room,
         \A r \in set : \A x \in H : x[1] # r[1], ~augmenting => H = {} /\ q = <<>>
  PROVE  LET o == InsertSegRIBs(s, set, augmenting, room) IN
         \/ o.end = "broken"
         \/ /\ o.end = "ok"
            /\ \E p2, q2, t2 : Built(o.s, H \cup set, p2, q2, t2) /\ q2 # <<>> /\ (~augmenting => Sorted(q2))
  <1> DEFINE N == Len(SegsOf(set))
  <1>1. N \in Nat
    BY SegsOfIs
  <1>2. PICK g : Turns(g, N, s, set, augmenting, room) /\ InsertSegRIBs(s, set, augmenting, room) = g[N]
    BY InsertSegRIBsIs
  <1>3. /\ g[0] = [s |-> s, prev |-> 1, end |-> "ok"]
        /\ \A k \in 1 .. N : g[k] = FileSegment(g[k - 1], SegsOf(set)[k], set, augmenting, room)
    <2> DEFINE start == [s |-> s, prev |-> 1, end |-> "ok"]
               Step(a, k) == FileSegment(a, SegsOf(set)[k], set, augmenting, room)
    <2>1. g = [k \in 0 .. N |-> IF k = 0 THEN start ELSE Step(g[k - 1], k)]
      BY <1>2 DEF Turns
    <2> HIDE DEF start, Step, N
    <2>2. \A k \in 0 .. N : g[k] = IF k = 0 THEN start ELSE Step(g[k - 1], k)
      BY <2>1
    <2>3. g[0] = start /\ \A k \in 1 .. N : g[k] = Step(g[k - 1], k)
      BY <1>1, <2>2
    <2> QED BY <2>3 DEF start, Step
  <1> DEFINE Ok(k) == Going(g[k], Upto(H, set, k), augmenting)
             Bad == {k \in 0 .. N : ~Ok(k)}
  <1>4. Ok(0)
    <2>1. Upto(H, set, 0) = H
      BY UptoIs
    <2>2. ~augmenting => Sorted(q)
      BY DEF Sorted
    <2>3. g[0].s = s /\ g[0] = [s |-> g[0].s, prev |-> g[0].prev, end |-> "ok"] /\ g[0].prev \in Nat
      BY <1>3
    <2> QED BY <2>1, <2>2, <2>3 DEF Going
  <1>5. ASSUME NEW k \in 1 .. N, Ok(k - 1) PROVE Ok(k)
    <2> DEFINE a == g[k - 1]
    <2>1. g[k] = FileSegment(a, SegsOf(set)[k], set, augmenting, room)
      BY <1>3
    <2>2. Going(a, Upto(H, set, k - 1), augmenting)
      BY <1>5
    <2> HIDE DEF a
    <2>3. Going(FileSegment(a, SegsOf(set)[k], set, augmenting, room), Upto(H, set, k), augmenting)
      BY <2>2, GoesOn
    <2> QED BY <2>1, <2>3
  <1> HIDE DEF Ok, N
  <1>6. Ok(N)
    <2>1. SUFFICES ASSUME ~Ok(N) PROVE FALSE
      OBVIOUS
    <2>2. Bad # {} /\ Bad \in SUBSET Nat
      BY <1>1, <2>1
    <2>3. PICK j \in Bad : \A k \in Bad : j <= k
      <3> HIDE DEF Bad
      <3> QED BY <2>2, LeastOf
    <2>4. j \in 1 .. N /\ ~Ok(j)
      <3>1. j \in 0 .. N /\ ~Ok(j) /\ j # 0
        BY <1>4, <2>3
      <3> QED BY <1>1, <3>1
    <2>5. j - 1 \in 0 .. N /\ ~(j <= j - 1)
      BY <1>1, <2>4
    <2>6. j - 1 \notin Bad
      BY <2>3, <2>5
    <2>7. Ok(j - 1)
      BY <2>5, <2>6
    <2> QED BY <1>5, <2>4, <2>7
  <1> DEFINE o == InsertSegRIBs(s, set, augmenting, room)
             G == H \cup set
  <1>7. Upto(H, set, N) = G
    BY UptoIs DEF N
  <1>8. Going(o, G, augmenting)
    BY <1>2, <1>6, <1>7 DEF Ok
  <1>9. G # {}
    OBVIOUS
  <1> HIDE DEF o, G
  <1>10. ASSUME NEW p2, NEW q2, NEW t2, Built(o.s, G, p2, q2, t2) PROVE q2 # <<>>
    <2>1. SUFFICES ASSUME q2 = <<>> PROVE FALSE
      OBVIOUS
    <2>2. Range(q2) = {}
      BY <2>1 DEF Range
    <2>3. G = {}
      BY <1>10, <2>2 DEF Built, Told
    <2> QED BY <1>9, <2>3
  <1>11. CASE o.end = "broken"
    BY <1>11 DEF o
  <1>12. CASE o.end # "broken"
    <2>1. o.end = "ok" /\ \E p2, q2, t2 : Built(o.s, G, p2, q2, t2) /\ (~augmenting => Sorted(q2))
      BY <1>8, <1>12 DEF Going
    <2>2. \E p2, q2, t2 : Built(o.s, G, p2, q2, t2) /\ q2 # <<>> /\ (~augmenting => Sorted(q2))
      BY <1>10, <2>1
    <2> QED BY <2>1, <2>2 DEF o, G
  <1> QED BY <1>11, <1>12

---------------------------------------------------------------------------
(* RIBs are cleared away.                                                    *)
\* The RIBs of other segments stay as they are, and their places; the rest of table D's is free.
KeptRibs(q, segs) == {b \in Range(q) : b.seg \notin segs}
Apart(H, segs) == {r \in H : r[1] \notin segs}
LEMMA KeptFit ==
  ASSUME NEW p, NEW R, NEW t, Fit(p, R, t), NEW segs, NEW u, IsStore(u),
         NEW Q, Q = {b \in R : b.seg \notin segs},
         \A z \in Places : u[z] = IF \E b \in R : b.seg \in segs /\ b.place = z THEN Vacant ELSE t[z]
  PROVE  Fit(p, Q, u) /\ Told(Q, u) = Apart(Told(R, t), segs)
  <1>1. p \in Places /\ t[p] = Vacant /\ u[p] = Vacant
    BY FitIs
  <1>2. ASSUME NEW b \in Q PROVE Sound(b, u) /\ RecsIn(b, u) = RecsIn(b, t)
    <2>1. Sound(b, t) /\ b \in R
      BY FitIs
    <2>2. b.place # 0 => u[b.place] = t[b.place]
      <3>1. SUFFICES ASSUME b.place # 0 PROVE u[b.place] = t[b.place]
        OBVIOUS
      <3>2. b.place \in Places
        BY <2>1, <3>1, SoundIs
      <3>3. ~\E c \in R : c.seg \in segs /\ c.place = b.place
        BY <2>1, <3>1, FitIs
      <3> QED BY <3>2, <3>3
    <2> QED BY <2>1, <2>2, SoundStays
  <1>3. \A b, c \in Q : b.seg = c.seg \/ (b.place = c.place /\ b.place # 0) => b = c
    BY FitIs
  <1>4. ASSUME NEW z \in Places, u[z] # Vacant PROVE \E b \in Q : b.place = z
    <2>1. u[z] = t[z] /\ ~\E b \in R : b.seg \in segs /\ b.place = z
      BY <1>4
    <2>2. PICK b \in R : b.place = z
      BY <1>4, <2>1, FitIs
    <2> QED BY <2>1, <2>2
  <1>5. Fit(p, Q, u)
    BY <1>1, <1>2, <1>3, <1>4 DEF Fit
  <1>6. ASSUME NEW x PROVE x \in Told(Q, u) <=> x \in Told(R, t) /\ x[1] \notin segs
    <2>1. x \in Told(Q, u) <=> \E b \in Q : \E a \in RecsIn(b, u) : x = <<b.seg, a>>
      BY ToldIs
    <2>2. x \in Told(R, t) <=> \E b \in R : \E a \in RecsIn(b, t) : x = <<b.seg, a>>
      BY ToldIs
    <2>3. ASSUME x \in Told(Q, u) PROVE x \in Told(R, t) /\ x[1] \notin segs
      <3>1. PICK b \in Q : \E a \in RecsIn(b, u) : x = <<b.seg, a>>
        BY <2>1, <2>3
      <3>2. PICK a \in RecsIn(b, t) : x = <<b.seg, a>>
        BY <1>2, <3>1
      <3> QED BY <2>2, <3>2
    <2>4. ASSUME x \in Told(R, t), x[1] \notin segs PROVE x \in Told(Q, u)
      <3>1. PICK b \in R : \E a \in RecsIn(b, t) : x = <<b.seg, a>>
        BY <2>2, <2>4
      <3>2. b \in Q
        BY <2>4, <3>1
      <3>3. \E a \in RecsIn(b, u) : x = <<b.seg, a>>
        BY <1>2, <3>1, <3>2
      <3> QED BY <2>1, <3>2, <3>3
    <2> QED BY <2>3, <2>4
  <1>7. Told(Q, u) = Apart(Told(R, t), segs)
    BY <1>6 DEF Apart
  <1> QED BY <1>5, <1>7

\* Part of a sequence of RIBs, in its order.
LEMMA PartIs ==
  ASSUME NEW q \in Seq(Ribs), Sorted(q), NEW K \in SUBSET DOMAIN q,
         NEW q2, q2 = [i \in DOMAIN Ascending(K) |-> q[Ascending(K)[i]]]
  PROVE  /\ q2 \in Seq(Ribs) /\ Sorted(q2) /\ (K # {} => q2 # <<>>)
         /\ Range(q2) = {q[x] : x \in K}
  <1> DEFINE f == Ascending(K)
             N == Cardinality(K)
  <1>1. DOMAIN q = 1 .. Len(q) /\ Len(q) \in Nat /\ \A i \in 1 .. Len(q) : q[i] \in Ribs
    BY RibSeq
  <1>2. K \in SUBSET Nat /\ IsFiniteSet(K)
    <2>1. IsFiniteSet(1 .. Len(q))
      BY <1>1, FS_Interval
    <2> QED BY <1>1, <2>1, FS_Subset
  <1>3. /\ N \in Nat /\ DOMAIN f = 1 .. N
        /\ \A k \in 1 .. N : f[k] \in K
        /\ \A x \in K : \E k \in 1 .. N : f[k] = x
        /\ \A j, k \in 1 .. N : j < k => f[j] < f[k]
    BY <1>2, AscendingIs
  <1> HIDE DEF f, N
  <1>4. DOMAIN q2 = 1 .. N /\ \A i \in 1 .. N : q2[i] = q[f[i]] /\ f[i] \in DOMAIN q /\ q2[i] \in Ribs
    <2>1. q2 = [i \in 1 .. N |-> q[f[i]]]
      BY <1>3 DEF f
    <2> QED BY <1>1, <1>3, <2>1
  <1>5. q2 \in Seq(Ribs)
    <2>1. q2 = [i \in 1 .. N |-> q2[i]]
      BY <1>3 DEF f
    <2>2. q2 \in [1 .. N -> Ribs]
      BY <1>4, <2>1
    <2> QED BY <1>3, <2>2
  <1>6. Sorted(q2)
    <2>1. SUFFICES ASSUME NEW x \in DOMAIN q2, NEW y \in DOMAIN q2, x < y PROVE q2[x].seg < q2[y].seg
      BY DEF Sorted
    <2>2. f[x] < f[y] /\ f[x] \in DOMAIN q /\ f[y] \in DOMAIN q
      BY <1>3, <1>4, <2>1
    <2> QED BY <1>4, <2>1, <2>2 DEF Sorted
  <1>7. K # {} => q2 # <<>>
    <2>1. SUFFICES ASSUME NEW x \in K PROVE q2 # <<>>
      OBVIOUS
    <2>2. PICK k \in 1 .. N : f[k] = x
      BY <1>3
    <2>3. k \in DOMAIN q2
      BY <1>4
    <2> QED BY <2>3
  <1>8. Range(q2) = {q[x] : x \in K}
    <2>1. ASSUME NEW i \in DOMAIN q2 PROVE q2[i] \in {q[x] : x \in K}
      BY <1>3, <1>4
    <2>2. ASSUME NEW x \in K PROVE q[x] \in Range(q2)
      <3>1. PICK k \in 1 .. N : f[k] = x
        BY <1>3
      <3> QED BY <1>4, <3>1 DEF Range
    <2> QED BY <2>1, <2>2 DEF Range
  <1> QED BY <1>5, <1>6, <1>7, <1>8

LEMMA ClearedIs ==
  ASSUME NEW s, NEW H, NEW p, NEW q, NEW t, Filed(s, H, p, q, t), NEW segs
  PROVE  LET u == Cleared(s, segs) IN
         \/ u = Empty /\ \A r \in H : r[1] \in segs
         \/ \E q2, t2 : Filed(u, Apart(H, segs), p, q2, t2)
  <1> DEFINE I == [kind |-> "ilmr", ribs |-> q]
             R == Range(q)
             go == {x \in DOMAIN q : q[x].seg \in segs}
             freed == {q[x].place : x \in go}
             F == [z \in Places |-> IF z \in freed THEN Vacant ELSE s.store[z]]
             v == [s EXCEPT !.store = F]
             u == Cleared(s, segs)
             t2 == [z \in Places |-> IF z \in freed THEN Vacant ELSE t[z]]
  <1>1. /\ s = State(p, q, t) /\ RIBs(s) = q /\ s.entry.form = "ilmr" /\ s.entry.place = p
        /\ q \in Seq(Ribs) /\ DOMAIN q = 1 .. Len(q) /\ Len(q) \in Nat \ {0} /\ Sorted(q)
        /\ Fit(p, R, t) /\ p \in Places /\ IsStore(t) /\ t[p] = Vacant /\ H = Told(R, t)
        /\ \A x \in DOMAIN q : q[x] \in R /\ q[x].place # p
        /\ \A r \in H : \E x \in DOMAIN q : r[1] = q[x].seg
    BY FiledIs
  <1>2. s.entry = Listed(p) /\ s.store[p] = I /\ \A z \in Places : z # p => s.store[z] = t[z]
    <2>1. s.store[p] = I
      BY <1>1, StorePut DEF State
    <2> QED BY <1>1, <2>1, StateIs
  <1>3. p \notin freed
    BY <1>1
  <1>4. v = [entry |-> Listed(p), store |-> F]
    <2> HIDE DEF F
    <2> QED BY <1>1 DEF State
  <1>5. IsStore(F) /\ IsStore(t2) /\ F[p] = I /\ t2[p] = Vacant
        /\ \A z \in Places : t2[z] = (IF z \in freed THEN Vacant ELSE t[z]) /\ (z # p => F[z] = t2[z])
    BY <1>1, <1>2, <1>3 DEF IsStore
  <1>6. \A z \in Places : z \in freed <=> \E b \in R : b.seg \in segs /\ b.place = z
    BY <1>1 DEF Range
  <1>7. \A b : b \in R <=> \E x \in DOMAIN q : b = q[x]
    BY DEF Range
  <1> HIDE DEF F, t2, I
  <1>8. CASE go = DOMAIN q
    <2>1. \A r \in H : r[1] \in segs
      BY <1>1, <1>8
    <2>2. \A z \in Places : t2[z] = Vacant
      <3>1. \A b \in R : b.seg \in segs
        BY <1>7, <1>8
      <3>2. \A z \in Places : t[z] = Vacant \/ \E b \in R : b.place = z
        BY <1>1, FitIs
      <3> HIDE DEF R, freed
      <3> QED BY <1>5, <1>6, <3>1, <3>2
    <2> DEFINE E == [F EXCEPT ![p] = Vacant]
    <2>3. E = NoStore
      <3>1. IsStore(E) /\ E[p] = Vacant /\ \A y \in Places : y # p => E[y] = F[y]
        BY <1>1, <1>5, StorePut
      <3> HIDE DEF E
      <3>2. IsStore(NoStore) /\ \A y \in Places : E[y] = NoStore[y]
        BY <1>5, <2>2, <3>1 DEF NoStore, IsStore
      <3> QED BY <3>1, <3>2, SameStore
    <2>4. u = [Give(v, p) EXCEPT !.entry = INDEX_INVALID]
      BY <1>1, <1>8 DEF Cleared, F
    <2>5. Give(v, p) = [entry |-> Listed(p), store |-> E]
      <3> HIDE DEF v
      <3> QED BY <1>4 DEF Give
    <2>6. u = Empty
      <3> HIDE DEF v, E, u
      <3>1. [Give(v, p) EXCEPT !.entry = INDEX_INVALID] = [entry |-> INDEX_INVALID, store |-> E]
        BY <2>5
      <3> QED BY <2>3, <2>4, <3>1 DEF Empty
    <2> QED BY <2>1, <2>6
  <1>9. CASE go # DOMAIN q
    <2> DEFINE K == DOMAIN q \ go
               q2 == [i \in DOMAIN Ascending(K) |-> q[Ascending(K)[i]]]
               Q == {b \in R : b.seg \notin segs}
               G == Apart(H, segs)
    <2>1. u = SetRIBs(v, q2)
      BY <1>1, <1>9 DEF Cleared, F
    <2>2. K # {} /\ K \in SUBSET DOMAIN q
      BY <1>9
    <2>3. q2 \in Seq(Ribs) /\ Sorted(q2) /\ q2 # <<>> /\ Range(q2) = {q[x] : x \in K}
      <3> HIDE DEF K
      <3>1. q2 = [i \in DOMAIN Ascending(K) |-> q[Ascending(K)[i]]]
        OBVIOUS
      <3> HIDE DEF q2
      <3> QED BY <1>1, <2>2, <3>1, PartIs
    <2>4. Range(q2) = Q
      <3>1. {q[x] : x \in K} = Q
        BY <1>7
      <3> QED BY <2>3, <3>1
    <2> HIDE DEF q2, K
    <2>5. Fit(p, Q, t2) /\ Told(Q, t2) = G
      <3>1. \A z \in Places : t2[z] = IF \E b \in R : b.seg \in segs /\ b.place = z THEN Vacant ELSE t[z]
        BY <1>5, <1>6
      <3>2. Q = {b \in R : b.seg \notin segs}
        OBVIOUS
      <3> HIDE DEF R, Q, freed
      <3> QED BY <1>1, <1>5, <3>1, <3>2, KeptFit
    <2>6. v = State(p, q, t2)
      <3> DEFINE E == [t2 EXCEPT ![p] = I]
      <3>1. IsStore(E) /\ E[p] = I /\ \A y \in Places : y # p => E[y] = t2[y]
        BY <1>1, <1>5, StorePut
      <3> HIDE DEF E
      <3>2. \A y \in Places : E[y] = F[y]
        BY <1>5, <3>1
      <3>3. E = F
        BY <1>5, <3>1, <3>2, SameStore
      <3> QED BY <1>4, <3>3 DEF State, E, I
    <2>7. u = State(p, q2, t2)
      <3> HIDE DEF u, v
      <3>1. SetRIBs(State(p, q, t2), q2) = State(p, q2, t2)
        BY <1>1, <1>5, SetRIBsIs
      <3> QED BY <2>1, <2>6, <3>1
    <2> HIDE DEF u, G, Q
    <2>8. Filed(u, G, p, q2, t2)
      BY <2>3, <2>4, <2>5, <2>7 DEF Filed
    <2> QED BY <2>8 DEF u, G
  <1> QED BY <1>8, <1>9

\* With one record or none, the entry goes.
LEMMA ClearedAll ==
  ASSUME NEW s, NEW e, s = [entry |-> e, store |-> NoStore], e.form # "ilmr", NEW segs
  PROVE  Cleared(s, segs) = Empty
  <1> DEFINE go == {x \in DOMAIN RIBs(s) : RIBs(s)[x].seg \in segs}
             freed == {RIBs(s)[x].place : x \in go}
             F == [z \in Places |-> IF z \in freed THEN Vacant ELSE s.store[z]]
  <1>1. s.entry.form # "ilmr" /\ \A z \in Places : s.store[z] = Vacant
    BY DEF NoStore
  <1>2. F = NoStore
    BY <1>1 DEF NoStore
  <1>3. Cleared(s, segs) = [[s EXCEPT !.store = F] EXCEPT !.entry = INDEX_INVALID]
    BY <1>1 DEF Cleared
  <1> HIDE DEF F
  <1> QED BY <1>2, <1>3 DEF Empty

---------------------------------------------------------------------------
(* The operations on sets.                                                   *)
\* How the filing of a set ends: with one record, or with RIBs that are in order if the order is not lost.
Filing(o, G, augmenting) ==
  \/ o.end = "broken"
  \/ o.end = "ok" /\ Holds(o.s, G)
  \/ o.end = "ok" /\ \E p, q, t : Built(o.s, G, p, q, t) /\ q # <<>> /\ (~augmenting => Sorted(q))

LEMMA EmptyIs ==
  /\ Empty = [entry |-> INDEX_INVALID, store |-> NoStore] /\ Empty.entry.form = "invalid" /\ RIBs(Empty) = <<>>
  /\ Holds(Empty, {})
  BY DEF Empty, INDEX_INVALID, RIBs, Holds

LEMMA FileNewIs ==
  ASSUME NEW set \in SUBSET ListRecs, set # {}, NEW augmenting, NEW room
  PROVE  Filing(FileNew(Empty, set, augmenting, room), set, augmenting)
  <1> DEFINE s == Empty
             o == FileNew(s, set, augmenting, room)
             z == NewPlace(s)
             q == <<>>
             u == NewILMR(s, q)
  <1>1. IsFiniteSet(set)
    BY FS_Subset, ListAssumption
  <1>2. CASE Cardinality(set) = 1
    <2>1. PICK r : set = {r}
      BY <1>1, <1>2, FS_Singleton
    <2>2. (CHOOSE x \in set : TRUE) = r /\ r \in ListRecs
      BY <2>1
    <2> DEFINE v == [s EXCEPT !.entry = Unique(r)]
    <2>3. o = Done(v, TRUE)
      BY <1>2, <2>2 DEF FileNew
    <2>4. Holds(v, set)
      BY <2>1, <2>2 DEF Holds
    <2> HIDE DEF v, o
    <2>5. o.end = "ok" /\ o.s = v
      BY <2>3, DoneIs
    <2>6. Filing(o, set, augmenting)
      BY <2>4, <2>5 DEF Filing
    <2> QED BY <2>6 DEF o
  <1>3. CASE Cardinality(set) # 1 /\ ~HasPlace(s)
    <2> DEFINE benign == FALSE
    <2>1. o = Full(s, benign)
      BY <1>3 DEF FileNew
    <2> HIDE DEF benign, o
    <2>2. o.end = IF benign THEN "benign" ELSE "broken"
      BY <2>1, FullIs
    <2>3. Filing(o, set, augmenting)
      BY <2>2 DEF Filing, benign
    <2> QED BY <2>3 DEF o
  <1>4. CASE Cardinality(set) # 1 /\ HasPlace(s)
    <2>1. o = InsertSegRIBs(u, set, augmenting, room)
      BY <1>4 DEF FileNew
    <2>2. z \in Places /\ u = State(z, q, NoStore)
      <3> HIDE DEF q
      <3>1. s = [entry |-> INDEX_INVALID, store |-> NoStore]
        BY EmptyIs
      <3> HIDE DEF s
      <3> QED BY <1>4, <3>1, NewILMRIs
    <2> DEFINE R == {}
    <2>3. q \in Seq(Ribs) /\ Range(q) = R /\ Sorted(q)
      BY DEF Range, Sorted
    <2> HIDE DEF z, u, q
    <2>4. Fit(z, R, NoStore) /\ Told(R, NoStore) = R
      BY <2>2, NewFits
    <2>5. Built(u, R, z, q, NoStore)
      BY <2>2, <2>3, <2>4 DEF Built
    <2>6. \A r \in set : \A x \in R : x[1] # r[1]
      OBVIOUS
    <2>7. ~augmenting => R = {} /\ q = <<>>
      BY DEF q
    <2> HIDE DEF R
    <2>8. \/ o.end = "broken"
          \/ /\ o.end = "ok"
             /\ \E p2, q2, t2 : Built(o.s, R \cup set, p2, q2, t2) /\ q2 # <<>> /\ (~augmenting => Sorted(q2))
      <3> HIDE DEF o
      <3> DEFINE w == InsertSegRIBs(u, set, augmenting, room)
      <3>1. \/ w.end = "broken"
            \/ /\ w.end = "ok"
               /\ \E p2, q2, t2 : Built(w.s, R \cup set, p2, q2, t2) /\ q2 # <<>> /\ (~augmenting => Sorted(q2))
        BY <2>5, <2>6, <2>7, FiledAll
      <3> QED BY <2>1, <3>1
    <2>9. R \cup set = set
      BY DEF R
    <2> HIDE DEF o
    <2>10. Filing(o, set, augmenting)
      BY <2>8, <2>9 DEF Filing
    <2> QED BY <2>10 DEF o
  <1> QED BY <1>2, <1>3, <1>4

LEMMA BuiltSorted ==
  ASSUME NEW s, NEW H, NEW p, NEW q, NEW t, Built(s, H, p, q, t), q # <<>>, Sorted(q)
  PROVE  Holds(s, H)
  <1>1. Filed(s, H, p, q, t)
    BY DEF Built, Filed
  <1> QED BY <1>1 DEF Holds

\* A list is of one of three kinds.
LEMMA HoldsIs ==
  ASSUME NEW s, NEW H, Holds(s, H)
  PROVE  /\ H \subseteq ListRecs
         /\ \/ s = Empty /\ H = {} /\ s = [entry |-> INDEX_INVALID, store |-> NoStore]
            \/ \E r \in ListRecs : s = [entry |-> Unique(r), store |-> NoStore] /\ H = {r}
            \/ \E p, q, t : Filed(s, H, p, q, t)
         /\ IteratedSet(s) = H
  <1>1. CASE s = Empty /\ H = {}
    <2>1. s.entry.form = "invalid" /\ RIBs(s) = <<>>
      BY <1>1, EmptyIs
    <2>2. IteratedSet(s) = {}
      BY <2>1 DEF IteratedSet, Range
    <2> QED BY <1>1, <2>2, EmptyIs
  <1>2. ASSUME NEW r \in ListRecs, s = [Empty EXCEPT !.entry = Unique(r)], H = {r}
        PROVE  s = [entry |-> Unique(r), store |-> NoStore] /\ IteratedSet(s) = H
    <2>1. s = [entry |-> Unique(r), store |-> NoStore]
      BY <1>2 DEF Empty
    <2>2. s.entry.form = "unique" /\ s.entry.rec = r
      BY <2>1 DEF Unique
    <2> QED BY <1>2, <2>1, <2>2 DEF IteratedSet
  <1>3. ASSUME NEW p, NEW q, NEW t, Filed(s, H, p, q, t)
        PROVE  H \subseteq ListRecs /\ IteratedSet(s) = H
    <2>1. /\ RIBs(s) = q /\ s.entry.form = "ilmr" /\ H = Told(Range(q), t) /\ H \subseteq ListRecs
          /\ \A x \in DOMAIN q : RIBRecs(s, q[x]) = RecsIn(q[x], t)
      BY <1>3, FiledIs
    <2>2. \A b \in Range(q) : RIBRecs(s, b) = RecsIn(b, t)
      BY <2>1 DEF Range
    <2>3. IteratedSet(s) = UNION {{<<b.seg, a>> : a \in RIBRecs(s, b)} : b \in Range(q)}
      BY <2>1 DEF IteratedSet
    <2>4. IteratedSet(s) = Told(Range(q), t)
      BY <2>2, <2>3 DEF Told
    <2> QED BY <2>1, <2>4
  <1> QED BY <1>1, <1>2, <1>3 DEF Holds

LEMMA FiledNotEmpty ==
  ASSUME NEW s, NEW H, NEW p, NEW q, NEW t, Filed(s, H, p, q, t)
  PROVE  H # {}
  <1>1. 1 \in DOMAIN q
    BY FiledIs
  <1>2. Sound(q[1], t) /\ \A a : <<q[1].seg, a>> \in H <=> a \in RecsIn(q[1], t)
    BY <1>1, FiledIs
  <1> QED BY <1>2 DEF Sound

LEMMA ReplaceSetIs ==
  ASSUME NEW s, NEW H, Holds(s, H), NEW set \in SUBSET ListRecs, NEW room
  PROVE  Outcome(ReplaceRecordSet(s, set, room), H, set)
  <1> DEFINE u == Cleared(s, AllSegs)
             o == ReplaceRecordSet(s, set, room)
  <1>1. u = Empty
    <2>1. CASE \E e : s = [entry |-> e, store |-> NoStore] /\ e.form # "ilmr"
      BY <2>1, ClearedAll
    <2>2. ASSUME NEW p, NEW q, NEW t, Filed(s, H, p, q, t) PROVE u = Empty
      <3>1. \/ u = Empty /\ \A r \in H : r[1] \in AllSegs
            \/ \E q2, t2 : Filed(u, Apart(H, AllSegs), p, q2, t2)
        BY <2>2, ClearedIs
      <3>2. Apart(H, AllSegs) = {}
        BY HoldsIs DEF Apart, AllSegs
      <3> QED BY <3>1, <3>2, FiledNotEmpty
    <2>3. INDEX_INVALID.form # "ilmr" /\ \A r : Unique(r).form # "ilmr"
      BY DEF INDEX_INVALID, Unique
    <2> QED BY <2>1, <2>2, <2>3, HoldsIs
  <1>2. o = IF set = {} THEN Done(u, TRUE) ELSE FileNew(u, set, FALSE, room)
    BY DEF ReplaceRecordSet
  <1> HIDE DEF u, o
  <1>3. CASE set = {}
    <2>1. o = Done(u, TRUE) /\ Holds(u, set)
      BY <1>1, <1>2, <1>3, EmptyIs
    <2>2. Outcome(o, H, set)
      BY <2>1, OutcomeOk
    <2> QED BY <2>2 DEF o
  <1>4. CASE set # {}
    <2> DEFINE augmenting == FALSE
    <2>1. o = FileNew(Empty, set, augmenting, room)
      BY <1>1, <1>2, <1>4
    <2> HIDE DEF augmenting
    <2>2. Filing(o, set, augmenting)
      BY <1>4, <2>1, FileNewIs
    <2>3. Outcome(o, H, set)
      BY <2>2, BuiltSorted DEF Filing, Outcome, augmenting
    <2> QED BY <2>3 DEF o
  <1> QED BY <1>3, <1>4

LEMMA AugmentSetIs ==
  ASSUME NEW s, NEW H, Holds(s, H), NEW set \in SUBSET ListRecs, set # {}, NEW room
  PROVE  Filing(AugmentRecordSet(s, set, room), H \cup set, TRUE)
  <1> DEFINE segs == {r[1] : r \in set}
             u == Cleared(s, segs)
             O == Overlapping(s, set)
             both == set \cup O
             o == AugmentRecordSet(s, set, room)
             G == H \cup set
             augmenting == TRUE
  <1>1. o = IF RIBs(u) = <<>> THEN FileNew(u, both, augmenting, room) ELSE InsertSegRIBs(u, both, augmenting, room)
    BY DEF AugmentRecordSet
  <1>2. O = {r \in H : s.entry.form = "unique" \/ r[1] \in segs}
    BY HoldsIs DEF Overlapping
  <1>3. H \subseteq ListRecs
    BY HoldsIs
  <1>4. both \in SUBSET ListRecs /\ both # {}
    BY <1>2, <1>3
  <1>5. \A r \in set : r[1] \in segs
    OBVIOUS
  <1> HIDE DEF augmenting, both, o, u, segs, O, G
  <1>6. CASE u = Empty /\ O = H
    <2>1. both = G
      BY <1>6 DEF both, G
    <2>2. o = FileNew(Empty, both, augmenting, room)
      BY <1>1, <1>6, EmptyIs
    <2>3. Filing(o, both, augmenting)
      BY <1>4, <2>2, FileNewIs
    <2> QED BY <2>1, <2>3 DEF augmenting, o, G
  <1>7. ASSUME NEW p, NEW q, NEW t, Filed(s, H, p, q, t)
        PROVE  Filing(o, G, augmenting)
    <2>1. s.entry.form = "ilmr"
      BY <1>7, FiledIs
    <2>2. O = {r \in H : r[1] \in segs}
      BY <1>2, <2>1
    <2>3. CASE u = Empty /\ \A r \in H : r[1] \in segs
      <3>1. O = H
        BY <2>2, <2>3
      <3> QED BY <1>6, <2>3, <3>1 DEF o, G, augmenting
    <2>4. CASE \E q2, t2 : Filed(u, Apart(H, segs), p, q2, t2)
      <3> DEFINE K == Apart(H, segs)
      <3>1. PICK q2, t2 : Filed(u, K, p, q2, t2)
        BY <2>4
      <3>2. \A r \in K : r[1] \notin segs
        BY DEF Apart
      <3>3. K \cup both = G
        BY <2>2 DEF Apart, both, G
      <3> HIDE DEF K
      <3>4. RIBs(u) = q2 /\ q2 # <<>> /\ Built(u, K, p, q2, t2)
        BY <3>1, FiledIs DEF Filed, Built
      <3>5. \A r \in both : \A x \in K : x[1] # r[1]
        <4>1. \A r \in both : r[1] \in segs
          BY <1>5, <2>2 DEF both
        <4> QED BY <3>2, <4>1
      <3> DEFINE w == InsertSegRIBs(u, both, augmenting, room)
      <3>6. o = w
        BY <1>1, <3>4
      <3>7. ~augmenting => K = {} /\ q2 = <<>>
        BY DEF augmenting
      <3>8. \/ w.end = "broken"
            \/ /\ w.end = "ok"
               /\ \E p2, q3, t3 : Built(w.s, K \cup both, p2, q3, t3) /\ q3 # <<>> /\ (~augmenting => Sorted(q3))
        BY <1>4, <3>4, <3>5, <3>7, FiledAll
      <3> HIDE DEF w
      <3> QED BY <3>3, <3>6, <3>8 DEF Filing
    <2> QED BY <1>7, <2>3, <2>4, ClearedIs DEF u
  <1>8. ASSUME NEW e, s = [entry |-> e, store |-> NoStore], e.form # "ilmr", e.form = "unique" \/ H = {}
        PROVE  Filing(o, G, augmenting)
    <2>1. u = Empty
      BY <1>8, ClearedAll DEF u
    <2>2. O = H
      BY <1>2, <1>8
    <2> QED BY <1>6, <2>1, <2>2 DEF o, G, augmenting
  <1>9. INDEX_INVALID.form = "invalid" /\ \A r : Unique(r).form = "unique"
    BY DEF INDEX_INVALID, Unique
  <1>10. Filing(o, G, augmenting)
    BY <1>7, <1>8, <1>9, HoldsIs
  <1> QED BY <1>10 DEF o, G, augmenting
---------------------------------------------------------------------------
(* What a list that holds its records shows.                                 *)
Shown(s, H) ==
  /\ IteratedSet(s) = H
  /\ (s.entry = INDEX_INVALID) = (H = {})
  /\ Ordered(s)
  /\ \A rib \in Range(RIBs(s)) :
       rib.place # 0 => /\ s.store[rib.place].kind = rib.kind
                        /\ rib.kind = "bitmap" => s.store[rib.place].count = Cardinality(RIBRecs(s, rib))
                        /\ rib.kind = "array" => Cardinality(RIBRecs(s, rib)) \in 1 .. DLIST_MAXRECS
  /\ Cardinality({p \in Places : s.store[p] # Vacant})
       = Cardinality({x \in DOMAIN RIBs(s) : RIBs(s)[x].place # 0}) + (IF s.entry.form = "ilmr" THEN 1 ELSE 0)
  /\ \A n \in AllSegs : LET base == {r \in ListRecs : r[1] = n /\ r[2] # 0} IN Unload(s, base) = H \cap base

\* Each place that is taken is the ILMR's or one RIB's.
LEMMA PlacesTaken ==
  ASSUME NEW s, NEW H, NEW p, NEW q, NEW t, Filed(s, H, p, q, t)
  PROVE  Cardinality({z \in Places : s.store[z] # Vacant}) = Cardinality({x \in DOMAIN q : q[x].place # 0}) + 1
  <1> DEFINE A == {z \in Places : s.store[z] # Vacant}
             X == {x \in DOMAIN q : q[x].place # 0}
             B == {z \in Places : t[z] # Vacant}
             f == [x \in X |-> q[x].place]
  <1>1. /\ s = State(p, q, t) /\ DOMAIN q = 1 .. Len(q) /\ Len(q) \in Nat /\ q \in Seq(Ribs) /\ Sorted(q)
        /\ Fit(p, Range(q), t) /\ p \in Places /\ IsStore(t) /\ t[p] = Vacant
        /\ \A x \in DOMAIN q : q[x] \in Range(q) /\ Sound(q[x], t)
    BY FiledIs
  <1>2. (\A z \in Places : z # p => s.store[z] = t[z]) /\ s.store[p] # Vacant
    BY <1>1, StateIs
  <1>3. A = B \cup {p} /\ p \notin B
    BY <1>1, <1>2
  <1>4. IsFiniteSet(X)
    <2>1. IsFiniteSet(1 .. Len(q)) /\ X \subseteq 1 .. Len(q)
      BY <1>1, FS_Interval
    <2> QED BY <2>1, FS_Subset
  <1>5. \A x \in X : f[x] \in B
    <2>1. SUFFICES ASSUME NEW x \in X PROVE q[x].place \in B
      OBVIOUS
    <2>2. Sound(q[x], t) /\ q[x].place # 0
      BY <1>1
    <2> QED BY <2>2, SoundIs
  <1>6. \A x, y \in X : f[x] = f[y] => x = y
    <2>1. SUFFICES ASSUME NEW x \in X, NEW y \in X, q[x].place = q[y].place PROVE x = y
      OBVIOUS
    <2>2. q[x] = q[y]
      BY <1>1, <2>1, FitIs
    <2> QED BY <1>1, <2>2, SegOnce
  <1>7. \A z \in B : \E x \in X : f[x] = z
    <2>1. SUFFICES ASSUME NEW z \in B PROVE \E x \in X : f[x] = z
      OBVIOUS
    <2>2. PICK b \in Range(q) : b.place = z
      BY <1>1, FitIs
    <2>3. PICK x \in DOMAIN q : q[x] = b
      BY DEF Range
    <2>4. z # 0
      BY ListAssumption
    <2> QED BY <2>2, <2>3, <2>4
  <1>8. f \in Bijection(X, B)
    <2>1. f \in [X -> B]
      BY <1>5
    <2> HIDE DEF X, B, f
    <2> QED BY <1>6, <1>7, <2>1 DEF Bijection, Injection, Surjection, IsInjective
  <1> HIDE DEF A, B, X, f
  <1>9. ExistsBijection(X, B)
    BY <1>8 DEF ExistsBijection
  <1>10. IsFiniteSet(B) /\ Cardinality(B) = Cardinality(X)
    BY <1>4, <1>9, FS_Bijection
  <1>11. Cardinality(B \cup {p}) = Cardinality(B) + 1
    BY <1>3, <1>10, FS_AddElement
  <1> QED BY <1>3, <1>10, <1>11 DEF A, X

LEMMA UnloadIs ==
  ASSUME NEW s, NEW H, NEW p, NEW q, NEW t, Filed(s, H, p, q, t), NEW base \in SUBSET ListRecs
  PROVE  Unload(s, base) = H \cap base
  <1>1. /\ RIBs(s) = q /\ s.entry.form = "ilmr" /\ H = Told(Range(q), t) /\ H \subseteq ListRecs
        /\ \A x \in DOMAIN q : RIBRecs(s, q[x]) = RecsIn(q[x], t)
    BY FiledIs
  <1>2. \A b \in Range(q) : RIBRecs(s, b) = RecsIn(b, t)
    BY <1>1 DEF Range
  <1>3. \A n, a : a \in SegOf(base, n) <=> <<n, a>> \in base
    <2>1. ASSUME NEW n, NEW a, a \in SegOf(base, n) PROVE <<n, a>> \in base
      <3>1. PICK x \in base : x[1] = n /\ x[2] = a
        BY <2>1 DEF SegOf
      <3>2. x = <<n, a>>
        BY <3>1, RecIs
      <3> QED BY <3>2
    <2>2. ASSUME NEW n, NEW a, <<n, a>> \in base PROVE a \in SegOf(base, n)
      <3>1. <<n, a>>[1] = n /\ <<n, a>>[2] = a
        OBVIOUS
      <3> QED BY <2>2, <3>1 DEF SegOf
    <2> QED BY <2>1, <2>2
  <1>4. Unload(s, base) = UNION {{<<b.seg, a>> : a \in RIBRecs(s, b) \cap SegOf(base, b.seg)} :
                                 b \in {c \in Range(q) : SegOf(base, c.seg) # {}}}
    BY <1>1 DEF Unload
  <1>5. ASSUME NEW x PROVE x \in Unload(s, base) <=> \E b \in Range(q) : \E a \in RecsIn(b, t) : x = <<b.seg, a>> /\ a \in SegOf(base, b.seg)
    BY <1>2, <1>4
  <1>6. ASSUME NEW x PROVE x \in Unload(s, base) <=> x \in H /\ x \in base
    <2>1. x \in H <=> \E b \in Range(q) : \E a \in RecsIn(b, t) : x = <<b.seg, a>>
      BY <1>1, ToldIs
    <2>2. (\E b \in Range(q) : \E a \in RecsIn(b, t) : x = <<b.seg, a>> /\ a \in SegOf(base, b.seg))
            <=> (\E b \in Range(q) : \E a \in RecsIn(b, t) : x = <<b.seg, a>>) /\ x \in base
      BY <1>3
    <2> QED BY <1>5, <2>1, <2>2
  <1> QED BY <1>6

LEMMA HoldsShown ==
  ASSUME NEW s, NEW H, Holds(s, H)
  PROVE  Shown(s, H)
  <1>1. H \subseteq ListRecs /\ IteratedSet(s) = H
    BY HoldsIs
  <1>2. \A n : {r \in ListRecs : r[1] = n /\ r[2] # 0} \in SUBSET ListRecs
    OBVIOUS
  <1>3. ASSUME NEW e, s = [entry |-> e, store |-> NoStore], e.form # "ilmr",
               (e = INDEX_INVALID) = (H = {}), \A base \in SUBSET ListRecs : Unload(s, base) = H \cap base
        PROVE  Shown(s, H)
    <2>1. s.entry = e /\ s.entry.form # "ilmr" /\ \A z \in Places : s.store[z] = Vacant
      BY <1>3 DEF NoStore
    <2>2. RIBs(s) = <<>> /\ DOMAIN RIBs(s) = {} /\ Range(RIBs(s)) = {}
      BY <2>1 DEF RIBs, Range
    <2>3. {z \in Places : s.store[z] # Vacant} = {} /\ {x \in DOMAIN RIBs(s) : RIBs(s)[x].place # 0} = {}
      BY <2>1, <2>2
    <2>4. Cardinality({}) = 0
      BY FS_EmptySet
    <2>5. Cardinality({z \in Places : s.store[z] # Vacant})
            = Cardinality({x \in DOMAIN RIBs(s) : RIBs(s)[x].place # 0}) + (IF s.entry.form = "ilmr" THEN 1 ELSE 0)
      <3> DEFINE A == {z \in Places : s.store[z] # Vacant}
                 X == {x \in DOMAIN RIBs(s) : RIBs(s)[x].place # 0}
      <3>1. A = {} /\ X = {}
        BY <2>3
      <3> HIDE DEF A, X
      <3>2. Cardinality(A) = 0 /\ Cardinality(X) = 0
        BY <2>4, <3>1
      <3>3. Cardinality(A) = Cardinality(X) + (IF s.entry.form = "ilmr" THEN 1 ELSE 0)
        BY <2>1, <3>2
      <3> QED BY <3>3 DEF A, X
    <2>6. Ordered(s)
      BY <2>2 DEF Ordered
    <2>7. (s.entry = INDEX_INVALID) = (H = {})
      BY <1>3, <2>1
    <2>8. \A n \in AllSegs : LET base == {r \in ListRecs : r[1] = n /\ r[2] # 0} IN Unload(s, base) = H \cap base
      BY <1>2, <1>3
    <2> QED BY <1>1, <2>2, <2>5, <2>6, <2>7, <2>8 DEF Shown
  <1>4. CASE s = Empty /\ H = {}
    <2>1. s = [entry |-> INDEX_INVALID, store |-> NoStore] /\ INDEX_INVALID.form # "ilmr" /\ s.entry.form = "invalid" /\ RIBs(s) = <<>>
      BY <1>4, EmptyIs DEF INDEX_INVALID
    <2>2. \A base : Unload(s, base) = {}
      BY <2>1 DEF Unload, Range
    <2> QED BY <1>3, <1>4, <2>1, <2>2
  <1>5. ASSUME NEW r \in ListRecs, s = [entry |-> Unique(r), store |-> NoStore], H = {r}
        PROVE  Shown(s, H)
    <2>1. Unique(r).form = "unique" /\ Unique(r).rec = r /\ Unique(r) # INDEX_INVALID
      BY DEF Unique, INDEX_INVALID
    <2>2. \A base : Unload(s, base) = H \cap base
      BY <1>5, <2>1 DEF Unload
    <2>3. Unique(r).form # "ilmr" /\ (Unique(r) = INDEX_INVALID) = (H = {})
      BY <1>5, <2>1
    <2> QED BY <1>3, <1>5, <2>2, <2>3
  <1>6. ASSUME NEW p, NEW q, NEW t, Filed(s, H, p, q, t)
        PROVE  Shown(s, H)
    <2>1. /\ s = State(p, q, t) /\ RIBs(s) = q /\ s.entry.form = "ilmr" /\ Sorted(q)
          /\ p \in Places /\ IsStore(t) /\ t[p] = Vacant
          /\ \A x \in DOMAIN q : /\ q[x] \in Range(q) /\ Sound(q[x], t) /\ q[x].place # p
                                 /\ RIBRecs(s, q[x]) = RecsIn(q[x], t)
      BY <1>6, FiledIs
    <2>2. H # {} /\ s.entry # INDEX_INVALID
      BY <1>6, <2>1, FiledNotEmpty DEF INDEX_INVALID
    <2>3. (s.entry = INDEX_INVALID) = (H = {})
      BY <2>2
    <2>4. Ordered(s)
      BY <2>1 DEF Ordered, Sorted
    <2>5. ASSUME NEW rib \in Range(q), rib.place # 0
          PROVE  /\ s.store[rib.place].kind = rib.kind
                 /\ rib.kind = "bitmap" => s.store[rib.place].count = Cardinality(RIBRecs(s, rib))
                 /\ rib.kind = "array" => Cardinality(RIBRecs(s, rib)) \in 1 .. DLIST_MAXRECS
      <3>1. PICK x \in DOMAIN q : q[x] = rib
        BY DEF Range
      <3>2. Sound(rib, t) /\ rib.place # p /\ RIBRecs(s, rib) = RecsIn(rib, t)
        BY <2>1, <3>1
      <3>3. rib.place \in Places /\ t[rib.place].kind = rib.kind
        BY <2>5, <3>2, SoundIs
      <3>4. s.store[rib.place] = t[rib.place]
        BY <2>1, <3>2, <3>3, StateIs
      <3>5. /\ OfSegment(rib.seg, RecsIn(rib, t))
            /\ rib.kind = "array" => Cardinality(RecsIn(rib, t)) <= DLIST_MAXRECS
            /\ rib.kind = "bitmap" => t[rib.place] = BitMapOf(RecsIn(rib, t), Cardinality(RecsIn(rib, t)))
        BY <3>2, SoundOf
      <3>6. Cardinality(RecsIn(rib, t)) \in Nat \ {0}
        BY <3>5, OfSegmentIs
      <3>7. rib.kind = "bitmap" => t[rib.place].count = Cardinality(RecsIn(rib, t))
        BY <3>5 DEF BitMapOf
      <3>8. rib.kind = "array" => Cardinality(RecsIn(rib, t)) \in 1 .. DLIST_MAXRECS
        BY <3>5, <3>6, ListAssumption
      <3> QED BY <3>2, <3>3, <3>4, <3>7, <3>8
    <2>6. Cardinality({z \in Places : s.store[z] # Vacant}) = Cardinality({x \in DOMAIN q : q[x].place # 0}) + 1
      BY <1>6, PlacesTaken
    <2>7. \A n \in AllSegs : LET base == {r \in ListRecs : r[1] = n /\ r[2] # 0} IN Unload(s, base) = H \cap base
      BY <1>2, <1>6, UnloadIs
    <2>8. Cardinality({z \in Places : s.store[z] # Vacant})
            = Cardinality({x \in DOMAIN RIBs(s) : RIBs(s)[x].place # 0}) + (IF s.entry.form = "ilmr" THEN 1 ELSE 0)
      BY <2>1, <2>6
    <2> QED BY <1>1, <2>1, <2>3, <2>4, <2>5, <2>7, <2>8 DEF Shown
  <1> QED BY <1>4, <1>5, <1>6, HoldsIs
---------------------------------------------------------------------------
(* The theorem.                                                              *)
ListInv == ilEnd # "broken" /\ ~astray => Holds(il, having)

LEMMA ListInitHolds == ListInit => ListInv
  <1> SUFFICES ASSUME ListInit PROVE Holds(il, having)
    BY DEF ListInv
  <1>1. il = Empty /\ having = {}
    BY DEF ListInit, Empty, NoStore
  <1> QED BY <1>1, EmptyIs

LEMMA ListStepHolds == ListInv /\ [ListNext]_ilVars => ListInv'
  <1> SUFFICES ASSUME ListInv, [ListNext]_ilVars PROVE ListInv'
    OBVIOUS
  <1>1. ASSUME ListGoing PROVE Holds(il, having)
    BY <1>1 DEF ListInv, ListGoing
  <1>2. ASSUME NEW o, NEW set, Ended(o, set), Outcome(o, having, set)
        PROVE  ListInv'
    <2>1. il' = o.s /\ ilEnd' = o.end /\ having' = IF o.end = "ok" THEN set ELSE having
      BY <1>2 DEF Ended
    <2>2. ilEnd' # "broken" => Holds(il', having')
      BY <1>2, <2>1 DEF Outcome
    <2> QED BY <2>2 DEF ListInv
  <1>3. ASSUME NEW r \in ListRecs, NEW room \in BOOLEAN, Atom_AddValRec(r, room)
        PROVE  ListInv'
    <2> DEFINE o == AddRecord(il, r, room)
               set == having \cup {r}
    <2>1. Outcome(o, having, set)
      BY <1>1, <1>3, AddRecordIs DEF Atom_AddValRec
    <2>2. Ended(o, set)
      BY <1>3 DEF Atom_AddValRec
    <2> HIDE DEF o, set
    <2> QED BY <1>2, <2>1, <2>2
  <1>4. ASSUME NEW r \in ListRecs, Atom_RemoveValRec(r)
        PROVE  ListInv'
    <2> DEFINE o == RemoveRecord(il, r)
               set == having \ {r}
    <2>1. Outcome(o, having, set)
      BY <1>1, <1>4, RemoveRecordIs DEF Atom_RemoveValRec
    <2>2. astray' = TRUE \/ Ended(o, set)
      BY <1>4 DEF Atom_RemoveValRec
    <2> HIDE DEF o, set
    <2>3. CASE astray' = TRUE
      BY <2>3 DEF ListInv
    <2> QED BY <1>2, <2>1, <2>2, <2>3
  <1>5. ASSUME NEW set \in SUBSET ListRecs, NEW room \in BOOLEAN, Atom_ReplaceValRecSet(set, room)
        PROVE  ListInv'
    <2> DEFINE o == ReplaceRecordSet(il, set, room)
    <2>1. Outcome(o, having, set)
      BY <1>1, <1>5, ReplaceSetIs DEF Atom_ReplaceValRecSet
    <2>2. Ended(o, set)
      BY <1>5 DEF Atom_ReplaceValRecSet
    <2> HIDE DEF o
    <2> QED BY <1>2, <2>1, <2>2
  <1>6. ASSUME NEW set \in SUBSET ListRecs, NEW room \in BOOLEAN, Atom_AugmentValRecSet(set, room)
        PROVE  ListInv'
    <2> DEFINE o == AugmentRecordSet(il, set, room)
               G == having \cup set
               augmenting == TRUE
    <2>1. Filing(o, G, augmenting)
      BY <1>1, <1>6, AugmentSetIs DEF Atom_AugmentValRecSet
    <2>2. il' = o.s /\ ilEnd' = o.end /\ (o.end = "ok" => having' = G) /\ astray' = ~Ordered(il')
      BY <1>6 DEF Atom_AugmentValRecSet, Ended
    <2> HIDE DEF o, G, augmenting
    <2>3. ASSUME NEW p, NEW q, NEW t, Built(o.s, G, p, q, t), q # <<>>, Ordered(o.s)
          PROVE  Holds(o.s, G)
      <3>1. RIBs(o.s) = q
        BY <2>3, BuiltIs
      <3>2. Sorted(q)
        BY <2>3, <3>1 DEF Ordered, Sorted
      <3> QED BY <2>3, <3>2, BuiltSorted
    <2>4. ASSUME ilEnd' # "broken", ~astray' PROVE Holds(il', having')
      <3>1. Ordered(o.s) /\ o.end # "broken"
        BY <2>2, <2>4
      <3>2. o.end = "ok" /\ Holds(o.s, G)
        BY <2>1, <2>3, <3>1 DEF Filing
      <3> QED BY <2>2, <3>2
    <2> QED BY <2>4 DEF ListInv
  <1>7. CASE UNCHANGED ilVars
    BY <1>7 DEF ilVars, ListInv
  <1> QED BY <1>3, <1>4, <1>5, <1>6, <1>7 DEF ListNext

\* Whatever forms a value's list has been through, it holds just the records that have the value, and
\* what is unloaded of it under a base set is its part of the set.
THEOREM ListHoldsRecordsHolds == ListSpec => []ListHoldsRecords
  <1>1. ListInv => ListHoldsRecords
    <2> SUFFICES ASSUME ListInv, ilEnd # "broken" /\ ~astray PROVE Shown(il, having)
      BY DEF ListHoldsRecords, Shown
    <2> QED BY HoldsShown DEF ListInv
  <1> QED BY <1>1, ListInitHolds, ListStepHolds, PTL DEF ListSpec
---------------------------------------------------------------------------
(* Extents.                                                                 *)
\* Steps that do not go down do not go down in the end.
LEMMA Rises ==
  ASSUME NEW n \in Nat, NEW f, \A i \in 1 .. n : f[i] \in Nat,
         \A i \in 1 .. n - 1 : f[i] <= f[i + 1]
  PROVE  \A i, j \in 1 .. n : i <= j => f[i] <= f[j]
  <1> SUFFICES ASSUME NEW i \in 1 .. n PROVE \A j \in 1 .. n : i <= j => f[i] <= f[j]
    OBVIOUS
  <1> DEFINE Bad == {j \in 1 .. n : i <= j /\ ~(f[i] <= f[j])}
  <1>1. Bad \in SUBSET Nat
    OBVIOUS
  <1>2. SUFFICES ASSUME Bad # {} PROVE FALSE
    OBVIOUS
  <1>3. PICK j \in Bad : \A k \in Bad : j <= k
    <2> HIDE DEF Bad
    <2> QED BY <1>1, <1>2, LeastOf
  <1>4. j \in 1 .. n /\ i <= j /\ ~(f[i] <= f[j]) /\ f[i] \in Nat /\ f[j] \in Nat
    OBVIOUS
  <1>5. i # j
    BY <1>4
  <1>6. j - 1 \in 1 .. n /\ i <= j - 1 /\ j - 1 \in 1 .. n - 1 /\ (j - 1) + 1 = j /\ ~(j <= j - 1)
    BY <1>4, <1>5
  <1>7. f[j - 1] <= f[j] /\ f[j - 1] \in Nat
    BY <1>6
  <1>8. f[i] <= f[j - 1]
    BY <1>3, <1>6
  <1> QED BY <1>4, <1>7, <1>8

\* What is between two ends is in one of the steps.
LEMMA StepOf ==
  ASSUME NEW n \in Nat, n >= 2, NEW f, \A i \in 1 .. n : f[i] \in Nat,
         NEW v \in Nat, f[1] <= v, v < f[n]
  PROVE  \E i \in 1 .. n - 1 : f[i] <= v /\ v < f[i + 1]
  <1> DEFINE Over == {i \in 1 .. n : v < f[i]}
  <1>1. Over \in SUBSET Nat /\ n \in Over
    OBVIOUS
  <1>2. PICK j \in Over : \A k \in Over : j <= k
    <2> HIDE DEF Over
    <2> QED BY <1>1, LeastOf
  <1>3. j \in 1 .. n /\ v < f[j] /\ f[1] \in Nat
    OBVIOUS
  <1>4. j # 1
    BY <1>3
  <1>5. j - 1 \in 1 .. n - 1 /\ j - 1 \in 1 .. n /\ (j - 1) + 1 = j /\ ~(j <= j - 1)
    BY <1>3, <1>4
  <1>6. f[j - 1] <= v
    BY <1>2, <1>5
  <1> QED BY <1>3, <1>5, <1>6
---------------------------------------------------------------------------
\* The pointers x go up, and o tells how many pages of each table are before each of them.
Laid(x, size, o) ==
  /\ x \in Seq(Nat) /\ Len(x) >= 3 /\ x[1] = 1
  /\ \A i \in 1 .. Len(x) - 1 : x[i] < x[i + 1]
  /\ size \in [Tables -> Nat]
  /\ o \in [Tables -> [1 .. Len(x) -> Nat]]
  /\ \A t \in Tables : o[t][1] = 0 /\ o[t][Len(x)] = size[t]
  /\ \A t \in Tables : \A i \in 1 .. Len(x) - 1 : o[t][i + 1] = o[t][i] + IF TableOf(i) = t THEN x[i + 1] - x[i] ELSE 0
  /\ x[Len(x)] = PagesOfFile(size)

LEMMA TablesIn == \A i \in Nat : TableOf(i) \in Tables /\ FirstExtent(TableOf(i)) \in {1, 2}
  BY DEF TableOf, Tables, FirstExtent

LEMMA Turn ==
  ASSUME NEW i \in Nat, NEW t \in Tables
  PROVE  (TableOf(i + 1) = t) = (TableOf(i) # t)
  <1>1. (i + 1) % 2 = 1 - (i % 2) /\ i % 2 \in {0, 1}
    OBVIOUS
  <1> QED BY <1>1 DEF TableOf, Tables

LEMMA LaidIs ==
  ASSUME NEW x, NEW size, NEW o, Laid(x, size, o)
  PROVE  /\ Len(x) \in Nat /\ Len(x) >= 3 /\ \A i \in 1 .. Len(x) : x[i] \in Nat
         /\ \A i, j \in 1 .. Len(x) : i < j => x[i] < x[j]
         /\ \A t \in Tables : \A i \in 1 .. Len(x) : o[t][i] \in Nat
         /\ \A t \in Tables : \A i, j \in 1 .. Len(x) : i <= j => o[t][i] <= o[t][j]
  <1>1. Len(x) \in Nat /\ Len(x) >= 3 /\ \A i \in 1 .. Len(x) : x[i] \in Nat
    BY DEF Laid
  <1>2. \A t \in Tables : \A i \in 1 .. Len(x) : o[t][i] \in Nat
    BY DEF Laid
  <1>3. ASSUME NEW i \in 1 .. Len(x) - 1 PROVE i \in 1 .. Len(x) /\ i + 1 \in 1 .. Len(x) /\ x[i] < x[i + 1]
    BY <1>1 DEF Laid
  <1>4. \A i, j \in 1 .. Len(x) : i <= j => x[i] <= x[j]
    <2>1. \A i \in 1 .. Len(x) - 1 : x[i] <= x[i + 1]
      BY <1>1, <1>3
    <2> QED BY <1>1, <2>1, Rises
  <1>5. ASSUME NEW i \in 1 .. Len(x), NEW j \in 1 .. Len(x), i < j PROVE x[i] < x[j]
    <2>1. i \in 1 .. Len(x) - 1 /\ i + 1 <= j /\ i + 1 \in 1 .. Len(x)
      BY <1>1, <1>5
    <2>2. x[i] < x[i + 1] /\ x[i + 1] <= x[j]
      BY <1>3, <1>4, <2>1
    <2> QED BY <1>1, <2>1, <2>2
  <1>6. ASSUME NEW t \in Tables PROVE \A i, j \in 1 .. Len(x) : i <= j => o[t][i] <= o[t][j]
    <2> DEFINE f == o[t]
    <2>1. ASSUME NEW i \in 1 .. Len(x) - 1 PROVE f[i] <= f[i + 1]
      <3>1. f[i + 1] = f[i] + IF TableOf(i) = t THEN x[i + 1] - x[i] ELSE 0
        BY DEF Laid
      <3>2. f[i] \in Nat /\ x[i] \in Nat /\ x[i + 1] \in Nat /\ x[i] < x[i + 1]
        BY <1>1, <1>2, <1>3
      <3> QED BY <3>1, <3>2
    <2>2. \A i \in 1 .. Len(x) : f[i] \in Nat
      BY <1>2
    <2> HIDE DEF f
    <2>3. \A i, j \in 1 .. Len(x) : i <= j => f[i] <= f[j]
      BY <1>1, <2>1, <2>2, Rises
    <2> QED BY <2>3 DEF f
  <1> QED BY <1>1, <1>2, <1>5, <1>6

\* The pages of the other table that AbsolutePage takes off.
NotOf(x, table) ==
  CHOOSE f : f = [i \in 1 .. Len(x) |-> IF i <= FirstExtent(table) THEN x[FirstExtent(table)]
                                        ELSE f[i - 1] + IF TableOf(i) = table THEN x[i] - x[i - 1] ELSE 0]
Before(x, o, t) ==
  [i \in 1 .. Len(x) |-> IF i <= FirstExtent(t) THEN x[FirstExtent(t)]
                         ELSE IF TableOf(i) = t THEN x[i] - o[t][i] ELSE x[i - 1] - o[t][i - 1]]

LEMMA BeforeIs ==
  ASSUME NEW x, NEW size, NEW o, Laid(x, size, o), NEW t \in Tables
  PROVE  LET g == Before(x, o, t) IN
         /\ g = [i \in 1 .. Len(x) |-> IF i <= FirstExtent(t) THEN x[FirstExtent(t)]
                                       ELSE g[i - 1] + IF TableOf(i) = t THEN x[i] - x[i - 1] ELSE 0]
         /\ \A i \in 1 .. Len(x) : TableOf(i) = t => g[i] = x[i] - o[t][i] /\ i >= FirstExtent(t)
         /\ \A i \in 1 .. Len(x) : g[i] \in Int
  <1> DEFINE g == Before(x, o, t)
             F == FirstExtent(t)
  <1>1. /\ Len(x) \in Nat /\ Len(x) >= 3 /\ \A i \in 1 .. Len(x) : x[i] \in Nat /\ o[t][i] \in Nat
        /\ \A i \in 1 .. Len(x) - 1 : o[t][i + 1] = o[t][i] + IF TableOf(i) = t THEN x[i + 1] - x[i] ELSE 0
        /\ o[t][1] = 0
    <2>1. Len(x) \in Nat /\ Len(x) >= 3 /\ \A i \in 1 .. Len(x) : x[i] \in Nat /\ o[t][i] \in Nat
      BY LaidIs
    <2>2. \A i \in 1 .. Len(x) - 1 : o[t][i + 1] = o[t][i] + IF TableOf(i) = t THEN x[i + 1] - x[i] ELSE 0
      BY DEF Laid
    <2>3. o[t][1] = 0
      BY DEF Laid
    <2> QED BY <2>1, <2>2, <2>3
  <1>2. F \in {1, 2} /\ F \in 1 .. Len(x) /\ TableOf(F) = t /\ o[t][F] = 0 /\ (F = 2 => TableOf(1) # t)
    <2>1. TableOf(1) = "B" /\ TableOf(2) = "D"
      BY DEF TableOf
    <2>2. F \in {1, 2} /\ TableOf(F) = t /\ (F = 2 => TableOf(1) # t)
      BY <2>1 DEF FirstExtent, Tables
    <2>3. 1 \in 1 .. Len(x) - 1 /\ 1 + 1 = 2
      BY <1>1
    <2>4. o[t][1 + 1] = o[t][1] + IF TableOf(1) = t THEN x[1 + 1] - x[1] ELSE 0
      BY <1>1, <2>3
    <2> QED BY <1>1, <2>2, <2>3, <2>4
  <1>3. \A i \in 1 .. Len(x) : g[i] = IF i <= F THEN x[F] ELSE IF TableOf(i) = t THEN x[i] - o[t][i] ELSE x[i - 1] - o[t][i - 1]
    BY DEF Before
  <1> HIDE DEF g, F
  <1>4. ASSUME NEW i \in 1 .. Len(x), TableOf(i) = t PROVE g[i] = x[i] - o[t][i] /\ i >= F
    <2>1. CASE i < F
      BY <1>2, <1>4, <2>1
    <2>2. CASE i = F
      BY <1>1, <1>2, <1>3, <2>2
    <2>3. CASE i > F
      BY <1>2, <1>3, <1>4, <2>3
    <2> QED BY <1>2, <2>1, <2>2, <2>3
  <1>5. ASSUME NEW i \in 1 .. Len(x), i > F
        PROVE  g[i] = g[i - 1] + IF TableOf(i) = t THEN x[i] - x[i - 1] ELSE 0
    <2>1. i - 1 \in 1 .. Len(x) /\ i - 1 \in 1 .. Len(x) - 1 /\ (i - 1) + 1 = i /\ i - 1 \in Nat
      BY <1>1, <1>2, <1>5
    <2>2. (TableOf(i) = t) = (TableOf(i - 1) # t)
      BY <2>1, Turn
    <2>3. x[i] \in Nat /\ x[i - 1] \in Nat /\ o[t][i] \in Nat /\ o[t][i - 1] \in Nat
      BY <1>1, <2>1
    <2>4. CASE TableOf(i) # t
      <3>1. g[i - 1] = x[i - 1] - o[t][i - 1]
        BY <1>4, <2>1, <2>2, <2>4
      <3>2. g[i] = x[i - 1] - o[t][i - 1]
        BY <1>2, <1>3, <1>5, <2>4
      <3> QED BY <2>3, <2>4, <3>1, <3>2
    <2>5. CASE TableOf(i) = t
      <3>1. TableOf(i - 1) # t
        BY <2>2, <2>5
      <3>2. i - 1 # F
        BY <1>2, <3>1
      <3>3. i - 1 > F /\ i - 2 \in 1 .. Len(x) /\ i - 2 \in 1 .. Len(x) - 1 /\ (i - 2) + 1 = i - 1 /\ (i - 1) - 1 = i - 2 /\ i - 2 \in Nat
        <4>1. F \in Nat /\ F >= 1 /\ Len(x) \in Nat
          BY <1>1, <1>2
        <4>2. i - 1 > F
          BY <1>5, <3>2, <4>1
        <4> HIDE DEF F
        <4> QED BY <4>1, <4>2
      <3>4. g[i - 1] = x[i - 2] - o[t][i - 2]
        BY <1>2, <1>3, <2>1, <3>1, <3>3
      <3>5. TableOf(i - 2) = t
        <4>1. (TableOf((i - 2) + 1) = t) = (TableOf(i - 2) # t)
          BY <3>3, Turn
        <4> QED BY <3>1, <3>3, <4>1
      <3>6. o[t][i - 1] = o[t][i - 2] + (x[i - 1] - x[i - 2])
        <4>1. o[t][(i - 2) + 1] = o[t][i - 2] + IF TableOf(i - 2) = t THEN x[(i - 2) + 1] - x[i - 2] ELSE 0
          BY <1>1, <3>3
        <4> QED BY <3>3, <3>5, <4>1
      <3>7. o[t][i] = o[t][i - 1]
        <4>1. o[t][(i - 1) + 1] = o[t][i - 1] + IF TableOf(i - 1) = t THEN x[(i - 1) + 1] - x[i - 1] ELSE 0
          BY <1>1, <2>1
        <4> QED BY <2>1, <2>3, <3>1, <4>1
      <3>8. g[i] = x[i] - o[t][i]
        BY <1>4, <2>5
      <3>9. x[i - 2] \in Nat /\ o[t][i - 2] \in Nat
        BY <1>1, <3>3
      <3> QED BY <2>3, <2>5, <3>4, <3>6, <3>7, <3>8, <3>9
    <2> QED BY <2>4, <2>5
  <1>6. \A i \in 1 .. Len(x) : g[i] = IF i <= F THEN x[F] ELSE g[i - 1] + IF TableOf(i) = t THEN x[i] - x[i - 1] ELSE 0
    BY <1>2, <1>3, <1>5
  <1>7. g = [i \in 1 .. Len(x) |-> g[i]]
    BY DEF g, Before
  <1>8. [i \in 1 .. Len(x) |-> g[i]] = [i \in 1 .. Len(x) |-> IF i <= F THEN x[F] ELSE g[i - 1] + IF TableOf(i) = t THEN x[i] - x[i - 1] ELSE 0]
    BY <1>6
  <1>9. ASSUME NEW i \in 1 .. Len(x) PROVE g[i] \in Int
    <2>1. x[F] \in Nat /\ x[i] \in Nat /\ o[t][i] \in Nat
      BY <1>1, <1>2
    <2>2. i > F => x[i - 1] \in Nat /\ o[t][i - 1] \in Nat
      <3>1. i > F => i - 1 \in 1 .. Len(x)
        BY <1>1, <1>2
      <3> QED BY <1>1, <3>1
    <2>3. i <= F \/ i > F
      BY <1>2
    <2> QED BY <1>3, <2>1, <2>2, <2>3
  <1> QED BY <1>4, <1>7, <1>8, <1>9 DEF g, F

LEMMA NotOfIs ==
  ASSUME NEW x, NEW size, NEW o, Laid(x, size, o), NEW t \in Tables, NEW i \in 1 .. Len(x), TableOf(i) = t
  PROVE  NotOf(x, t)[i] = x[i] - o[t][i]
  <1> DEFINE F == FirstExtent(t)
             n == Len(x)
             Gain(j) == IF TableOf(j) = t THEN x[j] - x[j - 1] ELSE 0
             Fits(f) == f = [j \in 1 .. n |-> IF j <= F THEN x[F] ELSE f[j - 1] + Gain(j)]
             g == Before(x, o, t)
             f == NotOf(x, t)
  <1>1. Fits(g) /\ g[i] = x[i] - o[t][i]
    BY BeforeIs
  <1>2. f = CHOOSE h : Fits(h)
    BY DEF NotOf
  <1>3. n \in Nat /\ F \in Nat
    BY LaidIs DEF FirstExtent
  <1> HIDE DEF f, g, n
  <1>4. Fits(f)
    <2> HIDE DEF Fits
    <2> QED BY <1>1, <1>2
  <1> HIDE DEF F, Gain
  <1>5. /\ \A j \in 1 .. n : f[j] = IF j <= F THEN x[F] ELSE f[j - 1] + Gain(j)
        /\ \A j \in 1 .. n : g[j] = IF j <= F THEN x[F] ELSE g[j - 1] + Gain(j)
    BY <1>1, <1>4
  <1> DEFINE Bad == {j \in 1 .. n : f[j] # g[j]}
  <1>6. Bad = {}
    <2> SUFFICES ASSUME Bad # {} PROVE FALSE
      OBVIOUS
    <2>1. Bad \in SUBSET Nat
      OBVIOUS
    <2>2. PICK j \in Bad : \A k \in Bad : j <= k
      <3> HIDE DEF Bad
      <3> QED BY <2>1, LeastOf
    <2>3. j \in 1 .. n /\ f[j] # g[j]
      OBVIOUS
    <2>4. j > F
      BY <1>3, <1>5, <2>3
    <2>5. f[j] = f[j - 1] + Gain(j) /\ g[j] = g[j - 1] + Gain(j)
      BY <1>3, <1>5, <2>3, <2>4
    <2>6. f[j - 1] # g[j - 1]
      BY <2>3, <2>5
    <2>7. j - 1 \in 1 .. n \/ j = 1
      BY <1>3, <2>3
    <2>8. F >= 1
      BY DEF F, FirstExtent
    <2>9. j - 1 \in 1 .. n /\ ~(j <= j - 1)
      BY <1>3, <2>3, <2>4, <2>7, <2>8
    <2> QED BY <2>2, <2>6, <2>9
  <1>7. i \in 1 .. n
    BY DEF n
  <1> QED BY <1>1, <1>6, <1>7 DEF f

\* What pages are found at.
LEMMA FoundAt ==
  ASSUME NEW x, NEW size, NEW o, Laid(x, size, o), NEW i \in 1 .. Len(x) - 1,
         NEW off \in Nat, off < x[i + 1] - x[i]
  PROVE  AbsolutePage(x, TableOf(i), o[TableOf(i)][i] + off) = x[i] + off
  <1> DEFINE t == TableOf(i)
             p == o[t][i] + off
             notx == NotOf(x, t)
             holds == {j \in 1 .. Len(x) - 1 : TableOf(j) = t /\ p - (x[j] - notx[j]) < x[j + 1] - x[j]}
  <1>1. AbsolutePage(x, t, p) = IF holds = {} THEN -1 ELSE x[Min(holds)] + p - (x[Min(holds)] - notx[Min(holds)])
    BY DEF AbsolutePage, NotOf
  <1>2. /\ Len(x) \in Nat /\ i \in 1 .. Len(x) /\ i + 1 \in 1 .. Len(x) /\ t \in Tables
        /\ \A j \in 1 .. Len(x) - 1 : j \in 1 .. Len(x) /\ j + 1 \in 1 .. Len(x) /\ j \in Nat
    BY LaidIs, TablesIn
  <1> HIDE DEF t
  <1>3. /\ \A j \in 1 .. Len(x) : x[j] \in Nat /\ o[t][j] \in Nat
        /\ \A j, k \in 1 .. Len(x) : j <= k => o[t][j] <= o[t][k]
    BY <1>2, LaidIs
  <1>4. p \in Nat
    BY <1>2, <1>3
  <1>5. ASSUME NEW j \in 1 .. Len(x) - 1, TableOf(j) = t
        PROVE  notx[j] = x[j] - o[t][j] /\ o[t][j + 1] = o[t][j] + (x[j + 1] - x[j])
    <2>1. notx[j] = x[j] - o[t][j]
      <3> HIDE DEF notx
      <3> QED BY <1>2, <1>5, NotOfIs DEF notx
    <2>2. o[t][j + 1] = o[t][j] + IF TableOf(j) = t THEN x[j + 1] - x[j] ELSE 0
      BY <1>2 DEF Laid
    <2> QED BY <1>5, <2>1, <2>2
  <1>6. i \in holds
    <2>1. notx[i] = x[i] - o[t][i] /\ TableOf(i) = t
      BY <1>5 DEF t
    <2>2. x[i] \in Nat /\ o[t][i] \in Nat /\ x[i + 1] \in Nat
      BY <1>2, <1>3
    <2>3. p - (x[i] - notx[i]) = off
      BY <2>1, <2>2
    <2> QED BY <2>1, <2>3
  <1>7. ASSUME NEW j \in holds PROVE i <= j
    <2>1. j \in 1 .. Len(x) - 1 /\ TableOf(j) = t /\ p - (x[j] - notx[j]) < x[j + 1] - x[j]
      OBVIOUS
    <2>2. notx[j] = x[j] - o[t][j] /\ o[t][j + 1] = o[t][j] + (x[j + 1] - x[j])
      BY <1>5, <2>1
    <2>3. x[j] \in Nat /\ o[t][j] \in Nat /\ x[j + 1] \in Nat /\ o[t][j + 1] \in Nat
      BY <1>2, <1>3, <2>1
    <2>4. p < o[t][j + 1]
      <3> HIDE DEF p, notx, holds
      <3> QED BY <1>4, <2>1, <2>2, <2>3
    <2>5. ASSUME j < i PROVE FALSE
      <3>1. j + 1 <= i
        BY <2>1, <2>5, <1>2
      <3>2. o[t][j + 1] <= o[t][i]
        BY <1>2, <1>3, <2>1, <3>1
      <3>3. o[t][i] \in Nat
        BY <1>2, <1>3
      <3> QED BY <2>3, <2>4, <3>2, <3>3
    <2> QED BY <1>2, <2>1, <2>5
  <1> HIDE DEF holds
  <1>8. Min(holds) = i
    <2>1. holds \in SUBSET Nat
      BY <1>2 DEF holds
    <2>2. Min(holds) \in holds /\ Min(holds) <= i
      BY <1>6, <2>1, MinIs
    <2>3. i <= Min(holds) /\ Min(holds) \in Nat
      BY <1>7, <2>1, <2>2
    <2> QED BY <1>2, <2>2, <2>3
  <1>9. AbsolutePage(x, t, p) = x[i] + p - (x[i] - notx[i])
    BY <1>1, <1>6, <1>8
  <1>10. notx[i] = x[i] - o[t][i]
    BY <1>5 DEF t
  <1>11. x[i] \in Nat /\ o[t][i] \in Nat
    BY <1>2, <1>3
  <1>12. x[i] + p - (x[i] - notx[i]) = x[i] + off
    BY <1>10, <1>11
  <1> QED BY <1>9, <1>12 DEF t

\* A page of a table is in one of its extents.
Spot(x, o, a, i) ==
  /\ i \in 1 .. Len(x) - 1 /\ TableOf(i) = a[1]
  /\ a[2] - o[a[1]][i] \in Nat /\ a[2] - o[a[1]][i] < x[i + 1] - x[i]

LEMMA PageIs ==
  ASSUME NEW e, NEW o, Laid(e.lpm, e.size, o), NEW a \in PagesOf(e)
  PROVE  a[1] \in Tables /\ a[2] \in Nat /\ a = <<a[1], a[2]>> /\ a[2] < e.size[a[1]]
  <1>1. PagesOfFile(e.size) \in Nat
    BY LaidIs DEF Laid
  <1>2. a \in Tables \X (0 .. PagesOfFile(e.size)) /\ a[2] < e.size[a[1]]
    BY DEF PagesOf
  <1>3. a[1] \in Tables /\ a[2] \in 0 .. PagesOfFile(e.size) /\ a = <<a[1], a[2]>>
    BY <1>2
  <1> QED BY <1>1, <1>2, <1>3

LEMMA SpotOf ==
  ASSUME NEW e, NEW o, Laid(e.lpm, e.size, o), NEW a \in PagesOf(e)
  PROVE  \E i : Spot(e.lpm, o, a, i)
  <1> DEFINE x == e.lpm
             t == a[1]
             p == a[2]
             f == o[t]
  <1>1. t \in Tables /\ p \in Nat /\ p < e.size[t]
    BY PageIs
  <1>2. /\ Len(x) \in Nat /\ Len(x) >= 3 /\ \A i \in 1 .. Len(x) : x[i] \in Nat /\ f[i] \in Nat
    BY <1>1, LaidIs
  <1>3. f[1] = 0 /\ f[Len(x)] = e.size[t]
    BY <1>1 DEF Laid
  <1>4. \A i \in 1 .. Len(x) - 1 : f[i + 1] = f[i] + IF TableOf(i) = t THEN x[i + 1] - x[i] ELSE 0
    BY <1>1 DEF Laid
  <1> HIDE DEF x, t, p, f
  <1>5. PICK i \in 1 .. Len(x) - 1 : f[i] <= p /\ p < f[i + 1]
    BY <1>1, <1>2, <1>3, StepOf
  <1>6. i \in 1 .. Len(x) /\ i + 1 \in 1 .. Len(x)
    BY <1>2
  <1>7. f[i] \in Nat /\ f[i + 1] \in Nat /\ x[i] \in Nat /\ x[i + 1] \in Nat
    BY <1>2, <1>6
  <1>8. TableOf(i) = t /\ p - f[i] \in Nat /\ p - f[i] < x[i + 1] - x[i]
    BY <1>1, <1>4, <1>5, <1>7
  <1> QED BY <1>8 DEF Spot, x, t, p, f

LEMMA SpotAt ==
  ASSUME NEW x, NEW size, NEW o, Laid(x, size, o), NEW a \in Tables \X Nat, NEW i, Spot(x, o, a, i)
  PROVE  AbsolutePage(x, a[1], a[2]) = x[i] + (a[2] - o[a[1]][i])
  <1> DEFINE off == a[2] - o[a[1]][i]
  <1>1. i \in 1 .. Len(x) - 1 /\ TableOf(i) = a[1] /\ off \in Nat /\ off < x[i + 1] - x[i]
    BY DEF Spot
  <1>2. AbsolutePage(x, TableOf(i), o[TableOf(i)][i] + off) = x[i] + off
    <2> HIDE DEF off
    <2> QED BY <1>1, FoundAt
  <1>3. o[a[1]][i] \in Nat /\ a[2] \in Nat
    <2>1. i \in 1 .. Len(x)
      BY <1>1, LaidIs
    <2> QED BY <2>1, LaidIs
  <1>4. o[a[1]][i] + off = a[2]
    BY <1>3
  <1> QED BY <1>1, <1>2, <1>4

\* Every page of the file is one page of one table.
LEMMA AllPages ==
  ASSUME NEW e, NEW o, Laid(e.lpm, e.size, o)
  PROVE  /\ {AbsolutePage(e.lpm, a[1], a[2]) : a \in PagesOf(e)} = 1 .. PagesOfFile(e.size) - 1
         /\ \A a, b \in PagesOf(e) : AbsolutePage(e.lpm, a[1], a[2]) = AbsolutePage(e.lpm, b[1], b[2]) => a = b
  <1> DEFINE x == e.lpm
             At(a) == AbsolutePage(x, a[1], a[2])
  <1>1. /\ Len(x) \in Nat /\ Len(x) >= 3 /\ \A i \in 1 .. Len(x) : x[i] \in Nat
        /\ \A i, j \in 1 .. Len(x) : i < j => x[i] < x[j]
        /\ x[1] = 1 /\ x[Len(x)] = PagesOfFile(e.size)
    <2>1. /\ Len(x) \in Nat /\ Len(x) >= 3 /\ \A i \in 1 .. Len(x) : x[i] \in Nat
          /\ \A i, j \in 1 .. Len(x) : i < j => x[i] < x[j]
      BY LaidIs
    <2>2. x[1] = 1 /\ x[Len(x)] = PagesOfFile(e.size)
      BY DEF Laid
    <2> QED BY <2>1, <2>2
  <1>2. ASSUME NEW a \in PagesOf(e), NEW i, Spot(x, o, a, i)
        PROVE  /\ i \in 1 .. Len(x) - 1 /\ i \in 1 .. Len(x) /\ i + 1 \in 1 .. Len(x)
               /\ TableOf(i) = a[1] /\ a[2] \in Nat /\ o[a[1]][i] \in Nat /\ a = <<a[1], a[2]>>
               /\ At(a) = x[i] + (a[2] - o[a[1]][i])
               /\ At(a) \in Nat /\ x[i] <= At(a) /\ At(a) < x[i + 1]
    <2>1. a[1] \in Tables /\ a[2] \in Nat /\ a = <<a[1], a[2]>>
      BY PageIs
    <2>2. At(a) = x[i] + (a[2] - o[a[1]][i])
      BY <1>2, <2>1, SpotAt
    <2>3. i \in 1 .. Len(x) - 1 /\ TableOf(i) = a[1] /\ a[2] - o[a[1]][i] \in Nat /\ a[2] - o[a[1]][i] < x[i + 1] - x[i]
      BY <1>2 DEF Spot
    <2>4. i \in 1 .. Len(x) /\ i + 1 \in 1 .. Len(x)
      BY <1>1, <2>3
    <2>5. o[a[1]][i] \in Nat /\ x[i] \in Nat /\ x[i + 1] \in Nat
      BY <1>1, <2>1, <2>4, LaidIs
    <2> HIDE DEF At, x
    <2>6. At(a) \in Nat /\ x[i] <= At(a) /\ At(a) < x[i + 1]
      BY <2>2, <2>3, <2>5
    <2> QED BY <2>1, <2>2, <2>3, <2>4, <2>5, <2>6
  <1>3. ASSUME NEW a \in PagesOf(e) PROVE At(a) \in 1 .. PagesOfFile(e.size) - 1
    <2>1. PICK i : Spot(x, o, a, i)
      BY SpotOf
    <2>2. /\ i \in 1 .. Len(x) /\ i + 1 \in 1 .. Len(x)
          /\ At(a) \in Nat /\ x[i] <= At(a) /\ At(a) < x[i + 1]
      BY <1>2, <2>1
    <2> HIDE DEF At, x
    <2>3. 1 \in 1 .. Len(x) /\ Len(x) \in 1 .. Len(x) /\ i \in Nat
      BY <1>1, <2>2
    <2>4. i = 1 \/ 1 < i
      BY <2>2
    <2>5. x[1] <= x[i]
      BY <1>1, <2>2, <2>3, <2>4
    <2>6. i + 1 = Len(x) \/ i + 1 < Len(x)
      BY <1>1, <2>2
    <2>7. x[i + 1] <= x[Len(x)]
      BY <1>1, <2>2, <2>3, <2>6
    <2>8. x[i] \in Nat /\ x[i + 1] \in Nat /\ x[Len(x)] \in Nat
      BY <1>1, <2>2, <2>3
    <2> QED BY <1>1, <2>2, <2>5, <2>7, <2>8
  <1>4. ASSUME NEW g \in 1 .. PagesOfFile(e.size) - 1 PROVE \E a \in PagesOf(e) : At(a) = g
    <2>1. x[Len(x)] \in Nat
      <3>1. Len(x) \in 1 .. Len(x)
        BY <1>1
      <3> QED BY <1>1, <3>1
    <2>2. g \in Nat /\ x[1] <= g /\ g < x[Len(x)]
      BY <1>1, <2>1
    <2>3. PICK i \in 1 .. Len(x) - 1 : x[i] <= g /\ g < x[i + 1]
      <3> HIDE DEF x
      <3> QED BY <1>1, <2>2, StepOf
    <2> DEFINE t == TableOf(i)
               a == <<t, o[t][i] + (g - x[i])>>
    <2>4. i \in 1 .. Len(x) /\ i + 1 \in 1 .. Len(x) /\ t \in Tables
      BY <1>1, TablesIn
    <2>5. x[i] \in Nat /\ x[i + 1] \in Nat /\ o[t][i] \in Nat /\ o[t][i + 1] \in Nat
      BY <1>1, <2>4, LaidIs
    <2>6. o[t][i + 1] = o[t][i] + (x[i + 1] - x[i])
      <3>1. o[t][i + 1] = o[t][i] + IF TableOf(i) = t THEN x[i + 1] - x[i] ELSE 0
        BY <2>4 DEF Laid
      <3> QED BY <3>1
    <2>7. o[t][i + 1] <= e.size[t]
      <3>1. Len(x) \in 1 .. Len(x) /\ i + 1 <= Len(x)
        BY <1>1, <2>4
      <3>2. o[t][i + 1] <= o[t][Len(x)]
        BY <2>4, <3>1, LaidIs
      <3> QED BY <2>4, <3>2 DEF Laid
    <2>8. e.size[t] \in Nat /\ e.size[t] <= PagesOfFile(e.size)
      <3>1. e.size \in [Tables -> Nat] /\ "B" \in Tables /\ "D" \in Tables
        BY DEF Laid, Tables
      <3>2. e.size.B \in Nat /\ e.size.D \in Nat
        BY <3>1
      <3>3. t = "B" \/ t = "D"
        BY <2>4 DEF Tables
      <3> QED BY <3>2, <3>3 DEF PagesOfFile
    <2>9. o[t][i] + (g - x[i]) \in Nat /\ o[t][i] + (g - x[i]) < e.size[t]
      <3> HIDE DEF t, x
      <3>1. g - x[i] \in Nat /\ g - x[i] < x[i + 1] - x[i]
        BY <2>2, <2>3, <2>5
      <3>2. o[t][i] + (g - x[i]) \in Nat /\ o[t][i] + (g - x[i]) < o[t][i] + (x[i + 1] - x[i])
        BY <2>5, <3>1
      <3>3. o[t][i] + (g - x[i]) < o[t][i + 1]
        BY <2>6, <3>2
      <3> HIDE DEF a
      <3> QED BY <2>5, <2>7, <2>8, <3>2, <3>3
    <2>10. PagesOfFile(e.size) \in Nat
      BY <1>1, <2>1
    <2>11. a \in PagesOf(e)
      <3> HIDE DEF t
      <3>1. o[t][i] + (g - x[i]) \in 0 .. PagesOfFile(e.size)
        BY <2>8, <2>9, <2>10
      <3> QED BY <2>4, <2>9, <3>1 DEF PagesOf
    <2>12. Spot(x, o, a, i)
      <3>1. a[1] = t /\ a[2] = o[t][i] + (g - x[i])
        OBVIOUS
      <3> HIDE DEF a
      <3>2. a[2] - o[t][i] = g - x[i]
        BY <2>2, <2>5, <3>1
      <3>3. g - x[i] \in Nat /\ g - x[i] < x[i + 1] - x[i]
        BY <2>2, <2>3, <2>5
      <3> QED BY <3>1, <3>2, <3>3 DEF Spot, t
    <2>13. At(a) = x[i] + (a[2] - o[a[1]][i])
      BY <1>2, <2>11, <2>12
    <2>14. x[i] + (a[2] - o[a[1]][i]) = g
      <3>1. a[1] = t /\ a[2] = o[t][i] + (g - x[i])
        OBVIOUS
      <3> HIDE DEF a, t
      <3> QED BY <2>2, <2>5, <3>1
    <2> QED BY <2>11, <2>13, <2>14
  <1>5. ASSUME NEW a \in PagesOf(e), NEW b \in PagesOf(e), At(a) = At(b) PROVE a = b
    <2>1. PICK i : Spot(x, o, a, i)
      BY SpotOf
    <2>2. PICK j : Spot(x, o, b, j)
      BY SpotOf
    <2>3. /\ i \in 1 .. Len(x) /\ i + 1 \in 1 .. Len(x)
          /\ TableOf(i) = a[1] /\ a[2] \in Nat /\ o[a[1]][i] \in Nat /\ a = <<a[1], a[2]>>
          /\ At(a) = x[i] + (a[2] - o[a[1]][i])
          /\ At(a) \in Nat /\ x[i] <= At(a) /\ At(a) < x[i + 1]
      BY <1>2, <2>1
    <2>4. /\ j \in 1 .. Len(x) /\ j + 1 \in 1 .. Len(x)
          /\ TableOf(j) = b[1] /\ b[2] \in Nat /\ o[b[1]][j] \in Nat /\ b = <<b[1], b[2]>>
          /\ At(b) = x[j] + (b[2] - o[b[1]][j])
          /\ At(b) \in Nat /\ x[j] <= At(b) /\ At(b) < x[j + 1]
      BY <1>2, <2>2
    <2> HIDE DEF At, x
    <2>5. ASSUME NEW k \in 1 .. Len(x), NEW l \in 1 .. Len(x), k + 1 \in 1 .. Len(x), x[l] < x[k + 1] PROVE l <= k
      <3>1. x[l] \in Nat /\ x[k + 1] \in Nat
        BY <1>1, <2>5
      <3>2. l # k + 1 /\ ~(k + 1 < l)
        BY <1>1, <2>5, <3>1
      <3> QED BY <1>1, <3>2
    <2>6. x[i] \in Nat /\ x[j] \in Nat /\ x[i + 1] \in Nat /\ x[j + 1] \in Nat
      BY <1>1, <2>3, <2>4
    <2>7. x[i] < x[j + 1] /\ x[j] < x[i + 1]
      BY <1>5, <2>3, <2>4, <2>6
    <2>8. i <= j /\ j <= i
      BY <2>3, <2>4, <2>5, <2>7
    <2>9. i = j
      BY <1>1, <2>3, <2>4, <2>8
    <2>10. a[1] = b[1]
      BY <2>3, <2>4, <2>9
    <2>11. a[2] = b[2]
      <3>1. x[i] + (a[2] - o[a[1]][i]) = x[i] + (b[2] - o[a[1]][i])
        BY <1>5, <2>3, <2>4, <2>9, <2>10
      <3>2. b[2] \in Nat /\ a[2] \in Nat /\ o[a[1]][i] \in Nat
        BY <2>3, <2>4
      <3> QED BY <2>6, <3>1, <3>2
    <2> QED BY <2>3, <2>4, <2>10, <2>11
  <1>6. {At(a) : a \in PagesOf(e)} = 1 .. PagesOfFile(e.size) - 1
    <2> HIDE DEF At
    <2> QED BY <1>3, <1>4
  <1> QED BY <1>5, <1>6

\* The tables in one piece each.
LEMMA UnbrokenLaid ==
  ASSUME NEW size \in [Tables -> Nat \ {0}]
  PROVE  \E o : Laid(Unbroken(size), size, o)
  <1> DEFINE x == Unbroken(size)
             o == [t \in Tables |-> [i \in 1 .. 3 |-> IF i = 1 THEN 0 ELSE IF i = 3 THEN size[t] ELSE IF t = "B" THEN size.B ELSE 0]]
  <1>1. "B" \in Tables /\ "D" \in Tables /\ \A t \in Tables : t = "B" \/ t = "D"
    BY DEF Tables
  <1>2. size.B \in Nat /\ size.B # 0 /\ size.D \in Nat /\ size.D # 0 /\ size \in [Tables -> Nat]
    BY <1>1
  <1>3. /\ x \in Seq(Nat) /\ Len(x) = 3 /\ x[1] = 1 /\ x[2] = size.B + 1 /\ x[3] = PagesOfFile(size)
    BY <1>2 DEF Unbroken, PagesOfFile
  <1>4. TableOf(1) = "B" /\ TableOf(2) = "D"
    BY DEF TableOf
  <1>5. \A t \in Tables : /\ o[t][1] = 0 /\ o[t][3] = size[t] /\ o[t][2] = IF t = "B" THEN size.B ELSE 0
    OBVIOUS
  <1>6. o \in [Tables -> [1 .. 3 -> Nat]]
    <2>1. ASSUME NEW t \in Tables PROVE [i \in 1 .. 3 |-> IF i = 1 THEN 0 ELSE IF i = 3 THEN size[t] ELSE IF t = "B" THEN size.B ELSE 0] \in [1 .. 3 -> Nat]
      BY <1>2
    <2> QED BY <2>1
  <1> HIDE DEF x, o
  <1>7. ASSUME NEW i \in 1 .. 2
        PROVE  x[i] < x[i + 1] /\ \A t \in Tables : o[t][i + 1] = o[t][i] + IF TableOf(i) = t THEN x[i + 1] - x[i] ELSE 0
    <2>1. CASE i = 1
      <3>1. x[i] = 1 /\ x[i + 1] = size.B + 1 /\ TableOf(i) = "B"
        BY <1>3, <1>4, <2>1
      <3>2. \A t \in Tables : o[t][i] = 0 /\ o[t][i + 1] = IF t = "B" THEN size.B ELSE 0
        BY <1>5, <2>1
      <3> QED BY <1>2, <3>1, <3>2
    <2>2. CASE i = 2
      <3>1. x[i] = size.B + 1 /\ x[i + 1] = 1 + size.B + size.D /\ TableOf(i) = "D"
        BY <1>3, <1>4, <2>2 DEF PagesOfFile
      <3>2. \A t \in Tables : o[t][i + 1] = size[t] /\ o[t][i] = IF t = "B" THEN size.B ELSE 0
        BY <1>5, <2>2
      <3> QED BY <1>1, <1>2, <3>1, <3>2
    <2> QED BY <2>1, <2>2
  <1>8. Laid(x, size, o)
    BY <1>2, <1>3, <1>5, <1>6, <1>7 DEF Laid
  <1> QED BY <1>8 DEF x

\* What comes of pointers and counts that are extended.
Extended(x, o, y, u) ==
  /\ Len(x) <= Len(y) /\ x[Len(x)] <= y[Len(x)]
  /\ \A i \in 1 .. Len(x) - 1 : x[i] = y[i] /\ \A t \in Tables : o[t][i] = u[t][i]

LEMMA PointersLaid ==
  ASSUME NEW x, NEW size, NEW o, Laid(x, size, o), NEW table \in Tables, NEW amount \in Nat \ {0}
  PROVE  LET y == Pointers(x, table, amount) IN
         \E u : Laid(y, [size EXCEPT ![table] = @ + amount], u) /\ Extended(x, o, y, u)
  <1> DEFINE y == Pointers(x, table, amount)
             more == [size EXCEPT ![table] = @ + amount]
             n == Len(x)
  <1>1. /\ n \in Nat /\ n >= 3 /\ \A i \in 1 .. n : x[i] \in Nat /\ \A t \in Tables : o[t][i] \in Nat
        /\ \A t \in Tables : \A i, j \in 1 .. n : i <= j => o[t][i] <= o[t][j]
    BY LaidIs
  <1>2. x \in Seq(Nat) /\ x[1] = 1 /\ x[n] = PagesOfFile(size) /\ size \in [Tables -> Nat] /\ o \in [Tables -> [1 .. n -> Nat]]
    BY DEF Laid
  <1>3. /\ \A i \in 1 .. n - 1 : x[i] < x[i + 1]
        /\ \A t \in Tables : o[t][1] = 0 /\ o[t][n] = size[t]
    BY DEF Laid
  <1>4. \A t \in Tables : \A i \in 1 .. n - 1 : o[t][i + 1] = o[t][i] + IF TableOf(i) = t THEN x[i + 1] - x[i] ELSE 0
    BY DEF Laid
  <1>5. more \in [Tables -> Nat] /\ \A t \in Tables : more[t] = size[t] + IF t = table THEN amount ELSE 0
    BY <1>2
  <1>6. PagesOfFile(more) = x[n] + amount
    <2>1. "B" \in Tables /\ "D" \in Tables /\ (table = "B" \/ table = "D")
      BY DEF Tables
    <2>2. size.B \in Nat /\ size.D \in Nat
      BY <1>2, <2>1
    <2>3. more["B"] = size["B"] + (IF "B" = table THEN amount ELSE 0) /\ more["D"] = size["D"] + (IF "D" = table THEN amount ELSE 0)
      BY <1>5, <2>1
    <2>4. x[n] = 1 + size.B + size.D
      BY <1>2 DEF PagesOfFile
    <2>5. PagesOfFile(more) = 1 + more.B + more.D
      BY DEF PagesOfFile
    <2> HIDE DEF more, n
    <2>6. CASE table = "B"
      BY <2>2, <2>3, <2>4, <2>5, <2>6
    <2>7. CASE table = "D"
      BY <2>2, <2>3, <2>4, <2>5, <2>7
    <2> QED BY <2>1, <2>6, <2>7
  <1>7. n \in 1 .. n /\ 1 \in 1 .. n /\ n - 1 \in 1 .. n - 1 /\ n - 1 \in Nat /\ (n - 1) + 1 = n /\ x[n] \in Nat
    BY <1>1
  <1> HIDE DEF y, more, n
  <1>8. CASE TableOf(n - 1) = table
    <2> DEFINE u == [t \in Tables |-> [i \in 1 .. n |-> o[t][i] + IF i = n /\ t = table THEN amount ELSE 0]]
    <2>1. y = [x EXCEPT ![n] = x[n] + amount]
      BY <1>8 DEF y, Pointers, n
    <2>2. y \in Seq(Nat) /\ Len(y) = n /\ \A i \in 1 .. n : y[i] = IF i = n THEN x[n] + amount ELSE x[i]
      BY <1>1, <1>2, <1>7, <2>1 DEF n
    <2>3. \A t \in Tables : \A i \in 1 .. n : u[t][i] = o[t][i] + IF i = n /\ t = table THEN amount ELSE 0
      OBVIOUS
    <2>4. u \in [Tables -> [1 .. n -> Nat]]
      <3>1. ASSUME NEW t \in Tables
            PROVE  [i \in 1 .. n |-> o[t][i] + IF i = n /\ t = table THEN amount ELSE 0] \in [1 .. n -> Nat]
        <4>1. \A i \in 1 .. n : o[t][i] + (IF i = n /\ t = table THEN amount ELSE 0) \in Nat
          BY <1>1
        <4> QED BY <4>1
      <3> QED BY <3>1
    <2> HIDE DEF u
    <2>5. ASSUME NEW i \in 1 .. n - 1
          PROVE  /\ y[i] = x[i] /\ \A t \in Tables : u[t][i] = o[t][i]
                 /\ y[i] < y[i + 1]
                 /\ \A t \in Tables : u[t][i + 1] = u[t][i] + IF TableOf(i) = t THEN y[i + 1] - y[i] ELSE 0
      <3>1. i \in 1 .. n /\ i + 1 \in 1 .. n /\ i # n
        BY <1>1
      <3>2. y[i] = x[i] /\ \A t \in Tables : u[t][i] = o[t][i]
        BY <1>1, <2>2, <2>3, <3>1
      <3>3. x[i] \in Nat /\ x[i + 1] \in Nat /\ x[i] < x[i + 1]
        BY <1>1, <1>3, <3>1
      <3>4. CASE i + 1 = n
        <4>1. y[i + 1] = x[i + 1] + amount
          BY <2>2, <3>1, <3>4
        <4>2. TableOf(i) = table
          BY <1>1, <1>8, <3>4
        <4>3. ASSUME NEW t \in Tables
              PROVE  u[t][i + 1] = u[t][i] + IF TableOf(i) = t THEN y[i + 1] - y[i] ELSE 0
          <5>1. u[t][i + 1] = o[t][i + 1] + IF t = table THEN amount ELSE 0
            BY <2>3, <3>1, <3>4
          <5>2. o[t][i + 1] = o[t][i] + IF TableOf(i) = t THEN x[i + 1] - x[i] ELSE 0
            BY <1>4
          <5>3. u[t][i] = o[t][i] /\ o[t][i] \in Nat /\ o[t][i + 1] \in Nat
            BY <1>1, <3>1, <3>2
          <5> QED BY <3>2, <3>3, <4>1, <4>2, <5>1, <5>2, <5>3
        <4> QED BY <3>2, <3>3, <4>1, <4>3
      <3>5. CASE i + 1 # n
        <4>1. y[i + 1] = x[i + 1] /\ \A t \in Tables : u[t][i + 1] = o[t][i + 1]
          BY <1>1, <2>2, <2>3, <3>1, <3>5
        <4> QED BY <1>4, <3>2, <3>3, <4>1
      <3> QED BY <3>4, <3>5
    <2>6. \A t \in Tables : u[t][1] = 0 /\ u[t][n] = more[t]
      <3>1. 1 # n
        BY <1>1
      <3>2. \A t \in Tables : u[t][1] = o[t][1] /\ u[t][n] = o[t][n] + IF t = table THEN amount ELSE 0
        BY <1>1, <1>7, <2>3, <3>1
      <3> QED BY <1>3, <1>5, <3>2
    <2>7. y[1] = 1 /\ y[n] = PagesOfFile(more)
      BY <1>1, <1>2, <1>6, <1>7, <2>2
    <2>8. Laid(y, more, u)
      BY <1>1, <1>5, <2>2, <2>4, <2>5, <2>6, <2>7 DEF Laid
    <2>9. Extended(x, o, y, u)
      <3>1. x[n] <= y[n]
        BY <1>7, <2>2
      <3> QED BY <1>1, <2>2, <2>5, <3>1 DEF Extended, n
    <2> QED BY <2>8, <2>9 DEF y, more
  <1>9. CASE TableOf(n - 1) # table
    <2> DEFINE u == [t \in Tables |-> [i \in 1 .. n + 1 |-> IF i = n + 1 THEN o[t][n] + IF t = table THEN amount ELSE 0 ELSE o[t][i]]]
    <2>1. y = Append(x, x[n] + amount)
      BY <1>9 DEF y, Pointers, n
    <2>2. y \in Seq(Nat) /\ Len(y) = n + 1 /\ y[n + 1] = x[n] + amount /\ \A i \in 1 .. n : y[i] = x[i]
      BY <1>1, <1>2, <1>7, <2>1 DEF n
    <2>3. \A t \in Tables : /\ u[t][n + 1] = o[t][n] + (IF t = table THEN amount ELSE 0)
                             /\ \A i \in 1 .. n : u[t][i] = o[t][i]
      <3>1. n + 1 \in 1 .. n + 1 /\ \A i \in 1 .. n : i \in 1 .. n + 1 /\ i # n + 1
        BY <1>1
      <3> QED BY <3>1
    <2>4. u \in [Tables -> [1 .. n + 1 -> Nat]]
      <3>1. ASSUME NEW t \in Tables
            PROVE  [i \in 1 .. n + 1 |-> IF i = n + 1 THEN o[t][n] + IF t = table THEN amount ELSE 0 ELSE o[t][i]] \in [1 .. n + 1 -> Nat]
        <4>1. o[t][n] \in Nat
          BY <1>1, <1>7
        <4>2. ASSUME NEW i \in 1 .. n + 1 PROVE (IF i = n + 1 THEN o[t][n] + IF t = table THEN amount ELSE 0 ELSE o[t][i]) \in Nat
          <5>1. i # n + 1 => i \in 1 .. n
            BY <1>1
          <5> QED BY <1>1, <4>1, <5>1
        <4> QED BY <4>2
      <3> QED BY <3>1
    <2> HIDE DEF u
    <2>5. TableOf(n) = table
      BY <1>7, <1>9, Turn
    <2>6. ASSUME NEW i \in 1 .. n
          PROVE  /\ y[i] < y[i + 1]
                 /\ \A t \in Tables : u[t][i + 1] = u[t][i] + IF TableOf(i) = t THEN y[i + 1] - y[i] ELSE 0
      <3>1. CASE i = n
        <4>1. y[i] = x[n] /\ y[i + 1] = x[n] + amount
          BY <1>7, <2>2, <3>1
        <4>2. ASSUME NEW t \in Tables PROVE u[t][i + 1] = u[t][i] + IF TableOf(i) = t THEN y[i + 1] - y[i] ELSE 0
          <5>1. u[t][i + 1] = o[t][n] + (IF t = table THEN amount ELSE 0) /\ u[t][i] = o[t][n]
            BY <1>7, <2>3, <3>1
          <5>2. TableOf(i) = table
            BY <2>5, <3>1
          <5>3. y[i + 1] - y[i] = amount
            BY <1>7, <4>1
          <5> QED BY <5>1, <5>2, <5>3
        <4> QED BY <1>7, <4>1, <4>2
      <3>2. CASE i # n
        <4>1. i \in 1 .. n - 1 /\ i + 1 \in 1 .. n
          BY <1>1, <3>2
        <4>2. y[i] = x[i] /\ y[i + 1] = x[i + 1] /\ \A t \in Tables : u[t][i] = o[t][i] /\ u[t][i + 1] = o[t][i + 1]
          BY <2>2, <2>3, <4>1
        <4> QED BY <1>3, <1>4, <4>1, <4>2
      <3> QED BY <3>1, <3>2
    <2>7. \A t \in Tables : u[t][1] = 0 /\ u[t][n + 1] = more[t]
      BY <1>3, <1>5, <1>7, <2>3
    <2>8. y[1] = 1 /\ y[n + 1] = PagesOfFile(more)
      BY <1>2, <1>6, <1>7, <2>2
    <2>9. n + 1 >= 3 /\ (n + 1) - 1 = n
      BY <1>1
    <2>10. Laid(y, more, u)
      BY <1>5, <2>2, <2>4, <2>6, <2>7, <2>8, <2>9 DEF Laid
    <2>11. Extended(x, o, y, u)
      <3>1. \A i \in 1 .. n - 1 : i \in 1 .. n
        BY <1>1
      <3>2. n <= n + 1 /\ x[n] <= y[n]
        BY <1>1, <1>7, <2>2
      <3> QED BY <2>2, <2>3, <3>1, <3>2 DEF Extended, n
    <2> QED BY <2>10, <2>11 DEF y, more
  <1> QED BY <1>8, <1>9 DEF n, y, more

\* A page keeps its place when the pointers are extended.
LEMMA PagesStay ==
  ASSUME NEW e, NEW o, Laid(e.lpm, e.size, o), NEW y, NEW more, NEW u, Laid(y, more, u), Extended(e.lpm, o, y, u),
         NEW a \in PagesOf(e)
  PROVE  AbsolutePage(y, a[1], a[2]) = AbsolutePage(e.lpm, a[1], a[2])
  <1> DEFINE x == e.lpm
             n == Len(x)
  <1>1. PICK i : Spot(x, o, a, i)
    BY SpotOf
  <1>2. a[1] \in Tables /\ a[2] \in Nat /\ a = <<a[1], a[2]>>
    BY PageIs
  <1>3. a \in Tables \X Nat
    BY <1>2
  <1>4. n \in Nat /\ n >= 3 /\ \A j \in 1 .. n : x[j] \in Nat
    BY LaidIs
  <1>5. Len(y) \in Nat /\ \A j \in 1 .. Len(y) : y[j] \in Nat
    BY LaidIs
  <1>6. n <= Len(y) /\ x[n] <= y[n] /\ \A j \in 1 .. n - 1 : x[j] = y[j] /\ \A t \in Tables : o[t][j] = u[t][j]
    BY DEF Extended
  <1>7. i \in 1 .. n - 1 /\ TableOf(i) = a[1] /\ a[2] - o[a[1]][i] \in Nat /\ a[2] - o[a[1]][i] < x[i + 1] - x[i]
    BY <1>1 DEF Spot
  <1> HIDE DEF x, n
  <1>8. i \in 1 .. Len(y) - 1 /\ i + 1 \in 1 .. n /\ i + 1 \in 1 .. Len(y) /\ i \in 1 .. n /\ i \in 1 .. Len(y)
    BY <1>4, <1>5, <1>6, <1>7
  <1>9. x[i] = y[i] /\ o[a[1]][i] = u[a[1]][i]
    BY <1>2, <1>6, <1>7
  <1>10. x[i + 1] <= y[i + 1]
    <2>1. i + 1 = n \/ i + 1 \in 1 .. n - 1
      BY <1>4, <1>8
    <2>2. x[i + 1] \in Nat
      BY <1>4, <1>8
    <2> QED BY <1>6, <2>1, <2>2
  <1>11. a[2] - u[a[1]][i] \in Nat /\ a[2] - u[a[1]][i] < y[i + 1] - y[i]
    <2>1. x[i] \in Nat /\ x[i + 1] \in Nat /\ y[i + 1] \in Nat
      BY <1>4, <1>5, <1>8
    <2> QED BY <1>7, <1>9, <1>10, <2>1
  <1>12. Spot(y, u, a, i)
    BY <1>7, <1>8, <1>11 DEF Spot
  <1>13. AbsolutePage(y, a[1], a[2]) = y[i] + (a[2] - u[a[1]][i])
    BY <1>3, <1>12, SpotAt
  <1>14. AbsolutePage(x, a[1], a[2]) = x[i] + (a[2] - o[a[1]][i])
    BY <1>1, <1>3, SpotAt DEF x
  <1> QED BY <1>9, <1>13, <1>14 DEF x
---------------------------------------------------------------------------
(* The invariant.                                                           *)
ExtentsInv ==
  /\ extents.size \in [Tables -> Nat \ {0}]
  /\ \E o : Laid(extents.lpm, extents.size, o)

LEMMA ExtInitHolds == ExtInit => ExtentsInv
  <1> SUFFICES ASSUME ExtInit PROVE ExtentsInv
    OBVIOUS
  <1> DEFINE size == [B |-> BSIZE, D |-> DSIZE]
  <1>1. extents.lpm = Unbroken(size) /\ extents.size = size
    BY DEF ExtInit
  <1>2. size \in [Tables -> Nat \ {0}]
    BY ExtentsAssumption DEF Tables
  <1> HIDE DEF size
  <1>3. \E o : Laid(Unbroken(size), size, o)
    BY <1>2, UnbrokenLaid
  <1> QED BY <1>1, <1>2, <1>3 DEF ExtentsInv

LEMMA ExtStepHolds == ExtentsInv /\ [ExtNext]_extents => ExtentsInv' /\ (extents' # extents => PagesMapped)
  <1> SUFFICES ASSUME ExtentsInv, [ExtNext]_extents PROVE ExtentsInv' /\ (extents' # extents => PagesMapped)
    OBVIOUS
  <1>1. PICK o : Laid(extents.lpm, extents.size, o)
    BY DEF ExtentsInv
  <1>2. extents.size \in [Tables -> Nat \ {0}]
    BY DEF ExtentsInv
  <1>3. ASSUME NEW u, Laid(extents'.lpm, extents'.size, u),
               extents'.size # extents.size => Extended(extents.lpm, o, extents'.lpm, u)
        PROVE  PagesMapped
    <2> DEFINE e == extents
               f == extents'
    <2>1. /\ {AbsolutePage(f.lpm, a[1], a[2]) : a \in PagesOf(f)} = 1 .. PagesOfFile(f.size) - 1
          /\ \A a, b \in PagesOf(f) : AbsolutePage(f.lpm, a[1], a[2]) = AbsolutePage(f.lpm, b[1], b[2]) => a = b
      <3> HIDE DEF f
      <3>1. Laid(f.lpm, f.size, u)
        BY <1>3 DEF f
      <3> QED BY <3>1, AllPages
    <2>2. ASSUME f.size # e.size, NEW a \in PagesOf(e) PROVE AbsolutePage(f.lpm, a[1], a[2]) = AbsolutePage(e.lpm, a[1], a[2])
      <3>1. Laid(e.lpm, e.size, o) /\ Laid(f.lpm, f.size, u) /\ Extended(e.lpm, o, f.lpm, u)
        BY <1>1, <1>3, <2>2
      <3> HIDE DEF e, f
      <3> QED BY <2>2, <3>1, PagesStay
    <2> QED BY <2>1, <2>2 DEF PagesMapped
  <1>4. ASSUME NEW table \in Tables, NEW amount \in Amounts, Increase(table, amount)
        PROVE  ExtentsInv' /\ PagesMapped
    <2> DEFINE more == [extents.size EXCEPT ![table] = @ + amount]
    <2>1. extents'.lpm = Pointers(extents.lpm, table, amount) /\ extents'.size = more
      BY <1>4 DEF Increase
    <2>2. amount \in Nat \ {0}
      BY ExtentsAssumption
    <2>3. more \in [Tables -> Nat \ {0}]
      BY <1>2, <2>2
    <2>4. PICK u : Laid(Pointers(extents.lpm, table, amount), more, u) /\ Extended(extents.lpm, o, Pointers(extents.lpm, table, amount), u)
      BY <1>1, <2>2, PointersLaid
    <2> HIDE DEF more
    <2>5. Laid(extents'.lpm, extents'.size, u) /\ Extended(extents.lpm, o, extents'.lpm, u)
      BY <2>1, <2>4
    <2> QED BY <1>3, <2>1, <2>3, <2>5 DEF ExtentsInv
  <1>5. CASE InitializeValues
    <2>1. extents'.lpm = Unbroken(extents.size) /\ extents'.size = extents.size
      <3> DEFINE x == Unbroken(extents.size)
      <3>1. extents' = [extents EXCEPT !.lpm = x]
        BY <1>5 DEF InitializeValues
      <3> QED BY <3>1
    <2>2. PICK u : Laid(Unbroken(extents.size), extents.size, u)
      BY <1>2, UnbrokenLaid
    <2> QED BY <1>2, <1>3, <2>1, <2>2 DEF ExtentsInv
  <1>6. CASE UNCHANGED extents
    BY <1>1, <1>2, <1>6 DEF ExtentsInv
  <1> QED BY <1>4, <1>5, <1>6 DEF ExtNext

\* However the tables are increased, and the file initialized, its pages are each one page of one
\* table, those that BSIZE and DSIZE say there are, and an increase moves none of them.
THEOREM ExtentsMapPagesHolds == ExtSpec => ExtentsMapPages
  BY ExtInitHolds, ExtStepHolds, PTL DEF ExtSpec, ExtentsMapPages
=============================================================================
