----------------------------- MODULE Patterns -----------------------------
(* util::Pattern (pattern.cpp, pattern.h) and the value cursor that uses it   *)
(* (valdirect.cpp). A text is a sequence of tokens, each one character; a     *)
(* match gives the set of lengths matched, held in a map of whole words.      *)
EXTENDS Integers, Sequences, SequencesExt, FiniteSetsExt, Functions

CONSTANTS CharOrder,    \* the characters, from 1 to the last that a char holds
          Alphas, DigitValue, HexTable, ToUpper,
          PATRPTMAX, WordBits,
          Candidates,   \* strings that are compared with a pattern
          PatternTexts, \* [nocase, t] that are compared with them
          CursorTexts, CursorLimits, IndexValues

VARIABLES pat,      \* the Pattern object, and the text it has been given
          dvc,      \* the value cursor
          wanted,   \* (reference) what the user asked of the cursor
          told      \* (reference) where the last call should have left it
patVars == <<pat, dvc, wanted, told>>

Code(c) == CHOOSE n \in DOMAIN CharOrder : CharOrder[n] = c
At(t, i) == IF i \in DOMAIN t THEN t[i] ELSE "end"
Upper(t) == [i \in DOMAIN t |-> IF t[i] \in DOMAIN ToUpper THEN ToUpper[t[i]] ELSE t[i]]
Special == {",", "(", ")", "+", "*", "-", "/", "@", "#", "!", "="}
---------------------------------------------------------------------------
(* Parsing. A component has a kind, and what the kind needs.                 *)
Simple(k) == [k |-> k, lo |-> "", hi |-> "", min |-> 0, max |-> 0, list |-> <<>>]
Placeholders == ("+" :> "any") @@ ("@" :> "alpha") @@ ("#" :> "digit") @@ ("*" :> "wild")
CharComp(c) == [Simple("char") EXCEPT !.lo = c]
ListComp(l) == [Simple("list") EXCEPT !.list = l]
Bad == [ok |-> FALSE, at |-> 0, comps |-> <<>>, list |-> <<>>, comp |-> Simple("list"), prefix |-> <<>>, fixed |-> FALSE]

\* A literal, an escaped character or the two digits of a hex one, and its last position.
Literal(t, i) ==
  CASE t[i] = "!" -> [ok |-> i + 1 <= Len(t), c |-> At(t, i + 1), at |-> i + 1]
    [] t[i] = "=" -> [ok |-> <<At(t, i + 1), At(t, i + 2)>> \in DOMAIN HexTable, at |-> i + 2,
                      c |-> IF <<At(t, i + 1), At(t, i + 2)>> \in DOMAIN HexTable
                            THEN HexTable[<<At(t, i + 1), At(t, i + 2)>>] ELSE ""]
    [] OTHER -> [ok |-> TRUE, c |-> t[i], at |-> i]

\* The number before a repeated list: strtoul, which takes a plus sign.
Number(t) ==
  LET d == IF At(t, 1) = "+" THEN Tail(t) ELSE t
  IN IF d # <<>> /\ Range(d) \subseteq DOMAIN DigitValue THEN FoldLeft(LAMBDA n, c : n * 10 + DigitValue[c], 0, d)
     ELSE PATRPTMAX + 1

\* A range stands alone in its member, inside brackets.
RangeOf(t, c, comps, top) ==
  LET i == c.at + 2
      d == IF i <= Len(t) THEN Literal(t, i) ELSE [ok |-> FALSE, c |-> "", at |-> 0]
  IN IF /\ comps = <<>> /\ ~top
        /\ At(t, i) \notin Special \ {"!", "="} /\ d.ok
        /\ At(t, d.at + 1) \in {")", ","}
        /\ Code(c.c) < Code(d.c)
     THEN [Bad EXCEPT !.ok = TRUE, !.at = d.at + 1, !.comp = [Simple("range") EXCEPT !.lo = c.c, !.hi = d.c]]
     ELSE Bad

\* mutant: a list leaves what follows it in the fixed prefix
PrefixKept(fixed, c) == fixed
\* What comes after anything but a literal is not part of the fixed prefix.
StillFixed(fixed, c) == fixed /\ c.k = "char"

RECURSIVE ParseSingle(_, _, _, _), ParseList(_, _, _, _, _), ParseRepeated(_, _)
ParseSingle(t, i, top, r) ==
  LET With(c, at) == ParseSingle(t, at, top,
        [r EXCEPT !.comps = Append(@, c), !.fixed = StillFixed(@, c),
                  !.prefix = IF StillFixed(r.fixed, c) THEN Append(@, c.lo) ELSE @])
      Sub(p) == IF p.ok THEN With(p.comp, p.at) ELSE Bad
  IN CASE i > Len(t) -> IF top THEN [r EXCEPT !.ok = TRUE, !.at = i] ELSE Bad
       [] At(t, i) \in {",", ")"} -> [r EXCEPT !.ok = TRUE, !.at = i]
       [] At(t, i) \in DOMAIN Placeholders -> With(Simple(Placeholders[t[i]]), i + 1)
       [] At(t, i) = "(" -> LET l == ParseList(t, i + 1, FALSE, <<>>, TRUE) IN
                              IF l.ok THEN With(ListComp(l.list), l.at + 1) ELSE Bad
       [] At(t, i) = "/" -> Sub(ParseRepeated(t, i))
       [] At(t, i) = "-" -> Bad
       [] i <= Len(t) /\ t[i] \notin Special \ {"!", "="} ->
            LET c == Literal(t, i) IN
            IF ~c.ok THEN Bad
            ELSE IF At(t, c.at + 1) = "-" THEN Sub(RangeOf(t, c, r.comps, top))
            ELSE With(CharComp(c.c), c.at + 1)

ParseList(t, i, top, list, first) ==
  LET m == ParseSingle(t, IF first THEN i ELSE i + 1, top, [Bad EXCEPT !.fixed = TRUE])
      done == [Bad EXCEPT !.ok = TRUE, !.at = i, !.list = list]
  IN CASE i > Len(t) -> IF top THEN done ELSE Bad
       [] At(t, i) = ")" -> IF top THEN Bad ELSE done
       [] OTHER -> IF ~m.ok THEN Bad
                   ELSE LET l == ParseList(t, m.at, top, Append(list, m.comps), FALSE) IN
                        [l EXCEPT !.prefix = IF top /\ Len(l.list) = 1 THEN m.prefix ELSE <<>>]

ParseRepeated(t, i) ==
  LET opens == {j \in i .. Len(t) : t[j] = "("}
      b == Min(opens)
      h == {j \in i .. b : t[j] = "-"}
      least == Number(SubSeq(t, i + 1, (IF h = {} THEN b ELSE Min(h)) - 1))
      most == IF h = {} THEN least ELSE Number(SubSeq(t, Min(h) + 1, b - 1))
      l == ParseList(t, b + 1, FALSE, <<>>, TRUE)
  IN IF opens = {} THEN Bad
     ELSE IF least > PATRPTMAX \/ most > PATRPTMAX \/ (h # {} /\ most <= least) \/ ~l.ok THEN Bad
     ELSE [Bad EXCEPT !.ok = TRUE, !.at = l.at + 1,
                      !.comp = [ListComp(l.list) EXCEPT !.k = "repeat", !.min = least, !.max = most]]
Parse(t) == ParseList(t, 1, TRUE, <<>>, TRUE)
---------------------------------------------------------------------------
(* Matching.                                                                 *)
MapOf(bits, n) == [bits |-> bits, size |-> ((n + WordBits - 1) \div WordBits) * WordBits]
ZerothBit(s) == MapOf({0}, Len(s) + 1)
OnethBit(s) == MapOf({1}, Len(s) + 1)
NoBits(s) == MapOf({}, Len(s) + 1)
AllBits(s) == [NoBits(s) EXCEPT !.bits = 0 .. NoBits(s).size - 1]
pattdummy == <<"dummy">>
\* The end of the string reads as a null.
CharAt(s, off) == IF off < Len(s) THEN s[off + 1] ELSE "null"
InRange(c, x) == c \in Range(CharOrder) /\ Code(x.lo) <= Code(c) /\ Code(c) <= Code(x.hi)
Fits(x, c) == CASE x.k = "char" -> c = x.lo
                [] x.k = "any" -> TRUE
                [] x.k = "alpha" -> c \in Alphas
                [] x.k = "digit" -> c \in DOMAIN DigitValue
                [] x.k = "range" -> InRange(c, x)

\* Shifted as far as its own map goes.
Shifted(m, x) == {b + x : b \in m.bits} \cap 0 .. m.size - 1
\* What is left of a pattern at the end of the string has to match nothing.
OnlyZero(m) == [m EXCEPT !.bits = @ \cap {0}]

RECURSIVE MatchSingle(_, _, _, _), MatchComponent(_, _, _)
\* SinglePattern::Match, from a component on. The map for the dummy is as long as the dummy's.
MatchSingle(comps, p, s, off) ==
  LET this == MatchComponent(comps[p], s, off)
      Next(x) == IF x = Len(s) - off THEN OnlyZero(MatchSingle(comps, p + 1, pattdummy, 0))
                 ELSE MatchSingle(comps, p + 1, s, off + x)
  IN IF p > Len(comps) THEN ZerothBit(s)
     ELSE IF this.bits = {} \/ p = Len(comps) THEN this
     ELSE [NoBits(s) EXCEPT !.bits = UNION {Shifted(Next(x), x) : x \in this.bits \cap 0 .. Len(s) - off}]
MatchMembers(list, s, off) ==
  IF list = <<>> THEN ZerothBit(s)
  ELSE [NoBits(s) EXCEPT !.bits = UNION {MatchSingle(m, 1, s, off).bits : m \in Range(list)}]
MatchComponent(x, s, off) ==
  CASE x.k = "wild" -> AllBits(s)
    [] x.k = "list" -> MatchMembers(x.list, s, off)
    [] x.k = "repeat" -> [NoBits(s) EXCEPT !.bits =
          UNION {MatchSingle([y \in 1 .. n |-> ListComp(x.list)], 1, s, off).bits : n \in x.min .. x.max}]
    [] OTHER -> IF Fits(x, CharAt(s, off)) THEN OnethBit(s) ELSE NoBits(s)
---------------------------------------------------------------------------
(* The object.                                                               *)
NoPattern == [set |-> FALSE, nocase |-> FALSE, simple |-> FALSE, trailing |-> FALSE, part |-> <<>>,
              list |-> <<>>, prefix |-> <<>>, text |-> [nocase |-> FALSE, t |-> <<>>]]
\* SetPattern: the NOCASE: option, then the form that only needs a search, then the parse.
SetPattern(text) ==
  LET t == IF text.nocase THEN Upper(text.t) ELSE text.t
      trailing == Len(t) > 1 /\ Last(t) = "*"
      part == SubSeq(t, 2, Len(t) - IF trailing THEN 1 ELSE 0)
      simple == Len(t) > 1 /\ t[1] = "*" /\ Range(part) \cap Special = {}
      new == [NoPattern EXCEPT !.nocase = text.nocase, !.text = text]
      Of(parsed) == IF parsed.ok THEN [new EXCEPT !.set = TRUE, !.list = parsed.list, !.prefix = parsed.prefix] ELSE new
  IN IF simple THEN [new EXCEPT !.set = TRUE, !.simple = TRUE, !.trailing = trailing, !.part = part]
     ELSE Of(Parse(t))
\* Match at the top level, where the fixed prefix rules strings out; IsLike asks for the full length.
MatchTop(p, s) == IF IsPrefix(p.prefix, s) THEN Len(s) \in MatchMembers(p.list, s, 0).bits ELSE FALSE
FoundFrom(s, part, from) == \E i \in from .. Len(s) - Len(part) : SubSeq(s, i + 1, i + Len(part)) = part
IsLike(p, string) ==
  LET s == IF p.nocase THEN Upper(string) ELSE string
  IN CASE p.simple -> Len(s) >= Len(p.part) /\ FoundFrom(s, p.part, IF p.trailing THEN 0 ELSE Len(s) - Len(p.part))
       [] ~p.simple /\ ~p.set -> FALSE
       [] ~p.simple /\ p.set -> MatchTop(p, s)
IsNullPattern(p) == ~p.simple /\ p.list = <<>>
\* <<>> is no prefix, or the empty one of a null pattern.
FixedPrefixAndCase(p) == IF p.nocase THEN <<>> ELSE p.prefix
---------------------------------------------------------------------------
(* The value cursor: limits, a pattern, and the value it is at.              *)
Less(a, b) == \E i \in DOMAIN b : /\ i <= Len(a) => Code(a[i]) < Code(b[i])
                                /\ \A j \in 1 .. i - 1 : j <= Len(a) /\ a[j] = b[j]
NoLimit == [on |-> FALSE, inclusive |-> FALSE, v |-> <<>>]
\* The string whose last character, that is not the highest, is one more.
GenerateNextStringValue(s) ==
  LET low == {i \in DOMAIN s : Code(s[i]) < Len(CharOrder)}
      i == Max(low)
  IN IF low = {} THEN Append(s, CharOrder[1]) ELSE Append(SubSeq(s, 1, i - 1), CharOrder[Code(s[i]) + 1])

Fixed(d) == FixedPrefixAndCase(d.pattern)
\* "freed": pattern_fixed_prefix points into the pattern of a clone that is gone. What is read there
\* is still the prefix, or nothing, or what has been put there since.
PrefixRead(d) == IF d.freed THEN {Fixed(d), <<>>, <<Last(CharOrder)>>} ELSE {Fixed(d)}
\* InitializeScan: the limits are narrowed to the fixed prefix, and stay so.
Narrowed(d, prefix) ==
  LET next == GenerateNextStringValue(prefix)
  IN IF ~d.patterned \/ d.notlike \/ (Fixed(d) = <<>> /\ ~IsNullPattern(d.pattern)) THEN d
     ELSE [d EXCEPT !.lo = IF ~@.on \/ Less(@.v, prefix) THEN [on |-> TRUE, inclusive |-> TRUE, v |-> prefix] ELSE @,
                    !.hi = IF ~@.on \/ Less(next, @.v) THEN [on |-> TRUE, inclusive |-> FALSE, v |-> next] ELSE @]
LoPassed(d, v) == d.lo.on /\ (Less(v, d.lo.v) \/ (v = d.lo.v /\ ~d.lo.inclusive))
HiPassed(d, v) == d.hi.on /\ (Less(d.hi.v, v) \/ (v = d.hi.v /\ ~d.hi.inclusive))
Passes(d, v) == d.patterned => IsLike(d.pattern, v) # d.notlike

\* The values a walk over the range comes to, from either end. Where it starts at a limit that
\* is in the index, only the pattern is looked at.
Walked(d, ascending) ==
  LET limit == IF ascending THEN d.lo ELSE d.hi
      start == IF limit.on THEN (IF limit.inclusive THEN {limit.v} \cap IndexValues ELSE {})
               ELSE {v \in IndexValues : \A w \in IndexValues : IF ascending THEN ~Less(w, v) ELSE ~Less(v, w)}
      After(v, w) == IF ascending THEN Less(v, w) ELSE Less(w, v)
      Past(v) == IF ascending THEN HiPassed(d, v) ELSE LoPassed(d, v)
      from == IF limit.on THEN {limit.v} ELSE start
  IN IF d.lo.on /\ d.hi.on /\ Less(d.hi.v, d.lo.v) THEN {}
     ELSE IF ~limit.on /\ \E v \in start : Past(v) THEN {}
     ELSE {v \in start : Passes(d, v)}
          \cup {v \in IndexValues : (\E w \in from : After(w, v)) /\ ~Past(v) /\ Passes(d, v)}
FirstOf(d, set) == {v \in set : \A w \in set : ~IF d.ascending THEN Less(w, v) ELSE Less(v, w)}
LastOf(d, set) == {v \in set : \A w \in set : ~IF d.ascending THEN Less(v, w) ELSE Less(w, v)}
Start(n, first) == [n EXCEPT !.pos = IF first THEN FirstOf(n, Walked(n, n.ascending)) ELSE LastOf(n, Walked(n, ~n.ascending))]
GotoFirst(d, prefix) == Start(Narrowed(d, prefix), TRUE)
GotoLast(d, prefix) == Start(Narrowed(d, prefix), FALSE)
\* The next value up, or down, that is within the range and passes.
Stepped(d, forwards) ==
  LET up == forwards = d.ascending
      on == {v \in IndexValues : \E w \in d.pos : (IF up THEN Less(w, v) ELSE Less(v, w)) /\ Passes(d, v)}
      in == {v \in on : IF up THEN ~HiPassed(d, v) ELSE ~LoPassed(d, v)}
  IN [d EXCEPT !.pos = IF forwards THEN FirstOf(d, in) ELSE LastOf(d, in)]

RECURSIVE Searched(_, _, _)
\* The loop of SetPosition: until the value, one past it or the end.
Searched(d, v, forwards) ==
  IF \/ d.pos = {} \/ v \in d.pos
     \/ \E w \in d.pos : (Less(w, v) = d.ascending) # forwards
  THEN d ELSE Searched(Stepped(d, forwards), v, forwards)
\* What is left when the value is not found. To remain, the cursor becomes the clone that was made
\* of it before, with a pattern of the clone's own and the pointer into the old one's prefix.
Found(d, v, fail, forwards, start, end, prefix) ==
  LET Other(more) == IF end.pos # {} THEN Stepped(end, more)
                     ELSE IF more THEN GotoFirst(end, prefix) ELSE GotoLast(end, prefix)
  IN IF v \in end.pos THEN end
     ELSE CASE fail = "remain" -> IF d.pos = {} THEN [end EXCEPT !.pos = {}]
                                  ELSE [d EXCEPT !.freed = d.patterned /\ Fixed(d) # <<>>]
            [] fail = "next" -> IF forwards THEN end ELSE Other(TRUE)
            [] fail = "prev" -> IF forwards THEN Other(FALSE) ELSE end
            [] fail = "invalidate" -> [end EXCEPT !.pos = {}]
Sought(d, v, fail, forwards, start, prefix) ==
  IF start.pos = {} THEN start ELSE Found(d, v, fail, forwards, start, Searched(start, v, forwards), prefix)
\* SetPosition, where the search starts.
SetPosition(d, v, from, fail, prefix) ==
  IF d.pos # {} /\ from = "current" THEN Sought(d, v, fail, \A w \in d.pos : Less(w, v) = d.ascending, d, prefix)
  ELSE Sought(d, v, fail, from # "last", IF from = "last" THEN GotoLast(d, prefix) ELSE GotoFirst(d, prefix), prefix)
---------------------------------------------------------------------------
NoDVC == [open |-> FALSE, lo |-> NoLimit, hi |-> NoLimit, patterned |-> FALSE, notlike |-> FALSE,
          pattern |-> NoPattern, freed |-> FALSE, ascending |-> TRUE, pos |-> {}]
NothingTold == [on |-> FALSE, pos |-> {}]
PatInit ==
  /\ pat = NoPattern /\ dvc = NoDVC
  /\ wanted = [lo |-> NoLimit, hi |-> NoLimit]
  /\ told = NothingTold

\* The values the user asked for.
Asked(d) == {v \in IndexValues : Passes(d, v) /\ LET u == [d EXCEPT !.lo = wanted.lo, !.hi = wanted.hi] IN
                                                  ~LoPassed(u, v) /\ ~HiPassed(u, v)}
GivePattern(text) ==
  /\ ~dvc.open
  /\ pat' = SetPattern(text)
  /\ UNCHANGED <<dvc, wanted, told>>
OpenCursor(ascending) ==
  /\ pat = NoPattern /\ ~dvc.open
  /\ dvc' = [NoDVC EXCEPT !.open = TRUE, !.ascending = ascending]
  /\ UNCHANGED <<pat, wanted, told>>
\* Only the pattern is replaced: what a scan has narrowed for another one stays.
SetRestriction_Pattern(text, notlike) ==
  /\ dvc.open
  /\ \E p \in {SetPattern(text)} :
     /\ p.set
     /\ dvc' = [dvc EXCEPT !.patterned = TRUE, !.notlike = notlike, !.pattern = p, !.freed = FALSE, !.pos = {}]
  /\ told' = NothingTold
  /\ UNCHANGED <<pat, wanted>>
SetRestriction_Limit(low, v, inclusive) ==
  LET limit == [on |-> TRUE, inclusive |-> inclusive, v |-> v] IN
  /\ dvc.open
  /\ wanted' = IF low THEN [wanted EXCEPT !.lo = limit] ELSE [wanted EXCEPT !.hi = limit]
  /\ dvc' = IF low THEN [dvc EXCEPT !.lo = limit, !.pos = {}] ELSE [dvc EXCEPT !.hi = limit, !.pos = {}]
  /\ told' = NothingTold
  /\ UNCHANGED pat
Goto(first) ==
  /\ dvc.open
  /\ \E prefix \in PrefixRead(dvc) : dvc' = IF first THEN GotoFirst(dvc, prefix) ELSE GotoLast(dvc, prefix)
  /\ told' = [on |-> TRUE, pos |-> IF first THEN FirstOf(dvc, Asked(dvc)) ELSE LastOf(dvc, Asked(dvc))]
  /\ UNCHANGED <<pat, wanted>>
Position(v, from, fail) ==
  LET asked == Asked(dvc)
      beyond == {w \in asked : IF dvc.ascending THEN Less(v, w) ELSE Less(w, v)}
  IN
  /\ dvc.open
  /\ \E prefix \in PrefixRead(dvc) : dvc' = SetPosition(dvc, v, from, fail, prefix)
  /\ told' = [on |-> TRUE, pos |-> CASE v \in asked -> {v}
                                      [] v \notin asked /\ fail = "remain" -> dvc.pos
                                      [] v \notin asked /\ fail = "next" -> FirstOf(dvc, beyond)
                                      [] v \notin asked /\ fail = "prev" -> LastOf(dvc, asked \ beyond)
                                      [] v \notin asked /\ fail = "invalidate" -> {}]
  /\ UNCHANGED <<pat, wanted>>

PatNext ==
  \/ pat = NoPattern /\ \E x \in PatternTexts : GivePattern(x)
  \/ \E ascending \in BOOLEAN : OpenCursor(ascending)
  \/ \E x \in CursorTexts : \E n \in BOOLEAN : SetRestriction_Pattern(x, n)
  \/ \E low, inclusive \in BOOLEAN : \E v \in CursorLimits : SetRestriction_Limit(low, v, inclusive)
  \/ \E first \in BOOLEAN : Goto(first)
  \/ \E v \in CursorLimits : \E from \in {"current", "first", "last"} :
       \E fail \in {"invalidate", "remain", "next", "prev"} : Position(v, from, fail)
---------------------------------------------------------------------------
(* What a pattern means: whole strings, by the way they can be cut. "seen"   *)
(* is the cuts that the code sees at the end of the string: the rest of the  *)
(* pattern is matched there to a dummy, whose map of one word loses its bit  *)
(* when it is shifted by the length of the part that comes to the end.       *)
RECURSIVE Means(_, _, _, _), MeansAll(_, _, _, _)
Means(x, s, end, seen) ==
  CASE x.k = "wild" -> TRUE
    [] x.k = "list" -> (x.list = <<>> /\ s = <<>>) \/ \E m \in Range(x.list) : MeansAll(m, s, end, seen)
    [] x.k = "repeat" -> \E n \in x.min .. x.max : MeansAll([y \in 1 .. n |-> ListComp(x.list)], s, end, seen)
    [] OTHER -> Len(s) = 1 /\ Fits(x, s[1])
MeansAll(comps, s, end, seen) ==
  CASE comps = <<>> -> s = <<>>
    [] Len(comps) = 1 -> Means(comps[1], s, end, seen)
    [] OTHER -> \E n \in 0 .. Len(s) :
                  /\ end /\ n = Len(s) => n \in seen
                  /\ Means(comps[1], SubSeq(s, 1, n), end /\ n = Len(s), seen)
                  /\ MeansAll(Tail(comps), SubSeq(s, n + 1, Len(s)), end, seen)
MeantBy(text, string, seen) ==
  LET Cased(t) == IF text.nocase THEN Upper(t) ELSE t
  IN Means(ListComp(Parse(Cased(text.t)).list), Cased(string), TRUE, seen)

\* What the user has asked for is what the cursor can know of it: its limits are those given,
\* narrowed for this pattern and no other; they are not one value that is excluded, since no walk
\* tests the limit it starts at against the other; and the prefix is not only the highest character,
\* which no string of one more character comes after.
Understood ==
  LET own == Narrowed([dvc EXCEPT !.lo = wanted.lo, !.hi = wanted.hi], Fixed(dvc)) IN
  /\ [dvc EXCEPT !.lo = own.lo, !.hi = own.hi] = dvc
  /\ wanted.lo.on /\ wanted.hi.on /\ wanted.lo.v = wanted.hi.v => wanted.lo.inclusive /\ wanted.hi.inclusive
  /\ dvc.patterned /\ ~dvc.notlike => Range(Fixed(dvc)) # {Last(CharOrder)}

\* A string is like a pattern exactly if it can be cut into pieces the parts of the pattern stand
\* for, whichever of the short cuts applies, where a part before the last does not come to the end of the
\* string in a piece as long as a word of the map. A cursor restricted by limits and patterns, in any
\* order, comes first, last and on request to the very values the user asked for, if what he asked for is
\* Understood.
PatternsAreTrue ==
  /\ pat.set => \A s \in Candidates : IsLike(pat, s) = MeantBy(pat.text, s, 0 .. WordBits - 1)
  /\ pat # NoPattern => pat.set = Parse(IF pat.nocase THEN Upper(pat.text.t) ELSE pat.text.t).ok
  /\ told.on /\ Understood => dvc.pos = told.pos
=============================================================================
