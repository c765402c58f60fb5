------------------------------ MODULE ParserProofs ------------------------------
(***************************************************************************)
(* Proofs about the parser of lines, Parser and LineParser, for lines of    *)
(* every length over every alphabet of the characters that lines have.      *)
(***************************************************************************)
EXTENDS Parser, SequenceTheorems, TLAPS

-----------------------------------------------------------------------------
(* The digits are none of the characters that end a name, a number or a line. *)
LEMMA DigitsApart ==
  /\ ":" \notin NameChars /\ "|" \notin NumberChars /\ "lf" \notin Chars
BY LineParserAssumption DEF LineParserAssumption, NameChars, NumberChars, Chars

(* A repetition can stop in one place only. *)
LEMMA TakesUnique ==
  ASSUME NEW l \in Seq(Chars), NEW S, NEW i \in Nat \ {0},
         NEW j \in Nat, NEW k \in Nat, Takes(l, S, i, j), Takes(l, S, i, k)
  PROVE  j = k
<1>1. ASSUME NEW x \in Nat, NEW y \in Nat, Takes(l, S, i, x), Takes(l, S, i, y), x < y
      PROVE  FALSE
  <2>1. x \in i..(y - 1) /\ x <= Len(l)
    BY <1>1 DEF Takes
  <2> QED
    BY <1>1, <2>1 DEF Takes
<1> QED
  BY <1>1

(* Where the name and the number of a line end. *)
LEMMA IncrementsUnique ==
  ASSUME NEW l \in Seq(Chars), NEW c \in Nat, NEW b \in Nat, NEW colon \in Nat, NEW bar \in Nat,
         Increments(l, c, b), Increments(l, colon, bar)
  PROVE  c = colon /\ b = bar
<1>1. c = colon
  BY TakesUnique DEF Increments
<1>2. c + 1 \in Nat \ {0}
  OBVIOUS
<1> QED
  BY <1>1, <1>2, TakesUnique DEF Increments

(* The positions in question are positions of the line. *)
LEMMA IncrementsPositions ==
  ASSUME NEW l \in Seq(Chars), NEW c \in Nat, NEW b \in Nat, Increments(l, c, b)
  PROVE  /\ c \in Positions(l) /\ b \in Positions(l)
         /\ 1 < c /\ c + 1 < b /\ b + 1 <= Len(l)
         /\ Counts(l)
         /\ Name(l) = SubSeq(l, 1, c - 1)
         /\ Accepts(l) <=> Eol(l, b + 2)
<1>1. /\ c \in Positions(l) /\ b \in Positions(l) /\ 1 < c /\ c + 1 < b /\ b + 1 <= Len(l)
      /\ Positions(l) \subseteq Nat
  BY DEF Increments, Takes, CharAt, Positions
<1>2. Counts(l)
  BY <1>1 DEF Counts
<1>3. Name(l) = SubSeq(l, 1, c - 1)
  <2>1. \A x \in Positions(l) :
          (\E bar \in Positions(l) : Increments(l, x, bar)) <=> x = c
    BY <1>1, IncrementsUnique
  <2>2. (CHOOSE x \in Positions(l) : \E bar \in Positions(l) : Increments(l, x, bar)) = c
    BY <1>1, <2>1
  <2> QED
    BY <2>2 DEF Name
<1>4. Accepts(l) <=> Eol(l, b + 2)
  BY <1>1, IncrementsUnique DEF Accepts
<1> QED
  BY <1>1, <1>2, <1>3, <1>4

-----------------------------------------------------------------------------
(* What a line counts as does not change when characters follow.            *)
LEMMA CountsStays ==
  ASSUME NEW l \in Seq(Chars), NEW char \in Chars, Counts(l)
  PROVE  Counts(Append(l, char)) /\ Name(Append(l, char)) = Name(l)
<1> DEFINE m == Append(l, char)
<1>1. PICK c \in Positions(l), b \in Positions(l) : Increments(l, c, b)
  BY DEF Counts
<1>2. c \in Nat /\ b \in Nat
  BY DEF Positions
<1>3. 1 < c /\ c + 1 < b /\ b + 1 <= Len(l) /\ Name(l) = SubSeq(l, 1, c - 1)
  BY <1>1, <1>2, IncrementsPositions
<1>4. m \in Seq(Chars) /\ Len(m) = Len(l) + 1 /\ \A i \in 1..Len(l) : m[i] = l[i]
  OBVIOUS
<1> HIDE DEF m
<1>5. \A i, j \in 1..Len(l) : SubSeq(m, i, j) = SubSeq(l, i, j)
  BY <1>4
<1>6. Increments(m, c, b)
  <2>1. Takes(m, NameChars, 1, c) /\ Takes(m, NumberChars, c + 1, b)
    <3>1. ASSUME NEW S, NEW i \in Nat \ {0}, NEW j \in 1..Len(l), Takes(l, S, i, j)
          PROVE  Takes(m, S, i, j)
      <4>1. \A k \in i..(j - 1) : k \in 1..Len(l) /\ l[k] \in S
        BY <3>1 DEF Takes
      <4>2. i < j /\ j <= Len(m) + 1 /\ l[j] \notin S
        BY <1>4, <3>1 DEF Takes
      <4> QED
        BY <1>4, <4>1, <4>2 DEF Takes
    <3>2. c \in 1..Len(l) /\ b \in 1..Len(l) /\ 1 \in Nat \ {0} /\ c + 1 \in Nat \ {0}
      BY <1>2, <1>3
    <3> QED
      BY <1>1, <3>1, <3>2 DEF Increments
  <2>2. CharAt(m, c, ":") /\ CharAt(m, b, "|") /\ CharAt(m, b + 1, "c")
    BY <1>1, <1>2, <1>3, <1>4 DEF Increments, CharAt
  <2>3. SubSeq(m, c + 1, b - 1) = SubSeq(l, c + 1, b - 1)
    BY <1>2, <1>3, <1>5
  <2> QED
    BY <1>1, <2>1, <2>2, <2>3 DEF Increments
<1>7. Counts(m) /\ Name(m) = SubSeq(m, 1, c - 1)
  BY <1>2, <1>4, <1>6, IncrementsPositions
<1>8. SubSeq(m, 1, c - 1) = SubSeq(l, 1, c - 1)
  BY <1>2, <1>3, <1>5
<1> QED
  BY <1>3, <1>7, <1>8 DEF m

-----------------------------------------------------------------------------
(* The elements of a concatenation. *)
LEMMA Joined ==
  ASSUME NEW S, NEW s \in Seq(S), NEW t \in Seq(S)
  PROVE  /\ s \o t \in Seq(S) /\ Len(s \o t) = Len(s) + Len(t)
         /\ \A k \in 1..Len(s) : (s \o t)[k] = s[k]
         /\ \A k \in (Len(s) + 1)..(Len(s) + Len(t)) : (s \o t)[k] = t[k - Len(s)]
OBVIOUS

(* The documented form of a line, character by character. *)
LEMMA PartsOfLine ==
  ASSUME NEW l \in Seq(Chars), NEW i \in Nat, NEW j \in Nat, i + 2 <= j, j <= Len(l)
  PROVE  LET name   == SubSeq(l, 1, i)
             number == SubSeq(l, i + 2, j)
             w      == name \o << ":" >> \o number \o << "|", "c" >>
         IN /\ w \in Seq(Chars) /\ Len(w) = j + 2
            /\ \A k \in 1..i : w[k] = l[k] /\ name[k] = l[k]
            /\ w[i + 1] = ":"
            /\ \A k \in (i + 2)..j : w[k] = l[k] /\ number[k - i - 1] = l[k]
            /\ w[j + 1] = "|" /\ w[j + 2] = "c"
            /\ Len(name) = i /\ Len(number) = j - i - 1
<1> DEFINE name == SubSeq(l, 1, i)
           number == SubSeq(l, i + 2, j)
           head == name \o << ":" >>
           most == head \o number
           w == most \o << "|", "c" >>
<1>1. /\ name \in Seq(Chars) /\ Len(name) = i /\ \A k \in 1..i : name[k] = l[k]
  OBVIOUS
<1>2. /\ number \in Seq(Chars) /\ Len(number) = j - i - 1
      /\ \A k \in 1..(j - i - 1) : number[k] = l[k + i + 1]
  OBVIOUS
<1> HIDE DEF name, number
<1>3. << ":" >> \in Seq(Chars) /\ << "|", "c" >> \in Seq(Chars)
  BY DEF Chars
<1>4. /\ head \in Seq(Chars) /\ Len(head) = i + 1
      /\ \A k \in 1..i : head[k] = l[k]
      /\ head[i + 1] = ":"
  BY <1>1, <1>3
<1> HIDE DEF head
<1>5. /\ most \in Seq(Chars) /\ Len(most) = j
      /\ \A k \in 1..(i + 1) : most[k] = head[k]
      /\ \A k \in (i + 2)..j : most[k] = number[k - (i + 1)]
  <2>1. Len(head) + Len(number) = j /\ Len(head) + 1 = i + 2 /\ Len(head) = i + 1
    BY <1>2, <1>4
  <2>2. /\ most \in Seq(Chars) /\ Len(most) = Len(head) + Len(number)
        /\ \A k \in 1..Len(head) : most[k] = head[k]
    BY <1>2, <1>4, Joined
  <2>3. \A k \in (Len(head) + 1)..(Len(head) + Len(number)) : most[k] = number[k - Len(head)]
    BY <1>2, <1>4, Joined
  <2> HIDE DEF most
  <2> QED
    BY <2>1, <2>2, <2>3
<1>6. \A k \in (i + 2)..j : most[k] = l[k] /\ number[k - i - 1] = l[k]
  <2> SUFFICES ASSUME NEW k \in (i + 2)..j PROVE most[k] = l[k] /\ number[k - i - 1] = l[k]
    OBVIOUS
  <2>1. k - (i + 1) \in 1..(j - i - 1) /\ k - (i + 1) + i + 1 = k /\ k - i - 1 = k - (i + 1)
    OBVIOUS
  <2>2. number[k - (i + 1)] = l[k]
    BY <1>2, <2>1
  <2> QED
    BY <1>5, <2>1, <2>2
<1> HIDE DEF most
<1>7. /\ w \in Seq(Chars) /\ Len(w) = j + 2 /\ \A k \in 1..j : w[k] = most[k]
      /\ w[j + 1] = "|" /\ w[j + 2] = "c"
  <2> DEFINE tail == << "|", "c" >>
  <2>1. tail \in Seq(Chars) /\ Len(tail) = 2 /\ tail[1] = "|" /\ tail[2] = "c"
    BY <1>3
  <2> HIDE DEF tail
  <2>2. w = most \o tail
    BY DEF w, tail
  <2>3. j + 1 \in (j + 1)..(j + 2) /\ j + 2 \in (j + 1)..(j + 2)
        /\ (j + 1) - j = 1 /\ (j + 2) - j = 2
    OBVIOUS
  <2>4. \A k \in (j + 1)..(j + 2) : w[k] = tail[k - j]
    BY <1>5, <2>1, <2>2, Joined
  <2>5. w[j + 1] = tail[1] /\ w[j + 2] = tail[2]
    BY <2>3, <2>4
  <2>6. w \in Seq(Chars) /\ Len(w) = j + 2 /\ \A k \in 1..j : w[k] = most[k]
    BY <1>5, <2>1, <2>2, Joined
  <2> QED
    BY <2>1, <2>5, <2>6
<1> HIDE DEF w
<1>8. /\ \A k \in 1..i : w[k] = l[k] /\ name[k] = l[k]
      /\ w[i + 1] = ":"
      /\ \A k \in (i + 2)..j : w[k] = l[k] /\ number[k - i - 1] = l[k]
  BY <1>1, <1>4, <1>5, <1>6, <1>7
<1> QED
  BY <1>1, <1>2, <1>7, <1>8 DEF w, most, head, name, number

(* Which prefix of the line has the documented form. *)
LEMMA DocumentedIncrement ==
  ASSUME NEW l \in Seq(Chars), NEW i \in Nat, NEW j \in Nat
  PROVE  LET number == SubSeq(l, i + 2, j)
         IN /\ \A n \in 0..Len(l) :
                 j <= n /\ DocumentedParts(SubSeq(l, 1, n), SubSeq(l, 1, i), number) /\ Stod(number)
                   => Increments(l, i + 1, j + 1)
            /\ Increments(l, i + 1, j + 1)
                 => DocumentedParts(SubSeq(l, 1, j + 2), SubSeq(l, 1, i), number) /\ Stod(number)
<1> DEFINE name == SubSeq(l, 1, i)
           number == SubSeq(l, i + 2, j)
           w == name \o << ":" >> \o number \o << "|", "c" >>
           P == /\ w \in Seq(Chars) /\ Len(w) = j + 2
                /\ \A k \in 1..i : w[k] = l[k] /\ name[k] = l[k]
                /\ w[i + 1] = ":"
                /\ \A k \in (i + 2)..j : w[k] = l[k] /\ number[k - i - 1] = l[k]
                /\ w[j + 1] = "|" /\ w[j + 2] = "c"
                /\ Len(name) = i /\ Len(number) = j - i - 1
<1>1. i + 2 <= j /\ j <= Len(l) => P
  BY PartsOfLine
<1>2. ASSUME NEW n \in 0..Len(l), j <= n, DocumentedParts(SubSeq(l, 1, n), name, number),
             Stod(number)
      PROVE  Increments(l, i + 1, j + 1)
  <2>1. /\ name # << >> /\ \A k \in 1..Len(name) : name[k] \in NameChars
        /\ number # << >> /\ \A k \in 1..Len(number) : number[k] \in NumberChars
        /\ SubSeq(l, 1, n) = w
    BY <1>2 DEF DocumentedParts
  <2>2. i + 2 <= j /\ i > 0
    <3>1. j < i + 2 => number = << >>
      OBVIOUS
    <3>2. i = 0 => name = << >>
      OBVIOUS
    <3> QED
      BY <2>1, <3>1, <3>2
  <2>3. P
    <3>1. j <= Len(l)
      BY <1>2
    <3> QED
      BY <1>1, <2>2, <3>1
  <2>4. /\ SubSeq(l, 1, n) \in Seq(Chars) /\ Len(SubSeq(l, 1, n)) = n
        /\ \A k \in 1..n : SubSeq(l, 1, n)[k] = l[k]
    OBVIOUS
  <2> HIDE DEF w, name, number
  <2>5. n = j + 2 /\ \A k \in 1..n : w[k] = l[k]
    BY <2>1, <2>3, <2>4
  <2>6. l[i + 1] = ":" /\ l[j + 1] = "|" /\ l[j + 2] = "c"
    BY <1>2, <2>2, <2>3, <2>5
  <2>7. Takes(l, NameChars, 1, i + 1)
    <3>1. \A k \in 1..i : l[k] \in NameChars
      BY <2>1, <2>3
    <3> QED
      BY <2>2, <2>5, <2>6, <3>1, DigitsApart DEF Takes
  <2>8. Takes(l, NumberChars, i + 2, j + 1)
    <3>1. \A k \in (i + 2)..j : l[k] \in NumberChars
      <4> SUFFICES ASSUME NEW k \in (i + 2)..j PROVE l[k] \in NumberChars
        OBVIOUS
      <4>1. k - i - 1 \in 1..Len(number) /\ number[k - i - 1] = l[k]
        BY <2>3
      <4> QED
        BY <2>1, <4>1
    <3> QED
      BY <2>2, <2>5, <2>6, <3>1, DigitsApart DEF Takes
  <2>9. i + 1 + 1 = i + 2 /\ j + 1 - 1 = j /\ j + 1 + 1 = j + 2
    OBVIOUS
  <2> QED
    BY <1>2, <2>2, <2>5, <2>6, <2>7, <2>8, <2>9 DEF Increments, CharAt, number
<1>3. ASSUME Increments(l, i + 1, j + 1)
      PROVE  DocumentedParts(SubSeq(l, 1, j + 2), name, number) /\ Stod(number)
  <2>1. /\ Takes(l, NameChars, 1, i + 1) /\ Takes(l, NumberChars, i + 2, j + 1)
        /\ l[i + 1] = ":" /\ l[j + 1] = "|" /\ l[j + 2] = "c" /\ Stod(number)
    <3>1. i + 1 + 1 = i + 2 /\ j + 1 - 1 = j /\ j + 1 + 1 = j + 2
      OBVIOUS
    <3> QED
      BY <1>3, <3>1 DEF Increments, CharAt
  <2>2. 0 < i /\ i + 2 <= j /\ j + 2 <= Len(l)
    BY <1>3, IncrementsPositions
  <2>3. P
    BY <1>1, <2>2
  <2>4. /\ SubSeq(l, 1, j + 2) \in Seq(Chars) /\ Len(SubSeq(l, 1, j + 2)) = j + 2
        /\ \A k \in 1..(j + 2) : SubSeq(l, 1, j + 2)[k] = l[k]
    BY <2>2
  <2> DEFINE v == SubSeq(l, 1, j + 2)
  <2> HIDE DEF w, name, number, v
  <2>5. \A k \in 1..(j + 2) : v[k] = w[k]
    <3> SUFFICES ASSUME NEW k \in 1..(j + 2) PROVE l[k] = w[k]
      BY <2>4 DEF v
    <3>1. k \in 1..i \/ k = i + 1 \/ k \in (i + 2)..j \/ k = j + 1 \/ k = j + 2
      OBVIOUS
    <3> QED
      BY <2>1, <2>3, <3>1
  <2>6. v = w
    BY <2>3, <2>4, <2>5 DEF v
  <2>7. \A k \in 1..Len(name) : name[k] \in NameChars
    <3>1. \A k \in 1..((i + 1) - 1) : l[k] \in NameChars
      BY <2>1 DEF Takes
    <3> QED
      BY <2>3, <3>1
  <2>8. \A k \in 1..Len(number) : number[k] \in NumberChars
    <3> SUFFICES ASSUME NEW k \in 1..Len(number) PROVE number[k] \in NumberChars
      OBVIOUS
    <3>1. k + i + 1 \in (i + 2)..j /\ (k + i + 1) - i - 1 = k
      BY <2>3
    <3>2. number[k] = l[k + i + 1]
      BY <2>3, <3>1
    <3> QED
      BY <2>1, <3>1, <3>2 DEF Takes
  <2>9. name # << >> /\ number # << >>
    BY <2>2, <2>3
  <2> QED
    BY <2>1, <2>6, <2>7, <2>8, <2>9 DEF DocumentedParts, v, w
<1> QED
  BY <1>2, <1>3

IsLine == line \in Seq(Chars)

(* The line keeps its type, and changes by one more character only.         *)
LEMMA LineGrows ==
  ASSUME IsLine, [Next]_vars
  PROVE  /\ IsLine'
         /\ line' # line => \E char \in Chars : line' = Append(line, char)
<1>1. ASSUME NEW char \in Alphabet, Read(char)
      PROVE  IsLine' /\ \E x \in Chars : line' = Append(line, x)
  <2>1. char \in Chars /\ line' = Append(line, char)
    BY <1>1, ParserAssumption DEF ParserAssumption, Read
  <2> QED
    BY <2>1 DEF IsLine
<1>2. CASE Begin \/ Step \/ Done \/ UNCHANGED vars
  BY <1>2 DEF Begin, Step, Done, vars, IsLine
<1> QED
  BY <1>1, <1>2 DEF Next

(* The lines of every behaviour. *)
LEMMA LineType == Spec => []IsLine
<1>1. Init => IsLine
  BY DEF Init, IsLine
<1>2. IsLine /\ [Next]_vars => IsLine'
  BY LineGrows
<1> QED
  BY <1>1, <1>2, PTL DEF Spec

(* However long the line: it counts exactly when a prefix of it is what the *)
(* comment on the grammar describes, with a number that is one, and then    *)
(* under the name of that prefix.                                           *)
THEOREM PrefixCounts == Spec => []CountsDocumentedPrefix
<1>1. IsLine => CountsDocumentedPrefix
  <2> SUFFICES ASSUME IsLine PROVE CountsDocumentedPrefix
    OBVIOUS
  <2>0. line \in Seq(Chars)
    BY DEF IsLine
  <2> DEFINE Part(n, i, j) ==
               LET number == SubSeq(line, i + 2, j)
               IN /\ DocumentedParts(SubSeq(line, 1, n), SubSeq(line, 1, i), number)
                  /\ Stod(number)
                  /\ Counts(line) => Name(line) = SubSeq(line, 1, i)
  <2>1. ASSUME Counts(line)
        PROVE  \E n \in 0..Len(line) : \E i, j \in 0..n : Part(n, i, j)
    <3>1. PICK c \in Positions(line), b \in Positions(line) : Increments(line, c, b)
      BY <2>1 DEF Counts
    <3>2. c \in Nat /\ b \in Nat
      BY DEF Positions
    <3>3. 1 < c /\ c + 1 < b /\ b + 1 <= Len(line) /\ Name(line) = SubSeq(line, 1, c - 1)
      BY <2>0, <3>1, <3>2, IncrementsPositions
    <3>4. PICK i \in Nat, j \in Nat : c = i + 1 /\ b = j + 1
      <4>1. c - 1 \in Nat /\ b - 1 \in Nat /\ c = (c - 1) + 1 /\ b = (b - 1) + 1
        BY <3>2, <3>3
      <4> QED
        BY <4>1
    <3>5. Increments(line, i + 1, j + 1)
      BY <3>1, <3>4
    <3>6. /\ DocumentedParts(SubSeq(line, 1, j + 2), SubSeq(line, 1, i), SubSeq(line, i + 2, j))
          /\ Stod(SubSeq(line, i + 2, j))
      BY <2>0, <3>5, DocumentedIncrement
    <3>7. Name(line) = SubSeq(line, 1, i)
      <4>1. c - 1 = i
        BY <3>4
      <4> QED
        BY <3>3, <4>1
    <3>8. j + 2 \in 0..Len(line) /\ i \in 0..(j + 2) /\ j \in 0..(j + 2)
      BY <2>0, <3>3, <3>4
    <3>9. Part(j + 2, i, j)
      BY <3>6, <3>7
    <3> HIDE DEF Part
    <3> QED
      BY <3>8, <3>9
  <2>2. ASSUME NEW n \in 0..Len(line), NEW i \in 0..n, NEW j \in 0..n, Part(n, i, j)
        PROVE  Counts(line)
    <3>1. Increments(line, i + 1, j + 1)
      BY <2>0, <2>2, DocumentedIncrement
    <3> QED
      BY <2>0, <3>1, IncrementsPositions
  <2> QED
    BY <2>1, <2>2 DEF CountsDocumentedPrefix
<1> QED
  BY <1>1, LineType, PTL

(* Once increment_counter has run for what was read of a line, no further   *)
(* character changes that it has, nor the name.                             *)
THEOREM CountStays == Spec => CountIsFinal
<1>1. IsLine /\ [Next]_vars
        => [Counts(line) => Counts(line') /\ Name(line') = Name(line)]_line
  BY LineGrows, CountsStays DEF IsLine
<1> QED
  BY <1>1, LineType, PTL DEF Spec, CountIsFinal

-----------------------------------------------------------------------------
(* The machine.  Its stack of frames is known wherever a step finds it: the *)
(* number k of rules of read_statsd_line that have matched says what the    *)
(* line looks like up to here (Matched), and Place lists the stacks that    *)
(* occur while the next rule is in progress.  Each lemma At... takes one of *)
(* them through its one step.                                               *)
(* A frame whose last call was that of its rule number next. *)
FrameAt(rule, must, mark, next) == [rule |-> rule, must |-> must, mark |-> mark, next |-> next]

Rules ==
  {"read_statsd_line", "set_name", "set_counter_increment", "set_type_char",
   "increment_counter", "read_name", "read_counter_increment", "eol", "crlf", "eof",
   "name_char", "number_char", "colon", "bar", "read_type_char", "lf", "cr"}

Frames == [rule : Rules, must : BOOLEAN, mark : Nat, next : Nat]

(* The rules of the grammar. *)
LEMMA GrammarIs ==
  /\ Grammar["read_statsd_line"].op = "seq" /\ Len(Grammar["read_statsd_line"].rules) = 7
  /\ Grammar["read_statsd_line"].rules[1] = "set_name"
  /\ Grammar["read_statsd_line"].rules[2] = "colon"
  /\ Grammar["read_statsd_line"].rules[3] = "set_counter_increment"
  /\ Grammar["read_statsd_line"].rules[4] = "bar"
  /\ Grammar["read_statsd_line"].rules[5] = "set_type_char"
  /\ Grammar["read_statsd_line"].rules[6] = "increment_counter"
  /\ Grammar["read_statsd_line"].rules[7] = "eol"
  /\ Grammar["set_name"].op = "ifapply" /\ Grammar["set_name"].rules = << "read_name" >>
  /\ Grammar["set_counter_increment"].op = "ifapply"
  /\ Grammar["set_counter_increment"].rules = << "read_counter_increment" >>
  /\ Grammar["set_type_char"].op = "ifapply"
  /\ Grammar["set_type_char"].rules = << "read_type_char" >>
  /\ Grammar["increment_counter"].op = "apply"
  /\ Grammar["read_name"].op = "plus" /\ Grammar["read_name"].rules = << "name_char" >>
  /\ Grammar["read_counter_increment"].op = "plus"
  /\ Grammar["read_counter_increment"].rules = << "number_char" >>
  /\ Grammar["eol"].op = "sor" /\ Len(Grammar["eol"].rules) = 4
  /\ Grammar["eol"].rules[1] = "eof" /\ Grammar["eol"].rules[2] = "crlf"
  /\ Grammar["eol"].rules[3] = "lf" /\ Grammar["eol"].rules[4] = "cr"
  /\ Grammar["crlf"].op = "seq" /\ Len(Grammar["crlf"].rules) = 2
  /\ Grammar["crlf"].rules[1] = "cr" /\ Grammar["crlf"].rules[2] = "lf"
  /\ Grammar["eof"].op = "eof"
  /\ Grammar["name_char"].op = "one" /\ Grammar["name_char"].chars = NameChars
  /\ Grammar["number_char"].op = "one" /\ Grammar["number_char"].chars = NumberChars
  /\ Grammar["colon"].op = "one" /\ Grammar["colon"].chars = {":"}
  /\ Grammar["bar"].op = "one" /\ Grammar["bar"].chars = {"|"}
  /\ Grammar["read_type_char"].op = "one" /\ Grammar["read_type_char"].chars = {"c"}
  /\ Grammar["lf"].op = "one" /\ Grammar["lf"].chars = {"lf"}
  /\ Grammar["cr"].op = "one" /\ Grammar["cr"].chars = {"cr"}
BY DEF Grammar

(* What is done when the frame f is the last one and the frames of under    *)
(* are below it.                                                            *)
LEMMA TopFrame ==
  ASSUME NEW under \in Seq(Frames), NEW f \in Frames, frames = Append(under, f)
  PROVE  /\ frames \in Seq(Frames) /\ Top = f /\ Len(frames) = Len(under) + 1
         /\ Op = Grammar[f.rule].op /\ Front(frames) = under
         /\ \A i \in 1..Len(under) : frames[i] = under[i]
         /\ \A k \in Nat : [frames EXCEPT ![Len(frames)].next = k]
                            = Append(under, FrameAt(f.rule, f.must, f.mark, k))
<1>1. /\ Len(frames) = Len(under) + 1 /\ frames[Len(frames)] = f /\ frames \in Seq(Frames)
      /\ \A i \in 1..Len(under) : frames[i] = under[i]
  OBVIOUS
<1>2. Top = f
  BY <1>1 DEF Top, Last
<1>3. Front(frames) = under
  <2>1. Len(frames) - 1 = Len(under)
    BY <1>1
  <2>2. Front(frames) = SubSeq(frames, 1, Len(under))
    BY <2>1 DEF Front
  <2> QED
    BY <2>2
<1>4. ASSUME NEW k \in Nat
      PROVE  [frames EXCEPT ![Len(frames)].next = k]
               = Append(under, FrameAt(f.rule, f.must, f.mark, k))
  <2>1. PICK g \in Frames : g = FrameAt(f.rule, f.must, f.mark, k)
    BY DEF Frames, FrameAt
  <2>2. [f EXCEPT !.next = k] = g
    BY <2>1 DEF Frames, FrameAt
  <2>3. PICK n : n = Len(frames)
    OBVIOUS
  <2>4. n \in 1..Len(frames) /\ frames[n] = f
    BY <1>1, <2>3
  <2>5. [frames EXCEPT ![Len(frames)].next = k] = [frames EXCEPT ![n] = g]
    BY <2>2, <2>3, <2>4
  <2>6. PICK x : x = [frames EXCEPT ![n] = g]
    OBVIOUS
  <2>7. /\ x \in Seq(Frames) /\ Len(x) = Len(frames)
        /\ \A i \in 1..Len(frames) : x[i] = IF i = n THEN g ELSE frames[i]
    <3>1. x \in Seq(Frames) /\ Len(x) = Len(frames)
      BY <1>1, <2>4, <2>6, ExceptSeq
    <3>2. frames \in [1..Len(frames) -> Frames]
      BY <1>1, LenProperties
    <3>3. \A i \in 1..Len(frames) : x[i] = IF i = n THEN g ELSE frames[i]
      BY <2>4, <2>6, <3>2
    <3> QED
      BY <3>1, <3>3
  <2>8. PICK y : y = Append(under, g)
    OBVIOUS
  <2>9. /\ y \in Seq(Frames) /\ Len(y) = Len(under) + 1 /\ y[Len(under) + 1] = g
        /\ \A i \in 1..Len(under) : y[i] = under[i]
    BY <2>8
  <2>10. \A i \in 1..Len(x) : x[i] = y[i]
    BY <1>1, <2>3, <2>7, <2>9
  <2>11. Len(x) = Len(y)
    BY <1>1, <2>7, <2>9
  <2>12. x = y
    BY <2>7, <2>9, <2>10, <2>11, SeqEqual
  <2> QED
    BY <2>1, <2>5, <2>6, <2>8, <2>12
<1> QED
  BY <1>1, <1>2, <1>3, <1>4 DEF Op

(* A frame above another one returns: it throws where it must match and is  *)
(* called by basic_debug, elsewhere its caller goes on.                     *)
LEMMA DeepReturn ==
  ASSUME NEW u \in Seq(Frames), NEW e \in Frames, NEW f \in Frames,
         frames = Append(Append(u, e), f),
         NEW matched \in BOOLEAN, NEW p, Return(matched, p)
  PROVE  LET throws == ~matched /\ f.must /\ Grammar[e.rule].op # "ifapply"
         IN /\ throws => outcome' = "threw" /\ frames' = << >>
            /\ ~throws => /\ frames' = Append(u, e) /\ pos' = p /\ outcome' = outcome
                          /\ answer' = IF matched THEN "matched" ELSE "failed"
<1>1. Append(u, e) \in Seq(Frames) /\ Len(Append(u, e)) = Len(u) + 1 /\ Len(u) \in Nat
      /\ Append(u, e)[Len(u) + 1] = e
  OBVIOUS
<1>2. PICK w \in Seq(Frames) : w = Append(u, e)
  BY <1>1
<1>3. /\ Top = f /\ Len(frames) = Len(w) + 1 /\ Front(frames) = w
      /\ \A i \in 1..Len(w) : frames[i] = w[i]
  BY <1>2, TopFrame
<1>4. Len(frames) # 1 /\ frames[Len(frames) - 1] = e
  <2>1. Len(w) \in 1..Len(w) /\ Len(frames) - 1 = Len(w)
    BY <1>1, <1>2, <1>3
  <2> QED
    BY <1>1, <1>2, <1>3, <2>1
<1>5. Guarded <=> Grammar[e.rule].op # "ifapply"
  BY <1>4 DEF Guarded
<1>6. CASE ~matched /\ Top.must /\ Guarded
  BY <1>3, <1>5, <1>6 DEF Return, Throw
<1>7. CASE ~(~matched /\ Top.must /\ Guarded)
  <2>1. /\ frames' = Front(frames) /\ pos' = p /\ outcome' = outcome
        /\ answer' = IF matched THEN "matched" ELSE "failed"
    BY <1>4, <1>7 DEF Return
  <2> QED
    BY <1>2, <1>3, <1>5, <1>7, <2>1
<1> QED
  BY <1>6, <1>7

(* read_statsd_line returns.                                                *)
LEMMA RootReturn ==
  ASSUME NEW f \in Frames, frames = Append(<< >>, f), NEW p, Return(TRUE, p)
  PROVE  outcome' = "accepted" /\ frames' = << >> /\ answer' = "matched"
<1>1. << >> \in Seq(Frames) /\ Len(<< >>) = 0
  OBVIOUS
<1>2. PICK w \in Seq(Frames) : w = << >>
  BY <1>1
<1>3. Len(frames) = Len(w) + 1 /\ Front(frames) = w
  BY <1>2, TopFrame
<1>4. Len(frames) = 1 /\ Front(frames) = << >>
  BY <1>1, <1>2, <1>3
<1> QED
  BY <1>4 DEF Return

(* A frame calls a rule of its own.                                         *)
LEMMA FrameCalls ==
  ASSUME NEW w \in Seq(Frames), NEW f \in Frames, frames = Append(w, f),
         NEW k \in Nat, Call(k)
  PROVE  LET op == Grammar[f.rule].op
             callee == Grammar[f.rule].rules[IF op = "plus" THEN 1 ELSE k]
             must == f.must /\ op # "sor" /\ (op = "plus" => k = 1)
         IN /\ frames' = Append(Append(w, FrameAt(f.rule, f.must, f.mark, k)),
                                FrameAt(callee, must, pos, 1))
            /\ answer' = "call" /\ UNCHANGED << pos, outcome >>
<1>1. /\ Top = f /\ Op = Grammar[f.rule].op
      /\ [frames EXCEPT ![Len(frames)].next = k] = Append(w, FrameAt(f.rule, f.must, f.mark, k))
  BY TopFrame
<1> QED
  BY <1>1 DEF Call, Frame, FrameAt

(* Which handler a step runs.                                               *)
LEMMA StepRuns ==
  ASSUME NEW w \in Seq(Frames), NEW f \in Frames, frames = Append(w, f), Step,
         NEW op, op = Grammar[f.rule].op
  PROVE  /\ Top = f /\ Op = op
         /\ answer = "call" =>
              /\ op = "apply" => Increment
              /\ op = "one" => One /\ UNCHANGED << data, counted >>
              /\ op = "eof" => Return(Eof, pos) /\ UNCHANGED << data, counted >>
              /\ op \in {"seq", "sor", "plus", "ifapply"}
                   => Call(1) /\ UNCHANGED << data, counted >>
         /\ answer # "call" =>
              /\ op = "ifapply" => IfApply
              /\ op = "seq" => Sequence /\ UNCHANGED << data, counted >>
              /\ op = "sor" => Alternatives /\ UNCHANGED << data, counted >>
              /\ op = "plus" => Repetition /\ UNCHANGED << data, counted >>
<1>1. Top = f /\ Op = op
  BY TopFrame
<1>2. CASE answer = "call"
  BY <1>1, <1>2 DEF Step, Enter, Resume, Increment, One
<1>3. CASE answer # "call"
  BY <1>1, <1>3 DEF Step, Enter, Resume, IfApply, Sequence, Alternatives, Repetition
<1> QED
  BY <1>1, <1>2, <1>3

-----------------------------------------------------------------------------
(* What a step does when the last frame is that of a rule for one character *)
(* that begins.                                                             *)
LEMMA OneReturns ==
  ASSUME NEW u \in Seq(Frames), NEW e \in Frames, NEW f \in Frames,
         frames = Append(Append(u, e), f), Step, answer = "call",
         Grammar[f.rule].op = "one", f.mark = pos,
         line \in Seq(Chars), pos \in 1..(Len(line) + 1)
  PROVE  LET fits == pos <= Len(line) /\ line[pos] \in Grammar[f.rule].chars
             throws == f.must /\ Grammar[e.rule].op # "ifapply"
         IN /\ UNCHANGED << line, data, counted >> /\ Top.mark = pos
            /\ fits => /\ frames' = Append(u, e) /\ answer' = "matched"
                       /\ pos' = pos + 1 /\ outcome' = outcome
            /\ ~fits /\ throws => outcome' = "threw" /\ frames' = << >>
            /\ ~fits /\ ~throws => /\ frames' = Append(u, e) /\ answer' = "failed"
                                   /\ pos' = pos /\ outcome' = outcome
<1> DEFINE fits == pos <= Len(line) /\ line[pos] \in Grammar[f.rule].chars
<1>1. Append(u, e) \in Seq(Frames)
  OBVIOUS
<1>2. Top = f /\ One /\ UNCHANGED << data, counted, line >>
  BY <1>1, StepRuns DEF Step
<1>3. ~Eof <=> pos <= Len(line)
  BY DEF Eof
<1>4. CASE fits
  <2>1. Return(TRUE, pos + 1)
    BY <1>2, <1>3, <1>4 DEF One
  <2> QED
    BY <1>2, <1>4, <2>1, DeepReturn
<1>5. CASE ~fits
  <2>1. Return(FALSE, pos)
    BY <1>2, <1>3, <1>5 DEF One
  <2> QED
    BY <1>2, <1>5, <2>1, DeepReturn
<1> QED
  BY <1>4, <1>5

(* A rule that begins by calling its first rule, and the calls after that.  *)
LEMMA FirstCall ==
  ASSUME NEW w \in Seq(Frames), NEW f \in Frames, frames = Append(w, f), Step, answer = "call",
         NEW op \in {"seq", "sor", "plus", "ifapply"}, op = Grammar[f.rule].op
  PROVE  /\ op # "sor" =>
              frames' = Append(Append(w, FrameAt(f.rule, f.must, f.mark, 1)),
                               FrameAt(Grammar[f.rule].rules[1], f.must, pos, 1))
         /\ op = "sor" =>
              frames' = Append(Append(w, FrameAt(f.rule, f.must, f.mark, 1)),
                               FrameAt(Grammar[f.rule].rules[1], FALSE, pos, 1))
         /\ answer' = "call" /\ UNCHANGED << line, data, counted, pos, outcome >>
<1>1. Call(1) /\ UNCHANGED << data, counted, line >>
  BY StepRuns DEF Step
<1>2. f.must \in BOOLEAN
  BY DEF Frames
<1> QED
  BY <1>1, <1>2, FrameCalls

(* A rule that has called one calls another one.                            *)
LEMMA NextCall ==
  ASSUME NEW w \in Seq(Frames), NEW f \in Frames, frames = Append(w, f),
         NEW k \in Nat, k > 1, Call(k), NEW op \in {"seq", "sor", "plus"},
         op = Grammar[f.rule].op
  PROVE  /\ op = "seq" =>
              frames' = Append(Append(w, FrameAt(f.rule, f.must, f.mark, k)),
                               FrameAt(Grammar[f.rule].rules[k], f.must, pos, 1))
         /\ op = "sor" =>
              frames' = Append(Append(w, FrameAt(f.rule, f.must, f.mark, k)),
                               FrameAt(Grammar[f.rule].rules[k], FALSE, pos, 1))
         /\ op = "plus" =>
              frames' = Append(Append(w, FrameAt(f.rule, f.must, f.mark, k)),
                               FrameAt(Grammar[f.rule].rules[1], FALSE, pos, 1))
         /\ answer' = "call" /\ UNCHANGED << pos, outcome >>
<1>1. f.must \in BOOLEAN
  BY DEF Frames
<1>2. /\ frames' = Append(Append(w, FrameAt(f.rule, f.must, f.mark, k)),
                           FrameAt(Grammar[f.rule].rules[IF op = "plus" THEN 1 ELSE k],
                                   f.must /\ op # "sor" /\ (op = "plus" => k = 1), pos, 1))
      /\ answer' = "call" /\ UNCHANGED << pos, outcome >>
  BY FrameCalls
<1>3. CASE op = "seq"
  <2>1. f.must = (f.must /\ op # "sor" /\ (op = "plus" => k = 1))
    BY <1>1, <1>3
  <2> QED
    BY <1>2, <1>3, <2>1
<1>4. CASE op = "sor" \/ op = "plus"
  <2>1. FALSE = (f.must /\ op # "sor" /\ (op = "plus" => k = 1))
    BY <1>1, <1>4
  <2> QED
    BY <1>2, <1>4, <2>1
<1> QED
  BY <1>3, <1>4

-----------------------------------------------------------------------------
(* A line that counts, seen from the left.                                  *)
LEMMA CountingLine ==
  ASSUME NEW l \in Seq(Chars), Counts(l)
  PROVE  /\ 1 <= Len(l) /\ l[1] \in NameChars
         /\ \A c \in Nat : Takes(l, NameChars, 1, c) =>
              /\ CharAt(l, c, ":") /\ c + 1 <= Len(l) /\ l[c + 1] \in NumberChars
              /\ \A b \in Nat : Takes(l, NumberChars, c + 1, b) =>
                   /\ Stod(SubSeq(l, c + 1, b - 1))
                   /\ CharAt(l, b, "|") /\ CharAt(l, b + 1, "c")
<1>1. PICK colon \in Positions(l), bar \in Positions(l) : Increments(l, colon, bar)
  BY DEF Counts
<1>2. colon \in Nat /\ bar \in Nat
  BY DEF Positions
<1>3. 1 < colon /\ colon + 1 < bar /\ bar + 1 <= Len(l)
  BY <1>1, <1>2, IncrementsPositions
<1>4. l[1] \in NameChars /\ l[colon + 1] \in NumberChars
  <2>1. 1 \in 1..(colon - 1) /\ colon + 1 \in (colon + 1)..(bar - 1)
    BY <1>2, <1>3
  <2> QED
    BY <1>1, <2>1 DEF Increments, Takes
<1>5. ASSUME NEW c \in Nat, Takes(l, NameChars, 1, c) PROVE c = colon
  BY <1>1, <1>2, <1>5, TakesUnique DEF Increments
<1>6. ASSUME NEW b \in Nat, Takes(l, NumberChars, colon + 1, b) PROVE b = bar
  <2>1. colon + 1 \in Nat \ {0}
    BY <1>2
  <2> QED
    BY <1>1, <1>2, <1>6, <2>1, TakesUnique DEF Increments
<1> QED
  BY <1>1, <1>2, <1>3, <1>4, <1>5, <1>6 DEF Increments

-----------------------------------------------------------------------------
(* After the first k rules of read_statsd_line: the name ends before the    *)
(* position c, the number before b, and what the actions did.               *)
Matched(k, c, b) ==
  /\ k >= 1 => Takes(line, NameChars, 1, c) /\ data.set_name = SubSeq(line, 1, c - 1)
  /\ k >= 2 => CharAt(line, c, ":")
  /\ k >= 3 => /\ Takes(line, NumberChars, c + 1, b) /\ Stod(SubSeq(line, c + 1, b - 1))
               /\ data.set_counter_increment = SubSeq(line, c + 1, b - 1)
  /\ k >= 4 => CharAt(line, b, "|")
  /\ k >= 5 => CharAt(line, b + 1, "c") /\ data.set_type_char = << "c" >>
  /\ k >= 6 => counted = << SubSeq(line, 1, c - 1), SubSeq(line, c + 1, b - 1) >>
  /\ k < 6 => counted = Nothing
  /\ k = 7 => Eol(line, b + 2)

(* Where the rule after them begins. *)
Stop(k, c, b) ==
  CASE k = 0 -> 1 [] k = 1 -> c [] k = 2 -> c + 1 [] k = 3 -> b [] k = 4 -> b + 1
    [] k \in {5, 6, 7} -> b + 2

(* The frame of read_statsd_line in its j-th rule, and what may be above it *)
(* when k rules have matched and the next one begins at the position s.     *)
Root(j) == FrameAt("read_statsd_line", TRUE, 1, j)
Over(j, f) == Append(Append(<< >>, Root(j)), f)

Between(k, s) ==
  /\ frames = Append(<< >>, Root(IF k = 0 THEN 1 ELSE k))
  /\ answer = IF k = 0 THEN "call" ELSE "matched"
  /\ k < 7 => pos = s

OneRule(k) == IF k = 1 THEN "colon" ELSE "bar"
InOne(k, s) ==
  /\ k \in {1, 3} /\ frames = Over(k + 1, FrameAt(OneRule(k), TRUE, s, 1))
  /\ answer = "call" /\ pos = s

(* The name (k = 0) or the number (k = 2): ifapply, plus and character.     *)
PartRule(k)  == IF k = 0 THEN "set_name" ELSE "set_counter_increment"
PlusRule(k)  == IF k = 0 THEN "read_name" ELSE "read_counter_increment"
CharRule(k)  == IF k = 0 THEN "name_char" ELSE "number_char"
PartChars(k) == IF k = 0 THEN NameChars ELSE NumberChars
OverPart(k, s, f) == Append(Over(k + 1, FrameAt(PartRule(k), TRUE, s, 1)), f)

PartBegins(k, s) ==
  /\ frames = Over(k + 1, FrameAt(PartRule(k), TRUE, s, 1))
  /\ answer = "call" /\ pos = s

PlusBegins(k, s) ==
  /\ frames = OverPart(k, s, FrameAt(PlusRule(k), TRUE, s, 1))
  /\ answer = "call" /\ pos = s

FirstChar(k, s) ==
  /\ frames = Append(OverPart(k, s, FrameAt(PlusRule(k), TRUE, s, 1)),
                     FrameAt(CharRule(k), TRUE, s, 1))
  /\ answer = "call" /\ pos = s

Taken(k, s, p) ==
  s < p /\ p <= Len(line) + 1 /\ \A i \in s..(p - 1) : line[i] \in PartChars(k)

PlusGoesOn(k, s, p) ==
  /\ \E n \in {1, 2} : frames = OverPart(k, s, FrameAt(PlusRule(k), TRUE, s, n))
  /\ answer = "matched" /\ pos = p /\ Taken(k, s, p)

NextChar(k, s, p) ==
  /\ frames = Append(OverPart(k, s, FrameAt(PlusRule(k), TRUE, s, 2)),
                     FrameAt(CharRule(k), FALSE, p, 1))
  /\ answer = "call" /\ pos = p /\ Taken(k, s, p)

PlusStops(k, s, p) ==
  /\ frames = OverPart(k, s, FrameAt(PlusRule(k), TRUE, s, 2))
  /\ answer = "failed" /\ pos = p /\ Takes(line, PartChars(k), s, p)

PartEnds(k, s, p) ==
  /\ frames = Over(k + 1, FrameAt(PartRule(k), TRUE, s, 1))
  /\ answer = "matched" /\ pos = p /\ Takes(line, PartChars(k), s, p)

InPart(k, s) ==
  /\ k \in {0, 2}
  /\ \/ PartBegins(k, s) \/ PlusBegins(k, s) \/ FirstChar(k, s)
     \/ \E p \in Nat : PlusGoesOn(k, s, p) \/ NextChar(k, s, p) \/ PlusStops(k, s, p)
                         \/ PartEnds(k, s, p)

(* set_type_char and increment_counter. *)
TypeFrame(s) == FrameAt("set_type_char", TRUE, s, 1)

TypeBegins(s) == frames = Over(5, TypeFrame(s)) /\ answer = "call" /\ pos = s

TypeChar(s) ==
  /\ frames = Append(Over(5, TypeFrame(s)), FrameAt("read_type_char", TRUE, s, 1))
  /\ answer = "call" /\ pos = s

TypeEnds(s) ==
  /\ frames = Over(5, TypeFrame(s))
  /\ \/ answer = "matched" /\ pos = s + 1 /\ CharAt(line, s, "c")
     \/ answer = "failed" /\ ~CharAt(line, s, "c")

InType(k, s) == k = 4 /\ (TypeBegins(s) \/ TypeChar(s) \/ TypeEnds(s))

InApply(k, s) ==
  /\ k = 5 /\ frames = Over(6, FrameAt("increment_counter", TRUE, s, 1))
  /\ answer = "call" /\ pos = s

(* eol: the alternatives eof, crlf, lf and cr; what they have ruled out.    *)
EolRules == << "eof", "crlf", "lf", "cr" >>
EolFrame(s, j) == FrameAt("eol", TRUE, s, j)

EolBegins(s) == frames = Over(7, EolFrame(s, 1)) /\ answer = "call" /\ pos = s

EolTries(s, j) ==
  /\ frames = Append(Over(7, EolFrame(s, j)), FrameAt(EolRules[j], FALSE, s, 1))
  /\ answer = "call" /\ pos = s /\ (j > 1 => s <= Len(line))

CrlfFrame(s, i) == Append(Over(7, EolFrame(s, 2)), FrameAt("crlf", FALSE, s, i))

CrTries(s) ==
  /\ frames = Append(CrlfFrame(s, 1), FrameAt("cr", FALSE, s, 1))
  /\ answer = "call" /\ pos = s /\ s <= Len(line)

LfTries(s) ==
  /\ frames = Append(CrlfFrame(s, 2), FrameAt("lf", FALSE, s + 1, 1))
  /\ answer = "call" /\ pos = s + 1 /\ s <= Len(line)

CrlfEnds(s) ==
  /\ s <= Len(line)
  /\ \/ frames = CrlfFrame(s, 1) /\ answer = "matched" /\ pos = s + 1
     \/ frames = CrlfFrame(s, 1) /\ answer = "failed"
     \/ frames = CrlfFrame(s, 2) /\ answer = "failed"

EolEnds(s, j) ==
  /\ frames = Over(7, EolFrame(s, j))
  /\ \/ answer = "matched" /\ Eol(line, s)
     \/ answer = "failed" /\ pos = s /\ s <= Len(line) /\ (j = 4 => ~Eol(line, s))

InEol(k, s) ==
  /\ k = 6
  /\ \/ EolBegins(s) \/ CrTries(s) \/ LfTries(s) \/ CrlfEnds(s)
     \/ \E j \in 1..4 : EolTries(s, j) \/ EolEnds(s, j)

Place(k, s) ==
  \/ Between(k, s) \/ InOne(k, s) \/ InPart(k, s)
  \/ InType(k, s) \/ InApply(k, s) \/ InEol(k, s)

InParse ==
  /\ outcome = "parsing"
  /\ \E k \in 0..7, c \in Nat, b \in Nat : Matched(k, c, b) /\ Place(k, Stop(k, c, b))

(* The end of a parse. *)
Ended == outcome \notin {"reading", "parsing"} /\ ResultAsStated /\ IncrementIsOfThisLine

Fields == {"set_name", "set_counter_increment", "set_type_char"}

(* What a step has to keep. *)
Goes ==
  /\ DOMAIN data' = Fields
  /\ InParse' \/ Ended'
  /\ answer' = "failed" /\ Len(frames') < Len(frames) /\ frames' # << >> => pos' = Top.mark

(* The situation of a step, the first k rules having matched.               *)
Now(k, c, b) ==
  /\ line \in Seq(Chars) /\ DOMAIN data = Fields /\ outcome = "parsing" /\ Step
  /\ k \in 0..7 /\ c \in Nat /\ b \in Nat /\ Matched(k, c, b)

-----------------------------------------------------------------------------
(* Types of the frames and of the stacks below them.                        *)
LEMMA FramesAre ==
  << >> \in Seq(Frames) /\ \A u \in Seq(Frames), f \in Frames : Append(u, f) \in Seq(Frames)
OBVIOUS

(* The frame of read_statsd_line.                                           *)
LEMMA RootIs ==
  \A j \in Nat : /\ Root(j) \in Frames /\ Root(j).rule = "read_statsd_line"
                 /\ Root(j).must = TRUE /\ Root(j).mark = 1 /\ Root(j).next = j
                 /\ Append(<< >>, Root(j)) \in Seq(Frames)
                 /\ Grammar[Root(j).rule].op = "seq"
<1> TAKE j \in Nat
<1>1. "read_statsd_line" \in Rules /\ TRUE \in BOOLEAN /\ 1 \in Nat
  BY DEF Rules
<1>2. Root(j) = FrameAt("read_statsd_line", TRUE, 1, j)
  BY DEF Root
<1> HIDE DEF Root
<1>3. /\ Root(j) \in Frames /\ Root(j).rule = "read_statsd_line"
      /\ Root(j).must = TRUE /\ Root(j).mark = 1 /\ Root(j).next = j
  BY <1>1, <1>2 DEF FrameAt, Frames
<1> QED
  BY <1>3, FramesAre, GrammarIs

(* A rule begins within the line or at its end.                            *)
LEMMA StopInLine ==
  ASSUME NEW k, NEW c, NEW b, Now(k, c, b), k < 7
  PROVE  Stop(k, c, b) \in 1..(Len(line) + 1)
<1>1. line \in Seq(Chars) /\ k \in 0..6 /\ c \in Nat /\ b \in Nat /\ Len(line) \in Nat
  BY DEF Now
<1>2. /\ k >= 1 => c \in 1..(Len(line) + 1)
      /\ k >= 2 => c <= Len(line)
      /\ k >= 3 => b \in 1..(Len(line) + 1)
      /\ k >= 4 => b <= Len(line)
      /\ k >= 5 => b + 1 <= Len(line)
  BY <1>1 DEF Now, Matched, Takes, CharAt
<1>3. k = 0 \/ k = 1 \/ k = 2 \/ k = 3 \/ k = 4 \/ k = 5 \/ k = 6
  BY <1>1
<1> QED
  BY <1>1, <1>2, <1>3 DEF Stop

(* Steps that stay within rule k + 1.                                       *)
LEMMA Stays ==
  ASSUME NEW k, NEW c, NEW b, Now(k, c, b), UNCHANGED << line, data, counted, outcome >>,
         Place(k, Stop(k, c, b))',
         answer' = "failed" => pos' = Top.mark
  PROVE  Goes
<1>1. Matched(k, c, b)'
  BY DEF Now, Matched
<1>2. InParse'
  BY <1>1 DEF Now, InParse
<1> QED
  BY <1>2 DEF Goes, Now

(* Steps that complete rule k + 1.                                          *)
LEMMA Completes ==
  ASSUME NEW k \in 0..6, NEW c, NEW b, NEW d \in Nat, NEW e \in Nat, Now(k, c, b),
         DOMAIN data' = Fields,
         outcome' = outcome, Matched(k + 1, d, e)', answer' = "matched",
         frames' = Append(<< >>, Root(k + 1)), k < 6 => pos' = Stop(k + 1, d, e)
  PROVE  Goes
<1>1. Between(k + 1, Stop(k + 1, d, e))'
  BY DEF Between
<1>2. Place(k + 1, Stop(k + 1, d, e))' /\ k + 1 \in 0..7
  BY <1>1 DEF Place
<1>3. InParse'
  BY <1>2 DEF Now, InParse
<1> QED
  BY <1>3 DEF Goes, Now

(* The line turns out to be wrong, before or after it was counted.          *)
LEMMA ThrowsEarly ==
  ASSUME NEW k \in 0..5, NEW c, NEW b, Now(k, c, b), UNCHANGED << line, data, counted >>,
         outcome' = "threw", frames' = << >>, ~Counts(line)
  PROVE  Goes
<1>1. counted' = Nothing
  BY DEF Now, Matched
<1>2. ~Accepts(line)
  BY DEF Accepts, Counts
<1>3. Ended'
  BY <1>1, <1>2 DEF Ended, ResultAsStated, IncrementIsOfThisLine
<1> QED
  BY <1>3 DEF Goes, Now

(* After five rules the line is one that counts, whatever follows.          *)
LEMMA CountedLine ==
  ASSUME NEW k \in 5..7, NEW c, NEW b, Now(k, c, b)
  PROVE  /\ Increments(line, c, b) /\ c \in Positions(line) /\ b \in Positions(line)
         /\ Counts(line) /\ (Accepts(line) <=> Eol(line, b + 2))
<1>1. Increments(line, c, b)
  BY DEF Now, Matched, Increments
<1> QED
  BY <1>1, IncrementsPositions DEF Now

(* The line was counted; eol decides how it ends.                           *)
LEMMA EndsLate ==
  ASSUME NEW k \in 6..7, NEW c, NEW b, Now(k, c, b), UNCHANGED << line, data, counted >>,
         frames' = << >>, outcome' = IF Eol(line, b + 2) THEN "accepted" ELSE "threw"
  PROVE  Goes
<1>1. /\ Increments(line, c, b) /\ c \in Positions(line) /\ b \in Positions(line)
      /\ Counts(line) /\ (Accepts(line) <=> Eol(line, b + 2))
  BY CountedLine
<1>2. counted = << SubSeq(line, 1, c - 1), SubSeq(line, c + 1, b - 1) >>
  BY DEF Now, Matched
<1>6. \A x, y : << x, y >> # Nothing
  BY DEF Nothing
<1>3. outcome' = IF Accepts(line) THEN "accepted" ELSE "threw"
  BY <1>1
<1>4. ResultAsStated'
  BY <1>1, <1>2, <1>3, <1>6 DEF ResultAsStated
<1>5. IncrementIsOfThisLine'
  BY <1>1, <1>2 DEF IncrementIsOfThisLine
<1> QED
  BY <1>3, <1>4, <1>5 DEF Goes, Now, Ended

-----------------------------------------------------------------------------
(* colon and bar.                                                           *)
LEMMA AtOne ==
  ASSUME NEW k, NEW c, NEW b, Now(k, c, b), NEW s, s = Stop(k, c, b), InOne(k, s)
  PROVE  Goes
<1> DEFINE char == IF k = 1 THEN ":" ELSE "|"
           f == FrameAt(OneRule(k), TRUE, s, 1)
           e == Root(k + 1)
<1>1. /\ k \in {1, 3} /\ frames = Append(Append(<< >>, e), f) /\ answer = "call" /\ pos = s
      /\ Step /\ line \in Seq(Chars) /\ outcome = "parsing" /\ DOMAIN data = Fields
      /\ c \in Nat /\ b \in Nat
  BY DEF InOne, Over, Now
<1>2. s \in 1..(Len(line) + 1) /\ s \in Nat
  BY <1>1, StopInLine
<1>3. /\ f \in Frames /\ f.rule = OneRule(k) /\ f.must = TRUE /\ f.mark = s
      /\ e \in Frames /\ Grammar[e.rule].op = "seq"
  <2>3. OneRule(k) \in Rules
    BY DEF OneRule, Rules
  <2>4. 1 \in Nat /\ k + 1 \in Nat /\ TRUE \in BOOLEAN
    BY <1>1
  <2>1. e \in Frames /\ Grammar[e.rule].op = "seq"
    BY <2>4, RootIs
  <2>2. /\ f \in Frames /\ f.rule = OneRule(k) /\ f.must = TRUE /\ f.mark = s
    BY <1>2, <2>3, <2>4 DEF FrameAt, Frames
  <2> QED
    BY <2>1, <2>2
<1>4. Grammar[f.rule].op = "one" /\ Grammar[f.rule].chars = {char}
  <2> HIDE DEF f
  <2>1. CASE k = 1
    <3>1. f.rule = "colon" /\ char = ":"
      BY <1>3, <2>1 DEF OneRule
    <3> QED
      BY <3>1, GrammarIs
  <2>2. CASE k = 3
    <3>1. f.rule = "bar" /\ char = "|"
      BY <1>3, <2>2 DEF OneRule
    <3> QED
      BY <3>1, GrammarIs
  <2> QED
    BY <1>1, <2>1, <2>2
<1>5. << >> \in Seq(Frames)
  BY FramesAre
<1> HIDE DEF e, f, char
<1>6. /\ UNCHANGED << line, data, counted >>
      /\ CharAt(line, s, char) => /\ frames' = Append(<< >>, e) /\ answer' = "matched"
                                  /\ pos' = s + 1 /\ outcome' = outcome
      /\ ~CharAt(line, s, char) => outcome' = "threw" /\ frames' = << >>
  BY <1>1, <1>2, <1>3, <1>4, <1>5, OneReturns DEF CharAt
<1>7. CASE CharAt(line, s, char)
  <2>1. Matched(k + 1, c, b)'
    <3>1. CASE k = 1
      <4>1. Matched(1, c, b) /\ CharAt(line, c, ":")
        BY <1>7, <3>1 DEF Now, Stop, char
      <4>2. Matched(2, c, b)'
        BY <1>6, <4>1 DEF Matched
      <4> QED
        BY <3>1, <4>2
    <3>2. CASE k = 3
      <4>1. Matched(3, c, b) /\ CharAt(line, b, "|")
        BY <1>7, <3>2 DEF Now, Stop, char
      <4>2. Matched(4, c, b)'
        BY <1>6, <4>1 DEF Matched
      <4> QED
        BY <3>2, <4>2
    <3> QED
      BY <1>1, <3>1, <3>2
  <2>2. Stop(k + 1, c, b) = s + 1
    BY <1>1 DEF Stop
  <2> QED
    BY <1>1, <1>6, <1>7, <2>1, <2>2, Completes DEF e
<1>8. CASE ~CharAt(line, s, char)
  <2>1. ~Counts(line)
    BY <1>1, <1>8, CountingLine DEF Now, Matched, Stop, char
  <2> QED
    BY <1>1, <1>6, <1>8, <2>1, ThrowsEarly
<1> QED
  BY <1>7, <1>8

-----------------------------------------------------------------------------
(* The rules and frames of a name or number.                                *)
LEMMA PartIs ==
  ASSUME NEW k \in {0, 2}
  PROVE  /\ PartRule(k) \in Rules /\ PlusRule(k) \in Rules /\ CharRule(k) \in Rules
         /\ Grammar[PartRule(k)].op = "ifapply" /\ Grammar[PartRule(k)].rules[1] = PlusRule(k)
         /\ Grammar[PlusRule(k)].op = "plus" /\ Grammar[PlusRule(k)].rules[1] = CharRule(k)
         /\ Grammar[CharRule(k)].op = "one" /\ Grammar[CharRule(k)].chars = PartChars(k)
         /\ PartRule(k) \in Fields
         /\ PartRule(k) = "set_counter_increment" <=> k = 2
<1>1. CASE k = 0
  <2>1. /\ PartRule(k) = "set_name" /\ PlusRule(k) = "read_name" /\ CharRule(k) = "name_char"
        /\ PartChars(k) = NameChars
    BY <1>1 DEF PartRule, PlusRule, CharRule, PartChars
  <2> QED
    BY <1>1, <2>1, GrammarIs DEF Rules, Fields
<1>2. CASE k = 2
  <2>1. /\ PartRule(k) = "set_counter_increment" /\ PlusRule(k) = "read_counter_increment"
        /\ CharRule(k) = "number_char" /\ PartChars(k) = NumberChars
    BY <1>2 DEF PartRule, PlusRule, CharRule, PartChars
  <2> QED
    BY <1>2, <2>1, GrammarIs DEF Rules, Fields
<1> QED
  BY <1>1, <1>2

(* The frames below the character of a name or number.                      *)
LEMMA PartFrames ==
  ASSUME NEW k \in {0, 2}, NEW s \in Nat
  PROVE  LET e == Root(k + 1)
             f == FrameAt(PartRule(k), TRUE, s, 1)
             g(n) == FrameAt(PlusRule(k), TRUE, s, n)
         IN /\ << >> \in Seq(Frames) /\ e \in Frames /\ f \in Frames
            /\ Append(<< >>, e) \in Seq(Frames) /\ Over(k + 1, f) \in Seq(Frames)
            /\ Over(k + 1, f) = Append(Append(<< >>, e), f)
            /\ f.rule = PartRule(k) /\ f.must = TRUE /\ f.mark = s
            /\ Grammar[e.rule].op = "seq"
            /\ \A n \in {1, 2} :
                 /\ g(n) \in Frames /\ g(n).rule = PlusRule(k) /\ g(n).must = TRUE
                 /\ g(n).mark = s /\ g(n).next = n
                 /\ OverPart(k, s, g(n)) = Append(Append(Append(<< >>, e), f), g(n))
                 /\ OverPart(k, s, g(n)) \in Seq(Frames)
<1> DEFINE e == Root(k + 1)
           f == FrameAt(PartRule(k), TRUE, s, 1)
           g(n) == FrameAt(PlusRule(k), TRUE, s, n)
<1>1. k + 1 \in Nat /\ 1 \in Nat /\ 2 \in Nat
  OBVIOUS
<1>2. e \in Frames /\ Grammar[e.rule].op = "seq"
  BY <1>1, RootIs
<1>3. f \in Frames /\ f.rule = PartRule(k) /\ f.must = TRUE /\ f.mark = s
  BY <1>1, PartIs DEF FrameAt, Frames
<1>4. \A n \in {1, 2} :
        /\ g(n) \in Frames /\ g(n).rule = PlusRule(k) /\ g(n).must = TRUE
        /\ g(n).mark = s /\ g(n).next = n
  BY <1>1, PartIs DEF FrameAt, Frames
<1>5. /\ Over(k + 1, f) = Append(Append(<< >>, e), f)
      /\ \A n \in {1, 2} : OverPart(k, s, g(n)) = Append(Append(Append(<< >>, e), f), g(n))
  BY DEF Over, OverPart
<1> HIDE DEF e, f, g
<1>6. << >> \in Seq(Frames) /\ Append(<< >>, e) \in Seq(Frames)
      /\ Append(Append(<< >>, e), f) \in Seq(Frames)
      /\ \A n \in {1, 2} : Append(Append(Append(<< >>, e), f), g(n)) \in Seq(Frames)
  BY <1>2, <1>3, <1>4, FramesAre
<1>7. /\ Over(k + 1, f) \in Seq(Frames)
      /\ \A n \in {1, 2} : OverPart(k, s, g(n)) \in Seq(Frames)
  BY <1>5, <1>6
<1> QED
  BY <1>2, <1>3, <1>4, <1>5, <1>6, <1>7 DEF e, f, g

-----------------------------------------------------------------------------
(* A name or a number begins with its repetition.                           *)
LEMMA AtPartBegins ==
  ASSUME NEW k \in {0, 2}, NEW c, NEW b, Now(k, c, b), NEW s, s = Stop(k, c, b),
         PartBegins(k, s)
  PROVE  Goes
<1> DEFINE e == Root(k + 1)
           f == FrameAt(PartRule(k), TRUE, s, 1)
           g == FrameAt(PlusRule(k), TRUE, s, 1)
<1>1. s \in Nat /\ Step /\ outcome = "parsing"
  BY StopInLine DEF Now
<1>2. /\ Append(<< >>, e) \in Seq(Frames) /\ f \in Frames
      /\ Over(k + 1, f) = Append(Append(<< >>, e), f)
      /\ OverPart(k, s, g) = Append(Append(Append(<< >>, e), f), g)
      /\ f.rule = PartRule(k) /\ f.must = TRUE /\ f.mark = s
  BY <1>1, PartFrames
<1>3. Grammar[f.rule].op = "ifapply" /\ Grammar[f.rule].rules[1] = PlusRule(k)
  BY <1>2, PartIs
<1>4. frames = Append(Append(<< >>, e), f) /\ answer = "call" /\ pos = s
  BY <1>2 DEF PartBegins
<1>5. /\ frames' = Append(Append(Append(<< >>, e), FrameAt(f.rule, f.must, f.mark, 1)),
                          FrameAt(PlusRule(k), f.must, s, 1))
      /\ answer' = "call" /\ UNCHANGED << line, data, counted, pos, outcome >>
  <2> HIDE DEF e, f, g
  <2> QED
    BY <1>1, <1>2, <1>3, <1>4, FirstCall
<1>6. frames' = OverPart(k, s, g)
  BY <1>2, <1>5
<1>7. PlusBegins(k, s)'
  BY <1>4, <1>5, <1>6 DEF PlusBegins
<1>8. Place(k, s)'
  BY <1>7 DEF Place, InPart
<1> QED
  BY <1>5, <1>8, Stays

(* The repetition begins: it must find one character.                       *)
LEMMA AtPlusBegins ==
  ASSUME NEW k \in {0, 2}, NEW c, NEW b, Now(k, c, b), NEW s, s = Stop(k, c, b),
         PlusBegins(k, s)
  PROVE  Goes
<1> DEFINE e == Root(k + 1)
           f == FrameAt(PartRule(k), TRUE, s, 1)
           g == FrameAt(PlusRule(k), TRUE, s, 1)
<1>1. s \in Nat /\ Step /\ outcome = "parsing"
  BY StopInLine DEF Now
<1>2. /\ Over(k + 1, f) \in Seq(Frames) /\ g \in Frames
      /\ OverPart(k, s, g) = Append(Over(k + 1, f), g)
      /\ g.rule = PlusRule(k) /\ g.must = TRUE /\ g.mark = s
  BY <1>1, PartFrames DEF OverPart
<1>3. Grammar[g.rule].op = "plus" /\ Grammar[g.rule].rules[1] = CharRule(k)
  BY <1>2, PartIs
<1>4. frames = Append(Over(k + 1, f), g) /\ answer = "call" /\ pos = s
  BY <1>2 DEF PlusBegins
<1>5. /\ frames' = Append(Append(Over(k + 1, f), FrameAt(g.rule, g.must, g.mark, 1)),
                          FrameAt(CharRule(k), g.must, s, 1))
      /\ answer' = "call" /\ UNCHANGED << line, data, counted, pos, outcome >>
  <2> HIDE DEF e, f, g
  <2> QED
    BY <1>1, <1>2, <1>3, <1>4, FirstCall
<1>6. frames' = Append(OverPart(k, s, g), FrameAt(CharRule(k), TRUE, s, 1))
  BY <1>2, <1>5
<1>7. FirstChar(k, s)'
  BY <1>4, <1>5, <1>6 DEF FirstChar
<1>8. Place(k, s)'
  BY <1>7 DEF Place, InPart
<1> QED
  BY <1>5, <1>8, Stays

(* Without it the line is none that counts.                                 *)
LEMMA AtFirstChar ==
  ASSUME NEW k \in {0, 2}, NEW c, NEW b, Now(k, c, b), NEW s, s = Stop(k, c, b),
         FirstChar(k, s)
  PROVE  Goes
<1> DEFINE f == FrameAt(PartRule(k), TRUE, s, 1)
           g == FrameAt(PlusRule(k), TRUE, s, 1)
           h == FrameAt(CharRule(k), TRUE, s, 1)
           fits == s <= Len(line) /\ line[s] \in PartChars(k)
<1>1. /\ s \in Nat /\ s \in 1..(Len(line) + 1) /\ Step /\ outcome = "parsing"
      /\ line \in Seq(Chars) /\ c \in Nat /\ b \in Nat
  BY StopInLine DEF Now
<1>2. /\ Over(k + 1, f) \in Seq(Frames) /\ g \in Frames
      /\ OverPart(k, s, g) = Append(Over(k + 1, f), g)
      /\ g.rule = PlusRule(k)
  BY <1>1, PartFrames DEF OverPart
<1>3. h \in Frames /\ h.rule = CharRule(k) /\ h.must = TRUE /\ h.mark = s
  BY <1>1, PartIs DEF FrameAt, Frames
<1>4. /\ Grammar[h.rule].op = "one" /\ Grammar[h.rule].chars = PartChars(k)
      /\ Grammar[g.rule].op # "ifapply"
  BY <1>2, <1>3, PartIs
<1>5. frames = Append(Append(Over(k + 1, f), g), h) /\ answer = "call" /\ pos = s
  BY <1>2 DEF FirstChar
<1>6. /\ UNCHANGED << line, data, counted >>
      /\ fits => /\ frames' = Append(Over(k + 1, f), g) /\ answer' = "matched"
                 /\ pos' = s + 1 /\ outcome' = outcome
      /\ ~fits => outcome' = "threw" /\ frames' = << >>
  <2> HIDE DEF f, g, h
  <2> QED
    BY <1>1, <1>2, <1>3, <1>4, <1>5, OneReturns
<1>7. CASE fits
  <2>1. Taken(k, s, s + 1)'
    BY <1>1, <1>6, <1>7 DEF Taken
  <2>2. PlusGoesOn(k, s, s + 1)'
    BY <1>2, <1>6, <1>7, <2>1 DEF PlusGoesOn
  <2>3. Place(k, s)'
    BY <1>1, <2>2 DEF Place, InPart
  <2> QED
    BY <1>6, <1>7, <2>3, Stays
<1>8. CASE ~fits
  <2>1. ~Counts(line)
    <3>1. CASE k = 0
      BY <1>1, <1>8, <3>1, CountingLine DEF Stop, PartChars
    <3>2. CASE k = 2
      <4>1. Takes(line, NameChars, 1, c)
        BY <3>2 DEF Now, Matched
      <4> QED
        BY <1>1, <1>8, <3>2, <4>1, CountingLine DEF Stop, PartChars
    <3> QED
      BY <3>1, <3>2
  <2> QED
    BY <1>6, <1>8, <2>1, ThrowsEarly
<1> QED
  BY <1>7, <1>8

(* Another character is taken, or the repetition has all of them.           *)
LEMMA AtNextChar ==
  ASSUME NEW k \in {0, 2}, NEW c, NEW b, Now(k, c, b), NEW s, s = Stop(k, c, b),
         NEW p \in Nat, NextChar(k, s, p)
  PROVE  Goes
<1> DEFINE f == FrameAt(PartRule(k), TRUE, s, 1)
           g == FrameAt(PlusRule(k), TRUE, s, 2)
           h == FrameAt(CharRule(k), FALSE, p, 1)
           fits == p <= Len(line) /\ line[p] \in PartChars(k)
<1>1. /\ s \in Nat /\ s \in 1..(Len(line) + 1) /\ Step /\ outcome = "parsing"
      /\ line \in Seq(Chars) /\ p \in 1..(Len(line) + 1) /\ Taken(k, s, p)
  BY StopInLine DEF Now, NextChar, Taken
<1>2. /\ Over(k + 1, f) \in Seq(Frames) /\ g \in Frames
      /\ OverPart(k, s, g) = Append(Over(k + 1, f), g)
  BY <1>1, PartFrames DEF OverPart
<1>3. h \in Frames /\ h.rule = CharRule(k) /\ h.must = FALSE /\ h.mark = p
  BY <1>1, PartIs DEF FrameAt, Frames
<1>4. Grammar[h.rule].op = "one" /\ Grammar[h.rule].chars = PartChars(k)
  BY <1>3, PartIs
<1>5. frames = Append(Append(Over(k + 1, f), g), h) /\ answer = "call" /\ pos = p
  BY <1>2 DEF NextChar
<1>6. /\ UNCHANGED << line, data, counted >> /\ frames' = Append(Over(k + 1, f), g)
      /\ fits => answer' = "matched" /\ pos' = p + 1 /\ outcome' = outcome
      /\ ~fits => answer' = "failed" /\ pos' = p /\ outcome' = outcome
      /\ Top.mark = p
  <2> HIDE DEF f, g, h
  <2> QED
    BY <1>1, <1>2, <1>3, <1>4, <1>5, OneReturns
<1>7. CASE fits
  <2>1. Taken(k, s, p + 1)'
    BY <1>1, <1>6, <1>7 DEF Taken
  <2>2. PlusGoesOn(k, s, p + 1)'
    BY <1>2, <1>6, <1>7, <2>1 DEF PlusGoesOn
  <2>3. Place(k, s)'
    BY <1>1, <2>2 DEF Place, InPart
  <2> QED
    BY <1>6, <1>7, <2>3, Stays
<1>8. CASE ~fits
  <2>1. Takes(line, PartChars(k), s, p)'
    BY <1>1, <1>6, <1>8 DEF Taken, Takes
  <2>2. PlusStops(k, s, p)'
    BY <1>2, <1>6, <1>8, <2>1 DEF PlusStops
  <2>3. Place(k, s)'
    BY <1>1, <2>2 DEF Place, InPart
  <2> QED
    BY <1>6, <1>8, <2>3, Stays
<1> QED
  BY <1>7, <1>8

-----------------------------------------------------------------------------
(* The repetition has taken a character: it tries the next one, or the line *)
(* ends and it returns.                                                     *)
LEMMA AtPlusGoesOn ==
  ASSUME NEW k \in {0, 2}, NEW c, NEW b, Now(k, c, b), NEW s, s = Stop(k, c, b),
         NEW p \in Nat, PlusGoesOn(k, s, p)
  PROVE  Goes
<1>1. /\ s \in Nat /\ s \in 1..(Len(line) + 1) /\ Step /\ outcome = "parsing"
      /\ line \in Seq(Chars) /\ p \in 1..(Len(line) + 1) /\ Taken(k, s, p)
      /\ answer = "matched" /\ pos = p
  BY StopInLine DEF Now, PlusGoesOn, Taken
<1>2. PICK n \in {1, 2} : frames = OverPart(k, s, FrameAt(PlusRule(k), TRUE, s, n))
  BY DEF PlusGoesOn
<1> DEFINE e == Root(k + 1)
           f == FrameAt(PartRule(k), TRUE, s, 1)
           g == FrameAt(PlusRule(k), TRUE, s, n)
<1>3. /\ Over(k + 1, f) \in Seq(Frames) /\ g \in Frames /\ f \in Frames
      /\ Append(<< >>, e) \in Seq(Frames)
      /\ Over(k + 1, f) = Append(Append(<< >>, e), f)
      /\ frames = Append(Over(k + 1, f), g)
      /\ g.rule = PlusRule(k) /\ g.must = TRUE /\ g.mark = s /\ g.next = n
  <2>1. frames = Append(Over(k + 1, f), g)
    BY <1>2 DEF OverPart
  <2>2. /\ Over(k + 1, f) \in Seq(Frames) /\ f \in Frames
        /\ Append(<< >>, e) \in Seq(Frames)
        /\ Over(k + 1, f) = Append(Append(<< >>, e), f)
    BY <1>1, PartFrames
  <2>3. g \in Frames /\ g.rule = PlusRule(k) /\ g.must = TRUE /\ g.mark = s /\ g.next = n
    BY <1>1, PartIs DEF FrameAt, Frames
  <2> QED
    BY <2>1, <2>2, <2>3
<1>4. Grammar[g.rule].op = "plus" /\ Grammar[g.rule].rules[1] = CharRule(k)
  BY <1>3, PartIs
<1> HIDE DEF e, f, g
<1>5. Repetition /\ UNCHANGED << data, counted, line >>
  BY <1>1, <1>3, <1>4, StepRuns DEF Step
<1>6. CASE ~Eof
  <2>1. Call(2)
    BY <1>1, <1>5, <1>6 DEF Repetition
  <2>2. /\ frames' = Append(Append(Over(k + 1, f), FrameAt(g.rule, g.must, g.mark, 2)),
                            FrameAt(CharRule(k), FALSE, p, 1))
        /\ answer' = "call" /\ UNCHANGED << pos, outcome >>
    <3>1. PICK j \in Nat : j = 2 /\ j > 1
      OBVIOUS
    <3>2. PICK w \in Seq(Frames) : w = Over(k + 1, f)
      BY <1>3
    <3>3. "plus" \in {"seq", "sor", "plus"} /\ Call(j) /\ frames = Append(w, g)
      BY <1>3, <2>1, <3>1, <3>2
    <3>4. /\ frames' = Append(Append(w, FrameAt(g.rule, g.must, g.mark, j)),
                              FrameAt(Grammar[g.rule].rules[1], FALSE, pos, 1))
          /\ answer' = "call" /\ UNCHANGED << pos, outcome >>
      BY <1>3, <1>4, <3>1, <3>3, NextCall
    <3> QED
      BY <1>1, <1>4, <3>1, <3>2, <3>4
  <2>3. frames' = Append(OverPart(k, s, FrameAt(PlusRule(k), TRUE, s, 2)),
                         FrameAt(CharRule(k), FALSE, p, 1))
    BY <1>3, <2>2 DEF OverPart, f
  <2>4. NextChar(k, s, p)'
    BY <1>1, <1>5, <2>2, <2>3 DEF NextChar, Taken
  <2>5. Place(k, s)'
    BY <2>4 DEF Place, InPart
  <2> QED
    BY <1>5, <2>2, <2>5, Stays
<1>7. CASE Eof
  <2>1. Return(TRUE, pos)
    BY <1>1, <1>5, <1>7 DEF Repetition
  <2>2. frames' = Over(k + 1, f) /\ pos' = p /\ outcome' = outcome /\ answer' = "matched"
    BY <1>1, <1>3, <2>1, DeepReturn
  <2>3. Takes(line, PartChars(k), s, p)'
    BY <1>1, <1>5, <1>7 DEF Eof, Taken, Takes
  <2>4. PartEnds(k, s, p)'
    BY <2>2, <2>3 DEF PartEnds, f
  <2>5. Place(k, s)'
    BY <2>4 DEF Place, InPart
  <2> QED
    BY <1>5, <2>2, <2>5, Stays
<1> QED
  BY <1>6, <1>7

(* The repetition has met a character that is not one of its own.           *)
LEMMA AtPlusStops ==
  ASSUME NEW k \in {0, 2}, NEW c, NEW b, Now(k, c, b), NEW s, s = Stop(k, c, b),
         NEW p \in Nat, PlusStops(k, s, p)
  PROVE  Goes
<1> DEFINE e == Root(k + 1)
           f == FrameAt(PartRule(k), TRUE, s, 1)
           g == FrameAt(PlusRule(k), TRUE, s, 2)
<1>1. /\ s \in Nat /\ Step /\ outcome = "parsing" /\ line \in Seq(Chars)
      /\ answer = "failed" /\ pos = p /\ Takes(line, PartChars(k), s, p)
  BY StopInLine DEF Now, PlusStops
<1>2. /\ Over(k + 1, f) \in Seq(Frames) /\ g \in Frames /\ f \in Frames
      /\ Append(<< >>, e) \in Seq(Frames)
      /\ Over(k + 1, f) = Append(Append(<< >>, e), f)
      /\ OverPart(k, s, g) = Append(Over(k + 1, f), g)
      /\ g.rule = PlusRule(k) /\ g.next = 2
  <2>1. OverPart(k, s, g) = Append(Over(k + 1, f), g)
    BY DEF OverPart
  <2>2. /\ Over(k + 1, f) \in Seq(Frames) /\ f \in Frames
        /\ Append(<< >>, e) \in Seq(Frames)
        /\ Over(k + 1, f) = Append(Append(<< >>, e), f)
    BY <1>1, PartFrames
  <2>3. g \in Frames /\ g.rule = PlusRule(k) /\ g.next = 2
    BY <1>1, PartIs DEF FrameAt, Frames
  <2> QED
    BY <2>1, <2>2, <2>3
<1>3. Grammar[g.rule].op = "plus" /\ frames = Append(Over(k + 1, f), g)
  BY <1>2, PartIs DEF PlusStops
<1> HIDE DEF e, f, g
<1>4. Repetition /\ Top = g /\ UNCHANGED << data, counted, line >>
  BY <1>1, <1>2, <1>3, StepRuns DEF Step
<1>5. Return(TRUE, pos)
  BY <1>1, <1>2, <1>4 DEF Repetition
<1>6. frames' = Over(k + 1, f) /\ pos' = p /\ outcome' = outcome /\ answer' = "matched"
  BY <1>1, <1>2, <1>3, <1>5, DeepReturn
<1>7. PartEnds(k, s, p)'
  BY <1>1, <1>4, <1>6 DEF PartEnds, f
<1>8. Place(k, s)'
  BY <1>7 DEF Place, InPart
<1> QED
  BY <1>4, <1>6, <1>8, Stays

(* The action gets its text.                                                *)
LEMMA AtPartEnds ==
  ASSUME NEW k \in {0, 2}, NEW c, NEW b, Now(k, c, b), NEW s, s = Stop(k, c, b),
         NEW p \in Nat, PartEnds(k, s, p)
  PROVE  Goes
<1> DEFINE e == Root(k + 1)
           f == FrameAt(PartRule(k), TRUE, s, 1)
           text == SubSeq(line, s, p - 1)
<1>1. /\ s \in Nat /\ Step /\ outcome = "parsing" /\ line \in Seq(Chars)
      /\ c \in Nat /\ b \in Nat /\ DOMAIN data = Fields
      /\ answer = "matched" /\ pos = p /\ Takes(line, PartChars(k), s, p)
  BY StopInLine DEF Now, PartEnds
<1>2. /\ << >> \in Seq(Frames) /\ Append(<< >>, e) \in Seq(Frames)
      /\ e \in Frames /\ f \in Frames
      /\ Over(k + 1, f) = Append(Append(<< >>, e), f)
      /\ f.rule = PartRule(k) /\ f.mark = s /\ Grammar[e.rule].op = "seq"
  BY <1>1, PartFrames
<1>3. Grammar[f.rule].op = "ifapply" /\ frames = Append(Append(<< >>, e), f)
  BY <1>2, PartIs DEF PartEnds
<1> HIDE DEF e, f
<1>4. IfApply /\ Top = f /\ UNCHANGED line
  BY <1>1, <1>2, <1>3, StepRuns DEF Step
<1>5. PartRule(k) = "set_counter_increment" <=> k = 2
  BY PartIs
<1>6. /\ UNCHANGED counted
      /\ k = 2 /\ ~Stod(text) => Throw("threw") /\ UNCHANGED data
      /\ ~(k = 2 /\ ~Stod(text)) =>
           Return(TRUE, p) /\ data' = [data EXCEPT ![PartRule(k)] = text]
  BY <1>1, <1>2, <1>4, <1>5 DEF IfApply, Store
<1>7. CASE k = 2 /\ ~Stod(text)
  <2>1. outcome' = "threw" /\ frames' = << >> /\ UNCHANGED data
    BY <1>6, <1>7 DEF Throw
  <2>2. Takes(line, NameChars, 1, c) /\ s = c + 1 /\ Takes(line, NumberChars, c + 1, p)
    BY <1>1, <1>7 DEF Now, Matched, Stop, PartChars
  <2>3. ~Counts(line)
    BY <1>1, <1>7, <2>2, CountingLine
  <2> QED
    BY <1>4, <1>6, <1>7, <2>1, <2>3, ThrowsEarly
<1>8. CASE ~(k = 2 /\ ~Stod(text))
  <2>1. /\ frames' = Append(<< >>, e) /\ pos' = p /\ outcome' = outcome /\ answer' = "matched"
    BY <1>2, <1>3, <1>6, <1>8, DeepReturn
  <2>2. /\ PartRule(k) \in DOMAIN data /\ DOMAIN data' = Fields
        /\ data'[PartRule(k)] = text
        /\ \A x \in Fields : x # PartRule(k) => data'[x] = data[x]
    BY <1>1, <1>6, <1>8, PartIs
  <2>3. CASE k = 0
    <3>1. PartRule(k) = "set_name" /\ s = 1 /\ Takes(line, NameChars, 1, p)
      BY <1>1, <2>3 DEF PartRule, Stop, PartChars
    <3>2. Matched(1, p, b)'
      BY <1>4, <1>6, <2>2, <2>3, <3>1 DEF Now, Matched
    <3>3. Stop(1, p, b) = p
      BY DEF Stop
    <3> QED
      BY <1>1, <2>1, <2>2, <2>3, <3>2, <3>3, Completes DEF e
  <2>4. CASE k = 2
    <3>1. /\ PartRule(k) = "set_counter_increment" /\ s = c + 1
          /\ Takes(line, NumberChars, c + 1, p) /\ "set_name" \in Fields
      BY <1>1, <2>4 DEF PartRule, Stop, PartChars, Fields
    <3>2. Matched(3, c, p)'
      <4>1. text = SubSeq(line, c + 1, p - 1) /\ Stod(text)
        BY <1>8, <2>4, <3>1
      <4>2. /\ data'["set_counter_increment"] = SubSeq(line, c + 1, p - 1)
            /\ data'["set_name"] = data["set_name"]
        BY <2>2, <3>1, <4>1
      <4>3. Matched(2, c, b)
        BY <2>4 DEF Now
      <4> QED
        BY <1>4, <1>6, <3>1, <4>1, <4>2, <4>3 DEF Matched
    <3>3. Stop(3, c, p) = p
      BY DEF Stop
    <3> QED
      BY <1>1, <2>1, <2>2, <2>4, <3>2, <3>3, Completes DEF e
  <2> QED
    BY <2>3, <2>4
<1> QED
  BY <1>7, <1>8

-----------------------------------------------------------------------------
(* The frames of set_type_char and increment_counter.                       *)
LEMMA TypeFrames ==
  ASSUME NEW s \in Nat
  PROVE  LET f == TypeFrame(s)
             h == FrameAt("read_type_char", TRUE, s, 1)
         IN /\ f \in Frames /\ f.rule = "set_type_char" /\ f.must = TRUE /\ f.mark = s
            /\ Grammar[f.rule].op = "ifapply" /\ Grammar[f.rule].rules[1] = "read_type_char"
            /\ Over(5, f) = Append(Append(<< >>, Root(5)), f)
            /\ h \in Frames /\ h.rule = "read_type_char" /\ h.must = TRUE /\ h.mark = s
            /\ Grammar[h.rule].op = "one" /\ Grammar[h.rule].chars = {"c"}
            /\ Root(5) \in Frames /\ Append(<< >>, Root(5)) \in Seq(Frames)
            /\ Grammar[Root(5).rule].op = "seq" /\ << >> \in Seq(Frames)
<1> DEFINE f == TypeFrame(s)
           h == FrameAt("read_type_char", TRUE, s, 1)
<1>1. /\ f \in Frames /\ f.rule = "set_type_char" /\ f.must = TRUE /\ f.mark = s
  BY DEF TypeFrame, FrameAt, Frames, Rules
<1>2. h \in Frames /\ h.rule = "read_type_char" /\ h.must = TRUE /\ h.mark = s
  BY DEF FrameAt, Frames, Rules
<1>3. Over(5, f) = Append(Append(<< >>, Root(5)), f)
  BY DEF Over
<1>4. /\ Root(5) \in Frames /\ Append(<< >>, Root(5)) \in Seq(Frames)
      /\ Grammar[Root(5).rule].op = "seq"
  <2>1. 5 \in Nat
    OBVIOUS
  <2> QED
    BY <2>1, RootIs
<1> HIDE DEF f, h
<1>5. /\ Grammar[f.rule].op = "ifapply" /\ Grammar[f.rule].rules[1] = "read_type_char"
      /\ Grammar[h.rule].op = "one" /\ Grammar[h.rule].chars = {"c"}
  BY <1>1, <1>2, GrammarIs
<1> QED
  BY <1>1, <1>2, <1>3, <1>4, <1>5, FramesAre DEF f, h

(* The steps within set_type_char.                                          *)
LEMMA AtTypeBegins ==
  ASSUME NEW c, NEW b, Now(4, c, b), NEW s, s = Stop(4, c, b), TypeBegins(s)
  PROVE  Goes
<1> DEFINE f == TypeFrame(s)
<1>1. s \in Nat /\ Step /\ outcome = "parsing"
  BY StopInLine DEF Now
<1>2. /\ f \in Frames /\ f.rule = "set_type_char" /\ f.must = TRUE /\ f.mark = s
      /\ Grammar[f.rule].op = "ifapply" /\ Grammar[f.rule].rules[1] = "read_type_char"
      /\ Over(5, f) = Append(Append(<< >>, Root(5)), f)
      /\ Append(<< >>, Root(5)) \in Seq(Frames)
  BY <1>1, TypeFrames
<1>3. frames = Append(Append(<< >>, Root(5)), f) /\ answer = "call" /\ pos = s
  BY <1>2 DEF TypeBegins
<1> HIDE DEF f
<1>4. /\ frames' = Append(Append(Append(<< >>, Root(5)), FrameAt(f.rule, f.must, f.mark, 1)),
                          FrameAt("read_type_char", f.must, s, 1))
      /\ answer' = "call" /\ UNCHANGED << line, data, counted, pos, outcome >>
  BY <1>1, <1>2, <1>3, FirstCall
<1>5. frames' = Append(Over(5, TypeFrame(s)), FrameAt("read_type_char", TRUE, s, 1))
  BY <1>2, <1>4 DEF f, TypeFrame
<1>6. TypeChar(s)'
  BY <1>3, <1>4, <1>5 DEF TypeChar, TypeFrame
<1>7. Place(4, s)'
  BY <1>6 DEF Place, InType
<1> QED
  BY <1>4, <1>7, Stays

(* The caller of read_type_char is ifapply: its failure does not throw.     *)
LEMMA AtTypeChar ==
  ASSUME NEW c, NEW b, Now(4, c, b), NEW s, s = Stop(4, c, b), TypeChar(s)
  PROVE  Goes
<1> DEFINE f == TypeFrame(s)
           h == FrameAt("read_type_char", TRUE, s, 1)
<1>1. /\ s \in Nat /\ s \in 1..(Len(line) + 1) /\ Step /\ outcome = "parsing"
      /\ line \in Seq(Chars)
  BY StopInLine DEF Now
<1>2. /\ f \in Frames /\ Grammar[f.rule].op = "ifapply"
      /\ Over(5, f) = Append(Append(<< >>, Root(5)), f)
      /\ Append(<< >>, Root(5)) \in Seq(Frames)
      /\ h \in Frames /\ h.rule = "read_type_char" /\ h.must = TRUE /\ h.mark = s
      /\ Grammar[h.rule].op = "one" /\ Grammar[h.rule].chars = {"c"}
  BY <1>1, TypeFrames
<1>3. frames = Append(Append(Append(<< >>, Root(5)), f), h) /\ answer = "call" /\ pos = s
  BY <1>2 DEF TypeChar
<1> HIDE DEF f, h
<1>4. /\ UNCHANGED << line, data, counted >> /\ Top.mark = s
      /\ frames' = Append(Append(<< >>, Root(5)), f) /\ outcome' = outcome
      /\ CharAt(line, s, "c") => answer' = "matched" /\ pos' = s + 1
      /\ ~CharAt(line, s, "c") => answer' = "failed" /\ pos' = s
  BY <1>1, <1>2, <1>3, OneReturns DEF CharAt
<1>5. TypeEnds(s)'
  BY <1>2, <1>4 DEF TypeEnds, CharAt, f, TypeFrame
<1>6. Place(4, s)'
  BY <1>5 DEF Place, InType
<1> QED
  BY <1>4, <1>6, Stays

(* set_type_char stores its character, or the line was none that counts.    *)
LEMMA AtTypeEnds ==
  ASSUME NEW c, NEW b, Now(4, c, b), NEW s, s = Stop(4, c, b), TypeEnds(s)
  PROVE  Goes
<1> DEFINE f == TypeFrame(s)
<1>1. /\ s \in Nat /\ Step /\ outcome = "parsing" /\ line \in Seq(Chars)
      /\ c \in Nat /\ b \in Nat /\ DOMAIN data = Fields /\ s = b + 1
  BY StopInLine DEF Now, Stop
<1>2. /\ f \in Frames /\ f.rule = "set_type_char" /\ f.must = TRUE /\ f.mark = s
      /\ Grammar[f.rule].op = "ifapply" /\ << >> \in Seq(Frames)
      /\ Over(5, f) = Append(Append(<< >>, Root(5)), f)
      /\ Append(<< >>, Root(5)) \in Seq(Frames)
      /\ Root(5) \in Frames /\ Grammar[Root(5).rule].op = "seq"
  BY <1>1, TypeFrames
<1>3. /\ frames = Append(Append(<< >>, Root(5)), f) /\ answer # "call"
      /\ \/ answer = "matched" /\ pos = s + 1 /\ CharAt(line, s, "c")
         \/ answer = "failed" /\ ~CharAt(line, s, "c")
  BY <1>2 DEF TypeEnds
<1> HIDE DEF f
<1>4. IfApply /\ Top = f /\ UNCHANGED line
  BY <1>1, <1>2, <1>3, StepRuns DEF Step
<1>5. /\ UNCHANGED counted
      /\ answer = "failed" => Return(FALSE, s) /\ UNCHANGED data
      /\ answer # "failed" => /\ Return(TRUE, pos)
                              /\ data' = [data EXCEPT !["set_type_char"] =
                                            SubSeq(line, s, pos - 1)]
  BY <1>2, <1>4 DEF IfApply, Store
<1>6. CASE answer = "failed"
  <2>1. outcome' = "threw" /\ frames' = << >> /\ UNCHANGED data
    BY <1>2, <1>3, <1>5, <1>6, DeepReturn
  <2>2. Takes(line, NameChars, 1, c) /\ Takes(line, NumberChars, c + 1, b)
    BY DEF Now, Matched
  <2>3. ~Counts(line)
    BY <1>1, <1>3, <1>6, <2>2, CountingLine
  <2> QED
    BY <1>4, <1>5, <2>1, <2>3, ThrowsEarly
<1>7. CASE answer # "failed"
  <2>1. /\ frames' = Append(<< >>, Root(5)) /\ pos' = s + 1 /\ outcome' = outcome
        /\ answer' = "matched"
    BY <1>2, <1>3, <1>5, <1>7, DeepReturn
  <2>2. SubSeq(line, s, pos - 1) = << "c" >>
    <3>1. pos - 1 = s /\ s \in 1..Len(line) /\ line[s] = "c"
      BY <1>1, <1>3, <1>7 DEF CharAt
    <3>2. SubSeq(line, s, s) \in Seq(Chars) /\ Len(SubSeq(line, s, s)) = 1
          /\ SubSeq(line, s, s)[1] = "c"
      BY <1>1, <3>1, SubSeqProperties
    <3>3. PICK x \in Seq(Chars) : x = SubSeq(line, s, s)
      BY <3>2
    <3>4. Len(x) = 1 /\ x[1] = "c"
      BY <3>2, <3>3
    <3>5. x = << "c" >>
      BY <3>4
    <3> QED
      BY <3>1, <3>3, <3>5
  <2>3. /\ DOMAIN data' = Fields /\ data'["set_type_char"] = << "c" >>
        /\ data'["set_name"] = data["set_name"]
        /\ data'["set_counter_increment"] = data["set_counter_increment"]
    BY <1>1, <1>5, <1>7, <2>2 DEF Fields
  <2>4. Matched(5, c, b)'
    <3>1. Matched(4, c, b) /\ CharAt(line, b + 1, "c")
      BY <1>1, <1>3, <1>7 DEF Now
    <3> QED
      BY <1>4, <1>5, <2>3, <3>1 DEF Matched
  <2>5. Stop(5, c, b) = s + 1
    BY <1>1 DEF Stop
  <2>6. 4 \in 0..6 /\ 4 + 1 = 5
    OBVIOUS
  <2> QED
    BY <1>1, <2>1, <2>3, <2>4, <2>5, <2>6, Completes
<1> QED
  BY <1>6, <1>7

(* increment_counter finds the type that this line stored: it never aborts. *)
LEMMA AtApply ==
  ASSUME NEW c, NEW b, Now(5, c, b), NEW s, s = Stop(5, c, b), InApply(5, s)
  PROVE  Goes
<1> DEFINE f == FrameAt("increment_counter", TRUE, s, 1)
<1>1. /\ s \in Nat /\ Step /\ outcome = "parsing" /\ line \in Seq(Chars)
      /\ c \in Nat /\ b \in Nat /\ DOMAIN data = Fields /\ s = b + 2 /\ pos = s
  BY StopInLine DEF Now, Stop, InApply
<1>2. f \in Frames /\ f.rule = "increment_counter"
  BY <1>1 DEF FrameAt, Frames, Rules
<1>3. /\ Root(6) \in Frames /\ Append(<< >>, Root(6)) \in Seq(Frames)
      /\ Grammar[Root(6).rule].op = "seq" /\ << >> \in Seq(Frames)
  <2>1. 6 \in Nat
    OBVIOUS
  <2> QED
    BY <2>1, RootIs, FramesAre
<1>4. frames = Append(Append(<< >>, Root(6)), f) /\ answer = "call"
  BY DEF InApply, Over
<1> HIDE DEF f
<1>5. Grammar[f.rule].op = "apply"
  BY <1>2, GrammarIs
<1>6. Increment /\ UNCHANGED line
  BY <1>1, <1>2, <1>3, <1>4, <1>5, StepRuns DEF Step
<1>7. /\ Return(TRUE, pos) /\ UNCHANGED data
      /\ counted' = << data.set_name, data.set_counter_increment >>
  <2>1. data.set_type_char = << "c" >>
    BY DEF Now, Matched
  <2> QED
    BY <1>6, <2>1 DEF Increment
<1>8. /\ frames' = Append(<< >>, Root(6)) /\ pos' = s /\ outcome' = outcome
      /\ answer' = "matched"
  BY <1>1, <1>2, <1>3, <1>4, <1>7, DeepReturn
<1>9. Matched(6, c, b)'
  BY <1>6, <1>7 DEF Now, Matched
<1>10. Stop(6, c, b) = s /\ 5 \in 0..6 /\ 5 + 1 = 6
  BY <1>1 DEF Stop
<1> QED
  BY <1>1, <1>7, <1>8, <1>9, <1>10, Completes

-----------------------------------------------------------------------------
(* The frames of eol, its alternatives and crlf.                            *)
LEMMA EolFrames ==
  \A s \in Nat : \A j \in 1..4 :
    LET f == EolFrame(s, j)
    IN /\ f \in Frames /\ f.rule = "eol" /\ f.must = TRUE /\ f.mark = s /\ f.next = j
       /\ Grammar[f.rule].op = "sor" /\ Grammar[f.rule].rules[j] = EolRules[j]
       /\ Len(Grammar[f.rule].rules) = 4
<1> TAKE s \in Nat
<1> TAKE j \in 1..4
<1> DEFINE f == EolFrame(s, j)
<1>1. /\ f \in Frames /\ f.rule = "eol" /\ f.must = TRUE /\ f.mark = s /\ f.next = j
  BY DEF EolFrame, FrameAt, Frames, Rules
<1> HIDE DEF f
<1>2. /\ Grammar[f.rule].op = "sor" /\ Grammar[f.rule].rules[j] = EolRules[j]
      /\ Len(Grammar[f.rule].rules) = 4
  <2>1. j = 1 \/ j = 2 \/ j = 3 \/ j = 4
    OBVIOUS
  <2> QED
    BY <1>1, <2>1, GrammarIs DEF EolRules
<1> QED
  BY <1>1, <1>2 DEF f

(* The frame below that of eol.                                             *)
LEMMA EolRoot ==
  /\ Root(7) \in Frames /\ Append(<< >>, Root(7)) \in Seq(Frames)
  /\ Grammar[Root(7).rule].op = "seq" /\ << >> \in Seq(Frames)
  /\ \A f : Over(7, f) = Append(Append(<< >>, Root(7)), f)
  /\ \A f \in Frames : Over(7, f) \in Seq(Frames)
<1>1. 7 \in Nat
  OBVIOUS
<1>2. /\ Root(7) \in Frames /\ Append(<< >>, Root(7)) \in Seq(Frames)
      /\ Grammar[Root(7).rule].op = "seq"
  BY <1>1, RootIs
<1>3. \A f : Over(7, f) = Append(Append(<< >>, Root(7)), f)
  BY DEF Over
<1> QED
  BY <1>2, <1>3, FramesAre

(* The frames of crlf.                                                      *)
LEMMA CrlfFrames ==
  ASSUME NEW s \in Nat, NEW i \in {1, 2}
  PROVE  LET f == FrameAt("crlf", FALSE, s, i)
         IN /\ f \in Frames /\ f.rule = "crlf" /\ f.must = FALSE /\ f.mark = s /\ f.next = i
            /\ Grammar[f.rule].op = "seq" /\ Len(Grammar[f.rule].rules) = 2
            /\ Grammar[f.rule].rules[1] = "cr" /\ Grammar[f.rule].rules[2] = "lf"
            /\ CrlfFrame(s, i) = Append(Over(7, EolFrame(s, 2)), f)
<1> DEFINE f == FrameAt("crlf", FALSE, s, i)
<1>1. f \in Frames /\ f.rule = "crlf" /\ f.must = FALSE /\ f.mark = s /\ f.next = i
  BY DEF FrameAt, Frames, Rules
<1>2. CrlfFrame(s, i) = Append(Over(7, EolFrame(s, 2)), f)
  BY DEF CrlfFrame
<1> HIDE DEF f
<1>3. /\ Grammar[f.rule].op = "seq" /\ Len(Grammar[f.rule].rules) = 2
      /\ Grammar[f.rule].rules[1] = "cr" /\ Grammar[f.rule].rules[2] = "lf"
  BY <1>1, GrammarIs
<1> QED
  BY <1>1, <1>2, <1>3 DEF f

(* A character that an alternative of eol tries need not match.             *)
LEMMA TriedFrames ==
  ASSUME NEW p \in Nat, NEW r \in {"eof", "lf", "cr"}
  PROVE  LET f == FrameAt(r, FALSE, p, 1)
         IN /\ f \in Frames /\ f.rule = r /\ f.must = FALSE /\ f.mark = p
            /\ r # "eof" => Grammar[f.rule].op = "one" /\ Grammar[f.rule].chars = {r}
            /\ r = "eof" => Grammar[f.rule].op = "eof"
<1> DEFINE f == FrameAt(r, FALSE, p, 1)
<1>1. f \in Frames /\ f.rule = r /\ f.must = FALSE /\ f.mark = p
  BY DEF FrameAt, Frames, Rules
<1> HIDE DEF f
<1>2. /\ r # "eof" => Grammar[f.rule].op = "one" /\ Grammar[f.rule].chars = {r}
      /\ r = "eof" => Grammar[f.rule].op = "eof"
  BY <1>1, GrammarIs
<1> QED
  BY <1>1, <1>2 DEF f

(* What holds at each step within eol, which begins at the position s.      *)
LEMMA EolNow ==
  ASSUME NEW c, NEW b, Now(6, c, b), NEW s, s = Stop(6, c, b)
  PROVE  /\ s \in Nat /\ s \in 1..(Len(line) + 1) /\ s = b + 2 /\ Step
         /\ outcome = "parsing" /\ line \in Seq(Chars) /\ c \in Nat /\ b \in Nat
         /\ DOMAIN data = Fields /\ Len(line) \in Nat
BY StopInLine DEF Now, Stop

-----------------------------------------------------------------------------
(* eol begins with its first alternative.                                   *)
LEMMA AtEolBegins ==
  ASSUME NEW c, NEW b, Now(6, c, b), NEW s, s = Stop(6, c, b), EolBegins(s)
  PROVE  Goes
<1> DEFINE f == EolFrame(s, 1)
<1>1. s \in Nat /\ Step /\ 1 \in 1..4
  BY EolNow
<1>2. /\ f \in Frames /\ f.rule = "eol" /\ f.must = TRUE /\ f.mark = s
      /\ Grammar[f.rule].op = "sor" /\ Grammar[f.rule].rules[1] = EolRules[1]
  BY <1>1, EolFrames
<1>3. /\ Over(7, f) = Append(Append(<< >>, Root(7)), f)
      /\ Append(<< >>, Root(7)) \in Seq(Frames)
  BY EolRoot
<1>4. frames = Append(Append(<< >>, Root(7)), f) /\ answer = "call" /\ pos = s
  BY <1>3 DEF EolBegins
<1> HIDE DEF f
<1>5. /\ frames' = Append(Append(Append(<< >>, Root(7)), FrameAt(f.rule, f.must, f.mark, 1)),
                          FrameAt(EolRules[1], FALSE, s, 1))
      /\ answer' = "call" /\ UNCHANGED << line, data, counted, pos, outcome >>
  BY <1>1, <1>2, <1>3, <1>4, FirstCall
<1>6. frames' = Append(Over(7, EolFrame(s, 1)), FrameAt(EolRules[1], FALSE, s, 1))
  BY <1>2, <1>3, <1>5 DEF f, EolFrame
<1>7. EolTries(s, 1)'
  <2>1. (Append(Over(7, EolFrame(s, 1)), FrameAt(EolRules[1], FALSE, s, 1)))'
          = Append(Over(7, EolFrame(s, 1)), FrameAt(EolRules[1], FALSE, s, 1))
    BY DEF Over, EolFrame, EolRules, FrameAt, Root
  <2>2. ~(1 > 1)
    OBVIOUS
  <2> HIDE DEF f
  <2> QED
    BY <1>4, <1>5, <1>6, <2>1, <2>2 DEF EolTries
<1>8. Place(6, s)'
  BY <1>1, <1>7 DEF Place, InEol
<1> QED
  BY <1>5, <1>8, Stays

(* The four alternatives begin.                                             *)
LEMMA AtEof ==
  ASSUME NEW c, NEW b, Now(6, c, b), NEW s, s = Stop(6, c, b), EolTries(s, 1)
  PROVE  Goes
<1> DEFINE e == EolFrame(s, 1)
           f == FrameAt("eof", FALSE, s, 1)
<1>1. s \in Nat /\ s \in 1..(Len(line) + 1) /\ Step /\ 1 \in 1..4 /\ Len(line) \in Nat
  BY EolNow
<1>2. /\ e \in Frames /\ Grammar[e.rule].op = "sor" /\ Over(7, e) \in Seq(Frames)
      /\ Append(<< >>, Root(7)) \in Seq(Frames)
      /\ Over(7, e) = Append(Append(<< >>, Root(7)), e)
  <2>1. e \in Frames /\ Grammar[e.rule].op = "sor"
    BY <1>1, EolFrames
  <2> HIDE DEF e
  <2> QED
    BY <2>1, EolRoot
<1>3. f \in Frames /\ f.must = FALSE /\ f.mark = s /\ Grammar[f.rule].op = "eof"
  BY <1>1, TriedFrames
<1>4. frames = Append(Over(7, e), f) /\ answer = "call" /\ pos = s
  <2>1. EolRules[1] = "eof"
    BY DEF EolRules
  <2> QED
    BY <2>1 DEF EolTries
<1> HIDE DEF e, f
<1>5. Return(Eof, pos) /\ Top = f /\ UNCHANGED << line, data, counted >>
  BY <1>1, <1>2, <1>3, <1>4, StepRuns DEF Step
<1>6. /\ frames' = Over(7, e) /\ pos' = s /\ outcome' = outcome
      /\ answer' = IF Eof THEN "matched" ELSE "failed"
  <2>1. Eof \in BOOLEAN
    BY DEF Eof
  <2> QED
    BY <1>2, <1>3, <1>4, <1>5, <2>1, DeepReturn
<1>7. EolEnds(s, 1)'
  BY <1>1, <1>4, <1>5, <1>6 DEF EolEnds, e, EolFrame, Eof, Eol
<1>8. Place(6, s)'
  BY <1>1, <1>7 DEF Place, InEol
<1> QED
  BY <1>3, <1>5, <1>6, <1>8, Stays

(* crlf begins with the carriage return.                                    *)
LEMMA AtCrlf ==
  ASSUME NEW c, NEW b, Now(6, c, b), NEW s, s = Stop(6, c, b), EolTries(s, 2)
  PROVE  Goes
<1> DEFINE e == EolFrame(s, 2)
           f == FrameAt("crlf", FALSE, s, 1)
<1>1. s \in Nat /\ Step /\ 2 \in 1..4 /\ 1 \in {1, 2}
  BY EolNow
<1>2. Over(7, e) \in Seq(Frames)
  BY <1>1, EolFrames, EolRoot
<1>3. /\ f \in Frames /\ f.rule = "crlf" /\ f.must = FALSE /\ f.mark = s
      /\ Grammar[f.rule].op = "seq" /\ Grammar[f.rule].rules[1] = "cr"
      /\ CrlfFrame(s, 1) = Append(Over(7, e), f)
  BY <1>1, CrlfFrames
<1>4. frames = Append(Over(7, e), f) /\ answer = "call" /\ pos = s /\ s <= Len(line)
  <2>1. EolRules[2] = "crlf"
    BY DEF EolRules
  <2> QED
    BY <2>1 DEF EolTries
<1> HIDE DEF e, f
<1>5. /\ frames' = Append(Append(Over(7, e), FrameAt(f.rule, f.must, f.mark, 1)),
                          FrameAt("cr", f.must, s, 1))
      /\ answer' = "call" /\ UNCHANGED << line, data, counted, pos, outcome >>
  BY <1>1, <1>2, <1>3, <1>4, FirstCall
<1>6. frames' = Append(CrlfFrame(s, 1), FrameAt("cr", FALSE, s, 1))
  BY <1>3, <1>5 DEF f
<1>7. CrTries(s)'
  BY <1>4, <1>5, <1>6 DEF CrTries, CrlfFrame, Over, EolFrame
<1>8. Place(6, s)'
  BY <1>7 DEF Place, InEol
<1> QED
  BY <1>5, <1>8, Stays

(* A line has no line feed; a carriage return is the end of it.             *)
LEMMA AtLf ==
  ASSUME NEW c, NEW b, Now(6, c, b), NEW s, s = Stop(6, c, b), NEW j \in {3, 4},
         EolTries(s, j)
  PROVE  Goes
<1> DEFINE r == IF j = 3 THEN "lf" ELSE "cr"
           e == EolFrame(s, j)
           f == FrameAt(r, FALSE, s, 1)
<1>1. s \in Nat /\ s \in 1..(Len(line) + 1) /\ Step /\ j \in 1..4 /\ line \in Seq(Chars)
  BY EolNow
<1>2. /\ e \in Frames /\ Grammar[e.rule].op = "sor"
      /\ Append(<< >>, Root(7)) \in Seq(Frames)
      /\ Over(7, e) = Append(Append(<< >>, Root(7)), e)
  <2>1. e \in Frames /\ Grammar[e.rule].op = "sor"
    BY <1>1, EolFrames
  <2> HIDE DEF e
  <2> QED
    BY <2>1, EolRoot
<1>3. r \in {"eof", "lf", "cr"} /\ r # "eof" /\ EolRules[j] = r
  BY DEF EolRules
<1>4. /\ f \in Frames /\ f.must = FALSE /\ f.mark = s
      /\ Grammar[f.rule].op = "one" /\ Grammar[f.rule].chars = {r}
  BY <1>1, <1>3, TriedFrames
<1>5. /\ frames = Append(Append(Append(<< >>, Root(7)), e), f) /\ answer = "call" /\ pos = s
      /\ s <= Len(line)
  <2>1. frames = Append(Over(7, e), f)
    BY <1>3 DEF EolTries
  <2>2. answer = "call" /\ pos = s /\ s <= Len(line)
    BY DEF EolTries
  <2> QED
    BY <1>2, <2>1, <2>2
<1> HIDE DEF e, f
<1>6. /\ UNCHANGED << line, data, counted >> /\ Top.mark = s
      /\ frames' = Append(Append(<< >>, Root(7)), e) /\ outcome' = outcome
      /\ line[s] = r => answer' = "matched"
      /\ line[s] # r => answer' = "failed" /\ pos' = s
  BY <1>1, <1>2, <1>4, <1>5, OneReturns
<1>7. line[s] # "lf"
  <2>1. line[s] \in Chars
    BY <1>1, <1>5
  <2> QED
    BY <2>1, DigitsApart
<1>8. Eol(line, s) <=> line[s] = "cr"
  BY <1>1, <1>5 DEF Eol, CharAt
<1>9. EolEnds(s, j)'
  <2>1. frames' = Over(7, EolFrame(s, j))
    BY <1>2, <1>6 DEF e
  <2>2. (Over(7, EolFrame(s, j)))' = Over(7, EolFrame(s, j))
    BY DEF Over, EolFrame
  <2> QED
    BY <1>1, <1>3, <1>5, <1>6, <1>7, <1>8, <2>1, <2>2 DEF EolEnds, Eol, CharAt
<1>10. Place(6, s)'
  BY <1>1, <1>9 DEF Place, InEol
<1> QED
  BY <1>6, <1>10, Stays

-----------------------------------------------------------------------------
(* The two characters of crlf.                                              *)
LEMMA AtCr ==
  ASSUME NEW c, NEW b, Now(6, c, b), NEW s, s = Stop(6, c, b), CrTries(s)
  PROVE  Goes
<1> DEFINE e == FrameAt("crlf", FALSE, s, 1)
           f == FrameAt("cr", FALSE, s, 1)
           u == Over(7, EolFrame(s, 2))
<1>1. s \in Nat /\ s \in 1..(Len(line) + 1) /\ Step /\ line \in Seq(Chars) /\ 2 \in 1..4
  BY EolNow
<1>2. u \in Seq(Frames)
  BY <1>1, EolFrames, EolRoot
<1>3. e \in Frames /\ Grammar[e.rule].op = "seq" /\ CrlfFrame(s, 1) = Append(u, e)
  BY <1>1, CrlfFrames
<1>4. /\ f \in Frames /\ f.must = FALSE /\ f.mark = s
      /\ Grammar[f.rule].op = "one" /\ Grammar[f.rule].chars = {"cr"}
  BY <1>1, TriedFrames
<1>5. frames = Append(Append(u, e), f) /\ answer = "call" /\ pos = s /\ s <= Len(line)
  BY <1>3 DEF CrTries
<1> HIDE DEF e, f, u
<1>6. /\ UNCHANGED << line, data, counted >> /\ Top.mark = s
      /\ frames' = CrlfFrame(s, 1) /\ outcome' = outcome
      /\ \/ answer' = "matched" /\ pos' = s + 1
         \/ answer' = "failed" /\ pos' = s
  BY <1>1, <1>2, <1>3, <1>4, <1>5, OneReturns
<1>7. (CrlfFrame(s, 1))' = CrlfFrame(s, 1)
  BY DEF CrlfFrame, Over, EolFrame
<1>8. CrlfEnds(s)'
  BY <1>5, <1>6, <1>7 DEF CrlfEnds
<1>9. Place(6, s)'
  BY <1>8 DEF Place, InEol
<1> QED
  BY <1>6, <1>9, Stays

(* There is no line feed after it.                                          *)
LEMMA AtLfOfCrlf ==
  ASSUME NEW c, NEW b, Now(6, c, b), NEW s, s = Stop(6, c, b), LfTries(s)
  PROVE  Goes
<1> DEFINE e == FrameAt("crlf", FALSE, s, 2)
           f == FrameAt("lf", FALSE, s + 1, 1)
           u == Over(7, EolFrame(s, 2))
<1>1. /\ s \in Nat /\ s \in 1..(Len(line) + 1) /\ Step /\ line \in Seq(Chars) /\ 2 \in 1..4
      /\ s + 1 \in Nat /\ Len(line) \in Nat
  BY EolNow
<1>2. u \in Seq(Frames)
  BY <1>1, EolFrames, EolRoot
<1>3. e \in Frames /\ Grammar[e.rule].op = "seq" /\ CrlfFrame(s, 2) = Append(u, e)
  BY <1>1, CrlfFrames
<1>4. /\ f \in Frames /\ f.must = FALSE /\ f.mark = s + 1
      /\ Grammar[f.rule].op = "one" /\ Grammar[f.rule].chars = {"lf"}
  BY <1>1, TriedFrames
<1>5. frames = Append(Append(u, e), f) /\ answer = "call" /\ pos = s + 1 /\ s <= Len(line)
  BY <1>3 DEF LfTries
<1> HIDE DEF e, f, u
<1>6. ~(pos <= Len(line) /\ line[pos] \in {"lf"})
  <2>1. pos <= Len(line) => line[pos] \in Chars
    BY <1>1, <1>5
  <2> QED
    BY <2>1, DigitsApart
<1>7. pos \in 1..(Len(line) + 1)
  BY <1>1, <1>5
<1>8. /\ UNCHANGED << line, data, counted >> /\ Top.mark = pos
      /\ frames' = CrlfFrame(s, 2) /\ outcome' = outcome /\ answer' = "failed" /\ pos' = pos
  BY <1>1, <1>2, <1>3, <1>4, <1>5, <1>6, <1>7, OneReturns
<1>9. (CrlfFrame(s, 2))' = CrlfFrame(s, 2)
  BY DEF CrlfFrame, Over, EolFrame
<1>10. CrlfEnds(s)'
  BY <1>5, <1>8, <1>9 DEF CrlfEnds
<1>11. Place(6, s)'
  BY <1>10 DEF Place, InEol
<1> QED
  BY <1>8, <1>11, Stays

(* crlf goes on after a carriage return; where it fails, it goes back to    *)
(* its mark, so that the alternatives after it begin there.                 *)
LEMMA AtCrlfEnds ==
  ASSUME NEW c, NEW b, Now(6, c, b), NEW s, s = Stop(6, c, b), CrlfEnds(s)
  PROVE  Goes
<1> DEFINE g == EolFrame(s, 2)
           u == Over(7, g)
<1>1. s \in Nat /\ Step /\ 2 \in 1..4 /\ s <= Len(line) /\ outcome = "parsing"
  BY EolNow DEF CrlfEnds
<1>2. /\ u \in Seq(Frames) /\ g \in Frames /\ u = Append(Append(<< >>, Root(7)), g)
      /\ Append(<< >>, Root(7)) \in Seq(Frames) /\ Grammar[g.rule].op = "sor"
  <2>1. g \in Frames /\ Grammar[g.rule].op = "sor"
    BY <1>1, EolFrames
  <2> HIDE DEF g
  <2> QED
    BY <2>1, EolRoot
<1>3. PICK i \in {1, 2} :
        /\ frames = CrlfFrame(s, i)
        /\ answer = "failed" \/ (answer = "matched" /\ i = 1 /\ pos = s + 1)
  <2>1. CASE frames = CrlfFrame(s, 1)
    <3>1. answer = "failed" \/ (answer = "matched" /\ 1 = 1 /\ pos = s + 1)
      BY DEF CrlfEnds
    <3> WITNESS 1 \in {1, 2}
    <3> QED
      BY <2>1, <3>1
  <2>2. CASE frames = CrlfFrame(s, 2) /\ answer = "failed"
    <3> WITNESS 2 \in {1, 2}
    <3> QED
      BY <2>2
  <2> QED
    BY <2>1, <2>2 DEF CrlfEnds
<1> DEFINE f == FrameAt("crlf", FALSE, s, i)
<1>4. /\ f \in Frames /\ f.rule = "crlf" /\ f.must = FALSE /\ f.mark = s /\ f.next = i
      /\ Grammar[f.rule].op = "seq" /\ Len(Grammar[f.rule].rules) = 2
      /\ Grammar[f.rule].rules[2] = "lf"
      /\ CrlfFrame(s, i) = Append(Over(7, EolFrame(s, 2)), f)
  <2>1. CrlfFrame(s, i) = Append(Over(7, EolFrame(s, 2)), f)
    BY DEF CrlfFrame
  <2>2. f \in Frames /\ f.rule = "crlf" /\ f.must = FALSE /\ f.mark = s /\ f.next = i
    <3>1. i \in Nat /\ "crlf" \in Rules /\ FALSE \in BOOLEAN
      BY DEF Rules
    <3> QED
      BY <1>1, <3>1 DEF FrameAt, Frames
  <2> HIDE DEF f
  <2>3. /\ Grammar[f.rule].op = "seq" /\ Len(Grammar[f.rule].rules) = 2
        /\ Grammar[f.rule].rules[2] = "lf"
    BY <2>2, GrammarIs
  <2> QED
    BY <2>1, <2>2, <2>3
<1> HIDE DEF f, u, g
<1>5. frames = Append(u, f)
  BY <1>3, <1>4 DEF u, g
<1>6. Sequence /\ Top = f /\ UNCHANGED << line, data, counted >>
  BY <1>1, <1>2, <1>3, <1>4, <1>5, StepRuns DEF Step
<1>7. CASE answer = "failed"
  <2>1. Return(FALSE, s)
    <3>1. ~Top.must /\ Len(Grammar[Top.rule].rules) # 1 /\ Top.mark = s
      BY <1>4, <1>6
    <3>2. Rollback = s
      BY <3>1 DEF Rollback
    <3> QED
      BY <1>6, <1>7, <3>2 DEF Sequence
  <2>2. /\ frames' = u /\ pos' = s /\ outcome' = outcome /\ answer' = "failed"
    BY <1>2, <1>4, <1>5, <2>1, DeepReturn
  <2>3. (Over(7, EolFrame(s, 2)))' = Over(7, EolFrame(s, 2))
    BY DEF Over, EolFrame
  <2>4. EolEnds(s, 2)'
    BY <1>1, <1>6, <2>2, <2>3 DEF EolEnds, u, g
  <2>5. Place(6, s)'
    BY <1>1, <2>4 DEF Place, InEol
  <2> QED
    BY <1>4, <1>6, <2>2, <2>5, Stays
<1>8. CASE answer # "failed"
  <2>1. i = 1 /\ pos = s + 1
    BY <1>3, <1>8
  <2>2. PICK n \in Nat : n = 2 /\ n > 1
    OBVIOUS
  <2>3. Call(n)
    <3>1. Top.next < Len(Grammar[Top.rule].rules) /\ Top.next + 1 = n
      BY <1>4, <1>6, <2>1, <2>2
    <3> QED
      BY <1>6, <1>8, <3>1 DEF Sequence
  <2>4. "seq" \in {"seq", "sor", "plus"}
    OBVIOUS
  <2>5. /\ frames' = Append(Append(u, FrameAt(f.rule, f.must, f.mark, n)),
                            FrameAt(Grammar[f.rule].rules[n], f.must, pos, 1))
        /\ answer' = "call" /\ UNCHANGED << pos, outcome >>
    BY <1>2, <1>4, <1>5, <2>2, <2>3, <2>4, NextCall
  <2>6. frames' = Append(CrlfFrame(s, 2), FrameAt("lf", FALSE, s + 1, 1))
    BY <1>4, <2>1, <2>2, <2>5 DEF CrlfFrame, u, g
  <2>7. (CrlfFrame(s, 2))' = CrlfFrame(s, 2)
    BY DEF CrlfFrame, Over, EolFrame
  <2>8. LfTries(s)'
    BY <1>1, <1>6, <2>1, <2>5, <2>6, <2>7 DEF LfTries
  <2>9. Place(6, s)'
    BY <2>8 DEF Place, InEol
  <2> QED
    BY <1>6, <2>5, <2>9, Stays
<1> QED
  BY <1>7, <1>8

(* eol hands on that an alternative has matched, tries the next one, or     *)
(* throws when there is none.                                               *)
LEMMA AtEolEnds ==
  ASSUME NEW c, NEW b, Now(6, c, b), NEW s, s = Stop(6, c, b), NEW j \in 1..4,
         EolEnds(s, j)
  PROVE  Goes
<1> DEFINE f == EolFrame(s, j)
<1>1. /\ s \in Nat /\ Step /\ outcome = "parsing" /\ s = b + 2 /\ c \in Nat /\ b \in Nat
      /\ DOMAIN data = Fields
  BY EolNow
<1>2. /\ f \in Frames /\ f.rule = "eol" /\ f.must = TRUE /\ f.mark = s /\ f.next = j
      /\ Grammar[f.rule].op = "sor" /\ Len(Grammar[f.rule].rules) = 4
  BY <1>1, EolFrames
<1>3. /\ Root(7) \in Frames /\ Append(<< >>, Root(7)) \in Seq(Frames)
      /\ Grammar[Root(7).rule].op = "seq" /\ << >> \in Seq(Frames)
      /\ Over(7, f) = Append(Append(<< >>, Root(7)), f)
  BY EolRoot
<1>4. /\ frames = Append(Append(<< >>, Root(7)), f)
      /\ \/ answer = "matched" /\ Eol(line, s)
         \/ answer = "failed" /\ pos = s /\ s <= Len(line) /\ (j = 4 => ~Eol(line, s))
  BY <1>3 DEF EolEnds
<1> HIDE DEF f
<1>5. Alternatives /\ Top = f /\ UNCHANGED << line, data, counted >>
  BY <1>1, <1>2, <1>3, <1>4, StepRuns DEF Step
<1>6. CASE answer = "matched"
  <2>1. Return(TRUE, pos)
    BY <1>5, <1>6 DEF Alternatives
  <2>2. /\ frames' = Append(<< >>, Root(7)) /\ outcome' = outcome /\ answer' = "matched"
    BY <1>2, <1>3, <1>4, <2>1, DeepReturn
  <2>3. Matched(6, c, b) /\ Eol(line, b + 2)
    BY <1>1, <1>4, <1>6 DEF Now
  <2>4. Matched(7, c, b)'
    BY <1>5, <2>3 DEF Matched
  <2>5. 6 \in 0..6 /\ 6 + 1 = 7 /\ ~(6 < 6)
    OBVIOUS
  <2> QED
    BY <1>1, <1>5, <2>2, <2>4, <2>5, Completes
<1>7. CASE answer = "failed" /\ j < 4
  <2>1. PICK n \in Nat : n = j + 1 /\ n > 1 /\ n \in 1..4
    BY <1>7
  <2>2. Call(n) /\ "sor" \in {"seq", "sor", "plus"}
    BY <1>2, <1>5, <1>7, <2>1 DEF Alternatives
  <2>3. /\ frames' = Append(Append(Append(<< >>, Root(7)), FrameAt(f.rule, f.must, f.mark, n)),
                            FrameAt(Grammar[f.rule].rules[n], FALSE, pos, 1))
        /\ answer' = "call" /\ UNCHANGED << pos, outcome >>
    BY <1>2, <1>3, <1>4, <2>1, <2>2, NextCall
  <2>4. Grammar[f.rule].rules[n] = EolRules[n]
    <3>1. Grammar[EolFrame(s, n).rule].rules[n] = EolRules[n] /\ EolFrame(s, n).rule = "eol"
      BY <1>1, <2>1, EolFrames
    <3> QED
      BY <1>2, <3>1
  <2>5. FrameAt(f.rule, f.must, f.mark, n) = EolFrame(s, n)
    BY <1>2 DEF EolFrame
  <2>6. Over(7, EolFrame(s, n)) = Append(Append(<< >>, Root(7)), EolFrame(s, n))
    BY EolRoot
  <2>7. frames' = Append(Over(7, EolFrame(s, n)), FrameAt(EolRules[n], FALSE, s, 1))
    BY <1>4, <1>7, <2>3, <2>4, <2>5, <2>6
  <2>8. (Append(Over(7, EolFrame(s, n)), FrameAt(EolRules[n], FALSE, s, 1)))'
          = Append(Over(7, EolFrame(s, n)), FrameAt(EolRules[n], FALSE, s, 1))
    BY DEF Over, EolFrame, EolRules, FrameAt, Root
  <2>9. EolTries(s, n)'
    BY <1>4, <1>5, <1>7, <2>3, <2>7, <2>8 DEF EolTries
  <2>10. Place(6, s)'
    BY <2>1, <2>9 DEF Place, InEol
  <2> QED
    BY <1>5, <2>3, <2>10, Stays
<1>8. CASE answer = "failed" /\ j = 4
  <2>1. Return(FALSE, pos)
    <3>1. Top.next = 4 /\ Len(Grammar[Top.rule].rules) = 4
      BY <1>2, <1>5, <1>8
    <3>2. ~(Top.next < Len(Grammar[Top.rule].rules))
      BY <3>1
    <3> QED
      BY <1>5, <1>8, <3>2 DEF Alternatives
  <2>2. outcome' = "threw" /\ frames' = << >>
    BY <1>2, <1>3, <1>4, <2>1, DeepReturn
  <2>3. ~Eol(line, b + 2) /\ 6 \in 6..7
    BY <1>1, <1>4, <1>8
  <2> QED
    BY <1>5, <2>2, <2>3, EndsLate
<1> QED
  BY <1>4, <1>6, <1>7, <1>8

-----------------------------------------------------------------------------
(* read_statsd_line begins, calls its next rule, or returns.                *)
LEMMA AtBetween ==
  ASSUME NEW k, NEW c, NEW b, Now(k, c, b), NEW s, s = Stop(k, c, b), Between(k, s)
  PROVE  Goes
<1> DEFINE rules == Grammar["read_statsd_line"].rules
<1>1. /\ Step /\ outcome = "parsing" /\ k \in 0..7 /\ c \in Nat /\ b \in Nat
      /\ line \in Seq(Chars) /\ << >> \in Seq(Frames)
  BY FramesAre DEF Now
<1>2. CASE k = 0
  <2>1. Root(1) \in Frames /\ Grammar[Root(1).rule].op = "seq" /\ Root(1).rule = "read_statsd_line"
        /\ Root(1).must = TRUE /\ Root(1).mark = 1
    BY RootIs
  <2>2. frames = Append(<< >>, Root(1)) /\ answer = "call" /\ pos = 1 /\ s = 1
    BY <1>2 DEF Between, Stop
  <2>3. /\ frames' = Append(Append(<< >>, FrameAt("read_statsd_line", TRUE, 1, 1)),
                            FrameAt("set_name", TRUE, 1, 1))
        /\ answer' = "call" /\ UNCHANGED << line, data, counted, pos, outcome >>
    <3>1. PICK w \in Seq(Frames) : w = << >>
      BY <1>1
    <3>2. PICK e \in Frames : e = Root(1)
      BY <2>1
    <3>3. /\ frames = Append(w, e) /\ Grammar[e.rule].op = "seq"
          /\ "seq" \in {"seq", "sor", "plus", "ifapply"}
      BY <2>1, <2>2, <3>1, <3>2
    <3>4. /\ frames' = Append(Append(w, FrameAt(e.rule, e.must, e.mark, 1)),
                              FrameAt(Grammar[e.rule].rules[1], e.must, pos, 1))
          /\ answer' = "call" /\ UNCHANGED << line, data, counted, pos, outcome >>
      BY <1>1, <2>2, <3>3, FirstCall
    <3>5. /\ Grammar[e.rule].rules[1] = "set_name" /\ e.rule = "read_statsd_line"
          /\ e.must = TRUE /\ e.mark = 1
      BY <2>1, <3>2, GrammarIs
    <3> QED
      BY <2>2, <3>1, <3>4, <3>5
  <2>4. PartBegins(0, 1)'
    BY <2>2, <2>3 DEF PartBegins, Over, Root, PartRule
  <2>5. Place(0, 1)'
    BY <2>4 DEF Place, InPart
  <2> QED
    BY <1>2, <2>2, <2>3, <2>5, Stays
<1>3. CASE k \in 1..6
  <2>1. PICK n \in Nat : n = k + 1 /\ n > 1
    BY <1>3
  <2>2. k \in Nat
    BY <1>3
  <2>3. /\ Root(k) \in Frames /\ Grammar[Root(k).rule].op = "seq"
        /\ Root(k).rule = "read_statsd_line"
        /\ Root(k).must = TRUE /\ Root(k).mark = 1 /\ Root(k).next = k
    BY <2>2, RootIs
  <2>4. frames = Append(<< >>, Root(k)) /\ answer = "matched" /\ pos = s
    BY <1>3 DEF Between
  <2>5. Sequence /\ Top = Root(k) /\ UNCHANGED << line, data, counted >>
    BY <1>1, <2>3, <2>4, StepRuns DEF Step
  <2>6. Call(n)
    <3>1. Len(Grammar[Top.rule].rules) = 7 /\ Top.next = k
      BY <2>3, <2>5, GrammarIs
    <3>2. Top.next < Len(Grammar[Top.rule].rules) /\ Top.next + 1 = n
      BY <1>3, <2>1, <3>1
    <3> QED
      BY <2>4, <2>5, <3>2 DEF Sequence
  <2>7. "seq" \in {"seq", "sor", "plus"}
    OBVIOUS
  <2>8. /\ frames' = Append(Append(<< >>, FrameAt("read_statsd_line", TRUE, 1, n)),
                            FrameAt(rules[n], TRUE, s, 1))
        /\ answer' = "call" /\ pos' = s /\ outcome' = outcome
    <3>1. PICK w \in Seq(Frames) : w = << >>
      BY <1>1
    <3>2. PICK e \in Frames : e = Root(k)
      BY <2>3
    <3>3. frames = Append(w, e) /\ Grammar[e.rule].op = "seq" /\ e.rule = "read_statsd_line"
          /\ e.must = TRUE /\ e.mark = 1
      BY <2>3, <2>4, <3>1, <3>2
    <3>4. /\ frames' = Append(Append(w, FrameAt(e.rule, e.must, e.mark, n)),
                              FrameAt(Grammar[e.rule].rules[n], e.must, pos, 1))
          /\ answer' = "call" /\ UNCHANGED << pos, outcome >>
      BY <2>1, <2>6, <2>7, <3>3, NextCall
    <3> QED
      BY <2>4, <3>1, <3>3, <3>4
  <2>9. frames' = Over(k + 1, FrameAt(rules[k + 1], TRUE, s, 1))
    BY <2>1, <2>8 DEF Over, Root
  <2>10. Place(k, s)'
    <3>1. CASE k = 1
      <4>1. rules[k + 1] = "colon" /\ OneRule(k) = "colon"
        BY <3>1, GrammarIs DEF OneRule
      <4>2. InOne(k, s)'
        BY <2>8, <2>9, <3>1, <4>1 DEF InOne
      <4> QED
        BY <4>2 DEF Place
    <3>2. CASE k = 2
      <4>1. rules[k + 1] = "set_counter_increment" /\ PartRule(k) = "set_counter_increment"
        BY <3>2, GrammarIs DEF PartRule
      <4>2. PartBegins(k, s)'
        BY <2>8, <2>9, <3>2, <4>1 DEF PartBegins
      <4> QED
        BY <3>2, <4>2 DEF Place, InPart
    <3>3. CASE k = 3
      <4>1. rules[k + 1] = "bar" /\ OneRule(k) = "bar"
        BY <3>3, GrammarIs DEF OneRule
      <4>2. InOne(k, s)'
        BY <2>8, <2>9, <3>3, <4>1 DEF InOne
      <4> QED
        BY <4>2 DEF Place
    <3>4. CASE k = 4
      <4>1. rules[k + 1] = "set_type_char" /\ k + 1 = 5
        BY <3>4, GrammarIs
      <4>2. TypeBegins(s)'
        BY <2>8, <2>9, <4>1 DEF TypeBegins, TypeFrame
      <4> QED
        BY <3>4, <4>2 DEF Place, InType
    <3>5. CASE k = 5
      <4>1. rules[k + 1] = "increment_counter" /\ k + 1 = 6
        BY <3>5, GrammarIs
      <4>2. InApply(k, s)'
        BY <2>8, <2>9, <3>5, <4>1 DEF InApply
      <4> QED
        BY <4>2 DEF Place
    <3>6. CASE k = 6
      <4>1. rules[k + 1] = "eol" /\ k + 1 = 7
        BY <3>6, GrammarIs
      <4>2. EolBegins(s)'
        BY <2>8, <2>9, <4>1 DEF EolBegins, EolFrame
      <4> QED
        BY <3>6, <4>2 DEF Place, InEol
    <3>7. k = 1 \/ k = 2 \/ k = 3 \/ k = 4 \/ k = 5 \/ k = 6
      BY <1>3
    <3> QED
      BY <3>1, <3>2, <3>3, <3>4, <3>5, <3>6, <3>7
  <2> QED
    BY <2>5, <2>8, <2>10, Stays
<1>4. CASE k = 7
  <2>1. 7 \in Nat /\ 7 \in 6..7 /\ 7 # 0
    OBVIOUS
  <2>2. /\ Root(7) \in Frames /\ Grammar[Root(7).rule].op = "seq"
        /\ Root(7).rule = "read_statsd_line" /\ Root(7).next = 7
    BY <2>1, RootIs
  <2>3. frames = Append(<< >>, Root(7)) /\ answer = "matched"
    BY <1>4 DEF Between
  <2>4. Sequence /\ Top = Root(7) /\ UNCHANGED << line, data, counted >>
    BY <1>1, <2>2, <2>3, StepRuns DEF Step
  <2>5. Return(TRUE, pos)
    <3>1. Len(Grammar[Top.rule].rules) = 7 /\ Top.next = 7
      BY <2>2, <2>4, GrammarIs
    <3>2. ~(Top.next < Len(Grammar[Top.rule].rules))
      BY <3>1
    <3> QED
      BY <2>3, <2>4, <3>2 DEF Sequence
  <2>6. outcome' = "accepted" /\ frames' = << >>
    BY <2>2, <2>3, <2>5, RootReturn
  <2>7. Eol(line, b + 2)
    BY <1>4 DEF Now, Matched
  <2> QED
    BY <1>4, <2>1, <2>4, <2>6, <2>7, EndsLate
<1> QED
  BY <1>1, <1>2, <1>3, <1>4

(* Every step of the machine, wherever it stands.                           *)
LEMMA StepGoes ==
  ASSUME NEW k, NEW c, NEW b, Now(k, c, b), Place(k, Stop(k, c, b))
  PROVE  Goes
<1>1. PICK s : s = Stop(k, c, b)
  OBVIOUS
<1>2. CASE Between(k, s)
  BY <1>1, <1>2, AtBetween
<1>3. CASE InOne(k, s)
  BY <1>1, <1>3, AtOne
<1>4. CASE InPart(k, s)
  <2>1. k \in {0, 2}
    BY <1>4 DEF InPart
  <2>2. CASE PartBegins(k, s)
    BY <1>1, <2>1, <2>2, AtPartBegins
  <2>3. CASE PlusBegins(k, s)
    BY <1>1, <2>1, <2>3, AtPlusBegins
  <2>4. CASE FirstChar(k, s)
    BY <1>1, <2>1, <2>4, AtFirstChar
  <2>5. ASSUME NEW p \in Nat, PlusGoesOn(k, s, p)
        PROVE  Goes
    BY <1>1, <2>1, <2>5, AtPlusGoesOn
  <2>6. ASSUME NEW p \in Nat, NextChar(k, s, p)
        PROVE  Goes
    BY <1>1, <2>1, <2>6, AtNextChar
  <2>7. ASSUME NEW p \in Nat, PlusStops(k, s, p)
        PROVE  Goes
    BY <1>1, <2>1, <2>7, AtPlusStops
  <2>8. ASSUME NEW p \in Nat, PartEnds(k, s, p)
        PROVE  Goes
    BY <1>1, <2>1, <2>8, AtPartEnds
  <2> QED
    BY <1>4, <2>2, <2>3, <2>4, <2>5, <2>6, <2>7, <2>8 DEF InPart
<1>5. CASE InType(k, s)
  <2>1. k = 4 /\ Now(4, c, b) /\ s = Stop(4, c, b)
    BY <1>1, <1>5 DEF InType
  <2> QED
    BY <1>5, <2>1, AtTypeBegins, AtTypeChar, AtTypeEnds DEF InType
<1>6. CASE InApply(k, s)
  <2>1. k = 5 /\ Now(5, c, b) /\ s = Stop(5, c, b) /\ InApply(5, s)
    BY <1>1, <1>6 DEF InApply
  <2> QED
    BY <2>1, AtApply
<1>7. CASE InEol(k, s)
  <2>1. k = 6 /\ Now(6, c, b) /\ s = Stop(6, c, b)
    BY <1>1, <1>7 DEF InEol
  <2>2. CASE EolBegins(s)
    BY <2>1, <2>2, AtEolBegins
  <2>3. CASE CrTries(s)
    BY <2>1, <2>3, AtCr
  <2>4. CASE LfTries(s)
    BY <2>1, <2>4, AtLfOfCrlf
  <2>5. CASE CrlfEnds(s)
    BY <2>1, <2>5, AtCrlfEnds
  <2>6. ASSUME NEW j \in 1..4, EolTries(s, j)
        PROVE  Goes
    <3>1. CASE j = 1
      BY <2>1, <2>6, <3>1, AtEof
    <3>2. CASE j = 2
      BY <2>1, <2>6, <3>2, AtCrlf
    <3>3. CASE j \in {3, 4}
      BY <2>1, <2>6, <3>3, AtLf
    <3> QED
      BY <3>1, <3>2, <3>3
  <2>7. ASSUME NEW j \in 1..4, EolEnds(s, j)
        PROVE  Goes
    BY <2>1, <2>7, AtEolEnds
  <2> QED
    BY <1>7, <2>2, <2>3, <2>4, <2>5, <2>6, <2>7 DEF InEol
<1> QED
  BY <1>1, <1>2, <1>3, <1>4, <1>5, <1>6, <1>7 DEF Place

-----------------------------------------------------------------------------
(* The inductive invariant. *)
ParseOK ==
  /\ line \in Seq(Chars) /\ DOMAIN data = Fields
  /\ outcome = "reading" =>
       frames = << >> /\ counted = Nothing /\ pos = 1 /\ answer = "call"
  /\ outcome = "parsing" => InParse
  /\ outcome \notin {"reading", "parsing"} => Ended

(* A failing rule leaves the input where it began, the step of the property *)
(* FailureConsumesNothing.                                                  *)
FailsInPlace ==
  answer' = "failed" /\ Len(frames') < Len(frames) /\ frames' # << >> => pos' = Top.mark

(* It holds when the program waits for the line.                            *)
LEMMA ParseOKInit == Init => ParseOK
<1> SUFFICES ASSUME Init PROVE ParseOK
  OBVIOUS
<1>1. << >> \in Seq(Chars)
  OBVIOUS
<1>2. DOMAIN data = Fields
  BY DEF Init, Fields
<1> QED
  BY <1>1, <1>2 DEF Init, ParseOK

(* Reading a character, beginning, every step and the end keep it.          *)
LEMMA ParseOKNext ==
  ASSUME ParseOK, [Next]_vars
  PROVE  ParseOK' /\ (FailsInPlace \/ UNCHANGED machine)
<1>1. CASE UNCHANGED vars
  <2>1. UNCHANGED << line, data, counted, frames, pos, answer, outcome >>
    BY <1>1 DEF vars, machine
  <2>2. Ended' <=> Ended
    BY <2>1 DEF Ended, ResultAsStated, IncrementIsOfThisLine
  <2>3. ASSUME NEW k \in 0..7, NEW c \in Nat, NEW b \in Nat
        PROVE  /\ Matched(k, c, b) => Matched(k, c, b)'
               /\ Place(k, Stop(k, c, b)) => Place(k, Stop(k, c, b))'
    <3>1. PICK s : s = Stop(k, c, b)
      OBVIOUS
    <3>2. /\ Between(k, s) => Between(k, s)'
          /\ InOne(k, s) => InOne(k, s)'
          /\ InApply(k, s) => InApply(k, s)'
      BY <2>1 DEF Between, InOne, InApply
    <3>3. InType(k, s) => InType(k, s)'
      BY <2>1 DEF InType, TypeBegins, TypeChar, TypeEnds
    <3>4. InPart(k, s) => InPart(k, s)'
      BY <2>1 DEF InPart, PartBegins, PlusBegins, FirstChar, Taken, PlusGoesOn, NextChar,
                  PlusStops, PartEnds
    <3>5. InEol(k, s) => InEol(k, s)'
      BY <2>1 DEF InEol, EolBegins, EolTries, CrTries, LfTries, CrlfEnds, EolEnds
    <3>6. Matched(k, c, b) => Matched(k, c, b)'
      BY <2>1 DEF Matched
    <3>7. Place(k, s) => Place(k, s)'
      BY <3>2, <3>3, <3>4, <3>5 DEF Place
    <3> QED
      BY <3>1, <3>6, <3>7
  <2>4. InParse => InParse'
    BY <2>1, <2>3 DEF InParse
  <2> QED
    BY <2>1, <2>2, <2>4 DEF ParseOK, machine
<1>2. ASSUME NEW char \in Alphabet, Read(char)
      PROVE  ParseOK' /\ UNCHANGED machine
  <2>1. Append(line, char) \in Seq(Chars)
    BY ParserAssumption DEF ParseOK
  <2> QED
    BY <1>2, <2>1 DEF ParseOK, Read, machine
<1>3. CASE Begin
  <2>1. Matched(0, 0, 0)'
    BY <1>3 DEF Begin, ParseOK, Matched
  <2>2. frames' = Append(<< >>, Root(1))
    BY <1>3 DEF Begin, Frame, Root, FrameAt
  <2>3. Between(0, 1)' /\ Stop(0, 0, 0) = 1
    <3>1. answer' = "call" /\ pos' = 1
      BY <1>3 DEF Begin, ParseOK
    <3>2. Between(0, 1)'
      BY <2>2, <3>1 DEF Between
    <3>3. Stop(0, 0, 0) = 1
      BY DEF Stop
    <3> QED
      BY <3>2, <3>3
  <2>4. Place(0, Stop(0, 0, 0))'
    BY <2>3 DEF Place
  <2>5. InParse'
    BY <1>3, <2>1, <2>4 DEF Begin, InParse
  <2>6. ~(Len(frames') < Len(frames))
    <3>1. Len(frames) = 0
      BY <1>3 DEF Begin, ParseOK
    <3>2. Len(frames') \in Nat
      BY <2>2, RootIs
    <3> QED
      BY <3>1, <3>2
  <2> QED
    BY <1>3, <2>5, <2>6 DEF Begin, ParseOK, FailsInPlace
<1>4. CASE Step
  <2>1. PICK k \in 0..7, c \in Nat, b \in Nat : Matched(k, c, b) /\ Place(k, Stop(k, c, b))
    BY <1>4 DEF Step, ParseOK, InParse
  <2>2. Now(k, c, b)
    BY <1>4, <2>1 DEF Now, ParseOK, Step
  <2>3. Goes /\ line' \in Seq(Chars)
    BY <1>4, <2>1, <2>2, StepGoes DEF Step, ParseOK
  <2> QED
    BY <2>3 DEF Goes, ParseOK, FailsInPlace, InParse, Ended
<1> QED
  BY <1>1, <1>2, <1>3, <1>4 DEF Next, Done

-----------------------------------------------------------------------------
(* What the invariant says of the properties.                               *)
LEMMA ParseOKGives == ParseOK => ResultAsStated /\ IncrementIsOfThisLine
<1> SUFFICES ASSUME ParseOK PROVE ResultAsStated /\ IncrementIsOfThisLine
  OBVIOUS
<1>1. ResultAsStated
  BY DEF ParseOK, Ended, ResultAsStated
<1>2. CASE outcome \notin {"reading", "parsing"}
  BY <1>1, <1>2 DEF ParseOK, Ended
<1>3. CASE outcome = "reading"
  BY <1>1, <1>3 DEF ParseOK, IncrementIsOfThisLine
<1>4. CASE outcome = "parsing" /\ counted # Nothing
  <2>1. PICK k \in 0..7, c \in Nat, b \in Nat : Matched(k, c, b)
    BY <1>4 DEF ParseOK, InParse
  <2>2. k >= 6
    BY <1>4, <2>1 DEF Matched
  <2>3. /\ Increments(line, c, b)
        /\ counted = << SubSeq(line, 1, c - 1), SubSeq(line, c + 1, b - 1) >>
    BY <2>1, <2>2 DEF Matched, Increments
  <2>4. c \in Positions(line) /\ b \in Positions(line)
    BY <2>1, <2>3, IncrementsPositions DEF ParseOK
  <2> QED
    BY <1>1, <2>3, <2>4 DEF IncrementIsOfThisLine
<1> QED
  BY <1>1, <1>2, <1>3, <1>4 DEF IncrementIsOfThisLine

(* It is an invariant of the specification.                                 *)
LEMMA ParseInvariant == Spec => []ParseOK
<1>1. ParseOK /\ [Next]_vars => ParseOK'
  BY ParseOKNext
<1> QED
  BY <1>1, ParseOKInit, PTL DEF Spec

(* The machine of rules, marks and exceptions computes what LineParser says *)
(* of the line: it ends in "accepted" or "threw" as Accepts tells, never in *)
(* the abort of increment_counter, and it has counted exactly the lines     *)
(* that Counts names.                                                       *)
THEOREM ParserComputesResult == Spec => []ResultAsStated
BY ParseInvariant, ParseOKGives, PTL

(* Although statsd_data is shared by all lines, what counter_increment() is *)
(* given was read from this one.                                            *)
THEOREM CounterGetsThisLine == Spec => []IncrementIsOfThisLine
BY ParseInvariant, ParseOKGives, PTL

(* A rule that fails and does not throw leaves the input where it began.    *)
THEOREM FailuresConsumeNothing == Spec => FailureConsumesNothing
<1>1. ParseOK /\ [Next]_vars
        => [answer' = "failed" /\ Len(frames') < Len(frames) /\ frames' # << >>
              => pos' = Top.mark]_machine
  BY ParseOKNext DEF FailsInPlace
<1> QED
  BY <1>1, ParseInvariant, PTL DEF Spec, FailureConsumesNothing
=================================================================================
