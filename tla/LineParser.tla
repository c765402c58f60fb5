------------------------------- MODULE LineParser -------------------------------
(***************************************************************************)
(* The line grammar of src/main.cc, read_statsd_line, as the vendored PEGTL *)
(* runs it: a repetition takes every character that matches and gives none  *)
(* back, an action runs as soon as its rule has matched, and any mismatch   *)
(* (and any std::stod that finds no number, or one that no double can hold) *)
(* is an exception.                                                         *)
(*                                                                          *)
(* A line is a sequence of character classes.  What tells lines apart is    *)
(* the class only: alnum splits into the type character c, the other letters*)
(* and the digits; the digits stay as they are, because std::stod looks at  *)
(* their values.  There is no line feed: std::getline removed it.           *)
(***************************************************************************)
EXTENDS Integers, Sequences

CONSTANTS
  Digits,        \* the digits that lines are made of
  OutOfRange     \* the numbers for which strtod() sets ERANGE: beyond the
                 \* largest double, or too close to zero

ASSUME LineParserAssumption ==
  /\ Digits \cap {"c", "letter", ".", ":", "|", "cr", "lf", "other"} = {}
  /\ OutOfRange \subseteq Seq(Digits \cup {"."})

Chars       == Digits \cup {"c", "letter", ".", ":", "|", "cr", "other"}
NameChars   == Digits \cup {"c", "letter", "."}
NumberChars == Digits \cup {"."}

CharAt(line, i, char) == i <= Len(line) /\ line[i] = char

(* plus< sor< ... > >, entered at position i, stops before position j: it   *)
(* took one character or more, all from S, and could take no other one.     *)
Takes(line, S, i, j) ==
  /\ i < j /\ j <= Len(line) + 1
  /\ \A k \in i..(j - 1) : line[k] \in S
  /\ j <= Len(line) => line[j] \notin S

(* The number a text of digits and dots begins with: it ends before the     *)
(* second dot.                                                              *)
LeadingNumber(text) ==
  LET Dots(k) == {i \in 1..k : text[i] = "."}
      k == CHOOSE k \in 0..Len(text) :
             /\ \A i, j \in Dots(k) : i = j
             /\ k < Len(text) => Dots(k) # {} /\ text[k + 1] = "."
  IN SubSeq(text, 1, k)

(* std::stod: a leading number, with at least one digit in its mantissa     *)
(* (else std::invalid_argument), and in the range of double (else           *)
(* std::out_of_range).  What follows that number in the text is ignored.    *)
Stod(text) ==
  /\ \/ text[1] \in Digits
     \/ text[1] = "." /\ Len(text) > 1 /\ text[2] \in Digits
  /\ LeadingNumber(text) \notin OutOfRange

(* Mutant of Increments: a conversion that takes any text for a number. *)
IncrementsAnyNumber(line, colon, bar) ==
  /\ Takes(line, NameChars, 1, colon)
  /\ CharAt(line, colon, ":")
  /\ Takes(line, NumberChars, colon + 1, bar)
  /\ CharAt(line, bar, "|")
  /\ CharAt(line, bar + 1, "c")

(* The name ends before the colon at position colon, the number before the  *)
(* bar at position bar, and apply< increment_counter > runs after the type. *)
Increments(line, colon, bar) ==
  /\ Takes(line, NameChars, 1, colon)
  /\ CharAt(line, colon, ":")
  /\ Takes(line, NumberChars, colon + 1, bar)
  /\ Stod(SubSeq(line, colon + 1, bar - 1))
  /\ CharAt(line, bar, "|")
  /\ CharAt(line, bar + 1, "c")

(* eol: the end of the line, or a carriage return, whatever follows it.     *)
Eol(line, i) == i = Len(line) + 1 \/ CharAt(line, i, "cr")

Positions(line) == 1..(Len(line) + 1)

(* Mutant of Counts: increment_counter after eol. *)
CountsAfterEol(line) ==
  \E colon, bar \in Positions(line) :
    Increments(line, colon, bar) /\ Eol(line, bar + 2)

(* counter_increment() is called for the line. *)
Counts(line) == \E colon, bar \in Positions(line) : Increments(line, colon, bar)

(* basic_parse_string returns normally. *)
Accepts(line) ==
  \E colon, bar \in Positions(line) :
    Increments(line, colon, bar) /\ Eol(line, bar + 2)

(* statsd_data::name for a line that counts. *)
Name(line) ==
  LET colon == CHOOSE c \in Positions(line) :
                 \E bar \in Positions(line) : Increments(line, c, bar)
  IN SubSeq(line, 1, colon - 1)

-----------------------------------------------------------------------------
(* The comment on the grammar: ([:alpha:]|[:digit:]|.)+:([:digit:]|.)+|c    *)
DocumentedParts(line, name, number) ==
  /\ name # << >> /\ \A k \in 1..Len(name) : name[k] \in NameChars
  /\ number # << >> /\ \A k \in 1..Len(number) : number[k] \in NumberChars
  /\ line = name \o << ":" >> \o number \o << "|", "c" >>
=============================================================================
