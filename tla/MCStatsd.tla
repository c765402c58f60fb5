------------------------------- MODULE MCStatsd -------------------------------
(* Small instances of Statsd for TLC: two counters, and lines that fail at   *)
(* each place where the parser can fail.  Two digits are a number too large. *)
EXTENDS Statsd, TLC

CONSTANTS h1, h2, h3

MCAddrs == {h1, h2, h3}
Symmetry == Permutations(MCAddrs)

MCOutOfRange == {<< "1", "1" >>}

Counter(name)  == << name, ":", "1", "|", "c" >>
NoNumber       == << "c", ":", ".", "|", "c" >>
TooLarge       == << "c", ":", "1", "1", "|", "c" >>
WrongType      == << "c", ":", "1", "|", "letter" >>
Trailing       == << "c", ":", "1", "|", "c", "other" >>
CarriageReturn == << "c", ":", ".", "1", "|", "c", "cr", "other" >>

MCNames == {<< "c" >>, << "letter" >>}
MCLines == {Counter("c"), Counter("letter"), << >>, NoNumber, TooLarge,
            WrongType, Trailing, CarriageReturn}
=============================================================================
