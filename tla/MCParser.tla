------------------------------- MODULE MCParser -------------------------------
(* Small instance of Parser for TLC.  Its doubles have one digit before the   *)
(* point: a 1 with more digits behind it is too large, and a fraction that    *)
(* has no 1 before the point is zero or too close to it.                      *)
EXTENDS Parser

TooLarge(number) ==
  \E i \in 1..(Len(number) - 1) :
    number[i] = "1" /\ \A j \in 1..(i + 1) : number[j] # "."

TooSmall(number) ==
  \E dot, one \in 1..Len(number) :
    /\ dot < one /\ number[dot] = "." /\ number[one] = "1"
    /\ \A j \in 1..(dot - 1) : number[j] = "0"

MCOutOfRange ==
  {number \in BoundedSeq(NumberChars, MaxLength - 2) :
     TooLarge(number) \/ TooSmall(number)}
===============================================================================
