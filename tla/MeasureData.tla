------------------------------- MODULE MeasureData -------------------------------
(***************************************************************************)
(* The data of a measure (src/lib/statsdcpp/measure.hh) and what its        *)
(* methods do to them.  Quantities are integers: of the doubles only order  *)
(* and sums matter.                                                         *)
(***************************************************************************)
EXTENDS Integers

(* The constructor; quantity's default value is 0. *)
NewMeasure == [min |-> 0, max |-> 0, sum_val |-> 0, cnt_val |-> 0]

Lesser(a, b)  == IF a < b THEN a ELSE b
Greater(a, b) == IF a < b THEN b ELSE a

(* Mutants of AddLocked: an interval does not start afresh; the maximum is   *)
(* that of the sums.                                                         *)
AddLockedPlain(m, v) ==
  [min |-> Lesser(m.min, v), max |-> Greater(m.max, v),
   sum_val |-> m.sum_val + v, cnt_val |-> m.cnt_val + 1]
AddLockedSums(m, v) ==
  [AddLockedPlain(m, v) EXCEPT !.max = Greater(m.max, m.sum_val + v)]

(* add_locked(v) *)
AddLocked(m, v) ==
  LET low  == IF m.cnt_val = 0 THEN v ELSE m.min
      high == IF m.cnt_val = 0 THEN v ELSE m.max
  IN [min |-> Lesser(low, v), max |-> Greater(high, v),
      sum_val |-> m.sum_val + v, cnt_val |-> m.cnt_val + 1]

(* Mutant of CarbonReset: the count is not reset. *)
CarbonResetSum(m) == [m EXCEPT !.sum_val = 0]

(* What serialize_carbon() leaves: min and max stay. *)
CarbonReset(m) == [m EXCEPT !.sum_val = 0, !.cnt_val = 0]
=============================================================================
