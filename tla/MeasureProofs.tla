----------------------------- MODULE MeasureProofs -----------------------------
(***************************************************************************)
(* Proofs of the safety properties of Measure, for every finite set of      *)
(* quantities, every clock and every number of calls.                       *)
(***************************************************************************)
EXTENDS Measure, SumProofs

-----------------------------------------------------------------------------
(* The values that were added in this interval, and all that was added. *)
Present == {v \in Values : added[v] > 0}
Total   == [v \in Values |-> added[v] * v]

(* ReportsAreExact is not inductive.  Min and max are right as soon as one   *)
(* value was added; that they start afresh with the first value of an       *)
(* interval rests on the count, which is zero just when nothing was added.  *)
Exact ==
  /\ data.cnt_val = SumFunctionOnSet(added, Values)
  /\ data.sum_val = SumFunctionOnSet(Total, Values)
  /\ Present # {} =>
       /\ data.min \in Present /\ \A v \in Present : data.min <= v
       /\ data.max \in Present /\ \A v \in Present : v <= data.max

(* The sums of what was added are sums of integers. *)
LEMMA SumsOfAdded ==
  ASSUME TypeOK
  PROVE  /\ added \in [Values -> Int] /\ Total \in [Values -> Int]
         /\ \A v \in Values : v \in Int /\ added[v] \in Nat /\ added[v] * v \in Int
         /\ IsFiniteSet(Values)
BY MeasureAssumption DEF TypeOK, Total, MeasureAssumption

(* A value that is added is added to both sums. *)
LEMMA SumsAfterAdd ==
  ASSUME TypeOK, Exact, NEW v \in Values,
         added' \in [Values -> Int], added'[v] = added[v] + 1,
         \A w \in Values : w # v => added'[w] = added[w]
  PROVE  /\ SumFunctionOnSet(added', Values) = data.cnt_val + 1
         /\ SumFunctionOnSet(Total', Values) = data.sum_val + v
<1>1. /\ v \in Int /\ added[v] \in Nat /\ added[v] * v \in Int /\ IsFiniteSet(Values)
      /\ added \in [Values -> Int] /\ Total \in [Values -> Int]
  BY SumsOfAdded
<1>2. SumFunctionOnSet(added', Values) = data.cnt_val + 1
  <2>1. SumFunctionOnSet(added', Values)
          = SumFunctionOnSet(added, Values) + (added'[v] - added[v])
    BY <1>1, SumChange
  <2> QED
    BY <1>1, <2>1 DEF Exact
<1>3. SumFunctionOnSet(Total', Values) = data.sum_val + v
  <2>1. Total'[v] = added[v] * v + v
    BY <1>1 DEF Total
  <2>2. \A w \in Values : added'[w] * w \in Int
    BY MeasureAssumption DEF MeasureAssumption
  <2>3. Total' \in [Values -> Int]
    BY <2>2 DEF Total
  <2>4. \A w \in Values : w # v => Total'[w] = Total[w]
    BY DEF Total
  <2>5. IsFiniteSet(Values) /\ Total \in [Values -> Int]
    BY <1>1
  <2>6. SumFunctionOnSet(Total', Values)
          = SumFunctionOnSet(Total, Values) + (Total'[v] - Total[v])
    BY <2>3, <2>4, <2>5, SumChange
  <2>7. Total'[v] - Total[v] = v
    BY <1>1, <2>1 DEF Total
  <2> QED
    BY <2>6, <2>7 DEF Exact
<1> QED
  BY <1>2, <1>3

(* Nothing was added just when the count is zero; no value was added more   *)
(* often than all of them.                                                  *)
LEMMA CountBounds ==
  ASSUME TypeOK, Exact
  PROVE  /\ \A v \in Values : added[v] <= data.cnt_val
         /\ data.cnt_val = 0 => Present = {}
         /\ data.cnt_val # 0 => Present # {}
<1> USE SumsOfAdded
<1>1. \A v \in Values : added[v] <= data.cnt_val
  BY SumBounds DEF Exact
<1>2. ASSUME Present = {} PROVE data.cnt_val = 0
  <2>1. \A v \in Values : added[v] = 0
    BY <1>2 DEF Present
  <2> QED
    BY <2>1, SumZero DEF Exact
<1> QED
  BY <1>1, <1>2 DEF Present

-----------------------------------------------------------------------------
(* The types, and the data as a function of what was added.                 *)
LEMMA ExactInductive == Spec => [](TypeOK /\ Exact)
<1>1. Init => TypeOK /\ Exact
  <2> SUFFICES ASSUME Init PROVE TypeOK /\ Exact
    OBVIOUS
  <2>1. TypeOK
    BY MeasureAssumption DEF Init, TypeOK, NewMeasure, NoneAdded, MeasureAssumption
  <2>2. \A v \in Values : added[v] = 0 /\ Total[v] = 0
    BY MeasureAssumption DEF Init, NoneAdded, Total, MeasureAssumption
  <2>3. /\ SumFunctionOnSet(added, Values) = 0
        /\ SumFunctionOnSet(Total, Values) = 0
    BY <2>1, <2>2, SumsOfAdded, SumZero
  <2>4. Present = {}
    BY <2>2 DEF Present
  <2> QED
    BY <2>1, <2>3, <2>4 DEF Init, NewMeasure, Exact
<1>2. TypeOK /\ Exact /\ [Next]_vars => TypeOK' /\ Exact'
  <2> SUFFICES ASSUME TypeOK, Exact, [Next]_vars PROVE TypeOK' /\ Exact'
    OBVIOUS
  <2>1. ASSUME NEW v \in Values, Add(v) PROVE TypeOK' /\ Exact'
    <3>1. /\ data' = AddLocked(data, v) /\ added' = [added EXCEPT ![v] = @ + 1]
          /\ data.cnt_val < MaxAdds /\ times' = times \cup {clock}
          /\ UNCHANGED << begin_ts, clock, at, end_ts >>
      BY <2>1 DEF Add
    <3>2. /\ v \in Int /\ MaxAdds \in Nat /\ data.cnt_val \in Nat /\ data.sum_val \in Int
          /\ data.min \in Values \cup {0} /\ data.max \in Values \cup {0}
          /\ \A w \in Values : w \in Int /\ added[w] \in Nat
      BY MeasureAssumption, SumsOfAdded DEF TypeOK, MeasureAssumption
    <3>3. /\ data'.cnt_val = data.cnt_val + 1
          /\ data'.sum_val = data.sum_val + v
          /\ data'.min = Lesser(IF data.cnt_val = 0 THEN v ELSE data.min, v)
          /\ data'.max = Greater(IF data.cnt_val = 0 THEN v ELSE data.max, v)
          /\ data' = [min |-> data'.min, max |-> data'.max, sum_val |-> data'.sum_val,
                      cnt_val |-> data'.cnt_val]
      BY <3>1 DEF AddLocked
    <3>4. data'.min \in Values \cup {0} /\ data'.max \in Values \cup {0}
      BY <3>2, <3>3 DEF Lesser, Greater
    <3>5. data' \in [min : Values \cup {0}, max : Values \cup {0}, sum_val : Int,
                     cnt_val : 0..MaxAdds]
      <4>1. data'.cnt_val \in 0..MaxAdds /\ data'.sum_val \in Int
        BY <3>1, <3>2, <3>3
      <4> QED
        BY <3>3, <3>4, <4>1
    <3>6. added' \in [Values -> 0..MaxAdds]
      <4>1. added[v] + 1 \in 0..MaxAdds
        BY <3>1, <3>2, CountBounds
      <4> QED
        BY <3>1, <4>1 DEF TypeOK
    <3>7. Present' = Present \cup {v}
      BY <3>1, <3>2 DEF Present, TypeOK
    <3>8. Present \subseteq Int /\ (data.cnt_val = 0 <=> Present = {})
      BY <3>2, CountBounds DEF Present
    <3>9. data'.min \in Present' /\ \A w \in Present' : data'.min <= w
      BY <3>2, <3>3, <3>7, <3>8 DEF Exact, Lesser
    <3>10. data'.max \in Present' /\ \A w \in Present' : w <= data'.max
      BY <3>2, <3>3, <3>7, <3>8 DEF Exact, Greater
    <3>11. Exact'
      <4>1. /\ added' \in [Values -> Int] /\ added'[v] = added[v] + 1
            /\ \A w \in Values : w # v => added'[w] = added[w]
        BY <3>1, <3>2 DEF TypeOK
      <4>2. /\ SumFunctionOnSet(added', Values) = data.cnt_val + 1
            /\ SumFunctionOnSet(Total', Values) = data.sum_val + v
        BY <4>1, SumsAfterAdd
      <4> QED
        BY <3>3, <3>9, <3>10, <4>2 DEF Exact
    <3> QED
      BY <3>1, <3>5, <3>6, <3>11 DEF TypeOK
  <2>2. CASE SerializeCarbon
    <3>1. /\ data' = CarbonReset(data) /\ added' = NoneAdded /\ times' = {}
          /\ begin_ts' = end_ts /\ at' = "unlocked" /\ UNCHANGED << clock, end_ts >>
      BY <2>2 DEF SerializeCarbon
    <3>2. TypeOK'
      <4>1. 0 \in 0..MaxAdds
        BY MeasureAssumption DEF MeasureAssumption
      <4>2. data' \in [min : Values \cup {0}, max : Values \cup {0}, sum_val : Int,
                       cnt_val : 0..MaxAdds]
        <5>1. data' = [min |-> data.min, max |-> data.max, sum_val |-> 0, cnt_val |-> 0]
          BY <3>1 DEF TypeOK, CarbonReset
        <5> QED
          BY <4>1, <5>1 DEF TypeOK
      <4>3. added' \in [Values -> 0..MaxAdds]
        BY <3>1, <4>1 DEF NoneAdded
      <4> QED
        BY <3>1, <4>2, <4>3 DEF TypeOK
    <3>3. \A v \in Values : added'[v] = 0 /\ Total'[v] = 0
      BY <3>1, MeasureAssumption DEF NoneAdded, Total, MeasureAssumption
    <3>4. added' \in [Values -> Int] /\ Total' \in [Values -> Int]
      BY <3>1, <3>3 DEF NoneAdded, Total
    <3>5. /\ SumFunctionOnSet(added', Values) = 0
          /\ SumFunctionOnSet(Total', Values) = 0
      BY <3>3, <3>4, SumsOfAdded, SumZero
    <3>6. Present' = {}
      BY <3>3 DEF Present
    <3>7. data'.cnt_val = 0 /\ data'.sum_val = 0
      BY <3>1 DEF CarbonReset, TypeOK
    <3> QED
      BY <3>2, <3>5, <3>6, <3>7 DEF Exact
  <2>3. CASE \/ \E method \in {"debug", "carbon"} : Lock(method)
             \/ SerializeDebug \/ Stamp \/ Tick \/ UNCHANGED vars
    <3>1. UNCHANGED << data, added, times, begin_ts >>
      BY <2>3 DEF Lock, SerializeDebug, Stamp, Tick, vars
    <3>2. TypeOK'
      BY <2>3, <3>1 DEF TypeOK, Lock, SerializeDebug, Stamp, Tick, vars
    <3>3. Exact'
      BY <3>1 DEF Exact, Total, Present
    <3> QED
      BY <3>2, <3>3
  <2> QED
    BY <2>1, <2>2, <2>3 DEF Next
<1> QED
  BY <1>1, <1>2, PTL DEF Spec

(* Every variable of a measure keeps its type.                              *)
THEOREM TypeCorrect == Spec => []TypeOK
BY ExactInductive, PTL

(* What a report would show is exactly the minimum, maximum, sum and count  *)
(* of what was added since the interval began.                              *)
THEOREM ExactReports == Spec => []ReportsAreExact
<1>1. TypeOK /\ Exact => ReportsAreExact
  <2> SUFFICES ASSUME TypeOK, Exact, added # NoneAdded PROVE Summarizes(data, added)
    BY DEF ReportsAreExact
  <2>1. Present # {}
    <3>1. PICK v \in Values : added[v] # 0
      BY DEF NoneAdded, TypeOK
    <3> QED
      BY <3>1, SumsOfAdded DEF Present
  <2>2. /\ data.min \in Present /\ \A v \in Present : data.min <= v
        /\ data.max \in Present /\ \A v \in Present : v <= data.max
        /\ Present \subseteq Int
    BY <2>1, SumsOfAdded DEF Exact, Present
  <2>3. data.min = Min(Present)
    <3>1. ASSUME NEW x \in Present, \A y \in Present : x <= y PROVE x = data.min
      <4>1. x <= data.min /\ data.min <= x /\ x \in Int /\ data.min \in Int
        BY <2>2, <3>1
      <4> QED
        BY <4>1
    <3> QED
      BY <2>2, <3>1 DEF Min
  <2>4. data.max = Max(Present)
    <3>1. ASSUME NEW x \in Present, \A y \in Present : x >= y PROVE x = data.max
      <4>1. x >= data.max /\ x <= data.max /\ x \in Int /\ data.max \in Int
        BY <2>2, <3>1
      <4> QED
        BY <4>1
    <3>2. \A y \in Present : data.max >= y
      BY <2>2
    <3> QED
      BY <2>2, <3>1, <3>2 DEF Max
  <2> QED
    BY <2>3, <2>4 DEF Exact, Summarizes, Present, Total
<1> QED
  BY <1>1, ExactInductive, PTL

-----------------------------------------------------------------------------
(* ReportIsOfInterval is not inductive: that nothing is added between the   *)
(* reading of the clock and the reset rests on the mutex, and that the next *)
(* interval begins no later than the clock shows on its own end.            *)
Stamped ==
  /\ begin_ts <= clock
  /\ \A t \in times : begin_ts <= t /\ t <= clock
  /\ at = "write" => end_ts <= clock /\ \A t \in times : t <= end_ts

(* What is printed for an interval was added in it.                         *)
THEOREM ReportsOfInterval == Spec => []ReportIsOfInterval
<1>1. Init => Stamped
  BY MeasureAssumption DEF Init, Stamped, MeasureAssumption
<1>2. TypeOK /\ Stamped /\ [Next]_vars => Stamped'
  <2> SUFFICES ASSUME TypeOK, Stamped, [Next]_vars PROVE Stamped'
    OBVIOUS
  <2>0. /\ begin_ts \in Nat /\ clock \in Nat /\ end_ts \in Nat /\ times \subseteq Nat
        /\ Times \subseteq Nat
    BY MeasureAssumption DEF TypeOK, MeasureAssumption
  <2>1. ASSUME NEW v \in Values, Add(v) PROVE Stamped'
    BY <2>0, <2>1 DEF Add, MutexIsFree, Stamped
  <2>2. ASSUME NEW method \in {"debug", "carbon"}, Lock(method) PROVE Stamped'
    BY <2>2 DEF Lock, Stamped
  <2>3. CASE SerializeDebug
    BY <2>3 DEF SerializeDebug, Stamped
  <2>4. CASE Stamp
    BY <2>0, <2>4 DEF Stamp, Stamped
  <2>5. CASE SerializeCarbon
    BY <2>5 DEF SerializeCarbon, Stamped
  <2>6. CASE Tick
    BY <2>0, <2>6 DEF Tick, Stamped
  <2>7. CASE UNCHANGED vars
    BY <2>7 DEF vars, Stamped
  <2> QED
    BY <2>1, <2>2, <2>3, <2>4, <2>5, <2>6, <2>7 DEF Next
<1>3. Stamped => ReportIsOfInterval
  BY DEF Stamped, ReportIsOfInterval
<1> QED
  BY <1>1, <1>2, <1>3, TypeCorrect, PTL DEF Spec
================================================================================
