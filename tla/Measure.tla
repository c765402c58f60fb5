--------------------------------- MODULE Measure ---------------------------------
(***************************************************************************)
(* The class measure of src/lib/statsdcpp/measure.hh, added to by any       *)
(* thread.  Every method holds _data_mutex from its first to its last       *)
(* statement.  add() is one step; serialize_debug() and serialize_carbon()  *)
(* are one step per statement that a clock or another thread could get in   *)
(* between.                                                                 *)
(***************************************************************************)
EXTENDS MeasureData, FiniteSetsExt

CONSTANTS
  Values,       \* the quantities that are added
  Times,        \* readings of the clock
  MaxAdds       \* bound: values added within one interval

ASSUME MeasureAssumption ==
  /\ Values \subseteq Int /\ IsFiniteSet(Values)
  /\ Times \subseteq Nat
  /\ MaxAdds \in Nat

VARIABLES
  data,         \* _min, _max, _sum_val, _cnt_val
  begin_ts,     \* _begin_ts
  clock,
  at,           \* the statement of the thread that serializes
  end_ts,       \* the local variable of serialize_carbon()
  added,        \* history: per value, how often it was added in this interval
  times         \* history: clock readings of these additions

vars == << data, begin_ts, clock, at, end_ts, added, times >>

NoneAdded == [v \in Values |-> 0]

Init ==
  /\ data = NewMeasure
  /\ clock \in Times
  /\ begin_ts = clock /\ end_ts = clock
  /\ at = "unlocked"
  /\ added = NoneAdded /\ times = {}

(* Mutant of MutexIsFree: add() does not lock. *)
MutexIsNotUsed == TRUE

MutexIsFree == at = "unlocked"

Add(v) ==
  /\ MutexIsFree
  /\ data.cnt_val < MaxAdds
  /\ data' = AddLocked(data, v)
  /\ added' = [added EXCEPT ![v] = @ + 1]
  /\ times' = times \cup {clock}
  /\ UNCHANGED << begin_ts, clock, at, end_ts >>

(* A serializing thread gets the mutex. *)
Lock(method) ==
  /\ MutexIsFree
  /\ at' = method
  /\ UNCHANGED << data, begin_ts, clock, end_ts, added, times >>

(* serialize_debug(): prints, and resets nothing. *)
SerializeDebug ==
  /\ at = "debug"
  /\ at' = "unlocked"
  /\ UNCHANGED << data, begin_ts, clock, end_ts, added, times >>

(* serialize_carbon(): now(). *)
Stamp ==
  /\ at = "carbon"
  /\ at' = "write"
  /\ end_ts' = clock
  /\ UNCHANGED << data, begin_ts, clock, added, times >>

(* serialize_carbon(): the report is written, the next interval begins. *)
SerializeCarbon ==
  /\ at = "write"
  /\ at' = "unlocked"
  /\ data' = CarbonReset(data)
  /\ begin_ts' = end_ts
  /\ added' = NoneAdded /\ times' = {}
  /\ UNCHANGED << clock, end_ts >>

Tick ==
  /\ clock' \in Times /\ clock' > clock
  /\ UNCHANGED << data, begin_ts, at, end_ts, added, times >>

Next ==
  \/ \E v \in Values : Add(v)
  \/ \E method \in {"debug", "carbon"} : Lock(method)
  \/ SerializeDebug \/ Stamp \/ SerializeCarbon
  \/ Tick

Spec == Init /\ [][Next]_vars

-----------------------------------------------------------------------------
(* Every variable has its type. *)
TypeOK ==
  /\ data \in [min : Values \cup {0}, max : Values \cup {0}, sum_val : Int,
               cnt_val : 0..MaxAdds]
  /\ begin_ts \in Times /\ clock \in Times /\ end_ts \in Times
  /\ at \in {"unlocked", "debug", "carbon", "write"}
  /\ added \in [Values -> 0..MaxAdds]
  /\ times \subseteq Times

(* The statistics m of the values that were added n[v] times each. *)
Summarizes(m, n) ==
  LET present == {v \in Values : n[v] > 0}
  IN /\ m.cnt_val = SumFunctionOnSet(n, Values)
     /\ m.sum_val = SumFunctionOnSet([v \in Values |-> n[v] * v], Values)
     /\ m.min = Min(present)
     /\ m.max = Max(present)

(* Each interval starts afresh, although min and max are never reset: what  *)
(* would be printed for an interval that saw a value is that interval's     *)
(* minimum, maximum, sum and count, whoever added and printed in between.   *)
ReportsAreExact == added # NoneAdded => Summarizes(data, added)

(* A report of serialize_carbon() is about values that were added between   *)
(* its begin and its end, neither before nor after: unlike a counter, a     *)
(* measure reads the clock while nobody can add.                            *)
ReportIsOfInterval ==
  \A t \in times : begin_ts <= t /\ (at = "write" => t <= end_ts)
=============================================================================
