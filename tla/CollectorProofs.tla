---------------------------- MODULE CollectorProofs ----------------------------
(***************************************************************************)
(* Proofs of the safety properties of Collector, for every set of counters, *)
(* increments and clock readings, every width of the counters and every     *)
(* number of calls.                                                         *)
(***************************************************************************)
EXTENDS Collector, TLAPS

-----------------------------------------------------------------------------
(* What / and % of a width are to each other. *)
LEMMA Division ==
  ASSUME NEW a \in Nat
  PROVE  /\ a \div Modulus \in Int
         /\ a % Modulus \in 0..(Modulus - 1)
         /\ a = Modulus * (a \div Modulus) + (a % Modulus)
BY CollectorAssumption DEF CollectorAssumption

(* A number has one remainder. *)
LEMMA OneRemainder ==
  ASSUME NEW q1 \in Int, NEW r1 \in 0..(Modulus - 1),
         NEW q2 \in Int, NEW r2 \in 0..(Modulus - 1),
         Modulus * q1 + r1 = Modulus * q2 + r2
  PROVE  r1 = r2
BY CollectorAssumption DEF CollectorAssumption

(* A whole modulus does not change the remainder. *)
LEMMA WholeModulus ==
  ASSUME NEW a \in Nat
  PROVE  (a + Modulus) % Modulus = a % Modulus
<1>1. Modulus \in Nat /\ a + Modulus \in Nat
  BY CollectorAssumption DEF CollectorAssumption
<1>2. a + Modulus = Modulus * (a \div Modulus + 1) + (a % Modulus)
  BY <1>1, Division
<1>3. a + Modulus = Modulus * ((a + Modulus) \div Modulus) + ((a + Modulus) % Modulus)
  BY <1>1, Division
<1>4. /\ a \div Modulus + 1 \in Int /\ a % Modulus \in 0..(Modulus - 1)
      /\ (a + Modulus) \div Modulus \in Int
      /\ (a + Modulus) % Modulus \in 0..(Modulus - 1)
  BY <1>1, Division
<1> QED
  BY <1>2, <1>3, <1>4, OneRemainder

(* A counter wraps around at most once when it is incremented. *)
LEMMA WrapsOnce ==
  ASSUME NEW a \in 0..(Modulus - 1), NEW n \in Incs
  PROVE  /\ n \in Nat
         /\ a + n < Modulus => (a + n) % Modulus = a + n
         /\ a + n >= Modulus => (a + n) % Modulus = a + n - Modulus
<1>1. Modulus \in Nat /\ Modulus > 1 /\ n \in 1..(Modulus - 1)
  BY CollectorAssumption DEF CollectorAssumption
<1>2. a + n \in Nat /\ a + n = Modulus * ((a + n) \div Modulus) + ((a + n) % Modulus)
  BY <1>1, Division
<1>3. ASSUME a + n < Modulus PROVE (a + n) % Modulus = a + n
  BY <1>1, <1>2, <1>3, Division, OneRemainder, a + n = Modulus * 0 + (a + n)
<1>4. ASSUME a + n >= Modulus PROVE (a + n) % Modulus = a + n - Modulus
  BY <1>1, <1>2, <1>4, Division, OneRemainder,
     a + n = Modulus * 1 + (a + n - Modulus)
<1> QED
  BY <1>1, <1>3, <1>4

-----------------------------------------------------------------------------
(* TypeOK is not inductive: taken is a count only because the three steps   *)
(* of a counter are taken at a counter.                                     *)
AtCounter == flush \in {"stamp", "take", "write"} => measurables[pos] \in Counters

(* What is appended to the list moves nothing that is in it. *)
LEMMA AppendFrame ==
  ASSUME TypeOK, NEW x \in Counters \cup Others,
         measurables' = Append(measurables, x)
  PROVE  /\ measurables' \in Seq(Counters \cup Others)
         /\ Len(measurables') = Len(measurables) + 1
         /\ \A k \in 1..Len(measurables) : measurables'[k] = measurables[k]
         /\ flush # "idle" => pos \in 1..Len(measurables)
         /\ flush # "idle" => measurables'[pos] = measurables[pos]
BY DEF TypeOK

(* Where flush() is after it went on to position k. *)
LEMMA VisitType ==
  ASSUME TypeOK, NEW k \in Nat \ {0}, Visit(k), UNCHANGED measurables
  PROVE  /\ flush' \in {"idle", "stamp", "take", "other"}
         /\ pos' = k
         /\ flush' # "idle" => pos' <= Len(measurables)
         /\ flush' # "idle" => measurables[pos'] \in Counters \cup Others
         /\ flush' \in {"stamp", "take"} => measurables[pos'] \in Counters
         /\ flush' = "take" => serializer # "carbon"
<1>1. ASSUME k <= Len(measurables) PROVE measurables[k] \in Counters \cup Others
  BY <1>1 DEF TypeOK
<1> QED
  BY <1>1 DEF Visit, First, TypeOK

(* The middle of an interval lies in it. *)
LEMMA MiddleIsBetween ==
  ASSUME NEW b \in Nat, NEW e \in Nat
  PROVE  /\ IntervalMiddle(b, e) \in Nat
         /\ b <= e => b <= IntervalMiddle(b, e) /\ IntervalMiddle(b, e) <= e
BY DEF IntervalMiddle

(* The writer stays a writer. *)
LEMMA WriteType ==
  ASSUME fd \in Writers, NEW written \in BOOLEAN, Write(written)
  PROVE  /\ fd' \in Writers
         /\ fd' # "closed" => fd # "closed" /\ written
BY DEF Write, Writers

-----------------------------------------------------------------------------
(* Every variable of a collector keeps its type, and flush() serializes      *)
(* counters as counters.                                                    *)
LEMMA TypeInductive == Spec => [](TypeOK /\ AtCounter)
<1>1. Init => TypeOK /\ AtCounter
  <2> SUFFICES ASSUME Init PROVE TypeOK /\ AtCounter
    OBVIOUS
  <2>1. Zero \in [Counters -> Nat] /\ Zero \in [Counters -> 0..(Modulus - 1)]
    BY CollectorAssumption DEF Zero, CollectorAssumption
  <2>2. measurables \in Seq(Counters \cup Others)
    BY DEF Init
  <2>3. begin_ts \in [Counters -> Times] /\ stamp \in [Counters -> Nat]
    BY CollectorAssumption DEF Init, CollectorAssumption
  <2> QED
    BY <2>1, <2>2, <2>3, CollectorAssumption
       DEF Init, TypeOK, AtCounter, Writers, CollectorAssumption
<1>2. TypeOK /\ AtCounter /\ [Next]_vars => TypeOK' /\ AtCounter'
  <2> SUFFICES ASSUME TypeOK, AtCounter, [Next]_vars PROVE TypeOK' /\ AtCounter'
    OBVIOUS
  <2>1. ASSUME NEW c \in Counters, GenerateCounter(c) PROVE TypeOK' /\ AtCounter'
    <3>1. begin_ts' \in [Counters -> Times] /\ stamp' \in [Counters -> Nat]
      BY <2>1, CollectorAssumption DEF GenerateCounter, TypeOK, CollectorAssumption
    <3>2. /\ measurables' \in Seq(Counters \cup Others)
          /\ flush # "idle" => pos <= Len(measurables') /\ measurables'[pos] = measurables[pos]
      BY <2>1, AppendFrame DEF GenerateCounter, TypeOK
    <3> QED
      BY <2>1, <3>1, <3>2 DEF GenerateCounter, TypeOK, AtCounter, local
  <2>2. ASSUME NEW o \in Others, GenerateOther(o) PROVE TypeOK' /\ AtCounter'
    BY <2>2, AppendFrame DEF GenerateOther, TypeOK, AtCounter, local, history
  <2>3. ASSUME NEW c \in Counters, NEW n \in Incs, Inc(c, n) PROVE TypeOK' /\ AtCounter'
    <3>1. cnt[c] \in 0..(Modulus - 1) /\ n \in Nat /\ Modulus \in Nat
      BY WrapsOnce, CollectorAssumption DEF TypeOK, CollectorAssumption
    <3>2. (cnt[c] + n) % Modulus \in 0..(Modulus - 1)
      BY <3>1, Division
    <3>3. cnt' \in [Counters -> 0..(Modulus - 1)]
      BY <2>3, <3>2 DEF Inc, TypeOK
    <3>4. arrived' \in [Counters -> Nat] /\ lost' \in [Counters -> Nat]
      BY <2>3, <3>1 DEF Inc, TypeOK
    <3>5. times' \in [Counters -> SUBSET Times]
      BY <2>3 DEF Inc, TypeOK
    <3> QED
      BY <2>3, <3>3, <3>4, <3>5 DEF Inc, TypeOK, AtCounter, local
  <2>4. CASE Tick
    BY <2>4 DEF Tick, TypeOK, AtCounter, app, local, history
  <2>5. CASE Flush
    BY <2>5, VisitType DEF Flush, TypeOK, AtCounter, app, history
  <2>6. CASE Stamp
    BY <2>6 DEF Stamp, TypeOK, AtCounter, app, history
  <2>7. CASE GetAndReset
    <3>1. measurables[pos] \in Counters /\ 0 \in 0..(Modulus - 1)
      BY <2>7, CollectorAssumption DEF GetAndReset, AtCounter, CollectorAssumption
    <3> QED
      BY <2>7, <3>1 DEF GetAndReset, TypeOK, AtCounter
  <2>8. ASSUME NEW written \in BOOLEAN, Report(written) PROVE TypeOK' /\ AtCounter'
    <3>1. measurables[pos] \in Counters /\ fd' \in Writers
      BY <2>8, WriteType DEF Report, AtCounter, TypeOK
    <3>2. reported' \in [Counters -> Nat] /\ lost' \in [Counters -> Nat]
      <4>1. taken \in Nat
        BY CollectorAssumption DEF TypeOK, CollectorAssumption
      <4>2. \A c \in Counters : reported[c] + taken \in Nat /\ lost[c] + taken \in Nat
        BY <4>1 DEF TypeOK
      <4>3. CASE written
        BY <2>8, <3>1, <4>2, <4>3 DEF Report, TypeOK
      <4>4. CASE ~written
        BY <2>8, <3>1, <4>2, <4>4 DEF Report, TypeOK
      <4> QED
        BY <4>3, <4>4
    <3>3. begin_ts' \in [Counters -> Times] /\ stamp' \in [Counters -> Nat]
      <4>1. begin_ts[measurables[pos]] \in Nat /\ end_ts \in Nat
        BY <3>1, CollectorAssumption DEF TypeOK, CollectorAssumption
      <4>2. IntervalMiddle(begin_ts[measurables[pos]], end_ts) \in Nat
        BY <4>1, MiddleIsBetween
      <4> QED
        BY <2>8, <3>1, <4>2 DEF Report, NextInterval, TypeOK
    <3> QED
      BY <2>8, <3>1, <3>2, <3>3, VisitType, pos + 1 \in Nat \ {0}
         DEF Report, TypeOK, AtCounter
  <2>9. CASE SerializeOther
    <3>1. fd' \in Writers
      BY <2>9, WriteType DEF SerializeOther, TypeOK
    <3> QED
      BY <2>9, <3>1, VisitType, pos + 1 \in Nat \ {0}
         DEF SerializeOther, TypeOK, AtCounter, app, history
  <2>10. CASE UNCHANGED vars
    BY <2>10 DEF vars, TypeOK, AtCounter, app, local, history
  <2> QED
    BY <2>1, <2>2, <2>3, <2>4, <2>5, <2>6, <2>7, <2>8, <2>9, <2>10
       DEF Next, FlushNext
<1> QED
  BY <1>1, <1>2, PTL DEF Spec

(* Every variable of a collector keeps its type.                            *)
THEOREM TypeCorrect == Spec => []TypeOK
BY TypeInductive, PTL

-----------------------------------------------------------------------------
(* As long as the writer takes reports, nothing is missing from them but    *)
(* whole moduli: a write that fails closes the writer.                      *)
THEOREM FailedWriteCloses == Spec => []NoGap
<1>1. Init => NoGap
  <2>1. 0 % Modulus = 0
    BY CollectorAssumption DEF CollectorAssumption
  <2> QED
    BY <2>1 DEF Init, NoGap, Zero
<1>2. TypeOK /\ NoGap /\ [Next]_vars => NoGap'
  <2> SUFFICES ASSUME TypeOK, NoGap, [Next]_vars, fd' # "closed", NEW d \in Counters
               PROVE  lost'[d] % Modulus = 0
    BY DEF NoGap
  <2>1. ASSUME NEW c \in Counters, NEW n \in Incs, Inc(c, n)
        PROVE  lost'[d] % Modulus = 0
    <3>1. lost[d] % Modulus = 0 /\ lost[d] \in Nat
      BY <2>1 DEF Inc, NoGap, TypeOK
    <3>2. lost'[d] = lost[d] \/ lost'[d] = lost[d] + Modulus
      BY <2>1 DEF Inc, TypeOK
    <3> QED
      BY <3>1, <3>2, WholeModulus
  <2>2. ASSUME NEW written \in BOOLEAN, Report(written)
        PROVE  lost'[d] % Modulus = 0
    <3>1. written /\ fd # "closed"
      BY <2>2, WriteType DEF Report, TypeOK
    <3> QED
      BY <2>2, <3>1 DEF Report, NoGap
  <2>3. CASE SerializeOther
    <3>1. fd # "closed"
      BY <2>3, WriteType DEF SerializeOther, TypeOK
    <3> QED
      BY <2>3, <3>1 DEF SerializeOther, NoGap, history
  <2>4. CASE \/ \E c \in Counters : GenerateCounter(c)
             \/ \E o \in Others : GenerateOther(o)
             \/ Tick \/ Flush \/ Stamp \/ GetAndReset
             \/ UNCHANGED vars
    BY <2>4 DEF GenerateCounter, GenerateOther, Tick, Flush, Stamp, GetAndReset,
                NoGap, vars, history
  <2> QED
    BY <2>1, <2>2, <2>3, <2>4 DEF Next, FlushNext
<1> QED
  BY <1>1, <1>2, TypeCorrect, PTL DEF Spec

-----------------------------------------------------------------------------
(* HeldIsOfInterval and StampsAdvance are not inductive.  The intervals of a *)
(* counter are in order if the readings of the clock are: its stamp, the    *)
(* beginning of its interval, the end that serialize_carbon() has read, the *)
(* clock; and after the exchange what is counted comes after that end.      *)
InOrder ==
  /\ \A c \in Counters : stamp[c] <= begin_ts[c] /\ begin_ts[c] <= clock
  /\ \A c \in Counters \ Generated : times[c] = {}
  /\ \A c \in Counters : \A t \in times[c] : begin_ts[c] <= t
  /\ serializer = "carbon" /\ flush \in {"take", "write"}
       => begin_ts[measurables[pos]] <= end_ts /\ end_ts <= clock
  /\ serializer = "carbon" /\ flush = "write"
       => \A t \in times[measurables[pos]] : end_ts <= t

(* A step of flush() changes neither the clock nor what has been generated; *)
(* what its statements read is a number.                                    *)
LEMMA ClockIsNumber ==
  ASSUME TypeOK
  PROVE  /\ clock \in Nat /\ end_ts \in Nat
         /\ \A c \in Counters : begin_ts[c] \in Nat /\ stamp[c] \in Nat
         /\ \A c \in Counters : \A t \in times[c] : t \in Nat
BY CollectorAssumption DEF TypeOK, CollectorAssumption

LEMMA InOrderInductive ==
  ASSUME ~SetBack
  PROVE  Spec => []InOrder
<1>1. Init => InOrder
  BY CollectorAssumption DEF Init, InOrder, CollectorAssumption
<1>2. TypeOK /\ AtCounter /\ InOrder /\ [Next]_vars => InOrder'
  <2> SUFFICES ASSUME TypeOK, AtCounter, InOrder, [Next]_vars PROVE InOrder'
    OBVIOUS
  <2> USE DEF InOrder
  <2>1. ASSUME NEW c \in Counters, GenerateCounter(c) PROVE InOrder'
    <3>1. /\ \A k \in 1..Len(measurables) : measurables'[k] = measurables[k]
          /\ Len(measurables') = Len(measurables) + 1 /\ measurables' \in Seq(Counters \cup Others)
          /\ flush # "idle" => pos \in 1..Len(measurables)
      BY <2>1, AppendFrame DEF GenerateCounter
    <3>2. Generated \subseteq Generated'
      BY <3>1 DEF Generated, TypeOK
    <3>3. begin_ts' = [begin_ts EXCEPT ![c] = clock] /\ stamp' = [stamp EXCEPT ![c] = clock]
      BY <2>1 DEF GenerateCounter
    <3>4. times[c] = {} /\ UNCHANGED << times, clock, flush, pos, end_ts, serializer >>
      BY <2>1 DEF GenerateCounter, local
    <3>5. flush # "idle" => measurables'[pos] = measurables[pos] /\ measurables[pos] # c
      BY <2>1, <3>1 DEF GenerateCounter, Generated
    <3>6. \A d \in Counters : /\ stamp'[d] <= begin_ts'[d] /\ begin_ts'[d] <= clock
                              /\ \A t \in times[d] : begin_ts'[d] <= t
      <4>1. clock \in Nat /\ clock <= clock
        BY ClockIsNumber
      <4> QED
        BY <3>3, <3>4, <4>1 DEF TypeOK
    <3>7. flush # "idle" => begin_ts'[measurables[pos]] = begin_ts[measurables[pos]]
      BY <3>3, <3>5 DEF TypeOK
    <3> QED
      BY <3>2, <3>4, <3>5, <3>6, <3>7
  <2>2. ASSUME NEW o \in Others, GenerateOther(o) PROVE InOrder'
    <3>1. /\ \A k \in 1..Len(measurables) : measurables'[k] = measurables[k]
          /\ Len(measurables') = Len(measurables) + 1 /\ measurables' \in Seq(Counters \cup Others)
          /\ flush # "idle" => measurables'[pos] = measurables[pos]
      BY <2>2, AppendFrame DEF GenerateOther
    <3>2. Generated \subseteq Generated'
      BY <3>1 DEF Generated, TypeOK
    <3> QED
      BY <2>2, <3>1, <3>2 DEF GenerateOther, local, history
  <2>3. ASSUME NEW c \in Counters, NEW n \in Incs, Inc(c, n) PROVE InOrder'
    <3>1. times' = [times EXCEPT ![c] = @ \cup {clock}] /\ c \in Generated
      BY <2>3 DEF Inc
    <3>2. \A d \in Counters : \A t \in times'[d] : t \in times[d] \/ t = clock
      BY <3>1 DEF TypeOK
    <3>3. \A d \in Counters \ Generated : times'[d] = {}
      BY <3>1 DEF TypeOK
    <3>4. UNCHANGED << stamp, begin_ts, clock, Generated, serializer, flush, measurables, pos, end_ts >>
      BY <2>3 DEF Inc, local, Generated
    <3> QED
      BY <3>2, <3>3, <3>4, AtCounter DEF AtCounter
  <2>4. CASE Tick
    <3>1. clock < clock' /\ clock' \in Nat
      BY <2>4, CollectorAssumption DEF Tick, CollectorAssumption
    <3>2. UNCHANGED << stamp, begin_ts, times, Generated, serializer, flush, measurables, pos, end_ts >>
      BY <2>4 DEF Tick, app, local, history, Generated
    <3> QED
      BY <3>1, <3>2, ClockIsNumber DEF AtCounter
  <2>5. CASE Flush
    <3>1. flush' = "take" => serializer # "carbon"
      BY <2>5, VisitType DEF Flush, app
    <3>2. flush' # "write" /\ UNCHANGED << stamp, begin_ts, clock, times, Generated, serializer >>
      BY <2>5, VisitType DEF Flush, app, history, Generated
    <3> QED
      BY <3>1, <3>2
  <2>6. CASE Stamp
    BY <2>6, ClockIsNumber DEF Stamp, app, history, AtCounter, Generated
  <2>7. CASE GetAndReset
    <3>1. measurables[pos] \in Counters
      BY <2>7 DEF GetAndReset, AtCounter
    <3>2. times' = [times EXCEPT ![measurables[pos]] = {}]
      BY <2>7 DEF GetAndReset
    <3>3. UNCHANGED << stamp, begin_ts, clock, Generated, serializer, measurables, pos, end_ts >>
      BY <2>7 DEF GetAndReset, Generated
    <3> QED
      BY <2>7, <3>1, <3>2, <3>3 DEF GetAndReset, TypeOK
  <2>8. ASSUME NEW written \in BOOLEAN, Report(written) PROVE InOrder'
    <3> DEFINE c == measurables[pos]
    <3>1. c \in Counters /\ flush = "write"
      BY <2>8 DEF Report, AtCounter
    <3>2. flush' # "write" /\ (flush' = "take" => serializer # "carbon")
      BY <2>8, VisitType, pos + 1 \in Nat \ {0} DEF Report, TypeOK
    <3>3. UNCHANGED << clock, times, Generated, serializer >>
      BY <2>8 DEF Report, Generated
    <3>4. CASE serializer = "carbon"
      <4>1. begin_ts' = [begin_ts EXCEPT ![c] = end_ts]
        BY <2>8, <3>4 DEF Report, NextInterval
      <4>2. stamp' = [stamp EXCEPT ![c] = IntervalMiddle(begin_ts[c], end_ts)]
        BY <2>8, <3>4 DEF Report, NextInterval
      <4>3. IntervalMiddle(begin_ts[c], end_ts) <= end_ts
        BY <3>1, <3>4, ClockIsNumber, MiddleIsBetween
      <4>4. \A d \in Counters : stamp'[d] <= begin_ts'[d] /\ begin_ts'[d] <= clock
        BY <3>1, <3>4, <4>1, <4>2, <4>3 DEF TypeOK
      <4>5. \A d \in Counters : \A t \in times[d] : begin_ts'[d] <= t
        BY <3>1, <3>4, <4>1 DEF TypeOK
      <4> QED
        BY <3>2, <3>3, <4>4, <4>5
    <3>5. CASE serializer # "carbon"
      BY <2>8, <3>2, <3>3, <3>5 DEF Report
    <3> QED
      BY <3>4, <3>5
  <2>9. CASE SerializeOther
    <3>1. flush' # "write" /\ (flush' = "take" => serializer # "carbon")
      BY <2>9, VisitType, pos + 1 \in Nat \ {0} DEF SerializeOther, TypeOK, app
    <3>2. UNCHANGED << stamp, begin_ts, clock, times, Generated, serializer >>
      BY <2>9 DEF SerializeOther, app, history, Generated
    <3> QED
      BY <3>1, <3>2
  <2>10. CASE UNCHANGED vars
    BY <2>10 DEF vars, app, local, history, Generated
  <2> QED
    BY <2>1, <2>2, <2>3, <2>4, <2>5, <2>6, <2>7, <2>8, <2>9, <2>10
       DEF Next, FlushNext
<1> QED
  BY <1>1, <1>2, TypeInductive, PTL DEF Spec

(* No increment is reported for an interval that began after it, if the     *)
(* clock is not set back.                                                   *)
THEOREM HeldInInterval ==
  ASSUME ~SetBack
  PROVE  Spec => []HeldIsOfInterval
<1>1. TypeOK /\ InOrder => HeldIsOfInterval
  BY ClockIsNumber DEF InOrder, HeldIsOfInterval
<1> QED
  BY <1>1, TypeCorrect, InOrderInductive, PTL

(* The time stamps of a counter's reports never go back, if the clock does  *)
(* not.                                                                     *)
THEOREM StampsInOrder ==
  ASSUME ~SetBack
  PROVE  Spec => StampsAdvance
<1>1. TypeOK /\ AtCounter /\ InOrder /\ [Next]_vars
        => [\A c \in Counters : stamp'[c] >= stamp[c]]_vars
  <2> SUFFICES ASSUME TypeOK, AtCounter, InOrder, Next, NEW c \in Counters
               PROVE  stamp'[c] >= stamp[c]
    BY DEF StampsAdvance
  <2>1. ASSUME NEW d \in Counters, GenerateCounter(d) PROVE stamp'[c] >= stamp[c]
    <3>1. /\ stamp[c] \in Nat /\ begin_ts[c] \in Nat /\ clock \in Nat
          /\ stamp[c] <= begin_ts[c] /\ begin_ts[c] <= clock
      BY ClockIsNumber DEF InOrder
    <3>2. stamp'[c] = stamp[c] \/ stamp'[c] = clock
      BY <2>1 DEF GenerateCounter, TypeOK
    <3> QED
      BY <3>1, <3>2
  <2>2. ASSUME NEW written \in BOOLEAN, Report(written) PROVE stamp'[c] >= stamp[c]
    <3> DEFINE d == measurables[pos]
               middle == IntervalMiddle(begin_ts[d], end_ts)
    <3>1. d \in Counters /\ flush = "write"
      BY <2>2 DEF Report, AtCounter
    <3>2. /\ stamp[d] \in Nat /\ begin_ts[d] \in Nat /\ end_ts \in Nat
          /\ stamp[c] \in Nat /\ stamp[d] <= begin_ts[d]
      BY <3>1, ClockIsNumber DEF InOrder
    <3>3. ASSUME serializer = "carbon" PROVE middle \in Nat /\ stamp[d] <= middle
      <4>1. begin_ts[d] <= end_ts
        BY <3>1, <3>3 DEF InOrder
      <4>2. middle \in Nat /\ begin_ts[d] <= middle
        BY <3>2, <4>1, MiddleIsBetween
      <4> HIDE DEF middle
      <4> QED
        BY <3>2, <4>2
    <3>4. CASE serializer = "carbon"
      <4>1. stamp' = [stamp EXCEPT ![d] = middle]
        BY <2>2, <3>4 DEF Report, NextInterval
      <4>2. stamp'[c] = stamp[c] \/ (c = d /\ stamp'[c] = middle)
        BY <4>1, <3>1 DEF TypeOK
      <4> HIDE DEF middle
      <4> QED
        BY <3>2, <3>3, <3>4, <4>2
    <3>5. CASE serializer # "carbon"
      BY <2>2, <3>2, <3>5 DEF Report
    <3> QED
      BY <3>4, <3>5
  <2>3. CASE UNCHANGED stamp
    BY <2>3, ClockIsNumber
  <2> QED
    BY <2>1, <2>2, <2>3 DEF Next, FlushNext, GenerateOther, Inc, Tick, Flush, Stamp,
       GetAndReset, SerializeOther, history
<1> QED
  BY <1>1, TypeInductive, InOrderInductive, PTL DEF Spec, StampsAdvance

-----------------------------------------------------------------------------
(* What is held for a counter are numbers. *)
LEMMA HeldType ==
  ASSUME TypeOK
  PROVE  /\ Held \in [Counters -> Nat]
         /\ \A c \in Counters : cnt[c] \in Nat
         /\ taken \in Nat
<1>1. taken \in Nat /\ \A c \in Counters : cnt[c] \in Nat
  BY CollectorAssumption DEF TypeOK, CollectorAssumption
<1> QED
  BY <1>1 DEF Held

(* The steps that neither count nor write hold what was held: the exchange  *)
(* moves it to the flushing thread, and the list only grows at its end.     *)
LEMMA HeldKept ==
  ASSUME TypeOK, AtCounter,
         \/ \E c \in Counters : GenerateCounter(c)
         \/ \E o \in Others : GenerateOther(o)
         \/ Tick \/ Flush \/ Stamp \/ GetAndReset \/ SerializeOther
         \/ UNCHANGED vars
  PROVE  Held' = Held
<1>1. ASSUME NEW x \in Counters \cup Others, measurables' = Append(measurables, x),
             UNCHANGED << cnt, flush, pos, taken >>
      PROVE  Held' = Held
  <2>1. flush = "write" => measurables'[pos] = measurables[pos]
    BY <1>1, AppendFrame
  <2> QED
    BY <1>1, <2>1 DEF Held
<1>2. ASSUME UNCHANGED << cnt, measurables, pos, taken >>,
             flush' = "write" <=> flush = "write"
      PROVE  Held' = Held
  BY <1>2 DEF Held
<1>3. CASE GetAndReset
  <2> SUFFICES ASSUME NEW c \in Counters PROVE Held'[c] = Held[c]
    BY DEF Held
  <2>1. /\ flush = "take" /\ flush' = "write" /\ UNCHANGED << measurables, pos >>
        /\ taken' = cnt[measurables[pos]]
        /\ cnt' = [cnt EXCEPT ![measurables[pos]] = 0]
    BY <1>3 DEF GetAndReset
  <2>2. cnt'[c] = IF c = measurables[pos] THEN 0 ELSE cnt[c]
    BY <2>1 DEF TypeOK
  <2> QED
    BY <2>1, <2>2, HeldType DEF Held
<1>4. CASE Flush \/ SerializeOther
  <2>1. flush' # "write" /\ flush # "write"
    BY <1>4, VisitType, 1 \in Nat \ {0}, pos + 1 \in Nat \ {0}
       DEF Flush, SerializeOther, app, TypeOK
  <2>2. UNCHANGED cnt
    BY <1>4 DEF Flush, SerializeOther, app
  <2> QED
    BY <2>1, <2>2 DEF Held
<1> QED
  BY <1>1, <1>2, <1>3, <1>4
     DEF GenerateCounter, GenerateOther, Tick, Stamp, vars, app, local

(* A change of one entry, as a sum of two maps. *)
LEMMA AddToOne ==
  ASSUME NEW f \in [Counters -> Nat], NEW c \in Counters, NEW n \in Int,
         NEW g, g = [f EXCEPT ![c] = f[c] + n]
  PROVE  g = L!Plus(f, L!One(c, n))
<1>1. \A d \in Counters : g[d] = f[d] + L!One(c, n)[d]
  BY \A d \in Counters : f[d] + 0 = f[d] DEF L!One
<1> QED
  BY <1>1 DEF L!Plus

(* The counters keep the ledger: every increment is held, reported once or  *)
(* lost, also those that come between the steps of serialize_carbon().      *)
THEOREM KeepsLedger == Spec => ImplementsLedger
<1>1. Init => L!Init
  <2> SUFFICES ASSUME Init PROVE L!Init
    OBVIOUS
  <2>1. Held = [c \in Counters |-> 0]
    BY DEF Held, Init, Zero
  <2> QED
    BY <2>1 DEF Init, Zero, L!Init, L!Nothing
<1>2. TypeOK /\ AtCounter /\ [Next]_vars => [L!Next]_(L!ledger)
  <2> SUFFICES ASSUME TypeOK, AtCounter, [Next]_vars PROVE [L!Next]_(L!ledger)
    OBVIOUS
  <2>1. ASSUME NEW c \in Counters, NEW n \in Incs, Inc(c, n) PROVE L!Next
    <3>1. /\ cnt[c] \in 0..(Modulus - 1) /\ n \in Nat /\ Modulus \in Nat /\ Modulus > 0
          /\ cnt[c] + n < Modulus => (cnt[c] + n) % Modulus = cnt[c] + n
          /\ cnt[c] + n >= Modulus => (cnt[c] + n) % Modulus = cnt[c] + n - Modulus
      BY WrapsOnce, CollectorAssumption DEF TypeOK, CollectorAssumption
    <3>2. /\ cnt' = [cnt EXCEPT ![c] = (cnt[c] + n) % Modulus]
          /\ arrived' = [arrived EXCEPT ![c] = arrived[c] + n]
          /\ lost' = [lost EXCEPT ![c] = IF cnt[c] + n < Modulus THEN lost[c]
                                         ELSE lost[c] + Modulus]
          /\ UNCHANGED << measurables, flush, pos, taken, reported >>
      BY <2>1 DEF Inc, local
    <3>3. /\ Held \in [Counters -> Nat]
          /\ \A d \in Counters : cnt[d] \in Nat
          /\ taken \in Nat /\ arrived \in [Counters -> Nat] /\ lost \in [Counters -> Nat]
      BY HeldType DEF TypeOK
    <3>4. \A d \in Counters :
             Held'[d] = Held[d] + IF d = c THEN cnt'[c] - cnt[c] ELSE 0
      <4>1. \A d \in Counters : cnt'[d] \in Int /\ (d # c => cnt'[d] = cnt[d])
        BY <3>1, <3>2, <3>3 DEF TypeOK
      <4> QED
        BY <3>2, <3>3, <4>1 DEF Held
    <3>5. arrived' = L!Plus(arrived, L!One(c, n))
      <4>1. /\ arrived \in [Counters -> Nat] /\ n \in Int
            /\ arrived' = [arrived EXCEPT ![c] = arrived[c] + n]
        BY <3>1, <3>2, <3>3
      <4> QED
        BY <4>1, AddToOne, Zenon
    <3>6. Held[c] >= cnt[c]
      BY <3>3 DEF Held
    <3>7. CASE cnt[c] + n < Modulus
      <4>1. Held' = L!Plus(Held, L!One(c, n))
        <5>1. cnt'[c] - cnt[c] = n
          BY <3>1, <3>2, <3>7 DEF TypeOK
        <5>2. \A d \in Counters : Held'[d] = Held[d] + IF d = c THEN n ELSE 0
          BY <3>4, <5>1
        <5> QED
          BY <5>2 DEF Held, L!Plus, L!One
      <4>2. lost' = lost
        BY <3>2, <3>3, <3>7
      <4> QED
        BY <3>2, <3>5, <4>1, <4>2 DEF L!Next, L!Arrive
    <3>8. CASE cnt[c] + n >= Modulus
      <4>1. Held' = L!Plus(Held, L!One(c, n - Modulus))
        <5>1. cnt'[c] - cnt[c] = n - Modulus
          BY <3>1, <3>2, <3>8 DEF TypeOK
        <5>2. \A d \in Counters : Held'[d] = Held[d] + IF d = c THEN n - Modulus ELSE 0
          BY <3>4, <5>1
        <5> QED
          BY <5>2 DEF Held, L!Plus, L!One
      <4>2. lost' = L!Plus(lost, L!One(c, Modulus))
        <5>1. ~(cnt[c] + n < Modulus)
          BY <3>1, <3>8
        <5>2. lost' = [lost EXCEPT ![c] = lost[c] + Modulus]
          BY <3>2, <5>1, Zenon
        <5>3. lost \in [Counters -> Nat] /\ Modulus \in Int
          BY <3>1, <3>3
        <5> QED
          BY <5>2, <5>3, AddToOne, Zenon
      <4>3. Held[c] + n >= Modulus
        BY <3>1, <3>3, <3>6, <3>8
      <4> QED
        BY <3>1, <3>2, <3>5, <4>1, <4>2, <4>3 DEF L!Next, L!Overflow
    <3> QED
      BY <3>1, <3>7, <3>8
  <2>2. ASSUME NEW written \in BOOLEAN, Report(written) PROVE L!Next
    <3> DEFINE c == measurables[pos]
    <3>1. c \in Counters /\ flush = "write"
      BY <2>2 DEF Report, AtCounter
    <3>2. flush' # "write" /\ UNCHANGED << cnt, arrived >>
      BY <2>2, VisitType, pos + 1 \in Nat \ {0} DEF Report, TypeOK
    <3>3. Held \in [Counters -> Nat] /\ taken \in Nat /\ \A d \in Counters : cnt[d] \in Nat
      BY HeldType
    <3>4. \A d \in Counters : /\ Held'[d] = cnt[d]
                              /\ Held[d] = cnt[d] + IF d = c THEN taken ELSE 0
      BY <3>1, <3>2, <3>3 DEF Held
    <3>5. \A d \in Counters : /\ Held'[d] \in Nat /\ Held'[d] <= Held[d]
                              /\ Held[d] - Held'[d] = IF d = c THEN taken ELSE 0
      BY <3>3, <3>4
    <3>6. Held' \in [Counters -> Nat]
      BY <3>5 DEF Held
    <3>7. CASE written
      <4>1. reported' = [reported EXCEPT ![c] = reported[c] + taken] /\ UNCHANGED lost
        BY <2>2, <3>7 DEF Report
      <4>2. reported' = L!Plus(reported, L!One(c, taken))
        <5>1. reported \in [Counters -> Nat] /\ taken \in Int
          BY <3>3 DEF TypeOK
        <5> QED
          BY <3>1, <4>1, <5>1, AddToOne, Zenon
      <4>3. reported' = [d \in Counters |-> reported[d] + (Held[d] - Held'[d])]
        BY <3>5, <4>2 DEF L!Plus, L!One
      <4> QED
        BY <3>2, <3>5, <3>6, <4>1, <4>3 DEF L!Next, L!Report, L!Move
    <3>8. CASE ~written
      <4>1. lost' = [lost EXCEPT ![c] = lost[c] + taken] /\ UNCHANGED reported
        BY <2>2, <3>8 DEF Report
      <4>2. lost' = L!Plus(lost, L!One(c, taken))
        <5>1. lost \in [Counters -> Nat] /\ taken \in Int
          BY <3>3 DEF TypeOK
        <5> QED
          BY <3>1, <4>1, <5>1, AddToOne, Zenon
      <4>3. lost' = [d \in Counters |-> lost[d] + (Held[d] - Held'[d])]
        BY <3>5, <4>2 DEF L!Plus, L!One
      <4> QED
        BY <3>2, <3>5, <3>6, <4>1, <4>3 DEF L!Next, L!Discard, L!Move
    <3> QED
      BY <3>7, <3>8
  <2>3. ASSUME \/ \E c \in Counters : GenerateCounter(c)
               \/ \E o \in Others : GenerateOther(o)
               \/ Tick \/ Flush \/ Stamp \/ GetAndReset \/ SerializeOther
               \/ UNCHANGED vars
        PROVE  UNCHANGED L!ledger
    <3>1. Held' = Held
      BY <2>3, HeldKept
    <3>2. UNCHANGED << arrived, reported, lost >>
      BY <2>3 DEF GenerateCounter, GenerateOther, Tick, Flush, Stamp, GetAndReset,
                  SerializeOther, vars, history
    <3> QED
      BY <3>1, <3>2 DEF L!ledger
  <2> QED
    BY <2>1, <2>2, <2>3 DEF Next, FlushNext
<1> QED
  BY <1>1, <1>2, TypeInductive, PTL DEF Spec, ImplementsLedger, L!Spec
=============================================================================
