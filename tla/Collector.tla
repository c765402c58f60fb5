-------------------------------- MODULE Collector --------------------------------
(***************************************************************************)
(* A collector of the library src/lib/statsdcpp with its counters and its   *)
(* writer: collector.hh, counter.hh, base.hh, timeutils.hh, the serializers *)
(* and output/fd.hh.                                                        *)
(*                                                                          *)
(* Application threads create counters and increment them at any time.  One *)
(* thread calls flush(), which serializes the counters one after the other; *)
(* serialize_carbon() is three steps here, because increments may come      *)
(* between its reading of the clock, the exchange() that empties the        *)
(* counter, and the write.  Measures and correlators are in the same list   *)
(* and write to the same writer; modules Measure and CorrelatorThreads say  *)
(* what.  The list has no lock: what is appended while flush() walks it is  *)
(* visited or is not.                                                       *)
(***************************************************************************)
EXTENDS Integers, Sequences, Writer

CONSTANTS
  Counters,    \* the counters that may be generated
  Others,      \* the measures and correlators that may be generated
  Incs,        \* arguments of inc()
  Modulus,     \* _cnt counts modulo this number, 2^64 in the code
  Times,       \* readings of the clock
  SetBack,     \* may the clock be set back?
  MaxTotal     \* bound: sum of all the increments of one counter

ASSUME CollectorAssumption ==
  /\ Counters \cap Others = {}
  /\ Modulus \in Nat /\ Modulus > 1
  /\ Incs \subseteq 1..(Modulus - 1)
  /\ Times \subseteq Nat
  /\ SetBack \in BOOLEAN
  /\ MaxTotal \in Nat

VARIABLES
  serializer,    \* "carbon" or "debug", the template argument
  measurables,   \* _measurables, in the order of creation
  cnt,           \* _cnt of each counter
  begin_ts,      \* _begin_ts of each counter
  clock,
  flush,         \* where the flushing thread is
  pos,           \* the position of msrs_it in measurables
  end_ts,        \* the local variable of serialize_carbon()
  taken          \* what exchange(0) returned

(* History, per counter. *)
VARIABLES
  arrived,       \* sum of the increments
  reported,      \* sum of the counts written
  lost,          \* sum of the counts that were reset and not written, or wrapped
  times,         \* clock readings of the increments in cnt
  stamp          \* the time stamp of the last report

app     == << serializer, measurables, cnt, begin_ts >>
local   == << pos, end_ts, taken >>
history == << arrived, reported, lost, times, stamp >>
vars    == << app, clock, flush, local, fd, history >>

Zero == [c \in Counters |-> 0]

Generated == {measurables[k] : k \in 1..Len(measurables)}

Init ==
  /\ serializer \in {"carbon", "debug"}
  /\ measurables = << >>
  /\ cnt = Zero
  /\ clock \in Times
  /\ begin_ts = [c \in Counters |-> clock]
  /\ flush = "idle"
  /\ pos = 1 /\ end_ts = clock /\ taken = 0
  /\ fd \in {"open", "string"}
  /\ arrived = Zero /\ reported = Zero /\ lost = Zero
  /\ times = [c \in Counters |-> {}]
  /\ stamp = [c \in Counters |-> clock]

(* generate_counter(): the constructor reads the clock, push_back() appends. *)
GenerateCounter(c) ==
  /\ c \notin Generated
  /\ measurables' = Append(measurables, c)
  /\ begin_ts' = [begin_ts EXCEPT ![c] = clock]
  /\ stamp' = [stamp EXCEPT ![c] = clock]
  /\ UNCHANGED << serializer, cnt, clock, flush, local, fd, arrived, reported,
                  lost, times >>

(* generate_measure() and generate_correlator() *)
GenerateOther(o) ==
  /\ o \notin Generated
  /\ measurables' = Append(measurables, o)
  /\ UNCHANGED << serializer, cnt, begin_ts, clock, flush, local, fd, history >>

(* inc(n), an atomic addition of unsigned numbers. *)
Inc(c, n) ==
  /\ c \in Generated
  /\ arrived[c] + n <= MaxTotal
  /\ cnt' = [cnt EXCEPT ![c] = (@ + n) % Modulus]
  /\ arrived' = [arrived EXCEPT ![c] = @ + n]
  /\ lost' = [lost EXCEPT ![c] = IF cnt[c] + n < Modulus THEN @ ELSE @ + Modulus]
  /\ times' = [times EXCEPT ![c] = @ \cup {clock}]
  /\ UNCHANGED << serializer, measurables, begin_ts, clock, flush, local, fd,
                  reported, stamp >>

Tick ==
  /\ clock' \in Times \ {clock}
  /\ SetBack \/ clock' > clock
  /\ UNCHANGED << app, flush, local, fd, history >>

-----------------------------------------------------------------------------
(* Mutant of IntervalMiddle: begin is not added. *)
HalfInterval(begin, end) == (end - begin) \div 2

(* timeutils::interval_middle(): the division of durations truncates. *)
IntervalMiddle(begin, end) ==
  IF begin <= end THEN begin + (end - begin) \div 2
                  ELSE begin - (begin - end) \div 2

(* Where the serialization of a measurable begins. *)
First(x) ==
  IF x \in Others THEN "other" ELSE IF serializer = "carbon" THEN "stamp" ELSE "take"

(* Mutants of Visit: one counter too many; one too few. *)
VisitPastEnd(k) ==
  /\ pos' = k
  /\ flush' = IF k > Len(measurables) + 1 THEN "idle"
              ELSE IF k > Len(measurables) THEN "take" ELSE First(measurables[k])
VisitAllButLast(k) ==
  /\ pos' = k
  /\ flush' = IF k >= Len(measurables) THEN "idle" ELSE First(measurables[k])

(* The first step of serializing what is at position k, if there is anything.*)
Visit(k) ==
  /\ pos' = k
  /\ flush' = IF k > Len(measurables) THEN "idle" ELSE First(measurables[k])

(* flush() begins. *)
Flush ==
  /\ flush = "idle"
  /\ Visit(1)
  /\ UNCHANGED << app, clock, end_ts, taken, fd, history >>

(* serialize_carbon() reads the clock. *)
Stamp ==
  /\ flush = "stamp"
  /\ flush' = "take"
  /\ end_ts' = clock
  /\ UNCHANGED << app, clock, pos, taken, fd, history >>

(* Mutant of GetAndReset: a load instead of the exchange. *)
GetOnly ==
  /\ flush = "take"
  /\ flush' = "write"
  /\ taken' = cnt[measurables[pos]]
  /\ UNCHANGED << app, clock, pos, end_ts, fd, history >>

(* get_and_reset(): one atomic exchange. *)
GetAndReset ==
  LET c == measurables[pos]
  IN /\ flush = "take"
     /\ flush' = "write"
     /\ taken' = cnt[c]
     /\ cnt' = [cnt EXCEPT ![c] = 0]
     /\ times' = [times EXCEPT ![c] = {}]
     /\ UNCHANGED << serializer, measurables, begin_ts, clock, pos, end_ts, fd,
                     arrived, reported, lost, stamp >>

(* Mutant of NextInterval: the next interval begins after the write. *)
NextIntervalNow(c) ==
  /\ begin_ts' = [begin_ts EXCEPT ![c] = clock]
  /\ stamp' = [stamp EXCEPT ![c] = IntervalMiddle(begin_ts[c], end_ts)]

(* serialize_carbon() stamps its report with the middle of the interval; the *)
(* next one begins at its end.  serialize_debug() does neither.              *)
NextInterval(c) ==
  /\ begin_ts' = [begin_ts EXCEPT ![c] = end_ts]
  /\ stamp' = [stamp EXCEPT ![c] = IntervalMiddle(begin_ts[c], end_ts)]

(* The rest of serialize_carbon() or serialize_debug(); flush() goes on to  *)
(* the next counter.                                                        *)
Report(written) ==
  LET c == measurables[pos]
  IN /\ flush = "write"
     /\ Write(written)
     /\ IF written
        THEN reported' = [reported EXCEPT ![c] = @ + taken] /\ UNCHANGED lost
        ELSE lost' = [lost EXCEPT ![c] = @ + taken] /\ UNCHANGED reported
     /\ IF serializer = "carbon" THEN NextInterval(c) ELSE UNCHANGED << begin_ts, stamp >>
     /\ Visit(pos + 1)
     /\ UNCHANGED << serializer, measurables, cnt, clock, end_ts, taken, arrived,
                     times >>

(* A measure or a correlator writes its reports to the same writer. *)
SerializeOther ==
  /\ flush = "other"
  /\ \E written \in BOOLEAN : Write(written)
  /\ Visit(pos + 1)
  /\ UNCHANGED << app, clock, end_ts, taken, history >>

FlushNext ==
  \/ Flush \/ Stamp \/ GetAndReset \/ SerializeOther
  \/ \E written \in BOOLEAN : Report(written)

Next ==
  \/ \E c \in Counters : GenerateCounter(c)
  \/ \E o \in Others : GenerateOther(o)
  \/ \E c \in Counters, n \in Incs : Inc(c, n)
  \/ Tick
  \/ FlushNext

Spec == Init /\ [][Next]_vars

(* flush() is called again and again, and runs to its end. *)
FairSpec == Spec /\ WF_vars(FlushNext)

-----------------------------------------------------------------------------
(* Every variable has its type. *)
TypeOK ==
  /\ serializer \in {"carbon", "debug"}
  /\ measurables \in Seq(Counters \cup Others)
  /\ cnt \in [Counters -> 0..(Modulus - 1)]
  /\ begin_ts \in [Counters -> Times]
  /\ clock \in Times
  /\ flush \in {"idle", "stamp", "take", "write", "other"}
  /\ pos \in Nat \ {0}
  /\ flush # "idle" => pos <= Len(measurables)
  /\ end_ts \in Times
  /\ taken \in 0..(Modulus - 1)
  /\ fd \in Writers
  /\ arrived \in [Counters -> Nat]
  /\ reported \in [Counters -> Nat]
  /\ lost \in [Counters -> Nat]
  /\ times \in [Counters -> SUBSET Times]
  /\ stamp \in [Counters -> Nat]

(* What has arrived at each counter and not been reported: the counter, and *)
(* what flush() took from it and has not written.                           *)
Held ==
  [c \in Counters |->
     cnt[c] + IF flush = "write" /\ measurables[pos] = c THEN taken ELSE 0]

(* The counters as a ledger: each increment is reported at most once, even  *)
(* those that come while the counter is serialized; what is lost was taken  *)
(* out and not written, or wrapped around, but never lost by inc().         *)
L == INSTANCE Ledger WITH
       Names <- Counters, Amounts <- Incs, Losses <- {"overflow", "report"}, held <- Held

ImplementsLedger == L!Spec

(* Nothing that a counter holds is older than the interval it will be       *)
(* reported for, though increments come between the reading of the clock    *)
(* and the exchange(): their interval only begins too early, never too late.*)
HeldIsOfInterval ==
  \A c \in Counters : \A t \in times[c] : t >= begin_ts[c]

(* A failed write leaves no gap between reports: as long as the writer takes *)
(* reports nothing is missing from them but what wrapped around, whoever's  *)
(* write it was that failed.                                                *)
NoGap == fd # "closed" => \A c \in Counters : lost[c] % Modulus = 0

(* The time stamps of a counter's reports never go back.                    *)
StampsAdvance ==
  [][\A c \in Counters : stamp'[c] >= stamp[c]]_vars

(* What is counted is reported in some later flush, or the writer is closed.*)
CountedIsReported ==
  \A c \in Counters : \A k \in 1..MaxTotal :
    arrived[c] >= k ~> (reported[c] + lost[c] >= k)

(* README: "Numbers which are generated only from a small portion of the    *)
(* data (and it is even not known how many [...]) is worthless."  Nothing   *)
(* that was counted goes missing.                                           *)
NothingLost == \A c \in Counters : lost[c] = 0
=============================================================================
