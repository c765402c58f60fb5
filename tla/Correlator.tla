-------------------------------- MODULE Correlator --------------------------------
(***************************************************************************)
(* The class correlator of src/lib/statsdcpp/correlator.hh: it follows      *)
(* requests from checkpoint to checkpoint and keeps, per configured         *)
(* transition, a measure of the durations and a counter.                    *)
(*                                                                          *)
(* in(), seen(), out() and the serialize methods hold _data_mutex from      *)
(* their first to their last statement: one step each, of any thread        *)
(* (CorrelatorThreads has the single statements).  The measures and         *)
(* counters are reachable through the correlator only.                      *)
(***************************************************************************)
EXTENDS MeasureData, Functions, FiniteSets

CONSTANTS
  Uids,          \* requests
  Checkpoints,
  Transitions,   \* the configured pairs << from, to >>
  Times,         \* readings of the clock
  SetBack,       \* may the clock be set back?
  MaxCalls       \* bound: calls of seen() and out()

ASSUME CorrelatorAssumption ==
  /\ Transitions \subseteq Checkpoints \X Checkpoints /\ IsFiniteSet(Transitions)
  /\ Times \subseteq Int
  /\ SetBack \in BOOLEAN
  /\ MaxCalls \in Nat

VARIABLES
  uids,                      \* _uids: per known request, checkpoint and time
  duration,                  \* _times, duration: per transition a measure
  count,                     \* _times, count: per transition a counter
  seen_uid_not_found,        \* counters
  seen_checkpoint_not_found,
  clock                      \* the last reading

(* History. *)
VARIABLES
  calls,       \* calls of seen() and out()
  reported,    \* sum of the counts that were serialized, written or not
  entered,     \* per known request: when it became known
  debugged,    \* serialized since the last complete carbon format
  spent        \* per known request: the durations between its checkpoints

counters == << seen_uid_not_found, seen_checkpoint_not_found, count >>
journeys == << entered, spent >>
vars     == << uids, duration, counters, clock, calls, reported, debugged, journeys >>

Zero == [t \in Transitions |-> 0]

Init ==
  /\ uids = << >>
  /\ duration = [t \in Transitions |-> NewMeasure]
  /\ count = Zero
  /\ seen_uid_not_found = 0
  /\ seen_checkpoint_not_found = 0
  /\ clock \in Times
  /\ calls = 0 /\ reported = 0 /\ debugged = FALSE
  /\ entered = << >> /\ spent = << >>

(* f with u mapped to x; f without u. *)
With(f, u, x)  == [v \in DOMAIN f \cup {u} |-> IF v = u THEN x ELSE f[v]]
Without(f, u)  == Restrict(f, DOMAIN f \ {u})

(* The readings of the clock that may come after one of last. *)
Readings(last) == {t \in Times : SetBack \/ t >= last}

(* Mutant of Erased: out() and in_locked() leave the request where it was.  *)
ErasedNot(f, u) == f

(* std::map: erase(u); and insert(u, ...), which keeps what is there.       *)
Erased(f, u)           == Without(f, u)
Inserted(f, u, p, now) ==
  IF u \in DOMAIN f THEN f ELSE With(f, u, [at |-> p, since |-> now])

(* in_locked(): erase, then insert, at the clock reading now. *)
InLocked(u, p, now) == uids' = Inserted(Erased(uids, u), u, p, now)

(* seen_locked(): what it adds to the statistics at the clock reading now. *)
SeenLocked(u, p, now) ==
  IF u \notin DOMAIN uids
  THEN /\ seen_uid_not_found' = seen_uid_not_found + 1
       /\ UNCHANGED << seen_checkpoint_not_found, count, duration >>
  ELSE LET t == << uids[u].at, p >>
       IN /\ UNCHANGED seen_uid_not_found
          /\ IF t \notin Transitions
             THEN /\ seen_checkpoint_not_found' = seen_checkpoint_not_found + 1
                  /\ UNCHANGED << count, duration >>
             ELSE /\ duration' = [duration EXCEPT ![t] =
                                    AddLocked(@, now - uids[u].since)]
                  /\ count' = [count EXCEPT ![t] = @ + 1]
                  /\ UNCHANGED seen_checkpoint_not_found

-----------------------------------------------------------------------------
In(u, p) ==
  \E now \in Readings(clock) :
    /\ InLocked(u, p, now)
    /\ clock' = now
    /\ entered' = With(entered, u, now)
    /\ spent' = With(spent, u, 0)
    /\ UNCHANGED << duration, counters, calls, reported, debugged >>

(* seen_locked() and in_locked() each read the clock. *)
Seen(u, p) ==
  LET known == u \in DOMAIN uids
  IN \E now \in Readings(clock) : \E later \in Readings(now) :
       /\ calls < MaxCalls /\ calls' = calls + 1
       /\ SeenLocked(u, p, now)
       /\ InLocked(u, p, later)
       /\ clock' = later
       /\ entered' = IF known THEN entered ELSE With(entered, u, later)
       /\ spent' = With(spent, u, IF known THEN spent[u] + (now - uids[u].since) ELSE 0)
       /\ UNCHANGED << reported, debugged >>

Out(u, p) ==
  \E now \in Readings(clock) :
    /\ calls < MaxCalls /\ calls' = calls + 1
    /\ SeenLocked(u, p, now)
    /\ uids' = Erased(uids, u)
    /\ clock' = now
    /\ entered' = Without(entered, u)
    /\ spent' = Without(spent, u)
    /\ UNCHANGED << reported, debugged >>

Counted == SumFunctionOnSet(count, Transitions)

(* Prints and resets every counter and measure. *)
SerializeCarbon ==
  /\ seen_uid_not_found' = 0
  /\ seen_checkpoint_not_found' = 0
  /\ duration' = [t \in Transitions |-> CarbonReset(duration[t])]
  /\ count' = Zero
  /\ reported' = reported + seen_uid_not_found + seen_checkpoint_not_found + Counted
  /\ debugged' = FALSE
  /\ UNCHANGED << uids, clock, calls, journeys >>

(* Prints all but seen_checkpoint_not_found, and resets the counters only. *)
SerializeDebug ==
  /\ seen_uid_not_found' = 0
  /\ count' = Zero
  /\ reported' = reported + seen_uid_not_found + Counted
  /\ debugged' = TRUE
  /\ UNCHANGED << uids, duration, seen_checkpoint_not_found, clock, calls, journeys >>

Request ==
  \E u \in Uids, p \in Checkpoints : In(u, p) \/ Seen(u, p) \/ Out(u, p)

Next == Request \/ SerializeCarbon \/ SerializeDebug

Spec == Init /\ [][Next]_vars

-----------------------------------------------------------------------------
(* Every variable has its type. *)
TypeOK ==
  /\ DOMAIN uids \subseteq Uids
  /\ \A u \in DOMAIN uids : uids[u] \in [at : Checkpoints, since : Times]
  /\ duration \in [Transitions -> [min : Int, max : Int, sum_val : Int, cnt_val : Nat]]
  /\ count \in [Transitions -> Nat]
  /\ seen_uid_not_found \in Nat
  /\ seen_checkpoint_not_found \in Nat
  /\ clock \in Times
  /\ calls \in 0..MaxCalls
  /\ reported \in Nat
  /\ debugged \in BOOLEAN
  /\ DOMAIN uids \subseteq DOMAIN entered /\ DOMAIN uids \subseteq DOMAIN spent

(* Each call of seen() and out() is counted by exactly one counter, and no  *)
(* serialization, in whichever format, counts it twice or drops it.         *)
EachCallIsCounted ==
  calls = reported + seen_uid_not_found + seen_checkpoint_not_found + Counted

(* The durations of a request's steps do not overlap: together they are not *)
(* longer than the time from when it became known to its last checkpoint.   *)
(* (They may be shorter, by the time between the two clock readings of a    *)
(* seen().)                                                                 *)
DurationsDoNotOverlap ==
  \A u \in DOMAIN uids : spent[u] <= uids[u].since - entered[u]

(* A transition's counter and its measure describe the same requests, as    *)
(* many durations as counts, from one carbon format to the next.  (The debug*)
(* format resets the counter only; a collector uses one format.)            *)
DurationsMatchCounts ==
  ~debugged => \A t \in Transitions : duration[t].cnt_val = count[t]
=============================================================================
