---------------------------- MODULE CorrelatorThreads ----------------------------
(***************************************************************************)
(* The correlator of correlator.hh with the threads that call it: each      *)
(* method locks _data_mutex, runs its statements one by one, and unlocks.   *)
(* serialize_carbon() and serialize_debug() write one report per counter    *)
(* and measure; each write to the descriptor may fail and close it.         *)
(*                                                                          *)
(* The statements change the variables of Correlator; committed is what     *)
(* they were when the mutex was last unlocked.  Correlator, whose methods   *)
(* are single steps, is what this module implements.                        *)
(***************************************************************************)
EXTENDS Correlator, Writer, SequencesExt

CONSTANT Threads

VARIABLES
  call,        \* per thread, the method it is in and the statements left
  committed    \* what was visible when the mutex was last unlocked

tvars == << vars, fd, call, committed >>

None == [op |-> "none"]

Snapshot ==
  [uids |-> uids, duration |-> duration, count |-> count,
   seen_uid_not_found |-> seen_uid_not_found,
   seen_checkpoint_not_found |-> seen_checkpoint_not_found,
   clock |-> clock, calls |-> calls, reported |-> reported,
   debugged |-> debugged, entered |-> entered, spent |-> spent]

TInit ==
  /\ Init
  /\ fd = "open"
  /\ call = [t \in Threads |-> None]
  /\ committed = Snapshot

(* _times, in the order of the map; its measures and counters. *)
Leaves ==
  LET order == SetToSeq(Transitions)
  IN [k \in 1..2 * Cardinality(Transitions) |->
        << IF k % 2 = 1 THEN "duration" ELSE "count", order[(k + 1) \div 2] >>]

(* Mutant of InLockedStatements: in_locked() does not erase. *)
InsertOnly == << << "insert" >> >>

InLockedStatements == << << "erase" >>, << "insert" >> >>

(* The statements of each method. *)
Statements(op) ==
  CASE op = "in"   -> InLockedStatements
    [] op = "seen" -> << << "seen_locked" >> >> \o InLockedStatements
    [] op = "out"  -> << << "seen_locked" >>, << "erase" >> >>
    [] op = "debug"  -> << << "uid_not_found" >> >> \o Leaves
    [] op = "carbon" ->
         << << "uid_not_found" >>, << "checkpoint_not_found" >> >> \o Leaves

(* Mutants of MutexIsFree: the serialize methods, or out(), take no lock.   *)
ReportsTakeNoLock(op) ==
  op \in {"debug", "carbon"} \/ \A t \in Threads : call[t] = None
OutTakesNoLock(op) == op = "out" \/ \A t \in Threads : call[t] = None

(* May a method op lock _data_mutex? *)
MutexIsFree(op) == \A t \in Threads : call[t] = None

-----------------------------------------------------------------------------
(* A thread enters in(), seen() or out(). *)
LockRequest(t, op, u, p) ==
  /\ call[t] = None /\ MutexIsFree(op)
  /\ op # "in" => calls < MaxCalls
  /\ call' = [call EXCEPT ![t] =
       [op |-> op, todo |-> Statements(op), uid |-> u, pid |-> p, step |-> 0]]
  /\ UNCHANGED << vars, fd, committed >>

(* A thread enters serialize_debug() or serialize_carbon(); agree: no debug *)
(* format since the last carbon format.                                     *)
LockReport(t, op) ==
  /\ call[t] = None /\ MutexIsFree(op)
  /\ call' = [call EXCEPT ![t] =
       [op |-> op, todo |-> Statements(op), shown |-> {}, agree |-> ~debugged]]
  /\ debugged' = TRUE
  /\ UNCHANGED << uids, duration, counters, clock, calls, reported, journeys,
                  fd, committed >>

At(t, statement) ==
  /\ call[t] # None
  /\ call[t].todo # << >> /\ Head(call[t].todo) = statement

Finished(t) == call' = [call EXCEPT ![t].todo = Tail(@)]

(* seen_locked() *)
SeenStatement(t) ==
  LET u == call[t].uid
  IN /\ At(t, << "seen_locked" >>)
     /\ \E now \in Readings(clock) :
          /\ SeenLocked(u, call[t].pid, now)
          /\ clock' = now
          /\ call' = [call EXCEPT
               ![t].todo = Tail(@),
               ![t].step = IF u \in DOMAIN uids THEN now - uids[u].since ELSE 0]
     /\ calls' = calls + 1
     /\ UNCHANGED << uids, reported, debugged, journeys, fd, committed >>

(* erase(), in in_locked() or in out() *)
EraseStatement(t) ==
  LET u == call[t].uid
  IN /\ At(t, << "erase" >>)
     /\ uids' = Erased(uids, u)
     /\ IF call[t].op = "out"
        THEN entered' = Without(entered, u) /\ spent' = Without(spent, u)
        ELSE UNCHANGED journeys
     /\ Finished(t)
     /\ UNCHANGED << duration, counters, clock, calls, reported, debugged, fd,
                     committed >>

(* insert(), with the second reading of the clock of a seen() *)
InsertStatement(t) ==
  LET u     == call[t].uid
      known == call[t].op = "seen" /\ u \in DOMAIN entered
  IN /\ At(t, << "insert" >>)
     /\ \E now \in Readings(clock) :
          /\ uids' = Inserted(uids, u, call[t].pid, now)
          /\ clock' = now
          /\ entered' = IF known THEN entered ELSE With(entered, u, now)
          /\ spent' = With(spent, u, IF known THEN spent[u] + call[t].step ELSE 0)
     /\ Finished(t)
     /\ UNCHANGED << duration, counters, calls, reported, debugged, fd, committed >>

(* One report is written, or not; shown is what it shows. *)
WriteReport(t, shown) ==
  \E written \in BOOLEAN :
    /\ Write(written)
    /\ call' = [call EXCEPT
         ![t].todo = Tail(@), ![t].shown = IF written THEN @ \cup shown ELSE @]

SerializeUidNotFound(t) ==
  /\ At(t, << "uid_not_found" >>)
  /\ WriteReport(t, {})
  /\ seen_uid_not_found' = 0
  /\ reported' = reported + seen_uid_not_found
  /\ UNCHANGED << uids, duration, count, seen_checkpoint_not_found, clock, calls,
                  debugged, journeys, committed >>

SerializeCheckpointNotFound(t) ==
  /\ At(t, << "checkpoint_not_found" >>)
  /\ WriteReport(t, {})
  /\ seen_checkpoint_not_found' = 0
  /\ reported' = reported + seen_checkpoint_not_found
  /\ UNCHANGED << uids, duration, count, seen_uid_not_found, clock, calls,
                  debugged, journeys, committed >>

SerializeDuration(t, tr) ==
  /\ At(t, << "duration", tr >>)
  /\ WriteReport(t, {<< "duration", tr, duration[tr].cnt_val >>})
  /\ duration' = [duration EXCEPT ![tr] =
       IF call[t].op = "carbon" THEN CarbonReset(@) ELSE @]
  /\ UNCHANGED << uids, counters, clock, calls, reported, debugged, journeys,
                  committed >>

(* Mutant of SerializeCount: the counter is read and not reset. *)
SerializeCountReads(t, tr) ==
  /\ At(t, << "count", tr >>)
  /\ WriteReport(t, {<< "count", tr, count[tr] >>})
  /\ reported' = reported + count[tr]
  /\ UNCHANGED << uids, duration, counters, clock, calls, debugged, journeys,
                  committed >>

SerializeCount(t, tr) ==
  /\ At(t, << "count", tr >>)
  /\ WriteReport(t, {<< "count", tr, count[tr] >>})
  /\ count' = [count EXCEPT ![tr] = 0]
  /\ reported' = reported + count[tr]
  /\ UNCHANGED << uids, duration, seen_uid_not_found, seen_checkpoint_not_found,
                  clock, calls, debugged, journeys, committed >>

(* The method returns, and the lock_guard unlocks the mutex. *)
Unlock(t) ==
  /\ call[t] # None /\ call[t].todo = << >>
  /\ call' = [call EXCEPT ![t] = None]
  /\ debugged' = (debugged /\ call[t].op # "carbon")
  /\ UNCHANGED << uids, duration, counters, clock, calls, reported, journeys, fd >>
  /\ committed' = Snapshot'

TNext ==
  \E t \in Threads :
    \/ \E op \in {"in", "seen", "out"}, u \in Uids, p \in Checkpoints :
         LockRequest(t, op, u, p)
    \/ \E op \in {"debug", "carbon"} : LockReport(t, op)
    \/ SeenStatement(t) \/ EraseStatement(t) \/ InsertStatement(t)
    \/ SerializeUidNotFound(t) \/ SerializeCheckpointNotFound(t)
    \/ \E tr \in Transitions : SerializeDuration(t, tr) \/ SerializeCount(t, tr)
    \/ Unlock(t)

TSpec == TInit /\ [][TNext]_tvars

-----------------------------------------------------------------------------
(* With the mutex each method is one step of Correlator, at its unlock;     *)
(* though inc(), add_locked() and the serialize methods of the parts are    *)
(* called without the parts' own locks, or with others.                     *)
Atomic ==
  INSTANCE Correlator WITH
    uids <- committed.uids, duration <- committed.duration,
    count <- committed.count,
    seen_uid_not_found <- committed.seen_uid_not_found,
    seen_checkpoint_not_found <- committed.seen_checkpoint_not_found,
    clock <- committed.clock, calls <- committed.calls,
    reported <- committed.reported, debugged <- committed.debugged,
    entered <- committed.entered, spent <- committed.spent

ImplementsAtomic == Atomic!Spec

(* What one report says of a transition agrees: the count that is written   *)
(* is that of the durations whose average was written before it, even when  *)
(* requests are seen while the report is written, or a write fails.         *)
ReportsAgree ==
  \A t \in Threads :
    call[t].op \in {"debug", "carbon"} /\ call[t].agree =>
      \A tr \in Transitions, n \in 0..MaxCalls :
        << "count", tr, n >> \in call[t].shown =>
          << "duration", tr, n >> \in call[t].shown
=============================================================================
