--------------------------- MODULE DataStorageProofs ---------------------------
(***************************************************************************)
(* Proofs of the safety properties of DataStorage, for every set of names,  *)
(* increments, addresses and clock readings and every number of calls.      *)
(***************************************************************************)
EXTENDS DataStorage, TLAPS

-----------------------------------------------------------------------------
(* Maps of counters: their sums are maps of counters again. *)
LEMMA NoCountsType == NoCounts \in [Names -> Nat]
BY DEF NoCounts

LEMMA PlusType ==
  ASSUME NEW f \in [Names -> Nat], NEW g \in [Names -> Nat]
  PROVE  Plus(f, g) \in [Names -> Nat]
<1>1. \A n \in Names : f[n] + g[n] \in Nat
  OBVIOUS
<1> QED
  BY <1>1, Zenon DEF Plus

LEMMA OneType ==
  ASSUME NEW n \in Names, NEW i \in Incs
  PROVE  One(n, i) \in [Names -> Nat]
<1>1. \A m \in Names : (IF m = n THEN i ELSE 0) \in Nat
  BY DataStorageAssumption DEF DataStorageAssumption
<1> QED
  BY <1>1, Zenon DEF One

-----------------------------------------------------------------------------
(* Every variable of data_storage and of its two threads keeps its type.    *)
THEOREM TypeCorrect == Spec => []TypeOK
<1>1. Init => TypeOK
  <2>1. Init => call \in [name : Names, inc : Incs, storage : Addrs]
    BY DEF Init
  <2>2. Init => /\ m_counters \in [Addrs -> [Names -> Nat]]
                /\ issued \in [Names -> Nat]
                /\ printed \in [Names -> Nat]
                /\ lost \in [Names -> Nat]
    BY NoCountsType DEF Init
  <2>3. Init => /\ m_time_begin \in [Addrs -> Times]
                /\ dumper \in DumperStates
                /\ clock \in Times
                /\ calls \in 0..MaxCalls
                /\ printed_until \in Times
                /\ lost_in_dump \in Nat
    BY DataStorageAssumption DEF Init, DumperStates, DataStorageAssumption
  <2>4. Init => /\ live \in SUBSET Addrs
                /\ m_current_raw_storage \in Addrs
                /\ d_storage \in Addrs
                /\ m_terminate \in BOOLEAN
                /\ should_terminate \in BOOLEAN
                /\ signalled \in BOOLEAN
                /\ client \in ClientStates
    BY DEF Init, ClientStates
  <2> QED
    BY <2>1, <2>2, <2>3, <2>4 DEF TypeOK
<1>2. TypeOK /\ [Next]_vars => TypeOK'
  <2> SUFFICES ASSUME TypeOK, [Next]_vars PROVE TypeOK'
    OBVIOUS
  <2> USE DEF TypeOK, ClientStates, DumperStates
  <2>1. CASE FinishCtor
    BY <2>1 DEF FinishCtor, ClientStep, pointers, output, loss
  <2>2. ASSUME NEW n \in Names, NEW i \in Incs, BeginIncrement(n, i) PROVE TypeOK'
    <3>1. calls' \in 0..MaxCalls
      BY <2>2, DataStorageAssumption DEF BeginIncrement, DataStorageAssumption
    <3>2. call' \in [name : Names, inc : Incs, storage : Addrs]
      BY <2>2 DEF BeginIncrement
    <3> QED
      BY <2>2, <3>1, <3>2 DEF BeginIncrement, ClientStep, pointers, output, loss
  <2>3. CASE EndIncrement
    <3> DEFINE amount == One(call.name, call.inc)
    <3>1. amount \in [Names -> Nat]
      BY OneType
    <3>2. m_counters' \in [Addrs -> [Names -> Nat]]
      <4>1. call.storage \in Addrs /\ m_counters[call.storage] \in [Names -> Nat]
        OBVIOUS
      <4>2. Plus(m_counters[call.storage], amount) \in [Names -> Nat]
        BY <3>1, <4>1, PlusType
      <4> QED
        BY <2>3, <4>2 DEF EndIncrement, Increment
    <3>3. issued' \in [Names -> Nat]
      BY <2>3, <3>1, PlusType DEF EndIncrement
    <3>4. lost' \in [Names -> Nat] /\ lost_in_dump' \in Nat
      BY <2>3, <3>1, PlusType DEF EndIncrement, loss
    <3> QED
      BY <2>3, <3>2, <3>3, <3>4 DEF EndIncrement, ClientStep, pointers, output
  <2>4. ASSUME NEW from \in {"idle", "increment"}, Crash(from) PROVE TypeOK'
    BY <2>4 DEF Crash, ClientStep, pointers, output, loss
  <2>5. CASE Join
    BY <2>5 DEF Join, ClientStep, pointers, output, loss
  <2>6. CASE JoinReturn
    BY <2>6 DEF JoinReturn, ClientStep, pointers, output, loss
  <2>7. CASE BeginWait
    BY <2>7 DEF BeginWait, DumperStep, store, pointers, output
  <2>8. CASE Timeout
    BY <2>8 DEF Timeout, DumperStep, store, pointers, output
  <2>9. CASE Wake
    BY <2>9 DEF Wake, DumperStep, store, pointers, output
  <2>10. CASE MakeStorage
    <3>1. PICK a \in Addrs : MakeRawStorage(a) /\ d_storage' = a
      BY <2>10 DEF MakeStorage
    <3>2. m_counters' \in [Addrs -> [Names -> Nat]]
      BY <3>1, NoCountsType DEF MakeRawStorage
    <3> QED
      BY <2>10, <3>1, <3>2 DEF MakeStorage, MakeRawStorage, DumperStep, output
  <2>11. CASE Swap
    BY <2>11 DEF Swap, DumperStep, store, output
  <2>12. CASE DumpOld
    <3>1. printed' \in [Names -> Nat]
      BY <2>12, PlusType DEF DumpOld
    <3> QED
      BY <2>12, <3>1 DEF DumpOld, DumperStep, store, pointers
  <2>13. CASE Release
    BY <2>13 DEF Release, DumperStep, store, pointers, output
  <2>14. CASE SetClock
    BY <2>14 DEF SetClock, store, pointers, flags, output, loss
  <2>15. CASE UNCHANGED vars
    BY <2>15 DEF vars, store, pointers, flags, output, loss
  <2> QED
    BY <2>1, <2>2, <2>3, <2>4, <2>5, <2>6, <2>7, <2>8, <2>9, <2>10, <2>11,
       <2>12, <2>13, <2>14, <2>15
       DEF Next, ClientNext, DumperNext, Abort, CrashInIncrement, Terminated
<1> QED
  BY <1>1, <1>2, PTL DEF Spec

-----------------------------------------------------------------------------
(* The client changes neither pointer, no heap object's life, and nothing   *)
(* the dump thread keeps for itself.                                        *)
LEMMA ClientFrame ==
  ASSUME ClientNext
  PROVE  UNCHANGED << live, m_time_begin, m_current_raw_storage, d_storage,
                      should_terminate, dumper, printed, printed_until >>
BY DEF ClientNext, FinishCtor, BeginIncrement, EndIncrement, CrashInIncrement,
       Abort, Crash, Join, JoinReturn, ClientStep, pointers, output

(* data_storage owns exactly the storages it can still reach: dump() never  *)
(* frees the current one, and forgets none.                                 *)
THEOREM HeapSafety == Spec => []HeapSafe
<1>1. Init => HeapSafe
  BY DEF Init, HeapSafe
<1>2. HeapSafe /\ [Next]_vars => HeapSafe'
  <2> SUFFICES ASSUME HeapSafe, [Next]_vars PROVE HeapSafe'
    OBVIOUS
  <2> USE DEF HeapSafe
  <2>1. CASE ClientNext
    BY <2>1, ClientFrame
  <2>2. CASE BeginWait \/ Timeout \/ Wake
    BY <2>2 DEF BeginWait, Timeout, Wake, DumperStep, store, pointers
  <2>3. CASE MakeStorage
    BY <2>3 DEF MakeStorage, MakeRawStorage, DumperStep
  <2>4. CASE Swap
    BY <2>4 DEF Swap, DumperStep, store
  <2>5. CASE DumpOld
    BY <2>5 DEF DumpOld, DumperStep, store, pointers
  <2>6. CASE Release
    BY <2>6 DEF Release, DumperStep, pointers
  <2>7. CASE SetClock \/ UNCHANGED vars
    BY <2>7 DEF SetClock, vars, store, pointers
  <2> QED
    BY <2>1, <2>2, <2>3, <2>4, <2>5, <2>6, <2>7 DEF Next, DumperNext, Terminated
<1> QED
  BY <1>1, <1>2, PTL DEF Spec

(* The printed intervals follow each other without gap or overlap.          *)
THEOREM IntervalsFollow == Spec => []IntervalsTile
<1>1. Init => IntervalsTile
  BY DEF Init, IntervalsTile
<1>2. TypeOK /\ HeapSafe /\ IntervalsTile /\ [Next]_vars => IntervalsTile'
  <2> SUFFICES ASSUME TypeOK, HeapSafe, IntervalsTile, [Next]_vars
               PROVE  IntervalsTile'
    OBVIOUS
  <2> USE DEF IntervalsTile
  <2>1. CASE ClientNext
    BY <2>1, ClientFrame
  <2>2. CASE BeginWait \/ Timeout \/ Wake
    BY <2>2 DEF BeginWait, Timeout, Wake, DumperStep, store, pointers, output
  <2>3. CASE MakeStorage
    <3>1. m_current_raw_storage \in live
      BY DEF HeapSafe
    <3>2. m_time_begin'[m_current_raw_storage] = m_time_begin[m_current_raw_storage]
      BY <2>3, <3>1 DEF MakeStorage, MakeRawStorage, TypeOK
    <3> QED
      BY <2>3, <3>2 DEF MakeStorage, DumperStep, output
  <2>4. CASE Swap
    BY <2>4 DEF Swap, DumperStep, store, output
  <2>5. CASE DumpOld
    BY <2>5 DEF DumpOld, DumperStep, store, pointers
  <2>6. CASE Release
    BY <2>6 DEF Release, DumperStep, pointers, output
  <2>7. CASE SetClock \/ UNCHANGED vars
    BY <2>7 DEF SetClock, vars, store, pointers, output
  <2> QED
    BY <2>1, <2>2, <2>3, <2>4, <2>5, <2>6, <2>7 DEF Next, DumperNext, Terminated
<1> QED
  BY <1>1, <1>2, TypeCorrect, HeapSafety, PTL DEF Spec

-----------------------------------------------------------------------------
(* What is pending, and how each step changes it. *)
LEMMA PendingType == TypeOK => Pending \in [Names -> Nat]
BY DEF TypeOK, Pending

LEMMA PendingAtStart == Init => Pending = NoCounts
<1> SUFFICES ASSUME Init PROVE Pending = NoCounts
  OBVIOUS
<1>1. m_current_raw_storage \in Addrs /\ dumper = "run"
  BY DEF Init
<1>2. m_counters = [b \in Addrs |-> NoCounts]
  BY DEF Init
<1>3. m_counters[m_current_raw_storage] = NoCounts
  BY <1>1, <1>2
<1>4. \A n \in Names : NoCounts[n] = 0
  BY DEF NoCounts
<1> QED
  BY <1>1, <1>3, <1>4 DEF Pending, NoCounts

LEMMA PendingLost ==
  ASSUME TypeOK, HeapSafe, EndIncrement, TooLate(call.storage)
  PROVE  Pending' = Pending
<1>1. UNCHANGED << m_current_raw_storage, d_storage, dumper >>
  BY DEF EndIncrement, ClientStep, pointers
<1>2. \A a \in Addrs : a # call.storage => m_counters'[a] = m_counters[a]
  BY DEF EndIncrement, Increment, TypeOK
<1>3. m_current_raw_storage # call.storage
  BY DEF HeapSafe, TooLate
<1>4. dumper \in {"swap", "print"} => d_storage # call.storage
  BY DEF HeapSafe, TooLate
<1> QED
  BY <1>1, <1>2, <1>3, <1>4 DEF Pending, TypeOK

LEMMA PendingAdded ==
  ASSUME TypeOK, HeapSafe, EndIncrement, ~TooLate(call.storage)
  PROVE  Pending' = Plus(Pending, One(call.name, call.inc))
<1> DEFINE amount == One(call.name, call.inc)
<1>1. UNCHANGED << m_current_raw_storage, d_storage, dumper >>
  BY DEF EndIncrement, ClientStep, pointers
<1>2. call.storage \in Addrs /\ amount \in [Names -> Nat]
  BY OneType DEF TypeOK
<1>3. m_counters' = [m_counters EXCEPT ![call.storage] =
                       Plus(m_counters[call.storage], amount)]
  BY DEF EndIncrement, Increment, TooLate
<1>4. \A a \in Addrs : a # call.storage => m_counters'[a] = m_counters[a]
  BY <1>2, <1>3 DEF TypeOK
<1>5. \A n \in Names :
        m_counters'[call.storage][n] = m_counters[call.storage][n] + amount[n]
  BY <1>2, <1>3 DEF TypeOK, Plus
<1>6. \A n \in Names : Pending'[n] = Pending[n] + amount[n]
  <2> SUFFICES ASSUME NEW n \in Names PROVE Pending'[n] = Pending[n] + amount[n]
    OBVIOUS
  <2>1. CASE call.storage = m_current_raw_storage
    BY <2>1, <1>1, <1>2, <1>4, <1>5 DEF Pending, TypeOK, HeapSafe
  <2>2. CASE call.storage # m_current_raw_storage
    <3>1. call.storage = d_storage /\ dumper \in {"swap", "print"}
      BY <2>2 DEF TooLate, HeapSafe
    <3> QED
      BY <2>2, <3>1, <1>1, <1>2, <1>4, <1>5 DEF Pending, TypeOK
  <2> QED
    BY <2>1, <2>2
<1> QED
  BY <1>6 DEF Pending, Plus

LEMMA PendingDumped ==
  ASSUME TypeOK, DumpOld
  PROVE  \A n \in Names : Pending[n] = Pending'[n] + m_counters[d_storage][n]
BY DEF DumpOld, DumperStep, store, pointers, Pending, TypeOK

LEMMA PendingKept ==
  ASSUME TypeOK, HeapSafe, [Next]_vars, ~EndIncrement, ~DumpOld
  PROVE  Pending' = Pending
<1>1. CASE ClientNext
  <2>1. UNCHANGED m_counters
    BY <1>1 DEF ClientNext, FinishCtor, BeginIncrement, CrashInIncrement, Abort,
                Crash, Join, JoinReturn
  <2> QED
    BY <1>1, <2>1, ClientFrame DEF Pending
<1>2. CASE BeginWait \/ Timeout \/ Wake \/ Release
  BY <1>2 DEF BeginWait, Timeout, Wake, Release, DumperStep, store, pointers, Pending
<1>3. CASE MakeStorage
  <2>1. PICK a \in Addrs \ live : MakeRawStorage(a) /\ d_storage' = a
    BY <1>3 DEF MakeStorage, TypeOK
  <2>2. m_current_raw_storage # a
    BY DEF HeapSafe
  <2>3. m_counters'[m_current_raw_storage] = m_counters[m_current_raw_storage]
    BY <2>1, <2>2 DEF MakeRawStorage, TypeOK
  <2>4. \A n \in Names : m_counters'[d_storage'][n] = 0
    BY <2>1 DEF MakeRawStorage, NoCounts, TypeOK
  <2>5. dumper = "make" /\ dumper' = "swap" /\ UNCHANGED m_current_raw_storage
    BY <1>3 DEF MakeStorage, DumperStep
  <2>6. \A n \in Names : m_counters[m_current_raw_storage][n] \in Nat
    BY DEF TypeOK
  <2> QED
    BY <2>3, <2>4, <2>5, <2>6 DEF Pending
<1>4. CASE Swap
  <2>1. \A n \in Names : /\ m_counters[m_current_raw_storage][n] \in Nat
                         /\ m_counters[d_storage][n] \in Nat
    BY DEF TypeOK
  <2> QED
    BY <1>4, <2>1 DEF Swap, DumperStep, store, Pending
<1>5. CASE SetClock \/ UNCHANGED vars
  BY <1>5 DEF SetClock, vars, store, pointers, Pending
<1> QED
  BY <1>1, <1>2, <1>3, <1>4, <1>5 DEF Next, DumperNext, Terminated

-----------------------------------------------------------------------------
(* The history counters move with EndIncrement and DumpOld only. *)
LEMMA HistoryFrame ==
  ASSUME [Next]_vars, ~EndIncrement
  PROVE  /\ UNCHANGED << issued, lost >>
         /\ ~DumpOld => UNCHANGED printed
<1>1. CASE ClientNext
  BY <1>1, ClientFrame
     DEF ClientNext, FinishCtor, BeginIncrement, CrashInIncrement, Abort, Crash,
         Join, JoinReturn, loss
<1>2. CASE DumperNext
  BY <1>2 DEF DumperNext, BeginWait, Timeout, Wake, MakeStorage, Swap, DumpOld,
              Release, DumperStep, output
<1>3. CASE SetClock \/ UNCHANGED vars
  BY <1>3 DEF SetClock, vars, output, loss
<1> QED
  BY <1>1, <1>2, <1>3 DEF Next, Terminated

(* Every increment is printed once, pending, or lost in the unlocked window.*)
THEOREM IncrementsConserved == Spec => []Conservation
<1>1. Init => Conservation
  <2> SUFFICES ASSUME Init, NEW n \in Names
               PROVE  issued[n] = printed[n] + lost[n] + Pending[n]
    BY DEF Conservation
  <2>1. NoCounts[n] = 0
    BY DEF NoCounts
  <2>2. issued = NoCounts /\ printed = NoCounts /\ lost = NoCounts
    BY DEF Init
  <2>3. Pending = NoCounts
    BY PendingAtStart
  <2> QED
    BY <2>1, <2>2, <2>3
<1>2. TypeOK /\ HeapSafe /\ Conservation /\ [Next]_vars => Conservation'
  <2> SUFFICES ASSUME TypeOK, HeapSafe, Conservation, [Next]_vars, NEW n \in Names
               PROVE  issued'[n] = printed'[n] + lost'[n] + Pending'[n]
    BY DEF Conservation
  <2>1. /\ Pending[n] \in Nat /\ issued[n] \in Nat /\ printed[n] \in Nat
        /\ lost[n] \in Nat /\ m_counters[d_storage][n] \in Nat
    BY PendingType DEF TypeOK
  <2>2. issued[n] = printed[n] + lost[n] + Pending[n]
    BY DEF Conservation
  <2>3. CASE EndIncrement
    <3> DEFINE amount == One(call.name, call.inc)
    <3>1. amount[n] \in Nat
      BY OneType DEF TypeOK
    <3>2. issued'[n] = issued[n] + amount[n] /\ printed' = printed
      BY <2>3 DEF EndIncrement, ClientStep, output, Plus
    <3>3. CASE TooLate(call.storage)
      <4>1. lost'[n] = lost[n] + amount[n]
        BY <2>3, <3>3 DEF EndIncrement, Plus
      <4> QED
        BY <2>1, <2>2, <2>3, <3>1, <3>2, <3>3, <4>1, PendingLost
    <3>4. CASE ~TooLate(call.storage)
      <4>1. Pending'[n] = Pending[n] + amount[n]
        BY <2>3, <3>4, PendingAdded DEF Plus
      <4>2. lost' = lost
        BY <2>3, <3>4 DEF EndIncrement, loss
      <4> QED
        BY <2>1, <2>2, <3>1, <3>2, <4>1, <4>2
    <3> QED
      BY <3>3, <3>4
  <2>4. CASE DumpOld
    <3>1. Pending[n] = Pending'[n] + m_counters[d_storage][n]
      BY <2>4, PendingDumped
    <3>2. printed'[n] = printed[n] + m_counters[d_storage][n]
      BY <2>4 DEF DumpOld, Plus
    <3>3. issued' = issued /\ lost' = lost
      BY <2>4 DEF DumpOld, DumperStep
    <3>4. Pending'[n] \in Nat
      BY <2>4 DEF DumpOld, DumperStep, store, pointers, Pending, TypeOK
    <3> QED
      BY <2>1, <2>2, <3>1, <3>2, <3>3, <3>4
  <2>5. CASE ~EndIncrement /\ ~DumpOld
    BY <2>1, <2>2, <2>5, PendingKept, HistoryFrame
  <2> QED
    BY <2>3, <2>4, <2>5
<1> QED
  BY <1>1, <1>2, TypeCorrect, HeapSafety, PTL DEF Spec

-----------------------------------------------------------------------------
(* AtMostOneLostPerDump is not inductive: that the second increment of an   *)
(* interval is safe rests on the pointer that its call loaded.              *)
LostOnce ==
  /\ lost_in_dump \in {0, 1}
  /\ lost_in_dump = 1 /\ client = "increment"
       => call.storage = m_current_raw_storage

(* Between two swaps at most one increment is lost.                         *)
THEOREM LossIsBounded == Spec => []AtMostOneLostPerDump
<1>1. Init => LostOnce
  BY DEF Init, LostOnce
<1>2. HeapSafe /\ LostOnce /\ [Next]_vars => LostOnce'
  <2> SUFFICES ASSUME HeapSafe, LostOnce, [Next]_vars PROVE LostOnce'
    OBVIOUS
  <2> USE DEF LostOnce
  <2>1. CASE EndIncrement
    <3>1. call.storage = m_current_raw_storage => ~TooLate(call.storage)
      BY DEF HeapSafe, TooLate
    <3> QED
      BY <2>1, <3>1 DEF EndIncrement, ClientStep, loss
  <2>2. ASSUME NEW n \in Names, NEW i \in Incs, BeginIncrement(n, i) PROVE LostOnce'
    BY <2>2 DEF BeginIncrement, ClientStep, pointers, loss
  <2>3. CASE FinishCtor \/ CrashInIncrement \/ Abort \/ Join \/ JoinReturn
    BY <2>3 DEF FinishCtor, CrashInIncrement, Abort, Crash, Join, JoinReturn,
                ClientStep, loss
  <2>4. CASE Swap
    BY <2>4 DEF Swap
  <2>5. CASE BeginWait \/ Timeout \/ Wake \/ MakeStorage \/ DumpOld \/ Release
    BY <2>5 DEF BeginWait, Timeout, Wake, MakeStorage, DumpOld, Release, DumperStep, pointers
  <2>6. CASE SetClock \/ UNCHANGED vars
    BY <2>6 DEF SetClock, vars, pointers, loss
  <2> QED
    BY <2>1, <2>2, <2>3, <2>4, <2>5, <2>6 DEF Next, ClientNext, DumperNext, Terminated
<1>3. LostOnce => AtMostOneLostPerDump
  BY DEF LostOnce, AtMostOneLostPerDump
<1> QED
  BY <1>1, <1>2, <1>3, HeapSafety, PTL DEF Spec

-----------------------------------------------------------------------------
(* Why the last dump is complete: should_terminate is read from m_terminate *)
(* before the dump, m_terminate is set only when the client has made its    *)
(* last call, so the dump that should_terminate follows finds everything,   *)
(* and the storage it swaps in stays empty.                                 *)
ClientFinished == client \in {"joining", "done", "crashed"}

LastDump ==
  /\ client = "ctor" => dumper = "run"
  /\ m_terminate => client = "ctor" \/ ClientFinished
  /\ should_terminate => ClientFinished
  /\ dumper = "exited" => should_terminate
  /\ client = "done" => dumper = "exited"
  /\ should_terminate /\ dumper = "swap" => m_counters[d_storage] = NoCounts
  /\ should_terminate /\ dumper \in {"print", "release", "exited"}
       => m_counters[m_current_raw_storage] = NoCounts
  /\ should_terminate => dumper \notin {"run", "waiting"}

(* join() returns only after everything that was added has been printed,    *)
(* provided the thread does not outrun the constructor.                     *)
THEOREM ExitIsComplete ==
  ASSUME ~CtorRace
  PROVE  Spec => []ExitReportsAll
<1>1. Init => LastDump
  BY DEF Init, LastDump, ClientFinished
<1>2. TypeOK /\ HeapSafe /\ LastDump /\ [Next]_vars => LastDump'
  <2> SUFFICES ASSUME TypeOK, HeapSafe, LastDump, [Next]_vars PROVE LastDump'
    OBVIOUS
  <2> USE DEF LastDump, ClientFinished
  <2>1. CASE EndIncrement
    BY <2>1, ClientFrame DEF ClientNext, EndIncrement, ClientStep
  <2>2. ASSUME ClientNext, ~EndIncrement PROVE LastDump'
    <3>1. UNCHANGED m_counters
      BY <2>2 DEF ClientNext, FinishCtor, BeginIncrement, CrashInIncrement, Abort,
                  Crash, Join, JoinReturn
    <3>2. CASE FinishCtor
      BY <3>1, <3>2, <2>2, ClientFrame DEF FinishCtor, ClientStep
    <3>3. ASSUME NEW n \in Names, NEW i \in Incs, BeginIncrement(n, i) PROVE LastDump'
      BY <3>1, <3>3, <2>2, ClientFrame DEF BeginIncrement, ClientStep
    <3>4. CASE CrashInIncrement \/ Abort
      BY <3>1, <3>4, <2>2, ClientFrame DEF CrashInIncrement, Abort, Crash, ClientStep
    <3>5. CASE Join \/ JoinReturn
      BY <3>1, <3>5, <2>2, ClientFrame DEF Join, JoinReturn, ClientStep
    <3> QED
      BY <2>2, <3>2, <3>3, <3>4, <3>5 DEF ClientNext
  <2>3. CASE BeginWait
    BY <2>3 DEF BeginWait, DumperStep, store, pointers
  <2>4. CASE Timeout \/ Wake
    BY <2>4 DEF Timeout, Wake, DumperStep, store, pointers
  <2>5. CASE MakeStorage
    <3>1. PICK a \in Addrs : MakeRawStorage(a) /\ d_storage' = a
      BY <2>5 DEF MakeStorage
    <3>2. m_counters'[d_storage'] = NoCounts
      BY <3>1 DEF MakeRawStorage, TypeOK
    <3> QED
      BY <2>5, <3>2 DEF MakeStorage, DumperStep
  <2>6. CASE Swap
    BY <2>6 DEF Swap, DumperStep, store
  <2>7. CASE DumpOld
    BY <2>7 DEF DumpOld, DumperStep, store, pointers
  <2>8. CASE Release
    BY <2>8 DEF Release, DumperStep, pointers
  <2>9. CASE SetClock \/ UNCHANGED vars
    BY <2>9 DEF SetClock, vars, store, pointers, flags
  <2> QED
    BY <2>1, <2>2, <2>3, <2>4, <2>5, <2>6, <2>7, <2>8, <2>9
       DEF Next, DumperNext, Terminated
<1>3. LastDump => ExitReportsAll
  <2> SUFFICES ASSUME LastDump, client = "done", NEW n \in Names
               PROVE  Pending[n] = 0
    BY DEF ExitReportsAll
  <2>1. dumper = "exited" /\ m_counters[m_current_raw_storage] = NoCounts
    BY DEF LastDump
  <2> QED
    BY <2>1 DEF Pending, NoCounts
<1> QED
  BY <1>1, <1>2, <1>3, TypeCorrect, HeapSafety, PTL DEF Spec

-----------------------------------------------------------------------------
(* data_storage keeps the ledger: what it is told to add it holds or loses  *)
(* at once, and what it stops holding it has printed.                       *)
THEOREM KeepsLedger == Spec => ImplementsLedger
<1>1. Init => L!Init
  BY PendingAtStart DEF Init, NoCounts, L!Init, L!Nothing
<1>2. TypeOK /\ HeapSafe /\ [Next]_vars => [L!Next]_(L!ledger)
  <2> SUFFICES ASSUME TypeOK, HeapSafe, [Next]_vars PROVE [L!Next]_(L!ledger)
    OBVIOUS
  <2>1. CASE EndIncrement
    <3> DEFINE n == call.name
               i == call.inc
    <3>1. n \in Names /\ i \in Incs
      BY DEF TypeOK
    <3>2. issued' = Plus(issued, One(n, i)) /\ UNCHANGED printed
      BY <2>1 DEF EndIncrement, ClientStep, output
    <3>3. \/ Pending' = Plus(Pending, One(n, i)) /\ UNCHANGED lost
          \/ lost' = Plus(lost, One(n, i)) /\ Pending' = Pending
      BY <2>1, PendingAdded, PendingLost DEF EndIncrement, loss
    <3>4. L!Arrive(n, i)
      BY <3>2, <3>3 DEF L!Arrive, L!Plus, L!One, Plus, One
    <3> QED
      BY <3>1, <3>4 DEF L!Next
  <2>2. CASE DumpOld
    <3>1. Pending' \in [Names -> Nat]
      BY <2>2 DEF DumpOld, DumperStep, store, pointers, Pending, TypeOK
    <3>2. \A m \in Names : /\ Pending[m] \in Nat
                           /\ m_counters[d_storage][m] \in Nat
                           /\ Pending'[m] \in Nat
                           /\ Pending[m] = Pending'[m] + m_counters[d_storage][m]
      BY <2>2, <3>1, PendingType, PendingDumped DEF TypeOK
    <3>3. \A m \in Names : /\ Pending'[m] <= Pending[m]
                           /\ m_counters[d_storage][m] = Pending[m] - Pending'[m]
      BY <3>2
    <3>4. printed' = [m \in Names |-> printed[m] + (Pending[m] - Pending'[m])]
      BY <2>2, <3>3 DEF DumpOld, Plus
    <3>5. UNCHANGED << issued, lost >>
      BY <2>2 DEF DumpOld, DumperStep
    <3> QED
      BY <3>1, <3>3, <3>4, <3>5 DEF L!Next, L!Report, L!Move
  <2>3. CASE ~EndIncrement /\ ~DumpOld
    BY <2>3, PendingKept, HistoryFrame DEF L!ledger
  <2> QED
    BY <2>1, <2>2, <2>3
<1> QED
  BY <1>1, <1>2, TypeCorrect, HeapSafety, PTL DEF Spec, ImplementsLedger, L!Spec
=============================================================================
