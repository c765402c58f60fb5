------------------------------ MODULE StatsdProofs ------------------------------
(***************************************************************************)
(* Proofs about the program statsd, Statsd, for every set of lines, names,  *)
(* increments, addresses and clock readings and every number of calls.      *)
(* They rest on those of data_storage: main() uses it as its client may.    *)
(***************************************************************************)
EXTENDS Statsd, DataStorageProofs

-----------------------------------------------------------------------------
(* Every step of main() is a step of data_storage's client, or leaves       *)
(* data_storage alone; so what was proved of data_storage holds of it.      *)
LEMMA StepsOfStorage == [SNext]_<< vars, input >> => [Next]_vars
<1>1. ASSUME NEW l \in Lines, NEW i \in Incs, ReadCounter(l, i) PROVE Next
  <2>1. Name(l) \in Names /\ BeginIncrement(Name(l), i)
    BY <1>1, StatsdAssumption DEF StatsdAssumption, ReadCounter
  <2> QED
    BY <2>1 DEF Next, ClientNext
<1>2. ASSUME NEW l \in Lines, ReadGarbage(l) PROVE Next
  BY <1>2 DEF ReadGarbage, Next, ClientNext
<1>3. RejectLine \/ EndOfInput => Next
  BY DEF RejectLine, EndOfInput, Next, ClientNext
<1>4. StorageNext => Next
  BY DEF StorageNext, Next, ClientNext
<1>5. AcceptLine => UNCHANGED vars
  BY DEF AcceptLine
<1> QED
  BY <1>1, <1>2, <1>3, <1>4, <1>5 DEF SNext

(* The program uses data_storage as its interface allows: every execution   *)
(* of main() is one of data_storage with some client.                       *)
THEOREM MainUsesStorage == SSpec => Spec
<1>1. SInit => Init
  BY DEF SInit
<1> QED
  BY <1>1, StepsOfStorage, PTL DEF SSpec, Spec

-----------------------------------------------------------------------------
(* Where main() is, and how many of the increments of the lines have        *)
(* reached the storage by then: those of the accepted lines, and between    *)
(* the return of counter_increment() and the end of its line one more.      *)
OneMore == issued = Plus(accepted, One(call.name, call.inc))
OfThisLine == Counts(line) /\ call.name = Name(line)

LoopOK ==
  /\ at = "getline" => client \in {"ctor", "idle"} /\ issued = accepted
  /\ at = "eol" =>
       /\ OfThisLine
       /\ \/ client \in {"increment", "crashed"} /\ issued = accepted
          \/ client = "idle" /\ OneMore
  /\ at = "threw" => client = "crashed" /\ (issued = accepted \/ (OfThisLine /\ OneMore))
  /\ at = "join" => client \in {"joining", "done"} /\ issued = accepted

(* The steps that main() takes itself. *)
LEMMA LoopSteps ==
  ASSUME TypeOK, STypeOK, LoopOK,
         \/ \E l \in Lines, i \in Incs : ReadCounter(l, i)
         \/ \E l \in Lines : ReadGarbage(l)
         \/ AcceptLine \/ RejectLine \/ EndOfInput
  PROVE  STypeOK' /\ LoopOK'
<1>1. ASSUME NEW l \in Lines, NEW i \in Incs, ReadCounter(l, i)
      PROVE  STypeOK' /\ LoopOK'
  <2>1. /\ at = "getline" /\ at' = "eol" /\ line' = l /\ Counts(l)
        /\ client' = "increment" /\ issued' = issued /\ accepted' = accepted
        /\ call' = [name |-> Name(l), inc |-> i, storage |-> m_current_raw_storage]
    BY <1>1 DEF ReadCounter, BeginIncrement, ClientStep
  <2>2. OfThisLine'
    BY <2>1 DEF OfThisLine
  <2> QED
    BY <2>1, <2>2 DEF STypeOK, MainStates, LoopOK
<1>2. ASSUME NEW l \in Lines, ReadGarbage(l)
      PROVE  STypeOK' /\ LoopOK'
  BY <1>2 DEF ReadGarbage, Abort, Crash, ClientStep, STypeOK, MainStates, LoopOK
<1>3. CASE AcceptLine
  <2>1. /\ at = "eol" /\ client = "idle" /\ at' = "getline"
        /\ accepted' = Plus(accepted, One(call.name, call.inc))
        /\ client' = client /\ issued' = issued /\ line' = line
    BY <1>3 DEF AcceptLine, vars
  <2>2. One(call.name, call.inc) \in [Names -> Nat]
    BY OneType DEF TypeOK
  <2>3. accepted' \in [Names -> Nat]
    BY <2>1, <2>2, PlusType DEF STypeOK
  <2>4. issued' = accepted'
    BY <2>1 DEF LoopOK, OneMore
  <2> QED
    BY <2>1, <2>3, <2>4 DEF STypeOK, MainStates, LoopOK
<1>4. CASE RejectLine
  <2>1. /\ at = "eol" /\ client = "idle" /\ at' = "threw" /\ client' = "crashed"
        /\ UNCHANGED << call, issued, line, accepted >>
    BY <1>4 DEF RejectLine, Abort, Crash, ClientStep
  <2>2. OfThisLine' /\ OneMore'
    BY <2>1 DEF LoopOK, OfThisLine, OneMore
  <2> QED
    BY <2>1, <2>2 DEF STypeOK, MainStates, LoopOK
<1>5. CASE EndOfInput
  BY <1>5 DEF EndOfInput, Join, ClientStep, STypeOK, MainStates, LoopOK
<1> QED
  BY <1>1, <1>2, <1>3, <1>4, <1>5

(* The steps of data_storage, while main() waits or does not look. *)
LEMMA StorageSteps ==
  ASSUME STypeOK, LoopOK, StorageNext
  PROVE  STypeOK' /\ LoopOK'
<1>1. UNCHANGED << at, line, accepted >>
  BY DEF StorageNext, input
<1>2. STypeOK'
  BY <1>1 DEF STypeOK
<1>3. CASE FinishCtor
  <2>1. client = "ctor" /\ client' = "idle" /\ issued' = issued
    BY <1>3 DEF FinishCtor, ClientStep
  <2>2. at = "getline" /\ issued = accepted
    BY <2>1 DEF LoopOK, STypeOK, MainStates
  <2> QED
    BY <1>1, <1>2, <2>1, <2>2 DEF LoopOK
<1>4. CASE EndIncrement
  <2>1. /\ client = "increment" /\ client' = "idle" /\ call' = call
        /\ issued' = Plus(issued, One(call.name, call.inc))
    BY <1>4 DEF EndIncrement, ClientStep
  <2>2. at = "eol" /\ OfThisLine /\ issued = accepted
    BY <2>1, <1>2 DEF LoopOK, STypeOK, MainStates
  <2>3. OfThisLine' /\ OneMore'
    BY <1>1, <2>1, <2>2 DEF OfThisLine, OneMore
  <2> QED
    BY <1>1, <1>2, <2>1, <2>2, <2>3 DEF LoopOK
<1>5. CASE CrashInIncrement
  <2>1. client = "increment" /\ client' = "crashed" /\ call' = call /\ issued' = issued
    BY <1>5 DEF CrashInIncrement, Crash, ClientStep
  <2>2. at = "eol" /\ OfThisLine /\ issued = accepted
    BY <2>1 DEF LoopOK, STypeOK, MainStates
  <2>3. OfThisLine'
    BY <1>1, <2>1, <2>2 DEF OfThisLine
  <2> QED
    BY <1>1, <1>2, <2>1, <2>2, <2>3 DEF LoopOK
<1>6. CASE JoinReturn
  <2>1. client = "joining" /\ client' = "done" /\ issued' = issued
    BY <1>6 DEF JoinReturn, ClientStep
  <2>2. at = "join"
    BY <2>1 DEF LoopOK, STypeOK, MainStates
  <2> QED
    BY <1>1, <1>2, <2>1, <2>2 DEF LoopOK
<1>7. CASE DumperNext \/ SetClock \/ Terminated
  <2>1. UNCHANGED << client, call, issued >>
    BY <1>7 DEF DumperNext, BeginWait, Timeout, Wake, MakeStorage, Swap, DumpOld, Release,
                DumperStep, SetClock, Terminated, vars
  <2> QED
    BY <1>1, <1>2, <2>1 DEF LoopOK, OneMore, OfThisLine
<1> QED
  BY <1>2, <1>3, <1>4, <1>5, <1>6, <1>7 DEF StorageNext

(* main() is where its loop says, with the line it read last.               *)
THEOREM MainTypeCorrect == SSpec => [](STypeOK /\ LoopOK)
<1>1. SInit => STypeOK /\ LoopOK
  BY NoCountsType DEF SInit, Init, STypeOK, MainStates, LoopOK
<1>2. TypeOK /\ STypeOK /\ LoopOK /\ [SNext]_<< vars, input >> => STypeOK' /\ LoopOK'
  <2> SUFFICES ASSUME TypeOK, STypeOK, LoopOK, [SNext]_<< vars, input >>
               PROVE  STypeOK' /\ LoopOK'
    OBVIOUS
  <2>1. CASE UNCHANGED << vars, input >>
    BY <2>1 DEF vars, input, STypeOK, LoopOK, OneMore, OfThisLine
  <2> QED
    BY <2>1, LoopSteps, StorageSteps DEF SNext
<1> QED
  BY <1>1, <1>2, MainUsesStorage, TypeCorrect, PTL DEF SSpec

(* A counter of a line reaches the storage before the line is accepted: all *)
(* that is in the storage is of accepted lines, but for the increment of    *)
(* the line that main() is at, or threw at.                                 *)
THEOREM LastLineOnly == SSpec => []OnlyLastLineIsUnaccepted
<1>1. TypeOK /\ STypeOK /\ LoopOK => OnlyLastLineIsUnaccepted
  <2> SUFFICES ASSUME TypeOK, STypeOK, LoopOK, NEW n \in Names
               PROVE  /\ accepted[n] <= issued[n]
                      /\ issued[n] > accepted[n] =>
                           /\ at # "getline"
                           /\ n = Name(line)
                           /\ issued[n] = accepted[n] + call.inc
    BY DEF OnlyLastLineIsUnaccepted
  <2>1. accepted[n] \in Nat /\ issued[n] \in Nat /\ call.inc \in Nat
    BY DataStorageAssumption DEF TypeOK, STypeOK, DataStorageAssumption
  <2>2. CASE issued = accepted
    BY <2>1, <2>2
  <2>3. CASE OneMore /\ OfThisLine /\ at # "getline"
    <3>1. issued[n] = accepted[n] + One(call.name, call.inc)[n]
      BY <2>3 DEF OneMore, Plus
    <3>2. One(call.name, call.inc)[n] = IF n = Name(line) THEN call.inc ELSE 0
      BY <2>3 DEF One, OfThisLine
    <3> QED
      BY <2>1, <2>3, <3>1, <3>2
  <2> QED
    BY <2>2, <2>3 DEF LoopOK, STypeOK, MainStates
<1> QED
  BY <1>1, MainTypeCorrect, MainUsesStorage, TypeCorrect, PTL

(* End to end: what main() has read and accepted is printed once when it    *)
(* returns, but for what was lost in the unlocked window, provided the dump *)
(* thread does not outrun the constructor.                                  *)
THEOREM InputIsReported ==
  ASSUME ~CtorRace
  PROVE  SSpec => []ExitReportsInput
<1>1. TypeOK /\ STypeOK /\ LoopOK /\ Conservation /\ ExitReportsAll => ExitReportsInput
  <2> SUFFICES ASSUME TypeOK, STypeOK, LoopOK, Conservation, ExitReportsAll,
                      client = "done", NEW n \in Names
               PROVE  printed[n] + lost[n] = accepted[n]
    BY DEF ExitReportsInput
  <2>1. Pending[n] = 0 /\ issued[n] = printed[n] + lost[n] + Pending[n]
    BY DEF ExitReportsAll, Conservation
  <2>2. issued = accepted
    BY DEF LoopOK, STypeOK, MainStates
  <2> QED
    BY <2>1, <2>2 DEF TypeOK
<1> QED
  BY <1>1, MainTypeCorrect, MainUsesStorage, TypeCorrect, IncrementsConserved, ExitIsComplete,
     PTL
=============================================================================
