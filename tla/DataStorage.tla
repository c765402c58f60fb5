------------------------------ MODULE DataStorage ------------------------------
(***************************************************************************)
(* The class data_storage of src/DataStorage.hh: the counters of the        *)
(* running interval, and the thread that swaps them out, prints them and    *)
(* starts the next interval.                                                *)
(*                                                                          *)
(* Two threads share the object.  The client (the thread that constructed   *)
(* it) calls counter_increment() any number of times and then join().  The  *)
(* dump thread runs run(): wait, dump(), and leave when m_terminate was set.*)
(* counter_increment() and dump() use no lock, so counter_increment() is    *)
(* two steps here: the read of the pointer m_current_raw_storage, and the   *)
(* update of the raw_storage it pointed to at that moment.                  *)
(*                                                                          *)
(* A raw_storage is an object at a heap address.  A freed address may be    *)
(* handed out again, so a pointer that went stale can come to point to a    *)
(* younger storage.  What the C++ leaves undefined is a choice over what a  *)
(* build does: an update of a freed storage is lost or kills the process,   *)
(* an update of a storage that is being printed is printed, or comes too    *)
(* late, or kills the process; m_terminate holds any value until the        *)
(* constructor reaches it.  Increments are natural numbers; the rounding of *)
(* the C++ doubles is left out.                                             *)
(***************************************************************************)
EXTENDS Integers

CONSTANTS
  Names,      \* counter names
  Incs,       \* the increments a caller may pass
  Addrs,      \* heap addresses a raw_storage can be allocated at
  Times,      \* the readings of system_clock, which may be set back
  MaxCalls,   \* bound: calls of counter_increment()
  CtorRace    \* may the dump thread run before the constructor has returned?

ASSUME DataStorageAssumption ==
  /\ Incs \subseteq Nat
  /\ MaxCalls \in Nat
  /\ CtorRace \in BOOLEAN
  \* make_shared finds a free address while two storages are alive
  /\ \A a, b \in Addrs : Addrs \ {a, b} # {}

VARIABLES
  live,                   \* addresses that hold a raw_storage
  m_counters,             \* per address: the counters of that raw_storage
  m_time_begin,           \* per address: when that raw_storage was made
  m_current_raw_storage,  \* the storage the client adds to
  d_storage,              \* the local variable of dump()
  m_terminate,
  should_terminate,       \* the local variable of run()
  signalled,              \* wait_for() of the dump thread has a reason to return
  client,                 \* where the client is
  call,                   \* arguments and pointer of the running counter_increment()
  dumper,                 \* where the dump thread is
  clock

(* History: what was asked for, and what became of it. *)
VARIABLES
  calls,          \* calls of counter_increment() that began
  issued,         \* per name: sum of the increments of the calls that returned
  printed,        \* per name: sum of the printed values
  printed_until,  \* end of the last printed interval
  lost,           \* per name: increments that no dump prints
  lost_in_dump    \* number of increments lost since the last swap

store    == << live, m_counters, m_time_begin >>
pointers == << m_current_raw_storage, d_storage >>
flags    == << m_terminate, should_terminate, signalled >>
output   == << printed, printed_until >>
loss     == << lost, lost_in_dump >>
vars     == << store, pointers, flags, client, call, dumper, clock, calls,
               issued, output, loss >>

ClientStates == {"ctor", "idle", "increment", "joining", "done", "crashed"}
DumperStates == {"run", "waiting", "make", "swap", "print", "release", "exited"}

NoCounts == [n \in Names |-> 0]

(* f and g added up, name by name; the increment i of name n alone. *)
Plus(f, g) == [n \in Names |-> f[n] + g[n]]
One(n, i)  == [m \in Names |-> IF m = n THEN i ELSE 0]

-----------------------------------------------------------------------------
(* Mutants of Increment: insert without find; a wrong sign. *)
IncrementInserts(a, n, i) ==
  m_counters' = [m_counters EXCEPT ![a] = [@ EXCEPT ![n] = i]]
IncrementSubtracts(a, n, i) ==
  m_counters' = [m_counters EXCEPT ![a] = Plus(m_counters[a], One(n, -i))]

(* raw_counters::increment: find and insert, or find and add. *)
Increment(a, n, i) ==
  m_counters' = [m_counters EXCEPT ![a] = Plus(m_counters[a], One(n, i))]

(* std::make_shared<raw_storage>() at the free address a. *)
MakeRawStorage(a) ==
  /\ live' = live \cup {a}
  /\ m_counters' = [m_counters EXCEPT ![a] = NoCounts]
  /\ m_time_begin' = [m_time_begin EXCEPT ![a] = clock]

(* The state in the middle of the constructor: the members up to            *)
(* m_dump_thread are initialised, so the thread exists; m_terminate is not. *)
Init ==
  \E a \in Addrs, t \in Times :
    /\ live = {a}
    /\ m_counters = [b \in Addrs |-> NoCounts]
    /\ m_time_begin = [b \in Addrs |-> t]
    /\ m_current_raw_storage = a
    /\ d_storage = a
    /\ m_terminate \in BOOLEAN
    /\ should_terminate = FALSE
    /\ signalled = FALSE
    /\ client = "ctor"
    /\ call \in [name : Names, inc : Incs, storage : {a}]
    /\ dumper = "run"
    /\ clock = t
    /\ calls = 0
    /\ issued = NoCounts
    /\ printed = NoCounts
    /\ printed_until = t
    /\ lost = NoCounts
    /\ lost_in_dump = 0

-----------------------------------------------------------------------------
(* A step of the client alone, to the state to. *)
ClientStep(from, to) ==
  /\ client = from
  /\ client' = to
  /\ UNCHANGED << live, m_time_begin, pointers, should_terminate, dumper,
                  clock, output >>

(* The rest of the constructor. *)
FinishCtor ==
  /\ ClientStep("ctor", "idle")
  /\ m_terminate' = FALSE
  /\ UNCHANGED << m_counters, signalled, call, calls, issued, loss >>

(* Mutant of BeginIncrement: the pointer of the previous call is used again. *)
BeginIncrementCached(n, i) ==
  /\ ClientStep("idle", "increment")
  /\ calls < MaxCalls
  /\ calls' = calls + 1
  /\ call' = [call EXCEPT !.name = n, !.inc = i]
  /\ UNCHANGED << m_counters, m_terminate, signalled, issued, loss >>

(* counter_increment(n, i): m_current_raw_storage-> reads the pointer. *)
BeginIncrement(n, i) ==
  /\ ClientStep("idle", "increment")
  /\ calls < MaxCalls
  /\ calls' = calls + 1
  /\ call' = [name |-> n, inc |-> i, storage |-> m_current_raw_storage]
  /\ UNCHANGED << m_counters, m_terminate, signalled, issued, loss >>

(* A storage that nobody will print any more: freed, or about to be. *)
TooLate(a) ==
  \/ a \notin live
  \/ dumper = "release" /\ a = d_storage

(* counter_increment(n, i): the update of the storage the pointer led to. *)
EndIncrement ==
  LET amount == One(call.name, call.inc)
  IN /\ ClientStep("increment", "idle")
     /\ IF call.storage \in live
        THEN Increment(call.storage, call.name, call.inc)
        ELSE UNCHANGED m_counters
     /\ issued' = Plus(issued, amount)
     /\ IF TooLate(call.storage)
        THEN lost' = Plus(lost, amount) /\ lost_in_dump' = lost_in_dump + 1
        ELSE UNCHANGED loss
     /\ UNCHANGED << m_terminate, signalled, call, calls >>

(* The process dies: an exception left the client's code, or an update hit  *)
(* a storage that was freed or that the dump thread is walking through.     *)
Crash(from) ==
  /\ ClientStep(from, "crashed")
  /\ UNCHANGED << m_counters, m_terminate, signalled, call, calls, issued, loss >>

Abort == Crash("idle")

CrashInIncrement ==
  /\ Crash("increment")
  /\ \/ TooLate(call.storage)
     \/ dumper = "print" /\ call.storage = d_storage

(* join(), up to m_dump_thread.join(): the locked block, one step because   *)
(* every access to m_terminate after the constructor holds the mutex.  A    *)
(* notification nobody waits for is gone.                                   *)
Join ==
  /\ ClientStep("idle", "joining")
  /\ m_terminate' = TRUE
  /\ signalled' = (signalled \/ dumper = "waiting")
  /\ UNCHANGED << m_counters, call, calls, issued, loss >>

(* join(): m_dump_thread.join() returns. *)
JoinReturn ==
  /\ ClientStep("joining", "done")
  /\ dumper = "exited"
  /\ UNCHANGED << m_counters, m_terminate, signalled, call, calls, issued, loss >>

-----------------------------------------------------------------------------
(* A step of the dump thread alone, which dies with the process. *)
DumperStep(from, to) ==
  /\ client # "crashed"
  /\ dumper = from
  /\ dumper' = to
  /\ UNCHANGED << m_terminate, client, call, clock, calls, issued, lost >>

(* run(): lock, and wait_for() releases the lock.  The lock is the first    *)
(* member the thread uses that the constructor initialises after starting it.*)
BeginWait ==
  /\ DumperStep("run", "waiting")
  /\ client = "ctor" => CtorRace
  /\ signalled' = FALSE
  /\ UNCHANGED << store, pointers, should_terminate, output, lost_in_dump >>

(* Mutant of Timeout: wait() instead of wait_for(), and round again.  *)
TimeoutIgnored ==
  /\ DumperStep("waiting", "waiting")
  /\ UNCHANGED << store, pointers, should_terminate, signalled, output, lost_in_dump >>

(* m_wait_interval is over, or the wait ends spuriously. *)
Timeout ==
  /\ DumperStep("waiting", "waiting")
  /\ ~signalled
  /\ signalled' = TRUE
  /\ UNCHANGED << store, pointers, should_terminate, output, lost_in_dump >>

(* run(): wait_for() returns with the lock; m_terminate is read; unlock. *)
Wake ==
  /\ DumperStep("waiting", "make")
  /\ signalled
  /\ should_terminate' = m_terminate
  /\ UNCHANGED << store, pointers, signalled, output, lost_in_dump >>

(* dump(): the storage of the next interval. *)
MakeStorage ==
  /\ DumperStep("make", "swap")
  /\ \E a \in Addrs \ live : MakeRawStorage(a) /\ d_storage' = a
  /\ UNCHANGED << m_current_raw_storage, should_terminate, signalled, output,
                  lost_in_dump >>

(* Mutant of Swap: an assignment instead of the swap. *)
SwapAssigns ==
  /\ DumperStep("swap", "print")
  /\ m_current_raw_storage' = d_storage
  /\ lost_in_dump' = 0
  /\ UNCHANGED << store, d_storage, should_terminate, signalled, output >>

(* dump(): m_current_raw_storage.swap(d_storage). *)
Swap ==
  /\ DumperStep("swap", "print")
  /\ m_current_raw_storage' = d_storage
  /\ d_storage' = m_current_raw_storage
  /\ lost_in_dump' = 0
  /\ UNCHANGED << store, should_terminate, signalled, output >>

(* Mutants of DumpOld: the interval ends now; the current storage is printed. *)
DumpOldNow ==
  /\ DumperStep("print", "release")
  /\ printed' = Plus(printed, m_counters[d_storage])
  /\ printed_until' = clock
  /\ UNCHANGED << store, pointers, should_terminate, signalled, lost_in_dump >>
DumpOldCurrent ==
  /\ DumperStep("print", "release")
  /\ printed' = Plus(printed, m_counters[m_current_raw_storage])
  /\ printed_until' = m_time_begin[m_current_raw_storage]
  /\ UNCHANGED << store, pointers, should_terminate, signalled, lost_in_dump >>

(* dump(): d_storage->dump(), whose interval ends where the next one begins. *)
DumpOld ==
  /\ DumperStep("print", "release")
  /\ printed' = Plus(printed, m_counters[d_storage])
  /\ printed_until' = m_time_begin[m_current_raw_storage]
  /\ UNCHANGED << store, pointers, should_terminate, signalled, lost_in_dump >>

(* Mutant of Release: m_terminate is read after the dump. *)
ReleaseLate ==
  /\ DumperStep("release", IF m_terminate THEN "exited" ELSE "run")
  /\ live' = live \ {d_storage}
  /\ UNCHANGED << m_counters, m_time_begin, pointers, should_terminate,
                  signalled, output, lost_in_dump >>

(* The end of dump(): the local d_storage held the last reference.  Then    *)
(* run() leaves its loop or goes round, with a new should_terminate.        *)
Release ==
  /\ DumperStep("release", IF should_terminate THEN "exited" ELSE "run")
  /\ live' = live \ {d_storage}
  /\ UNCHANGED << m_counters, m_time_begin, pointers, should_terminate,
                  signalled, output, lost_in_dump >>

-----------------------------------------------------------------------------
(* system_clock shows another reading. *)
SetClock ==
  /\ client \notin {"done", "crashed"}
  /\ clock' \in Times \ {clock}
  /\ UNCHANGED << store, pointers, flags, client, call, dumper, calls, issued,
                  output, loss >>

(* Nothing is left to do: join() returned, or the process died. *)
Terminated ==
  /\ client \in {"done", "crashed"}
  /\ UNCHANGED vars

ClientNext ==
  \/ FinishCtor
  \/ \E n \in Names, i \in Incs : BeginIncrement(n, i)
  \/ EndIncrement
  \/ CrashInIncrement
  \/ Abort
  \/ Join
  \/ JoinReturn

DumperNext ==
  \/ BeginWait
  \/ Timeout
  \/ Wake
  \/ MakeStorage
  \/ Swap
  \/ DumpOld
  \/ Release

Next == ClientNext \/ DumperNext \/ SetClock \/ Terminated

Spec == Init /\ [][Next]_vars

-----------------------------------------------------------------------------
(* Every variable has its type. *)
TypeOK ==
  /\ live \in SUBSET Addrs
  /\ m_counters \in [Addrs -> [Names -> Nat]]
  /\ m_time_begin \in [Addrs -> Times]
  /\ m_current_raw_storage \in Addrs
  /\ d_storage \in Addrs
  /\ m_terminate \in BOOLEAN
  /\ should_terminate \in BOOLEAN
  /\ signalled \in BOOLEAN
  /\ client \in ClientStates
  /\ call \in [name : Names, inc : Incs, storage : Addrs]
  /\ dumper \in DumperStates
  /\ clock \in Times
  /\ calls \in 0..MaxCalls
  /\ issued \in [Names -> Nat]
  /\ printed \in [Names -> Nat]
  /\ printed_until \in Times
  /\ lost \in [Names -> Nat]
  /\ lost_in_dump \in Nat

(* What a coming dump will print: the current storage, and the other one    *)
(* from when it is made until it is printed.                                *)
Pending ==
  [n \in Names |->
     m_counters[m_current_raw_storage][n]
       + IF dumper \in {"swap", "print"} THEN m_counters[d_storage][n] ELSE 0]

(* Ownership: the dump thread never touches a freed storage, never shares   *)
(* one storage between two intervals, and leaks none: what is allocated is  *)
(* the current storage and, inside dump(), the one d_storage holds.         *)
HeapSafe ==
  LET held == IF dumper \in {"swap", "print", "release"} THEN {d_storage} ELSE {}
  IN /\ live = {m_current_raw_storage} \cup held
     /\ m_current_raw_storage \notin held

(* Every increment whose call has returned is accounted for exactly once:   *)
(* it was printed, is still to be printed, or was lost in the unlocked      *)
(* window of counter_increment().  Nothing is printed twice.                *)
Conservation ==
  \A n \in Names : issued[n] = printed[n] + lost[n] + Pending[n]

(* The window is narrow: between two swaps at most one increment is lost,   *)
(* because the single client reloads the pointer for every call.            *)
AtMostOneLostPerDump == lost_in_dump <= 1

(* The intervals tile the running time: the one about to be printed begins  *)
(* exactly where the last printed one ended, even if the clock is set.      *)
IntervalsTile ==
  m_time_begin[IF dumper = "print" THEN d_storage ELSE m_current_raw_storage]
    = printed_until

(* When join() has returned, the last dump has printed everything that was  *)
(* added (main(): "Dump data"): the dump thread reads m_terminate before    *)
(* its last dump, not after it.                                             *)
ExitReportsAll == client = "done" => \A n \in Names : Pending[n] = 0

(* The storage as a ledger: an increment is lost on arrival, by a client    *)
(* whose pointer is too old, or not at all; a dump loses nothing, and what  *)
(* it takes out it prints at once and only once.                            *)
L == INSTANCE Ledger WITH
       Amounts <- Incs, Losses <- {"arrival"}, Modulus <- 0,
       arrived <- issued, held <- Pending, reported <- printed

ImplementsLedger == L!Spec

(* join() returns, notified or not, unless the process dies. *)
JoinReturns == client = "joining" ~> client = "done"

(* README: "Think what you want to measure and do this reliable."  No       *)
(* increment is ever lost.                                                  *)
NothingLost == \A n \in Names : lost[n] = 0
=============================================================================
