# A TLA+ model of statsd-cpp

This directory specifies the two parts of this repository: the daemon `statsd`
(`src/main.cc`, `src/DataStorage.hh`) and the client library `statsdcpp`
(`lib/statsdcpp`), with the one program that drives the library from many
threads (`lib/statsdcpp/performancetests/CorrelatorPerformance.cc`). File names
below are relative to the repository; `PROJECT.json` maps each definition to its
lines.

## The system

| component | state | operations | hard part |
|---|---|---|---|
| `data_storage` (DataStorage.hh) | shared pointer to the storage of the running interval, `m_terminate`, mutex, condition variable | constructor (starts the dump thread), `counter_increment()`, `join()`; dump thread: `run()`, `dump()` | `counter_increment()` and `dump()` share the pointer without a lock; the thread starts before the members it uses are initialised; a notification can be lost |
| `raw_storage`, `raw_counters` (DataStorage.hh) | counters and begin of one interval | `increment()`, `dump()` | may be freed, or printed, while it is updated |
| line grammar (main.cc) | `statsd_data`, one for all lines | the PEGTL rules of `read_statsd_line`, four actions | actions run before the line is known to be right, and hand its parts on in a struct that outlives it; `std::stod` throws |
| PEGTL (contrib/pegtl-0.32) | the position in the input, marks | rules that call rules, `basic_debug` | a rule that fails must leave the input where it was, but only where something else can be tried; elsewhere it throws |
| `main()` (main.cc) | the position in the loop | getline, parse, `join()` | nothing catches the parser's exceptions |
| `collector` (collector.hh) | list of measurables | `generate_...()`, `flush()` | the list has no lock |
| `counter`, `base` (counter.hh, base.hh) | `_cnt` (atomic), `_begin_ts` | `inc()`, `serialize_debug()`, `serialize_carbon()` | the clock is read, then the counter is reset, then the report is written; increments come in between, the write may fail; wrap-around |
| `output::fd` (output/fd.hh) | descriptor, -1 once closed | `write()` | an error or a short write closes it for good, silently for the caller, and for all who share it |
| `measure` (measure.hh) | minimum, maximum, sum, count, `_begin_ts`, a mutex | `add()`, both serialize methods | minimum and maximum are not reset with the others; the clock must be read under the mutex |
| `correlator` (correlator.hh) | where each request was seen last, one measure and one counter per transition, counters of what it did not know | `in()`, `seen()`, `out()`, both serialize methods | long sequences of calls by several threads, in any order; durations must neither overlap nor lack a count, nor a report mix two states |
| CorrelatorPerformance.cc | bounded queues, eleven threads, one correlator | `f_in`, `f_process`, `f_out`, `main()` | end markers, full queues, threads that wait for each other |
| `quantity`, `timeutils`, serializers, `output::string` | none, or a string | arithmetic with dimensions, middle of an interval | |

How they interact: `main()` calls `counter_increment()` from inside the parser;
the dump thread of `data_storage` prints. In the library, application threads
call `inc()`, `add()`, `in()`, `seen()`, `out()`; the thread that calls `flush()`
visits each measurable of the collector's list through the serializer, and each
writes its report to the writer. A correlator contains counters and measures
and serializes them itself. The two halves share no code, and one promise: an
event that was counted is reported, once. Module `Ledger` states that promise, and
`DataStorage` and `Collector` are both shown to keep it, each with a `Losses` of its own: the
storage may lose an amount on arrival and nowhere else, the collector by a wrap-around
or in a report and nowhere else.

## The modules

| module | models | notes |
|---|---|---|
| `Ledger` | the promise | amounts arrive, are held, are reported once; the constant `Losses` says which steps may lose any: the arrival, an overflow, or the report that has taken them out |
| `DataStorage` | `data_storage`, `raw_storage`, `raw_counters` | two threads; refines `Ledger` |
| `DataStorageProofs` | | theorems on `DataStorage` |
| `LineParser` | the grammar, as operators on lines | no state |
| `Parser` | PEGTL running `read_statsd_line` with its actions; extends `LineParser` | a stack of rule calls; agrees with `LineParser` on every line up to a length |
| `Statsd` | `main()`; extends `DataStorage` and `LineParser` | a call of the parser and the calls it makes are steps of `DataStorage` conjoined with those of `main()` |
| `Writer` | `output::fd`, `output::string` | one variable, one operation |
| `Collector` | `collector`, `counter`, `base`, `timeutils`, serializers; extends `Writer` | refines `Ledger` |
| `MeasureData` | the data of a measure, as operators | used by the next two |
| `Measure` | `measure` | |
| `Correlator` | `correlator`, each method one step; extends `MeasureData` | the abstract specification of the next one |
| `CorrelatorThreads` | `correlator` with its threads, statement by statement; extends `Correlator` and `Writer` | refines `Correlator` |
| `Pipeline` | CorrelatorPerformance.cc; extends `Correlator` | the queues are modelled from their use |
| `SumProofs` | | lemmas on sums over finite sets, for two of the next three |
| `CollectorProofs`, `MeasureProofs`, `CorrelatorProofs` | | theorems on `Collector`, `Measure`, `CorrelatorThreads` |
| `ParserProofs`, `StatsdProofs` | | theorems on `LineParser` and `Parser`, on `Statsd` |
| `PipelineProofs` | | theorems on `Pipeline` |
| `MC...` | model values and symmetry for TLC | |

Operators described as mutants stand before the definition they are a wrong
version of. Each property of a passing run has one, listed in `PROJECT.json`:
with the mutant in place of the definition, TLC finds the property violated.

### DataStorage

A `raw_storage` is an address with counters and a begin. `Addrs` is finite, and a
freed address can be handed out again: three addresses are enough for the
current storage, the one in `dump()` and a stale one in the client's hands.
`counter_increment()` is `BeginIncrement` (the pointer is read) and
`EndIncrement` (the storage it led to is updated), or `CrashInIncrement`. `join()`
is `Join` (the locked block) and `JoinReturn`. The dump thread is `BeginWait`,
`Timeout` (also a spurious wake-up), `Wake`, `MakeStorage`, `Swap`, `DumpOld`,
`Release`. The locked blocks are one step each, since every access to
`m_terminate` after the constructor holds the mutex.

What C++ leaves undefined is a choice over what a build does. An update of a
freed storage is lost, hits the storage that now lives there, or kills the
process; an update of a storage that is being printed is in the print, too late
for it, or kills the process. With `CtorRace`, the dump thread may lock and wait
before the constructor has returned, and `m_terminate` holds any value until the
constructor sets it. `Abort` is the exception that leaves the client's code. Not
modelled: corruption of unrelated memory, a torn read of the shared pointer.

History variables say what was issued, printed and lost.

### Statsd

`at` is the position of `main()`. `ReadCounter` reads a line that reaches
`increment_counter`, and begins the increment; `AcceptLine` and `RejectLine` are
the parser at the end of the line, when the increment is done; `ReadGarbage` is a
line that throws before. `StorageNext` is all that `data_storage` does meanwhile.

### LineParser

Lines are sequences of characters, of which the letters but for `c` are one class, and
whatever occurs nowhere in the grammar another. Digits are themselves (constant `Digits`), since `Stod`
looks at what they say: it throws on a text without a number, and on a number that is
beyond the range of `double`. Which ones that are is the constant `OutOfRange`, a set of
numbers: with all ten digits and the numbers for which `strtod()` sets `ERANGE` the
module is about `double` as it is (several hundred digits are needed for that), and the runs scale
it down. `LeadingNumber` is the part of the text that `strtod()` reads. A repetition takes all it can and gives
none back (`Takes`), which is how PEGTL runs `plus`; `Increments` is what has to
match before `increment_counter` runs, `Eol` what comes after.

`Statsd` uses these operators as the parser. That PEGTL comes to the same result is
what `Parser` shows.

### Parser

`Grammar` is `read_statsd_line` as a table of rules; the alternatives of single
characters (`alnum`, `digit`, `'.'`) are one set each. `frames` is the C++ call stack
of `match()` functions: `Call` pushes, `Return` pops with an answer, and `basic_debug`
turns a failure into an exception where the template parameter `Must` says so
(`Guarded`: `ifapply` calls its rule directly, past `basic_debug`). `Rollback` is the
marker of a `seq`, which exists only for several rules that need not match.
`IfApply` stores into `data`, the `statsd_data` of `main()`, which begins with
what some earlier line left there. Every behaviour is one line, read character by
character and then parsed.

### Collector

The list, and per counter `_cnt` and `_begin_ts`. Serializing one counter in the
carbon format is `Stamp` (the clock is read), `GetAndReset` (the exchange) and
`Report` (the write and the new `_begin_ts`); in the debug format `GetAndReset` and
`Report`. `Inc`, `GenerateCounter`, `GenerateOther` and `Tick` come at any time in
between. `_cnt` counts modulo `Modulus`. The variable `serializer` is the template
argument: it is chosen at the start and never changes. `Others` are measures and
correlators in the same list; all a counter notices of them is `SerializeOther`: the
time they take, and that one of their writes may close the writer.

### Measure

`add()` is one step, possible while nobody serializes (`MutexIsFree`). A serializing
thread takes the mutex with `Lock`; `Stamp` and `SerializeCarbon` are the statements
of `serialize_carbon()` that the clock can get in between.

### Correlator, CorrelatorThreads, Pipeline

In `Correlator` each method is one step, of whatever thread. A `seen()` reads the
clock twice, in `seen_locked()` and in `in_locked()`, and the model has both readings.
`clock` is the last reading.

`CorrelatorThreads` takes the methods apart: `LockRequest` or `LockReport`, then the
statements `Statements(op)` one by one, then `Unlock`. A serialize method has one
statement per counter and measure, each with a write of its own that may fail. The
statements change the variables of `Correlator`; the refinement mapping reads
`committed`, their values when the mutex was last unlocked, so that each method takes
effect there. The parts of a correlator do not matter to it for free: `add_locked()` is
called without the lock of the measure, and the measure's serialize methods take that
lock only; it is the correlator's mutex alone that keeps them apart.

`Pipeline` adds queues and threads to `Correlator`: `pop()` and the call of the
correlator after it are one step, because no other thread has that request.

## The runs

| run | module, cfg | result | question |
|---|---|---|---|
| storage | MCDataStorage | holds | where does every increment go, who owns which storage |
| storage_loses | DataStorageLoss.cfg | violated | is no increment ever lost? |
| storage_constructor_race | DataStorageCtor.cfg | violated | does the last dump print everything although the thread starts early? |
| line_grammar | MCParser | holds | which lines count, and do rules, marks and exceptions come to that |
| program | MCStatsd | holds | from the input to the print, and that it happens |
| program_bad_line | StatsdInput.cfg | violated | does a bad line leave the counters alone? |
| collector | MCCollector | holds | is each increment reported once, for no interval that begins after it, without gaps, and in the end |
| collector_loses | CollectorLoss.cfg | violated | is nothing lost with a write that fails? |
| measure | MCMeasure | holds | is each report exact, and of its interval |
| correlator | MCCorrelator | holds | are methods atomic, calls counted once, durations disjoint, reports consistent |
| pipeline | MCPipeline | holds | with queues that hold everything: does it end, and does the correlator know what is on its way |
| pipeline_hangs | PipelineHang.cfg | violated | does it end with queues that fill up? |

What the properties say:

* `HeapSafe`: what is allocated is the current storage and, within `dump()`, the old
  or the new one; the dump thread never prints or frees one that is not its own.
* `Conservation`: issued = printed + lost + pending, per name, whatever the
  interleaving and whichever addresses are reused. `ImplementsLedger` (with
  `Losses` being the arrival alone) adds when: an increment is lost in the step that adds it, or never; a dump
  reports in one step all that it takes out.
* `AtMostOneLostPerDump`: the damage of the unlocked window is bounded: with one
  client, at most one increment is lost between two swaps.
* `IntervalsTile`: intervals neither overlap nor leave gaps, even if the clock is set,
  since an interval ends with the begin of the next one.
* `ExitReportsAll`, `ExitReportsInput`: when `join()` has returned, nothing is
  unprinted, because `m_terminate` is read before the last dump.
* `OnlyLastLineIsUnaccepted`: a rejected line may have been counted, and then it is the
  last one ever.
* `CountsDocumentedPrefix`, `CountIsFinal`: a line counts if and only if some prefix of
  it is of the documented form with a number in front, and the name is that
  prefix's; what follows cannot undo it.
* `ResultAsStated`: the rule machine accepts, throws and counts as `LineParser` says,
  and never aborts in `increment_counter`. `FailureConsumesNothing`: the reason, for
  the lines that end with a carriage return, where `crlf` fails after it took a
  character. `IncrementIsOfThisLine`: name and number are never an earlier line's.
  `ParseEnds`: no repetition repeats for ever.
* `HeldIsOfInterval`: no counter holds an increment older than its interval. It says
  nothing of the other end: an increment between the reading of the clock and the
  exchange is reported for an interval that ended before it, which the code accepts.
  `StampsAdvance`: the stamps of its reports never go back (the clock not being set
  back). `CountedIsReported`: the end of every count, also of a counter that is
  generated during a flush. `NoGap`: what a failed write loses is at the end of what
  the writer got, never in the middle; who reads the reports may stop getting them,
  but what was got is complete up to there.
* `ReportsAreExact`: the minimum and maximum of an interval are its own although they
  are never reset. `ReportIsOfInterval`: a measure, unlike a counter, never reports a
  value that was added after the end of the interval.
* `EachCallIsCounted`, `DurationsDoNotOverlap`, `DurationsMatchCounts`: see the module.
  The last one holds from one carbon format to the next; the debug format resets
  counters and not measures, and neither prints nor resets `_seen_checkpoint_not_found`
  (correlator.hh:155-162). A collector uses one format throughout. `ReportsAgree`: within one report the count of a
  transition is that of the durations, even if the writer fails in the middle.
  `ImplementsAtomic`: threads see whole methods only.
* `KnownIsOnItsWay`: the correlator knows a request if and only if it is in exactly one
  queue or one thread's hands. `EveryStepIsKnown`, `MainFlushes`: see the module.

### What the violated properties show

* storage_loses: read the pointer, let a whole dump pass, add: the increment is in a
  freed storage. DataStorage.hh:108 asks the question; the answer is no.
* storage_constructor_race: `m_dump_thread` is declared before the mutex, the
  condition variable and `m_terminate`. Only the value of `m_terminate` is used in the
  model; locking an unconstructed mutex is as bad.
* program_bad_line: main.cc has no `try`.
* collector_loses: `get_and_reset()` precedes a write whose failure nobody sees, in both
  formats (the run's trace is of the debug format). The
  descriptor stays closed, so all later counts are lost as well.
* pipeline_hangs: eight threads send a 0 to `queue_out`, and its reader ends at the
  first. What later stages push after that is never taken, never told to `out()`, and
  blocks them once `queue_out` is full. With the million requests and the queues of
  1000 of the program this needs stages that have drifted apart by a full queue,
  which nothing prevents; the run scales that down to two requests and one place.

Two more that are read off the code without a run: a measure without values is
reported in the carbon format with the minimum and maximum of an earlier interval
and 0/0 as average (measure.hh:86-88), and a documented number such as `.` makes
`std::stod` throw (main.cc:29), as does a number of several hundred digits.

### Bounds

* storage: three addresses, two names (symmetric), three calls of one increment
  each, two clock readings. Loss takes one call and one dump; a second loss in the
  same interval, a stale pointer into a reused address, and an overwritten counter
  take two calls; the third lets two of these meet. The dump thread is not bounded.
* storage_loses, storage_constructor_race: two calls of one name.
* program: two names, eight lines (a good one per name; the empty line; a number that
  is none; one that is too large; a wrong type; trailing characters; a carriage return),
  two counted lines.
  No symmetry, since liveness is checked.
* line_grammar: six characters of seven (`letter` does what `c` does but for the type,
  where a digit is as wrong; `other` fits nowhere, and at each place of the grammar some
  other character does not fit either). The shortest line that counts has five, so
  each part can be one longer, or be followed by something. Two digits are `0` and `1`,
  and a `double` has one digit before the point: `1`, `01`, `1.` and `.0` count, `11` is too
  large and `.1` too close to zero, so they throw.
* collector: two counters and one other measurable, increments of 1, modulus 2, sums up
  to 2, two clock readings. Sums reach the modulus, so counters wrap; the number of
  flushes is not bounded.
* measure: up to three values of {-1, 1, 2} per interval, three clock readings;
  intervals are not bounded until the clock ends.
* correlator: two requests and two threads (both symmetric), two checkpoints with one
  of the four pairs configured, three clock readings, three calls of `seen()` and
  `out()`; `in()` and both serialize methods are not bounded. One transition has all
  that a report can tear apart: a measure and a counter. Two threads are enough,
  since with the mutex only one of them is anywhere.
* pipeline: three requests, two stages, five places per queue (as many as requests and
  end markers that can be in one): a stage can be ahead of the next, and `queue_out`
  gets requests after its first end marker. pipeline_hangs: two requests, one
  place. The clock stands still: durations are the correlator run's business.

The clock can be set back in `DataStorage`, whose property holds nevertheless; in
`Collector` and `Correlator` the constant `SetBack` allows it, and the runs do not,
because the properties on stamps and durations then fail as one would expect.

### Fairness

* `Statsd`: weak fairness of each step of `data_storage` that the scheduler or the
  clock brings about (the rest of the constructor, the end of a call, the return from
  joining, the dump thread including its timeout) and of the parser at the end of a
  line. Reading another line is not fair: the input may pause for ever. A
  notification needs no fairness of its own.
* `Parser`: weak fairness of `Step`: the parser is sequential code. Reading is not fair.
* `Collector`: weak fairness of the flushing thread, which covers that `flush()` is
  called again and again. The library leaves that to the application; without it
  nothing is ever reported. Increments and new counters are not fair.
* `Pipeline`: weak fairness of the whole next-state relation, i.e. no global stop
  while some thread can go on. Every behaviour of the threads is finite, so that this
  is enough. In pipeline_hangs the counterexample ends in a state where no thread can
  take a step.

Deadlock is checked in all runs except pipeline_hangs, where it is what the run shows
by way of a liveness property. `Terminated` is the step of a program that is done.

## The proofs

Every safety property and every action property of the passing runs is proved, for all
values of the constants that the assumptions allow: any number of names, counters,
requests, threads, stages and calls, any width of a counter, queues of any size, lines
of any length, and any set of numbers that are out of range. So are the refinements. What the assumptions on constants say:
`DataStorageAssumption`: increments are naturals, and with two storages alive there is a
free address; `StatsdAssumption`: the names of the lines that count are names;
`CollectorAssumption`: an increment is less than a whole wrap-around;
`MeasureAssumption`: the values are finitely many integers; `CorrelatorAssumption`:
finitely many pairs of checkpoints are configured, readings of the clock are numbers;
`LineParserAssumption`: no other character is a digit, and what is out of range are
numbers; `ParserAssumption`: the characters are those of `LineParser`; `PipelineAssumption`:
the configured pairs are those of the table in `main()`. TLC evaluates all of them.

### DataStorageProofs

| theorem | property | argument |
|---|---|---|
| TypeCorrect | `TypeOK` | inductive as it stands |
| HeapSafety | `HeapSafe` | inductive as it stands; `make_shared` returns a free address |
| IntervalsFollow | `IntervalsTile` | from types and `HeapSafe`: the new storage is not the one being printed |
| IncrementsConserved | `Conservation` | from types and `HeapSafe`; lemmas say what each step does to `Pending` (PendingAdded, PendingLost, PendingDumped, PendingKept) |
| LossIsBounded | `AtMostOneLostPerDump` | by `LostOnce`: after a loss, a pointer read anew is that of the current storage, which can be lost only after the next swap, and that swap starts the count again |
| ExitIsComplete | `ExitReportsAll` | by `LastDump`: a dump thread with `should_terminate` set was told by a `join()` that came after the last increment, so nothing is added once the last swap is done. Assumes `~CtorRace`, and storage_constructor_race shows why |
| KeepsLedger | `ImplementsLedger` | initial states map to `L!Init`; each step maps to `Arrive`, `Report` or a stutter, never to `Discard` |

### StatsdProofs

MainUsesStorage (`SSpec => Spec`) shows that each step of the program is a step of
`data_storage` or leaves it alone, so that all of the theorems above hold in the
program. `LoopOK` is the inductive invariant: where `main()` is, and that by then the
storage got the increments of the accepted lines, or one more, that of the line at hand.

| theorem | property | argument |
|---|---|---|
| MainTypeCorrect | `STypeOK` | with `LoopOK` |
| LastLineOnly | `OnlyLastLineIsUnaccepted` | the one more of `LoopOK` is of the line at hand, and `main()` is not at `getline` |
| InputIsReported | `ExitReportsInput` | `LoopOK`, IncrementsConserved and ExitIsComplete; hence also assumes `~CtorRace` |

### ParserProofs

| theorem | property | argument |
|---|---|---|
| PrefixCounts | `CountsDocumentedPrefix` | a repetition can stop in one place only (TakesUnique), so the positions of colon and bar are unique, and the documented prefix is what lies before them |
| CountStays | `CountIsFinal` | a longer line has the same positions of colon and bar |
| ParserComputesResult | `ResultAsStated` | by `ParseOK` |
| CounterGetsThisLine | `IncrementIsOfThisLine` | by `ParseOK` |
| FailuresConsumeNothing | `FailureConsumesNothing` | a step from `ParseOK` |

`ParseOK` says which stacks of rule calls occur, and what is known then. While the
parser runs there are a number k of rules of `read_statsd_line` that have matched and two
positions c and b, for which `Matched(k, c, b)` describes the line up to here and what the
actions have stored, and `Place` lists the stacks that occur within the next rule, with
the position of the input and the last answer. There is a lemma for each of them (AtOne,
AtPlusGoesOn, AtCrlfEnds, ...) that runs its one step. A throw in one of the first six
rules means that the line does not count (CountingLine), a throw in `eol` that it does
and is rejected (CountedLine). That `increment_counter` never aborts is AtApply: by then
`set_type_char` has stored the type of this very line.

### CollectorProofs

| theorem | property | argument |
|---|---|---|
| TypeCorrect | `TypeOK` | with `AtCounter`: between two statements of a counter's serialize method the flush stands at a counter |
| FailedWriteCloses | `NoGap` | a write that fails closes the writer, and it never opens again |
| HeldInInterval | `HeldIsOfInterval` | by `InOrder`: stamp, begin of the interval, the end just read and the clock are in this order, for each counter, and after the exchange all that is counted came after that end. Assumes `~SetBack` |
| StampsInOrder | `StampsAdvance` | by `InOrder`; assumes `~SetBack` |
| KeepsLedger | `ImplementsLedger` | an increment wraps around at most once (WrapsOnce), which maps to a loss by a whole modulus |

### SumProofs, MeasureProofs

The sum of a function over a finite set is a fold of the community modules, and
a fold a recursive function that takes the elements of a set in some order. SumProofs shows that such a sum exists, is unique and may be
taken apart at any element (SumsExist, SumIsSums, SumAdds), by induction on finite sets
that is itself proved by the well-ordering of the naturals, stated with sets
instead of predicates.

| theorem | property | argument |
|---|---|---|
| TypeCorrect | `TypeOK` | inductive with `Exact` |
| ExactReports | `ReportsAreExact` | by `Exact`: minimum and maximum are those of the values that were added as soon as there is one, and there is one if and only if the count is not zero, which is what `add()` tests |
| ReportsOfInterval | `ReportIsOfInterval` | by `Stamped`: between the reading of the clock and the reset the mutex keeps `add()` out |

### CorrelatorProofs

All of these are on the statements of all threads (`TSpec`), not on atomic methods.

| theorem | property | argument |
|---|---|---|
| TypeCorrect | `TypeOK` | with `CallsOK`: at most one thread is in a method, and what it has left to do is the rest of one of the methods, in order |
| CallsAreCounted | `EachCallIsCounted` | inductive with the types; what one statement does to the sum over the transitions is CountedChange |
| StepsFollowEachOther | `DurationsDoNotOverlap` | by `JourneysKnown` (a request is known but between the erase and the insert of its own thread) and `StepsDoNotOverlap` (which also has the step that `seen()` has measured and not yet finished). Assumes `~SetBack` |
| CountsAreOfDurations | `DurationsMatchCounts` | by `ResetInPairs`: within the carbon format, what has been written is zero |
| ReportsAreConsistent | `ReportsAgree` | by `AgreesSoFar`: what is left of a report agrees, and a count that comes next is that of the duration before it, or the writer is closed |
| MethodsAreAtomic | `ImplementsAtomic` | by `Progress`: the variables are what the statements so far have made of `committed`, the state at the last unlock; an unlock is then one step of `Correlator`, and any other statement a stutter |

### PipelineProofs

The invariant is `WayOK`: a request that is known is in one place of one queue or in the
hands of one thread (`OnItsWay`); its checkpoint is that of the thread that has it or has
pushed it (`Located`); and no request is known that was not yet sent.

| theorem | property | argument |
|---|---|---|
| KnownAreOnTheirWay | `KnownIsOnItsWay` | by `WayOK`: what PushPlaces and PopPlaces say of the places of a request, per step of a thread |
| StepsAreKnown | `EveryStepIsKnown` | by `Located`: the thread before has left its own checkpoint |
| PipelineUsesCorrelator | | `PSpec => Spec`: each step of a thread calls one method or none |

### Only model-checked

Liveness, because it needs fairness and `ENABLED`: `JoinReturns` and `ReadIsPrinted`
(program), `ParseEnds` (line_grammar), `CountedIsReported` (collector), `MainFlushes`
(pipeline). These hold for the bounds of the runs. The violated properties need no proof.

No module has a RECURSIVE operator.

## Not modelled

* Floating point: the sums of doubles in `raw_counters`, the rate of a counter, the
  average of a measure. Counts, sums and intervals they are computed from are there.
* `quantity`: dimensions are types, checked by the compiler.
* `correlator::remove_old_uids()`: it does not compile when instantiated, and nothing
  calls it; `_dropped_uids` is never incremented.
* Undefined behaviour of `std::list` when two threads change it at once, and of
  `std::shared_ptr` when it is copied during a swap: `counter_increment()` does not
  copy it.
* Two readings of the clock that are equal make the interval of a counter's report
  zero and its rate infinite or 0/0 (counter.hh:67).
* Texts of reports, the tests, the build files.
* The UDP tools under `test/performance`: a sender that loops over `send()` and a
  receiver that counts. They exist to measure a kernel, have one thread and no
  protocol, and share nothing with the program.
* Vendored third-party code except for the PEGTL rules in use. googletest
  (`contrib/gtest-1.7.0`) makes up some nine tenths of the lines of the repository
  and is never part of the program; the code of the program and the library is
  about a thousand lines, of which the modules cover nearly all that has state.

## Plan

Done: `Ledger`, `DataStorage`, `LineParser`, `Parser`, `Statsd`, `Writer`, `Collector`, `Measure`,
`Correlator`, `CorrelatorThreads`, `Pipeline`, and the proofs of all their safety and action
properties. What is left to model is listed above. What could still be proved:

1. The invariants of `CorrelatorThreads` for the atomic `Correlator` as well, and so, by
   PipelineUsesCorrelator, for the pipeline: `EachCallIsCounted` and
   `DurationsMatchCounts` there.
2. That the pipeline with queues for everything is never stuck: as an invariant that
   names the thread that can go on, which needs no `ENABLED`.
3. For the liveness properties, the safety part of the argument: the quantity that
   each fair step makes smaller (characters that are left and rules that are in
   progress, for `ParseEnds`).
