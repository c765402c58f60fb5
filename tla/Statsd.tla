--------------------------------- MODULE Statsd ---------------------------------
(***************************************************************************)
(* The program of src/main.cc: one loop reads lines from standard input and *)
(* has each parsed (LineParser); the parser's action calls                  *)
(* counter_increment() of the data_storage (DataStorage), which prints on a *)
(* thread of its own; at the end of the input, join() prints the rest.      *)
(* Nothing catches the exceptions of the parser, so they end the process.   *)
(*                                                                          *)
(* A line is read and acted on while data_storage's client is idle; the     *)
(* parser looks at the end of the line after counter_increment() returned.  *)
(***************************************************************************)
EXTENDS DataStorage, LineParser

CONSTANT Lines       \* what a line of the input may be

ASSUME StatsdAssumption == \A l \in Lines : Counts(l) => Name(l) \in Names

VARIABLES
  at,          \* where main() is: before getline(), in the parser after the
               \* counter_increment(), or beyond the loop
  line,        \* the line that getline() read last
  accepted     \* history, per name: increments of the lines parsed to the end

input == << at, line, accepted >>

MainStates == {"getline", "eol", "threw", "join"}

SInit == Init /\ at = "getline" /\ line = << >> /\ accepted = NoCounts

(* getline() and the parser up to its call of counter_increment(); the line *)
(* is a counter.  Any increment stands for the value of the number.         *)
ReadCounter(l, i) ==
  /\ at = "getline"
  /\ Counts(l)
  /\ BeginIncrement(Name(l), i)
  /\ at' = "eol"
  /\ line' = l
  /\ UNCHANGED accepted

(* getline(), and the parser throws before it called anything. *)
ReadGarbage(l) ==
  /\ at = "getline"
  /\ ~Counts(l)
  /\ Abort
  /\ at' = "threw"
  /\ line' = l
  /\ UNCHANGED accepted

(* Mutant of AcceptLine: the parser consumes the line it is given. *)
AcceptLineConsumes ==
  /\ at = "eol" /\ client = "idle"
  /\ Accepts(line)
  /\ at' = "getline"
  /\ line' = SubSeq(line, 3, Len(line))
  /\ accepted' = Plus(accepted, One(call.name, call.inc))
  /\ UNCHANGED vars

(* The parser matches eol, and returns. *)
AcceptLine ==
  /\ at = "eol" /\ client = "idle"
  /\ Accepts(line)
  /\ at' = "getline"
  /\ accepted' = Plus(accepted, One(call.name, call.inc))
  /\ UNCHANGED << vars, line >>

(* Mutant of RejectLine: main() goes on with the next line. *)
RejectLineGoesOn ==
  /\ at = "eol" /\ client = "idle"
  /\ ~Accepts(line)
  /\ at' = "getline"
  /\ UNCHANGED << vars, line, accepted >>

(* The parser does not match eol, and throws. *)
RejectLine ==
  /\ at = "eol"
  /\ ~Accepts(line)
  /\ Abort
  /\ at' = "threw"
  /\ UNCHANGED << line, accepted >>

(* getline() found the end of the input; main() calls join(). *)
EndOfInput ==
  /\ at = "getline"
  /\ Join
  /\ at' = "join"
  /\ UNCHANGED << line, accepted >>

(* Everything else data_storage does; main() waits for its call to return.  *)
StorageNext ==
  /\ FinishCtor \/ EndIncrement \/ CrashInIncrement \/ JoinReturn
       \/ DumperNext \/ SetClock \/ Terminated
  /\ UNCHANGED input

SNext ==
  \/ \E l \in Lines, i \in Incs : ReadCounter(l, i)
  \/ \E l \in Lines : ReadGarbage(l)
  \/ AcceptLine
  \/ RejectLine
  \/ EndOfInput
  \/ StorageNext

SSpec == SInit /\ [][SNext]_<< vars, input >>

(* The scheduler runs both threads: a call that began ends, a wait times    *)
(* out after m_wait_interval, a thread that can take a step takes it.       *)
(* Whether the input ever ends, and so whether main() reads another line,   *)
(* is not the program's choice.                                             *)
SFairSpec ==
  /\ SSpec
  /\ WF_<< vars, input >>(AcceptLine \/ RejectLine)
  /\ WF_<< vars, input >>(FinishCtor /\ UNCHANGED input)
  /\ WF_<< vars, input >>(EndIncrement /\ UNCHANGED input)
  /\ WF_<< vars, input >>(JoinReturn /\ UNCHANGED input)
  /\ WF_<< vars, input >>(DumperNext /\ UNCHANGED input)

-----------------------------------------------------------------------------
(* Every variable of main() has its type. *)
STypeOK ==
  /\ at \in MainStates
  /\ line \in Lines \cup {<< >>}
  /\ accepted \in [Names -> Nat]

(* End to end: when main() returns, every increment of the input has been   *)
(* printed once, but for those lost in the unlocked window, and nothing     *)
(* else has been printed.                                                   *)
ExitReportsInput ==
  client = "done" => \A n \in Names : printed[n] + lost[n] = accepted[n]

(* A counter reaches the storage before its line is accepted.  Should the   *)
(* line be rejected then, its increment is the only unaccepted one, and it  *)
(* is the last one ever added.                                              *)
OnlyLastLineIsUnaccepted ==
  \A n \in Names :
    /\ accepted[n] <= issued[n]
    /\ issued[n] > accepted[n] =>
         /\ at # "getline"
         /\ n = Name(line)
         /\ issued[n] = accepted[n] + call.inc

(* A counter that main() read is printed in the end, or lost in the         *)
(* unlocked window, unless the process dies.                                *)
ReadIsPrinted ==
  \A n \in Names : \A k \in 1..MaxCalls :
    accepted[n] >= k ~> (printed[n] + lost[n] >= k \/ client = "crashed")

(* README: "Program must be stable."  No input makes the program throw away *)
(* the counters it has not printed.                                         *)
InputNeverKills == at = "threw" => \A n \in Names : Pending[n] = 0
=============================================================================
