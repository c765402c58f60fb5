--------------------------------- MODULE Parser ---------------------------------
(***************************************************************************)
(* How the vendored PEGTL (src/contrib/pegtl-0.32) runs read_statsd_line of *)
(* src/main.cc: rules call rules, a failing rule goes back to its mark, an   *)
(* action runs as soon as its rule has matched, and where a rule must match *)
(* its failure is an exception.  The actions hand the parts of the line on  *)
(* in a statsd_data that main() declares once, for all lines.               *)
(*                                                                          *)
(* A behaviour is one line: it is read, character by character, and parsed, *)
(* one call or return of a rule per step.                                   *)
(***************************************************************************)
EXTENDS LineParser, SequencesExt

CONSTANTS
  Alphabet,      \* the characters of the lines
  MaxLength      \* bound: length of a line

ASSUME ParserAssumption == Alphabet \subseteq Chars /\ MaxLength \in Nat

VARIABLES
  line,
  data,      \* statsd_data: what the actions stored
  counted,   \* what counter_increment() was called with, or Nothing
  frames,    \* the matches in progress, outermost first
  pos,       \* where the input stands, here()
  answer,    \* "call": the last frame begins; else what its callee returned
  outcome    \* "reading", "parsing", "accepted", "threw" or "aborted"

machine == << data, counted, frames, pos, answer, outcome >>
vars    == << line, machine >>

(* The rules.  A sor of rules for one character each is one set here, and   *)
(* string<'c'> is its one character.                                        *)
Grammar ==
  [read_statsd_line |-> [op |-> "seq", rules |->
      << "set_name", "colon", "set_counter_increment", "bar", "set_type_char",
         "increment_counter", "eol" >>],
   set_name |-> [op |-> "ifapply", rules |-> << "read_name" >>],
   set_counter_increment |-> [op |-> "ifapply", rules |-> << "read_counter_increment" >>],
   set_type_char |-> [op |-> "ifapply", rules |-> << "read_type_char" >>],
   increment_counter |-> [op |-> "apply"],
   read_name |-> [op |-> "plus", rules |-> << "name_char" >>],
   read_counter_increment |-> [op |-> "plus", rules |-> << "number_char" >>],
   eol |-> [op |-> "sor", rules |-> << "eof", "crlf", "lf", "cr" >>],
   crlf |-> [op |-> "seq", rules |-> << "cr", "lf" >>],
   eof |-> [op |-> "eof"],
   name_char |-> [op |-> "one", chars |-> NameChars],
   number_char |-> [op |-> "one", chars |-> NumberChars],
   colon |-> [op |-> "one", chars |-> {":"}],
   bar |-> [op |-> "one", chars |-> {"|"}],
   read_type_char |-> [op |-> "one", chars |-> {"c"}],
   lf |-> [op |-> "one", chars |-> {"lf"}],
   cr |-> [op |-> "one", chars |-> {"cr"}]]

(* What an earlier line left in statsd_data, or nobody ever stored. *)
Stale   == << "other" >>
Nothing == << >>

Init ==
  /\ line = << >>
  /\ data = [set_name |-> Stale, set_counter_increment |-> Stale, set_type_char |-> Stale]
  /\ counted = Nothing
  /\ frames = << >> /\ pos = 1 /\ answer = "call"
  /\ outcome = "reading"

Read(char) ==
  /\ outcome = "reading" /\ Len(line) < MaxLength
  /\ line' = Append(line, char)
  /\ UNCHANGED machine

-----------------------------------------------------------------------------
(* A match of the rule begins at position mark; must is its parameter Must, *)
(* and next counts the rules it has called.                                 *)
Frame(rule, must, mark) == [rule |-> rule, must |-> must, mark |-> mark, next |-> 1]

Top == Last(frames)
Op  == Grammar[Top.rule].op
Eof == pos = Len(line) + 1

(* basic_parse_string: the line must match. *)
Begin ==
  /\ outcome = "reading"
  /\ outcome' = "parsing"
  /\ frames' = << Frame("read_statsd_line", TRUE, 1) >>
  /\ UNCHANGED << line, data, counted, pos, answer >>

Throw(how) == outcome' = how /\ frames' = << >> /\ UNCHANGED << pos, answer >>

(* match() of basic_debug calls every rule but those inside ifapply. *)
Guarded ==
  Len(frames) = 1 \/ Grammar[frames[Len(frames) - 1].rule].op # "ifapply"

(* The last frame returns, leaving the input at position p. *)
Return(matched, p) ==
  IF ~matched /\ Top.must /\ Guarded
  THEN Throw("threw")
  ELSE /\ frames' = Front(frames)
       /\ pos' = p
       /\ answer' = IF matched THEN "matched" ELSE "failed"
       /\ outcome' = IF Len(frames) = 1 THEN "accepted" ELSE outcome

(* The last frame calls its k-th rule; plus calls its one rule repeatedly. *)
Call(k) ==
  LET rules == Grammar[Top.rule].rules
      callee == IF Op = "plus" THEN rules[1] ELSE rules[k]
      must == Top.must /\ Op # "sor" /\ (Op = "plus" => k = 1)
  IN /\ frames' = Append([frames EXCEPT ![Len(frames)].next = k], Frame(callee, must, pos))
     /\ answer' = "call"
     /\ UNCHANGED << pos, outcome >>

(* Mutant of One: the character is looked at and stays. *)
OneWithoutBump ==
  /\ Op = "one"
  /\ Return(~Eof /\ line[pos] \in Grammar[Top.rule].chars, pos)

(* one::match and the like: the next character, if there is one. *)
One ==
  /\ Op = "one"
  /\ IF ~Eof /\ line[pos] \in Grammar[Top.rule].chars
     THEN Return(TRUE, pos + 1) ELSE Return(FALSE, pos)

(* Mutant of Rollback: no mark. *)
RollbackNever == pos

(* Where a seq that failed leaves the input: it has a mark if it has several *)
(* rules and need not match.                                                *)
Rollback ==
  IF Top.must \/ Len(Grammar[Top.rule].rules) = 1 THEN pos ELSE Top.mark

(* What a rule does with the answer of the rule it called. *)
Sequence ==
  /\ Op = "seq"
  /\ IF answer = "failed" THEN Return(FALSE, Rollback)
     ELSE IF Top.next < Len(Grammar[Top.rule].rules) THEN Call(Top.next + 1)
     ELSE Return(TRUE, pos)

Alternatives ==
  /\ Op = "sor"
  /\ IF answer = "matched" THEN Return(TRUE, pos)
     ELSE IF Top.next < Len(Grammar[Top.rule].rules) THEN Call(Top.next + 1)
     ELSE Return(FALSE, pos)

(* Mutant of Repetition: failing once is failing. *)
RepetitionAllOrNothing ==
  /\ Op = "plus"
  /\ IF answer = "matched" /\ ~Eof THEN Call(2) ELSE Return(answer = "matched", pos)

Repetition ==
  /\ Op = "plus"
  /\ IF answer = "matched" /\ ~Eof THEN Call(2)
     ELSE Return(answer = "matched" \/ Top.next = 2, pos)

(* Mutant of Store: one action stores nothing. *)
StoreNoNumber(field, text) ==
  data' = IF field = "set_counter_increment" THEN data ELSE [data EXCEPT ![field] = text]

(* set_name, set_counter_increment and set_type_char. *)
Store(field, text) == data' = [data EXCEPT ![field] = text]

(* ifapply::match: the action gets the text since the mark. *)
IfApply ==
  /\ Op = "ifapply"
  /\ UNCHANGED counted
  /\ LET text == SubSeq(line, Top.mark, pos - 1)
     IN IF answer = "failed"
        THEN Return(FALSE, Top.mark) /\ UNCHANGED data
        ELSE IF Top.rule = "set_counter_increment" /\ ~Stod(text)
        THEN Throw("threw") /\ UNCHANGED data
        ELSE Return(TRUE, pos) /\ Store(Top.rule, text)

(* apply::match with increment_counter. *)
Increment ==
  /\ Op = "apply"
  /\ UNCHANGED data
  /\ IF data.set_type_char = << "c" >>
     THEN Return(TRUE, pos) /\ counted' = << data.set_name, data.set_counter_increment >>
     ELSE Throw("aborted") /\ UNCHANGED counted

Enter ==
  /\ answer = "call"
  /\ \/ Increment
     \/ One /\ UNCHANGED << data, counted >>
     \/ Op = "eof" /\ Return(Eof, pos) /\ UNCHANGED << data, counted >>
     \/ Op \in {"seq", "sor", "plus", "ifapply"} /\ Call(1) /\ UNCHANGED << data, counted >>

Resume ==
  /\ answer # "call"
  /\ \/ IfApply
     \/ (Sequence \/ Alternatives \/ Repetition) /\ UNCHANGED << data, counted >>

Step == outcome = "parsing" /\ UNCHANGED line /\ (Enter \/ Resume)

Done == outcome \notin {"reading", "parsing"} /\ UNCHANGED vars

Next == (\E char \in Alphabet : Read(char)) \/ Begin \/ Step \/ Done

Spec == Init /\ [][Next]_vars /\ WF_vars(Step)

-----------------------------------------------------------------------------
(* Greedy repetition loses nothing: a line counts exactly when some prefix  *)
(* of it is what the grammar's comment describes, and its number is one.    *)
(* The name that is counted is the name of that prefix.                     *)
CountsDocumentedPrefix ==
  outcome = "reading" =>
    (Counts(line) <=>
       \E n \in 0..Len(line) :
         \E i, j \in 0..n :
           LET number == SubSeq(line, i + 2, j)
           IN /\ DocumentedParts(SubSeq(line, 1, n), SubSeq(line, 1, i), number)
              /\ Stod(number)
              /\ Counts(line) => Name(line) = SubSeq(line, 1, i))

(* The parser is done with the counter before it looks at the end of the    *)
(* line: no further character takes a count back or changes its name.       *)
CountIsFinal ==
  [][Counts(line) => Counts(line') /\ Name(line') = Name(line)]_line

(* The machine of rules, marks and exceptions comes to the result that      *)
(* LineParser, and with it the program's model, states for the line.  In    *)
(* particular increment_counter never aborts.                               *)
ResultAsStated ==
  outcome \notin {"reading", "parsing"} =>
    /\ outcome = IF Accepts(line) THEN "accepted" ELSE "threw"
    /\ Counts(line) <=> counted # Nothing

(* Although statsd_data outlives the lines, counter_increment() gets name   *)
(* and number of the same line, this one.                                   *)
IncrementIsOfThisLine ==
  counted # Nothing =>
    \E colon, bar \in Positions(line) :
      /\ Increments(line, colon, bar)
      /\ counted = << SubSeq(line, 1, colon - 1), SubSeq(line, colon + 1, bar - 1) >>

(* "do not consume input on failure" (input_generic.hh): a rule that fails  *)
(* leaves the input where the rule began, so that the alternatives after it *)
(* start there.                                                             *)
FailureConsumesNothing ==
  [][answer' = "failed" /\ Len(frames') < Len(frames) /\ frames' # << >>
       => pos' = Top.mark]_machine

(* No rule repeats itself for ever.                                         *)
ParseEnds == outcome = "parsing" ~> outcome # "parsing"
=============================================================================
