-------------------------------- MODULE Ledger --------------------------------
(***************************************************************************)
(* What every collector of this repository promises about the events it is  *)
(* told of: an amount that arrived is held until it is reported, is reported*)
(* once, and is never invented.  An implementation that may lose amounts    *)
(* has to say where: Losses names the steps that may, and an amount is lost *)
(* in no other.  Whatever else leaves what is held is reported as it leaves.*)
(*                                                                          *)
(* DataStorage and Collector implement it.                                  *)
(***************************************************************************)
EXTENDS Integers

CONSTANTS
  Names,           \* what amounts are kept for
  Amounts,         \* what can be added at once
  Losses,          \* where amounts may be lost: "arrival", "overflow", "report"
  Modulus          \* with overflow, amounts are kept modulo this number

VARIABLES
  arrived,         \* per name: sum of all amounts ever added
  held,            \* per name: added, neither reported nor lost yet
  reported,        \* per name: sum of the reported amounts
  lost             \* per name: sum of the amounts that no report will show

ledger == << arrived, held, reported, lost >>

Nothing == [n \in Names |-> 0]

(* f and g added up, name by name. *)
Plus(f, g) == [n \in Names |-> f[n] + g[n]]

(* The amount i of the single name n. *)
One(n, i) == [m \in Names |-> IF m = n THEN i ELSE 0]

Init ==
  /\ arrived = Nothing
  /\ held = Nothing
  /\ reported = Nothing
  /\ lost = Nothing

(* An amount is added: it is held from now on, or is too late. *)
Arrive(n, i) ==
  /\ arrived' = Plus(arrived, One(n, i))
  /\ \/ held' = Plus(held, One(n, i)) /\ UNCHANGED lost
     \/ /\ "arrival" \in Losses
        /\ lost' = Plus(lost, One(n, i)) /\ UNCHANGED held
  /\ UNCHANGED reported

(* An amount is added and what is held wraps around: the modulus is gone. *)
Overflow(n, i) ==
  /\ "overflow" \in Losses /\ held[n] + i >= Modulus
  /\ arrived' = Plus(arrived, One(n, i))
  /\ held' = Plus(held, One(n, i - Modulus))
  /\ lost' = Plus(lost, One(n, Modulus))
  /\ UNCHANGED reported

(* to receives what held gives away. *)
Move(to) ==
  /\ held' \in [Names -> Nat]
  /\ \A n \in Names : held'[n] <= held[n]
  /\ to' = [n \in Names |-> to[n] + (held[n] - held'[n])]
  /\ UNCHANGED arrived

Report  == Move(reported) /\ UNCHANGED lost
Discard == "report" \in Losses /\ Move(lost) /\ UNCHANGED reported

Next ==
  \/ \E n \in Names, i \in Amounts : Arrive(n, i) \/ Overflow(n, i)
  \/ Report
  \/ Discard

Spec == Init /\ [][Next]_ledger
===============================================================================
