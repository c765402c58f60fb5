---------------------------- MODULE CorrelatorProofs ----------------------------
(***************************************************************************)
(* Proofs about the correlator with its threads, CorrelatorThreads, for     *)
(* every set of threads, requests, checkpoints and clock readings and every *)
(* finite set of transitions: the invariants of Correlator hold between any *)
(* two statements, reports agree, and each method is a step of Correlator.  *)
(***************************************************************************)
EXTENDS CorrelatorThreads, SumProofs

-----------------------------------------------------------------------------
(* The statements of requests, and those of reports. *)
Leaf(kind, tr)    == << kind, tr >>
ReportStatement   ==
  {<< "uid_not_found" >>, << "checkpoint_not_found" >>}
    \cup {Leaf("duration", tr) : tr \in Transitions}
    \cup {Leaf("count", tr) : tr \in Transitions}

RequestTodos(op) ==
  CASE op = "in"   -> {<< << "erase" >>, << "insert" >> >>, << << "insert" >> >>, << >>}
    [] op = "seen" -> {<< << "seen_locked" >>, << "erase" >>, << "insert" >> >>,
                       << << "erase" >>, << "insert" >> >>, << << "insert" >> >>, << >>}
    [] op = "out"  -> {<< << "seen_locked" >>, << "erase" >> >>, << << "erase" >> >>, << >>}

(* What is left of a report: no statement comes twice, and the count of a   *)
(* transition comes next after its duration.                                *)
Orderly(todo) ==
  /\ todo \in Seq(ReportStatement)
  /\ \A i, j \in 1..Len(todo) : todo[i] = todo[j] => i = j
  /\ \A i \in 1..Len(todo), tr \in Transitions :
       todo[i] = Leaf("duration", tr) => i < Len(todo) /\ todo[i + 1] = Leaf("count", tr)

(* The statements that are left. *)
Left(todo) == {todo[i] : i \in 1..Len(todo)}

(* SetToSeq puts every transition into one place. *)
LEMMA Order ==
  LET n     == Cardinality(Transitions)
      order == SetToSeq(Transitions)
  IN /\ n \in Nat
     /\ order \in [1..n -> Transitions]
     /\ \A j, k \in 1..n : order[j] = order[k] => j = k
     /\ \A tr \in Transitions : \E k \in 1..n : order[k] = tr
<1> DEFINE n     == Cardinality(Transitions)
           order == SetToSeq(Transitions)
<1>1. IsFiniteSet(Transitions) /\ n \in Nat /\ ExistsBijection(1..n, Transitions)
  BY CorrelatorAssumption, FS_CardinalityType DEF CorrelatorAssumption
<1>2. \E f \in [1..n -> Transitions] : IsInjective(f)
  BY <1>1 DEF ExistsBijection, Bijection, Injection
<1>3. order \in [1..n -> Transitions] /\ IsInjective(order)
  BY <1>2 DEF SetToSeq
<1>4. order \in Injection(1..n, Transitions)
  BY <1>3 DEF Injection
<1>5. IsFiniteSet(1..n) /\ Cardinality(1..n) = n
  BY <1>1, FS_Interval
<1>6. order \in Surjection(1..n, Transitions)
  BY <1>1, <1>4, <1>5, FS_Injection
<1>7. \A tr \in Transitions : \E k \in 1..n : order[k] = tr
  BY <1>6 DEF Surjection
<1>8. \A j, k \in 1..n : order[j] = order[k] => j = k
  BY <1>3 DEF IsInjective
<1> QED
  BY <1>1, <1>3, <1>7, <1>8

(* The measures and counters of all transitions, each duration before its   *)
(* count.                                                                   *)
LEMMA LeavesInOrder ==
  /\ Orderly(Leaves)
  /\ Left(Leaves) = {Leaf("duration", tr) : tr \in Transitions}
                      \cup {Leaf("count", tr) : tr \in Transitions}
<1> DEFINE n     == Cardinality(Transitions)
           order == SetToSeq(Transitions)
<1>1. /\ n \in Nat
      /\ order \in [1..n -> Transitions]
      /\ \A j, k \in 1..n : order[j] = order[k] => j = k
      /\ \A tr \in Transitions : \E k \in 1..n : order[k] = tr
  BY Order
<1> HIDE DEF n, order
<1>2. Leaves = [k \in 1..2 * n |->
                  << IF k % 2 = 1 THEN "duration" ELSE "count", order[(k + 1) \div 2] >>]
  BY DEF Leaves, n, order
<1>3. \A k \in 1..2 * n :
         \E j \in 1..n : \/ k = 2 * j - 1 /\ Leaves[k] = Leaf("duration", order[j])
                         \/ k = 2 * j /\ Leaves[k] = Leaf("count", order[j])
  <2> TAKE k \in 1..2 * n
  <2> DEFINE j == (k + 1) \div 2
  <2>1. j \in 1..n /\ (k = 2 * j - 1 \/ k = 2 * j)
    BY <1>1
  <2>2. CASE k = 2 * j - 1
    BY <1>2, <2>1, <2>2 DEF Leaf
  <2>3. CASE k = 2 * j
    BY <1>2, <2>1, <2>3 DEF Leaf
  <2> QED
    BY <2>1, <2>2, <2>3
<1>4. \A j \in 1..n : /\ 2 * j - 1 \in 1..2 * n /\ Leaves[2 * j - 1] = Leaf("duration", order[j])
                      /\ 2 * j \in 1..2 * n /\ Leaves[2 * j] = Leaf("count", order[j])
  <2> TAKE j \in 1..n
  <2>1. 2 * j - 1 \in 1..2 * n /\ 2 * j \in 1..2 * n
    BY <1>1
  <2>2. (2 * j - 1) % 2 = 1 /\ (2 * j) % 2 = 0
    BY <1>1
  <2>3. ((2 * j - 1) + 1) \div 2 = j /\ (2 * j + 1) \div 2 = j
    BY <1>1
  <2> QED
    BY <1>2, <2>1, <2>2, <2>3 DEF Leaf
<1>5. \A k \in 1..2 * n : Leaves[k] \in ReportStatement
  BY <1>1, <1>3 DEF ReportStatement
<1>6. Leaves \in Seq(ReportStatement) /\ Len(Leaves) = 2 * n
  <2>1. Leaves \in [1..2 * n -> ReportStatement] /\ 2 * n \in Nat
    BY <1>1, <1>2, <1>5
  <2> HIDE DEF Leaves
  <2> QED
    BY <2>1
<1>7. \A s, tr : Leaf("duration", s) # Leaf("count", tr)
  BY DEF Leaf
<1>8. \A s, tr : \A kind \in {"duration", "count"} : Leaf(kind, s) = Leaf(kind, tr) => s = tr
  BY DEF Leaf
<1>9. \A j, k \in 1..Len(Leaves) : Leaves[j] = Leaves[k] => j = k
  <2> TAKE j, k \in 1..Len(Leaves)
  <2> HAVE Leaves[j] = Leaves[k]
  <2>1. PICK a \in 1..n : \/ j = 2 * a - 1 /\ Leaves[j] = Leaf("duration", order[a])
                          \/ j = 2 * a /\ Leaves[j] = Leaf("count", order[a])
    BY <1>3, <1>6
  <2>2. PICK b \in 1..n : \/ k = 2 * b - 1 /\ Leaves[k] = Leaf("duration", order[b])
                          \/ k = 2 * b /\ Leaves[k] = Leaf("count", order[b])
    BY <1>3, <1>6
  <2>3. order[a] = order[b]
    BY <2>1, <2>2, <1>7, <1>8
  <2>4. a = b
    BY <1>1, <2>3
  <2> QED
    BY <2>1, <2>2, <2>4, <1>7
<1>10. \A k \in 1..Len(Leaves), tr \in Transitions :
         Leaves[k] = Leaf("duration", tr) => k < Len(Leaves) /\ Leaves[k + 1] = Leaf("count", tr)
  <2> TAKE k \in 1..Len(Leaves), tr \in Transitions
  <2> HAVE Leaves[k] = Leaf("duration", tr)
  <2>1. PICK a \in 1..n : \/ k = 2 * a - 1 /\ Leaves[k] = Leaf("duration", order[a])
                          \/ k = 2 * a /\ Leaves[k] = Leaf("count", order[a])
    BY <1>3, <1>6
  <2>2. k = 2 * a - 1 /\ order[a] = tr
    BY <2>1, <1>7, <1>8
  <2>3. k + 1 = 2 * a /\ 2 * a \in 1..2 * n /\ Leaves[2 * a] = Leaf("count", tr)
    BY <2>2, <1>4
  <2> QED
    BY <2>3, <1>1, <1>6
<1>11. \A tr \in Transitions : \A kind \in {"duration", "count"} :
         \E i \in 1..Len(Leaves) : Leaves[i] = Leaf(kind, tr)
  BY <1>1, <1>4, <1>6
<1>12. \A i \in 1..Len(Leaves) : \E tr \in Transitions :
         Leaves[i] = Leaf("duration", tr) \/ Leaves[i] = Leaf("count", tr)
  BY <1>1, <1>3, <1>6
<1>13. Left(Leaves) = {Leaf("duration", tr) : tr \in Transitions}
                        \cup {Leaf("count", tr) : tr \in Transitions}
  BY <1>11, <1>12 DEF Left
<1> QED
  BY <1>6, <1>9, <1>10, <1>13 DEF Orderly

(* A counter of the correlator itself may come before the leaves. *)
LEMMA PrependInOrder ==
  ASSUME NEW s, Orderly(s), NEW x \in {<< "uid_not_found" >>, << "checkpoint_not_found" >>},
         x \notin Left(s)
  PROVE  LET todo == << x >> \o s
         IN /\ Orderly(todo)
            /\ Left(todo) = Left(s) \cup {x}
<1> DEFINE todo == << x >> \o s
<1>1. s \in Seq(ReportStatement) /\ Len(s) \in Nat
  BY DEF Orderly
<1>2. /\ todo \in Seq(ReportStatement) /\ Len(todo) = Len(s) + 1 /\ todo[1] = x
      /\ \A i \in 1..Len(s) : todo[i + 1] = s[i]
      /\ \A i \in 2..Len(todo) : i - 1 \in 1..Len(s) /\ todo[i] = s[i - 1]
  BY <1>1 DEF ReportStatement
<1> HIDE DEF todo
<1>3. \A tr \in Transitions : x # Leaf("count", tr) /\ x # Leaf("duration", tr)
  BY DEF Leaf
<1>4. \A i, j \in 1..Len(todo) : todo[i] = todo[j] => i = j
  <2>1. \A i \in 2..Len(todo) : todo[i] # x
    BY <1>2 DEF Left
  <2>2. \A i, j \in 2..Len(todo) : todo[i] = todo[j] => i = j
    <3> TAKE i, j \in 2..Len(todo)
    <3>1. s[i - 1] = s[j - 1] => i - 1 = j - 1
      BY <1>2 DEF Orderly
    <3> QED
      BY <1>2, <3>1
  <2>3. \A i \in 1..Len(todo) : i = 1 \/ i \in 2..Len(todo)
    BY <1>1, <1>2
  <2> QED
    BY <1>2, <2>1, <2>2, <2>3
<1>5. \A i \in 1..Len(todo), tr \in Transitions :
        todo[i] = Leaf("duration", tr) => i < Len(todo) /\ todo[i + 1] = Leaf("count", tr)
  <2> TAKE i \in 1..Len(todo), tr \in Transitions
  <2> HAVE todo[i] = Leaf("duration", tr)
  <2>1. i \in 2..Len(todo)
    BY <1>1, <1>2, <1>3
  <2>2. i - 1 < Len(s) /\ s[(i - 1) + 1] = Leaf("count", tr)
    <3>1. i - 1 \in 1..Len(s) /\ s[i - 1] = Leaf("duration", tr)
      BY <1>2, <2>1
    <3> QED
      BY <3>1 DEF Orderly
  <2>3. i \in 1..Len(s) /\ s[i] = Leaf("count", tr)
    BY <1>1, <2>1, <2>2
  <2> QED
    BY <1>1, <1>2, <2>3
<1>6. Left(todo) = Left(s) \cup {x}
  <2>1. \A y \in Left(todo) : y = x \/ y \in Left(s)
    <3> TAKE y \in Left(todo)
    <3>1. PICK i \in 1..Len(todo) : y = todo[i]
      BY DEF Left
    <3>2. i = 1 \/ i \in 2..Len(todo)
      BY <1>1, <1>2
    <3> QED
      BY <1>2, <3>1, <3>2 DEF Left
  <2>2. \A y \in Left(s) : y \in Left(todo)
    <3> TAKE y \in Left(s)
    <3>1. PICK i \in 1..Len(s) : y = s[i]
      BY DEF Left
    <3>2. i + 1 \in 1..Len(todo) /\ todo[i + 1] = y
      BY <1>1, <1>2, <3>1
    <3> QED
      BY <3>2 DEF Left
  <2>3. x \in Left(todo)
    BY <1>1, <1>2 DEF Left
  <2> QED
    BY <2>1, <2>2, <2>3
<1> QED
  BY <1>2, <1>3, <1>4, <1>5, <1>6 DEF Orderly, todo

(* A report begins with all its statements, in order. *)
LEMMA ReportBegins ==
  /\ Orderly(Statements("debug"))
  /\ Left(Statements("debug")) = ReportStatement \ {<< "checkpoint_not_found" >>}
  /\ Orderly(Statements("carbon"))
  /\ Left(Statements("carbon")) = ReportStatement
<1> DEFINE U == << "uid_not_found" >>
           C == << "checkpoint_not_found" >>
           leaves == {Leaf("duration", tr) : tr \in Transitions}
                       \cup {Leaf("count", tr) : tr \in Transitions}
<1>1. /\ Orderly(Leaves) /\ Left(Leaves) = leaves
  BY LeavesInOrder
<1>2. U # C /\ U \notin leaves /\ C \notin leaves
  BY DEF Leaf
<1>3. /\ Orderly(<< U >> \o Leaves) /\ Left(<< U >> \o Leaves) = leaves \cup {U}
  BY <1>1, <1>2, PrependInOrder
<1>4. /\ Orderly(<< C >> \o Leaves) /\ Left(<< C >> \o Leaves) = leaves \cup {C}
  BY <1>1, <1>2, PrependInOrder
<1>5. /\ Orderly(<< U >> \o (<< C >> \o Leaves))
      /\ Left(<< U >> \o (<< C >> \o Leaves)) = leaves \cup {C, U}
  <2> DEFINE s == << C >> \o Leaves
  <2>1. U \notin Left(s) /\ Orderly(s) /\ Left(s) = leaves \cup {C}
    BY <1>2, <1>4
  <2> HIDE DEF s, leaves
  <2>2. Orderly(<< U >> \o s) /\ Left(<< U >> \o s) = Left(s) \cup {U}
    BY <2>1, PrependInOrder
  <2> QED
    BY <2>1, <2>2 DEF s
<1>6. << U >> \o (<< C >> \o Leaves) = << U, C >> \o Leaves
  <2>1. Leaves \in Seq(ReportStatement) /\ U \in ReportStatement /\ C \in ReportStatement
    BY <1>1 DEF Orderly, ReportStatement
  <2> HIDE DEF U, C, Leaves
  <2> DEFINE s1 == << U >> \o (<< C >> \o Leaves)
             s2 == << U, C >> \o Leaves
  <2>2. /\ s1 \in Seq(ReportStatement) /\ s2 \in Seq(ReportStatement)
        /\ Len(s1) = Len(Leaves) + 2 /\ Len(s2) = Len(Leaves) + 2
    BY <2>1
  <2>3. \A i \in 1..Len(Leaves) + 2 : s1[i] = s2[i]
    <3> TAKE i \in 1..Len(Leaves) + 2
    <3>1. i = 1 \/ i = 2 \/ i \in 3..Len(Leaves) + 2
      BY <2>1
    <3> QED
      BY <2>1, <3>1
  <2> HIDE DEF s1, s2
  <2>4. s1 = s2
    BY <2>2, <2>3
  <2> QED
    BY <2>4 DEF s1, s2
<1>7. Statements("debug") = << U >> \o Leaves /\ Statements("carbon") = << U, C >> \o Leaves
  BY DEF Statements
<1>8. ReportStatement = leaves \cup {U, C}
  BY DEF ReportStatement
<1> HIDE DEF leaves, U, C
<1>9. leaves \cup {U} = ReportStatement \ {C} /\ leaves \cup {C, U} = ReportStatement
  BY <1>2, <1>8
<1>10. Orderly(Statements("debug")) /\ Left(Statements("debug")) = ReportStatement \ {C}
  BY <1>3, <1>7, <1>9, Zenon
<1>11. Orderly(Statements("carbon")) /\ Left(Statements("carbon")) = ReportStatement
  BY <1>5, <1>6, <1>7, <1>9, Zenon
<1> QED
  BY <1>10, <1>11 DEF C

(* Without its first statement, what is left of a report is orderly. *)
LEMMA TailInOrder ==
  ASSUME NEW todo, Orderly(todo), todo # << >>
  PROVE  /\ Orderly(Tail(todo))
         /\ Head(todo) \in Left(todo)
         /\ Left(Tail(todo)) = Left(todo) \ {Head(todo)}
<1> DEFINE s == Tail(todo)
<1>1. todo \in Seq(ReportStatement) /\ Len(todo) \in Nat \ {0}
  BY DEF Orderly
<1>2. /\ s \in Seq(ReportStatement) /\ Len(s) = Len(todo) - 1 /\ Head(todo) = todo[1]
      /\ \A i \in 1..Len(s) : s[i] = todo[i + 1]
  BY <1>1
<1> HIDE DEF s
<1>3. \A i \in 1..Len(s) : i + 1 \in 1..Len(todo) /\ i + 1 \in 2..Len(todo)
  BY <1>1, <1>2
<1>4. \A i, j \in 1..Len(s) : s[i] = s[j] => i = j
  <2> TAKE i, j \in 1..Len(s)
  <2>1. todo[i + 1] = todo[j + 1] => i + 1 = j + 1
    BY <1>3 DEF Orderly
  <2> QED
    BY <1>2, <2>1
<1>5. \A i \in 1..Len(s), tr \in Transitions :
        s[i] = Leaf("duration", tr) => i < Len(s) /\ s[i + 1] = Leaf("count", tr)
  <2> TAKE i \in 1..Len(s), tr \in Transitions
  <2> HAVE s[i] = Leaf("duration", tr)
  <2>1. i + 1 < Len(todo) /\ todo[(i + 1) + 1] = Leaf("count", tr)
    BY <1>2, <1>3 DEF Orderly
  <2> QED
    BY <1>1, <1>2, <2>1
<1>6. Left(s) = Left(todo) \ {Head(todo)}
  <2>1. \A y \in Left(s) : y \in Left(todo) /\ y # Head(todo)
    <3> TAKE y \in Left(s)
    <3>1. PICK i \in 1..Len(s) : y = s[i]
      BY DEF Left
    <3>2. y = todo[i + 1] /\ i + 1 \in 1..Len(todo) /\ i + 1 # 1 /\ 1 \in 1..Len(todo)
      BY <1>1, <1>2, <1>3, <3>1
    <3> QED
      BY <1>2, <3>2 DEF Left, Orderly
  <2>2. \A y \in Left(todo) : y = Head(todo) \/ y \in Left(s)
    <3> TAKE y \in Left(todo)
    <3>1. PICK i \in 1..Len(todo) : y = todo[i]
      BY DEF Left
    <3>2. CASE i = 1
      BY <1>2, <3>1, <3>2
    <3>3. CASE i # 1
      <4>1. i - 1 \in 1..Len(s) /\ (i - 1) + 1 = i
        BY <1>1, <1>2, <3>3
      <4> QED
        BY <1>2, <3>1, <4>1 DEF Left
    <3> QED
      BY <3>2, <3>3
  <2> QED
    BY <2>1, <2>2
<1>7. Head(todo) \in Left(todo)
  BY <1>1, <1>2 DEF Left
<1> QED
  BY <1>2, <1>4, <1>5, <1>6, <1>7 DEF Orderly, s

(* The duration of a transition is done before its count. *)
LEMMA HeadIsNotAfter ==
  ASSUME NEW todo, Orderly(todo), todo # << >>, NEW tr \in Transitions,
         Head(todo) = Leaf("count", tr)
  PROVE  Leaf("duration", tr) \notin Left(todo)
<1>1. todo \in Seq(ReportStatement) /\ Len(todo) \in Nat \ {0} /\ Head(todo) = todo[1]
  BY DEF Orderly
<1>2. SUFFICES ASSUME NEW i \in 1..Len(todo), todo[i] = Leaf("duration", tr) PROVE FALSE
  BY DEF Left
<1>3. i < Len(todo) /\ todo[i + 1] = Leaf("count", tr)
  BY <1>2 DEF Orderly
<1>4. i + 1 \in 1..Len(todo) /\ 1 \in 1..Len(todo) /\ todo[i + 1] = todo[1]
  BY <1>1, <1>3
<1>5. i + 1 = 1
  BY <1>4 DEF Orderly
<1> QED
  BY <1>5

-----------------------------------------------------------------------------
(* What a thread may be in the middle of. *)
RequestOps == {"in", "seen", "out"}
ReportOps  == {"debug", "carbon"}
RequestStatement == {<< "seen_locked" >>, << "erase" >>, << "insert" >>}
Shown == {"duration", "count"} \X Transitions \X Nat

RequestCalls == [op : RequestOps, todo : Seq(RequestStatement), uid : Uids,
                 pid : Checkpoints, step : Int]
ReportCalls  == [op : ReportOps, todo : Seq(ReportStatement), shown : SUBSET Shown,
                 agree : BOOLEAN]

GoodCall(c) ==
  /\ c.op \in RequestOps => c.todo \in RequestTodos(c.op)
  /\ c.op \in {"seen", "out"} /\ c.todo # << >> /\ Head(c.todo) = << "seen_locked" >>
       => calls < MaxCalls
  /\ c.op \in ReportOps => Orderly(c.todo)
  /\ c.op = "debug" => << "checkpoint_not_found" >> \notin Left(c.todo)

(* One thread at most is in a method: the others are outside.               *)
CallsOK ==
  /\ call \in [Threads -> {None} \cup RequestCalls \cup ReportCalls]
  /\ \A s, t \in Threads : call[s] # None /\ call[t] # None => s = t
  /\ \A t \in Threads : GoodCall(call[t])

(* The statements of requests are not those of reports. *)
LEMMA StatementsDiffer ==
  /\ RequestStatement \cap ReportStatement = {}
  /\ << "seen_locked" >> # << "erase" >> /\ << "seen_locked" >> # << "insert" >>
  /\ << "erase" >> # << "insert" >>
  /\ << "uid_not_found" >> # << "checkpoint_not_found" >>
BY DEF RequestStatement, ReportStatement, Leaf

(* The kinds of calls are told apart by op. *)
LEMMA CallKinds ==
  ASSUME CallsOK, NEW t \in Threads
  PROVE  /\ call[t].op \in RequestOps <=> call[t] \in RequestCalls
         /\ call[t].op \in ReportOps <=> call[t] \in ReportCalls
         /\ call[t].op \in RequestOps => call[t].op \notin ReportOps
         /\ call[t] = None <=> call[t].op \notin RequestOps \cup ReportOps
         /\ call[t] # None => \A s \in Threads \ {t} : call[s] = None
<1>1. call[t] \in {None} \cup RequestCalls \cup ReportCalls
  BY DEF CallsOK
<1>2. None.op \notin RequestOps /\ None.op \notin ReportOps
  BY DEF None, RequestOps, ReportOps
<1>3. \A c \in RequestCalls : c.op \in RequestOps /\ c.op \notin ReportOps
  BY DEF RequestCalls, RequestOps, ReportOps
<1>4. \A c \in ReportCalls : c.op \in ReportOps /\ c.op \notin RequestOps
  BY DEF ReportCalls, RequestOps, ReportOps
<1>5. call[t] # None => \A s \in Threads \ {t} : call[s] = None
  BY DEF CallsOK
<1> QED
  BY <1>1, <1>2, <1>3, <1>4, <1>5

(* The statements of requests, from first to last. *)
LEMMA RequestSequels ==
  LET s == << "seen_locked" >>
      e == << "erase" >>
      i == << "insert" >>
  IN /\ Head(<< s, e, i >>) = s /\ Tail(<< s, e, i >>) = << e, i >>
     /\ Head(<< s, e >>) = s /\ Tail(<< s, e >>) = << e >>
     /\ Head(<< e, i >>) = e /\ Tail(<< e, i >>) = << i >>
     /\ Head(<< e >>) = e /\ Tail(<< e >>) = << >>
     /\ Head(<< i >>) = i /\ Tail(<< i >>) = << >>
OBVIOUS

(* Where a thread is that is at a statement of a request. *)
LEMMA AtRequest ==
  ASSUME CallsOK, NEW t \in Threads, NEW x \in RequestStatement, At(t, x)
  PROVE  LET c == call[t]
         IN /\ c \in RequestCalls
            /\ x = << "seen_locked" >> =>
                 \/ c.op = "seen" /\ Tail(c.todo) = << << "erase" >>, << "insert" >> >>
                 \/ c.op = "out" /\ Tail(c.todo) = << << "erase" >> >>
            /\ x = << "erase" >> =>
                 \/ c.op \in {"in", "seen"} /\ Tail(c.todo) = << << "insert" >> >>
                      /\ c.todo = << << "erase" >>, << "insert" >> >>
                 \/ c.op = "out" /\ Tail(c.todo) = << >> /\ c.todo = << << "erase" >> >>
            /\ x = << "insert" >> => c.op \in {"in", "seen"} /\ Tail(c.todo) = << >>
                                       /\ c.todo = << << "insert" >> >>
<1> DEFINE c == call[t]
<1>1. c # None /\ c.todo # << >> /\ Head(c.todo) = x
  BY DEF At
<1>2. c.op \in RequestOps
  <2> SUFFICES ASSUME c.op \in ReportOps PROVE FALSE
    BY <1>1, CallKinds
  <2>1. c.todo \in Seq(ReportStatement)
    BY DEF CallsOK, GoodCall, Orderly
  <2>2. Head(c.todo) \in ReportStatement
    BY <1>1, <2>1
  <2> QED
    BY <1>1, <2>2, StatementsDiffer
<1>3. c \in RequestCalls /\ c.todo \in RequestTodos(c.op)
  BY <1>2, CallKinds DEF CallsOK, GoodCall
<1>4. CASE c.op = "in"
  <2>1. c.todo \in {<< << "erase" >>, << "insert" >> >>, << << "insert" >> >>}
    BY <1>1, <1>3, <1>4 DEF RequestTodos
  <2> QED
    BY <1>1, <1>3, <1>4, <2>1, StatementsDiffer, RequestSequels
<1>5. CASE c.op = "seen"
  <2>1. c.todo \in {<< << "seen_locked" >>, << "erase" >>, << "insert" >> >>,
                    << << "erase" >>, << "insert" >> >>, << << "insert" >> >>}
    BY <1>1, <1>3, <1>5 DEF RequestTodos
  <2> QED
    BY <1>1, <1>3, <1>5, <2>1, StatementsDiffer, RequestSequels
<1>6. CASE c.op = "out"
  <2>1. c.todo \in {<< << "seen_locked" >>, << "erase" >> >>, << << "erase" >> >>}
    BY <1>1, <1>3, <1>6 DEF RequestTodos
  <2> QED
    BY <1>1, <1>3, <1>6, <2>1, StatementsDiffer, RequestSequels
<1> QED
  BY <1>2, <1>4, <1>5, <1>6 DEF RequestOps

(* Where a thread is that is at a statement of a report. *)
LEMMA AtReport ==
  ASSUME CallsOK, NEW t \in Threads, NEW x \in ReportStatement, At(t, x)
  PROVE  LET c == call[t]
         IN /\ c \in ReportCalls /\ c.op \in ReportOps
            /\ Orderly(c.todo) /\ c.todo # << >> /\ Head(c.todo) = x
            /\ x = << "checkpoint_not_found" >> => c.op = "carbon"
<1> DEFINE c == call[t]
<1>1. c # None /\ c.todo # << >> /\ Head(c.todo) = x
  BY DEF At
<1>2. c.op \in ReportOps
  <2> SUFFICES ASSUME c.op \in RequestOps PROVE FALSE
    BY <1>1, CallKinds
  <2>1. c.todo \in Seq(RequestStatement)
    BY CallKinds DEF RequestCalls
  <2>2. Head(c.todo) \in RequestStatement
    BY <1>1, <2>1
  <2> QED
    BY <1>1, <2>2, StatementsDiffer
<1>3. c \in ReportCalls /\ GoodCall(c) /\ Orderly(c.todo)
  BY <1>2, CallKinds DEF CallsOK, GoodCall
<1>4. Head(c.todo) \in Left(c.todo)
  BY <1>1, <1>3, TailInOrder
<1>5. x = << "checkpoint_not_found" >> => c.op # "debug"
  BY <1>1, <1>3, <1>4 DEF GoodCall
<1> QED
  BY <1>1, <1>2, <1>3, <1>5 DEF ReportOps

(* A step of a thread that is in a method, or that finds the mutex free,    *)
(* needs to be looked at for this thread only.                              *)
LEMMA CallsAfter ==
  ASSUME NEW t \in Threads, call \in [Threads -> {None} \cup RequestCalls \cup ReportCalls],
         \A s \in Threads \ {t} : call[s] = None,
         NEW c \in {None} \cup RequestCalls \cup ReportCalls,
         call' = [call EXCEPT ![t] = c], GoodCall(call[t])'
  PROVE  CallsOK'
<1>1. call' \in [Threads -> {None} \cup RequestCalls \cup ReportCalls]
  OBVIOUS
<1>2. \A s \in Threads \ {t} : call'[s] = None
  OBVIOUS
<1>3. \A s \in Threads \ {t} : GoodCall(call[s])'
  BY <1>2 DEF GoodCall, None, RequestOps, ReportOps
<1> QED
  BY <1>1, <1>2, <1>3 DEF CallsOK

-----------------------------------------------------------------------------
(* What the operations of std::map do. *)
LEMMA WithMaps ==
  /\ \A f, u, x : DOMAIN With(f, u, x) = DOMAIN f \cup {u}
  /\ \A f, u, x : With(f, u, x)[u] = x
  /\ \A f, u, x, v : v \in DOMAIN f /\ v # u => With(f, u, x)[v] = f[v]
BY DEF With

LEMMA WithoutMaps ==
  /\ \A f, u : DOMAIN Without(f, u) = DOMAIN f \ {u}
  /\ \A f, u, v : v \in DOMAIN f /\ v # u => Without(f, u)[v] = f[v]
BY DEF Without, Restrict

(* The counts of all transitions together are a number. *)
LEMMA CountedType ==
  ASSUME TypeOK
  PROVE  /\ IsFiniteSet(Transitions)
         /\ count \in [Transitions -> Int]
         /\ Counted \in Nat
<1>1. /\ IsFiniteSet(Transitions) /\ count \in [Transitions -> Int]
      /\ \A tr \in Transitions : count[tr] >= 0
  BY CorrelatorAssumption DEF TypeOK, CorrelatorAssumption
<1>2. Counted \in Int /\ Counted >= 0
  BY <1>1, SumType DEF Counted
<1> QED
  BY <1>1, <1>2

(* The counted calls after the count of one transition changed. *)
LEMMA CountedChange ==
  ASSUME TypeOK, NEW tr \in Transitions, NEW n \in Nat,
         count' = [count EXCEPT ![tr] = n]
  PROVE  Counted' = Counted + (n - count[tr])
<1>1. /\ IsFiniteSet(Transitions) /\ count \in [Transitions -> Int]
  BY CountedType
<1>2. count' \in [Transitions -> Int] /\ \A y \in Transitions : y # tr => count'[y] = count[y]
  BY <1>1
<1>3. count'[tr] = n
  BY <1>1
<1> HIDE DEF Counted
<1>4. SumFunctionOnSet(count', Transitions)
        = SumFunctionOnSet(count, Transitions) + (count'[tr] - count[tr])
  BY ONLY <1>1, <1>2, SumChange
<1> QED
  BY <1>3, <1>4 DEF Counted

(* What a measure holds, and what adding to it and resetting it do to it.   *)
Measures == [min : Int, max : Int, sum_val : Int, cnt_val : Nat]

LEMMA MeasuresKept ==
  /\ NewMeasure \in Measures /\ NewMeasure.cnt_val = 0
  /\ \A m \in Measures, d \in Int :
       AddLocked(m, d) \in Measures /\ AddLocked(m, d).cnt_val = m.cnt_val + 1
  /\ \A m \in Measures : CarbonReset(m) \in Measures /\ CarbonReset(m).cnt_val = 0
<1>1. NewMeasure \in Measures /\ NewMeasure.cnt_val = 0
  BY DEF NewMeasure, Measures
<1>2. ASSUME NEW m \in Measures, NEW d \in Int
      PROVE  AddLocked(m, d) \in Measures /\ AddLocked(m, d).cnt_val = m.cnt_val + 1
  BY DEF AddLocked, Lesser, Greater, Measures
<1>3. ASSUME NEW m \in Measures
      PROVE  CarbonReset(m) \in Measures /\ CarbonReset(m).cnt_val = 0
  <2> DEFINE q == [min |-> m.min, max |-> m.max, sum_val |-> 0, cnt_val |-> m.cnt_val]
  <2>1. [m EXCEPT !.sum_val = 0] = q
    BY DEF Measures
  <2>2. /\ q.min = m.min /\ q.max = m.max /\ q.sum_val = 0
        /\ q = [min |-> q.min, max |-> q.max, sum_val |-> q.sum_val, cnt_val |-> q.cnt_val]
    OBVIOUS
  <2> HIDE DEF q
  <2>3. [q EXCEPT !.cnt_val = 0]
          = [min |-> q.min, max |-> q.max, sum_val |-> q.sum_val, cnt_val |-> 0]
    BY <2>2
  <2>4. CarbonReset(m) = [min |-> m.min, max |-> m.max, sum_val |-> 0, cnt_val |-> 0]
    BY <2>1, <2>2, <2>3 DEF CarbonReset
  <2> QED
    BY <2>4 DEF Measures
<1> QED
  BY <1>1, <1>2, <1>3

(* What seen_locked() counts: one call, in one of the counters, and with it *)
(* one duration if it is the counter of a transition.                       *)
LEMMA SeenCountsOnce ==
  ASSUME TypeOK, NEW u \in Uids, NEW p \in Checkpoints, NEW now \in Times,
         SeenLocked(u, p, now)
  PROVE  /\ seen_uid_not_found' \in Nat /\ seen_checkpoint_not_found' \in Nat
         /\ count' \in [Transitions -> Nat]
         /\ duration' \in [Transitions -> Measures]
         /\ seen_uid_not_found' + seen_checkpoint_not_found' + Counted'
              = seen_uid_not_found + seen_checkpoint_not_found + Counted + 1
         /\ \A tr \in Transitions : duration'[tr].cnt_val - count'[tr]
                                      = duration[tr].cnt_val - count[tr]
<1>0. /\ seen_uid_not_found \in Nat /\ seen_checkpoint_not_found \in Nat
      /\ count \in [Transitions -> Nat] /\ duration \in [Transitions -> Measures]
      /\ \A tr \in Transitions : duration[tr].cnt_val \in Nat
      /\ Counted \in Nat
  BY CountedType DEF TypeOK, Measures
<1>1. CASE u \notin DOMAIN uids
  <2>1. /\ seen_uid_not_found' = seen_uid_not_found + 1
        /\ UNCHANGED << seen_checkpoint_not_found, count, duration >>
    BY <1>1 DEF SeenLocked
  <2>2. Counted' = Counted
    BY <2>1 DEF Counted
  <2> QED
    BY <1>0, <2>1, <2>2
<1>2. CASE u \in DOMAIN uids /\ << uids[u].at, p >> \notin Transitions
  <2>1. /\ seen_checkpoint_not_found' = seen_checkpoint_not_found + 1
        /\ UNCHANGED << seen_uid_not_found, count, duration >>
    BY <1>2 DEF SeenLocked
  <2>2. Counted' = Counted
    BY <2>1 DEF Counted
  <2> QED
    BY <1>0, <2>1, <2>2
<1>3. CASE u \in DOMAIN uids /\ << uids[u].at, p >> \in Transitions
  <2> DEFINE tr == << uids[u].at, p >>
             d  == now - uids[u].since
  <2>1. /\ duration' = [duration EXCEPT ![tr] = AddLocked(duration[tr], d)]
        /\ count' = [count EXCEPT ![tr] = count[tr] + 1]
        /\ UNCHANGED << seen_uid_not_found, seen_checkpoint_not_found >>
    BY <1>3 DEF SeenLocked
  <2>2. tr \in Transitions /\ count[tr] \in Nat /\ count[tr] + 1 \in Nat
    BY <1>0, <1>3
  <2>3. d \in Int
    <3>1. Times \subseteq Int
      BY CorrelatorAssumption DEF CorrelatorAssumption
    <3>2. uids[u] \in [at : Checkpoints, since : Times]
      BY <1>3 DEF TypeOK
    <3>3. uids[u].since \in Int /\ now \in Int
      BY <3>1, <3>2
    <3> QED
      BY <3>3
  <2> HIDE DEF tr, d
  <2>4. Counted' = Counted + ((count[tr] + 1) - count[tr])
    BY <2>1, <2>2, CountedChange
  <2>5. /\ AddLocked(duration[tr], d).cnt_val = duration[tr].cnt_val + 1
        /\ AddLocked(duration[tr], d) \in Measures
    BY <1>0, <2>2, <2>3, MeasuresKept
  <2>6. /\ count' \in [Transitions -> Nat] /\ count'[tr] = count[tr] + 1
        /\ \A x \in Transitions : x # tr => count'[x] = count[x]
    BY <1>0, <2>1, <2>2
  <2>7. /\ duration' \in [Transitions -> Measures] /\ duration'[tr] = AddLocked(duration[tr], d)
        /\ \A x \in Transitions : x # tr => duration'[x] = duration[x]
    BY <1>0, <2>1, <2>2, <2>5
  <2>8. \A x \in Transitions : duration'[x].cnt_val - count'[x] = duration[x].cnt_val - count[x]
    BY <1>0, <2>2, <2>5, <2>6, <2>7
  <2>9. Counted' = Counted + 1
    BY <1>0, <2>2, <2>4
  <2> QED
    BY <1>0, <2>1, <2>6, <2>7, <2>8, <2>9
<1> QED
  BY <1>1, <1>2, <1>3

-----------------------------------------------------------------------------
(* One statement of a request done: what is left of it. *)
LEMMA RequestGoesOn ==
  ASSUME CallsOK, NEW t \in Threads, NEW c,
         call[t] \in RequestCalls, call[t].todo # << >>,
         c \in RequestCalls, c.op = call[t].op, c.todo = Tail(call[t].todo),
         call' = [call EXCEPT ![t] = c]
  PROVE  CallsOK'
<1>1. call[t].op \in RequestOps /\ call[t].todo \in RequestTodos(call[t].op)
  BY CallKinds DEF CallsOK, GoodCall
<1>2. c.op \in RequestOps /\ c.op \notin ReportOps /\ c.op # "debug"
  BY <1>1 DEF RequestOps, ReportOps
<1>3. c.todo \in RequestTodos(c.op)
        /\ (c.todo # << >> => Head(c.todo) # << "seen_locked" >>)
  <2>1. CASE call[t].op = "in"
    <3>1. call[t].todo \in {<< << "erase" >>, << "insert" >> >>, << << "insert" >> >>}
      BY <1>1, <2>1 DEF RequestTodos
    <3>2. c.todo \in {<< << "insert" >> >>, << >>}
      BY <3>1, RequestSequels
    <3> QED
      BY <2>1, <3>2, RequestSequels, StatementsDiffer DEF RequestTodos
  <2>2. CASE call[t].op = "seen"
    <3>1. call[t].todo \in {<< << "seen_locked" >>, << "erase" >>, << "insert" >> >>,
                             << << "erase" >>, << "insert" >> >>, << << "insert" >> >>}
      BY <1>1, <2>2 DEF RequestTodos
    <3>2. c.todo \in {<< << "erase" >>, << "insert" >> >>, << << "insert" >> >>, << >>}
      BY <3>1, RequestSequels
    <3> QED
      BY <2>2, <3>2, RequestSequels, StatementsDiffer DEF RequestTodos
  <2>3. CASE call[t].op = "out"
    <3>1. call[t].todo \in {<< << "seen_locked" >>, << "erase" >> >>, << << "erase" >> >>}
      BY <1>1, <2>3 DEF RequestTodos
    <3>2. c.todo \in {<< << "erase" >> >>, << >>}
      BY <3>1, RequestSequels
    <3> QED
      BY <2>3, <3>2, RequestSequels, StatementsDiffer DEF RequestTodos
  <2> QED
    BY <1>1, <2>1, <2>2, <2>3 DEF RequestOps
<1>4. call'[t] = c
  BY DEF CallsOK
<1>5. GoodCall(call[t])'
  BY <1>2, <1>3, <1>4 DEF GoodCall
<1>6. \A s \in Threads \ {t} : call[s] = None
  BY <1>1, CallKinds
<1> QED
  BY <1>5, <1>6, CallsAfter DEF CallsOK

(* One statement of a report done: the rest is left. *)
LEMMA ReportGoesOn ==
  ASSUME CallsOK, NEW t \in Threads, NEW c,
         call[t] \in ReportCalls, call[t].todo # << >>,
         c \in ReportCalls, c.op = call[t].op, c.todo = Tail(call[t].todo),
         call' = [call EXCEPT ![t] = c]
  PROVE  CallsOK'
<1>1. call[t].op \in ReportOps /\ GoodCall(call[t]) /\ Orderly(call[t].todo)
  BY CallKinds DEF CallsOK, GoodCall
<1>2. c.op \in ReportOps /\ c.op \notin RequestOps /\ c.op \notin {"seen", "out"}
  BY <1>1 DEF RequestOps, ReportOps
<1>3. Orderly(c.todo) /\ Left(c.todo) \subseteq Left(call[t].todo)
  BY <1>1, TailInOrder
<1>4. call'[t] = c
  BY DEF CallsOK
<1>5. GoodCall(call[t])'
  BY <1>1, <1>2, <1>3, <1>4 DEF GoodCall
<1>6. \A s \in Threads \ {t} : call[s] = None
  BY <1>1, CallKinds
<1> QED
  BY <1>5, <1>6, CallsAfter DEF CallsOK

(* A record of a call with its statements and one more field replaced. *)
LEMMA ReportReplaced ==
  ASSUME NEW r \in ReportCalls, NEW todo, NEW shown
  PROVE  [r EXCEPT !.todo = todo, !.shown = shown]
           = [op |-> r.op, todo |-> todo, shown |-> shown, agree |-> r.agree]
<1> DEFINE q == [op |-> r.op, todo |-> todo, shown |-> r.shown, agree |-> r.agree]
<1>1. [r EXCEPT !.todo = todo] = q
  BY DEF ReportCalls
<1>2. /\ q.op = r.op /\ q.todo = todo /\ q.agree = r.agree
      /\ q = [op |-> q.op, todo |-> q.todo, shown |-> q.shown, agree |-> q.agree]
  OBVIOUS
<1> HIDE DEF q
<1>3. [q EXCEPT !.shown = shown]
        = [op |-> q.op, todo |-> q.todo, shown |-> shown, agree |-> q.agree]
  BY <1>2
<1> QED
  BY <1>1, <1>2, <1>3

LEMMA RequestReplaced ==
  ASSUME NEW r \in RequestCalls, NEW todo, NEW step
  PROVE  /\ [r EXCEPT !.todo = todo] = [op |-> r.op, todo |-> todo, uid |-> r.uid,
                                       pid |-> r.pid, step |-> r.step]
         /\ [r EXCEPT !.todo = todo, !.step = step]
              = [op |-> r.op, todo |-> todo, uid |-> r.uid, pid |-> r.pid, step |-> step]
<1> DEFINE q == [op |-> r.op, todo |-> todo, uid |-> r.uid, pid |-> r.pid, step |-> r.step]
<1>1. [r EXCEPT !.todo = todo] = q
  BY DEF RequestCalls
<1>2. /\ q.op = r.op /\ q.todo = todo /\ q.uid = r.uid /\ q.pid = r.pid
      /\ q = [op |-> q.op, todo |-> q.todo, uid |-> q.uid, pid |-> q.pid, step |-> q.step]
  OBVIOUS
<1> HIDE DEF q
<1>3. [q EXCEPT !.step = step]
        = [op |-> q.op, todo |-> q.todo, uid |-> q.uid, pid |-> q.pid, step |-> step]
  BY <1>2
<1>4. [r EXCEPT !.todo = todo, !.step = step]
        = [op |-> r.op, todo |-> todo, uid |-> r.uid, pid |-> r.pid, step |-> step]
  BY <1>1, <1>2, <1>3
<1> QED
  BY <1>1, <1>4 DEF q

(* What WriteReport does to the report of a thread. *)
LEMMA ReportWritten ==
  ASSUME CallsOK, NEW t \in Threads, NEW x \in ReportStatement, At(t, x),
         NEW shown \in SUBSET Shown, WriteReport(t, shown)
  PROVE  /\ CallsOK'
         /\ call[t].op \in ReportOps
         /\ \A s \in Threads \ {t} : call[s] = None /\ call'[s] = None
         /\ call'[t].op = call[t].op /\ call'[t].agree = call[t].agree
         /\ call'[t] \in ReportCalls
         /\ Left(call'[t].todo) = Left(call[t].todo) \ {x} /\ x \in Left(call[t].todo)
         /\ \/ call'[t].shown = call[t].shown \cup shown /\ fd # "closed"
            \/ call'[t].shown = call[t].shown /\ fd' = "closed"
<1>1. PICK written \in BOOLEAN :
        /\ Write(written)
        /\ call' = [call EXCEPT
             ![t].todo = Tail(@), ![t].shown = IF written THEN @ \cup shown ELSE @]
  BY DEF WriteReport
<1>2. /\ call[t] \in ReportCalls /\ call[t].op \in ReportOps
      /\ Orderly(call[t].todo) /\ call[t].todo # << >> /\ Head(call[t].todo) = x
  BY AtReport
<1> DEFINE more == IF written THEN call[t].shown \cup shown ELSE call[t].shown
           c == [op |-> call[t].op, todo |-> Tail(call[t].todo), shown |-> more,
                 agree |-> call[t].agree]
<1>3. call' = [call EXCEPT ![t] = c]
  <2>1. /\ call \in [Threads -> {None} \cup RequestCalls \cup ReportCalls]
        /\ t \in DOMAIN call
    BY DEF CallsOK
  <2>2. call' = [call EXCEPT ![t] = [[call[t] EXCEPT !.todo = Tail(call[t].todo)]
                                        EXCEPT !.shown = more]]
    BY <1>1, <2>1
  <2>3. [call[t] EXCEPT !.todo = Tail(call[t].todo), !.shown = more] = c
    BY <1>2, ReportReplaced
  <2> QED
    BY <2>2, <2>3
<1>4. c \in ReportCalls
  <2>1. Tail(call[t].todo) \in Seq(ReportStatement)
    BY <1>2 DEF Orderly
  <2>2. more \in SUBSET Shown
    BY <1>2 DEF ReportCalls
  <2> QED
    BY <1>2, <2>1, <2>2 DEF ReportCalls
<1>5. CallsOK'
  BY <1>2, <1>3, <1>4, ReportGoesOn
<1>6. \A s \in Threads \ {t} : call[s] = None
  BY <1>2, CallKinds
<1>7. call'[t] = c /\ \A s \in Threads \ {t} : call'[s] = None
  BY <1>3, <1>6 DEF CallsOK
<1>8. Left(Tail(call[t].todo)) = Left(call[t].todo) \ {x} /\ x \in Left(call[t].todo)
  BY <1>2, TailInOrder
<1>9. \/ more = call[t].shown \cup shown /\ fd # "closed"
      \/ more = call[t].shown /\ fd' = "closed"
  BY <1>1 DEF Write
<1> QED
  BY <1>2, <1>4, <1>5, <1>6, <1>7, <1>8, <1>9

(* What a statement of a request does to its call, and what it was. *)
Continued(c, step) ==
  [op |-> c.op, todo |-> Tail(c.todo), uid |-> c.uid, pid |-> c.pid, step |-> step]

LEMMA RequestDone ==
  ASSUME CallsOK, NEW t \in Threads, NEW x \in RequestStatement, At(t, x),
         NEW step \in Int, call' = [call EXCEPT ![t] = Continued(call[t], step)]
  PROVE  /\ CallsOK'
         /\ \A s \in Threads \ {t} : call[s] = None /\ call'[s] = None
         /\ call[t] \in RequestCalls /\ call'[t] \in RequestCalls
         /\ call[t].op \in RequestOps
         /\ call'[t] = Continued(call[t], step)
<1> DEFINE c == Continued(call[t], step)
<1>1. call[t] \in RequestCalls /\ call[t].todo # << >> /\ call[t].op \in RequestOps
  BY AtRequest DEF At, RequestCalls
<1>2. Tail(call[t].todo) \in Seq(RequestStatement)
  BY <1>1 DEF RequestCalls
<1>3. c \in RequestCalls /\ c.op = call[t].op /\ c.todo = Tail(call[t].todo)
  BY <1>1, <1>2 DEF RequestCalls, Continued
<1>4. CallsOK'
  BY <1>1, <1>3, RequestGoesOn
<1>5. \A s \in Threads \ {t} : call[s] = None
  BY <1>1, CallKinds
<1>6. call'[t] = c /\ \A s \in Threads \ {t} : call'[s] = None
  BY <1>5 DEF CallsOK
<1> QED
  BY <1>1, <1>3, <1>4, <1>5, <1>6

(* Each statement of a request continues its call. *)
LEMMA RequestContinues ==
  ASSUME CallsOK, NEW t \in Threads, call[t] \in RequestCalls
  PROVE  /\ [call EXCEPT ![t].todo = Tail(@)]
              = [call EXCEPT ![t] = Continued(call[t], call[t].step)]
         /\ \A step \in Int :
              [call EXCEPT ![t].todo = Tail(@), ![t].step = step]
                = [call EXCEPT ![t] = Continued(call[t], step)]
         /\ call[t].step \in Int
<1>1. call[t].step \in Int
  BY DEF RequestCalls
<1>2. /\ call \in [Threads -> {None} \cup RequestCalls \cup ReportCalls]
      /\ t \in DOMAIN call
  BY DEF CallsOK
<1>3. [call[t] EXCEPT !.todo = Tail(call[t].todo)] = Continued(call[t], call[t].step)
  BY RequestReplaced DEF Continued
<1>4. ASSUME NEW step \in Int
      PROVE  [call EXCEPT ![t].todo = Tail(@), ![t].step = step]
               = [call EXCEPT ![t] = Continued(call[t], step)]
  <2>1. [call EXCEPT ![t].todo = Tail(@), ![t].step = step]
          = [call EXCEPT ![t] = [[call[t] EXCEPT !.todo = Tail(call[t].todo)]
                                    EXCEPT !.step = step]]
    BY <1>2
  <2>2. [[call[t] EXCEPT !.todo = Tail(call[t].todo)] EXCEPT !.step = step]
          = Continued(call[t], step)
    BY RequestReplaced DEF Continued
  <2> QED
    BY <2>1, <2>2
<1> QED
  BY <1>1, <1>2, <1>3, <1>4

-----------------------------------------------------------------------------
(* The statements of seen(). *)
LEMMA SeenStatements ==
  Statements("seen") = << << "seen_locked" >>, << "erase" >>, << "insert" >> >>
<1>1. ASSUME NEW S, NEW a \in S, NEW b \in S, NEW c \in S
      PROVE  << a >> \o << b, c >> = << a, b, c >>
  <2> DEFINE x == << a >> \o << b, c >>
             y == << a, b, c >>
  <2>1. x \in Seq(S) /\ y \in Seq(S) /\ Len(x) = 3 /\ Len(y) = 3
    OBVIOUS
  <2>2. x[1] = y[1] /\ x[2] = y[2] /\ x[3] = y[3]
    OBVIOUS
  <2>3. \A i \in 1..3 : i = 1 \/ i = 2 \/ i = 3
    OBVIOUS
  <2>4. \A i \in 1..3 : x[i] = y[i]
    BY <2>2, <2>3
  <2> HIDE DEF x, y
  <2>5. x = y
    BY <2>1, <2>4
  <2> QED
    BY <2>5 DEF x, y
<1> DEFINE s == << "seen_locked" >>
           e == << "erase" >>
           i == << "insert" >>
<1>2. s \in RequestStatement /\ e \in RequestStatement /\ i \in RequestStatement
  BY DEF RequestStatement
<1>3. Statements("seen") = << s >> \o << e, i >>
  BY DEF Statements, InLockedStatements
<1> HIDE DEF s, e, i
<1>4. << s >> \o << e, i >> = << s, e, i >>
  BY <1>1, <1>2
<1> QED
  BY <1>3, <1>4 DEF s, e, i

(* What each step does to the calls, and that it keeps the types.  A method *)
(* is begun when no thread is in one.                                       *)
LEMMA AfterLockRequest ==
  ASSUME TypeOK, CallsOK, NEW t \in Threads, NEW op \in RequestOps, NEW u \in Uids,
         NEW p \in Checkpoints, LockRequest(t, op, u, p)
  PROVE  /\ TypeOK' /\ CallsOK'
         /\ \A s \in Threads : call[s] = None /\ (s # t => call'[s] = None)
         /\ call'[t] = [op |-> op, todo |-> Statements(op), uid |-> u, pid |-> p, step |-> 0]
<1> DEFINE c == [op |-> op, todo |-> Statements(op), uid |-> u, pid |-> p, step |-> 0]
<1>1. /\ \A s \in Threads : call[s] = None
      /\ op # "in" => calls < MaxCalls
      /\ call' = [call EXCEPT ![t] = c] /\ UNCHANGED vars
  BY DEF LockRequest, MutexIsFree
<1>2. Statements(op) \in Seq(RequestStatement) /\ Statements(op) \in RequestTodos(op)
  <2>1. CASE op = "in"
    BY <2>1 DEF Statements, InLockedStatements, RequestTodos, RequestStatement
  <2>2. CASE op = "seen"
    <3>1. Statements(op) = << << "seen_locked" >>, << "erase" >>, << "insert" >> >>
      BY <2>2, SeenStatements
    <3>2. << << "seen_locked" >>, << "erase" >>, << "insert" >> >> \in Seq(RequestStatement)
      BY DEF RequestStatement
    <3> QED
      BY <2>2, <3>1, <3>2 DEF RequestTodos
  <2>3. CASE op = "out"
    BY <2>3 DEF Statements, RequestTodos, RequestStatement
  <2> QED
    BY <2>1, <2>2, <2>3 DEF RequestOps
<1>3. c \in RequestCalls
  BY <1>2 DEF RequestCalls
<1>4. call'[t] = c /\ \A s \in Threads \ {t} : call'[s] = None
  BY <1>1 DEF CallsOK
<1>5. op \notin ReportOps /\ op # "debug"
  BY DEF RequestOps, ReportOps
<1>6. GoodCall(call[t])'
  BY <1>1, <1>2, <1>4, <1>5 DEF GoodCall, vars
<1>7. CallsOK'
  BY <1>1, <1>3, <1>6, CallsAfter DEF CallsOK
<1>8. TypeOK'
  BY <1>1 DEF vars, counters, journeys, TypeOK
<1> QED
  BY <1>1, <1>4, <1>7, <1>8

LEMMA AfterLockReport ==
  ASSUME TypeOK, CallsOK, NEW t \in Threads, NEW op \in ReportOps, LockReport(t, op)
  PROVE  /\ TypeOK' /\ CallsOK'
         /\ \A s \in Threads : call[s] = None /\ (s # t => call'[s] = None)
         /\ call'[t] = [op |-> op, todo |-> Statements(op), shown |-> {}, agree |-> ~debugged]
<1> DEFINE c == [op |-> op, todo |-> Statements(op), shown |-> {}, agree |-> ~debugged]
<1>1. /\ \A s \in Threads : call[s] = None
      /\ call' = [call EXCEPT ![t] = c] /\ debugged' = TRUE
      /\ UNCHANGED << uids, duration, counters, clock, calls, reported, journeys >>
  BY DEF LockReport, MutexIsFree
<1>2. /\ Orderly(Statements(op))
      /\ op = "debug" => << "checkpoint_not_found" >> \notin Left(Statements(op))
  BY ReportBegins DEF ReportOps
<1>3. c \in ReportCalls
  <2>1. Statements(op) \in Seq(ReportStatement)
    BY <1>2 DEF Orderly
  <2> QED
    BY <2>1 DEF ReportCalls
<1>4. call'[t] = c /\ \A s \in Threads \ {t} : call'[s] = None
  BY <1>1 DEF CallsOK
<1>5. op \notin RequestOps /\ op \notin {"seen", "out"}
  BY DEF RequestOps, ReportOps
<1>6. GoodCall(call[t])'
  BY <1>2, <1>4, <1>5 DEF GoodCall
<1>7. CallsOK'
  BY <1>1, <1>3, <1>6, CallsAfter DEF CallsOK
<1>8. TypeOK'
  BY <1>1 DEF counters, journeys, TypeOK
<1> QED
  BY <1>1, <1>4, <1>7, <1>8

(* A call ends when no statement is left. *)
LEMMA AfterUnlock ==
  ASSUME TypeOK, CallsOK, NEW t \in Threads, Unlock(t)
  PROVE  /\ TypeOK' /\ CallsOK'
         /\ \A s \in Threads : call'[s] = None /\ (s # t => call[s] = None)
         /\ call[t] # None /\ call[t].todo = << >>
<1>1. /\ call[t] # None /\ call[t].todo = << >>
      /\ call' = [call EXCEPT ![t] = None]
      /\ debugged' = (debugged /\ call[t].op # "carbon")
      /\ UNCHANGED << uids, duration, counters, clock, calls, reported, journeys >>
  BY DEF Unlock
<1>2. \A s \in Threads \ {t} : call[s] = None
  BY <1>1, CallKinds
<1>3. call'[t] = None /\ \A s \in Threads \ {t} : call'[s] = None
  BY <1>1, <1>2 DEF CallsOK
<1>4. GoodCall(call[t])'
  BY <1>3 DEF GoodCall, None, RequestOps, ReportOps
<1>5. CallsOK'
  BY <1>1, <1>2, <1>4, CallsAfter DEF CallsOK
<1>6. TypeOK'
  BY <1>1 DEF counters, journeys, TypeOK
<1> QED
  BY <1>1, <1>2, <1>3, <1>5, <1>6

(* A statement of a request, done by the one thread that is in a method. *)
LEMMA AfterSeenStatement ==
  ASSUME TypeOK, CallsOK, NEW t \in Threads, SeenStatement(t)
  PROVE  LET c == call[t]
             u == call[t].uid
         IN /\ TypeOK' /\ CallsOK'
            /\ \A s \in Threads : s # t => call[s] = None /\ call'[s] = None
            /\ c \in RequestCalls /\ call'[t] \in RequestCalls
            /\ \/ c.op = "seen" /\ call'[t].todo = << << "erase" >>, << "insert" >> >>
               \/ c.op = "out" /\ call'[t].todo = << << "erase" >> >>
            /\ call'[t].op = c.op /\ call'[t].uid = c.uid /\ call'[t].pid = c.pid
            /\ call'[t].step = IF u \in DOMAIN uids THEN clock' - uids[u].since ELSE 0
            /\ clock' \in Readings(clock) /\ SeenLocked(u, c.pid, clock')
            /\ calls < MaxCalls /\ calls' = calls + 1
            /\ UNCHANGED << uids, reported, debugged, journeys, fd, committed >>
<1> DEFINE c == call[t]
           u == call[t].uid
           x == << "seen_locked" >>
           step == IF u \in DOMAIN uids THEN clock' - uids[u].since ELSE 0
<1>1. /\ At(t, x)
      /\ clock' \in Readings(clock) /\ SeenLocked(u, c.pid, clock')
      /\ call' = [call EXCEPT ![t].todo = Tail(@), ![t].step = step]
      /\ calls' = calls + 1
      /\ UNCHANGED << uids, reported, debugged, journeys, fd, committed >>
  BY DEF SeenStatement
<1>2. x \in RequestStatement
  BY DEF RequestStatement
<1>3. /\ c \in RequestCalls /\ c.todo # << >> /\ Head(c.todo) = x
      /\ \/ c.op = "seen" /\ Tail(c.todo) = << << "erase" >>, << "insert" >> >>
         \/ c.op = "out" /\ Tail(c.todo) = << << "erase" >> >>
  BY <1>1, <1>2, AtRequest DEF At
<1>4. u \in Uids /\ c.pid \in Checkpoints
  BY <1>3 DEF RequestCalls
<1>5. clock' \in Times /\ Times \subseteq Int
  BY <1>1, CorrelatorAssumption DEF Readings, CorrelatorAssumption
<1>6. step \in Int
  <2>1. u \in DOMAIN uids => uids[u] \in [at : Checkpoints, since : Times]
    BY DEF TypeOK
  <2>2. u \in DOMAIN uids => uids[u].since \in Int
    BY <1>5, <2>1
  <2>3. clock' \in Int
    BY <1>5
  <2> QED
    BY <2>2, <2>3
<1> HIDE DEF step
<1>7. call' = [call EXCEPT ![t] = Continued(call[t], step)]
  BY <1>1, <1>3, <1>6, RequestContinues
<1>8. /\ CallsOK'
      /\ \A s \in Threads \ {t} : call[s] = None /\ call'[s] = None
      /\ call'[t] \in RequestCalls /\ call'[t] = Continued(call[t], step)
  BY <1>1, <1>2, <1>6, <1>7, RequestDone
<1>9. /\ call'[t].op = c.op /\ call'[t].uid = c.uid /\ call'[t].pid = c.pid
      /\ call'[t].step = step /\ call'[t].todo = Tail(c.todo)
  BY <1>8 DEF Continued
<1>10. calls < MaxCalls
  BY <1>3 DEF CallsOK, GoodCall
<1>11. calls' \in 0..MaxCalls
  BY <1>1, <1>10, CorrelatorAssumption DEF TypeOK, CorrelatorAssumption
<1>12. /\ seen_uid_not_found' \in Nat /\ seen_checkpoint_not_found' \in Nat
       /\ count' \in [Transitions -> Nat]
       /\ duration' \in [Transitions -> Measures]
  BY <1>1, <1>4, <1>5, SeenCountsOnce
<1>13. TypeOK'
  BY <1>1, <1>5, <1>11, <1>12 DEF TypeOK, Measures, journeys
<1> QED
  BY <1>1, <1>3, <1>8, <1>9, <1>10, <1>13 DEF step

LEMMA AfterEraseStatement ==
  ASSUME TypeOK, CallsOK, NEW t \in Threads, EraseStatement(t)
  PROVE  LET c == call[t]
             u == call[t].uid
         IN /\ TypeOK' /\ CallsOK'
            /\ \A s \in Threads : s # t => call[s] = None /\ call'[s] = None
            /\ c \in RequestCalls /\ call'[t] \in RequestCalls
            /\ \/ /\ c.op \in {"in", "seen"} /\ c.todo = << << "erase" >>, << "insert" >> >>
                  /\ call'[t].todo = << << "insert" >> >>
               \/ c.op = "out" /\ c.todo = << << "erase" >> >> /\ call'[t].todo = << >>
            /\ call'[t].op = c.op /\ call'[t].uid = c.uid /\ call'[t].pid = c.pid
            /\ call'[t].step = c.step
<1> DEFINE c == call[t]
           u == call[t].uid
           x == << "erase" >>
<1>1. /\ At(t, x)
      /\ uids' = Erased(uids, u)
      /\ call' = [call EXCEPT ![t].todo = Tail(@)]
      /\ IF call[t].op = "out"
         THEN entered' = Without(entered, u) /\ spent' = Without(spent, u)
         ELSE UNCHANGED journeys
      /\ UNCHANGED << duration, counters, clock, calls, reported, debugged >>
  BY DEF EraseStatement, Finished
<1>2. x \in RequestStatement
  BY DEF RequestStatement
<1>3. /\ c \in RequestCalls
      /\ \/ /\ c.op \in {"in", "seen"} /\ c.todo = << << "erase" >>, << "insert" >> >>
            /\ Tail(c.todo) = << << "insert" >> >>
         \/ c.op = "out" /\ c.todo = << << "erase" >> >> /\ Tail(c.todo) = << >>
  BY <1>1, <1>2, AtRequest
<1>4. call' = [call EXCEPT ![t] = Continued(call[t], call[t].step)] /\ call[t].step \in Int
  BY <1>1, <1>3, RequestContinues
<1>5. /\ CallsOK'
      /\ \A s \in Threads \ {t} : call[s] = None /\ call'[s] = None
      /\ call'[t] \in RequestCalls /\ call'[t] = Continued(call[t], call[t].step)
  BY <1>1, <1>2, <1>4, RequestDone
<1>6. /\ call'[t].op = c.op /\ call'[t].uid = c.uid /\ call'[t].pid = c.pid
      /\ call'[t].step = c.step /\ call'[t].todo = Tail(c.todo)
  BY <1>5 DEF Continued
<1>7. /\ DOMAIN uids' = DOMAIN uids \ {u}
      /\ \A v \in DOMAIN uids \ {u} : uids'[v] = uids[v]
      /\ DOMAIN entered \ {u} \subseteq DOMAIN entered'
      /\ DOMAIN spent \ {u} \subseteq DOMAIN spent'
  <2>1. /\ uids' = Without(uids, u)
        /\ entered' = Without(entered, u) \/ entered' = entered
        /\ spent' = Without(spent, u) \/ spent' = spent
    BY <1>1 DEF Erased, journeys
  <2> HIDE DEF u
  <2>2. \A f : DOMAIN Without(f, u) = DOMAIN f \ {u}
    BY WithoutMaps
  <2>3. \A v \in DOMAIN uids \ {u} : Without(uids, u)[v] = uids[v]
    BY WithoutMaps
  <2> QED
    BY <2>1, <2>2, <2>3
<1>8. TypeOK'
  BY <1>1, <1>7 DEF TypeOK, counters
<1> QED
  BY <1>3, <1>5, <1>6, <1>8

LEMMA AfterInsertStatement ==
  ASSUME TypeOK, CallsOK, NEW t \in Threads, InsertStatement(t)
  PROVE  LET c == call[t]
             u == call[t].uid
         IN /\ TypeOK' /\ CallsOK'
            /\ \A s \in Threads : s # t => call[s] = None /\ call'[s] = None
            /\ c \in RequestCalls /\ call'[t] \in RequestCalls
            /\ c.op \in {"in", "seen"} /\ c.todo = << << "insert" >> >>
            /\ call'[t].todo = << >>
            /\ call'[t].op = c.op /\ call'[t].uid = c.uid /\ call'[t].pid = c.pid
            /\ clock' \in Readings(clock) /\ clock' \in Times
            /\ uids' = Inserted(uids, u, c.pid, clock')
            /\ LET known == c.op = "seen" /\ u \in DOMAIN entered
               IN /\ entered' = IF known THEN entered ELSE With(entered, u, clock')
                  /\ spent' = With(spent, u, IF known THEN spent[u] + c.step ELSE 0)
            /\ UNCHANGED << duration, counters, calls, reported, debugged, fd, committed >>
<1> DEFINE c == call[t]
           u == call[t].uid
           x == << "insert" >>
           known == c.op = "seen" /\ u \in DOMAIN entered
<1>1. /\ At(t, x)
      /\ clock' \in Readings(clock)
      /\ uids' = Inserted(uids, u, c.pid, clock')
      /\ entered' = IF known THEN entered ELSE With(entered, u, clock')
      /\ spent' = With(spent, u, IF known THEN spent[u] + c.step ELSE 0)
      /\ call' = [call EXCEPT ![t].todo = Tail(@)]
      /\ UNCHANGED << duration, counters, calls, reported, debugged, fd, committed >>
  BY DEF InsertStatement, Finished
<1>2. x \in RequestStatement
  BY DEF RequestStatement
<1>3. /\ c \in RequestCalls
      /\ c.op \in {"in", "seen"} /\ c.todo = << x >> /\ Tail(c.todo) = << >>
  BY <1>1, <1>2, AtRequest, StatementsDiffer
<1>4. call' = [call EXCEPT ![t] = Continued(call[t], call[t].step)] /\ call[t].step \in Int
  BY <1>1, <1>3, RequestContinues
<1>5. /\ CallsOK'
      /\ \A s \in Threads \ {t} : call[s] = None /\ call'[s] = None
      /\ call'[t] \in RequestCalls /\ call'[t] = Continued(call[t], call[t].step)
  BY <1>1, <1>2, <1>4, RequestDone
<1>6. /\ call'[t].op = c.op /\ call'[t].uid = c.uid /\ call'[t].pid = c.pid
      /\ call'[t].todo = Tail(c.todo)
  BY <1>5 DEF Continued
<1>7. u \in Uids /\ c.pid \in Checkpoints /\ clock' \in Times
  BY <1>1, <1>3 DEF RequestCalls, Readings
<1>8. /\ DOMAIN uids' = DOMAIN uids \cup {u}
      /\ \A v \in DOMAIN uids' : uids'[v] \in [at : Checkpoints, since : Times]
  <2>1. \A v \in DOMAIN uids : uids[v] \in [at : Checkpoints, since : Times]
    BY DEF TypeOK
  <2>2. CASE u \in DOMAIN uids
    BY <1>1, <2>1, <2>2 DEF Inserted
  <2>3. CASE u \notin DOMAIN uids
    <3>1. /\ DOMAIN uids' = DOMAIN uids \cup {u}
          /\ uids'[u] = [at |-> c.pid, since |-> clock']
          /\ \A v \in DOMAIN uids : v # u => uids'[v] = uids[v]
      <4> DEFINE y == [at |-> c.pid, since |-> clock']
      <4>1. uids' = With(uids, u, y)
        BY <1>1, <2>3 DEF Inserted
      <4> HIDE DEF u, y
      <4>2. DOMAIN uids' = DOMAIN uids \cup {u}
        BY <4>1, WithMaps
      <4>3. uids'[u] = y
        BY <4>1, WithMaps
      <4>4. \A v \in DOMAIN uids : v # u => uids'[v] = uids[v]
        BY <4>1, WithMaps
      <4> QED
        BY <4>2, <4>3, <4>4 DEF y
    <3>2. uids'[u] \in [at : Checkpoints, since : Times]
      BY <1>7, <3>1
    <3> QED
      BY <2>1, <3>1, <3>2
  <2> QED
    BY <2>2, <2>3
<1>9. DOMAIN entered \cup {u} \subseteq DOMAIN entered' /\ DOMAIN spent \cup {u} \subseteq DOMAIN spent'
  <2> HIDE DEF u
  <2>1. \A f, y : DOMAIN With(f, u, y) = DOMAIN f \cup {u}
    BY WithMaps
  <2>2. \/ entered' = entered /\ u \in DOMAIN entered
        \/ entered' = With(entered, u, clock')
    BY <1>1
  <2>3. \E y : spent' = With(spent, u, y)
    BY <1>1
  <2> QED
    BY <2>1, <2>2, <2>3
<1>10. TypeOK'
  BY <1>1, <1>7, <1>8, <1>9 DEF TypeOK, counters
<1> QED
  BY <1>1, <1>3, <1>5, <1>6, <1>7, <1>10

(* A statement of a report: x is what it writes, and then resets. *)
ReportGoes(t, x) ==
  /\ call[t].op \in ReportOps /\ call[t] \in ReportCalls
  /\ \A s \in Threads : s # t => call[s] = None /\ call'[s] = None
  /\ call'[t].op = call[t].op /\ call'[t].agree = call[t].agree
  /\ call'[t] \in ReportCalls
  /\ Left(call'[t].todo) = Left(call[t].todo) \ {x} /\ x \in Left(call[t].todo)

LEMMA AfterSerializeUidNotFound ==
  ASSUME TypeOK, CallsOK, NEW t \in Threads, SerializeUidNotFound(t)
  PROVE  /\ TypeOK' /\ CallsOK' /\ ReportGoes(t, << "uid_not_found" >>)
         /\ call'[t].shown = call[t].shown
         /\ fd = "closed" => fd' = "closed"
<1> DEFINE x == << "uid_not_found" >>
<1>1. x \in ReportStatement /\ {} \in SUBSET Shown
  BY DEF ReportStatement
<1>2. At(t, x) /\ WriteReport(t, {})
  BY DEF SerializeUidNotFound
<1>3. /\ CallsOK' /\ ReportGoes(t, x)
      /\ \/ call'[t].shown = call[t].shown \cup {} /\ fd # "closed"
         \/ call'[t].shown = call[t].shown /\ fd' = "closed"
  BY <1>1, <1>2, ReportWritten, CallKinds DEF ReportGoes
<1>4. TypeOK'
  BY DEF SerializeUidNotFound, TypeOK, journeys
<1> QED
  BY <1>3, <1>4

LEMMA AfterSerializeCheckpointNotFound ==
  ASSUME TypeOK, CallsOK, NEW t \in Threads, SerializeCheckpointNotFound(t)
  PROVE  /\ TypeOK' /\ CallsOK' /\ ReportGoes(t, << "checkpoint_not_found" >>)
         /\ call[t].op = "carbon"
         /\ call'[t].shown = call[t].shown
         /\ fd = "closed" => fd' = "closed"
<1> DEFINE x == << "checkpoint_not_found" >>
<1>1. x \in ReportStatement /\ {} \in SUBSET Shown
  BY DEF ReportStatement
<1>2. At(t, x) /\ WriteReport(t, {})
  BY DEF SerializeCheckpointNotFound
<1>3. /\ CallsOK' /\ ReportGoes(t, x)
      /\ \/ call'[t].shown = call[t].shown \cup {} /\ fd # "closed"
         \/ call'[t].shown = call[t].shown /\ fd' = "closed"
  BY <1>1, <1>2, ReportWritten, CallKinds DEF ReportGoes
<1>4. call[t].op = "carbon"
  BY <1>1, <1>2, AtReport
<1>5. TypeOK'
  BY DEF SerializeCheckpointNotFound, TypeOK, journeys
<1> QED
  BY <1>3, <1>4, <1>5

LEMMA AfterSerializeDuration ==
  ASSUME TypeOK, CallsOK, NEW t \in Threads, NEW tr \in Transitions,
         SerializeDuration(t, tr)
  PROVE  /\ TypeOK' /\ CallsOK' /\ ReportGoes(t, Leaf("duration", tr))
         /\ \/ /\ call'[t].shown
                    = call[t].shown \cup {<< "duration", tr, duration[tr].cnt_val >>}
               /\ fd # "closed"
            \/ call'[t].shown = call[t].shown /\ fd' = "closed"
         /\ duration'[tr] = IF call[t].op = "carbon" THEN CarbonReset(duration[tr])
                                                     ELSE duration[tr]
         /\ \A x \in Transitions : x # tr => duration'[x] = duration[x]
<1> DEFINE x == Leaf("duration", tr)
           shown == {<< "duration", tr, duration[tr].cnt_val >>}
<1>1. x \in ReportStatement
  BY DEF ReportStatement
<1>2. shown \in SUBSET Shown
  BY DEF TypeOK, Shown
<1>3. At(t, x) /\ WriteReport(t, shown)
  BY DEF SerializeDuration, Leaf
<1>4. /\ CallsOK' /\ ReportGoes(t, x)
      /\ \/ call'[t].shown = call[t].shown \cup shown /\ fd # "closed"
         \/ call'[t].shown = call[t].shown /\ fd' = "closed"
  BY <1>1, <1>2, <1>3, ReportWritten, CallKinds DEF ReportGoes
<1>5. CarbonReset(duration[tr]) \in Measures /\ duration \in [Transitions -> Measures]
  BY MeasuresKept DEF TypeOK, Measures
<1>6. /\ duration' \in [Transitions -> Measures]
      /\ duration'[tr] = IF call[t].op = "carbon" THEN CarbonReset(duration[tr])
                                                  ELSE duration[tr]
      /\ \A y \in Transitions : y # tr => duration'[y] = duration[y]
  BY <1>5 DEF SerializeDuration
<1>7. TypeOK'
  BY <1>6 DEF SerializeDuration, TypeOK, Measures, counters, journeys
<1> QED
  BY <1>4, <1>6, <1>7

LEMMA AfterSerializeCount ==
  ASSUME TypeOK, CallsOK, NEW t \in Threads, NEW tr \in Transitions,
         SerializeCount(t, tr)
  PROVE  /\ TypeOK' /\ CallsOK' /\ ReportGoes(t, Leaf("count", tr))
         /\ \/ /\ call'[t].shown = call[t].shown \cup {<< "count", tr, count[tr] >>}
               /\ fd # "closed"
            \/ call'[t].shown = call[t].shown /\ fd' = "closed"
         /\ Leaf("duration", tr) \notin Left(call[t].todo)
         /\ count'[tr] = 0
         /\ \A x \in Transitions : x # tr => count'[x] = count[x]
         /\ Counted' = Counted - count[tr]
<1> DEFINE x == Leaf("count", tr)
           shown == {<< "count", tr, count[tr] >>}
<1>1. x \in ReportStatement
  BY DEF ReportStatement
<1>2. shown \in SUBSET Shown /\ count[tr] \in Nat /\ count \in [Transitions -> Nat]
  BY DEF TypeOK, Shown
<1>3. At(t, x) /\ WriteReport(t, shown) /\ count' = [count EXCEPT ![tr] = 0]
      /\ reported' = reported + count[tr]
  BY DEF SerializeCount, Leaf
<1>4. /\ CallsOK' /\ ReportGoes(t, x)
      /\ \/ call'[t].shown = call[t].shown \cup shown /\ fd # "closed"
         \/ call'[t].shown = call[t].shown /\ fd' = "closed"
  BY <1>1, <1>2, <1>3, ReportWritten, CallKinds DEF ReportGoes
<1>5. /\ count' \in [Transitions -> Nat] /\ count'[tr] = 0
      /\ \A y \in Transitions : y # tr => count'[y] = count[y]
  BY <1>2, <1>3
<1>6. Counted' = Counted + (0 - count[tr]) /\ Counted \in Nat
  BY <1>3, CountedChange, CountedType
<1>7. Leaf("duration", tr) \notin Left(call[t].todo)
  BY <1>1, <1>3, AtReport, HeadIsNotAfter
<1>8. TypeOK'
  BY <1>2, <1>3, <1>5 DEF SerializeCount, TypeOK, journeys
<1> QED
  BY <1>2, <1>4, <1>5, <1>6, <1>7, <1>8

-----------------------------------------------------------------------------
(* The inductive invariants.  A request that has become known is in uids,   *)
(* but between the erase and the insert of its own thread.                  *)
AtInsert(t) == call[t].op \in {"in", "seen"} /\ call[t].todo = << << "insert" >> >>

JourneysKnown ==
  /\ DOMAIN spent = DOMAIN entered
  /\ \A u \in DOMAIN entered : entered[u] \in Int /\ spent[u] \in Int
  /\ \A u \in DOMAIN entered : u \in DOMAIN uids \/ \E t \in Threads : AtInsert(t) /\ call[t].uid = u
  /\ \A t \in Threads : AtInsert(t) => call[t].uid \notin DOMAIN uids

(* A step that seen() has measured and not yet added to what the request    *)
(* spent does not overlap it either.                                        *)
StepsDoNotOverlap ==
  /\ DurationsDoNotOverlap
  /\ \A t \in Threads :
       /\ call[t].op = "seen"
       /\ call[t].todo \in {<< << "erase" >>, << "insert" >> >>, << << "insert" >> >>}
       /\ call[t].uid \in DOMAIN entered
       => spent[call[t].uid] + call[t].step <= clock - entered[call[t].uid]

(* The carbon format has reset what it has done; while a report is written  *)
(* debugged is TRUE.                                                        *)
ResetInPairs ==
  /\ DurationsMatchCounts
  /\ \A t \in Threads : call[t].op \in ReportOps => debugged
  /\ \A t \in Threads : call[t].op = "carbon" =>
       \A tr \in Transitions :
         /\ Leaf("duration", tr) \notin Left(call[t].todo) => duration[tr].cnt_val = 0
         /\ Leaf("count", tr) \notin Left(call[t].todo) => count[tr] = 0

(* What is left of a report that shall agree agrees, and a count that comes *)
(* next is that of the duration that was shown, or nothing can be written.  *)
AgreesSoFar ==
  \A t \in Threads : call[t].op \in ReportOps /\ call[t].agree =>
    \A tr \in Transitions :
      /\ \A n \in Nat :
           << "count", tr, n >> \in call[t].shown => << "duration", tr, n >> \in call[t].shown
      /\ Leaf("duration", tr) \in Left(call[t].todo) => duration[tr].cnt_val = count[tr]
      /\ Leaf("count", tr) \in Left(call[t].todo) /\ Leaf("duration", tr) \notin Left(call[t].todo)
           => fd = "closed" \/ << "duration", tr, count[tr] >> \in call[t].shown

-----------------------------------------------------------------------------
(* How far a method has come from the state c, in which it was begun, to d. *)
SeenFrom(c, d, u, p, now) ==
  IF u \notin DOMAIN c.uids
  THEN /\ d.seen_uid_not_found = c.seen_uid_not_found + 1
       /\ d.seen_checkpoint_not_found = c.seen_checkpoint_not_found
       /\ d.count = c.count /\ d.duration = c.duration
  ELSE LET tr == << c.uids[u].at, p >>
       IN /\ d.seen_uid_not_found = c.seen_uid_not_found
          /\ IF tr \notin Transitions
             THEN /\ d.seen_checkpoint_not_found = c.seen_checkpoint_not_found + 1
                  /\ d.count = c.count /\ d.duration = c.duration
             ELSE /\ d.duration = [c.duration EXCEPT ![tr] =
                                     AddLocked(@, now - c.uids[u].since)]
                  /\ d.count = [c.count EXCEPT ![tr] = @ + 1]
                  /\ d.seen_checkpoint_not_found = c.seen_checkpoint_not_found

StepFrom(c, u, now) == IF u \in DOMAIN c.uids THEN now - c.uids[u].since ELSE 0

Measured(c, d, u, p, now) ==
  /\ now \in Readings(c.clock)
  /\ c.calls < MaxCalls /\ d.calls = c.calls + 1
  /\ SeenFrom(c, d, u, p, now)
  /\ d.reported = c.reported /\ d.debugged = c.debugged

SameJourneys(c, d) == d.entered = c.entered /\ d.spent = c.spent

SameStatistics(c, d) ==
  /\ d.duration = c.duration /\ d.count = c.count
  /\ d.seen_uid_not_found = c.seen_uid_not_found
  /\ d.seen_checkpoint_not_found = c.seen_checkpoint_not_found
  /\ d.calls = c.calls /\ d.reported = c.reported /\ d.debugged = c.debugged

InFrom(c, d, u, p, todo) ==
  /\ todo = << << "erase" >>, << "insert" >> >> => d = c
  /\ todo = << << "insert" >> >> =>
       /\ SameStatistics(c, d) /\ SameJourneys(c, d)
       /\ d.uids = Erased(c.uids, u) /\ d.clock = c.clock
  /\ todo = << >> =>
       /\ SameStatistics(c, d)
       /\ d.clock \in Readings(c.clock)
       /\ d.uids = Inserted(Erased(c.uids, u), u, p, d.clock)
       /\ d.entered = With(c.entered, u, d.clock) /\ d.spent = With(c.spent, u, 0)

SeenFromTo(c, d, u, p, todo, step) ==
  /\ todo = << << "seen_locked" >>, << "erase" >>, << "insert" >> >> => d = c
  /\ todo = << << "erase" >>, << "insert" >> >> =>
       /\ Measured(c, d, u, p, d.clock) /\ step = StepFrom(c, u, d.clock)
       /\ d.uids = c.uids /\ SameJourneys(c, d)
  /\ todo = << << "insert" >> >> =>
       /\ Measured(c, d, u, p, d.clock) /\ step = StepFrom(c, u, d.clock)
       /\ d.uids = Erased(c.uids, u) /\ SameJourneys(c, d)
  /\ todo = << >> =>
       \E now \in Times :
         /\ Measured(c, d, u, p, now) /\ d.clock \in Readings(now)
         /\ d.uids = Inserted(Erased(c.uids, u), u, p, d.clock)
         /\ d.entered = IF u \in DOMAIN c.uids THEN c.entered ELSE With(c.entered, u, d.clock)
         /\ d.spent = With(c.spent, u, IF u \in DOMAIN c.uids
                                       THEN c.spent[u] + StepFrom(c, u, now) ELSE 0)

OutFrom(c, d, u, p, todo) ==
  /\ todo = << << "seen_locked" >>, << "erase" >> >> => d = c
  /\ todo = << << "erase" >> >> =>
       /\ Measured(c, d, u, p, d.clock) /\ d.uids = c.uids /\ SameJourneys(c, d)
  /\ todo = << >> =>
       /\ Measured(c, d, u, p, d.clock) /\ d.uids = Erased(c.uids, u)
       /\ d.entered = Without(c.entered, u) /\ d.spent = Without(c.spent, u)

(* A report with the statements of left to come; what is reported and what  *)
(* is still counted are as many together as at its begin.                   *)
ReportFrom(c, d, op, left) ==
  /\ d.uids = c.uids /\ d.clock = c.clock /\ d.calls = c.calls
  /\ SameJourneys(c, d) /\ d.debugged = TRUE
  /\ d.seen_uid_not_found = IF << "uid_not_found" >> \in left THEN c.seen_uid_not_found ELSE 0
  /\ d.seen_checkpoint_not_found =
       IF op = "debug" \/ << "checkpoint_not_found" >> \in left
       THEN c.seen_checkpoint_not_found ELSE 0
  /\ \A tr \in Transitions :
       d.count[tr] = IF Leaf("count", tr) \in left THEN c.count[tr] ELSE 0
  /\ \A tr \in Transitions :
       d.duration[tr] = IF op = "debug" \/ Leaf("duration", tr) \in left
                        THEN c.duration[tr] ELSE CarbonReset(c.duration[tr])

Follows(t) ==
  LET c == call[t]
  IN /\ c.op = "in"   => InFrom(committed, Snapshot, c.uid, c.pid, c.todo)
     /\ c.op = "seen" => SeenFromTo(committed, Snapshot, c.uid, c.pid, c.todo, c.step)
     /\ c.op = "out"  => OutFrom(committed, Snapshot, c.uid, c.pid, c.todo)
     /\ c.op \in ReportOps => ReportFrom(committed, Snapshot, c.op, Left(c.todo))

Progress ==
  /\ (\A t \in Threads : call[t] = None) => committed = Snapshot
  /\ \A t \in Threads : Follows(t)

(* What holds of the committed state holds between the methods. *)
CommittedOK ==
  /\ Atomic!TypeOK /\ Atomic!EachCallIsCounted
  /\ DOMAIN committed.entered = DOMAIN committed.uids

-----------------------------------------------------------------------------
(* The types and the calls are inductive. *)
LEMMA CallsInductive ==
  TypeOK /\ CallsOK /\ [TNext]_tvars => TypeOK' /\ CallsOK'
<1> SUFFICES ASSUME TypeOK, CallsOK, [TNext]_tvars PROVE TypeOK' /\ CallsOK'
  OBVIOUS
<1>1. CASE UNCHANGED tvars
  <2>1. TypeOK'
    BY <1>1 DEF tvars, vars, counters, journeys, TypeOK
  <2>2. CallsOK'
    BY <1>1 DEF tvars, vars, counters, journeys, CallsOK, GoodCall
  <2> QED
    BY <2>1, <2>2
<1>2. ASSUME NEW t \in Threads, NEW op \in {"in", "seen", "out"}, NEW u \in Uids,
             NEW p \in Checkpoints, LockRequest(t, op, u, p)
      PROVE  TypeOK' /\ CallsOK'
  BY <1>2, AfterLockRequest DEF RequestOps
<1>3. ASSUME NEW t \in Threads, NEW op \in {"debug", "carbon"}, LockReport(t, op)
      PROVE  TypeOK' /\ CallsOK'
  BY <1>3, AfterLockReport DEF ReportOps
<1>4. ASSUME NEW t \in Threads, SeenStatement(t) PROVE TypeOK' /\ CallsOK'
  BY <1>4, AfterSeenStatement
<1>5. ASSUME NEW t \in Threads, EraseStatement(t) PROVE TypeOK' /\ CallsOK'
  BY <1>5, AfterEraseStatement
<1>6. ASSUME NEW t \in Threads, InsertStatement(t) PROVE TypeOK' /\ CallsOK'
  BY <1>6, AfterInsertStatement
<1>7. ASSUME NEW t \in Threads, SerializeUidNotFound(t) PROVE TypeOK' /\ CallsOK'
  BY <1>7, AfterSerializeUidNotFound
<1>8. ASSUME NEW t \in Threads, SerializeCheckpointNotFound(t) PROVE TypeOK' /\ CallsOK'
  BY <1>8, AfterSerializeCheckpointNotFound
<1>9. ASSUME NEW t \in Threads, NEW tr \in Transitions, SerializeDuration(t, tr)
      PROVE  TypeOK' /\ CallsOK'
  BY <1>9, AfterSerializeDuration
<1>10. ASSUME NEW t \in Threads, NEW tr \in Transitions, SerializeCount(t, tr)
       PROVE  TypeOK' /\ CallsOK'
  BY <1>10, AfterSerializeCount
<1>11. ASSUME NEW t \in Threads, Unlock(t) PROVE TypeOK' /\ CallsOK'
  BY <1>11, AfterUnlock
<1> QED
  BY <1>1, <1>2, <1>3, <1>4, <1>5, <1>6, <1>7, <1>8, <1>9, <1>10, <1>11 DEF TNext

(* At the start nothing is known and nothing was counted, and no thread is  *)
(* in a method.                                                             *)
LEMMA Beginning ==
  ASSUME TInit
  PROVE  /\ TypeOK /\ CallsOK /\ EachCallIsCounted
         /\ \A t \in Threads : call[t] = None
<1>1. /\ call = [t \in Threads |-> None] /\ committed = Snapshot /\ fd = "open"
      /\ uids = << >> /\ duration = [t \in Transitions |-> NewMeasure] /\ count = Zero
      /\ seen_uid_not_found = 0 /\ seen_checkpoint_not_found = 0 /\ clock \in Times
      /\ calls = 0 /\ reported = 0 /\ debugged = FALSE /\ entered = << >> /\ spent = << >>
  BY DEF TInit, Init
<1>2. \A t \in Threads : call[t] = None
  BY <1>1
<1>3. CallsOK
  <2>1. call \in [Threads -> {None} \cup RequestCalls \cup ReportCalls]
    BY <1>1
  <2>2. \A t \in Threads : GoodCall(call[t])
    BY <1>2 DEF GoodCall, None, RequestOps, ReportOps
  <2> QED
    BY <1>2, <2>1, <2>2 DEF CallsOK
<1>4. count \in [Transitions -> Nat] /\ \A tr \in Transitions : count[tr] = 0
  BY <1>1 DEF Zero
<1>5. TypeOK
  <2>1. duration \in [Transitions -> Measures]
    BY <1>1, MeasuresKept
  <2>2. DOMAIN uids = {} /\ calls \in 0..MaxCalls
    BY <1>1, CorrelatorAssumption DEF CorrelatorAssumption
  <2> QED
    BY <1>1, <1>4, <2>1, <2>2 DEF TypeOK, Measures
<1>6. Counted = 0
  <2>1. IsFiniteSet(Transitions) /\ count \in [Transitions -> Int]
    BY <1>5, CountedType
  <2> QED
    BY <1>4, <2>1, SumZero DEF Counted
<1>7. EachCallIsCounted
  BY <1>1, <1>6 DEF EachCallIsCounted
<1> QED
  BY <1>2, <1>3, <1>5, <1>7

(* Every variable of the correlator has its type, and the threads are where *)
(* their methods say, one at most in any method at all: _data_mutex.        *)
THEOREM TypeCorrect == TSpec => [](TypeOK /\ CallsOK)
<1>1. TInit => TypeOK /\ CallsOK
  BY Beginning
<1>2. TypeOK /\ CallsOK /\ [TNext]_tvars => TypeOK' /\ CallsOK'
  BY CallsInductive
<1> QED
  BY <1>1, <1>2, PTL DEF TSpec

(* What the statements of a report reset is what they report. *)
LEMMA CountedKept ==
  TypeOK /\ CallsOK /\ EachCallIsCounted /\ [TNext]_tvars => EachCallIsCounted'
<1> SUFFICES ASSUME TypeOK, CallsOK, EachCallIsCounted, [TNext]_tvars
             PROVE  EachCallIsCounted'
  OBVIOUS
<1>0. /\ seen_uid_not_found \in Nat /\ seen_checkpoint_not_found \in Nat /\ reported \in Nat
      /\ calls \in Int /\ Counted \in Nat
      /\ calls = reported + seen_uid_not_found + seen_checkpoint_not_found + Counted
  BY CountedType, CorrelatorAssumption DEF TypeOK, EachCallIsCounted, CorrelatorAssumption
<1>1. ASSUME UNCHANGED << calls, reported, seen_uid_not_found, seen_checkpoint_not_found, count >>
      PROVE  EachCallIsCounted'
  BY <1>1 DEF EachCallIsCounted, Counted
<1>2. CASE UNCHANGED tvars
  BY <1>1, <1>2 DEF tvars, vars, counters
<1>3. ASSUME NEW t \in Threads, NEW op \in {"in", "seen", "out"}, NEW u \in Uids,
             NEW p \in Checkpoints, LockRequest(t, op, u, p)
      PROVE  EachCallIsCounted'
  BY <1>1, <1>3 DEF LockRequest, vars, counters
<1>4. ASSUME NEW t \in Threads, NEW op \in {"debug", "carbon"}, LockReport(t, op)
      PROVE  EachCallIsCounted'
  BY <1>1, <1>4 DEF LockReport, counters
<1>5. ASSUME NEW t \in Threads, SeenStatement(t) PROVE EachCallIsCounted'
  <2>1. /\ call[t] \in RequestCalls
        /\ clock' \in Readings(clock) /\ SeenLocked(call[t].uid, call[t].pid, clock')
        /\ calls' = calls + 1 /\ reported' = reported
    BY <1>5, AfterSeenStatement
  <2>2. call[t].uid \in Uids /\ call[t].pid \in Checkpoints /\ clock' \in Times
    BY <2>1 DEF RequestCalls, Readings
  <2>3. /\ seen_uid_not_found' \in Nat /\ seen_checkpoint_not_found' \in Nat
        /\ seen_uid_not_found' + seen_checkpoint_not_found' + Counted'
             = seen_uid_not_found + seen_checkpoint_not_found + Counted + 1
    BY <2>1, <2>2, SeenCountsOnce
  <2>4. TypeOK'
    BY <1>5, AfterSeenStatement
  <2>5. Counted' \in Nat
    <3>1. IsFiniteSet(Transitions) /\ count' \in [Transitions -> Int]
          /\ \A tr \in Transitions : count'[tr] >= 0
      BY <2>4, CountedType DEF TypeOK
    <3>2. SumFunctionOnSet(count', Transitions) \in Int /\ SumFunctionOnSet(count', Transitions) >= 0
      BY ONLY <3>1, SumType
    <3> QED
      BY <3>2 DEF Counted
  <2>6. calls' = reported' + seen_uid_not_found' + seen_checkpoint_not_found' + Counted'
    <3> DEFINE before == seen_uid_not_found + seen_checkpoint_not_found + Counted
               after  == seen_uid_not_found' + seen_checkpoint_not_found' + Counted'
    <3>1. calls' = calls + 1 /\ reported' = reported
      BY <2>1
    <3>2. before \in Int /\ calls = reported + before /\ reported \in Int
      BY <1>0
    <3>3. after = before + 1
      BY <2>3
    <3>4. reported' + seen_uid_not_found' + seen_checkpoint_not_found' + Counted'
            = reported' + after
      BY <1>0, <2>3, <2>5, <3>1
    <3> HIDE DEF before, after
    <3>5. calls' = reported' + after
      BY <3>1, <3>2, <3>3
    <3> QED
      BY <3>4, <3>5
  <2> QED
    BY <2>6 DEF EachCallIsCounted
<1>6. ASSUME NEW t \in Threads, EraseStatement(t) PROVE EachCallIsCounted'
  BY <1>1, <1>6 DEF EraseStatement, counters
<1>7. ASSUME NEW t \in Threads, InsertStatement(t) PROVE EachCallIsCounted'
  BY <1>1, <1>7 DEF InsertStatement, counters
<1>8. ASSUME NEW t \in Threads, SerializeUidNotFound(t) PROVE EachCallIsCounted'
  <2>1. Counted' = Counted
    BY <1>8 DEF SerializeUidNotFound, Counted
  <2> QED
    BY <1>0, <1>8, <2>1 DEF SerializeUidNotFound, EachCallIsCounted
<1>9. ASSUME NEW t \in Threads, SerializeCheckpointNotFound(t) PROVE EachCallIsCounted'
  <2>1. Counted' = Counted
    BY <1>9 DEF SerializeCheckpointNotFound, Counted
  <2> QED
    BY <1>0, <1>9, <2>1 DEF SerializeCheckpointNotFound, EachCallIsCounted
<1>10. ASSUME NEW t \in Threads, NEW tr \in Transitions, SerializeDuration(t, tr)
       PROVE  EachCallIsCounted'
  BY <1>1, <1>10 DEF SerializeDuration, counters
<1>11. ASSUME NEW t \in Threads, NEW tr \in Transitions, SerializeCount(t, tr)
       PROVE  EachCallIsCounted'
  <2>1. Counted' = Counted - count[tr] /\ count[tr] \in Nat
    BY <1>11, AfterSerializeCount DEF TypeOK
  <2> QED
    BY <1>0, <1>11, <2>1 DEF SerializeCount, EachCallIsCounted
<1>12. ASSUME NEW t \in Threads, Unlock(t) PROVE EachCallIsCounted'
  BY <1>1, <1>12 DEF Unlock, counters
<1> QED
  BY <1>2, <1>3, <1>4, <1>5, <1>6, <1>7, <1>8, <1>9, <1>10, <1>11, <1>12 DEF TNext

(* Each call of seen() and out() is counted by exactly one counter, and no  *)
(* report drops or doubles it: between any two statements of any thread.    *)
THEOREM CallsAreCounted == TSpec => []EachCallIsCounted
<1>1. TInit => EachCallIsCounted
  BY Beginning
<1>2. TypeOK /\ CallsOK /\ EachCallIsCounted /\ [TNext]_tvars => EachCallIsCounted'
  BY CountedKept
<1> QED
  BY <1>1, <1>2, TypeCorrect, PTL DEF TSpec

-----------------------------------------------------------------------------
(* The statements a call begins with or has left are told apart. *)
LEMMA TodosDiffer ==
  LET s == << "seen_locked" >>
      e == << "erase" >>
      i == << "insert" >>
  IN /\ << i >> \notin {<< s, e, i >>, << s, e >>, << e, i >>, << e >>, << >>}
     /\ << e, i >> \notin {<< s, e, i >>, << s, e >>, << e >>, << >>}
     /\ << e >> \notin {<< s, e, i >>, << s, e >>, << >>}
     /\ << >> \notin {<< s, e, i >>, << s, e >>}
<1> DEFINE s == << "seen_locked" >>
           e == << "erase" >>
           i == << "insert" >>
<1>1. s # e /\ s # i /\ e # i
  BY StatementsDiffer
<1> HIDE DEF s, e, i
<1>2. /\ << i >> \notin {<< s, e, i >>, << s, e >>, << e, i >>, << e >>, << >>}
      /\ << e, i >> \notin {<< s, e, i >>, << s, e >>, << e >>, << >>}
      /\ << e >> \notin {<< s, e, i >>, << s, e >>, << >>}
      /\ << >> \notin {<< s, e, i >>, << s, e >>}
  BY <1>1
<1> QED
  BY <1>2 DEF s, e, i

(* Each request that is known is in uids, or about to be inserted. *)
LEMMA JourneysKept ==
  TypeOK /\ CallsOK /\ JourneysKnown /\ [TNext]_tvars => JourneysKnown'
<1> SUFFICES ASSUME TypeOK, CallsOK, JourneysKnown, [TNext]_tvars PROVE JourneysKnown'
  OBVIOUS
<1>1. ASSUME UNCHANGED << uids, entered, spent >>,
             \A s \in Threads : ~AtInsert(s) /\ ~AtInsert(s)'
      PROVE  JourneysKnown'
  BY <1>1 DEF JourneysKnown
<1>2. CASE UNCHANGED tvars
  BY <1>2 DEF JourneysKnown, AtInsert, tvars, vars, journeys
<1>3. ASSUME NEW t \in Threads, NEW op \in RequestOps, NEW u \in Uids,
             NEW p \in Checkpoints, LockRequest(t, op, u, p)
      PROVE  JourneysKnown'
  <2>1. /\ \A s \in Threads : call[s] = None /\ (s # t => call'[s] = None)
        /\ call'[t] = [op |-> op, todo |-> Statements(op), uid |-> u, pid |-> p, step |-> 0]
    BY <1>3, AfterLockRequest
  <2>2. Statements(op) # << << "insert" >> >>
    BY SeenStatements, TodosDiffer DEF RequestOps, Statements, InLockedStatements
  <2>3. \A s \in Threads : ~AtInsert(s) /\ ~AtInsert(s)'
    BY <2>1, <2>2 DEF AtInsert, None
  <2> QED
    BY <1>1, <1>3, <2>3 DEF LockRequest, vars, journeys
<1>4. ASSUME NEW t \in Threads, NEW op \in ReportOps, LockReport(t, op)
      PROVE  JourneysKnown'
  <2>1. /\ \A s \in Threads : call[s] = None /\ (s # t => call'[s] = None)
        /\ call'[t] = [op |-> op, todo |-> Statements(op), shown |-> {}, agree |-> ~debugged]
    BY <1>4, AfterLockReport
  <2>2. \A s \in Threads : ~AtInsert(s) /\ ~AtInsert(s)'
    BY <2>1 DEF AtInsert, None, ReportOps
  <2> QED
    BY <1>1, <1>4, <2>2 DEF LockReport, journeys
<1>5. ASSUME NEW t \in Threads, SeenStatement(t) PROVE JourneysKnown'
  <2>1. /\ \A s \in Threads : s # t => call[s] = None /\ call'[s] = None
        /\ call'[t].todo \in {<< << "erase" >>, << "insert" >> >>, << << "erase" >> >>}
        /\ UNCHANGED << uids, journeys >>
    BY <1>5, AfterSeenStatement
  <2>2. call[t].todo # << << "insert" >> >>
    BY <1>5, RequestSequels, StatementsDiffer DEF SeenStatement, At
  <2>3. \A s \in Threads : ~AtInsert(s) /\ ~AtInsert(s)'
    BY <2>1, <2>2, TodosDiffer DEF AtInsert, None
  <2> QED
    BY <1>1, <2>1, <2>3 DEF journeys
<1>6. ASSUME NEW t \in Threads, EraseStatement(t) PROVE JourneysKnown'
  <2> DEFINE u == call[t].uid
  <2>1. /\ \A s \in Threads : s # t => call[s] = None /\ call'[s] = None
        /\ \/ /\ call[t].op \in {"in", "seen"} /\ call[t].todo = << << "erase" >>, << "insert" >> >>
              /\ call'[t].todo = << << "insert" >> >>
           \/ /\ call[t].op = "out" /\ call[t].todo = << << "erase" >> >>
              /\ call'[t].todo = << >>
        /\ call'[t].op = call[t].op /\ call'[t].uid = u
    BY <1>6, AfterEraseStatement
  <2>2. /\ uids' = Without(uids, u)
        /\ call[t].op = "out" => entered' = Without(entered, u) /\ spent' = Without(spent, u)
        /\ call[t].op # "out" => entered' = entered /\ spent' = spent
    BY <1>6 DEF EraseStatement, Erased, journeys
  <2>3. \A s \in Threads : ~AtInsert(s)
    BY <2>1, TodosDiffer DEF AtInsert, None
  <2>4. \A v \in DOMAIN entered : v \in DOMAIN uids
    BY <2>3 DEF JourneysKnown
  <2>5. DOMAIN uids' = DOMAIN uids \ {u}
    BY <2>2, WithoutMaps
  <2>6. CASE call[t].op = "out"
    <3>1. \A s \in Threads : ~AtInsert(s)'
      BY <2>1, <2>6 DEF AtInsert, None
    <3>2. DOMAIN entered' = DOMAIN entered \ {u} /\ DOMAIN spent' = DOMAIN spent \ {u}
      BY <2>2, <2>6, WithoutMaps
    <3>3. \A v \in DOMAIN entered' : entered'[v] = entered[v] /\ spent'[v] = spent[v]
      BY <2>2, <2>6, <3>2, WithoutMaps DEF JourneysKnown
    <3> QED
      BY <2>4, <2>5, <3>1, <3>2, <3>3 DEF JourneysKnown
  <2>7. CASE call[t].op # "out"
    <3>1. AtInsert(t)' /\ call'[t].uid = u
      BY <2>1, <2>7 DEF AtInsert
    <3>2. \A s \in Threads : s # t => ~AtInsert(s)'
      BY <2>1 DEF AtInsert, None
    <3>3. entered' = entered /\ spent' = spent
      BY <2>2, <2>7
    <3> QED
      BY <2>4, <2>5, <3>1, <3>2, <3>3 DEF JourneysKnown
  <2> QED
    BY <2>6, <2>7
<1>7. ASSUME NEW t \in Threads, InsertStatement(t) PROVE JourneysKnown'
  <2> DEFINE c == call[t]
             u == call[t].uid
             known == c.op = "seen" /\ u \in DOMAIN entered
  <2>1. /\ \A s \in Threads : s # t => call[s] = None /\ call'[s] = None
        /\ c \in RequestCalls
        /\ c.op \in {"in", "seen"} /\ c.todo = << << "insert" >> >>
        /\ call'[t].todo = << >>
        /\ clock' \in Times
        /\ uids' = Inserted(uids, u, c.pid, clock')
        /\ entered' = IF known THEN entered ELSE With(entered, u, clock')
        /\ spent' = With(spent, u, IF known THEN spent[u] + c.step ELSE 0)
    BY <1>7, AfterInsertStatement
  <2>2. AtInsert(t) /\ u \notin DOMAIN uids
    BY <2>1 DEF AtInsert, JourneysKnown
  <2>3. \A s \in Threads : ~AtInsert(s)'
    BY <2>1, TodosDiffer DEF AtInsert, None
  <2>4. \A s \in Threads : AtInsert(s) => s = t
    BY <2>1 DEF AtInsert, None
  <2>5. DOMAIN uids' = DOMAIN uids \cup {u}
    <3> DEFINE y == [at |-> c.pid, since |-> clock']
    <3>1. uids' = With(uids, u, y)
      BY <2>1, <2>2 DEF Inserted
    <3> HIDE DEF y, u
    <3> QED
      BY <3>1, WithMaps
  <2>6. \A v \in DOMAIN entered : v \in DOMAIN uids \/ v = u
    BY <2>4 DEF JourneysKnown
  <2>7. c.step \in Int /\ clock' \in Int
    BY <2>1, CorrelatorAssumption DEF RequestCalls, CorrelatorAssumption
  <2> DEFINE n == IF known THEN spent[u] + c.step ELSE 0
  <2>8. n \in Int
    BY <2>7 DEF JourneysKnown
  <2>9. CASE known
    <3>1. u \in DOMAIN spent /\ entered' = entered /\ spent' = With(spent, u, n)
      BY <2>1, <2>9 DEF JourneysKnown
    <3> HIDE DEF u, n
    <3>2. DOMAIN spent' = DOMAIN spent \cup {u}
      BY <3>1, WithMaps
    <3>3. spent'[u] = n
      BY <3>1, WithMaps
    <3>4. \A v \in DOMAIN spent : v # u => spent'[v] = spent[v]
      BY <3>1, WithMaps
    <3> QED
      BY <2>3, <2>5, <2>6, <2>8, <3>1, <3>2, <3>3, <3>4 DEF JourneysKnown
  <2>10. CASE ~known
    <3>1. entered' = With(entered, u, clock') /\ spent' = With(spent, u, n)
      BY <2>1, <2>10
    <3> HIDE DEF u, n
    <3>2. DOMAIN spent' = DOMAIN spent \cup {u} /\ DOMAIN entered' = DOMAIN entered \cup {u}
      BY <3>1, WithMaps
    <3>3. spent'[u] = n
      BY <3>1, WithMaps
    <3>4. \A v \in DOMAIN spent : v # u => spent'[v] = spent[v]
      BY <3>1, WithMaps
    <3>5. entered'[u] = clock'
      BY <3>1, WithMaps
    <3>6. \A v \in DOMAIN entered : v # u => entered'[v] = entered[v]
      BY <3>1, WithMaps
    <3> QED
      BY <2>3, <2>5, <2>6, <2>7, <2>8, <3>2, <3>3, <3>4, <3>5, <3>6 DEF JourneysKnown
  <2> QED
    BY <2>9, <2>10
<1>8. ASSUME NEW t \in Threads, NEW x, ReportGoes(t, x), UNCHANGED << uids, journeys >>
      PROVE  JourneysKnown'
  <2>1. \A s \in Threads : ~AtInsert(s) /\ ~AtInsert(s)'
    BY <1>8 DEF ReportGoes, AtInsert, None, ReportOps
  <2> QED
    BY <1>1, <1>8, <2>1 DEF journeys
<1>9. ASSUME NEW t \in Threads, SerializeUidNotFound(t) PROVE JourneysKnown'
  BY <1>8, <1>9, AfterSerializeUidNotFound DEF SerializeUidNotFound
<1>10. ASSUME NEW t \in Threads, SerializeCheckpointNotFound(t) PROVE JourneysKnown'
  BY <1>8, <1>10, AfterSerializeCheckpointNotFound DEF SerializeCheckpointNotFound
<1>11. ASSUME NEW t \in Threads, NEW tr \in Transitions, SerializeDuration(t, tr)
       PROVE  JourneysKnown'
  BY <1>8, <1>11, AfterSerializeDuration DEF SerializeDuration
<1>12. ASSUME NEW t \in Threads, NEW tr \in Transitions, SerializeCount(t, tr)
       PROVE  JourneysKnown'
  BY <1>8, <1>12, AfterSerializeCount DEF SerializeCount
<1>13. ASSUME NEW t \in Threads, Unlock(t) PROVE JourneysKnown'
  <2>1. /\ \A s \in Threads : call'[s] = None /\ (s # t => call[s] = None)
        /\ call[t].todo = << >>
    BY <1>13, AfterUnlock
  <2>2. \A s \in Threads : ~AtInsert(s) /\ ~AtInsert(s)'
    BY <2>1, TodosDiffer DEF AtInsert, None
  <2> QED
    BY <1>1, <1>13, <2>2 DEF Unlock, journeys
<1> QED
  BY <1>2, <1>3, <1>4, <1>5, <1>6, <1>7, <1>9, <1>10, <1>11, <1>12, <1>13
     DEF TNext, RequestOps, ReportOps

(* A step is measured from the last checkpoint, which what was spent before *)
(* ends at; until it is added, the clock does not go back.                  *)
LEMMA OverlapKept ==
  ASSUME ~SetBack
  PROVE  TypeOK /\ CallsOK /\ JourneysKnown /\ StepsDoNotOverlap /\ [TNext]_tvars
           => StepsDoNotOverlap'
<1> SUFFICES ASSUME TypeOK, CallsOK, JourneysKnown, StepsDoNotOverlap, [TNext]_tvars
             PROVE  StepsDoNotOverlap'
  OBVIOUS
<1> DEFINE e == << "erase" >>
           i == << "insert" >>
           Waits(s) == call[s].op = "seen" /\ call[s].todo \in {<< e, i >>, << i >>}
<1>1. ASSUME UNCHANGED << uids, entered, spent >>, \A s \in Threads : ~Waits(s)'
      PROVE  StepsDoNotOverlap'
  BY <1>1 DEF StepsDoNotOverlap, DurationsDoNotOverlap
<1>2. CASE UNCHANGED tvars
  BY <1>2 DEF StepsDoNotOverlap, DurationsDoNotOverlap, tvars, vars, journeys
<1>3. ASSUME NEW t \in Threads, NEW op \in RequestOps, NEW u \in Uids,
             NEW p \in Checkpoints, LockRequest(t, op, u, p)
      PROVE  StepsDoNotOverlap'
  <2>1. /\ \A s \in Threads : s # t => call'[s] = None
        /\ call'[t] = [op |-> op, todo |-> Statements(op), uid |-> u, pid |-> p, step |-> 0]
    BY <1>3, AfterLockRequest
  <2>2. op = "seen" => Statements(op) \notin {<< e, i >>, << i >>}
    BY SeenStatements, TodosDiffer
  <2>3. \A s \in Threads : ~Waits(s)'
    BY <2>1, <2>2 DEF None
  <2> QED
    BY <1>1, <1>3, <2>3 DEF LockRequest, vars, journeys
<1>4. ASSUME NEW t \in Threads, NEW op \in ReportOps, LockReport(t, op)
      PROVE  StepsDoNotOverlap'
  <2>1. /\ \A s \in Threads : s # t => call'[s] = None
        /\ call'[t] = [op |-> op, todo |-> Statements(op), shown |-> {}, agree |-> ~debugged]
    BY <1>4, AfterLockReport
  <2>2. \A s \in Threads : ~Waits(s)'
    BY <2>1 DEF None, ReportOps
  <2> QED
    BY <1>1, <1>4, <2>2 DEF LockReport, journeys
<1>5. ASSUME NEW t \in Threads, SeenStatement(t) PROVE StepsDoNotOverlap'
  <2> DEFINE u == call[t].uid
  <2>1. /\ \A s \in Threads : s # t => call[s] = None /\ call'[s] = None
        /\ call'[t].uid = u /\ call'[t].op = call[t].op
        /\ call'[t].step = IF u \in DOMAIN uids THEN clock' - uids[u].since ELSE 0
        /\ clock' \in Readings(clock)
        /\ UNCHANGED << uids, journeys >>
    BY <1>5, AfterSeenStatement
  <2>2. call[t].todo # << i >>
    BY <1>5, RequestSequels, StatementsDiffer DEF SeenStatement, At
  <2>3. \A s \in Threads : ~AtInsert(s)
    BY <2>1, <2>2 DEF AtInsert, None
  <2>4. u \in DOMAIN entered => u \in DOMAIN uids
    BY <2>3 DEF JourneysKnown
  <2>5. u \in DOMAIN uids => uids[u].since \in Int
    <3>1. u \in DOMAIN uids => uids[u] \in [at : Checkpoints, since : Times]
      BY DEF TypeOK
    <3> QED
      BY <3>1, CorrelatorAssumption DEF CorrelatorAssumption
  <2>6. clock' \in Int
    BY <2>1, CorrelatorAssumption DEF Readings, CorrelatorAssumption
  <2>7. u \in DOMAIN entered => spent[u] + call'[t].step <= clock' - entered[u]
    <3> SUFFICES ASSUME u \in DOMAIN entered
                 PROVE  spent[u] + call'[t].step <= clock' - entered[u]
      OBVIOUS
    <3>1. spent[u] <= uids[u].since - entered[u] /\ call'[t].step = clock' - uids[u].since
      BY <2>1, <2>4 DEF StepsDoNotOverlap, DurationsDoNotOverlap
    <3>2. spent[u] \in Int /\ entered[u] \in Int
      BY DEF JourneysKnown
    <3> HIDE DEF u
    <3> QED
      BY <2>4, <2>5, <2>6, <3>1, <3>2
  <2>8. DurationsDoNotOverlap'
    BY <2>1 DEF StepsDoNotOverlap, DurationsDoNotOverlap, journeys
  <2>9. \A s \in Threads : s # t => ~Waits(s)'
    BY <2>1 DEF None
  <2>10. entered' = entered /\ spent' = spent
    BY <2>1 DEF journeys
  <2>11. call'[t].uid \in DOMAIN entered'
           => spent'[call'[t].uid] + call'[t].step <= clock' - entered'[call'[t].uid]
    BY <2>1, <2>7, <2>10
  <2> QED
    BY <2>8, <2>9, <2>11 DEF StepsDoNotOverlap
<1>6. ASSUME NEW t \in Threads, EraseStatement(t) PROVE StepsDoNotOverlap'
  <2> DEFINE u == call[t].uid
  <2>1. /\ \A s \in Threads : s # t => call[s] = None /\ call'[s] = None
        /\ \/ /\ call[t].op \in {"in", "seen"} /\ call[t].todo = << e, i >>
              /\ call'[t].todo = << i >>
           \/ call[t].op = "out" /\ call[t].todo = << e >> /\ call'[t].todo = << >>
        /\ call'[t].op = call[t].op /\ call'[t].uid = u /\ call'[t].step = call[t].step
    BY <1>6, AfterEraseStatement
  <2>2. /\ uids' = Without(uids, u) /\ clock' = clock
        /\ call[t].op = "out" => entered' = Without(entered, u) /\ spent' = Without(spent, u)
        /\ call[t].op # "out" => entered' = entered /\ spent' = spent
    BY <1>6 DEF EraseStatement, Erased, journeys
  <2>3. DOMAIN uids' = DOMAIN uids \ {u}
    BY <2>2, WithoutMaps
  <2>4. \A v \in DOMAIN uids' : uids'[v] = uids[v]
    BY <2>2, <2>3, WithoutMaps
  <2>5. \A v \in DOMAIN uids' : entered'[v] = entered[v] /\ spent'[v] = spent[v]
    <3>1. CASE call[t].op # "out"
      BY <2>2, <3>1
    <3>2. CASE call[t].op = "out"
      <4>1. \A v \in DOMAIN uids' : v \in DOMAIN entered /\ v \in DOMAIN spent /\ v # u
        BY <2>3 DEF TypeOK
      <4> QED
        BY <2>2, <3>2, <4>1, WithoutMaps
    <3> QED
      BY <3>1, <3>2
  <2>6. DurationsDoNotOverlap'
    BY <2>3, <2>4, <2>5 DEF StepsDoNotOverlap, DurationsDoNotOverlap
  <2>7. \A s \in Threads : s # t => ~Waits(s)'
    BY <2>1 DEF None
  <2>8. Waits(t)' => Waits(t) /\ entered' = entered /\ spent' = spent
    BY <2>1, <2>2
  <2>9. Waits(t)' /\ u \in DOMAIN entered'
          => spent'[u] + call'[t].step <= clock' - entered'[u]
    BY <2>1, <2>2, <2>8 DEF StepsDoNotOverlap
  <2> QED
    BY <2>1, <2>6, <2>7, <2>9 DEF StepsDoNotOverlap
<1>7. ASSUME NEW t \in Threads, InsertStatement(t) PROVE StepsDoNotOverlap'
  <2> DEFINE c == call[t]
             u == call[t].uid
             known == c.op = "seen" /\ u \in DOMAIN entered
             n == IF known THEN spent[u] + c.step ELSE 0
  <2>1. /\ \A s \in Threads : s # t => call[s] = None /\ call'[s] = None
        /\ c.op \in {"in", "seen"} /\ c.todo = << i >>
        /\ call'[t].todo = << >>
        /\ clock' \in Readings(clock) /\ clock' \in Times
        /\ uids' = Inserted(uids, u, c.pid, clock')
        /\ entered' = IF known THEN entered ELSE With(entered, u, clock')
        /\ spent' = With(spent, u, n)
    BY <1>7, AfterInsertStatement
  <2>2. AtInsert(t) /\ u \notin DOMAIN uids
    BY <2>1 DEF AtInsert, JourneysKnown
  <2>3. \A s \in Threads : ~Waits(s)'
    BY <2>1, TodosDiffer DEF None
  <2>4. clock' \in Int /\ clock \in Int /\ clock' >= clock
    <3>1. Times \subseteq Int /\ clock \in Times
      BY CorrelatorAssumption DEF CorrelatorAssumption, TypeOK
    <3>2. clock' >= clock
      BY <2>1 DEF Readings
    <3> QED
      BY <2>1, <3>1, <3>2
  <2> DEFINE y == [at |-> c.pid, since |-> clock']
  <2>5. uids' = With(uids, u, y) /\ y.since = clock'
    BY <2>1, <2>2 DEF Inserted
  <2> HIDE DEF y
  <2>6. \A v \in DOMAIN uids : v \in DOMAIN entered /\ v \in DOMAIN spent /\ v # u
    BY <2>2 DEF TypeOK
  <2>7. spent'[u] <= clock' - entered'[u]
    <3>1. CASE known
      <4>1. spent[u] + c.step <= clock - entered[u] /\ spent[u] \in Int /\ entered[u] \in Int
        BY <2>1, <3>1 DEF StepsDoNotOverlap, JourneysKnown
      <4>2. c.step \in Int
        BY <1>7, AfterInsertStatement DEF RequestCalls
      <4>3. entered' = entered /\ n = spent[u] + c.step
        BY <2>1, <3>1
      <4> HIDE DEF n, u, c
      <4>4. spent'[u] = n
        BY <2>1, WithMaps
      <4> QED
        BY <2>4, <4>1, <4>2, <4>3, <4>4
    <3>2. CASE ~known
      <4>1. entered' = With(entered, u, clock') /\ n = 0
        BY <2>1, <3>2
      <4> HIDE DEF n, u, c
      <4>2. spent'[u] = n
        BY <2>1, WithMaps
      <4>3. entered'[u] = clock'
        BY <4>1, WithMaps
      <4>4. PICK x \in Int : x = clock'
        BY <2>4
      <4>5. 0 <= x - x
        OBVIOUS
      <4> QED
        BY <4>1, <4>2, <4>3, <4>4, <4>5
    <3> QED
      BY <3>1, <3>2
  <2>8. \A v \in DOMAIN uids : entered'[v] = entered[v] /\ spent'[v] = spent[v]
    <3>1. \A v \in DOMAIN uids : entered'[v] = entered[v]
      <4>1. CASE known
        BY <2>1, <4>1
      <4>2. CASE ~known
        <5>1. entered' = With(entered, u, clock')
          BY <2>1, <4>2
        <5> HIDE DEF u, c
        <5> QED
          BY <2>6, <5>1, WithMaps
      <4> QED
        BY <4>1, <4>2
    <3>2. \A v \in DOMAIN uids : spent'[v] = spent[v]
      <4> HIDE DEF u, c, n
      <4> QED
        BY <2>1, <2>6, WithMaps
    <3> QED
      BY <3>1, <3>2
  <2> HIDE DEF u, c, n
  <2>9. DOMAIN uids' = DOMAIN uids \cup {u}
    BY <2>5, WithMaps
  <2>10. uids'[u] = y
    BY <2>5, WithMaps
  <2>11. \A v \in DOMAIN uids : uids'[v] = uids[v]
    BY <2>5, <2>6, WithMaps
  <2>12. DurationsDoNotOverlap'
    BY <2>5, <2>7, <2>8, <2>9, <2>10, <2>11 DEF StepsDoNotOverlap, DurationsDoNotOverlap
  <2> QED
    BY <2>3, <2>12 DEF StepsDoNotOverlap
<1>8. ASSUME NEW t \in Threads, NEW x, ReportGoes(t, x), UNCHANGED << uids, journeys >>
      PROVE  StepsDoNotOverlap'
  <2>1. \A s \in Threads : ~Waits(s)'
    BY <1>8 DEF ReportGoes, None, ReportOps
  <2> QED
    BY <1>1, <1>8, <2>1 DEF journeys
<1>9. ASSUME NEW t \in Threads, SerializeUidNotFound(t) PROVE StepsDoNotOverlap'
  BY <1>8, <1>9, AfterSerializeUidNotFound DEF SerializeUidNotFound
<1>10. ASSUME NEW t \in Threads, SerializeCheckpointNotFound(t) PROVE StepsDoNotOverlap'
  BY <1>8, <1>10, AfterSerializeCheckpointNotFound DEF SerializeCheckpointNotFound
<1>11. ASSUME NEW t \in Threads, NEW tr \in Transitions, SerializeDuration(t, tr)
       PROVE  StepsDoNotOverlap'
  BY <1>8, <1>11, AfterSerializeDuration DEF SerializeDuration
<1>12. ASSUME NEW t \in Threads, NEW tr \in Transitions, SerializeCount(t, tr)
       PROVE  StepsDoNotOverlap'
  BY <1>8, <1>12, AfterSerializeCount DEF SerializeCount
<1>13. ASSUME NEW t \in Threads, Unlock(t) PROVE StepsDoNotOverlap'
  <2>1. \A s \in Threads : call'[s] = None
    BY <1>13, AfterUnlock
  <2>2. \A s \in Threads : ~Waits(s)'
    BY <2>1 DEF None
  <2> QED
    BY <1>1, <1>13, <2>2 DEF Unlock, journeys
<1> QED
  BY <1>2, <1>3, <1>4, <1>5, <1>6, <1>7, <1>9, <1>10, <1>11, <1>12, <1>13
     DEF TNext, RequestOps, ReportOps

(* If the clock is never set back, the durations of the steps of a request  *)
(* do not overlap, whoever else calls, or reports, between its calls.       *)
THEOREM StepsFollowEachOther ==
  ASSUME ~SetBack
  PROVE  TSpec => []DurationsDoNotOverlap
<1>1. TInit => JourneysKnown /\ StepsDoNotOverlap
  <2> SUFFICES ASSUME TInit PROVE JourneysKnown /\ StepsDoNotOverlap
    OBVIOUS
  <2>1. DOMAIN uids = {} /\ DOMAIN entered = {} /\ DOMAIN spent = {}
    BY DEF TInit, Init
  <2>2. \A t \in Threads : call[t] = None
    BY Beginning
  <2>3. \A t \in Threads : ~AtInsert(t) /\ call[t].op # "seen"
    BY <2>2 DEF AtInsert, None
  <2> QED
    BY <2>1, <2>3 DEF JourneysKnown, StepsDoNotOverlap, DurationsDoNotOverlap
<1>2. TypeOK /\ CallsOK /\ JourneysKnown /\ [TNext]_tvars => JourneysKnown'
  BY JourneysKept
<1>3. TypeOK /\ CallsOK /\ JourneysKnown /\ StepsDoNotOverlap /\ [TNext]_tvars
        => StepsDoNotOverlap'
  BY OverlapKept
<1>4. StepsDoNotOverlap => DurationsDoNotOverlap
  BY DEF StepsDoNotOverlap
<1> QED
  BY <1>1, <1>2, <1>3, <1>4, TypeCorrect, PTL DEF TSpec

-----------------------------------------------------------------------------
(* A carbon format resets the duration and the count of each transition.    *)
LEMMA PairsKept ==
  TypeOK /\ CallsOK /\ ResetInPairs /\ [TNext]_tvars => ResetInPairs'
<1> SUFFICES ASSUME TypeOK, CallsOK, ResetInPairs, [TNext]_tvars PROVE ResetInPairs'
  OBVIOUS
<1>1. ASSUME UNCHANGED << duration, count, debugged >>,
             \A s \in Threads : call'[s].op \notin ReportOps
      PROVE  ResetInPairs'
  BY <1>1 DEF ResetInPairs, DurationsMatchCounts, ReportOps
<1>2. CASE UNCHANGED tvars
  BY <1>2 DEF ResetInPairs, DurationsMatchCounts, tvars, vars, counters
<1>3. ASSUME NEW t \in Threads, NEW op \in RequestOps, NEW u \in Uids,
             NEW p \in Checkpoints, LockRequest(t, op, u, p)
      PROVE  ResetInPairs'
  <2>1. /\ \A s \in Threads : s # t => call'[s] = None
        /\ call'[t] = [op |-> op, todo |-> Statements(op), uid |-> u, pid |-> p, step |-> 0]
    BY <1>3, AfterLockRequest
  <2>2. \A s \in Threads : call'[s].op \notin ReportOps
    BY <2>1 DEF None, ReportOps, RequestOps
  <2> QED
    BY <1>1, <1>3, <2>2 DEF LockRequest, vars, counters
<1>4. ASSUME NEW t \in Threads, NEW op \in ReportOps, LockReport(t, op)
      PROVE  ResetInPairs'
  <2>1. /\ \A s \in Threads : s # t => call'[s] = None
        /\ call'[t] = [op |-> op, todo |-> Statements(op), shown |-> {}, agree |-> ~debugged]
    BY <1>4, AfterLockReport
  <2>2. debugged' = TRUE
    BY <1>4 DEF LockReport
  <2>3. call'[t].op = op /\ call'[t].todo = Statements(op)
    BY <2>1
  <2>4. op = "carbon" => \A tr \in Transitions : Leaf("duration", tr) \in Left(Statements(op))
                                                /\ Leaf("count", tr) \in Left(Statements(op))
    BY ReportBegins DEF ReportStatement
  <2>5. \A s \in Threads : call'[s].op = "carbon" => s = t
    BY <2>1 DEF None
  <2> QED
    BY <2>2, <2>3, <2>4, <2>5 DEF ResetInPairs, DurationsMatchCounts
<1>5. ASSUME NEW t \in Threads, SeenStatement(t) PROVE ResetInPairs'
  <2>1. /\ \A s \in Threads : s # t => call[s] = None /\ call'[s] = None
        /\ call[t].op \in {"seen", "out"} /\ call'[t].op = call[t].op
        /\ call[t] \in RequestCalls
        /\ clock' \in Readings(clock) /\ SeenLocked(call[t].uid, call[t].pid, clock')
        /\ debugged' = debugged
    BY <1>5, AfterSeenStatement
  <2>2. call[t].uid \in Uids /\ call[t].pid \in Checkpoints /\ clock' \in Times
    BY <2>1 DEF RequestCalls, Readings
  <2>3. /\ count' \in [Transitions -> Nat]
        /\ duration' \in [Transitions -> Measures]
        /\ \A tr \in Transitions : duration'[tr].cnt_val - count'[tr]
                                     = duration[tr].cnt_val - count[tr]
    BY <2>1, <2>2, SeenCountsOnce
  <2>4. ~debugged => \A tr \in Transitions : duration'[tr].cnt_val = count'[tr]
    <3> SUFFICES ASSUME ~debugged, NEW tr \in Transitions
                 PROVE  duration'[tr].cnt_val = count'[tr]
      OBVIOUS
    <3>1. duration[tr].cnt_val = count[tr] /\ count[tr] \in Nat
      BY DEF ResetInPairs, DurationsMatchCounts, TypeOK
    <3>2. duration'[tr].cnt_val \in Nat /\ count'[tr] \in Nat
          /\ duration'[tr].cnt_val - count'[tr] = duration[tr].cnt_val - count[tr]
      BY <2>3 DEF Measures
    <3> QED
      BY <3>1, <3>2
  <2>5. \A s \in Threads : call'[s].op \notin ReportOps
    BY <2>1 DEF None, ReportOps
  <2> QED
    BY <2>1, <2>4, <2>5 DEF ResetInPairs, DurationsMatchCounts, ReportOps
<1>6. ASSUME NEW t \in Threads, EraseStatement(t) PROVE ResetInPairs'
  <2>1. /\ \A s \in Threads : s # t => call'[s] = None
        /\ call'[t].op \in {"in", "seen", "out"}
    BY <1>6, AfterEraseStatement
  <2>2. \A s \in Threads : call'[s].op \notin ReportOps
    BY <2>1 DEF None, ReportOps
  <2> QED
    BY <1>1, <1>6, <2>2 DEF EraseStatement, counters
<1>7. ASSUME NEW t \in Threads, InsertStatement(t) PROVE ResetInPairs'
  <2>1. /\ \A s \in Threads : s # t => call'[s] = None
        /\ call'[t].op \in {"in", "seen"}
        /\ UNCHANGED << duration, counters, debugged >>
    BY <1>7, AfterInsertStatement
  <2>2. \A s \in Threads : call'[s].op \notin ReportOps
    BY <2>1 DEF None, ReportOps
  <2> QED
    BY <1>1, <2>1, <2>2 DEF counters
<1> DEFINE Resets(t, x) ==
             \A tr \in Transitions :
               /\ \/ duration'[tr].cnt_val = duration[tr].cnt_val
                  \/ call[t].op = "carbon" /\ duration'[tr].cnt_val = 0
               /\ x = Leaf("duration", tr) /\ call[t].op = "carbon" => duration'[tr].cnt_val = 0
               /\ count'[tr] = count[tr] \/ count'[tr] = 0
               /\ x = Leaf("count", tr) => count'[tr] = 0
<1>8. ASSUME NEW t \in Threads, NEW x, ReportGoes(t, x), UNCHANGED debugged, Resets(t, x)
      PROVE  ResetInPairs'
  <2>1. /\ \A s \in Threads : s # t => call'[s] = None
        /\ call[t].op \in ReportOps /\ call'[t].op = call[t].op
        /\ Left(call'[t].todo) = Left(call[t].todo) \ {x}
    BY <1>8 DEF ReportGoes
  <2>2. debugged /\ debugged'
    BY <1>8, <2>1 DEF ResetInPairs
  <2>3. \A s \in Threads : call'[s].op = "carbon" => s = t
    BY <2>1 DEF None
  <2>4. ASSUME call[t].op = "carbon", NEW tr \in Transitions
        PROVE  /\ Leaf("duration", tr) \notin Left(call'[t].todo) => duration'[tr].cnt_val = 0
               /\ Leaf("count", tr) \notin Left(call'[t].todo) => count'[tr] = 0
    <3>1. /\ Leaf("duration", tr) \notin Left(call[t].todo) => duration[tr].cnt_val = 0
          /\ Leaf("count", tr) \notin Left(call[t].todo) => count[tr] = 0
      BY <2>4 DEF ResetInPairs
    <3> QED
      BY <1>8, <2>1, <2>4, <3>1
  <2> QED
    BY <2>1, <2>2, <2>3, <2>4 DEF ResetInPairs, DurationsMatchCounts
<1>9. \A s, tr : /\ << "uid_not_found" >> # Leaf("duration", tr)
                 /\ << "uid_not_found" >> # Leaf("count", tr)
                 /\ << "checkpoint_not_found" >> # Leaf("duration", tr)
                 /\ << "checkpoint_not_found" >> # Leaf("count", tr)
                 /\ Leaf("duration", s) # Leaf("count", tr)
                 /\ Leaf("duration", s) = Leaf("duration", tr) => s = tr
                 /\ Leaf("count", s) = Leaf("count", tr) => s = tr
  BY DEF Leaf
<1> HIDE DEF Resets
<1>10. ASSUME NEW t \in Threads, SerializeUidNotFound(t) PROVE ResetInPairs'
  <2>1. ReportGoes(t, << "uid_not_found" >>) /\ UNCHANGED << duration, count, debugged >>
    BY <1>10, AfterSerializeUidNotFound DEF SerializeUidNotFound
  <2>2. Resets(t, << "uid_not_found" >>)
    BY <1>9, <2>1 DEF Resets
  <2> QED
    BY <1>8, <2>1, <2>2
<1>11. ASSUME NEW t \in Threads, SerializeCheckpointNotFound(t) PROVE ResetInPairs'
  <2>1. ReportGoes(t, << "checkpoint_not_found" >>) /\ UNCHANGED << duration, count, debugged >>
    BY <1>11, AfterSerializeCheckpointNotFound DEF SerializeCheckpointNotFound
  <2>2. Resets(t, << "checkpoint_not_found" >>)
    BY <1>9, <2>1 DEF Resets
  <2> QED
    BY <1>8, <2>1, <2>2
<1>12. ASSUME NEW t \in Threads, NEW tr \in Transitions, SerializeDuration(t, tr)
       PROVE  ResetInPairs'
  <2>1. /\ ReportGoes(t, Leaf("duration", tr))
        /\ duration'[tr] = IF call[t].op = "carbon" THEN CarbonReset(duration[tr])
                                                    ELSE duration[tr]
        /\ \A x \in Transitions : x # tr => duration'[x] = duration[x]
    BY <1>12, AfterSerializeDuration
  <2>2. count' = count /\ debugged' = debugged
    BY <1>12 DEF SerializeDuration, counters
  <2>3. CarbonReset(duration[tr]).cnt_val = 0
    BY MeasuresKept DEF TypeOK, Measures
  <2>4. Resets(t, Leaf("duration", tr))
    BY <1>9, <2>1, <2>2, <2>3 DEF Resets
  <2> QED
    BY <1>8, <2>1, <2>2, <2>4
<1>13. ASSUME NEW t \in Threads, NEW tr \in Transitions, SerializeCount(t, tr)
       PROVE  ResetInPairs'
  <2>1. /\ ReportGoes(t, Leaf("count", tr))
        /\ count'[tr] = 0 /\ \A x \in Transitions : x # tr => count'[x] = count[x]
    BY <1>13, AfterSerializeCount
  <2>2. duration' = duration /\ debugged' = debugged
    BY <1>13 DEF SerializeCount
  <2>3. Resets(t, Leaf("count", tr))
    BY <1>9, <2>1, <2>2 DEF Resets
  <2> QED
    BY <1>8, <2>1, <2>2, <2>3
<1>14. ASSUME NEW t \in Threads, Unlock(t) PROVE ResetInPairs'
  <2>1. /\ \A s \in Threads : call'[s] = None
        /\ call[t].todo = << >>
    BY <1>14, AfterUnlock
  <2>2. /\ UNCHANGED << duration, count >>
        /\ debugged' = (debugged /\ call[t].op # "carbon")
    BY <1>14 DEF Unlock, counters
  <2>3. Left(call[t].todo) = {}
    BY <2>1 DEF Left
  <2>4. call[t].op = "carbon" => \A tr \in Transitions : duration[tr].cnt_val = 0 /\ count[tr] = 0
    BY <2>3 DEF ResetInPairs
  <2>5. DurationsMatchCounts'
    BY <2>2, <2>4 DEF ResetInPairs, DurationsMatchCounts
  <2> QED
    BY <2>1, <2>5 DEF ResetInPairs, None, ReportOps
<1> QED
  BY <1>2, <1>3, <1>4, <1>5, <1>6, <1>7, <1>10, <1>11, <1>12, <1>13, <1>14
     DEF TNext, RequestOps, ReportOps

(* As long as only the carbon format is used, a transition's counter and    *)
(* its measure describe the same requests whenever a report begins.         *)
THEOREM CountsAreOfDurations == TSpec => []DurationsMatchCounts
<1>1. TInit => ResetInPairs
  <2> SUFFICES ASSUME TInit PROVE ResetInPairs
    OBVIOUS
  <2>1. /\ \A tr \in Transitions : duration[tr].cnt_val = 0
        /\ \A tr \in Transitions : count[tr] = 0
    BY MeasuresKept DEF TInit, Init, Zero
  <2>2. \A t \in Threads : call[t].op \notin ReportOps
    BY Beginning DEF None, ReportOps
  <2> QED
    BY <2>1, <2>2 DEF ResetInPairs, DurationsMatchCounts, ReportOps
<1>2. TypeOK /\ CallsOK /\ ResetInPairs /\ [TNext]_tvars => ResetInPairs'
  BY PairsKept
<1>3. ResetInPairs => DurationsMatchCounts
  BY DEF ResetInPairs
<1> QED
  BY <1>1, <1>2, <1>3, TypeCorrect, PTL DEF TSpec

(* While a report is written nobody else adds to what is left of it. *)
LEMMA AgreementKept ==
  TypeOK /\ CallsOK /\ ResetInPairs /\ AgreesSoFar /\ [TNext]_tvars => AgreesSoFar'
<1> SUFFICES ASSUME TypeOK, CallsOK, ResetInPairs, AgreesSoFar, [TNext]_tvars
             PROVE  AgreesSoFar'
  OBVIOUS
<1>1. ASSUME \A s \in Threads : call'[s].op \notin ReportOps PROVE AgreesSoFar'
  BY <1>1 DEF AgreesSoFar
<1>2. CASE UNCHANGED tvars
  BY <1>2 DEF AgreesSoFar, tvars, vars, counters
<1>3. ASSUME NEW t \in Threads, NEW op \in RequestOps, NEW u \in Uids,
             NEW p \in Checkpoints, LockRequest(t, op, u, p)
      PROVE  AgreesSoFar'
  <2>1. /\ \A s \in Threads : s # t => call'[s] = None
        /\ call'[t] = [op |-> op, todo |-> Statements(op), uid |-> u, pid |-> p, step |-> 0]
    BY <1>3, AfterLockRequest
  <2> QED
    BY <1>1, <2>1 DEF None, ReportOps, RequestOps
<1>4. ASSUME NEW t \in Threads, NEW op \in ReportOps, LockReport(t, op)
      PROVE  AgreesSoFar'
  <2>1. /\ \A s \in Threads : s # t => call'[s] = None
        /\ call'[t] = [op |-> op, todo |-> Statements(op), shown |-> {}, agree |-> ~debugged]
    BY <1>4, AfterLockReport
  <2>2. /\ call'[t].todo = Statements(op) /\ call'[t].shown = {}
        /\ call'[t].agree = ~debugged
    BY <2>1
  <2>3. count' = count /\ duration' = duration
    BY <1>4 DEF LockReport, counters
  <2>4. ~debugged => \A tr \in Transitions : duration[tr].cnt_val = count[tr]
    BY DEF ResetInPairs, DurationsMatchCounts
  <2>5. \A tr \in Transitions : Leaf("duration", tr) \in Left(Statements(op))
    <3>1. \A tr \in Transitions : /\ Leaf("duration", tr) \in ReportStatement
                                  /\ Leaf("duration", tr) # << "checkpoint_not_found" >>
      BY DEF ReportStatement, Leaf
    <3>2. op = "debug" \/ op = "carbon"
      BY DEF ReportOps
    <3> QED
      BY <3>1, <3>2, ReportBegins
  <2>6. \A s \in Threads : call'[s].op \in ReportOps => s = t
    BY <2>1 DEF None, ReportOps
  <2> QED
    BY <2>2, <2>3, <2>4, <2>5, <2>6 DEF AgreesSoFar
<1>5. ASSUME NEW t \in Threads, SeenStatement(t) PROVE AgreesSoFar'
  <2>1. /\ \A s \in Threads : s # t => call'[s] = None
        /\ call'[t].op \in {"seen", "out"}
    BY <1>5, AfterSeenStatement
  <2> QED
    BY <1>1, <2>1 DEF None, ReportOps
<1>6. ASSUME NEW t \in Threads, EraseStatement(t) PROVE AgreesSoFar'
  <2>1. /\ \A s \in Threads : s # t => call'[s] = None
        /\ call'[t].op \in {"in", "seen", "out"}
    BY <1>6, AfterEraseStatement
  <2> QED
    BY <1>1, <2>1 DEF None, ReportOps
<1>7. ASSUME NEW t \in Threads, InsertStatement(t) PROVE AgreesSoFar'
  <2>1. /\ \A s \in Threads : s # t => call'[s] = None
        /\ call'[t].op \in {"in", "seen"}
    BY <1>7, AfterInsertStatement
  <2> QED
    BY <1>1, <2>1 DEF None, ReportOps
<1> DEFINE Agrees(t, tr) ==
             /\ \A n \in Nat : << "count", tr, n >> \in call[t].shown
                                 => << "duration", tr, n >> \in call[t].shown
             /\ Leaf("duration", tr) \in Left(call[t].todo) => duration[tr].cnt_val = count[tr]
             /\ Leaf("count", tr) \in Left(call[t].todo)
                  /\ Leaf("duration", tr) \notin Left(call[t].todo)
                  => fd = "closed" \/ << "duration", tr, count[tr] >> \in call[t].shown
<1>8. ASSUME NEW t \in Threads, NEW x, ReportGoes(t, x),
             \A tr \in Transitions : Agrees(t, tr) => Agrees(t, tr)'
      PROVE  AgreesSoFar'
  <2>1. /\ \A s \in Threads : s # t => call'[s] = None
        /\ call[t].op \in ReportOps /\ call'[t].agree = call[t].agree
    BY <1>8 DEF ReportGoes
  <2>2. \A s \in Threads : call'[s].op \in ReportOps => s = t
    BY <2>1 DEF None, ReportOps
  <2>3. call[t].agree => \A tr \in Transitions : Agrees(t, tr)
    BY <2>1 DEF AgreesSoFar
  <2>4. call'[t].agree => \A tr \in Transitions : Agrees(t, tr)'
    BY <1>8, <2>1, <2>3
  <2> QED
    BY <2>2, <2>4 DEF AgreesSoFar
<1>9. \A s, tr : /\ << "uid_not_found" >> # Leaf("duration", tr)
                 /\ << "uid_not_found" >> # Leaf("count", tr)
                 /\ << "checkpoint_not_found" >> # Leaf("duration", tr)
                 /\ << "checkpoint_not_found" >> # Leaf("count", tr)
                 /\ Leaf("duration", s) # Leaf("count", tr)
                 /\ Leaf("duration", s) = Leaf("duration", tr) => s = tr
                 /\ Leaf("count", s) = Leaf("count", tr) => s = tr
  BY DEF Leaf
<1>10. ASSUME NEW t \in Threads, NEW x, ReportGoes(t, x),
              \A tr \in Transitions : x # Leaf("duration", tr) /\ x # Leaf("count", tr),
              call'[t].shown = call[t].shown, fd = "closed" => fd' = "closed",
              duration' = duration, count' = count
       PROVE  AgreesSoFar'
  <2>1. Left(call'[t].todo) = Left(call[t].todo) \ {x}
    BY <1>10 DEF ReportGoes
  <2>2. ASSUME NEW tr \in Transitions, Agrees(t, tr) PROVE Agrees(t, tr)'
    <3>1. /\ Leaf("duration", tr) \in Left(call'[t].todo)
               <=> Leaf("duration", tr) \in Left(call[t].todo)
          /\ Leaf("count", tr) \in Left(call'[t].todo)
               <=> Leaf("count", tr) \in Left(call[t].todo)
      BY <1>10, <2>1
    <3>2. /\ call'[t].shown = call[t].shown /\ duration' = duration /\ count' = count
          /\ fd = "closed" => fd' = "closed"
      BY <1>10
    <3> QED
      BY <2>2, <3>1, <3>2
  <2> QED
    BY <1>8, <1>10, <2>2
<1>11. ASSUME NEW t \in Threads, SerializeUidNotFound(t) PROVE AgreesSoFar'
  <2> DEFINE x == << "uid_not_found" >>
  <2>1. /\ ReportGoes(t, x) /\ call'[t].shown = call[t].shown
        /\ fd = "closed" => fd' = "closed"
    BY <1>11, AfterSerializeUidNotFound
  <2>2. duration' = duration /\ count' = count
    BY <1>11 DEF SerializeUidNotFound
  <2>3. \A tr \in Transitions : x # Leaf("duration", tr) /\ x # Leaf("count", tr)
    BY <1>9
  <2> HIDE DEF x
  <2> QED
    BY <1>10, <2>1, <2>2, <2>3
<1>12. ASSUME NEW t \in Threads, SerializeCheckpointNotFound(t) PROVE AgreesSoFar'
  <2> DEFINE x == << "checkpoint_not_found" >>
  <2>1. /\ ReportGoes(t, x) /\ call'[t].shown = call[t].shown
        /\ fd = "closed" => fd' = "closed"
    BY <1>12, AfterSerializeCheckpointNotFound
  <2>2. duration' = duration /\ count' = count
    BY <1>12 DEF SerializeCheckpointNotFound
  <2>3. \A tr \in Transitions : x # Leaf("duration", tr) /\ x # Leaf("count", tr)
    BY <1>9
  <2> HIDE DEF x
  <2> QED
    BY <1>10, <2>1, <2>2, <2>3
<1>13. ASSUME NEW t \in Threads, NEW tr \in Transitions, SerializeDuration(t, tr)
       PROVE  AgreesSoFar'
  <2>1. /\ ReportGoes(t, Leaf("duration", tr))
        /\ \/ /\ call'[t].shown
                   = call[t].shown \cup {<< "duration", tr, duration[tr].cnt_val >>}
              /\ fd # "closed"
           \/ call'[t].shown = call[t].shown /\ fd' = "closed"
        /\ \A y \in Transitions : y # tr => duration'[y] = duration[y]
    BY <1>13, AfterSerializeDuration
  <2>2. count' = count
    BY <1>13 DEF SerializeDuration, counters
  <2>3. Left(call'[t].todo) = Left(call[t].todo) \ {Leaf("duration", tr)}
        /\ Leaf("duration", tr) \in Left(call[t].todo)
    BY <2>1 DEF ReportGoes
  <2>4. ASSUME NEW y \in Transitions, Agrees(t, y) PROVE Agrees(t, y)'
    <3>1. \A n \in Nat : << "count", y, n >> \in call'[t].shown
                           => << "duration", y, n >> \in call'[t].shown
      BY <2>1, <2>4
    <3>2. CASE y = tr
      <4>1. duration[tr].cnt_val = count[tr]
        BY <2>3, <2>4, <3>2
      <4>2. fd' = "closed" \/ << "duration", tr, count[tr] >> \in call'[t].shown
        BY <2>1, <4>1
      <4>3. Leaf("duration", y) \notin Left(call'[t].todo)
        BY <2>3, <3>2
      <4> QED
        BY <2>2, <3>1, <3>2, <4>2, <4>3
    <3>3. CASE y # tr
      <4>1. /\ Leaf("duration", y) \in Left(call'[t].todo)
                 <=> Leaf("duration", y) \in Left(call[t].todo)
            /\ Leaf("count", y) \in Left(call'[t].todo)
                 <=> Leaf("count", y) \in Left(call[t].todo)
        BY <1>9, <2>3, <3>3
      <4>2. duration'[y] = duration[y] /\ count'[y] = count[y]
        BY <2>1, <2>2, <3>3
      <4>3. fd = "closed" \/ << "duration", y, count[y] >> \in call[t].shown
              => fd' = "closed" \/ << "duration", y, count[y] >> \in call'[t].shown
        BY <2>1
      <4> QED
        BY <2>4, <3>1, <4>1, <4>2, <4>3
    <3> QED
      BY <3>2, <3>3
  <2> QED
    BY <1>8, <2>1, <2>4
<1>14. ASSUME NEW t \in Threads, NEW tr \in Transitions, SerializeCount(t, tr)
       PROVE  AgreesSoFar'
  <2>1. /\ ReportGoes(t, Leaf("count", tr))
        /\ \/ /\ call'[t].shown = call[t].shown \cup {<< "count", tr, count[tr] >>}
              /\ fd # "closed"
           \/ call'[t].shown = call[t].shown /\ fd' = "closed"
        /\ Leaf("duration", tr) \notin Left(call[t].todo)
        /\ \A y \in Transitions : y # tr => count'[y] = count[y]
    BY <1>14, AfterSerializeCount
  <2>2. duration' = duration
    BY <1>14 DEF SerializeCount
  <2>3. Left(call'[t].todo) = Left(call[t].todo) \ {Leaf("count", tr)}
        /\ Leaf("count", tr) \in Left(call[t].todo)
    BY <2>1 DEF ReportGoes
  <2>4. ASSUME NEW y \in Transitions, Agrees(t, y) PROVE Agrees(t, y)'
    <3>1. CASE y = tr
      <4>1. fd = "closed" \/ << "duration", tr, count[tr] >> \in call[t].shown
        BY <2>1, <2>3, <2>4, <3>1
      <4>2. \A n \in Nat : << "count", y, n >> \in call'[t].shown
                             => << "duration", y, n >> \in call'[t].shown
        BY <2>1, <2>4, <3>1, <4>1
      <4>3. Leaf("duration", y) \notin Left(call'[t].todo)
            /\ Leaf("count", y) \notin Left(call'[t].todo)
        BY <2>1, <2>3, <3>1
      <4> QED
        BY <4>2, <4>3
    <3>2. CASE y # tr
      <4>1. /\ Leaf("duration", y) \in Left(call'[t].todo)
                 <=> Leaf("duration", y) \in Left(call[t].todo)
            /\ Leaf("count", y) \in Left(call'[t].todo)
                 <=> Leaf("count", y) \in Left(call[t].todo)
        BY <1>9, <2>3, <3>2
      <4>2. duration'[y] = duration[y] /\ count'[y] = count[y]
        BY <2>1, <2>2, <3>2
      <4>3. \A n \in Nat : << "count", y, n >> \in call'[t].shown
                             => << "duration", y, n >> \in call'[t].shown
        BY <2>1, <2>4, <3>2
      <4>4. fd = "closed" \/ << "duration", y, count[y] >> \in call[t].shown
              => fd' = "closed" \/ << "duration", y, count[y] >> \in call'[t].shown
        BY <2>1
      <4> QED
        BY <2>4, <4>1, <4>2, <4>3, <4>4
    <3> QED
      BY <3>1, <3>2
  <2> QED
    BY <1>8, <2>1, <2>4
<1>15. ASSUME NEW t \in Threads, Unlock(t) PROVE AgreesSoFar'
  <2>1. \A s \in Threads : call'[s] = None
    BY <1>15, AfterUnlock
  <2> QED
    BY <1>1, <2>1 DEF None, ReportOps
<1> QED
  BY <1>2, <1>3, <1>4, <1>5, <1>6, <1>7, <1>11, <1>12, <1>13, <1>14, <1>15
     DEF TNext, RequestOps, ReportOps

(* What one report says of a transition agrees: the count that is written   *)
(* is that of the durations whose average was written before it, whichever  *)
(* requests wait for the mutex and wherever a write fails.                  *)
THEOREM ReportsAreConsistent == TSpec => []ReportsAgree
<1>1. TInit => ResetInPairs /\ AgreesSoFar
  <2> SUFFICES ASSUME TInit PROVE ResetInPairs /\ AgreesSoFar
    OBVIOUS
  <2>1. /\ \A tr \in Transitions : duration[tr].cnt_val = 0
        /\ \A tr \in Transitions : count[tr] = 0
    BY MeasuresKept DEF TInit, Init, Zero
  <2>2. \A t \in Threads : call[t].op \notin ReportOps
    BY Beginning DEF None, ReportOps
  <2> QED
    BY <2>1, <2>2 DEF ResetInPairs, DurationsMatchCounts, AgreesSoFar, ReportOps
<1>2. TypeOK /\ CallsOK /\ ResetInPairs /\ [TNext]_tvars => ResetInPairs'
  BY PairsKept
<1>3. TypeOK /\ CallsOK /\ ResetInPairs /\ AgreesSoFar /\ [TNext]_tvars => AgreesSoFar'
  BY AgreementKept
<1>4. AgreesSoFar => ReportsAgree
  <2>1. 0..MaxCalls \subseteq Nat
    BY CorrelatorAssumption DEF CorrelatorAssumption
  <2> QED
    BY <2>1 DEF AgreesSoFar, ReportsAgree, ReportOps
<1> QED
  BY <1>1, <1>2, <1>3, <1>4, TypeCorrect, PTL DEF TSpec

-----------------------------------------------------------------------------
(* Only an unlock commits. *)
LEMMA OnlyUnlockCommits ==
  [TNext]_tvars => committed' = committed \/ \E t \in Threads : Unlock(t)
BY DEF TNext, tvars, LockRequest, LockReport, SeenStatement, EraseStatement, InsertStatement,
       SerializeUidNotFound, SerializeCheckpointNotFound, SerializeDuration, SerializeCount

(* The sum of an instance of Correlator is the sum. *)
LEMMA AtomicSum ==
  \A f, S : Atomic!SumFunctionOnSet(f, S) = SumFunctionOnSet(f, S)
BY DEF Atomic!SumFunctionOnSet, Atomic!FoldFunctionOnSet, Atomic!MapThenFoldSet,
       SumFunctionOnSet, FoldFunctionOnSet, MapThenFoldSet

(* What is committed. *)
Committed ==
  /\ committed.uids = uids /\ committed.duration = duration /\ committed.count = count
  /\ committed.seen_uid_not_found = seen_uid_not_found
  /\ committed.seen_checkpoint_not_found = seen_checkpoint_not_found
  /\ committed.clock = clock /\ committed.calls = calls /\ committed.reported = reported
  /\ committed.debugged = debugged
  /\ committed.entered = entered /\ committed.spent = spent

(* The types and the counts of the committed state. *)
LEMMA CommittedKept ==
  TypeOK /\ CallsOK /\ EachCallIsCounted /\ JourneysKnown /\ CommittedOK /\ [TNext]_tvars
    => CommittedOK'
<1> SUFFICES ASSUME TypeOK, CallsOK, EachCallIsCounted, JourneysKnown, CommittedOK,
                    [TNext]_tvars
             PROVE  CommittedOK'
  OBVIOUS
<1>1. CASE committed' = committed
  BY <1>1 DEF CommittedOK, Atomic!TypeOK, Atomic!EachCallIsCounted, Atomic!Counted
<1>2. ASSUME NEW t \in Threads, Unlock(t) PROVE CommittedOK'
  <2>1. TypeOK' /\ \A s \in Threads : call'[s] = None
    BY <1>2, AfterUnlock
  <2>2. EachCallIsCounted'
    BY CountedKept
  <2>3. JourneysKnown'
    BY JourneysKept
  <2>4. Committed'
    BY <1>2 DEF Unlock, Snapshot, Committed
  <2>5. Atomic!TypeOK'
    BY <2>1, <2>4 DEF Committed, TypeOK, Atomic!TypeOK
  <2>6. Atomic!EachCallIsCounted'
    <3>1. Atomic!Counted' = Counted'
      BY <2>4, AtomicSum DEF Committed, Counted, Atomic!Counted
    <3> QED
      BY <2>2, <2>4, <3>1 DEF Committed, EachCallIsCounted, Atomic!EachCallIsCounted
  <2>7. DOMAIN entered' = DOMAIN uids'
    <3>1. \A s \in Threads : ~AtInsert(s)'
      BY <2>1 DEF AtInsert, None
    <3> QED
      BY <2>1, <2>3, <3>1 DEF JourneysKnown, TypeOK
  <2> QED
    BY <2>4, <2>5, <2>6, <2>7 DEF Committed, CommittedOK
<1> QED
  BY <1>1, <1>2, OnlyUnlockCommits

-----------------------------------------------------------------------------
(* The fields of a snapshot, now and after a step. *)
LEMMA SnapshotIs ==
  LET d == Snapshot
  IN /\ /\ d.uids = uids /\ d.duration = duration /\ d.count = count
        /\ d.seen_uid_not_found = seen_uid_not_found
        /\ d.seen_checkpoint_not_found = seen_checkpoint_not_found
        /\ d.clock = clock /\ d.calls = calls /\ d.reported = reported
        /\ d.debugged = debugged /\ d.entered = entered /\ d.spent = spent
     /\ /\ d'.uids = uids' /\ d'.duration = duration' /\ d'.count = count'
        /\ d'.seen_uid_not_found = seen_uid_not_found'
        /\ d'.seen_checkpoint_not_found = seen_checkpoint_not_found'
        /\ d'.clock = clock' /\ d'.calls = calls' /\ d'.reported = reported'
        /\ d'.debugged = debugged' /\ d'.entered = entered' /\ d'.spent = spent'
BY DEF Snapshot

(* What was measured stays measured. *)
LEMMA MeasuredStays ==
  ASSUME NEW c, NEW d, NEW f, NEW u, NEW p, NEW now, Measured(c, d, u, p, now),
         SameStatistics(d, f)
  PROVE  Measured(c, f, u, p, now)
BY DEF Measured, SameStatistics, SeenFrom

(* Only the thread that is in a method needs to be looked at. *)
LEMMA ProgressOf ==
  ASSUME NEW t \in Threads, call'[t] # None,
         \A s \in Threads : s # t => call'[s] = None, Follows(t)'
  PROVE  Progress'
<1>1. ASSUME NEW s \in Threads, s # t PROVE Follows(s)'
  <2>1. call'[s].op = "none"
    BY <1>1 DEF None
  <2> QED
    BY <2>1 DEF Follows, ReportOps
<1> QED
  BY <1>1 DEF Progress

(* The first statement of seen() and of out(). *)
LEMMA SeenProgress ==
  ASSUME TypeOK, CallsOK, Progress, NEW t \in Threads, SeenStatement(t)
  PROVE  Progress'
<1>1. PICK c \in RequestCalls : c = call[t]
  BY AfterSeenStatement
<1> DEFINE u == c.uid
           d == Snapshot
           e == << "erase" >>
           i == << "insert" >>
<1>2. /\ \A s \in Threads : s # t => call[s] = None /\ call'[s] = None
      /\ call'[t] \in RequestCalls
      /\ \/ c.op = "seen" /\ call'[t].todo = << e, i >>
         \/ c.op = "out" /\ call'[t].todo = << e >>
      /\ call'[t].op = c.op /\ call'[t].uid = u /\ call'[t].pid = c.pid
      /\ call'[t].step = IF u \in DOMAIN uids THEN clock' - uids[u].since ELSE 0
      /\ clock' \in Readings(clock) /\ SeenLocked(u, c.pid, clock')
      /\ calls < MaxCalls /\ calls' = calls + 1
      /\ UNCHANGED << uids, reported, debugged, entered, spent, committed >>
  BY <1>1, AfterSeenStatement DEF journeys
<1>3. committed = d
  <2>1. c.todo # << >> /\ Head(c.todo) = << "seen_locked" >>
    BY <1>1 DEF SeenStatement, At
  <2>2. c.todo \in RequestTodos(c.op)
    BY <1>1, CallKinds DEF CallsOK, GoodCall, RequestCalls
  <2>3. c.op = "seen" => c.todo = << << "seen_locked" >>, e, i >>
    BY <2>1, <2>2, RequestSequels, StatementsDiffer DEF RequestTodos
  <2>4. c.op = "out" => c.todo = << << "seen_locked" >>, e >>
    BY <2>1, <2>2, RequestSequels, StatementsDiffer DEF RequestTodos
  <2>5. Follows(t)
    BY DEF Progress
  <2>6. CASE c.op = "seen"
    <3>1. SeenFromTo(committed, Snapshot, c.uid, c.pid, c.todo, c.step)
      BY <1>1, <2>5, <2>6 DEF Follows
    <3> QED
      BY <2>3, <2>6, <3>1 DEF SeenFromTo
  <2>7. CASE c.op = "out"
    <3>1. OutFrom(committed, Snapshot, c.uid, c.pid, c.todo)
      BY <1>1, <2>5, <2>7 DEF Follows
    <3> QED
      BY <2>4, <2>7, <3>1 DEF OutFrom
  <2> QED
    BY <1>2, <2>6, <2>7
<1>4. /\ d.uids = uids /\ d.duration = duration /\ d.count = count
      /\ d.seen_uid_not_found = seen_uid_not_found
      /\ d.seen_checkpoint_not_found = seen_checkpoint_not_found
      /\ d.clock = clock /\ d.calls = calls /\ d.reported = reported
      /\ d.debugged = debugged /\ d.entered = entered /\ d.spent = spent
  BY SnapshotIs
<1>5. /\ d'.uids = uids' /\ d'.duration = duration' /\ d'.count = count'
      /\ d'.seen_uid_not_found = seen_uid_not_found'
      /\ d'.seen_checkpoint_not_found = seen_checkpoint_not_found'
      /\ d'.clock = clock' /\ d'.calls = calls' /\ d'.reported = reported'
      /\ d'.debugged = debugged' /\ d'.entered = entered' /\ d'.spent = spent'
  BY SnapshotIs
<1> HIDE DEF d
<1>6. SeenFrom(d, d', u, c.pid, clock')
  <2>1. SeenLocked(u, c.pid, clock')
    BY <1>2
  <2> QED
    BY <1>4, <1>5, <2>1 DEF SeenLocked, SeenFrom
<1>7. Measured(d, d', u, c.pid, clock') /\ SameJourneys(d, d') /\ d'.uids = d.uids
      /\ call'[t].step = StepFrom(d, u, clock')
  BY <1>2, <1>4, <1>5, <1>6 DEF Measured, SameJourneys, StepFrom
<1>8. committed' = d /\ d'.clock = clock'
  BY <1>2, <1>3, <1>5
<1>9. Follows(t)'
  <2>1. CASE c.op = "seen"
    <3>1. SeenFromTo(d, d', u, c.pid, << e, i >>, call'[t].step)
      BY <1>7, <1>8, TodosDiffer DEF SeenFromTo
    <3>2. call'[t].todo = << e, i >> /\ call'[t].op = "seen"
      BY <1>2, <2>1
    <3> QED
      BY <1>2, <1>8, <3>1, <3>2 DEF Follows, ReportOps, d
  <2>2. CASE c.op = "out"
    <3>1. OutFrom(d, d', u, c.pid, << e >>)
      BY <1>7, <1>8, TodosDiffer DEF OutFrom
    <3>2. call'[t].todo = << e >> /\ call'[t].op = "out"
      BY <1>2, <2>2
    <3> QED
      BY <1>2, <1>8, <3>1, <3>2 DEF Follows, ReportOps, d
  <2> QED
    BY <1>2, <2>1, <2>2
<1>10. call'[t] # None
  BY <1>2 DEF RequestCalls, RequestOps, None
<1> QED
  BY <1>2, <1>9, <1>10, ProgressOf

(* The erase of in(), seen() and out(). *)
LEMMA EraseProgress ==
  ASSUME TypeOK, CallsOK, Progress, NEW t \in Threads, EraseStatement(t)
  PROVE  Progress'
<1>1. PICK k \in RequestCalls : k = call[t]
  BY AfterEraseStatement
<1> DEFINE u == k.uid
           p == k.pid
           c == committed
           d == Snapshot
           e == << "erase" >>
           i == << "insert" >>
<1>2. /\ \A s \in Threads : s # t => call[s] = None /\ call'[s] = None
      /\ call'[t] \in RequestCalls
      /\ \/ k.op \in {"in", "seen"} /\ k.todo = << e, i >> /\ call'[t].todo = << i >>
         \/ k.op = "out" /\ k.todo = << e >> /\ call'[t].todo = << >>
      /\ call'[t].op = k.op /\ call'[t].uid = u /\ call'[t].pid = p
      /\ call'[t].step = k.step
  BY <1>1, AfterEraseStatement
<1>3. /\ uids' = Erased(uids, u)
      /\ IF k.op = "out" THEN entered' = Without(entered, u) /\ spent' = Without(spent, u)
                         ELSE entered' = entered /\ spent' = spent
      /\ UNCHANGED << duration, count, seen_uid_not_found, seen_checkpoint_not_found, clock,
                      calls, reported, debugged, committed >>
  BY <1>1 DEF EraseStatement, journeys, counters
<1>4. /\ SameStatistics(d, d') /\ d'.clock = d.clock /\ d'.uids = Erased(d.uids, u)
      /\ k.op # "out" => SameJourneys(d, d')
      /\ k.op = "out" => d'.entered = Without(d.entered, u) /\ d'.spent = Without(d.spent, u)
      /\ c' = c
  BY <1>3, SnapshotIs DEF SameStatistics, SameJourneys
<1>5. Follows(t)
  BY DEF Progress
<1>6. CASE k.op = "in"
  <2>1. InFrom(c, d, u, p, << e, i >>)
    BY <1>1, <1>2, <1>5, <1>6 DEF Follows
  <2> HIDE DEF d
  <2>2. d = c
    BY <2>1 DEF InFrom
  <2>3. InFrom(c, d', u, p, << i >>)
    BY <1>4, <1>6, <2>2, TodosDiffer DEF InFrom
  <2>4. call'[t].op = "in" /\ call'[t].todo = << i >>
    BY <1>2, <1>6
  <2>5. Follows(t)'
    BY <1>2, <1>4, <2>3, <2>4 DEF Follows, ReportOps, d
  <2> QED
    BY <1>2, <2>4, <2>5, ProgressOf DEF None
<1>7. CASE k.op = "seen"
  <2>1. SeenFromTo(c, d, u, p, << e, i >>, k.step)
    BY <1>1, <1>2, <1>5, <1>7 DEF Follows
  <2> HIDE DEF d
  <2>2. Measured(c, d, u, p, d.clock) /\ k.step = StepFrom(c, u, d.clock)
        /\ d.uids = c.uids /\ SameJourneys(c, d)
    BY <2>1 DEF SeenFromTo
  <2>3. Measured(c, d', u, p, d'.clock)
    BY <1>4, <2>2, MeasuredStays
  <2>4. SameJourneys(c, d')
    BY <1>4, <1>7, <2>2 DEF SameJourneys
  <2>5. SeenFromTo(c, d', u, p, << i >>, k.step)
    BY <1>4, <2>2, <2>3, <2>4, TodosDiffer DEF SeenFromTo
  <2>6. call'[t].op = "seen" /\ call'[t].todo = << i >>
    BY <1>2, <1>7
  <2>7. Follows(t)'
    BY <1>2, <1>4, <2>5, <2>6 DEF Follows, ReportOps, d
  <2> QED
    BY <1>2, <2>6, <2>7, ProgressOf DEF None
<1>8. CASE k.op = "out"
  <2>1. OutFrom(c, d, u, p, << e >>)
    BY <1>1, <1>2, <1>5, <1>8 DEF Follows
  <2> HIDE DEF d
  <2>2. Measured(c, d, u, p, d.clock) /\ d.uids = c.uids /\ SameJourneys(c, d)
    BY <2>1 DEF OutFrom
  <2>3. Measured(c, d', u, p, d'.clock)
    BY <1>4, <2>2, MeasuredStays
  <2>4. d'.uids = Erased(c.uids, u) /\ d'.entered = Without(c.entered, u)
        /\ d'.spent = Without(c.spent, u)
    BY <1>4, <1>8, <2>2 DEF SameJourneys
  <2>5. OutFrom(c, d', u, p, << >>)
    BY <2>3, <2>4, TodosDiffer DEF OutFrom
  <2>6. call'[t].op = "out" /\ call'[t].todo = << >>
    BY <1>2, <1>8
  <2>7. Follows(t)'
    BY <1>2, <1>4, <2>5, <2>6 DEF Follows, ReportOps, d
  <2> QED
    BY <1>2, <2>6, <2>7, ProgressOf DEF None
<1> QED
  BY <1>2, <1>6, <1>7, <1>8

(* The insert of in() and seen(). *)
LEMMA InsertProgress ==
  ASSUME TypeOK, CallsOK, Progress, CommittedOK, NEW t \in Threads, InsertStatement(t)
  PROVE  Progress'
<1>1. PICK k \in RequestCalls : k = call[t]
  BY AfterInsertStatement
<1> DEFINE u == k.uid
           p == k.pid
           c == committed
           d == Snapshot
           i == << "insert" >>
           known == k.op = "seen" /\ u \in DOMAIN entered
<1>2. /\ \A s \in Threads : s # t => call[s] = None /\ call'[s] = None
      /\ call'[t] \in RequestCalls
      /\ k.op \in {"in", "seen"} /\ k.todo = << i >> /\ call'[t].todo = << >>
      /\ call'[t].op = k.op /\ call'[t].uid = u /\ call'[t].pid = p
  BY <1>1, AfterInsertStatement
<1>3. /\ clock' \in Readings(clock)
      /\ uids' = Inserted(uids, u, p, clock')
      /\ entered' = IF known THEN entered ELSE With(entered, u, clock')
      /\ spent' = With(spent, u, IF known THEN spent[u] + k.step ELSE 0)
      /\ UNCHANGED << duration, count, seen_uid_not_found, seen_checkpoint_not_found,
                      calls, reported, debugged, committed >>
  BY <1>1, AfterInsertStatement DEF counters
<1>4. /\ SameStatistics(d, d')
      /\ d'.clock \in Readings(d.clock) /\ d.clock \in Times
      /\ d'.uids = Inserted(d.uids, u, p, d'.clock)
      /\ known <=> k.op = "seen" /\ u \in DOMAIN d.entered
      /\ d'.entered = IF known THEN d.entered ELSE With(d.entered, u, d'.clock)
      /\ d'.spent = With(d.spent, u, IF known THEN d.spent[u] + k.step ELSE 0)
      /\ c' = c
  BY <1>3, SnapshotIs DEF SameStatistics, TypeOK
<1>5. Follows(t)
  BY DEF Progress
<1>6. CASE k.op = "in"
  <2>1. InFrom(c, d, u, p, << i >>)
    BY <1>1, <1>2, <1>5, <1>6 DEF Follows
  <2> HIDE DEF d
  <2>2. /\ SameStatistics(c, d) /\ SameJourneys(c, d)
        /\ d.uids = Erased(c.uids, u) /\ d.clock = c.clock
    BY <2>1 DEF InFrom
  <2>3. /\ SameStatistics(c, d') /\ d'.clock \in Readings(c.clock)
        /\ d'.uids = Inserted(Erased(c.uids, u), u, p, d'.clock)
    BY <1>4, <2>2 DEF SameStatistics
  <2>4. d'.entered = With(c.entered, u, d'.clock) /\ d'.spent = With(c.spent, u, 0)
    BY <1>4, <1>6, <2>2 DEF SameJourneys
  <2>5. InFrom(c, d', u, p, << >>)
    BY <2>3, <2>4, TodosDiffer DEF InFrom
  <2>6. call'[t].op = "in" /\ call'[t].todo = << >>
    BY <1>2, <1>6
  <2>7. Follows(t)'
    BY <1>2, <1>4, <2>5, <2>6 DEF Follows, ReportOps, d
  <2> QED
    BY <1>2, <2>6, <2>7, ProgressOf DEF None
<1>7. CASE k.op = "seen"
  <2>1. SeenFromTo(c, d, u, p, << i >>, k.step)
    BY <1>1, <1>2, <1>5, <1>7 DEF Follows
  <2> HIDE DEF d
  <2>2. /\ Measured(c, d, u, p, d.clock) /\ k.step = StepFrom(c, u, d.clock)
        /\ d.uids = Erased(c.uids, u) /\ SameJourneys(c, d)
    BY <2>1 DEF SeenFromTo
  <2>3. Measured(c, d', u, p, d.clock)
    BY <1>4, <2>2, MeasuredStays
  <2>4. known <=> u \in DOMAIN c.uids
    BY <1>4, <1>7, <2>2 DEF SameJourneys, CommittedOK
  <2> HIDE DEF known
  <2>5. /\ d'.uids = Inserted(Erased(c.uids, u), u, p, d'.clock)
        /\ d'.entered = IF u \in DOMAIN c.uids THEN c.entered ELSE With(c.entered, u, d'.clock)
        /\ d'.spent = With(c.spent, u, IF u \in DOMAIN c.uids
                                      THEN c.spent[u] + StepFrom(c, u, d.clock) ELSE 0)
    BY <1>4, <2>2, <2>4 DEF SameJourneys
  <2>6. d.clock \in Times /\ d'.clock \in Readings(d.clock)
    BY <1>4
  <2>7. SeenFromTo(c, d', u, p, << >>, call'[t].step)
    BY <2>3, <2>5, <2>6, TodosDiffer DEF SeenFromTo
  <2>8. call'[t].op = "seen" /\ call'[t].todo = << >>
    BY <1>2, <1>7
  <2>9. Follows(t)'
    BY <1>2, <1>4, <2>7, <2>8 DEF Follows, ReportOps, d
  <2> QED
    BY <1>2, <2>8, <2>9, ProgressOf DEF None
<1> QED
  BY <1>2, <1>6, <1>7

(* A statement of a report leaves what it does not reset as it was. *)
LEMMA ReportProgress ==
  ASSUME Progress, NEW t \in Threads, NEW x, ReportGoes(t, x),
         UNCHANGED << uids, clock, calls, debugged, entered, spent, committed >>,
         /\ seen_uid_not_found' = IF x = << "uid_not_found" >> THEN 0 ELSE seen_uid_not_found
         /\ seen_checkpoint_not_found' =
              IF x = << "checkpoint_not_found" >> /\ call[t].op # "debug"
              THEN 0 ELSE seen_checkpoint_not_found
         /\ \A tr \in Transitions :
              count'[tr] = IF x = Leaf("count", tr) THEN 0 ELSE count[tr]
         /\ \A tr \in Transitions :
              duration'[tr] = IF x = Leaf("duration", tr) /\ call[t].op # "debug"
                              THEN CarbonReset(duration[tr]) ELSE duration[tr]
  PROVE  Progress'
<1> DEFINE c == committed
           d == Snapshot
<1>1. PICK op \in ReportOps : op = call[t].op
  BY DEF ReportGoes
<1>2. PICK left : left = Left(call[t].todo)
  OBVIOUS
<1>3. ReportFrom(c, d, op, left)
  <2>1. Follows(t)
    BY DEF Progress
  <2> QED
    BY <1>1, <1>2, <2>1 DEF Follows
<1>4. /\ seen_uid_not_found' = IF x = << "uid_not_found" >> THEN 0 ELSE seen_uid_not_found
      /\ seen_checkpoint_not_found' =
           IF x = << "checkpoint_not_found" >> /\ op # "debug"
           THEN 0 ELSE seen_checkpoint_not_found
      /\ \A tr \in Transitions :
           count'[tr] = IF x = Leaf("count", tr) THEN 0 ELSE count[tr]
      /\ \A tr \in Transitions :
           duration'[tr] = IF x = Leaf("duration", tr) /\ op # "debug"
                           THEN CarbonReset(duration[tr]) ELSE duration[tr]
  BY <1>1
<1>5. call'[t].op = op /\ Left(call'[t].todo) = left \ {x} /\ x \in left
  BY <1>1, <1>2 DEF ReportGoes
<1>6. /\ d'.uids = d.uids /\ d'.clock = d.clock /\ d'.calls = d.calls
      /\ SameJourneys(d, d') /\ d'.debugged = d.debugged /\ c' = c
  BY SnapshotIs DEF SameJourneys
<1>7. /\ d'.seen_uid_not_found
           = IF x = << "uid_not_found" >> THEN 0 ELSE d.seen_uid_not_found
      /\ d'.seen_checkpoint_not_found
           = IF x = << "checkpoint_not_found" >> /\ op # "debug"
             THEN 0 ELSE d.seen_checkpoint_not_found
      /\ \A tr \in Transitions :
           d'.count[tr] = IF x = Leaf("count", tr) THEN 0 ELSE d.count[tr]
      /\ \A tr \in Transitions :
           d'.duration[tr] = IF x = Leaf("duration", tr) /\ op # "debug"
                             THEN CarbonReset(d.duration[tr]) ELSE d.duration[tr]
  BY <1>4, SnapshotIs
<1> HIDE DEF d
<1>8. /\ d'.uids = c.uids /\ d'.clock = c.clock /\ d'.calls = c.calls
      /\ SameJourneys(c, d') /\ d'.debugged = TRUE
  BY <1>3, <1>6 DEF ReportFrom, SameJourneys
<1>9. d'.seen_uid_not_found
        = IF << "uid_not_found" >> \in left \ {x} THEN c.seen_uid_not_found ELSE 0
  BY <1>3, <1>7 DEF ReportFrom
<1>10. d'.seen_checkpoint_not_found
         = IF op = "debug" \/ << "checkpoint_not_found" >> \in left \ {x}
           THEN c.seen_checkpoint_not_found ELSE 0
  BY <1>3, <1>7 DEF ReportFrom
<1>11. ASSUME NEW tr \in Transitions
       PROVE  d'.count[tr] = IF Leaf("count", tr) \in left \ {x} THEN c.count[tr] ELSE 0
  BY <1>3, <1>7 DEF ReportFrom
<1>12. ASSUME NEW tr \in Transitions
       PROVE  d'.duration[tr] = IF op = "debug" \/ Leaf("duration", tr) \in left \ {x}
                                THEN c.duration[tr] ELSE CarbonReset(c.duration[tr])
  <2>1. /\ d.duration[tr] = IF op = "debug" \/ Leaf("duration", tr) \in left
                            THEN c.duration[tr] ELSE CarbonReset(c.duration[tr])
        /\ d'.duration[tr] = IF x = Leaf("duration", tr) /\ op # "debug"
                             THEN CarbonReset(d.duration[tr]) ELSE d.duration[tr]
    BY <1>3, <1>7 DEF ReportFrom
  <2> HIDE DEF c
  <2> QED
    BY <1>5, <2>1
<1>13. ReportFrom(c, d', op, left \ {x})
  BY <1>8, <1>9, <1>10, <1>11, <1>12 DEF ReportFrom
<1>14. Follows(t)'
  <2>1. ReportFrom(c', Snapshot', op, Left(call'[t].todo))
    BY <1>5, <1>6, <1>13 DEF d
  <2>2. call'[t].op \notin {"in", "seen", "out"}
    BY <1>1, <1>5 DEF ReportOps
  <2> QED
    BY <1>5, <2>1, <2>2 DEF Follows
<1>15. call'[t] # None /\ \A s \in Threads : s # t => call'[s] = None
  BY <1>1, <1>5 DEF ReportGoes, None, ReportOps
<1> QED
  BY <1>14, <1>15, ProgressOf

(* The statements of the reports. *)
LEMMA StatementsOfReports ==
  ASSUME TypeOK, CallsOK, Progress, NEW t \in Threads,
         \/ SerializeUidNotFound(t) \/ SerializeCheckpointNotFound(t)
         \/ \E tr \in Transitions : SerializeDuration(t, tr) \/ SerializeCount(t, tr)
  PROVE  Progress'
<1> DEFINE un == << "uid_not_found" >>
           cn == << "checkpoint_not_found" >>
<1>1. /\ un # cn
      /\ \A kind : \A tr \in Transitions : un # Leaf(kind, tr) /\ cn # Leaf(kind, tr)
      /\ \A x, y \in Transitions : /\ Leaf("count", x) # Leaf("duration", y)
                                   /\ Leaf("count", x) = Leaf("count", y) <=> x = y
                                   /\ Leaf("duration", x) = Leaf("duration", y) <=> x = y
  BY DEF Leaf
<1> HIDE DEF un, cn
<1>2. CASE SerializeUidNotFound(t)
  <2>1. ReportGoes(t, un)
    BY <1>2, AfterSerializeUidNotFound DEF un
  <2>2. /\ seen_uid_not_found' = 0
        /\ UNCHANGED << uids, duration, count, seen_checkpoint_not_found, clock, calls,
                        debugged, entered, spent, committed >>
    BY <1>2 DEF SerializeUidNotFound, journeys
  <2>3. seen_uid_not_found' = IF un = un THEN 0 ELSE seen_uid_not_found
    BY <2>2
  <2>4. \A tr \in Transitions : un # Leaf("count", tr) /\ un # Leaf("duration", tr)
    BY <1>1
  <2> QED
    BY <1>1, <2>1, <2>2, <2>3, <2>4, ReportProgress DEF un, cn
<1>3. CASE SerializeCheckpointNotFound(t)
  <2>1. ReportGoes(t, cn) /\ call[t].op # "debug"
    BY <1>3, AfterSerializeCheckpointNotFound DEF cn
  <2>2. /\ seen_checkpoint_not_found' = 0
        /\ UNCHANGED << uids, duration, count, seen_uid_not_found, clock, calls,
                        debugged, entered, spent, committed >>
    BY <1>3 DEF SerializeCheckpointNotFound, journeys
  <2>3. \A tr \in Transitions : cn # Leaf("count", tr) /\ cn # Leaf("duration", tr)
    BY <1>1
  <2> QED
    BY <1>1, <2>1, <2>2, <2>3, ReportProgress DEF un, cn
<1>4. ASSUME NEW tr \in Transitions, SerializeDuration(t, tr)
      PROVE  Progress'
  <2> DEFINE x == Leaf("duration", tr)
  <2>1. /\ ReportGoes(t, x)
        /\ duration'[tr] = IF call[t].op = "carbon" THEN CarbonReset(duration[tr])
                                                    ELSE duration[tr]
        /\ \A y \in Transitions : y # tr => duration'[y] = duration[y]
    BY <1>4, AfterSerializeDuration
  <2>2. call[t].op = "carbon" <=> call[t].op # "debug"
    BY <2>1 DEF ReportGoes, ReportOps
  <2>3. UNCHANGED << uids, count, seen_uid_not_found, seen_checkpoint_not_found, clock, calls,
                     debugged, entered, spent, committed >>
    BY <1>4 DEF SerializeDuration, counters, journeys
  <2>4. /\ un # x /\ cn # x /\ \A y \in Transitions : x # Leaf("count", y)
        /\ \A y \in Transitions : x = Leaf("duration", y) <=> y = tr
    BY <1>1
  <2> HIDE DEF x
  <2>5. \A y \in Transitions :
          duration'[y] = IF x = Leaf("duration", y) /\ call[t].op # "debug"
                         THEN CarbonReset(duration[y]) ELSE duration[y]
    BY <2>1, <2>2, <2>4
  <2> QED
    BY <2>1, <2>3, <2>4, <2>5, ReportProgress DEF un, cn
<1>5. ASSUME NEW tr \in Transitions, SerializeCount(t, tr)
      PROVE  Progress'
  <2> DEFINE x == Leaf("count", tr)
  <2>1. /\ ReportGoes(t, x) /\ count'[tr] = 0
        /\ \A y \in Transitions : y # tr => count'[y] = count[y]
    BY <1>5, AfterSerializeCount
  <2>2. UNCHANGED << uids, duration, seen_uid_not_found, seen_checkpoint_not_found, clock, calls,
                     debugged, entered, spent, committed >>
    BY <1>5 DEF SerializeCount, journeys
  <2>3. /\ un # x /\ cn # x /\ \A y \in Transitions : x # Leaf("duration", y)
        /\ \A y \in Transitions : x = Leaf("count", y) <=> y = tr
    BY <1>1
  <2> HIDE DEF x
  <2>4. \A y \in Transitions :
          count'[y] = IF x = Leaf("count", y) THEN 0 ELSE count[y]
    BY <2>1, <2>3
  <2> QED
    BY <2>1, <2>2, <2>3, <2>4, ReportProgress DEF un, cn
<1> QED
  BY <1>2, <1>3, <1>4, <1>5

(* A method begins at the state that was committed. *)
LEMMA LockProgress ==
  ASSUME TypeOK, CallsOK, Progress, NEW t \in Threads,
         \/ \E op \in RequestOps, u \in Uids, p \in Checkpoints : LockRequest(t, op, u, p)
         \/ \E op \in ReportOps : LockReport(t, op)
  PROVE  Progress'
<1> DEFINE c == committed
           d == Snapshot
<1>1. ASSUME NEW op \in RequestOps, NEW u \in Uids, NEW p \in Checkpoints,
             LockRequest(t, op, u, p)
      PROVE  Progress'
  <2>1. /\ \A s \in Threads : call[s] = None /\ (s # t => call'[s] = None)
        /\ call'[t] = [op |-> op, todo |-> Statements(op), uid |-> u, pid |-> p, step |-> 0]
    BY <1>1, AfterLockRequest
  <2>2. call'[t].op = op /\ call'[t].todo = Statements(op)
    BY <2>1
  <2>3. c' = d'
    <3>1. c = d
      BY <2>1 DEF Progress
    <3>2. UNCHANGED << vars, committed >>
      BY <1>1 DEF LockRequest
    <3> QED
      BY <3>1, <3>2 DEF vars, counters, journeys, Snapshot
  <2> HIDE DEF d
  <2>4. CASE op = "in"
    <3>1. call'[t].todo = << << "erase" >>, << "insert" >> >>
      BY <2>2, <2>4 DEF Statements, InLockedStatements
    <3>2. \A y, z : InFrom(d', d', y, z, << << "erase" >>, << "insert" >> >>)
      BY TodosDiffer DEF InFrom
    <3> QED
      BY <2>1, <2>2, <2>3, <2>4, <3>1, <3>2, ProgressOf DEF Follows, ReportOps, d, None
  <2>5. CASE op = "seen"
    <3>1. call'[t].todo = << << "seen_locked" >>, << "erase" >>, << "insert" >> >>
      BY <2>2, <2>5, SeenStatements
    <3>2. \A y, z, step : SeenFromTo(d', d', y, z,
                            << << "seen_locked" >>, << "erase" >>, << "insert" >> >>, step)
      BY TodosDiffer DEF SeenFromTo
    <3> QED
      BY <2>1, <2>2, <2>3, <2>5, <3>1, <3>2, ProgressOf DEF Follows, ReportOps, d, None
  <2>6. CASE op = "out"
    <3>1. call'[t].todo = << << "seen_locked" >>, << "erase" >> >>
      BY <2>2, <2>6 DEF Statements
    <3>2. \A y, z : OutFrom(d', d', y, z, << << "seen_locked" >>, << "erase" >> >>)
      BY TodosDiffer DEF OutFrom
    <3> QED
      BY <2>1, <2>2, <2>3, <2>6, <3>1, <3>2, ProgressOf DEF Follows, ReportOps, d, None
  <2> QED
    BY <2>4, <2>5, <2>6 DEF RequestOps
<1>2. ASSUME NEW op \in ReportOps, LockReport(t, op)
      PROVE  Progress'
  <2>1. /\ \A s \in Threads : call[s] = None /\ (s # t => call'[s] = None)
        /\ call'[t] = [op |-> op, todo |-> Statements(op), shown |-> {}, agree |-> ~debugged]
    BY <1>2, AfterLockReport
  <2>2. call'[t].op = op /\ call'[t].todo = Statements(op)
    BY <2>1
  <2>3. c = d /\ c' = c
    BY <1>2, <2>1 DEF Progress, LockReport
  <2>4. /\ d'.debugged = TRUE /\ d'.uids = d.uids /\ d'.clock = d.clock /\ d'.calls = d.calls
        /\ d'.entered = d.entered /\ d'.spent = d.spent /\ d'.count = d.count
        /\ d'.duration = d.duration /\ d'.seen_uid_not_found = d.seen_uid_not_found
        /\ d'.seen_checkpoint_not_found = d.seen_checkpoint_not_found
    BY <1>2, SnapshotIs DEF LockReport, counters, journeys
  <2> HIDE DEF d
  <2>5. /\ << "uid_not_found" >> \in Left(Statements(op))
        /\ op = "debug" \/ << "checkpoint_not_found" >> \in Left(Statements(op))
        /\ \A tr \in Transitions : Leaf("count", tr) \in Left(Statements(op))
        /\ \A tr \in Transitions : Leaf("duration", tr) \in Left(Statements(op))
    <3>1. /\ << "uid_not_found" >> \in ReportStatement
          /\ << "checkpoint_not_found" >> \in ReportStatement
          /\ \A tr \in Transitions : /\ Leaf("count", tr) \in ReportStatement
                                     /\ Leaf("duration", tr) \in ReportStatement
      BY DEF ReportStatement
    <3>2. /\ << "uid_not_found" >> # << "checkpoint_not_found" >>
          /\ \A tr \in Transitions : /\ Leaf("count", tr) # << "checkpoint_not_found" >>
                                     /\ Leaf("duration", tr) # << "checkpoint_not_found" >>
      BY DEF Leaf
    <3>3. CASE op = "debug"
      BY <3>1, <3>2, <3>3, ReportBegins
    <3>4. CASE op = "carbon"
      BY <3>1, <3>4, ReportBegins
    <3> QED
      BY <3>3, <3>4 DEF ReportOps
  <2>6. ReportFrom(d, d', op, Left(Statements(op)))
    BY <2>4, <2>5 DEF ReportFrom, SameJourneys
  <2>7. Follows(t)'
    <3>1. op \notin {"in", "seen", "out"}
      BY DEF ReportOps
    <3> QED
      BY <2>2, <2>3, <2>6, <3>1 DEF Follows, d
  <2> QED
    BY <2>1, <2>2, <2>7, ProgressOf DEF None, ReportOps
<1> QED
  BY <1>1, <1>2

(* How far the methods have come is inductive. *)
LEMMA ProgressKept ==
  TypeOK /\ CallsOK /\ CommittedOK /\ Progress /\ [TNext]_tvars => Progress'
<1> SUFFICES ASSUME TypeOK, CallsOK, CommittedOK, Progress, [TNext]_tvars
             PROVE  Progress'
  OBVIOUS
<1>1. CASE UNCHANGED tvars
  <2>1. Snapshot' = Snapshot /\ committed' = committed /\ call' = call
    BY <1>1 DEF tvars, vars, counters, journeys, Snapshot
  <2> QED
    BY <2>1 DEF Progress, Follows
<1>2. ASSUME NEW t \in Threads,
             \/ \E op \in RequestOps, u \in Uids, p \in Checkpoints : LockRequest(t, op, u, p)
             \/ \E op \in ReportOps : LockReport(t, op)
      PROVE  Progress'
  BY <1>2, LockProgress
<1>3. ASSUME NEW t \in Threads,
             \/ SerializeUidNotFound(t) \/ SerializeCheckpointNotFound(t)
             \/ \E tr \in Transitions : SerializeDuration(t, tr) \/ SerializeCount(t, tr)
      PROVE  Progress'
  BY <1>3, StatementsOfReports
<1>4. ASSUME NEW t \in Threads, Unlock(t)
      PROVE  Progress'
  <2>1. /\ \A s \in Threads : call'[s] = None
        /\ committed' = Snapshot'
    BY <1>4, AfterUnlock DEF Unlock
  <2>2. \A s \in Threads : call'[s].op = "none"
    BY <2>1 DEF None
  <2> QED
    BY <2>1, <2>2 DEF Progress, Follows, ReportOps
<1> QED
  BY <1>1, <1>2, <1>3, <1>4, SeenProgress, EraseProgress, InsertProgress
     DEF TNext, RequestOps, ReportOps

-----------------------------------------------------------------------------
(* The operators of the instance of Correlator are those of Correlator. *)
LEMMA AtomicOperators ==
  /\ \A last : Atomic!Readings(last) = Readings(last)
  /\ \A f, u : Atomic!Without(f, u) = Without(f, u)
  /\ \A f, u : Atomic!Erased(f, u) = Erased(f, u)
  /\ \A f, u, x : Atomic!With(f, u, x) = With(f, u, x)
  /\ \A f, u, p, now : Atomic!Inserted(f, u, p, now) = Inserted(f, u, p, now)
  /\ \A m, v : Atomic!AddLocked(m, v) = AddLocked(m, v)
  /\ \A m : Atomic!CarbonReset(m) = CarbonReset(m)
  /\ Atomic!Zero = Zero /\ Atomic!NewMeasure = NewMeasure
<1>1. /\ \A last : Atomic!Readings(last) = Readings(last)
      /\ \A m : Atomic!CarbonReset(m) = CarbonReset(m)
      /\ Atomic!Zero = Zero /\ Atomic!NewMeasure = NewMeasure
  BY DEF Atomic!Readings, Readings, Atomic!CarbonReset, CarbonReset, Atomic!Zero, Zero,
         Atomic!NewMeasure, NewMeasure
<1>2. \A f, u : Atomic!Without(f, u) = Without(f, u)
  BY DEF Atomic!Without, Without, Atomic!Restrict, Restrict
<1>3. \A f, u : Atomic!Erased(f, u) = Erased(f, u)
  BY <1>2 DEF Atomic!Erased, Erased
<1>4. \A f, u, x : Atomic!With(f, u, x) = With(f, u, x)
  BY DEF Atomic!With, With
<1>5. \A f, u, p, now : Atomic!Inserted(f, u, p, now) = Inserted(f, u, p, now)
  BY <1>4 DEF Atomic!Inserted, Inserted
<1>6. \A m, v : Atomic!AddLocked(m, v) = AddLocked(m, v)
  BY DEF Atomic!AddLocked, AddLocked, Atomic!Lesser, Lesser, Atomic!Greater, Greater
<1> QED
  BY <1>1, <1>2, <1>3, <1>4, <1>5, <1>6

(* The statistics of a seen() or out() that has ended. *)
LEMMA AtomicSeenLocked ==
  ASSUME NEW u, NEW p, NEW now, SeenFrom(committed, committed', u, p, now)
  PROVE  Atomic!SeenLocked(u, p, now)
<1>1. CASE u \notin DOMAIN committed.uids
  BY <1>1 DEF SeenFrom, Atomic!SeenLocked
<1>2. CASE u \in DOMAIN committed.uids
  <2>1. PICK tr : tr = << committed.uids[u].at, p >>
    OBVIOUS
  <2>2. CASE tr \notin Transitions
    BY <1>2, <2>1, <2>2 DEF SeenFrom, Atomic!SeenLocked
  <2>3. CASE tr \in Transitions
    <3>1. /\ committed'.seen_uid_not_found = committed.seen_uid_not_found
          /\ committed'.duration = [committed.duration EXCEPT ![tr] =
                                      AddLocked(@, now - committed.uids[u].since)]
          /\ committed'.count = [committed.count EXCEPT ![tr] = @ + 1]
          /\ committed'.seen_checkpoint_not_found = committed.seen_checkpoint_not_found
      BY <1>2, <2>1, <2>3 DEF SeenFrom
    <3>2. committed'.duration = [committed.duration EXCEPT ![tr] =
                                   Atomic!AddLocked(@, now - committed.uids[u].since)]
      BY <3>1, AtomicOperators
    <3> QED
      BY <1>2, <2>1, <2>3, <3>1, <3>2 DEF Atomic!SeenLocked
  <2> QED
    BY <2>2, <2>3
<1> QED
  BY <1>1, <1>2

(* A request that ends is a step of Correlator. *)
LEMMA RequestIsAStep ==
  ASSUME TypeOK, CallsOK, Progress, NEW t \in Threads, Unlock(t), call[t].op \in RequestOps
  PROVE  Atomic!Next
<1>1. PICK k \in RequestCalls : k = call[t]
  BY CallKinds
<1> DEFINE u == k.uid
           p == k.pid
           c == committed
           d == Snapshot
<1>2. k.todo = << >> /\ u \in Uids /\ p \in Checkpoints
  BY <1>1 DEF Unlock, RequestCalls
<1>3. committed' = d
  <2>1. UNCHANGED << uids, duration, counters, clock, calls, reported, journeys >>
    BY DEF Unlock
  <2>2. debugged' = debugged
    BY <1>1 DEF Unlock, RequestOps, TypeOK
  <2>3. committed' = Snapshot'
    BY DEF Unlock
  <2> QED
    BY <2>1, <2>2, <2>3 DEF Snapshot, counters, journeys
<1>4. Follows(t)
  BY DEF Progress
<1>5. CASE k.op = "in"
  <2>1. InFrom(c, d, u, p, << >>)
    BY <1>1, <1>2, <1>4, <1>5 DEF Follows
  <2> HIDE DEF d
  <2>2. /\ SameStatistics(c, d)
        /\ d.clock \in Readings(c.clock)
        /\ d.uids = Inserted(Erased(c.uids, u), u, p, d.clock)
        /\ d.entered = With(c.entered, u, d.clock) /\ d.spent = With(c.spent, u, 0)
    BY <2>1 DEF InFrom
  <2>3. Atomic!InLocked(u, p, d.clock)
    BY <1>3, <2>2, AtomicOperators DEF Atomic!InLocked
  <2>4. Atomic!In(u, p)
    BY <1>3, <2>2, <2>3, AtomicOperators DEF Atomic!In, SameStatistics, Atomic!counters
  <2> QED
    BY <1>2, <2>4 DEF Atomic!Next, Atomic!Request
<1>6. CASE k.op = "seen"
  <2>1. SeenFromTo(c, d, u, p, << >>, k.step)
    BY <1>1, <1>2, <1>4, <1>6 DEF Follows
  <2> HIDE DEF d
  <2>2. PICK now \in Times :
          /\ Measured(c, d, u, p, now) /\ d.clock \in Readings(now)
          /\ d.uids = Inserted(Erased(c.uids, u), u, p, d.clock)
          /\ d.entered = IF u \in DOMAIN c.uids THEN c.entered ELSE With(c.entered, u, d.clock)
          /\ d.spent = With(c.spent, u, IF u \in DOMAIN c.uids
                                        THEN c.spent[u] + StepFrom(c, u, now) ELSE 0)
    BY <2>1 DEF SeenFromTo
  <2>3. Atomic!InLocked(u, p, d.clock) /\ Atomic!SeenLocked(u, p, now)
    BY <1>3, <2>2, AtomicOperators, AtomicSeenLocked DEF Atomic!InLocked, Measured
  <2>4. /\ now \in Atomic!Readings(c.clock) /\ d.clock \in Atomic!Readings(now)
        /\ c.calls < MaxCalls /\ c'.calls = c.calls + 1 /\ c'.clock = d.clock
        /\ c'.reported = c.reported /\ c'.debugged = c.debugged
    BY <1>3, <2>2, AtomicOperators DEF Measured
  <2>5. /\ c'.entered = IF u \in DOMAIN c.uids THEN c.entered
                                               ELSE Atomic!With(c.entered, u, d.clock)
        /\ c'.spent = Atomic!With(c.spent, u, IF u \in DOMAIN c.uids
                                    THEN c.spent[u] + (now - c.uids[u].since) ELSE 0)
    BY <1>3, <2>2, AtomicOperators DEF StepFrom
  <2>6. Atomic!Seen(u, p)
    BY <2>3, <2>4, <2>5 DEF Atomic!Seen
  <2> QED
    BY <1>2, <2>6 DEF Atomic!Next, Atomic!Request
<1>7. CASE k.op = "out"
  <2>1. OutFrom(c, d, u, p, << >>)
    BY <1>1, <1>2, <1>4, <1>7 DEF Follows
  <2> HIDE DEF d
  <2>2. /\ Measured(c, d, u, p, d.clock) /\ d.uids = Erased(c.uids, u)
        /\ d.entered = Without(c.entered, u) /\ d.spent = Without(c.spent, u)
    BY <2>1 DEF OutFrom
  <2>3. Atomic!SeenLocked(u, p, d.clock)
    BY <1>3, <2>2, AtomicSeenLocked DEF Measured
  <2>4. /\ d.clock \in Atomic!Readings(c.clock)
        /\ c.calls < MaxCalls /\ c'.calls = c.calls + 1 /\ c'.clock = d.clock
        /\ c'.reported = c.reported /\ c'.debugged = c.debugged
        /\ c'.uids = Atomic!Erased(c.uids, u)
        /\ c'.entered = Atomic!Without(c.entered, u) /\ c'.spent = Atomic!Without(c.spent, u)
    BY <1>3, <2>2, AtomicOperators DEF Measured
  <2>5. Atomic!Out(u, p)
    BY <2>3, <2>4 DEF Atomic!Out
  <2> QED
    BY <1>2, <2>5 DEF Atomic!Next, Atomic!Request
<1> QED
  BY <1>1, <1>5, <1>6, <1>7 DEF RequestOps

(* A report that ends is a step of Correlator. *)
LEMMA ReportIsAStep ==
  ASSUME TypeOK, CallsOK, EachCallIsCounted, CommittedOK, Progress,
         NEW t \in Threads, Unlock(t), call[t].op \in ReportOps
  PROVE  Atomic!Next
<1>1. PICK op \in ReportOps : op = call[t].op
  OBVIOUS
<1> DEFINE c == committed
           d == Snapshot
<1>2. Left(call[t].todo) = {}
  BY DEF Unlock, Left
<1>3. ReportFrom(c, d, op, {})
  <2>1. Follows(t)
    BY DEF Progress
  <2> QED
    BY <1>1, <1>2, <2>1 DEF Follows
<1>4. /\ committed' = Snapshot'
      /\ debugged' = (debugged /\ op # "carbon")
      /\ UNCHANGED << uids, duration, counters, clock, calls, reported, journeys >>
  BY <1>1 DEF Unlock
<1>5. /\ uids = c.uids /\ clock = c.clock /\ calls = c.calls
      /\ entered = c.entered /\ spent = c.spent /\ debugged = TRUE
      /\ seen_uid_not_found = 0
      /\ seen_checkpoint_not_found = IF op = "debug" THEN c.seen_checkpoint_not_found ELSE 0
      /\ \A tr \in Transitions : count[tr] = 0
      /\ \A tr \in Transitions :
           duration[tr] = IF op = "debug" THEN c.duration[tr] ELSE CarbonReset(c.duration[tr])
  BY <1>3, SnapshotIs DEF ReportFrom, SameJourneys
<1>6. /\ c'.uids = c.uids /\ c'.clock = c.clock /\ c'.calls = c.calls
      /\ c'.entered = c.entered /\ c'.spent = c.spent /\ c'.debugged = (op # "carbon")
      /\ c'.seen_uid_not_found = 0
      /\ c'.seen_checkpoint_not_found = seen_checkpoint_not_found
      /\ c'.count = count /\ c'.duration = duration /\ c'.reported = reported
  BY <1>4, <1>5, SnapshotIs DEF counters, journeys
<1>7. count = Zero
  BY <1>5 DEF TypeOK, Zero
<1>8. Counted = 0
  BY <1>5, CountedType, SumZero DEF Counted
<1>9. c.count \in [Transitions -> Nat] /\ c.duration \in [Transitions -> Measures]
      /\ duration \in [Transitions -> Measures]
      /\ c.seen_uid_not_found \in Nat /\ c.seen_checkpoint_not_found \in Nat
      /\ c.reported \in Nat /\ reported \in Nat
  BY DEF CommittedOK, Atomic!TypeOK, TypeOK, Measures
<1>10. Atomic!Counted \in Int
  <2>1. IsFiniteSet(Transitions) /\ c.count \in [Transitions -> Int]
    BY <1>9, CountedType
  <2>2. SumFunctionOnSet(c.count, Transitions) \in Int
    BY <2>1, SumType
  <2> QED
    BY <2>2, AtomicSum DEF Atomic!Counted
<1>11. /\ calls = reported + seen_uid_not_found + seen_checkpoint_not_found + Counted
       /\ c.calls = c.reported + c.seen_uid_not_found + c.seen_checkpoint_not_found
                      + Atomic!Counted
  BY DEF EachCallIsCounted, CommittedOK, Atomic!EachCallIsCounted
<1>12. CASE op = "carbon"
  <2>1. reported = c.reported + c.seen_uid_not_found + c.seen_checkpoint_not_found
                     + Atomic!Counted
    <3>1. seen_uid_not_found = 0 /\ seen_checkpoint_not_found = 0 /\ calls = c.calls
      BY <1>5, <1>12
    <3> QED
      BY <1>8, <1>9, <1>11, <3>1
  <2>2. duration = [tr \in Transitions |-> CarbonReset(c.duration[tr])]
    BY <1>5, <1>9, <1>12
  <2>3. Atomic!SerializeCarbon
    BY <1>5, <1>6, <1>7, <1>12, <2>1, <2>2, AtomicOperators
       DEF Atomic!SerializeCarbon, Atomic!journeys
  <2> QED
    BY <2>3 DEF Atomic!Next
<1>13. CASE op = "debug"
  <2>1. reported = c.reported + c.seen_uid_not_found + Atomic!Counted
    <3>1. /\ seen_uid_not_found = 0 /\ calls = c.calls
          /\ seen_checkpoint_not_found = c.seen_checkpoint_not_found
      BY <1>5, <1>13
    <3>2. reported + c.seen_checkpoint_not_found
            = c.reported + c.seen_uid_not_found + Atomic!Counted + c.seen_checkpoint_not_found
      BY <1>8, <1>9, <1>10, <1>11, <3>1
    <3> QED
      BY <1>9, <1>10, <3>2
  <2>2. duration = c.duration
    BY <1>5, <1>9, <1>13
  <2>3. Atomic!SerializeDebug
    BY <1>5, <1>6, <1>7, <1>13, <2>1, <2>2, AtomicOperators
       DEF Atomic!SerializeDebug, Atomic!journeys
  <2> QED
    BY <2>3 DEF Atomic!Next
<1> QED
  BY <1>12, <1>13 DEF ReportOps

(* Every step of the threads is one of Correlator, or changes nothing that  *)
(* is visible when no thread holds the mutex.                               *)
LEMMA StepsAreAtomic ==
  TypeOK /\ CallsOK /\ EachCallIsCounted /\ CommittedOK /\ Progress /\ [TNext]_tvars
    => [Atomic!Next]_(Atomic!vars)
<1> SUFFICES ASSUME TypeOK, CallsOK, EachCallIsCounted, CommittedOK, Progress, [TNext]_tvars
             PROVE  Atomic!Next \/ UNCHANGED Atomic!vars
  OBVIOUS
<1>1. CASE committed' = committed
  BY <1>1 DEF Atomic!vars, Atomic!counters, Atomic!journeys
<1>2. ASSUME NEW t \in Threads, Unlock(t) PROVE Atomic!Next
  <2>1. call[t].op \in RequestOps \cup ReportOps
    BY <1>2, CallKinds DEF Unlock
  <2> QED
    BY <1>2, <2>1, RequestIsAStep, ReportIsAStep
<1> QED
  BY <1>1, <1>2, OnlyUnlockCommits

(* With _data_mutex held from the first to the last statement, each method  *)
(* of the correlator is one step: what other threads can see between the    *)
(* methods behaves as Correlator says, whichever statements of in(),        *)
(* seen(), out() and the reports come when and whichever write fails.       *)
THEOREM MethodsAreAtomic == TSpec => ImplementsAtomic
<1>1. TInit => EachCallIsCounted /\ JourneysKnown /\ CommittedOK /\ Progress /\ Atomic!Init
  <2> SUFFICES ASSUME TInit
               PROVE  EachCallIsCounted /\ JourneysKnown /\ CommittedOK /\ Progress /\ Atomic!Init
    OBVIOUS
  <2>1. TypeOK /\ EachCallIsCounted /\ \A t \in Threads : call[t] = None
    BY Beginning
  <2>2. \A t \in Threads : call[t].op = "none"
    BY <2>1 DEF None
  <2>3. DOMAIN uids = {} /\ DOMAIN entered = {} /\ DOMAIN spent = {}
    BY DEF TInit, Init
  <2>4. JourneysKnown
    BY <2>2, <2>3 DEF JourneysKnown, AtInsert
  <2>5. Progress
    BY <2>2 DEF TInit, Progress, Follows, ReportOps
  <2>6. Committed
    BY DEF TInit, Snapshot, Committed
  <2>7. Atomic!TypeOK
    BY <2>1, <2>6 DEF Committed, TypeOK, Atomic!TypeOK
  <2>8. Atomic!Counted = Counted
    BY <2>6, AtomicSum DEF Committed, Counted, Atomic!Counted
  <2>9. Atomic!EachCallIsCounted
    BY <2>1, <2>6, <2>8 DEF Committed, EachCallIsCounted, Atomic!EachCallIsCounted
  <2>10. CommittedOK
    BY <2>3, <2>6, <2>7, <2>9 DEF CommittedOK, Committed
  <2>11. Atomic!Init
    BY <2>6, AtomicOperators DEF Committed, TInit, Init, Atomic!Init
  <2> QED
    BY <2>1, <2>4, <2>5, <2>10, <2>11
<1>2. TypeOK /\ CallsOK /\ JourneysKnown /\ [TNext]_tvars => JourneysKnown'
  BY JourneysKept
<1>3. TypeOK /\ CallsOK /\ EachCallIsCounted /\ JourneysKnown /\ CommittedOK /\ [TNext]_tvars
        => CommittedOK'
  BY CommittedKept
<1>4. TypeOK /\ CallsOK /\ CommittedOK /\ Progress /\ [TNext]_tvars => Progress'
  BY ProgressKept
<1>5. TypeOK /\ CallsOK /\ EachCallIsCounted /\ CommittedOK /\ Progress /\ [TNext]_tvars
        => [Atomic!Next]_(Atomic!vars)
  BY StepsAreAtomic
<1> QED
  BY <1>1, <1>2, <1>3, <1>4, <1>5, TypeCorrect, CallsAreCounted, PTL
     DEF TSpec, ImplementsAtomic, Atomic!Spec
=============================================================================
