----------------------------- MODULE PipelineProofs -----------------------------
(***************************************************************************)
(* Proofs about the pipeline of threads, Pipeline, for every number of      *)
(* requests and stages, every size of the queues and any clock: whatever    *)
(* way the requests take and however the threads interleave, the correlator *)
(* knows a request exactly as long as it is in a queue or in the hands of a *)
(* thread, and it knows every step the request takes.                       *)
(***************************************************************************)
EXTENDS Pipeline, FiniteSetTheorems, SequenceTheorems, TLAPS

-----------------------------------------------------------------------------
(* Values of the variables that only the pipeline has. *)
PTypeOK ==
  /\ queue \in [Queues -> Seq(0..Requests)]
  /\ \A q \in Queues : Len(queue[q]) <= QueueSize
  /\ state \in [Threads -> {"get", "put", "end1", "end2", "done"}]
  /\ item \in [Threads -> 0..Requests]
  /\ \A t \in 0..Stages : state[t] = "put" => item[t] \in Uids

(* Each known request is in one place or has one carrier, no other is       *)
(* anywhere.                                                                *)
OnItsWay(c) ==
  /\ c \in DOMAIN uids =>
       \/ Carriers(c) = {} /\ \E p : Places(c) = {p}
       \/ Places(c) = {} /\ \E t : Carriers(c) = {t}
  /\ c \notin DOMAIN uids => Places(c) = {} /\ Carriers(c) = {}

(* The last checkpoint of a request is that of the thread that has it, or   *)
(* that pushed it: of the one stage before its queue, and of any stage in   *)
(* queue_out.                                                               *)
At(c, k) == c \in DOMAIN uids /\ uids[c].at = k

Located(c) ==
  /\ \A t \in Carriers(c) : At(c, t)
  /\ \A p \in Places(c) :
       IF p[1] = OutQueue THEN \E k \in 1..Stages : At(c, k) ELSE At(c, p[1])

(* The inductive invariant. *)
WayOK ==
  /\ PTypeOK
  /\ \A c \in Uids : OnItsWay(c) /\ Located(c)
  /\ DOMAIN uids \subseteq 1..item[0]
  /\ EveryStepIsKnown

(* The places after a push ... *)
LEMMA PushPlaces ==
  ASSUME PTypeOK, NEW q \in Queues, NEW c \in 0..Requests, Push(q, c)
  PROVE  /\ queue' \in [Queues -> Seq(0..Requests)]
         /\ \A r \in Queues : Len(queue'[r]) <= QueueSize
         /\ \A d : d # c => Places(d)' = Places(d)
         /\ \E i : Places(c)' = Places(c) \cup {<< q, i >>}
<1> DEFINE n == Len(queue[q]) + 1
<1>0. QueueSize \in Nat
  BY PipelineAssumption DEF PipelineAssumption
<1>1. /\ queue[q] \in Seq(0..Requests) /\ n \in 1..QueueSize
      /\ queue' = [queue EXCEPT ![q] = Append(@, c)]
  BY <1>0 DEF PTypeOK, Push
<1>2. /\ queue'[q] = Append(queue[q], c)
      /\ \A r \in Queues : r # q => queue'[r] = queue[r]
  BY <1>1 DEF PTypeOK
<1>3. /\ Append(queue[q], c) \in Seq(0..Requests)
      /\ Len(queue'[q]) = n /\ queue'[q][n] = c
      /\ \A i \in 1..(n - 1) : queue'[q][i] = queue[q][i]
  BY <1>1, <1>2
<1>4. queue' \in [Queues -> Seq(0..Requests)] /\ \A r \in Queues : Len(queue'[r]) <= QueueSize
  BY <1>1, <1>2, <1>3 DEF PTypeOK
<1>5. \A p \in Queues \X (1..QueueSize) :
        /\ p[1] \in Queues /\ p[2] \in 1..QueueSize /\ p = << p[1], p[2] >>
        /\ p[2] <= Len(queue'[p[1]]) <=> p[2] <= Len(queue[p[1]]) \/ p = << q, n >>
        /\ p = << q, n >> => queue'[p[1]][p[2]] = c /\ ~ p[2] <= Len(queue[p[1]])
        /\ p[2] <= Len(queue[p[1]]) => queue'[p[1]][p[2]] = queue[p[1]][p[2]]
  <2> TAKE p \in Queues \X (1..QueueSize)
  <2>1. p[1] \in Queues /\ p[2] \in 1..QueueSize /\ p = << p[1], p[2] >>
    OBVIOUS
  <2>2. p = << q, n >> <=> p[1] = q /\ p[2] = n
    BY <2>1
  <2>3. Len(queue[q]) \in Nat /\ Len(queue[p[1]]) \in Nat
    BY <1>1, <2>1 DEF PTypeOK
  <2> QED
    BY <1>0, <1>1, <1>2, <1>3, <2>1, <2>2, <2>3
<1>6. \A d : \A p \in Queues \X (1..QueueSize) :
        p \in Places(d)' <=> p \in Places(d) \/ (p = << q, n >> /\ d = c)
  BY <1>5 DEF Places
<1>7. << q, n >> \in Queues \X (1..QueueSize)
  BY <1>1
<1>8. \A d : Places(d) \subseteq Queues \X (1..QueueSize)
             /\ Places(d)' \subseteq Queues \X (1..QueueSize)
  BY DEF Places, Queues, OutQueue
<1>9. ASSUME NEW d, d # c PROVE Places(d)' = Places(d)
  <2> DEFINE old == Places(d)
             new == Places(d)'
  <2>1. /\ old \subseteq Queues \X (1..QueueSize) /\ new \subseteq Queues \X (1..QueueSize)
        /\ \A p \in Queues \X (1..QueueSize) : p \in new <=> p \in old
    BY <1>6, <1>8, <1>9
  <2> HIDE DEF old, new
  <2>2. new = old
    BY <2>1
  <2> QED
    BY <2>2 DEF old, new
<1>10. Places(c)' = Places(c) \cup {<< q, n >>}
  BY <1>6, <1>7, <1>8
<1> QED
  BY <1>4, <1>9, <1>10

(* ... and after a pop(). *)
LEMMA PopPlaces ==
  ASSUME PTypeOK, NEW q \in Queues, Pop(q), NEW c, c = Head(queue[q])
  PROVE  /\ c \in 0..Requests /\ << q, 1 >> \in Places(c)
         /\ queue' \in [Queues -> Seq(0..Requests)]
         /\ \A r \in Queues : Len(queue'[r]) <= QueueSize
         /\ \A d : \A p \in Places(d)' : \E o \in Places(d) : o[1] = p[1]
         /\ \A d : \A p : Places(d) = {p} /\ d # c => \E o : Places(d)' = {o}
         /\ \A p : Places(c) = {p} => Places(c)' = {}
<1> DEFINE All == Queues \X (1..QueueSize)
<1>0. QueueSize \in Nat
  BY PipelineAssumption DEF PipelineAssumption
<1>1. /\ queue[q] \in Seq(0..Requests) /\ queue[q] # << >>
      /\ queue' = [queue EXCEPT ![q] = Tail(@)]
  BY DEF PTypeOK, Pop
<1>2. /\ Len(queue[q]) \in Nat /\ Len(queue[q]) # 0 /\ Len(queue[q]) <= QueueSize
      /\ Len(queue[q]) \in 1..QueueSize /\ queue[q][1] = c /\ c \in 0..Requests
      /\ Tail(queue[q]) \in Seq(0..Requests) /\ Len(Tail(queue[q])) = Len(queue[q]) - 1
      /\ \A i \in 1..(Len(queue[q]) - 1) : Tail(queue[q])[i] = queue[q][i + 1]
  <2> DEFINE s == queue[q]
  <2>1. s \in Seq(0..Requests) /\ s # << >> /\ Len(s) <= QueueSize /\ c = Head(s)
    BY <1>1 DEF PTypeOK
  <2> HIDE DEF s
  <2>2. Len(s) \in Nat /\ Len(s) # 0 /\ Len(s) \in 1..QueueSize
    BY <1>0, <2>1
  <2>3. s[1] = c /\ c \in 0..Requests
    <3>1. Head(s) \in 0..Requests
      BY <2>1, HeadTailProperties
    <3>2. Head(s) = s[1]
      BY <2>1, <2>2
    <3> QED
      BY <2>1, <3>1, <3>2
  <2>4. /\ Tail(s) \in Seq(0..Requests) /\ Len(Tail(s)) = Len(s) - 1
        /\ \A i \in 1..(Len(s) - 1) : Tail(s)[i] = s[i + 1]
    BY <2>1, <2>2
  <2> QED
    BY <2>1, <2>2, <2>3, <2>4 DEF s
<1>3. /\ queue'[q] = Tail(queue[q])
      /\ \A r \in Queues : r # q => queue'[r] = queue[r]
  BY <1>1 DEF PTypeOK
<1>4. queue' \in [Queues -> Seq(0..Requests)] /\ \A r \in Queues : Len(queue'[r]) <= QueueSize
  BY <1>0, <1>1, <1>2, <1>3 DEF PTypeOK
<1>5. \A p \in All :
        /\ p[1] \in Queues /\ p[2] \in 1..QueueSize /\ p = << p[1], p[2] >>
        /\ p[1] # q => /\ Len(queue'[p[1]]) = Len(queue[p[1]])
                       /\ queue'[p[1]][p[2]] = queue[p[1]][p[2]]
        /\ p[1] = q => /\ p[2] <= Len(queue'[q]) <=> p[2] + 1 <= Len(queue[q])
                       /\ p[2] <= Len(queue'[q]) => /\ p[2] + 1 \in 1..QueueSize
                                                    /\ queue'[q][p[2]] = queue[q][p[2] + 1]
  <2> TAKE p \in All
  <2>1. p[1] \in Queues /\ p[2] \in 1..QueueSize /\ p = << p[1], p[2] >>
    OBVIOUS
  <2> QED
    BY <1>0, <1>2, <1>3, <2>1
<1>6. \A p \in All : \A d :
        /\ p[1] # q => (p \in Places(d)' <=> p \in Places(d))
        /\ p[1] = q => (p \in Places(d)' <=> << q, p[2] + 1 >> \in Places(d))
  <2> TAKE p \in All
  <2> TAKE d
  <2>1. CASE p[1] # q
    BY <1>5, <2>1 DEF Places
  <2>2. CASE p[1] = q
    <3>1. p \in Places(d)' <=> p[2] <= Len(queue'[q]) /\ queue'[q][p[2]] = d
      BY <2>2 DEF Places
    <3>2. << q, p[2] + 1 >> \in Places(d)
            <=> p[2] + 1 \in 1..QueueSize /\ p[2] + 1 <= Len(queue[q]) /\ queue[q][p[2] + 1] = d
      BY DEF Places
    <3> QED
      BY <1>5, <2>2, <3>1, <3>2
  <2> QED
    BY <2>1, <2>2
<1>7. \A d : Places(d) \subseteq All /\ Places(d)' \subseteq All
  BY DEF Places, Queues, OutQueue
<1>8. << q, 1 >> \in Places(c)
  <2>1. 1 \in 1..QueueSize /\ 1 <= Len(queue[q])
    BY <1>0, <1>2
  <2> QED
    BY <1>2, <2>1 DEF Places
<1>9. ASSUME NEW d, NEW p \in Places(d)' PROVE \E o \in Places(d) : o[1] = p[1]
  <2>1. p \in All
    BY <1>7
  <2>2. CASE p[1] # q
    BY <1>6, <2>1, <2>2
  <2>3. CASE p[1] = q
    <3>1. << q, p[2] + 1 >> \in Places(d)
      BY <1>6, <2>1, <2>3
    <3>2. << q, p[2] + 1 >>[1] = p[1]
      BY <2>3
    <3> QED
      BY <3>1, <3>2
  <2> QED
    BY <2>2, <2>3
<1>10. ASSUME NEW d, NEW p, Places(d) = {p}, d # c PROVE \E o : Places(d)' = {o}
  <2>1. p \in All /\ p \in Places(d)
    BY <1>7, <1>10
  <2>2. CASE p[1] # q
    <3>1. p \in Places(d)'
      BY <1>6, <2>1, <2>2
    <3>2. ASSUME NEW o \in Places(d)' PROVE o = p
      <4>1. o \in All
        BY <1>7
      <4>2. o[1] # q
        <5> SUFFICES ASSUME o[1] = q PROVE FALSE
          OBVIOUS
        <5>1. << q, o[2] + 1 >> = p
          BY <1>6, <1>10, <4>1
        <5> QED
          BY <5>1, <2>2
      <4> QED
        BY <1>6, <1>10, <4>1, <4>2
    <3>3. Places(d)' = {p}
      BY <3>1, <3>2
    <3> QED
      BY <3>3
  <2>3. CASE p[1] = q
    <3>1. p[2] # 1
      <4> SUFFICES ASSUME p[2] = 1 PROVE FALSE
        OBVIOUS
      <4>1. p = << q, 1 >>
        BY <1>5, <2>1, <2>3
      <4>2. queue[q][1] = d
        BY <2>1, <4>1 DEF Places
      <4> QED
        BY <4>2, <1>2, <1>10
    <3> DEFINE o == << q, p[2] - 1 >>
    <3>2. o \in All /\ o[1] = q /\ << q, o[2] + 1 >> = p
      BY <1>0, <1>5, <2>1, <2>3, <3>1
    <3>3. o \in Places(d)'
      BY <1>6, <2>1, <3>2
    <3>4. ASSUME NEW x \in Places(d)' PROVE x = o
      <4>1. x \in All
        BY <1>7
      <4>2. x[1] = q
        <5> SUFFICES ASSUME x[1] # q PROVE FALSE
          OBVIOUS
        <5>1. x = p
          BY <1>6, <1>10, <4>1
        <5> QED
          BY <5>1, <2>3
      <4>3. << q, x[2] + 1 >> = p
        BY <1>6, <1>10, <4>1, <4>2
      <4>4. x[2] \in 1..QueueSize /\ x = << x[1], x[2] >> /\ p[2] = x[2] + 1
        BY <1>5, <4>1, <4>3
      <4>5. x[2] = p[2] - 1
        BY <1>0, <4>4
      <4> QED
        BY <4>2, <4>4, <4>5
    <3>5. Places(d)' = {o}
      BY <3>3, <3>4
    <3> QED
      BY <3>5
  <2> QED
    BY <2>2, <2>3
<1>11. ASSUME NEW p, Places(c) = {p} PROVE Places(c)' = {}
  <2>1. p = << q, 1 >>
    BY <1>8, <1>11
  <2>2. ASSUME NEW o \in Places(c)' PROVE FALSE
    <3>1. o \in All
      BY <1>7
    <3>2. CASE o[1] # q
      <4>1. o = p
        BY <1>6, <1>11, <3>1, <3>2
      <4> QED
        BY <4>1, <2>1, <3>2
    <3>3. CASE o[1] = q
      <4>1. << q, o[2] + 1 >> = << q, 1 >>
        BY <1>6, <1>11, <2>1, <3>1, <3>3
      <4>2. o[2] + 1 = 1
        BY <4>1
      <4> QED
        BY <1>0, <1>5, <3>1, <4>2
    <3> QED
      BY <3>2, <3>3
  <2> QED
    BY <2>2
<1> QED
  BY <1>2, <1>4, <1>8, <1>9, <1>10, <1>11

-----------------------------------------------------------------------------
(* What in(), seen() and out() do with the requests that are known.         *)
Moved(c, k) ==
  /\ uids'[c].at = k /\ DOMAIN uids' = DOMAIN uids \cup {c}
  /\ \A d \in DOMAIN uids : d # c => uids'[d] = uids[d]
  /\ UNCHANGED << seen_uid_not_found, seen_checkpoint_not_found >>

Gone(c) ==
  /\ DOMAIN uids' = DOMAIN uids \ {c}
  /\ \A d \in DOMAIN uids : d # c => uids'[d] = uids[d]
  /\ UNCHANGED << seen_uid_not_found, seen_checkpoint_not_found >>

(* in_locked() puts the request c at k and leaves the others.               *)
LEMMA InsertedAt ==
  ASSUME NEW c, NEW k, NEW now, InLocked(c, k, now)
  PROVE  /\ uids'[c].at = k /\ DOMAIN uids' = DOMAIN uids \cup {c}
         /\ \A d \in DOMAIN uids : d # c => uids'[d] = uids[d]
<1> DEFINE f == Erased(uids, c)
<1>1. /\ DOMAIN f = DOMAIN uids \ {c}
      /\ \A d \in DOMAIN uids : d # c => f[d] = uids[d]
  BY DEF Erased, Without, Restrict
<1>2. uids' = With(f, c, [at |-> k, since |-> now])
  BY <1>1 DEF InLocked, Inserted
<1> HIDE DEF f
<1>3. /\ DOMAIN uids' = DOMAIN f \cup {c} /\ uids'[c] = [at |-> k, since |-> now]
      /\ \A d \in DOMAIN f : d # c => uids'[d] = f[d]
  BY <1>2 DEF With
<1> QED
  BY <1>1, <1>3

(* Enough for a step to keep the invariant: the request c is as it should   *)
(* be, and each other request stays where it is, but for its place in line. *)
LEMMA WayKept ==
  ASSUME WayOK, NEW c, PTypeOK', EveryStepIsKnown', DOMAIN uids' \subseteq 1..item'[0],
         c \in Uids => OnItsWay(c)' /\ Located(c)',
         \A d \in Uids : d # c =>
           /\ Carriers(d)' = Carriers(d)
           /\ \A p \in Places(d)' : \E o \in Places(d) : o[1] = p[1]
           /\ \A p : Places(d) = {p} => \E o : Places(d)' = {o}
           /\ d \in DOMAIN uids' <=> d \in DOMAIN uids
           /\ d \in DOMAIN uids => uids'[d] = uids[d]
  PROVE  WayOK'
<1>1. ASSUME NEW d \in Uids, d # c PROVE OnItsWay(d)' /\ Located(d)'
  <2>1. /\ Carriers(d)' = Carriers(d)
        /\ \A p \in Places(d)' : \E o \in Places(d) : o[1] = p[1]
        /\ \A p : Places(d) = {p} => \E o : Places(d)' = {o}
        /\ d \in DOMAIN uids' <=> d \in DOMAIN uids
        /\ \A k : At(d, k)' <=> At(d, k)
    BY <1>1 DEF At
  <2>2. OnItsWay(d) /\ Located(d)
    BY DEF WayOK
  <2>3. Places(d) = {} => Places(d)' = {}
    BY <2>1
  <2>4. OnItsWay(d)'
    BY <2>1, <2>2, <2>3 DEF OnItsWay
  <2>5. ASSUME NEW p \in Places(d)'
        PROVE  IF p[1] = OutQueue THEN \E k \in 1..Stages : At(d, k)' ELSE At(d, p[1])'
    <3>1. PICK o \in Places(d) : o[1] = p[1]
      BY <2>1
    <3> QED
      BY <2>1, <2>2, <3>1 DEF Located
  <2>6. Located(d)'
    BY <2>1, <2>2, <2>5 DEF Located, OutQueue
  <2> QED
    BY <2>4, <2>6
<1> QED
  BY <1>1 DEF WayOK

(* Who carries what after the thread t went on to s with x in its hands.    *)
LEMMA CarriersAfter ==
  ASSUME PTypeOK, NEW t \in 0..Stages, NEW s, NEW x,
         state' = [state EXCEPT ![t] = s], item' = [item EXCEPT ![t] = x]
  PROVE  \A d : /\ s = "put" /\ x = d => Carriers(d)' = Carriers(d) \cup {t}
                /\ ~(s = "put" /\ x = d) => Carriers(d)' = Carriers(d) \ {t}
<1> TAKE d
<1>0. \A r \in 0..Stages : r \in Threads
  BY PipelineAssumption DEF PipelineAssumption, Threads, Main
<1>1. /\ state'[t] = s /\ item'[t] = x
      /\ \A r \in 0..Stages : r # t => state'[r] = state[r] /\ item'[r] = item[r]
  BY <1>0 DEF PTypeOK
<1>2. \A r \in 0..Stages : r \in Carriers(d)' <=> state'[r] = "put" /\ item'[r] = d
  BY DEF Carriers
<1>3. \A r \in 0..Stages : r \in Carriers(d) <=> state[r] = "put" /\ item[r] = d
  BY DEF Carriers
<1>4. Carriers(d)' \subseteq 0..Stages /\ Carriers(d) \subseteq 0..Stages
  BY DEF Carriers
<1> DEFINE old == Carriers(d)
           new == Carriers(d)'
<1>5. \A r \in 0..Stages : r # t => (r \in new <=> r \in old)
  BY <1>1, <1>2, <1>3
<1>6. t \in new <=> s = "put" /\ x = d
  BY <1>1, <1>2
<1> HIDE DEF old, new
<1>7. new \subseteq 0..Stages /\ old \subseteq 0..Stages
  BY <1>4 DEF old, new
<1>8. /\ t \in new => new = old \cup {t}
      /\ t \notin new => new = old \ {t}
  BY <1>5, <1>7
<1> QED
  BY <1>6, <1>8 DEF old, new

(* A thread that goes on to something else than put lets go of its request. *)
LEMMA LetGo ==
  ASSUME PTypeOK, NEW t \in 0..Stages, NEW s, s # "put",
         state' = [state EXCEPT ![t] = s], item' = item
  PROVE  \A d : Carriers(d)' = Carriers(d) \ {t}
<1>1. t \in Threads
  BY PipelineAssumption DEF PipelineAssumption, Threads, Main
<1>2. PICK x : x = item[t]
  OBVIOUS
<1>3. item' = [item EXCEPT ![t] = x]
  BY <1>1, <1>2 DEF PTypeOK
<1>4. \A d : ~(s = "put" /\ x = d) => Carriers(d)' = Carriers(d) \ {t}
  BY <1>3, CarriersAfter
<1> QED
  BY <1>4

(* in() puts the request at its checkpoint.                                 *)
LEMMA InMoves ==
  ASSUME NEW c, NEW k, In(c, k)
  PROVE  Moved(c, k)
BY InsertedAt DEF In, Moved, counters

(* A configured step of a known request adds to neither not_found counter.  *)
LEMMA StepIsKnown ==
  ASSUME NEW c, NEW k, NEW now, c \in DOMAIN uids, << uids[c].at, k >> \in Transitions,
         SeenLocked(c, k, now)
  PROVE  UNCHANGED << seen_uid_not_found, seen_checkpoint_not_found >>
BY DEF SeenLocked

(* seen() puts a known request at its checkpoint, if the step is configured.*)
LEMMA SeenMoves ==
  ASSUME NEW c, NEW k, c \in DOMAIN uids, << uids[c].at, k >> \in Transitions, Seen(c, k)
  PROVE  Moved(c, k)
<1>1. PICK now, later : SeenLocked(c, k, now) /\ InLocked(c, k, later)
  BY DEF Seen
<1> QED
  BY <1>1, StepIsKnown, InsertedAt DEF Moved

(* out() removes a known request, if the step is configured.                *)
LEMMA OutRemoves ==
  ASSUME NEW c, NEW k, c \in DOMAIN uids, << uids[c].at, k >> \in Transitions, Out(c, k)
  PROVE  Gone(c)
<1>1. PICK now : SeenLocked(c, k, now) /\ uids' = Erased(uids, c)
  BY DEF Out
<1>2. /\ DOMAIN uids' = DOMAIN uids \ {c}
      /\ \A d \in DOMAIN uids : d # c => uids'[d] = uids[d]
  BY <1>1 DEF Erased, Without, Restrict
<1> QED
  BY <1>1, <1>2, StepIsKnown DEF Gone

(* Numbers of threads and queues. *)
LEMMA Numbers ==
  /\ Stages \in Nat /\ Stages >= 1 /\ Requests \in Nat /\ Uids = 1..Requests
  /\ 0..Stages \subseteq Threads /\ {Out1, Out2, Main} \subseteq Threads
  /\ \A k \in 0..Stages : k \in Queues /\ k # OutQueue /\ k # Out1 /\ k # Out2 /\ k # Main
  /\ OutQueue \in Queues
  /\ \A k \in 1..Stages : k - 1 \in 0..Stages /\ << k - 1, k >> \in Transitions
                          /\ << k, Stages + 1 >> \in Transitions
<1>1. /\ Stages \in Nat /\ Stages >= 1 /\ Requests \in Nat /\ Uids = 1..Requests
      /\ Transitions = {<< k - 1, k >> : k \in 1..Stages}
                         \cup {<< k, Stages + 1 >> : k \in 1..Stages}
  BY PipelineAssumption DEF PipelineAssumption
<1> QED
  BY <1>1 DEF Threads, Queues, OutQueue, Out1, Out2, Main

(* Enter: f_in gets a number that no request had.                           *)
LEMMA AfterEnter ==
  ASSUME WayOK, Enter
  PROVE  WayOK'
<1>1. /\ PTypeOK /\ EveryStepIsKnown /\ DOMAIN uids \subseteq 1..item[0]
      /\ 0 \in 0..Stages /\ item[0] \in 0..Requests
  BY Numbers DEF WayOK, PTypeOK
<1>2. PICK c : c = item[0] + 1
  OBVIOUS
<1>3. /\ state[0] = "get" /\ c <= Requests /\ In(c, 0)
      /\ item' = [item EXCEPT ![0] = c] /\ state' = [state EXCEPT ![0] = "put"]
      /\ UNCHANGED queue
  BY <1>2 DEF Enter, Goto
<1>4. c \in Uids /\ c \in 0..Requests /\ c \notin DOMAIN uids /\ item'[0] = c
  BY <1>1, <1>2, <1>3, Numbers DEF PTypeOK
<1>5. Moved(c, 0)
  BY <1>3, InMoves
<1>6. PTypeOK'
  BY <1>1, <1>3, <1>4, Numbers DEF PTypeOK
<1>7. \A d : Places(d)' = Places(d)
  BY <1>3 DEF Places
<1>8. \A d : /\ d = c => Carriers(d)' = Carriers(d) \cup {0}
             /\ d # c => Carriers(d)' = Carriers(d) \ {0}
             /\ 0 \notin Carriers(d)
  <2>1. \A d : /\ d = c => Carriers(d)' = Carriers(d) \cup {0}
               /\ d # c => Carriers(d)' = Carriers(d) \ {0}
    BY <1>1, <1>3, CarriersAfter
  <2>2. \A d : 0 \notin Carriers(d)
    BY <1>3 DEF Carriers
  <2> QED
    BY <2>1, <2>2
<1>9. Places(c)' = {} /\ Carriers(c)' = {0} /\ At(c, 0)' /\ c \in DOMAIN uids'
  <2>1. Places(c) = {} /\ Carriers(c) = {}
    BY <1>4 DEF WayOK, OnItsWay
  <2> QED
    BY <1>5, <1>7, <1>8, <2>1 DEF Moved, At
<1>10. OnItsWay(c)' /\ Located(c)'
  BY <1>9 DEF OnItsWay, Located, At
<1>11. EveryStepIsKnown'
  BY <1>1, <1>5 DEF EveryStepIsKnown, Moved
<1>12. DOMAIN uids' \subseteq 1..item'[0]
  <2>1. \A u \in 1..item[0] : u \in 1..c
    BY <1>1, <1>2
  <2>2. c \in 1..c
    BY <1>4, Numbers
  <2> QED
    BY <1>1, <1>4, <1>5, <2>1, <2>2 DEF Moved
<1>13. \A d \in Uids : d # c =>
         /\ Carriers(d)' = Carriers(d)
         /\ \A p \in Places(d)' : \E o \in Places(d) : o[1] = p[1]
         /\ \A p : Places(d) = {p} => \E o : Places(d)' = {o}
         /\ d \in DOMAIN uids' <=> d \in DOMAIN uids
         /\ d \in DOMAIN uids => uids'[d] = uids[d]
  <2>1. \A d \in Uids : d # c =>
          /\ d \in DOMAIN uids' <=> d \in DOMAIN uids
          /\ d \in DOMAIN uids => uids'[d] = uids[d]
    BY <1>5 DEF Moved
  <2>2. \A d \in Uids : d # c => Carriers(d)' = Carriers(d)
    BY <1>8
  <2> QED
    BY <1>7, <2>1, <2>2
<1> QED
  BY <1>6, <1>10, <1>11, <1>12, <1>13, WayKept

(* PushEntered and HandOn: the thread t, 0 or a stage, pushes what it has.  *)
LEMMA AfterHandOn ==
  ASSUME WayOK, NEW t \in 0..Stages, NEW q \in Queues,
         state[t] = "put", Push(q, item[t]), state' = [state EXCEPT ![t] = "get"],
         UNCHANGED << vars, item >>, q = OutQueue => t \in 1..Stages, q # OutQueue => q = t
  PROVE  WayOK'
<1>1. PTypeOK /\ EveryStepIsKnown /\ DOMAIN uids \subseteq 1..item[0] /\ t \in Threads
  BY Numbers DEF WayOK
<1>2. PICK c : c = item[t]
  OBVIOUS
<1>3. c \in Uids /\ c \in 0..Requests /\ Push(q, c) /\ t \in Carriers(c)
  BY <1>1, <1>2, Numbers DEF PTypeOK, Carriers
<1>4. item' = [item EXCEPT ![t] = c] /\ UNCHANGED << uids, item >> /\ item'[0] = item[0]
  BY <1>1, <1>2 DEF PTypeOK, vars
<1>5. /\ queue' \in [Queues -> Seq(0..Requests)]
      /\ \A r \in Queues : Len(queue'[r]) <= QueueSize
      /\ \A d : d # c => Places(d)' = Places(d)
      /\ \E i : Places(c)' = Places(c) \cup {<< q, i >>}
  BY <1>1, <1>3, PushPlaces
<1>6. PTypeOK'
  <2>1. /\ state' \in [Threads -> {"get", "put", "end1", "end2", "done"}]
        /\ \A r \in 0..Stages : state'[r] = "put" => state[r] = "put"
    BY <1>1, Numbers DEF PTypeOK
  <2> QED
    BY <1>1, <1>4, <1>5, <2>1 DEF PTypeOK
<1>7. \A d : Carriers(d)' = Carriers(d) \ {t}
  <2>1. item' = item /\ "get" # "put"
    BY <1>4
  <2> QED
    BY <1>1, <2>1, LetGo
<1>8. \A d : d # c => t \notin Carriers(d)
  BY <1>2 DEF Carriers
<1>9. Places(c) = {} /\ Carriers(c) = {t} /\ c \in DOMAIN uids /\ At(c, t)
  BY <1>3 DEF WayOK, OnItsWay, Located
<1>10. PICK i : Places(c)' = {<< q, i >>}
  BY <1>5, <1>9
<1>11. Carriers(c)' = {} /\ At(c, t)'
  BY <1>4, <1>7, <1>9 DEF At
<1>12. OnItsWay(c)'
  BY <1>10, <1>11 DEF OnItsWay, At
<1>13. Located(c)'
  BY <1>10, <1>11 DEF Located, OutQueue
<1>14. EveryStepIsKnown'
  BY <1>1 DEF EveryStepIsKnown, vars, counters
<1>15. \A d \in Uids : d # c =>
         /\ Carriers(d)' = Carriers(d)
         /\ \A p \in Places(d)' : \E o \in Places(d) : o[1] = p[1]
         /\ \A p : Places(d) = {p} => \E o : Places(d)' = {o}
         /\ d \in DOMAIN uids' <=> d \in DOMAIN uids
         /\ d \in DOMAIN uids => uids'[d] = uids[d]
  BY <1>4, <1>5, <1>7, <1>8
<1>16. DOMAIN uids' \subseteq 1..item'[0]
  BY <1>1, <1>4
<1> QED
  BY <1>6, <1>12, <1>13, <1>14, <1>15, <1>16, WayKept

(* Take: stage k gets a request from its queue and tells the correlator.    *)
LEMMA AfterTake ==
  ASSUME WayOK, NEW k \in 1..Stages, Take(k), Head(queue[k - 1]) # 0
  PROVE  WayOK'
<1>1. /\ PTypeOK /\ EveryStepIsKnown /\ DOMAIN uids \subseteq 1..item[0]
      /\ k \in 0..Stages /\ k \in Threads /\ k # 0
      /\ k - 1 \in Queues /\ k - 1 # OutQueue /\ << k - 1, k >> \in Transitions
  <2>1. k - 1 \in 0..Stages /\ << k - 1, k >> \in Transitions
    BY Numbers
  <2>3. k \in 0..Stages /\ k # 0
    OBVIOUS
  <2>2. k \in Threads /\ k - 1 \in Queues /\ k - 1 # OutQueue
    BY <2>1, <2>3, Numbers
  <2> QED
    BY <2>1, <2>2, <2>3 DEF WayOK
<1>2. PICK q, c : q = k - 1 /\ c = Head(queue[q])
  OBVIOUS
<1>3. /\ state[k] = "get" /\ Pop(q) /\ Seen(c, k)
      /\ item' = [item EXCEPT ![k] = c] /\ state' = [state EXCEPT ![k] = "put"]
  BY <1>2 DEF Take, Goto
<1>4. /\ c \in 0..Requests /\ << q, 1 >> \in Places(c)
      /\ queue' \in [Queues -> Seq(0..Requests)]
      /\ \A r \in Queues : Len(queue'[r]) <= QueueSize
      /\ \A d : \A p \in Places(d)' : \E o \in Places(d) : o[1] = p[1]
      /\ \A d : \A p : Places(d) = {p} /\ d # c => \E o : Places(d)' = {o}
      /\ \A p : Places(c) = {p} => Places(c)' = {}
  BY <1>1, <1>2, <1>3, PopPlaces
<1>5. c \in Uids /\ item'[0] = item[0]
  <2>1. c # 0 /\ c \in Uids
    BY <1>2, <1>4, Numbers
  <2>2. 0 \in Threads
    BY Numbers
  <2> QED
    BY <1>1, <1>3, <2>1, <2>2 DEF PTypeOK
<1>6. /\ c \in DOMAIN uids /\ Places(c) = {<< q, 1 >>} /\ Carriers(c) = {}
      /\ uids[c].at = q
  <2>1. OnItsWay(c) /\ Located(c)
    BY <1>5 DEF WayOK
  <2>2. c \in DOMAIN uids /\ Places(c) = {<< q, 1 >>} /\ Carriers(c) = {}
    BY <1>4, <2>1 DEF OnItsWay
  <2>3. << q, 1 >>[1] = q
    OBVIOUS
  <2> QED
    BY <1>1, <1>2, <1>4, <2>1, <2>2, <2>3 DEF Located, At
<1>7. Moved(c, k)
  BY <1>1, <1>2, <1>3, <1>6, SeenMoves
<1>8. PTypeOK'
  <2>1. /\ state' \in [Threads -> {"get", "put", "end1", "end2", "done"}]
        /\ item' \in [Threads -> 0..Requests]
        /\ \A r \in 0..Stages : state'[r] = "put" => item'[r] \in Uids
    BY <1>1, <1>3, <1>4, <1>5, Numbers DEF PTypeOK
  <2> QED
    BY <1>4, <2>1 DEF PTypeOK
<1>9. \A d : /\ d = c => Carriers(d)' = Carriers(d) \cup {k}
             /\ d # c => Carriers(d)' = Carriers(d) \ {k}
             /\ k \notin Carriers(d)
  <2>1. \A d : /\ d = c => Carriers(d)' = Carriers(d) \cup {k}
               /\ d # c => Carriers(d)' = Carriers(d) \ {k}
    BY <1>1, <1>3, CarriersAfter
  <2>2. \A d : k \notin Carriers(d)
    BY <1>3 DEF Carriers
  <2> QED
    BY <2>1, <2>2
<1>10. Places(c)' = {} /\ Carriers(c)' = {k} /\ At(c, k)' /\ c \in DOMAIN uids'
  BY <1>4, <1>6, <1>7, <1>9 DEF Moved, At
<1>11. OnItsWay(c)' /\ Located(c)'
  BY <1>10 DEF OnItsWay, Located, At
<1>12. EveryStepIsKnown'
  BY <1>1, <1>7 DEF EveryStepIsKnown, Moved
<1>13. DOMAIN uids' \subseteq 1..item'[0]
  BY <1>1, <1>5, <1>6, <1>7 DEF Moved
<1>14. \A d \in Uids : d # c =>
         /\ Carriers(d)' = Carriers(d)
         /\ d \in DOMAIN uids' <=> d \in DOMAIN uids
         /\ d \in DOMAIN uids => uids'[d] = uids[d]
  BY <1>7, <1>9 DEF Moved
<1> QED
  BY <1>4, <1>8, <1>11, <1>12, <1>13, <1>14, WayKept

(* Finish: a f_out gets a request from its queue, and it is out.            *)
LEMMA AfterFinish ==
  ASSUME WayOK, NEW t, NEW q \in {OutQueue, Stages}, Finish(t, q), Head(queue[q]) # 0
  PROVE  WayOK'
<1>1. PTypeOK /\ EveryStepIsKnown /\ DOMAIN uids \subseteq 1..item[0] /\ q \in Queues
  BY Numbers DEF WayOK
<1>2. PICK c : c = Head(queue[q])
  OBVIOUS
<1>3. Pop(q) /\ Out(c, Stages + 1) /\ state' = state /\ item' = item
  BY <1>2 DEF Finish
<1>4. /\ c \in 0..Requests /\ << q, 1 >> \in Places(c)
      /\ queue' \in [Queues -> Seq(0..Requests)]
      /\ \A r \in Queues : Len(queue'[r]) <= QueueSize
      /\ \A d : \A p \in Places(d)' : \E o \in Places(d) : o[1] = p[1]
      /\ \A d : \A p : Places(d) = {p} /\ d # c => \E o : Places(d)' = {o}
      /\ \A p : Places(c) = {p} => Places(c)' = {}
  BY <1>1, <1>2, <1>3, PopPlaces
<1>5. c \in Uids
  BY <1>2, <1>4, Numbers
<1>6. /\ c \in DOMAIN uids /\ Places(c) = {<< q, 1 >>} /\ Carriers(c) = {}
      /\ << uids[c].at, Stages + 1 >> \in Transitions
  <2>1. OnItsWay(c) /\ Located(c)
    BY <1>5 DEF WayOK
  <2>2. c \in DOMAIN uids /\ Places(c) = {<< q, 1 >>} /\ Carriers(c) = {}
    BY <1>4, <2>1 DEF OnItsWay
  <2>3. << q, 1 >>[1] = q /\ Stages \in 1..Stages /\ Stages # OutQueue
    BY Numbers DEF OutQueue
  <2>4. \E k \in 1..Stages : At(c, k)
    <3>1. CASE q = OutQueue
      BY <1>4, <2>1, <2>3, <3>1 DEF Located
    <3>2. CASE q = Stages
      BY <1>4, <2>1, <2>3, <3>2 DEF Located
    <3> QED
      BY <3>1, <3>2
  <2> QED
    BY <2>2, <2>4, Numbers DEF At
<1>7. Gone(c)
  BY <1>3, <1>6, OutRemoves
<1>8. PTypeOK'
  BY <1>1, <1>3, <1>4 DEF PTypeOK
<1>9. \A d : Carriers(d)' = Carriers(d)
  BY <1>3 DEF Carriers
<1>10. Places(c)' = {} /\ Carriers(c)' = {} /\ c \notin DOMAIN uids'
  BY <1>4, <1>6, <1>7, <1>9 DEF Gone
<1>11. OnItsWay(c)' /\ Located(c)'
  BY <1>10 DEF OnItsWay, Located
<1>12. EveryStepIsKnown'
  BY <1>1, <1>7 DEF EveryStepIsKnown, Gone
<1>13. DOMAIN uids' \subseteq 1..item'[0]
  BY <1>1, <1>3, <1>7 DEF Gone
<1>14. \A d \in Uids : d # c =>
         /\ Carriers(d)' = Carriers(d)
         /\ d \in DOMAIN uids' <=> d \in DOMAIN uids
         /\ d \in DOMAIN uids => uids'[d] = uids[d]
  BY <1>7, <1>9 DEF Gone
<1> QED
  BY <1>4, <1>8, <1>11, <1>12, <1>13, <1>14, WayKept

(* Steps that move no request: the thread t goes on to s, and at most a 0   *)
(* is pushed or popped.                                                     *)
LEMMA AfterEndStep ==
  ASSUME WayOK, NEW t \in Threads, NEW s \in {"end1", "end2", "done"},
         t \in 0..Stages => state[t] # "put",
         state' = [state EXCEPT ![t] = s], UNCHANGED << uids, item >>, EveryStepIsKnown',
         \/ \E q \in Queues : Push(q, 0)
         \/ \E q \in Queues : Pop(q) /\ Head(queue[q]) = 0
         \/ UNCHANGED queue
  PROVE  WayOK'
<1>1. PTypeOK /\ DOMAIN uids \subseteq 1..item[0] /\ 0 \notin Uids /\ 0 \in 0..Requests
  BY Numbers DEF WayOK
<1>2. /\ state' \in [Threads -> {"get", "put", "end1", "end2", "done"}]
      /\ \A r \in 0..Stages : state'[r] = "put" <=> state[r] = "put"
  BY <1>1, Numbers DEF PTypeOK
<1>3. /\ queue' \in [Queues -> Seq(0..Requests)]
      /\ \A r \in Queues : Len(queue'[r]) <= QueueSize
      /\ \A d \in Uids : \A p \in Places(d)' : \E o \in Places(d) : o[1] = p[1]
      /\ \A d \in Uids : \A p : Places(d) = {p} => \E o : Places(d)' = {o}
  <2>1. CASE \E q \in Queues : Push(q, 0)
    <3>1. PICK q \in Queues : Push(q, 0)
      BY <2>1
    <3>2. /\ queue' \in [Queues -> Seq(0..Requests)]
          /\ \A r \in Queues : Len(queue'[r]) <= QueueSize
          /\ \A d : d # 0 => Places(d)' = Places(d)
      BY <1>1, <3>1, PushPlaces
    <3>3. \A d \in Uids : Places(d)' = Places(d)
      BY <1>1, <3>2
    <3> QED
      BY <3>2, <3>3
  <2>2. CASE \E q \in Queues : Pop(q) /\ Head(queue[q]) = 0
    <3>1. PICK q, c : q \in Queues /\ c = 0 /\ Pop(q) /\ c = Head(queue[q])
      BY <2>2
    <3>2. /\ queue' \in [Queues -> Seq(0..Requests)]
          /\ \A r \in Queues : Len(queue'[r]) <= QueueSize
          /\ \A d : \A p \in Places(d)' : \E o \in Places(d) : o[1] = p[1]
          /\ \A d : \A p : Places(d) = {p} /\ d # c => \E o : Places(d)' = {o}
      BY <1>1, <3>1, PopPlaces
    <3> QED
      BY <1>1, <3>1, <3>2
  <2>3. CASE UNCHANGED queue
    <3>1. \A d : Places(d)' = Places(d)
      BY <2>3 DEF Places
    <3> QED
      BY <1>1, <2>3, <3>1 DEF PTypeOK
  <2> QED
    BY <2>1, <2>2, <2>3
<1>4. PTypeOK'
  BY <1>1, <1>2, <1>3 DEF PTypeOK
<1>5. \A d : Carriers(d)' = Carriers(d)
  BY <1>2 DEF Carriers
<1>6. \A d \in Uids : d # 0 =>
         /\ Carriers(d)' = Carriers(d)
         /\ d \in DOMAIN uids' <=> d \in DOMAIN uids
         /\ d \in DOMAIN uids => uids'[d] = uids[d]
  BY <1>5
<1>7. DOMAIN uids' \subseteq 1..item'[0]
  BY <1>1
<1> QED
  BY <1>1, <1>3, <1>4, <1>6, <1>7, WayKept

(* A stuttering step.                                                       *)
LEMMA AfterNothing ==
  ASSUME WayOK, UNCHANGED pvars
  PROVE  WayOK'
<1>1. UNCHANGED << uids, seen_uid_not_found, seen_checkpoint_not_found, queue, state, item >>
  BY DEF pvars, vars, counters
<1>2. \A d : Places(d)' = Places(d) /\ Carriers(d)' = Carriers(d)
  BY <1>1 DEF Places, Carriers
<1>3. /\ PTypeOK' /\ EveryStepIsKnown' /\ DOMAIN uids' \subseteq 1..item'[0]
      /\ 0 \notin Uids
  BY <1>1, Numbers DEF WayOK, PTypeOK, EveryStepIsKnown
<1> QED
  BY <1>1, <1>2, <1>3, WayKept

(* Every step of the program keeps the invariant.                           *)
LEMMA WayInductive ==
  ASSUME WayOK, [PNext]_pvars
  PROVE  WayOK'
<1>1. PTypeOK /\ EveryStepIsKnown
  BY DEF WayOK
<1>2. ASSUME UNCHANGED vars PROVE UNCHANGED uids /\ EveryStepIsKnown'
  BY <1>1, <1>2 DEF vars, counters, EveryStepIsKnown
<1>3. 0 \in 0..Stages /\ 0 \in Threads /\ 0 \in Queues /\ 0 # OutQueue
  BY Numbers
<1>4. CASE Enter
  BY <1>4, AfterEnter
<1>5. CASE PushEntered
  BY <1>3, <1>5, AfterHandOn DEF PushEntered, Goto
<1>6. CASE PushEnd
  BY <1>2, <1>3, <1>6, AfterEndStep DEF PushEnd, Goto
<1>7. ASSUME NEW k \in 1..Stages, Take(k) PROVE WayOK'
  <2>1. CASE Head(queue[k - 1]) # 0
    BY <1>7, <2>1, AfterTake
  <2>2. CASE Head(queue[k - 1]) = 0
    <3>1. k - 1 \in 0..Stages /\ k \in 0..Stages
      BY Numbers
    <3>2. k - 1 \in Queues /\ k \in Threads
      BY <3>1, Numbers
    <3>3. /\ state[k] = "get" /\ Pop(k - 1) /\ state' = [state EXCEPT ![k] = "end1"]
          /\ UNCHANGED << vars, item >>
      BY <1>7, <2>2 DEF Take, Goto
    <3> QED
      BY <1>2, <2>2, <3>2, <3>3, AfterEndStep
  <2> QED
    BY <2>1, <2>2
<1>8. ASSUME NEW k \in 1..Stages, EndOut(k) \/ EndNext(k) PROVE WayOK'
  <2>1. k \in 0..Stages
    OBVIOUS
  <2>2. k \in Threads /\ k \in Queues /\ OutQueue \in Queues
    BY <2>1, Numbers
  <2>3. CASE EndOut(k)
    BY <1>2, <2>2, <2>3, AfterEndStep DEF EndOut, Goto
  <2>4. CASE EndNext(k)
    BY <1>2, <2>2, <2>4, AfterEndStep DEF EndNext, Goto
  <2> QED
    BY <1>8, <2>3, <2>4
<1>9. ASSUME NEW k \in 1..Stages, NEW q \in Queues, HandOn(k, q) PROVE WayOK'
  <2>1. k \in 0..Stages
    OBVIOUS
  <2>2. /\ state[k] = "put" /\ q \in {OutQueue, k} /\ Push(q, item[k])
        /\ state' = [state EXCEPT ![k] = "get"] /\ UNCHANGED << vars, item >>
    BY <1>9 DEF HandOn, Goto
  <2> QED
    BY <2>1, <2>2, AfterHandOn
<1>10. ASSUME NEW t \in {Out1, Out2}, NEW q \in {OutQueue, Stages}, Finish(t, q) PROVE WayOK'
  <2>1. CASE Head(queue[q]) # 0
    BY <1>10, <2>1, AfterFinish
  <2>2. CASE Head(queue[q]) = 0
    <3>1. t \in Threads /\ q \in Queues
      BY Numbers
    <3>2. /\ state[t] = "get" /\ Pop(q) /\ state' = [state EXCEPT ![t] = "done"]
          /\ UNCHANGED << vars, item >>
      BY <1>10, <2>2 DEF Finish, Goto
    <3> QED
      BY <1>2, <2>2, <3>1, <3>2, AfterEndStep
  <2> QED
    BY <2>1, <2>2
<1>11. CASE FlushAll
  <2>1. /\ state' = [state EXCEPT ![Main] = "done"] /\ UNCHANGED << uids, queue, item >>
        /\ seen_uid_not_found' = 0 /\ seen_checkpoint_not_found' = 0
    BY <1>11 DEF FlushAll, Goto, SerializeCarbon
  <2>2. Main \in Threads /\ Main \notin 0..Stages
    BY Numbers
  <2>3. EveryStepIsKnown'
    BY <2>1 DEF EveryStepIsKnown
  <2> QED
    BY <2>1, <2>2, <2>3, AfterEndStep
<1>12. CASE UNCHANGED pvars
  BY <1>12, AfterNothing
<1> QED
  BY <1>4, <1>5, <1>6, <1>7, <1>8, <1>9, <1>10, <1>11, <1>12
     DEF PNext, ThreadNext, Terminated

(* Nothing is known and nothing is on its way at first.                     *)
LEMMA WayBegins == PInit => WayOK
<1> SUFFICES ASSUME PInit PROVE WayOK
  OBVIOUS
<1>1. /\ uids = << >> /\ seen_uid_not_found = 0 /\ seen_checkpoint_not_found = 0
      /\ queue = [q \in Queues |-> << >>]
      /\ state = [t \in Threads |-> "get"] /\ item = [t \in Threads |-> 0]
  BY DEF PInit, Init
<1>2. DOMAIN uids = {}
  BY <1>1
<1>3. \A q \in Queues : queue[q] = << >> /\ Len(queue[q]) = 0
  BY <1>1
<1>4. PTypeOK
  BY <1>1, <1>3, Numbers, PipelineAssumption DEF PTypeOK, PipelineAssumption
<1>5. \A c : Places(c) = {}
  BY <1>3, PipelineAssumption DEF Places, PipelineAssumption
<1>6. \A c : Carriers(c) = {}
  BY <1>1, Numbers DEF Carriers
<1> QED
  BY <1>1, <1>2, <1>4, <1>5, <1>6 DEF WayOK, OnItsWay, Located, EveryStepIsKnown

(* The inductive invariant holds.                                           *)
LEMMA WayAlways == PSpec => []WayOK
<1>1. PInit => WayOK
  BY WayBegins
<1>2. WayOK /\ [PNext]_pvars => WayOK'
  BY WayInductive
<1> QED
  BY <1>1, <1>2, PTL DEF PSpec

(* EveryStepIsKnown: whatever way a request takes through the stages, the   *)
(* correlator knows it and the transition when a thread calls seen() or     *)
(* out(), so that the two not_found counters stay 0.                        *)
THEOREM StepsAreKnown == PSpec => []EveryStepIsKnown
<1>1. WayOK => EveryStepIsKnown
  BY DEF WayOK
<1> QED
  BY <1>1, WayAlways, PTL

(* KnownIsOnItsWay: a request is in _uids exactly as long as it is in one   *)
(* queue or in the hands of one thread: none is lost, doubled or forgotten. *)
THEOREM KnownAreOnTheirWay == PSpec => []KnownIsOnItsWay
<1>1. WayOK => KnownIsOnItsWay
  <2> SUFFICES ASSUME WayOK, NEW c \in Uids
               PROVE  Cardinality(Places(c)) + Cardinality(Carriers(c))
                        = IF c \in DOMAIN uids THEN 1 ELSE 0
    BY DEF KnownIsOnItsWay
  <2>1. Cardinality({}) = 0 /\ \A x : Cardinality({x}) = 1
    BY FS_EmptySet, FS_Singleton
  <2>2. OnItsWay(c)
    BY DEF WayOK
  <2>3. CASE c \in DOMAIN uids
    <3>1. ASSUME Carriers(c) = {}, NEW p, Places(c) = {p}
          PROVE  Cardinality(Places(c)) = 1 /\ Cardinality(Carriers(c)) = 0
      BY <2>1, <3>1
    <3>2. ASSUME Places(c) = {}, NEW t, Carriers(c) = {t}
          PROVE  Cardinality(Places(c)) = 0 /\ Cardinality(Carriers(c)) = 1
      BY <2>1, <3>2
    <3>3. \/ Cardinality(Places(c)) = 1 /\ Cardinality(Carriers(c)) = 0
          \/ Cardinality(Places(c)) = 0 /\ Cardinality(Carriers(c)) = 1
      BY <2>2, <2>3, <3>1, <3>2 DEF OnItsWay
    <3> QED
      BY <2>3, <3>3
  <2>4. CASE c \notin DOMAIN uids
    BY <2>1, <2>2, <2>4 DEF OnItsWay
  <2> QED
    BY <2>3, <2>4
<1> QED
  BY <1>1, WayAlways, PTL

(* A step of the pipeline is a call of the correlator or leaves it alone.   *)
LEMMA StepIsCorrelators ==
  ASSUME WayOK, [PNext]_pvars
  PROVE  [Next]_vars
<1>1. PTypeOK
  BY DEF WayOK
<1>2. /\ Requests \in Nat /\ Stages \in Nat /\ 0 \in 0..Stages /\ 0 \in Threads
      /\ Uids = 1..Requests /\ Checkpoints = 0..(Stages + 1)
  BY PipelineAssumption, Numbers DEF PipelineAssumption
<1>3. CASE Enter
  <2>1. item[0] \in 0..Requests
    BY <1>1, <1>2 DEF PTypeOK
  <2>2. item[0] + 1 \in Uids /\ In(item[0] + 1, 0) /\ 0 \in Checkpoints
    BY <1>2, <1>3, <2>1 DEF Enter
  <2> QED
    BY <2>2 DEF Next, Request
<1>4. ASSUME NEW k \in 1..Stages, Take(k) PROVE [Next]_vars
  <2>1. k \in Checkpoints /\ k - 1 \in 0..Stages
    BY <1>2
  <2>2. PICK q, c : q = k - 1 /\ q \in Queues /\ c = Head(queue[q])
    BY <2>1, Numbers
  <2>3. Pop(q)
    BY <1>4, <2>2 DEF Take
  <2>4. c \in 0..Requests
    BY <1>1, <2>2, <2>3, PopPlaces
  <2>5. CASE c = 0
    BY <1>4, <2>2, <2>5 DEF Take
  <2>6. CASE c # 0
    <3>1. c \in Uids /\ Seen(c, k)
      BY <1>2, <1>4, <2>2, <2>4, <2>6 DEF Take
    <3> QED
      BY <2>1, <3>1 DEF Next, Request
  <2> QED
    BY <2>5, <2>6
<1>5. ASSUME NEW t, NEW q \in {OutQueue, Stages}, Finish(t, q) PROVE [Next]_vars
  <2>1. Stages + 1 \in Checkpoints /\ q \in Queues
    BY <1>2, Numbers
  <2>2. PICK c : c = Head(queue[q])
    OBVIOUS
  <2>3. Pop(q)
    BY <1>5 DEF Finish
  <2>4. c \in 0..Requests
    BY <1>1, <2>1, <2>2, <2>3, PopPlaces
  <2>5. CASE c = 0
    BY <1>5, <2>2, <2>5 DEF Finish
  <2>6. CASE c # 0
    <3>1. c \in Uids /\ Out(c, Stages + 1)
      BY <1>2, <1>5, <2>2, <2>4, <2>6 DEF Finish
    <3> QED
      BY <2>1, <3>1 DEF Next, Request
  <2> QED
    BY <2>5, <2>6
<1>6. CASE FlushAll
  BY <1>6 DEF FlushAll, Next
<1>7. CASE PushEntered \/ PushEnd \/ UNCHANGED pvars
  BY <1>7 DEF PushEntered, PushEnd, pvars
<1>8. ASSUME NEW k, EndOut(k) \/ EndNext(k) PROVE [Next]_vars
  BY <1>8 DEF EndOut, EndNext
<1>9. ASSUME NEW k, NEW q, HandOn(k, q) PROVE [Next]_vars
  BY <1>9 DEF HandOn
<1> QED
  BY <1>3, <1>4, <1>5, <1>6, <1>7, <1>8, <1>9 DEF PNext, ThreadNext, Terminated

(* The pipeline is a user of the class correlator: whatever its threads do, *)
(* the correlator sees requests of Uids at its own checkpoints, and what is *)
(* true of every behaviour of Correlator is true in it.                     *)
THEOREM PipelineUsesCorrelator == PSpec => Spec
<1>1. PInit => Init
  BY DEF PInit
<1>2. WayOK /\ [PNext]_pvars => [Next]_vars
  BY StepIsCorrelators
<1> QED
  BY <1>1, <1>2, WayAlways, PTL DEF PSpec, Spec
=============================================================================
