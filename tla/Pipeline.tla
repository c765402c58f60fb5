-------------------------------- MODULE Pipeline --------------------------------
(***************************************************************************)
(* performancetests/CorrelatorPerformance.cc: threads that hand requests    *)
(* from queue to queue and tell one correlator where they saw them.         *)
(*                                                                          *)
(* f_in enters the requests 1, 2, ... and a 0 at the end.  Stage k, an      *)
(* f_process, takes from its queue, and hands on to queue_out or to the     *)
(* queue of stage k + 1; a 0 it hands on to both.  Two threads f_out finish *)
(* requests, one from queue_out, one from the last queue.  main() joins all *)
(* the threads, then flushes the collector.                                 *)
(*                                                                          *)
(* The queues are ptl::object_pool, a library that is not in the repository:*)
(* first in, first out, of constant size; push() waits while the queue is   *)
(* full, pop() while it is empty.  Which way a request takes (the divisor   *)
(* test) is left open.  No other thread has a request that was popped, so   *)
(* pop() and the seen() or out() after it are one step.  Requests are       *)
(* numbers; checkpoint k is stage k's, 0 is cp_in, Stages + 1 is cp_out.    *)
(***************************************************************************)
EXTENDS Correlator, Sequences, FiniteSets

CONSTANTS
  Requests,     \* number of requests
  Stages,       \* number of threads f_process, 8 in the code
  QueueSize     \* queue_size

(* What correlator knows of the pipeline: main()'s table of transitions. *)
ASSUME PipelineAssumption ==
  /\ Requests \in Nat /\ Stages \in Nat \ {0} /\ QueueSize \in Nat \ {0}
  /\ Uids = 1..Requests
  /\ Checkpoints = 0..(Stages + 1)
  /\ Transitions = {<< k - 1, k >> : k \in 1..Stages}
                     \cup {<< k, Stages + 1 >> : k \in 1..Stages}

(* Queue 0 is queue_in, queue k is the queue_proc that stage k pushes to.   *)
OutQueue == Stages + 1
Queues   == 0..OutQueue

(* f_in is thread 0 and stage k is thread k.  After them come the f_out of   *)
(* queue_out, the f_out of the last queue_proc, and main().                  *)
Out1    == Stages + 1
Out2    == Stages + 2
Main    == Stages + 3
Threads == 0..Main

VARIABLES
  queue,      \* per queue, its contents
  state,      \* per thread, what it does next: "get", "put", "end1", "end2", "done"
  item        \* per thread, the request in its hands

pvars == << vars, queue, state, item >>

PInit ==
  /\ Init
  /\ queue = [q \in Queues |-> << >>]
  /\ state = [t \in Threads |-> "get"]
  /\ item = [t \in Threads |-> 0]

Push(q, c) == Len(queue[q]) < QueueSize /\ queue' = [queue EXCEPT ![q] = Append(@, c)]

Pop(q) == queue[q] # << >> /\ queue' = [queue EXCEPT ![q] = Tail(@)]

Goto(t, s) == state[t] # s /\ state' = [state EXCEPT ![t] = s]

(* f_in: the next request enters, until all have. *)
Enter ==
  LET c == item[0] + 1
  IN /\ state[0] = "get" /\ c <= Requests
     /\ In(c, 0)
     /\ item' = [item EXCEPT ![0] = c]
     /\ Goto(0, "put")
     /\ UNCHANGED queue

(* f_in: push the request; push the 0 after the last one. *)
PushEntered ==
  /\ state[0] = "put"
  /\ Push(0, item[0])
  /\ Goto(0, "get")
  /\ UNCHANGED << vars, item >>

PushEnd ==
  /\ state[0] = "get" /\ item[0] = Requests
  /\ Push(0, 0)
  /\ Goto(0, "done")
  /\ UNCHANGED << vars, item >>

(* Mutant of Take: the 0 is neither taken nor handed on. *)
TakeIgnoresEnd(k) ==
  /\ state[k] = "get"
  /\ queue[k - 1] # << >>
  /\ LET c == Head(queue[k - 1])
     IN IF c = 0
        THEN UNCHANGED pvars
        ELSE /\ Pop(k - 1)
             /\ item' = [item EXCEPT ![k] = c]
             /\ Seen(c, k)
             /\ Goto(k, "put")

(* f_process: pop(); a request is seen before it is pushed. *)
Take(k) ==
  /\ state[k] = "get"
  /\ Pop(k - 1)
  /\ LET c == Head(queue[k - 1])
     IN IF c = 0
        THEN Goto(k, "end1") /\ UNCHANGED << vars, item >>
        ELSE /\ item' = [item EXCEPT ![k] = c]
             /\ Seen(c, k)
             /\ Goto(k, "put")

(* Mutant of HandOn: the thread does not let go of the request. *)
HandOnAgain(k, q) ==
  /\ state[k] = "put" /\ q \in {OutQueue, k}
  /\ Push(q, item[k])
  /\ UNCHANGED << vars, state, item >>

(* f_process: the request goes to queue_out or to the next stage. *)
HandOn(k, q) ==
  /\ state[k] = "put" /\ q \in {OutQueue, k}
  /\ Push(q, item[k])
  /\ Goto(k, "get")
  /\ UNCHANGED << vars, item >>

(* f_process: the 0 goes to queue_out, then to the next stage. *)
EndOut(k) ==
  /\ state[k] = "end1"
  /\ Push(OutQueue, 0)
  /\ Goto(k, "end2")
  /\ UNCHANGED << vars, item >>

EndNext(k) ==
  /\ state[k] = "end2"
  /\ Push(k, 0)
  /\ Goto(k, "done")
  /\ UNCHANGED << vars, item >>

(* Mutant of Finish: a wrong checkpoint. *)
FinishAtLastStage(t, q) ==
  /\ state[t] = "get"
  /\ Pop(q)
  /\ LET c == Head(queue[q])
     IN IF c = 0
        THEN Goto(t, "done") /\ UNCHANGED vars
        ELSE Out(c, Stages) /\ UNCHANGED state
  /\ UNCHANGED item

(* f_out: the first 0 ends the thread. *)
Finish(t, q) ==
  /\ state[t] = "get"
  /\ Pop(q)
  /\ LET c == Head(queue[q])
     IN IF c = 0
        THEN Goto(t, "done") /\ UNCHANGED vars
        ELSE Out(c, Stages + 1) /\ UNCHANGED state
  /\ UNCHANGED item

(* main(): every thread is joined, then collector.flush(). *)
FlushAll ==
  /\ \A t \in 0..Out2 : state[t] = "done"
  /\ Goto(Main, "done")
  /\ SerializeCarbon
  /\ UNCHANGED << queue, item >>

Terminated == state[Main] = "done" /\ UNCHANGED pvars

ThreadNext ==
  \/ Enter \/ PushEntered \/ PushEnd
  \/ \E k \in 1..Stages : Take(k) \/ EndOut(k) \/ EndNext(k)
  \/ \E k \in 1..Stages, q \in Queues : HandOn(k, q)
  \/ Finish(Out1, OutQueue) \/ Finish(Out2, Stages)

PNext == ThreadNext \/ FlushAll \/ Terminated

PSpec == PInit /\ [][PNext]_pvars

(* No thread stops while it could go on. *)
PFairSpec == PSpec /\ WF_pvars(PNext)

-----------------------------------------------------------------------------
(* Where request c is: the places in queues, and the threads that carry it. *)
Places(c) ==
  {p \in Queues \X (1..QueueSize) :
     p[2] <= Len(queue[p[1]]) /\ queue[p[1]][p[2]] = c}
Carriers(c) == {t \in 0..Stages : state[t] = "put" /\ item[t] = c}

(* The correlator knows exactly the requests that are on their way, each in *)
(* one queue or in the hands of one thread.  (So those that are left in     *)
(* queue_out when its f_out has gone stay in _uids for ever.)               *)
KnownIsOnItsWay ==
  \A c \in Uids :
    Cardinality(Places(c)) + Cardinality(Carriers(c))
      = IF c \in DOMAIN uids THEN 1 ELSE 0

(* No step of the pipeline is unknown to the correlator: threads tell it of *)
(* a request before they push it, and every way through is a transition.    *)
EveryStepIsKnown == seen_uid_not_found = 0 /\ seen_checkpoint_not_found = 0

(* Every thread ends, so that main() gets to its collector.flush().         *)
MainFlushes == <>(state[Main] = "done")
=============================================================================
