----------------------------- MODULE BlockDeque -----------------------------
(***************************************************************************)
(* BlockDeque<T> of log_manager/block_queue.h: a bounded blocking deque    *)
(* protected by one mutex, with one condition variable for producers and   *)
(* one for consumers.                                                      *)
(*                                                                         *)
(* Definitions introduced as a "Slip" are what the code is not: each is a  *)
(* definition with a plausible mistake in it, used to show that a property *)
(* can tell the difference.                                                *)
(*                                                                         *)
(* The module owns the state of the deque and offers its operations as     *)
(* actions of a thread; a module that instantiates it supplies the threads *)
(* that call them.                                                         *)
(*                                                                         *)
(* Granularity.  Every access to deq_ and isClose_ is made under mtx_, so  *)
(* each stretch of code between acquiring mtx_ and releasing it (at the    *)
(* end of the scope or inside condition_variable::wait) is one action.     *)
(* A notification sent after mtx_ was released (close, flush) is an action *)
(* of its own.  A thread inside an operation is "waiting" while it is      *)
(* blocked on its condition variable, and "woken" from the moment it left  *)
(* the wait until it has re-acquired mtx_ and re-tested its condition.     *)
(***************************************************************************)
EXTENDS Integers, Sequences, FiniteSets

CONSTANTS
  Producers,   \* threads that call push_back and push_front
  Consumers,   \* threads that call pop
  Capacity     \* capacity_

\* assert(MaxCapacity > 0) in the constructor; a thread is on one side only.
ASSUME DequeAssumption ==
  /\ Capacity \in Nat \ {0}
  /\ IsFiniteSet(Producers)
  /\ IsFiniteSet(Consumers)
  /\ Producers \cap Consumers = {}

VARIABLES
  deq_,       \* the elements, front first
  isClose_,   \* set by close(), never reset
  thr         \* thr[t]: "out", "waiting" or "woken"

dequeVars == <<deq_, isClose_, thr>>

Threads == Producers \cup Consumers

DequeInit ==
  /\ deq_ = <<>>
  /\ isClose_ = FALSE
  /\ thr = [t \in Threads |-> "out"]

empty == deq_ = <<>>

\* Slip: "size > capacity_" for "size >= capacity_".
fullOffByOne == Len(deq_) > Capacity

full == Len(deq_) >= Capacity

-----------------------------------------------------------------------------
(***************************************************************************)
(* Condition variables.  notify_one wakes some waiter if there is one.     *)
(***************************************************************************)
Waiting(S) == {t \in S : thr[t] = "waiting"}

Woken(S) == {t \in S : thr[t] = "woken"}

NotifyOne(S) ==
  IF Waiting(S) = {} THEN {{}} ELSE {{t} : t \in Waiting(S)}

\* Slip: close() calls notify_one.
NotifyAllAsOne(S) == NotifyOne(S)

NotifyAll(S) == {Waiting(S)}

Wake(S) == [t \in Threads |-> IF t \in S THEN "woken" ELSE thr[t]]

\* A wait may end with no notification at all.
SpuriousWakeup(t) ==
  /\ thr[t] = "waiting"
  /\ thr' = [thr EXCEPT ![t] = "woken"]
  /\ UNCHANGED <<deq_, isClose_>>

-----------------------------------------------------------------------------
(***************************************************************************)
(* push_back and push_front.  A call tests "while (size >= capacity_)" on  *)
(* entry and again each time it is woken.                                  *)
(***************************************************************************)
PushWait(p) ==
  /\ thr[p] # "waiting"
  /\ full
  /\ thr' = [thr EXCEPT ![p] = "waiting"]
  /\ UNCHANGED <<deq_, isClose_>>

\* Slip: "if (size >= capacity_)" for "while", so a woken push inserts at once.
InsertAfterIf(p, newDeq) ==
  /\ thr[p] = "woken" \/ (thr[p] = "out" /\ ~full)
  /\ deq_' = newDeq
  /\ \E S \in NotifyOne(Consumers) : thr' = [Wake(S) EXCEPT ![p] = "out"]
  /\ UNCHANGED isClose_

\* Slip: the consumers are notified only when the deque was empty.
InsertNotifyIfEmpty(p, newDeq) ==
  /\ thr[p] # "waiting"
  /\ ~full
  /\ deq_' = newDeq
  /\ \E S \in (IF empty THEN NotifyOne(Consumers) ELSE {{}}) :
       thr' = [Wake(S) EXCEPT ![p] = "out"]
  /\ UNCHANGED isClose_

Insert(p, newDeq) ==
  /\ thr[p] # "waiting"
  /\ ~full
  /\ deq_' = newDeq
  /\ \E S \in NotifyOne(Consumers) : thr' = [Wake(S) EXCEPT ![p] = "out"]
  /\ UNCHANGED isClose_

push_back(p, item) == Insert(p, Append(deq_, item))

\* Slip: push_front notifies nobody.
push_frontSilent(p, item) ==
  /\ thr[p] # "waiting"
  /\ ~full
  /\ deq_' = <<item>> \o deq_
  /\ thr' = [thr EXCEPT ![p] = "out"]
  /\ UNCHANGED isClose_

push_front(p, item) == Insert(p, <<item>> \o deq_)

-----------------------------------------------------------------------------
(***************************************************************************)
(* pop.  isClose_ is tested only on the way out of a wait: a call that     *)
(* finds the deque empty waits whether or not the deque is closed, and one *)
(* that finds an element takes it.                                         *)
(***************************************************************************)
PastWait(c) == thr[c] = "out" \/ (thr[c] = "woken" /\ ~isClose_)

PopWait(c) ==
  /\ PastWait(c)
  /\ empty
  /\ thr' = [thr EXCEPT ![c] = "waiting"]
  /\ UNCHANGED <<deq_, isClose_>>

\* Slip: pop notifies the producers only when the deque was full.
PopItemNotifyIfFull(c) ==
  /\ PastWait(c)
  /\ ~empty
  /\ deq_' = Tail(deq_)
  /\ \E S \in (IF full THEN NotifyOne(Producers) ELSE {{}}) :
       thr' = [Wake(S) EXCEPT ![c] = "out"]
  /\ UNCHANGED isClose_

\* The call returns true with Head(deq_).
PopItem(c) ==
  /\ PastWait(c)
  /\ ~empty
  /\ deq_' = Tail(deq_)
  /\ \E S \in NotifyOne(Producers) : thr' = [Wake(S) EXCEPT ![c] = "out"]
  /\ UNCHANGED isClose_

\* Slip: any wakeup ends the call.
PopClosedAnyWakeup(c) ==
  /\ thr[c] = "woken"
  /\ thr' = [thr EXCEPT ![c] = "out"]
  /\ UNCHANGED <<deq_, isClose_>>

\* The call returns false because the deque was closed.
PopClosed(c) ==
  /\ thr[c] = "woken"
  /\ isClose_
  /\ thr' = [thr EXCEPT ![c] = "out"]
  /\ UNCHANGED <<deq_, isClose_>>

\* pop(item, timeout) returns false at its deadline.  wait_for reports
\* cv_status::timeout whenever the deadline has passed, also to a thread
\* that was notified, and deq_ is not looked at again.
PopTimeout(c) ==
  /\ thr[c] # "out"
  /\ thr' = [thr EXCEPT ![c] = "out"]
  /\ UNCHANGED <<deq_, isClose_>>

-----------------------------------------------------------------------------
(***************************************************************************)
(* clear, close and flush.  close() clears and marks under the mutex, then *)
(* notifies each condition variable with the mutex released.               *)
(***************************************************************************)
clear ==
  /\ deq_' = <<>>
  /\ UNCHANGED <<isClose_, thr>>

CloseMark ==
  /\ deq_' = <<>>
  /\ isClose_' = TRUE
  /\ UNCHANGED thr

CloseNotify(S) ==
  /\ \E W \in NotifyAll(S) : thr' = Wake(W)
  /\ UNCHANGED <<deq_, isClose_>>

flush ==
  /\ \E S \in NotifyOne(Consumers) : thr' = Wake(S)
  /\ UNCHANGED <<deq_, isClose_>>
=============================================================================
