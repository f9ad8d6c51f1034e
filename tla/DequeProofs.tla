----------------------------- MODULE DequeProofs -----------------------------
(***************************************************************************)
(* Proofs about DequeClients, for any sets of threads and any capacity.    *)
(***************************************************************************)
EXTENDS DequeClients, FiniteSetTheorems, SequenceTheorems, TLAPS

-----------------------------------------------------------------------------
(***************************************************************************)
(* The sets of waiting and of woken threads.                               *)
(***************************************************************************)

\* Any set of woken threads is finite, and so has a natural cardinality.
LEMMA WokenFinite ==
  ASSUME NEW S, IsFiniteSet(S)
  PROVE  IsFiniteSet(Woken(S)) /\ Cardinality(Woken(S)) \in Nat
<1>1. Woken(S) \subseteq S
  BY DEF Woken
<1> QED
  BY <1>1, FS_Subset, FS_CardinalityType

\* notify_one wakes one waiter, if there is one, and nobody else.
LEMMA NotifyOneWakes ==
  ASSUME NEW S, NEW W \in NotifyOne(S)
  PROVE  /\ W \subseteq Waiting(S)
         /\ Waiting(S) # {} => \E t \in Waiting(S) : W = {t}
  BY DEF NotifyOne

\* Adding or removing one element changes a cardinality by at most one.
LEMMA CardAddOne ==
  ASSUME NEW S, IsFiniteSet(S), NEW t, t \notin S
  PROVE  Cardinality(S \cup {t}) = Cardinality(S) + 1
  BY FS_AddElement

LEMMA CardDropOne ==
  ASSUME NEW S, IsFiniteSet(S), NEW t
  PROVE  Cardinality(S \ {t}) >= Cardinality(S) - 1
<1>1. Cardinality(S) \in Nat
  BY FS_CardinalityType
<1>2. Cardinality(S \ {t}) = IF t \in S THEN Cardinality(S) - 1 ELSE Cardinality(S)
  BY FS_RemoveElement
<1> QED
  BY <1>1, <1>2

-----------------------------------------------------------------------------
(***************************************************************************)
(* Type correctness.                                                       *)
(***************************************************************************)

LEMMA InitTypeOK == Init => TypeOK
<1> SUFFICES ASSUME Init PROVE TypeOK
  OBVIOUS
<1> USE ClientsAssumption, DequeAssumption DEF Init, DequeInit
<1>1. deq_ \in Seq(Items) /\ Len(deq_) <= Capacity /\ delivered \in Seq(Items)
  OBVIOUS
<1>2. thr \in [Threads -> {"out", "waiting", "woken"}]
  OBVIOUS
<1>3. \A p \in Producers : pending[p] = NoPush /\ thr[p] = "out"
  BY DEF Threads
<1>4. pending \in [Producers -> [end : Ends, item : Items] \cup {NoPush}]
  OBVIOUS
<1>5. isClose_ \in BOOLEAN /\ (isClose_ <=> closing # "open")
  OBVIOUS
<1>6. nextItem \in 1 .. MaxItems + 1
  OBVIOUS
<1>7. /\ closing = "open"
      /\ ended \subseteq Consumers
      /\ accepted \subseteq Items
  OBVIOUS
<1> QED
  BY <1>1, <1>2, <1>3, <1>4, <1>5, <1>6, <1>7 DEF TypeOK

\* The control state of a thread after some threads were woken.
LEMMA WakeType ==
  ASSUME NEW W, thr \in [Threads -> {"out", "waiting", "woken"}]
  PROVE  /\ Wake(W) \in [Threads -> {"out", "waiting", "woken"}]
         /\ \A t \in Threads : Wake(W)[t] = IF t \in W THEN "woken" ELSE thr[t]
  BY DEF Wake

LEMMA PushStepTypeOK ==
  ASSUME TypeOK, NEW p \in Producers, NEW end \in Ends, NEW item \in Items,
         PushStep(p, end, item), nextItem' \in 1 .. MaxItems + 1
  PROVE  TypeOK'
<1> USE DequeAssumption DEF TypeOK
<1>1. CASE PushWait(p) /\ pending' = [pending EXCEPT ![p] = [end |-> end, item |-> item]]
           /\ UNCHANGED <<ended, closing, accepted, delivered>>
  <2>1. pending'[p] # NoPush /\ pending' \in [Producers -> [end : Ends, item : Items] \cup {NoPush}]
    BY <1>1 DEF NoPush, Ends
  <2>2. thr'[p] = "waiting" /\ thr' \in [Threads -> {"out", "waiting", "woken"}]
    BY <1>1 DEF PushWait, Threads
  <2>3. \A q \in Producers : pending'[q] = NoPush <=> thr'[q] = "out"
    BY <1>1, <2>1, <2>2 DEF PushWait, Threads
  <2> QED
    BY <1>1, <2>1, <2>2, <2>3 DEF PushWait
<1>2. CASE /\ IF end = "back" THEN push_back(p, item) ELSE push_front(p, item)
           /\ pending' = [pending EXCEPT ![p] = NoPush]
           /\ accepted' = accepted \cup {item}
           /\ UNCHANGED <<ended, closing, delivered>>
  <2>1. ~full /\ UNCHANGED isClose_ /\ deq_' \in {Append(deq_, item), <<item>> \o deq_}
    BY <1>2 DEF push_back, push_front, Insert
  <2>2. deq_' \in Seq(Items) /\ Len(deq_') = Len(deq_) + 1
    <3>1. <<item>> \in Seq(Items) /\ Len(<<item>>) = 1
      OBVIOUS
    <3>2. <<item>> \o deq_ \in Seq(Items) /\ Len(<<item>> \o deq_) = Len(deq_) + 1
      BY <3>1, ConcatProperties
    <3>3. Append(deq_, item) \in Seq(Items) /\ Len(Append(deq_, item)) = Len(deq_) + 1
      OBVIOUS
    <3> QED
      BY <2>1, <3>2, <3>3
  <2>3. PICK W \in NotifyOne(Consumers) : thr' = [Wake(W) EXCEPT ![p] = "out"]
    BY <1>2 DEF push_back, push_front, Insert
  <2>4. W \subseteq Consumers
    BY NotifyOneWakes DEF Waiting
  <2>5. thr' \in [Threads -> {"out", "waiting", "woken"}]
        /\ \A q \in Producers : thr'[q] = IF q = p THEN "out" ELSE thr[q]
    BY <2>3, <2>4, WakeType DEF Threads
  <2>6. \A q \in Producers : pending'[q] = NoPush <=> thr'[q] = "out"
    BY <1>2, <2>5
  <2> QED
    BY <1>2, <2>1, <2>2, <2>5, <2>6 DEF full
<1> QED
  BY <1>1, <1>2 DEF PushStep

LEMMA NextTypeOK == TypeOK /\ [Next]_vars => TypeOK'
<1> SUFFICES ASSUME TypeOK, [Next]_vars PROVE TypeOK'
  OBVIOUS
<1> USE DequeAssumption, ClientsAssumption
<1>1. ASSUME NEW p \in Producers, CallPush(p) PROVE TypeOK'
  <2>1. PICK end \in Ends : PushStep(p, end, nextItem)
    BY <1>1 DEF CallPush
  <2>2. nextItem \in Items /\ nextItem' \in 1 .. MaxItems + 1
    BY <1>1 DEF CallPush, TypeOK, Items
  <2> QED
    BY <2>1, <2>2, PushStepTypeOK
<1>2. ASSUME NEW p \in Producers, ResumePush(p) PROVE TypeOK'
  <2>1. pending[p] \in [end : Ends, item : Items]
    BY <1>2 DEF ResumePush, TypeOK
  <2> QED
    BY <1>2, <2>1, PushStepTypeOK DEF ResumePush, TypeOK
<1>3. ASSUME NEW c \in Consumers, Take(c) PROVE TypeOK'
  <2>1. PICK W \in NotifyOne(Producers) : thr' = [Wake(W) EXCEPT ![c] = "out"]
    BY <1>3 DEF Take, PopItem
  <2>2. W \subseteq Waiting(Producers)
    BY NotifyOneWakes
  <2>3. thr' \in [Threads -> {"out", "waiting", "woken"}]
        /\ \A q \in Producers : thr'[q] = "out" <=> thr[q] = "out"
    BY <2>1, <2>2, WakeType DEF TypeOK, Threads, Waiting
  <2>4. deq_ # <<>> /\ deq_' = Tail(deq_) /\ delivered' = Append(delivered, Head(deq_))
    BY <1>3 DEF Take, PopItem, empty
  <2>5. deq_' \in Seq(Items) /\ Len(deq_') = Len(deq_) - 1 /\ delivered' \in Seq(Items)
    BY <2>4 DEF TypeOK
  <2> QED
    BY <1>3, <2>3, <2>5 DEF Take, PopItem, TypeOK
<1>4. ASSUME NEW c \in Consumers, Block(c) PROVE TypeOK'
  BY <1>4 DEF Block, PopWait, TypeOK, clientVars, Threads
<1>5. ASSUME NEW c \in Consumers, End(c) PROVE TypeOK'
  BY <1>5 DEF End, PopClosed, TypeOK, Threads
<1>6. ASSUME NEW c \in Consumers, Timeout(c) PROVE TypeOK'
  BY <1>6 DEF Timeout, PopTimeout, TypeOK, clientVars, Threads
<1>7. ASSUME Clear PROVE TypeOK'
  BY <1>7 DEF Clear, clear, TypeOK, clientVars
<1>8. ASSUME Flush PROVE TypeOK'
  <2>1. PICK W \in NotifyOne(Consumers) : thr' = Wake(W)
    BY <1>8 DEF Flush, flush
  <2>2. W \subseteq Consumers
    BY NotifyOneWakes DEF Waiting
  <2>3. thr' \in [Threads -> {"out", "waiting", "woken"}]
        /\ \A q \in Producers : thr'[q] = thr[q]
    BY <2>1, <2>2, WakeType DEF TypeOK, Threads
  <2> QED
    BY <1>8, <2>3 DEF Flush, flush, TypeOK, clientVars
<1>9. ASSUME CloseBegin PROVE TypeOK'
  BY <1>9 DEF CloseBegin, CloseMark, TypeOK
<1>10. ASSUME NEW S \in {Producers, Consumers}, CloseNotify(S),
              closing \in {"marked", "half"}, closing' \in {"half", "closed"},
              UNCHANGED <<nextItem, pending, ended, accepted, delivered>>
       PROVE TypeOK'
  <2>1. thr' = Wake(Waiting(S))
    BY <1>10 DEF CloseNotify, NotifyAll
  <2>2. thr' \in [Threads -> {"out", "waiting", "woken"}]
        /\ \A q \in Producers : thr'[q] = "out" <=> thr[q] = "out"
    BY <2>1, WakeType DEF TypeOK, Threads, Waiting
  <2> QED
    BY <1>10, <2>2 DEF CloseNotify, TypeOK
<1>11. ASSUME CloseWakeProducers \/ CloseWakeConsumers PROVE TypeOK'
  BY <1>10, <1>11 DEF CloseWakeProducers, CloseWakeConsumers
<1>12. ASSUME NEW t \in Threads, Spurious(t) PROVE TypeOK'
  BY <1>12 DEF Spurious, SpuriousWakeup, TypeOK, clientVars, Threads
<1>13. CASE UNCHANGED vars
  BY <1>13 DEF vars, dequeVars, clientVars, TypeOK
<1> QED
  BY <1>1, <1>2, <1>3, <1>4, <1>5, <1>6, <1>7, <1>8, <1>9, <1>11, <1>12, <1>13
  DEF Next, ProducerStep, ConsumerStep, CloserStep

\* Every reachable state is well typed; in particular deq_ never holds more
\* than capacity_ elements, however the pushes interleave.
THEOREM TypeCorrect == Spec => []TypeOK
  BY InitTypeOK, NextTypeOK, PTL DEF Spec

-----------------------------------------------------------------------------
(***************************************************************************)
(* The notifications are enough.                                           *)
(***************************************************************************)

\* A thread x that leaves an operation and calls notify_one on the other
\* condition variable: among the threads of its own kind only x may stop
\* being woken, and among the others one more is woken, if any waited.
LEMMA HandOver ==
  ASSUME TypeOK,
         NEW A, NEW B, A \subseteq Threads, B \subseteq Threads,
         A \cap B = {}, IsFiniteSet(A), IsFiniteSet(B),
         NEW x \in A, thr[x] # "waiting",
         NEW W \in NotifyOne(B), thr' = [Wake(W) EXCEPT ![x] = "out"]
  PROVE  /\ Waiting(A)' = Waiting(A)
         /\ Cardinality(Woken(A)') >= Cardinality(Woken(A)) - 1
         /\ Waiting(B) = {} => Waiting(B)' = {}
         /\ Waiting(B) # {} => Cardinality(Woken(B)') = Cardinality(Woken(B)) + 1
<1>1. W \subseteq Waiting(B) /\ (Waiting(B) # {} => \E t \in Waiting(B) : W = {t})
  BY NotifyOneWakes
<1>2. \A t \in Threads :
        thr'[t] = IF t = x THEN "out" ELSE IF t \in W THEN "woken" ELSE thr[t]
  BY WakeType DEF TypeOK
<1>3. Waiting(A)' = Waiting(A) /\ Woken(A)' = Woken(A) \ {x}
  BY <1>1, <1>2 DEF Waiting, Woken
<1>4. Cardinality(Woken(A)') >= Cardinality(Woken(A)) - 1
  BY <1>3, WokenFinite, CardDropOne
<1>5. Waiting(B) = {} => Waiting(B)' = {}
  BY <1>1, <1>2 DEF Waiting
<1>6. ASSUME Waiting(B) # {}
      PROVE  Cardinality(Woken(B)') = Cardinality(Woken(B)) + 1
  <2>1. PICK t \in Waiting(B) : W = {t}
    BY <1>1, <1>6
  <2>2. Woken(B)' = Woken(B) \cup {t} /\ t \notin Woken(B)
    BY <1>2, <2>1 DEF Waiting, Woken
  <2> QED
    BY <2>2, WokenFinite, CardAddOne
<1> QED
  BY <1>3, <1>4, <1>5, <1>6

\* What an insertion and a successful pop do to the two kinds of threads.
LEMMA InsertHandOver ==
  ASSUME TypeOK, NEW p \in Producers, NEW d, Insert(p, d)
  PROVE  /\ Waiting(Producers)' = Waiting(Producers)
         /\ Cardinality(Woken(Producers)') >= Cardinality(Woken(Producers)) - 1
         /\ Waiting(Consumers) = {} => Waiting(Consumers)' = {}
         /\ Waiting(Consumers) # {}
              => Cardinality(Woken(Consumers)') = Cardinality(Woken(Consumers)) + 1
<1>1. PICK W \in NotifyOne(Consumers) : thr' = [Wake(W) EXCEPT ![p] = "out"]
  BY DEF Insert
<1>2. thr[p] # "waiting"
  BY DEF Insert
<1> QED
  BY <1>1, <1>2, HandOver, DequeAssumption DEF Threads

LEMMA PopHandOver ==
  ASSUME TypeOK, NEW c \in Consumers, PopItem(c)
  PROVE  /\ Waiting(Consumers)' = Waiting(Consumers)
         /\ Cardinality(Woken(Consumers)') >= Cardinality(Woken(Consumers)) - 1
         /\ Waiting(Producers) = {} => Waiting(Producers)' = {}
         /\ Waiting(Producers) # {}
              => Cardinality(Woken(Producers)') = Cardinality(Woken(Producers)) + 1
<1>1. PICK W \in NotifyOne(Producers) : thr' = [Wake(W) EXCEPT ![c] = "out"]
  BY DEF PopItem
<1>2. thr[c] # "waiting"
  BY DEF PopItem, PastWait
<1> QED
  BY <1>1, <1>2, HandOver, DequeAssumption DEF Threads

\* Waking threads that wait takes nobody out of the woken set.
LEMMA WakeGrows ==
  ASSUME TypeOK, NEW S, S \subseteq Threads, IsFiniteSet(S),
         NEW W, W \subseteq Threads, thr' = Wake(W)
  PROVE  /\ Waiting(S)' \subseteq Waiting(S)
         /\ Cardinality(Woken(S)') >= Cardinality(Woken(S))
<1>1. \A t \in Threads : thr'[t] = IF t \in W THEN "woken" ELSE thr[t]
  BY WakeType DEF TypeOK
<1>2. Waiting(S)' \subseteq Waiting(S) /\ Woken(S) \subseteq Woken(S)'
  BY <1>1 DEF Waiting, Woken
<1>3. IsFiniteSet(Woken(S)')
  BY FS_Subset DEF Woken
<1>4. Cardinality(Woken(S)) <= Cardinality(Woken(S)')
  BY <1>2, <1>3, FS_Subset
<1> QED
  BY <1>2, <1>4, <1>3, WokenFinite, FS_CardinalityType

\* The length of deq_ after an insertion and after a pop.
LEMMA PushLength ==
  ASSUME TypeOK, NEW p \in Producers, NEW end \in Ends, NEW item \in Items,
         IF end = "back" THEN push_back(p, item) ELSE push_front(p, item)
  PROVE  /\ \E d : Insert(p, d)
         /\ Len(deq_') = Len(deq_) + 1
         /\ UNCHANGED isClose_
<1>1. <<item>> \in Seq(Items) /\ Len(<<item>>) = 1
  OBVIOUS
<1>2. Len(<<item>> \o deq_) = Len(deq_) + 1
  BY <1>1, ConcatProperties DEF TypeOK
<1>3. Len(Append(deq_, item)) = Len(deq_) + 1
  BY DEF TypeOK
<1> QED
  BY <1>2, <1>3 DEF push_back, push_front, Insert

LEMMA PopLength ==
  ASSUME TypeOK, NEW c \in Consumers, PopItem(c)
  PROVE  Len(deq_') = Len(deq_) - 1 /\ UNCHANGED isClose_
  BY DEF TypeOK, PopItem, empty

LEMMA InitWakeups == Init => WakeupsCoverItems /\ WakeupsCoverRoom
<1> SUFFICES ASSUME Init PROVE WakeupsCoverItems /\ WakeupsCoverRoom
  OBVIOUS
<1>1. Waiting(Producers) = {} /\ Waiting(Consumers) = {}
  BY DEF Init, DequeInit, Waiting, Threads
<1> QED
  BY <1>1 DEF WakeupsCoverItems, WakeupsCoverRoom

\* A push step, by a caller or by a producer that was woken.
LEMMA PushKeepsWakeups ==
  ASSUME TypeOK, TypeOK', WakeupsCoverItems, WakeupsCoverRoom, closing' = closing,
         NEW p \in Producers, NEW end \in Ends, NEW item \in Items,
         PushStep(p, end, item)
  PROVE  WakeupsCoverItems' /\ WakeupsCoverRoom'
<1> USE DequeAssumption
<1>0. /\ Cardinality(Woken(Producers)) \in Nat /\ Cardinality(Woken(Consumers)) \in Nat
      /\ Cardinality(Woken(Producers)') \in Nat /\ Cardinality(Woken(Consumers)') \in Nat
      /\ Len(deq_) \in Nat
  <2>1. IsFiniteSet(Woken(Producers)') /\ IsFiniteSet(Woken(Consumers)')
    BY FS_Subset DEF Woken
  <2> QED
    BY <2>1, WokenFinite, FS_CardinalityType DEF TypeOK
<1>1. CASE IF end = "back" THEN push_back(p, item) ELSE push_front(p, item)
  <2>1. PICK d : Insert(p, d)
    BY <1>1, PushLength
  <2>2. Len(deq_') = Len(deq_) + 1 /\ UNCHANGED isClose_
    BY <1>1, PushLength
  <2>3. WakeupsCoverItems'
    BY <1>0, <2>1, <2>2, InsertHandOver DEF WakeupsCoverItems
  <2>4. WakeupsCoverRoom'
    BY <1>0, <2>1, <2>2, InsertHandOver DEF WakeupsCoverRoom
  <2> QED
    BY <2>3, <2>4
<1>2. CASE PushWait(p)
  <2>1. Waiting(Consumers)' = Waiting(Consumers) /\ Woken(Consumers)' = Woken(Consumers)
    BY <1>2 DEF PushWait, Waiting, Woken, TypeOK, Threads
  <2>2. Len(deq_') = Capacity
    BY <1>2, <1>0 DEF PushWait, full, TypeOK
  <2> QED
    BY <1>0, <1>2, <2>1, <2>2 DEF PushWait, WakeupsCoverItems, WakeupsCoverRoom
<1> QED
  BY <1>1, <1>2 DEF PushStep

\* Every step keeps both counts, if no pop is timed and deq_ is not cleared
\* other than by close().
LEMMA NextWakeups ==
  ASSUME Timed = {}, "clear" \notin Calls
  PROVE  TypeOK /\ TypeOK' /\ WakeupsCoverItems /\ WakeupsCoverRoom /\ [Next]_vars
           => WakeupsCoverItems' /\ WakeupsCoverRoom'
<1> SUFFICES ASSUME TypeOK, TypeOK', WakeupsCoverItems, WakeupsCoverRoom, [Next]_vars
             PROVE  WakeupsCoverItems' /\ WakeupsCoverRoom'
  OBVIOUS
<1> USE DequeAssumption, ClientsAssumption
<1>0. /\ Cardinality(Woken(Producers)) \in Nat /\ Cardinality(Woken(Consumers)) \in Nat
      /\ Cardinality(Woken(Producers)') \in Nat /\ Cardinality(Woken(Consumers)') \in Nat
      /\ Len(deq_) \in Nat
  <2>1. IsFiniteSet(Woken(Producers)') /\ IsFiniteSet(Woken(Consumers)')
    BY FS_Subset DEF Woken
  <2> QED
    BY <2>1, WokenFinite, FS_CardinalityType DEF TypeOK
<1>1. ASSUME NEW p \in Producers, ProducerStep(p)
      PROVE  WakeupsCoverItems' /\ WakeupsCoverRoom'
  <2>1. \E end \in Ends, item \in Items : PushStep(p, end, item)
    <3>1. CASE CallPush(p)
      <4>1. nextItem \in Items
        BY <3>1 DEF CallPush, TypeOK, Items
      <4> QED
        BY <3>1, <4>1 DEF CallPush
    <3>2. CASE ResumePush(p)
      <4>1. pending[p] \in [end : Ends, item : Items]
        BY <3>2 DEF ResumePush, TypeOK
      <4> QED
        BY <3>2, <4>1 DEF ResumePush
    <3> QED
      BY <1>1, <3>1, <3>2 DEF ProducerStep
  <2>2. closing' = closing
    BY <1>1 DEF ProducerStep, CallPush, ResumePush, PushStep
  <2> QED
    BY <2>1, <2>2, PushKeepsWakeups
<1>2. ASSUME NEW c \in Consumers, Take(c)
      PROVE  WakeupsCoverItems' /\ WakeupsCoverRoom'
  <2>1. PopItem(c) /\ closing' = closing
    BY <1>2 DEF Take
  <2>2. Len(deq_') = Len(deq_) - 1 /\ UNCHANGED isClose_
    BY <2>1, PopLength
  <2>3. WakeupsCoverItems'
    BY <1>0, <2>1, <2>2, PopHandOver DEF WakeupsCoverItems
  <2>4. WakeupsCoverRoom'
    BY <1>0, <2>1, <2>2, PopHandOver DEF WakeupsCoverRoom
  <2> QED
    BY <2>3, <2>4
<1>3. ASSUME NEW c \in Consumers, Block(c)
      PROVE  WakeupsCoverItems' /\ WakeupsCoverRoom'
  <2>1. Len(deq_') = 0 /\ UNCHANGED <<deq_, closing>>
    BY <1>3 DEF Block, PopWait, empty, clientVars
  <2>2. Waiting(Producers)' = Waiting(Producers) /\ Woken(Producers)' = Woken(Producers)
    BY <1>3 DEF Block, PopWait, Waiting, Woken, TypeOK, Threads
  <2> QED
    BY <1>0, <2>1, <2>2 DEF WakeupsCoverItems, WakeupsCoverRoom
<1>4. ASSUME NEW c \in Consumers, End(c)
      PROVE  WakeupsCoverItems' /\ WakeupsCoverRoom'
  <2>1. isClose_ /\ isClose_' /\ UNCHANGED <<deq_, closing>>
    BY <1>4 DEF End, PopClosed
  <2>2. Waiting(Producers)' = Waiting(Producers) /\ Woken(Producers)' = Woken(Producers)
    BY <1>4 DEF End, PopClosed, Waiting, Woken, TypeOK, Threads
  <2> QED
    BY <2>1, <2>2 DEF WakeupsCoverItems, WakeupsCoverRoom
<1>5. ASSUME Flush PROVE WakeupsCoverItems' /\ WakeupsCoverRoom'
  <2>1. PICK W \in NotifyOne(Consumers) : thr' = Wake(W)
    BY <1>5 DEF Flush, flush
  <2>2. W \subseteq Threads
    BY NotifyOneWakes DEF Waiting, Threads
  <2>3. UNCHANGED <<deq_, isClose_, closing>>
    BY <1>5 DEF Flush, flush, clientVars
  <2>4. /\ Waiting(Producers)' \subseteq Waiting(Producers)
        /\ Waiting(Consumers)' \subseteq Waiting(Consumers)
        /\ Cardinality(Woken(Producers)') >= Cardinality(Woken(Producers))
        /\ Cardinality(Woken(Consumers)') >= Cardinality(Woken(Consumers))
    BY <2>1, <2>2, WakeGrows DEF Threads
  <2> QED
    BY <1>0, <2>3, <2>4 DEF WakeupsCoverItems, WakeupsCoverRoom
<1>6. ASSUME CloseBegin PROVE WakeupsCoverItems' /\ WakeupsCoverRoom'
  BY <1>6 DEF CloseBegin, CloseMark, WakeupsCoverItems, WakeupsCoverRoom
<1>7. ASSUME CloseWakeProducers PROVE WakeupsCoverItems' /\ WakeupsCoverRoom'
  <2>1. thr' = Wake(Waiting(Producers)) /\ isClose_'
    BY <1>7 DEF CloseWakeProducers, CloseNotify, NotifyAll, TypeOK
  <2>2. \A t \in Producers : thr'[t] # "waiting"
    BY <2>1 DEF Wake, Waiting, Threads
  <2>3. Waiting(Producers)' = {}
    BY <2>2 DEF Waiting
  <2> QED
    BY <2>1, <2>3 DEF WakeupsCoverItems, WakeupsCoverRoom
<1>8. ASSUME CloseWakeConsumers PROVE WakeupsCoverItems' /\ WakeupsCoverRoom'
  <2>1. thr' = Wake(Waiting(Consumers)) /\ isClose_' /\ UNCHANGED deq_ /\ closing = "half"
    BY <1>8 DEF CloseWakeConsumers, CloseNotify, NotifyAll, TypeOK
  <2>2. Waiting(Producers)' = Waiting(Producers) /\ Woken(Producers)' = Woken(Producers)
    BY <2>1, WakeType DEF Waiting, Woken, TypeOK, Threads
  <2> QED
    BY <2>1, <2>2 DEF WakeupsCoverItems, WakeupsCoverRoom
<1>9. ASSUME NEW t \in Threads, Spurious(t)
      PROVE  WakeupsCoverItems' /\ WakeupsCoverRoom'
  <2>1. thr' = Wake({t}) /\ UNCHANGED <<deq_, isClose_, closing>>
    BY <1>9 DEF Spurious, SpuriousWakeup, Wake, TypeOK, clientVars
  <2>2. /\ Waiting(Producers)' \subseteq Waiting(Producers)
        /\ Waiting(Consumers)' \subseteq Waiting(Consumers)
        /\ Cardinality(Woken(Producers)') >= Cardinality(Woken(Producers))
        /\ Cardinality(Woken(Consumers)') >= Cardinality(Woken(Consumers))
    BY <2>1, WakeGrows DEF Threads
  <2> QED
    BY <1>0, <2>1, <2>2 DEF WakeupsCoverItems, WakeupsCoverRoom
<1>10. CASE UNCHANGED vars
  BY <1>10 DEF vars, dequeVars, clientVars, WakeupsCoverItems, WakeupsCoverRoom,
               Waiting, Woken
<1> QED
  BY <1>1, <1>2, <1>3, <1>4, <1>5, <1>6, <1>7, <1>8, <1>9, <1>10
  DEF Next, ConsumerStep, CloserStep, Timeout, Clear

\* Both counts hold together: a pop that takes an element away wakes a producer.
LEMMA AlwaysWakeups ==
  ASSUME Timed = {}, "clear" \notin Calls
  PROVE  Spec => [](WakeupsCoverItems /\ WakeupsCoverRoom)
<1>1. Init => WakeupsCoverItems /\ WakeupsCoverRoom
  BY InitWakeups
<1>2. TypeOK /\ TypeOK' /\ WakeupsCoverItems /\ WakeupsCoverRoom /\ [Next]_vars
        => WakeupsCoverItems' /\ WakeupsCoverRoom'
  BY NextWakeups
<1> QED
  BY <1>1, <1>2, TypeCorrect, PTL DEF Spec

\* The notify_one calls of push_back and push_front lose no wakeup: whoever waits
\* in pop, enough consumers are on their way for every element.
THEOREM WakeupsSuffice ==
  ASSUME Timed = {}, "clear" \notin Calls
  PROVE  Spec => []WakeupsCoverItems
  BY AlwaysWakeups, PTL

\* The notify_one call of pop loses no wakeup either: whoever waits in push_back,
\* enough producers are on their way for every free slot.
THEOREM RoomWakeupsSuffice ==
  ASSUME Timed = {}, "clear" \notin Calls
  PROVE  Spec => []WakeupsCoverRoom
  BY AlwaysWakeups, PTL

-----------------------------------------------------------------------------
(***************************************************************************)
(* DequeClients implements Channel.                                        *)
(***************************************************************************)

\* An item that is still to be inserted has not been inserted: the numbers
\* of the blocked pushes differ from each other and from those accepted.
FreshItems ==
  /\ \A i \in accepted : i < nextItem
  /\ \A p \in Producers : thr[p] # "out" =>
       /\ pending[p].item < nextItem
       /\ pending[p].item \notin accepted
       /\ \A q \in Producers \ {p} :
            thr[q] # "out" => pending[q].item # pending[p].item

LEMMA InitFreshItems == Init => FreshItems
  BY DEF Init, DequeInit, FreshItems, Threads

\* What the other actions do to the control state of the producers.
LEMMA OthersKeepProducers ==
  ASSUME TypeOK, [Next]_vars, \A p \in Producers : ~ProducerStep(p)
  PROVE  /\ UNCHANGED <<nextItem, pending, accepted>>
         /\ \A p \in Producers : thr'[p] = "out" <=> thr[p] = "out"
<1> USE DequeAssumption, ClientsAssumption
<1>1. ASSUME NEW c \in Consumers, Take(c)
      PROVE  UNCHANGED <<nextItem, pending, accepted>>
             /\ \A p \in Producers : thr'[p] = "out" <=> thr[p] = "out"
  <2>1. PICK W \in NotifyOne(Producers) : thr' = [Wake(W) EXCEPT ![c] = "out"]
    BY <1>1 DEF Take, PopItem
  <2>2. W \subseteq Waiting(Producers)
    BY NotifyOneWakes
  <2> QED
    BY <1>1, <2>1, <2>2 DEF Take, TypeOK, Threads, Waiting, Wake
<1>2. ASSUME NEW c \in Consumers, Block(c) \/ End(c) \/ Timeout(c)
      PROVE  UNCHANGED <<nextItem, pending, accepted>>
             /\ \A p \in Producers : thr'[p] = "out" <=> thr[p] = "out"
  BY <1>2 DEF Block, PopWait, End, PopClosed, Timeout, PopTimeout, clientVars,
              TypeOK, Threads
<1>3. ASSUME NEW W, thr' = Wake(W), W \subseteq {t \in Threads : thr[t] = "waiting"}
      PROVE  \A p \in Producers : thr'[p] = "out" <=> thr[p] = "out"
  BY <1>3 DEF Wake, Threads
<1>4. CASE Flush
  <2>1. PICK W \in NotifyOne(Consumers) : thr' = Wake(W)
    BY <1>4 DEF Flush, flush
  <2>2. W \subseteq {t \in Threads : thr[t] = "waiting"}
    BY NotifyOneWakes DEF Waiting, Threads
  <2> QED
    BY <1>3, <1>4, <2>1, <2>2 DEF Flush, clientVars
<1>5. CASE CloseWakeProducers \/ CloseWakeConsumers
  <2>1. PICK S \in {Producers, Consumers} : thr' = Wake(Waiting(S))
    BY <1>5 DEF CloseWakeProducers, CloseWakeConsumers, CloseNotify, NotifyAll
  <2>2. Waiting(S) \subseteq {t \in Threads : thr[t] = "waiting"}
    BY DEF Waiting, Threads
  <2> QED
    BY <1>3, <1>5, <2>1, <2>2 DEF CloseWakeProducers, CloseWakeConsumers
<1>6. CASE CloseBegin \/ Clear
  BY <1>6 DEF CloseBegin, CloseMark, Clear, clear, clientVars
<1>7. ASSUME NEW t \in Threads, Spurious(t)
      PROVE  UNCHANGED <<nextItem, pending, accepted>>
             /\ \A p \in Producers : thr'[p] = "out" <=> thr[p] = "out"
  BY <1>7 DEF Spurious, SpuriousWakeup, clientVars, TypeOK, Threads
<1>8. CASE UNCHANGED vars
  BY <1>8 DEF vars, dequeVars, clientVars
<1> QED
  BY <1>1, <1>2, <1>4, <1>5, <1>6, <1>7, <1>8 DEF Next, ConsumerStep, CloserStep

\* A push step inserts its item or blocks with it; the other producers stay
\* inside or outside their calls.
LEMMA PushStepProducers ==
  ASSUME TypeOK, NEW p \in Producers, NEW end \in Ends, NEW item \in Items,
         PushStep(p, end, item)
  PROVE  /\ \A q \in Producers \ {p} :
              pending'[q] = pending[q] /\ (thr'[q] = "out" <=> thr[q] = "out")
         /\ \/ /\ thr'[p] = "out"
               /\ accepted' = accepted \cup {item}
            \/ /\ thr'[p] # "out"
               /\ pending'[p].item = item
               /\ UNCHANGED accepted
<1>1. CASE /\ PushWait(p)
           /\ pending' = [pending EXCEPT ![p] = [end |-> end, item |-> item]]
           /\ UNCHANGED <<ended, closing, accepted, delivered>>
  BY <1>1 DEF PushWait, TypeOK, Threads
<1>2. CASE /\ IF end = "back" THEN push_back(p, item) ELSE push_front(p, item)
           /\ pending' = [pending EXCEPT ![p] = NoPush]
           /\ accepted' = accepted \cup {item}
           /\ UNCHANGED <<ended, closing, delivered>>
  <2>1. PICK W \in NotifyOne(Consumers) : thr' = [Wake(W) EXCEPT ![p] = "out"]
    BY <1>2 DEF push_back, push_front, Insert
  <2>2. W \cap Producers = {}
    BY NotifyOneWakes, DequeAssumption DEF Waiting
  <2>3. \A q \in Threads : q \notin W \cup {p} => thr'[q] = thr[q]
    BY <2>1, WakeType DEF TypeOK
  <2>4. thr'[p] = "out"
    BY <2>1 DEF Wake, Threads
  <2>5. \A q \in Producers \ {p} : pending'[q] = pending[q]
    BY <1>2 DEF TypeOK
  <2> QED
    BY <1>2, <2>2, <2>3, <2>4, <2>5 DEF Threads
<1> QED
  BY <1>1, <1>2 DEF PushStep

LEMMA NextFreshItems ==
  TypeOK /\ FreshItems /\ [Next]_vars => FreshItems'
<1> SUFFICES ASSUME TypeOK, FreshItems, [Next]_vars PROVE FreshItems'
  OBVIOUS
<1>1. ASSUME NEW p \in Producers, CallPush(p) PROVE FreshItems'
  <2>1. PICK end \in Ends : PushStep(p, end, nextItem)
    BY <1>1 DEF CallPush
  <2>2. nextItem \in Items /\ nextItem' = nextItem + 1 /\ thr[p] = "out"
    BY <1>1 DEF CallPush, TypeOK, Items
  <2>3. \A q \in Producers \ {p} : thr[q] # "out" => pending[q].item \in Items
    BY DEF TypeOK
  <2>4. accepted \subseteq Items
    BY DEF TypeOK
  <2>5. /\ \A q \in Producers \ {p} :
              pending'[q] = pending[q] /\ (thr'[q] = "out" <=> thr[q] = "out")
        /\ \/ thr'[p] = "out" /\ accepted' = accepted \cup {nextItem}
           \/ thr'[p] # "out" /\ pending'[p].item = nextItem /\ UNCHANGED accepted
    BY <2>1, <2>2, PushStepProducers
  <2>6. \A i \in accepted' : i < nextItem'
    <3>1. accepted' \subseteq accepted \cup {nextItem}
      BY <2>5
    <3>2. \A i \in accepted : i < nextItem /\ i \in Int
      BY <2>4 DEF FreshItems, Items
    <3>3. nextItem \in Int /\ nextItem' = nextItem + 1
      BY <2>2 DEF Items
    <3> QED
      BY <3>1, <3>2, <3>3
  <2>7. ASSUME NEW q \in Producers, thr'[q] # "out"
        PROVE  /\ pending'[q].item < nextItem'
               /\ pending'[q].item \notin accepted'
               /\ \A r \in Producers \ {q} :
                    thr'[r] # "out" => pending'[r].item # pending'[q].item
    <3>1. nextItem \notin accepted /\ nextItem < nextItem + 1
      BY <2>2 DEF FreshItems, Items
    <3>2. \A r \in Producers \ {p} : thr[r] # "out" =>
            pending[r].item < nextItem + 1 /\ pending[r].item # nextItem
      BY <2>2, <2>3 DEF FreshItems, Items
    <3>3. CASE q = p
      BY <2>2, <2>5, <2>7, <3>1, <3>2, <3>3
    <3>4. CASE q # p
      BY <2>2, <2>5, <2>7, <3>1, <3>2, <3>4 DEF FreshItems
    <3> QED
      BY <3>3, <3>4
  <2> QED
    BY <2>6, <2>7 DEF FreshItems
<1>2. ASSUME NEW p \in Producers, ResumePush(p) PROVE FreshItems'
  <2>1. pending[p] \in [end : Ends, item : Items]
    BY <1>2 DEF ResumePush, TypeOK
  <2>2. /\ PushStep(p, pending[p].end, pending[p].item)
        /\ thr[p] # "out"
        /\ nextItem' = nextItem
    BY <1>2 DEF ResumePush
  <2> QED
    BY <2>1, <2>2, PushStepProducers DEF FreshItems
<1>3. CASE \A p \in Producers : ~ProducerStep(p)
  BY <1>3, OthersKeepProducers DEF FreshItems
<1> QED
  BY <1>1, <1>2, <1>3 DEF ProducerStep

\* Every step of the deque and its clients is a step of the channel or
\* leaves it unchanged.
LEMMA PushMapsToPut ==
  ASSUME NEW p \in Producers, NEW end \in Ends, NEW item \in Items,
         TypeOK, PushStep(p, end, item), item \notin accepted
  PROVE  [AsChannel!Next]_<<deq_, accepted, delivered>>
<1>1. CASE IF end = "back" THEN push_back(p, item) ELSE push_front(p, item)
  <2>1. Len(deq_) < Capacity
        /\ deq_' \in {Append(deq_, item), <<item>> \o deq_}
        /\ accepted' = accepted \cup {item}
        /\ UNCHANGED delivered
    BY <1>1, DequeAssumption
    DEF PushStep, push_back, push_front, Insert, PushWait, full, TypeOK
  <2> QED
    BY <2>1 DEF AsChannel!Next, AsChannel!Put
<1>2. CASE PushWait(p) /\ UNCHANGED <<accepted, delivered>>
  BY <1>2 DEF PushWait
<1> QED
  BY <1>1, <1>2 DEF PushStep

LEMMA NextMapsToChannel ==
  TypeOK /\ FreshItems /\ [Next]_vars => [AsChannel!Next]_<<deq_, accepted, delivered>>
<1> SUFFICES ASSUME TypeOK, FreshItems, [Next]_vars
             PROVE  [AsChannel!Next]_<<deq_, accepted, delivered>>
  OBVIOUS
<1>1. ASSUME NEW p \in Producers, CallPush(p)
      PROVE  [AsChannel!Next]_<<deq_, accepted, delivered>>
  <2>1. PICK end \in Ends : PushStep(p, end, nextItem)
    BY <1>1 DEF CallPush
  <2>2. nextItem \in Items /\ nextItem \notin accepted
    BY <1>1 DEF CallPush, TypeOK, FreshItems, Items
  <2> QED
    BY <2>1, <2>2, PushMapsToPut
<1>2. ASSUME NEW p \in Producers, ResumePush(p)
      PROVE  [AsChannel!Next]_<<deq_, accepted, delivered>>
  <2>1. pending[p] \in [end : Ends, item : Items]
    BY <1>2 DEF ResumePush, TypeOK
  <2>2. pending[p].item \notin accepted
    BY <1>2 DEF ResumePush, FreshItems
  <2> QED
    BY <1>2, <2>1, <2>2, PushMapsToPut DEF ResumePush
<1>3. ASSUME NEW c \in Consumers, Take(c)
      PROVE  [AsChannel!Next]_<<deq_, accepted, delivered>>
  BY <1>3 DEF Take, PopItem, empty, AsChannel!Next, AsChannel!Take
<1>4. ASSUME NEW c \in Consumers, Block(c) \/ End(c) \/ Timeout(c)
      PROVE  UNCHANGED <<deq_, accepted, delivered>>
  BY <1>4 DEF Block, PopWait, End, PopClosed, Timeout, PopTimeout, clientVars
<1>5. CASE Clear \/ CloseBegin
  BY <1>5 DEF Clear, clear, CloseBegin, CloseMark, clientVars,
              AsChannel!Next, AsChannel!Discard
<1>6. CASE Flush \/ CloseWakeProducers \/ CloseWakeConsumers
  BY <1>6 DEF Flush, flush, CloseWakeProducers, CloseWakeConsumers, CloseNotify,
              clientVars
<1>7. ASSUME NEW t \in Threads, Spurious(t)
      PROVE  UNCHANGED <<deq_, accepted, delivered>>
  BY <1>7 DEF Spurious, SpuriousWakeup, clientVars
<1>8. CASE UNCHANGED vars
  BY <1>8 DEF vars, dequeVars, clientVars
<1> QED
  BY <1>1, <1>2, <1>3, <1>4, <1>5, <1>6, <1>7, <1>8
  DEF Next, ProducerStep, ConsumerStep, CloserStep

\* For any threads, any mix of calls and any capacity, the deque is a
\* bounded channel.
THEOREM DequeImplementsChannel == Spec => ImplementsChannel
<1>1. Init => AsChannel!Init
  BY DEF Init, DequeInit, AsChannel!Init
<1> QED
  BY <1>1, InitFreshItems, NextFreshItems, NextMapsToChannel, TypeCorrect, PTL
  DEF Spec, ImplementsChannel, AsChannel!Spec, AsChannel!chanVars
=============================================================================
