---------------------------- MODULE DequeClients ----------------------------
(***************************************************************************)
(* A BlockDeque shared by producers, consumers and one thread that may     *)
(* clear, flush and close it.  Producers push numbered items at either     *)
(* end; a consumer pops in the loop of Log::AsyncWrite_                    *)
(* ("while (deque_->pop(str))") and ends when an untimed pop returns       *)
(* false; a consumer in Timed calls pop(item, timeout) instead and keeps   *)
(* calling after a timeout.                                                *)
(***************************************************************************)
EXTENDS BlockDeque

CONSTANTS
  Timed,      \* the consumers that call pop(item, timeout)
  Calls,      \* the operations in use besides push_back and pop
  MaxItems    \* bound on the number of pushes

ASSUME ClientsAssumption ==
  /\ Timed \subseteq Consumers
  /\ Calls \subseteq {"push_front", "clear", "flush", "close"}
  /\ MaxItems \in Nat

VARIABLES
  nextItem,   \* number of the next item
  pending,    \* pending[p]: the blocked push of p, or NoPush
  ended,      \* consumers whose loop has ended
  closing,    \* progress of close(): "open", "marked", "half" or "closed"
  accepted,   \* history: the items inserted
  delivered   \* history: the items popped, in order

clientVars == <<nextItem, pending, ended, closing, accepted, delivered>>

vars == <<dequeVars, clientVars>>

Items == 1 .. MaxItems

Ends == {"back", "front"}

NoPush == [end |-> "none", item |-> 0]

Init ==
  /\ DequeInit
  /\ nextItem = 1
  /\ pending = [p \in Producers |-> NoPush]
  /\ ended = {}
  /\ closing = "open"
  /\ accepted = {}
  /\ delivered = <<>>

-----------------------------------------------------------------------------
(***************************************************************************)
(* Producers.                                                              *)
(***************************************************************************)
PushStep(p, end, item) ==
  \/ /\ IF end = "back" THEN push_back(p, item) ELSE push_front(p, item)
     /\ pending' = [pending EXCEPT ![p] = NoPush]
     /\ accepted' = accepted \cup {item}
     /\ UNCHANGED <<ended, closing, delivered>>
  \/ /\ PushWait(p)
     /\ pending' = [pending EXCEPT ![p] = [end |-> end, item |-> item]]
     /\ UNCHANGED <<ended, closing, accepted, delivered>>

CallPush(p) ==
  /\ thr[p] = "out"
  /\ nextItem <= MaxItems
  /\ \E end \in Ends :
       /\ end = "front" => "push_front" \in Calls
       /\ PushStep(p, end, nextItem)
  /\ nextItem' = nextItem + 1

ResumePush(p) ==
  /\ thr[p] = "woken"
  /\ PushStep(p, pending[p].end, pending[p].item)
  /\ UNCHANGED nextItem

-----------------------------------------------------------------------------
(***************************************************************************)
(* Consumers.                                                              *)
(***************************************************************************)
Take(c) ==
  /\ c \notin ended
  /\ PopItem(c)
  /\ delivered' = Append(delivered, Head(deq_))
  /\ UNCHANGED <<nextItem, pending, ended, closing, accepted>>

Block(c) ==
  /\ c \notin ended
  /\ PopWait(c)
  /\ UNCHANGED clientVars

End(c) ==
  /\ PopClosed(c)
  /\ ended' = ended \cup {c}
  /\ UNCHANGED <<nextItem, pending, closing, accepted, delivered>>

Timeout(c) ==
  /\ c \in Timed
  /\ PopTimeout(c)
  /\ UNCHANGED clientVars

-----------------------------------------------------------------------------
(***************************************************************************)
(* The controlling thread.                                                 *)
(***************************************************************************)
Clear ==
  /\ "clear" \in Calls
  /\ clear
  /\ UNCHANGED clientVars

Flush ==
  /\ "flush" \in Calls
  /\ flush
  /\ UNCHANGED clientVars

CloseBegin ==
  /\ "close" \in Calls
  /\ closing = "open"
  /\ CloseMark
  /\ closing' = "marked"
  /\ UNCHANGED <<nextItem, pending, ended, accepted, delivered>>

CloseWakeProducers ==
  /\ closing = "marked"
  /\ CloseNotify(Producers)
  /\ closing' = "half"
  /\ UNCHANGED <<nextItem, pending, ended, accepted, delivered>>

CloseWakeConsumers ==
  /\ closing = "half"
  /\ CloseNotify(Consumers)
  /\ closing' = "closed"
  /\ UNCHANGED <<nextItem, pending, ended, accepted, delivered>>

Spurious(t) ==
  /\ SpuriousWakeup(t)
  /\ UNCHANGED clientVars

-----------------------------------------------------------------------------
ProducerStep(p) == CallPush(p) \/ ResumePush(p)

ConsumerStep(c) == Take(c) \/ Block(c) \/ End(c)

CloserStep == CloseBegin \/ CloseWakeProducers \/ CloseWakeConsumers

Next ==
  \/ \E p \in Producers : ProducerStep(p)
  \/ \E c \in Consumers : ConsumerStep(c) \/ Timeout(c)
  \/ Clear
  \/ Flush
  \/ CloserStep
  \/ \E t \in Threads : Spurious(t)

Spec == Init /\ [][Next]_vars

(***************************************************************************)
(* Each thread that can take a step is eventually scheduled, and a thread  *)
(* contending for the mutex eventually gets it.  Nobody has to call push,  *)
(* and no spurious wakeup or timeout is relied on: a call, once made, is   *)
(* completed if it can be.                                                 *)
(***************************************************************************)
Fairness ==
  /\ \A p \in Producers : WF_vars(ResumePush(p))
  /\ \A c \in Consumers : WF_vars(ConsumerStep(c))
  /\ WF_vars(CloseWakeProducers \/ CloseWakeConsumers)

FairSpec == Spec /\ Fairness

-----------------------------------------------------------------------------
(***************************************************************************)
(* Properties.                                                             *)
(***************************************************************************)

\* Every variable has its type, a thread inside push_back or push_front has
\* its item at hand, and deq_ never outgrows capacity_.
TypeOK ==
  /\ deq_ \in Seq(Items)
  /\ Len(deq_) <= Capacity
  /\ isClose_ \in BOOLEAN
  /\ isClose_ <=> closing # "open"
  /\ thr \in [Threads -> {"out", "waiting", "woken"}]
  /\ nextItem \in 1 .. MaxItems + 1
  /\ pending \in [Producers -> [end : Ends, item : Items] \cup {NoPush}]
  /\ \A p \in Producers : pending[p] = NoPush <=> thr[p] = "out"
  /\ ended \subseteq Consumers
  /\ closing \in {"open", "marked", "half", "closed"}
  /\ accepted \subseteq Items
  /\ delivered \in Seq(Items)

\* While the deque is open, the notifications sent by push_back and
\* push_front are enough: whenever some consumer is left waiting, there are
\* at least as many consumers on their way out of a wait as elements.  So no
\* element is left in an open deque with every consumer asleep.
WakeupsCoverItems ==
  ~isClose_ /\ Waiting(Consumers) # {}
    => Len(deq_) <= Cardinality(Woken(Consumers))

\* The same for producers and free slots: the notify_one of pop is enough,
\* so no free slot is left with every producer asleep in push_back.
\* Between close() emptying the deque and its notify_all it does not hold.
WakeupsCoverRoom ==
  closing # "marked" /\ Waiting(Producers) # {}
    => Capacity - Len(deq_) <= Cardinality(Woken(Producers))

InDeque(item) == \E i \in DOMAIN deq_ : deq_[i] = item

\* close() ends the consumers it finds inside pop's wait, however their
\* wakeup interleaves with pushes, flushes and other pops.
CloseReleasesWaiters ==
  \A c \in Consumers \ Timed :
    (isClose_ /\ closing # "closed" /\ thr[c] # "out") ~> (c \in ended)

\* An item does not stay in an open deque: it is popped or cleared, even if
\* the consumer notified of it times out.
ItemsLeave ==
  \A item \in Items : InDeque(item) ~> (~InDeque(item) \/ isClose_)

\* The deque implements the bounded channel: whatever the interleaving, the
\* capacity holds, every item goes in once, and items come out once each
\* and from the front.
AsChannel == INSTANCE Channel WITH queue <- deq_

ImplementsChannel == AsChannel!Spec
=============================================================================
