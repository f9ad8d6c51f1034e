------------------------------ MODULE GrpcProofs ------------------------------
(***************************************************************************)
(* Theorems about GrpcManager: what its runs check for two agents holds    *)
(* for any number of agents, readers, threads, fields and calls.           *)
(***************************************************************************)
EXTENDS GrpcManager, FiniteSetTheorems, TLAPS

-----------------------------------------------------------------------------
(***************************************************************************)
(* Types.                                                                  *)
(***************************************************************************)
LEMMA EmptyType == Empty \in Messages
BY DEF Empty, Messages

LEMMA FreeOK == Free \in Handlers /\ HandlerOK(Free)
BY ServerAssumption, EmptyType DEF Free, Handlers, HandlerOK, SetPasses

\* What a thread's step over one field does to its record.
LEMMA AdvanceStep ==
  ASSUME NEW w \in Workers, NEW f \in handler[w].todo,
         handler[w] \in Handlers, HandlerOK(handler[w]),
         handler[w].pass \in SetPasses \cup {"copy"}
  PROVE  LET h == handler[w]  g == Advance(w, f)
         IN  /\ g \in Handlers /\ HandlerOK(g)
             /\ g.call = h.call /\ g.expect = h.expect /\ g.info = h.info
             /\ h.todo # {f} => g.pass = h.pass /\ g.todo = h.todo \ {f}
             /\ h.todo = {f} =>
                  /\ g.pass = NextPass[h.pass]
                  /\ g.todo = IF h.pass \in {"merge", "copy"} THEN {} ELSE Fields
<1> DEFINE h == handler[w]  g == Advance(w, f)
<1>1. CASE h.todo # {f}
  <2>1. h.todo \ {f} # {}
    BY <1>1
  <2>2. g = [h EXCEPT !.todo = h.todo \ {f}]
    BY <1>1 DEF Advance
  <2> QED BY <2>1, <2>2, <1>1 DEF Handlers, HandlerOK, SetPasses
<1>2. CASE h.todo = {f}
  <2>1. g = [h EXCEPT !.pass = NextPass[h.pass],
                      !.todo = IF NextPass[h.pass] = "done" THEN {} ELSE Fields]
    BY <1>2 DEF Advance
  <2>2. /\ h.pass \in {"merge", "copy"} => NextPass[h.pass] = "done"
        /\ h.pass = "clear" => NextPass[h.pass] = "clearAgain"
        /\ h.pass = "clearAgain" => NextPass[h.pass] = "merge"
    BY DEF NextPass
  <2>3. Fields # {}
    BY ServerAssumption
  <2> QED BY <2>1, <2>2, <2>3, <1>2 DEF Handlers, HandlerOK, SetPasses, Calls, Samples, Clients
<1> QED BY <1>1, <1>2

\* The part of TypeOK about the threads, after a step of one of them.
LEMMA OneHandler ==
  ASSUME TypeOK, NEW w \in Workers, NEW g \in Handlers, HandlerOK(g),
         handler' = [handler EXCEPT ![w] = g]
  PROVE  handler' \in [Workers -> Handlers] /\ \A v \in Workers : HandlerOK(handler'[v])
BY DEF TypeOK

LEMMA CallType ==
  ASSUME TypeOK, NEW c \in Clients, count[c] # 0
  PROVE  Current(c) \in Calls
BY DEF TypeOK, Current, Calls

LEMMA InitType == Init => TypeOK
<1> SUFFICES ASSUME Init PROVE TypeOK
  OBVIOUS
<1>1. handler \in [Workers -> Handlers] /\ \A w \in Workers : HandlerOK(handler[w])
  BY FreeOK DEF Init
<1>2. monitorInfos_ \in Messages
  BY EmptyType DEF Init
<1> QED
  BY <1>1, <1>2 DEF Init, TypeOK

\* A step of a client keeps TypeOK, and leaves the server alone.
LEMMA ClientType ==
  ASSUME TypeOK, NEW c \in Clients,
         (c \in Agents /\ Send(c)) \/ (c \in Readers /\ Ask(c)) \/ Break(c) \/ GoSilent(c)
         \/ HangUp(c)
  PROVE  TypeOK' /\ UNCHANGED serverVars
<1>1. CASE Send(c) \/ Ask(c)
  <2>1. Invoke(c) /\ UNCHANGED abandoned
    BY <1>1 DEF Send, Ask
  <2>2. <<c, count[c] + 1>> \in Calls /\ count[c] + 1 \in Nat
    BY DEF TypeOK, Calls
  <2> QED
    BY <2>1, <2>2 DEF Invoke, TypeOK, serverVars
<1>2. CASE Break(c) \/ HangUp(c)
  <2>1. Failed(c) /\ requests' \subseteq requests /\ breaks' \in Nat
    BY <1>2 DEF Break, HangUp, TypeOK
  <2>2. Current(c) \in Calls
    BY <1>2, CallType DEF Break, HangUp, TypeOK
  <2> QED
    BY <2>1, <2>2 DEF Failed, TypeOK, serverVars
<1>3. CASE GoSilent(c)
  <2>1. requests' \subseteq requests /\ silent' \subseteq pending /\ breaks' \in Nat
    BY <1>3 DEF GoSilent, TypeOK
  <2> QED
    BY <1>3, <2>1 DEF GoSilent, TypeOK, serverVars
<1> QED
  BY <1>1, <1>2, <1>3

\* A step of a thread, or of the server as a whole, keeps TypeOK.
LEMMA ServerType ==
  ASSUME TypeOK,
         (\E w \in Workers : HandlerStep(w)) \/ ServerDies \/ ServerStarts
  PROVE  TypeOK'
<1>1. ASSUME NEW w \in Workers, Start(w), StartSet(w) PROVE TypeOK'
  <2>1. PICK m \in requests :
          /\ m[1] \in Agents
          /\ requests' = requests \ {m}
          /\ handler' = [v \in Workers |->
               IF v = w
               THEN Begun("clear", m, IF \E u \in Workers : Setting(u) THEN Unknown ELSE m)
               ELSE IF handler[v].pass \in SetPasses \cup {"copy"}
                    THEN [handler[v] EXCEPT !.expect = Unknown]
                    ELSE handler[v]]
          /\ settled' = Unknown
          /\ UNCHANGED monitorInfos_
    BY <1>1 DEF StartSet
  <2>2. m \in Calls /\ m \in Samples
    BY <2>1 DEF TypeOK, Calls, Samples, Clients
  <2>3. ASSUME NEW v \in Workers PROVE handler'[v] \in Handlers /\ HandlerOK(handler'[v])
    <3>1. CASE v = w
      <4> DEFINE e == IF \E u \in Workers : Setting(u) THEN Unknown ELSE m
      <4>1. handler'[v] = [pass |-> "clear", todo |-> Fields, call |-> m,
                           info |-> Empty, expect |-> e]
        BY <2>1, <3>1 DEF Begun
      <4>2. e \in Samples \cup {None, Unknown}
        BY <2>2
      <4> QED
        BY <4>1, <4>2, <2>2, EmptyType, ServerAssumption DEF Handlers, HandlerOK, SetPasses
    <3>2. CASE v # w
      <4>1. handler'[v] \in {handler[v], [handler[v] EXCEPT !.expect = Unknown]}
        BY <2>1, <3>2
      <4>2. handler[v] \in Handlers /\ HandlerOK(handler[v])
        BY DEF TypeOK
      <4> QED
        BY <4>1, <4>2 DEF Handlers, HandlerOK
    <3> QED
      BY <3>1, <3>2
  <2>4. handler' \in [Workers -> Handlers]
    BY <2>1, <2>3
  <2> QED
    BY <1>1, <2>1, <2>3, <2>4 DEF Start, TypeOK
<1>2. ASSUME NEW w \in Workers, Start(w), StartGet(w) PROVE TypeOK'
  <2>1. PICK m \in requests :
          /\ m[1] \in Readers
          /\ requests' = requests \ {m}
          /\ handler' = [handler EXCEPT ![w] = Begun("copy", m, settled)]
          /\ UNCHANGED <<monitorInfos_, settled>>
    BY <1>2 DEF StartGet
  <2> DEFINE g == Begun("copy", m, settled)
  <2>2. m \in Calls \ Samples
    BY <2>1, ServerAssumption DEF TypeOK, Samples
  <2>3. settled \in Samples \cup {None, Unknown}
    BY DEF TypeOK
  <2>4. g = [pass |-> "copy", todo |-> Fields, call |-> m, info |-> Empty, expect |-> settled]
    BY DEF Begun
  <2>5. g \in Handlers /\ HandlerOK(g)
    <3> HIDE DEF g
    <3>1. g \in Handlers
      BY <2>2, <2>3, <2>4, EmptyType DEF Handlers, SetPasses
    <3>2. HandlerOK(g)
      BY <2>2, <2>4, ServerAssumption DEF HandlerOK, SetPasses
    <3> QED
      BY <3>1, <3>2
  <2>6. handler' \in [Workers -> Handlers] /\ \A v \in Workers : HandlerOK(handler'[v])
    BY <2>1, <2>5, OneHandler
  <2> QED
    BY <1>2, <2>1, <2>6 DEF Start, TypeOK
<1>3. ASSUME NEW w \in Workers, ClearField(w) \/ MergeField(w) PROVE TypeOK'
  <2>1. PICK f \in handler[w].todo : handler' = [handler EXCEPT ![w] = Advance(w, f)]
                                   /\ \/ monitorInfos_' = [monitorInfos_ EXCEPT ![f] = <<>>]
                                      \/ /\ handler[w].pass = "merge"
                                         /\ monitorInfos_' = [monitorInfos_ EXCEPT ![f] =
                                              IF f \in Repeated THEN Append(@, handler[w].call)
                                              ELSE <<handler[w].call>>]
    BY <1>3 DEF ClearField, MergeField
  <2>2. handler[w] \in Handlers /\ HandlerOK(handler[w]) /\ handler[w].pass \in SetPasses
    BY <1>3 DEF TypeOK, ClearField, MergeField, SetPasses
  <2>3. handler' \in [Workers -> Handlers] /\ \A v \in Workers : HandlerOK(handler'[v])
    BY <2>1, <2>2, AdvanceStep, OneHandler
  <2>4. f \in Fields /\ handler[w].call \in Samples
    BY <2>1, <2>2 DEF Handlers, HandlerOK
  <2>5. monitorInfos_' \in Messages
    <3>1. monitorInfos_ \in [Fields -> Seq(Samples)]
      BY DEF TypeOK, Messages
    <3>2. monitorInfos_[f] \in Seq(Samples)
      BY <2>4, <3>1
    <3>3. /\ Append(monitorInfos_[f], handler[w].call) \in Seq(Samples)
          /\ <<handler[w].call>> \in Seq(Samples)
          /\ <<>> \in Seq(Samples)
      BY <2>4, <3>2
    <3>4. PICK s \in Seq(Samples) : monitorInfos_' = [monitorInfos_ EXCEPT ![f] = s]
      BY <2>1, <3>1, <3>3, <2>4
    <3> QED
      BY <3>1, <3>4, <2>4 DEF Messages
  <2>6. settled' \in {settled, handler[w].expect}
    BY <1>3 DEF ClearField, MergeField
  <2>7. settled' \in Samples \cup {None, Unknown}
    BY <2>2, <2>6 DEF TypeOK, Handlers
  <2> QED
    BY <1>3, <2>3, <2>5, <2>7 DEF ClearField, MergeField, TypeOK, clientVars
<1>4. ASSUME NEW w \in Workers, CopyField(w) PROVE TypeOK'
  <2>1. PICK f \in handler[w].todo :
          handler' = [handler EXCEPT ![w] = [Advance(w, f) EXCEPT !.info[f] = monitorInfos_[f]]]
    BY <1>4 DEF CopyField
  <2> DEFINE g == [Advance(w, f) EXCEPT !.info[f] = monitorInfos_[f]]
  <2>2. handler[w] \in Handlers /\ HandlerOK(handler[w]) /\ handler[w].pass = "copy"
    BY <1>4 DEF TypeOK, CopyField
  <2>3. Advance(w, f) \in Handlers /\ HandlerOK(Advance(w, f))
    BY <2>1, <2>2, AdvanceStep
  <2>4. f \in Fields
    BY <2>1, <2>2 DEF Handlers
  <2>5. [Advance(w, f).info EXCEPT ![f] = monitorInfos_[f]] \in Messages
    BY <2>3, <2>4 DEF Handlers, Messages, TypeOK
  <2>6. g = [Advance(w, f) EXCEPT !.info = [Advance(w, f).info EXCEPT ![f] = monitorInfos_[f]]]
    BY <2>3 DEF Handlers
  <2>7. g \in Handlers /\ HandlerOK(g)
    BY <2>3, <2>5, <2>6 DEF Handlers, HandlerOK
  <2>8. handler' \in [Workers -> Handlers] /\ \A v \in Workers : HandlerOK(handler'[v])
    BY <2>1, <2>7, OneHandler
  <2> QED
    BY <1>4, <2>8 DEF CopyField, TypeOK, clientVars
<1>5. ASSUME NEW w \in Workers, Reply(w) PROVE TypeOK'
  <2>1. handler' \in [Workers -> Handlers] /\ \A v \in Workers : HandlerOK(handler'[v])
    BY <1>5, FreeOK, OneHandler DEF Reply
  <2>2. handler[w].call \in Calls
    BY <1>5 DEF Reply, TypeOK, HandlerOK
  <2>3. acked' \in [Clients -> Nat] /\ silent' \subseteq pending' /\ pending' \subseteq pending
    BY <1>5, <2>2 DEF Reply, TypeOK, Calls
  <2> QED
    BY <1>5, <2>1, <2>3 DEF Reply, TypeOK
<1>6. CASE ServerDies
  <2>1. handler' \in [Workers -> Handlers] /\ \A v \in Workers : HandlerOK(handler'[v])
    BY <1>6, FreeOK DEF ServerDies
  <2>2. up' \in BOOLEAN
    BY <1>6 DEF ServerDies
  <2> QED
    BY <1>6, <2>1, <2>2, EmptyType DEF ServerDies, TypeOK
<1>7. CASE ServerStarts
  BY <1>7 DEF ServerStarts, TypeOK, serverVars, clientVars
<1> QED
  BY <1>1, <1>2, <1>3, <1>4, <1>5, <1>6, <1>7 DEF HandlerStep, Start

LEMMA NextType == TypeOK /\ [Next]_vars => TypeOK'
<1> SUFFICES ASSUME TypeOK, [Next]_vars PROVE TypeOK'
  OBVIOUS
<1>1. CASE UNCHANGED vars
  BY <1>1 DEF vars, serverVars, clientVars, TypeOK
<1>2. CASE Next
  BY <1>2, ClientType, ServerType DEF Next, Clients
<1> QED
  BY <1>1, <1>2

\* Every variable keeps to its type, and a thread in a pass has a call of the
\* kind that makes the pass.
THEOREM TypeCorrect == Spec => []TypeOK
BY InitType, NextType, PTL DEF Spec

-----------------------------------------------------------------------------
(***************************************************************************)
(* What the store holds and what a reader gets.                            *)
(*                                                                         *)
(* SettledStore alone is not inductive: it says nothing of a Set that is   *)
(* under way.  LoneSet follows such a Set through its passes, field by     *)
(* field, and QuietGet follows a Get.                                      *)
(***************************************************************************)

\* While no Set runs, the store holds the settled sample.
Quiet ==
  settled # Unknown =>
    (\A w \in Workers : ~Setting(w)) /\ monitorInfos_ = Content(settled)

\* Field f as the Set of thread w, undisturbed, has left it so far.
LeftBy(w, f) ==
  /\ handler[w].pass = "clear" /\ f \notin handler[w].todo => monitorInfos_[f] = <<>>
  /\ handler[w].pass = "clearAgain" => monitorInfos_[f] = <<>>
  /\ handler[w].pass = "merge" =>
       monitorInfos_[f] = IF f \in handler[w].todo THEN <<>> ELSE <<handler[w].call>>

LoneSet ==
  \A w \in Workers :
    Setting(w) /\ handler[w].expect # Unknown =>
      /\ handler[w].expect = handler[w].call
      /\ \A v \in Workers \ {w} : ~Setting(v)
      /\ \A f \in Fields : LeftBy(w, f)

QuietGet ==
  \A w \in Workers :
    handler[w].pass = "copy" /\ handler[w].expect # Unknown =>
      /\ handler[w].expect = settled
      /\ \A f \in Fields \ handler[w].todo :
           handler[w].info[f] = Content(handler[w].expect)[f]

StoreInv == TypeOK /\ Quiet /\ LoneSet /\ QuietGet /\ SettledReads

\* StoreInv reads nothing else.
LEMMA StoreUnchanged ==
  ASSUME StoreInv, TypeOK', UNCHANGED serverVars
  PROVE  StoreInv'
BY DEF StoreInv, Quiet, LoneSet, QuietGet, SettledReads, LeftBy, Setting, serverVars

\* A Set that starts disturbs every other Set and every Get.
LEMMA StoreStartSet ==
  ASSUME StoreInv, TypeOK', NEW w \in Workers, handler[w].pass = "free", StartSet(w)
  PROVE  StoreInv'
<1>1. PICK m \in requests :
        /\ handler' = [v \in Workers |->
             IF v = w
             THEN Begun("clear", m, IF \E u \in Workers : Setting(u) THEN Unknown ELSE m)
             ELSE IF handler[v].pass \in SetPasses \cup {"copy"}
                  THEN [handler[v] EXCEPT !.expect = Unknown]
                  ELSE handler[v]]
        /\ settled' = Unknown
        /\ UNCHANGED monitorInfos_
  BY DEF StartSet
<1>2. /\ handler'[w].pass = "clear" /\ handler'[w].todo = Fields /\ handler'[w].call = m
      /\ handler'[w].expect = IF \E u \in Workers : Setting(u) THEN Unknown ELSE m
  BY <1>1 DEF Begun
<1>3. ASSUME NEW v \in Workers \ {w}
      PROVE  /\ handler'[v].pass = handler[v].pass
             /\ handler[v].pass \in SetPasses \cup {"copy"} => handler'[v].expect = Unknown
             /\ handler[v].pass \notin SetPasses \cup {"copy"} => handler'[v] = handler[v]
  BY <1>1 DEF StoreInv, TypeOK, Handlers
<1>4. Quiet'
  BY <1>1 DEF Quiet
<1>5. LoneSet'
  <2> SUFFICES ASSUME NEW v \in Workers, Setting(v)', handler'[v].expect # Unknown
               PROVE  /\ handler'[v].expect = handler'[v].call
                      /\ \A u \in Workers \ {v} : ~Setting(u)'
                      /\ \A f \in Fields : LeftBy(v, f)'
    BY DEF LoneSet
  <2>1. v = w
    BY <1>3 DEF Setting
  <2>2. handler'[w].expect = m /\ \A u \in Workers : ~Setting(u)
    BY <1>2, <2>1
  <2>3. \A u \in Workers \ {w} : ~Setting(u)'
    BY <1>3, <2>2 DEF Setting
  <2>4. \A f \in Fields : LeftBy(w, f)'
    BY <1>2 DEF LeftBy
  <2> QED
    BY <1>2, <2>1, <2>2, <2>3, <2>4
<1>6. QuietGet'
  BY <1>2, <1>3 DEF QuietGet
<1>7. SettledReads'
  BY <1>2, <1>3 DEF StoreInv, SettledReads, SetPasses
<1> QED
  BY <1>4, <1>5, <1>6, <1>7 DEF StoreInv

\* A thread that takes no part in a Set does not disturb one.
LEMMA LoneSetKept ==
  ASSUME LoneSet, NEW w \in Workers, ~Setting(w), ~Setting(w)', UNCHANGED monitorInfos_,
         \A v \in Workers \ {w} : handler'[v] = handler[v]
  PROVE  LoneSet'
<1> SUFFICES ASSUME NEW v \in Workers, Setting(v)', handler'[v].expect # Unknown
             PROVE  /\ handler'[v].expect = handler'[v].call
                    /\ \A u \in Workers \ {v} : ~Setting(u)'
                    /\ \A f \in Fields : LeftBy(v, f)'
  BY DEF LoneSet
<1>1. v # w /\ handler'[v] = handler[v]
  OBVIOUS
<1>2. Setting(v) /\ handler[v].expect # Unknown
  BY <1>1 DEF Setting
<1>3. \A u \in Workers \ {v} : ~Setting(u)
  BY <1>2 DEF LoneSet
<1>4. \A u \in Workers \ {v} : ~Setting(u)'
  BY <1>3 DEF Setting
<1>5. \A f \in Fields : LeftBy(v, f)'
  <2> SUFFICES ASSUME NEW f \in Fields PROVE LeftBy(v, f)'
    OBVIOUS
  <2>1. LeftBy(v, f)
    BY <1>2 DEF LoneSet
  <2> QED
    BY <1>1, <2>1 DEF LeftBy
<1>6. handler[v].expect = handler[v].call
  BY <1>2 DEF LoneSet
<1> QED
  BY <1>1, <1>4, <1>5, <1>6

LEMMA StoreStartGet ==
  ASSUME StoreInv, TypeOK', NEW w \in Workers, handler[w].pass = "free", StartGet(w)
  PROVE  StoreInv'
<1>1. PICK m \in requests : /\ handler' = [handler EXCEPT ![w] = Begun("copy", m, settled)]
                            /\ UNCHANGED <<monitorInfos_, settled>>
  BY DEF StartGet
<1>2. /\ handler'[w].pass = "copy" /\ handler'[w].todo = Fields
      /\ handler'[w].expect = settled
  BY <1>1 DEF Begun, StoreInv, TypeOK
<1>3. \A v \in Workers \ {w} : handler'[v] = handler[v]
  BY <1>1 DEF StoreInv, TypeOK
<1>4. \A v \in Workers : Setting(v)' <=> Setting(v)
  BY <1>2, <1>3 DEF Setting, SetPasses
<1>5. Quiet'
  BY <1>1, <1>4 DEF StoreInv, Quiet
<1>6. LoneSet'
  BY <1>1, <1>2, <1>3, LoneSetKept DEF StoreInv, Setting, SetPasses
<1>7. QuietGet'
  BY <1>1, <1>2, <1>3 DEF StoreInv, QuietGet
<1>8. SettledReads'
  BY <1>2, <1>3 DEF StoreInv, SettledReads
<1> QED
  BY <1>5, <1>6, <1>7, <1>8 DEF StoreInv

\* A step of a Set.  If nothing disturbed it, it is the only one.
LEMMA StoreSetStep ==
  ASSUME StoreInv, TypeOK', NEW w \in Workers, ClearField(w) \/ MergeField(w)
  PROVE  StoreInv'
<1> DEFINE h == handler[w]
<1>1. Setting(w)
  BY DEF ClearField, MergeField, Setting, SetPasses
<1>2. settled = Unknown
  BY <1>1 DEF StoreInv, Quiet
<1>3. h \in Handlers /\ HandlerOK(h) /\ h.call \in Samples
  BY <1>1 DEF StoreInv, TypeOK, HandlerOK, Setting
<1>4. PICK f \in h.todo :
        /\ handler' = [handler EXCEPT ![w] = Advance(w, f)]
        /\ \/ /\ h.pass \in {"clear", "clearAgain"}
              /\ monitorInfos_' = [monitorInfos_ EXCEPT ![f] = <<>>]
              /\ settled' = settled
           \/ /\ h.pass = "merge"
              /\ monitorInfos_' = [monitorInfos_ EXCEPT ![f] =
                   IF f \in Repeated THEN Append(@, h.call) ELSE <<h.call>>]
              /\ settled' = IF h.todo = {f} THEN h.expect ELSE settled
  BY DEF ClearField, MergeField
<1>5. \A v \in Workers \ {w} : handler'[v] = handler[v]
  BY <1>4 DEF StoreInv, TypeOK
<1>6. handler'[w] = Advance(w, f)
  BY <1>4 DEF StoreInv, TypeOK
<1>7. /\ handler'[w].call = h.call /\ handler'[w].expect = h.expect
      /\ h.todo # {f} => handler'[w].pass = h.pass /\ handler'[w].todo = h.todo \ {f}
      /\ h.todo = {f} =>
           /\ handler'[w].pass = NextPass[h.pass]
           /\ handler'[w].todo = IF h.pass \in {"merge", "copy"} THEN {} ELSE Fields
  BY <1>1, <1>3, <1>6, AdvanceStep DEF Setting
<1>8. monitorInfos_ \in [Fields -> Seq(Samples)] /\ f \in Fields /\ h.todo \subseteq Fields
  BY <1>3 DEF StoreInv, TypeOK, Messages, Handlers
<1>9. /\ h.pass = "clear" => NextPass[h.pass] = "clearAgain"
      /\ h.pass = "clearAgain" => NextPass[h.pass] = "merge"
      /\ h.pass = "merge" => NextPass[h.pass] = "done"
  BY DEF NextPass
<1>10. ASSUME h.expect # Unknown
       PROVE  /\ h.expect = h.call
              /\ \A v \in Workers \ {w} : ~Setting(v)
              /\ \A g \in Fields : LeftBy(w, g)
  BY <1>1, <1>10 DEF StoreInv, LoneSet
<1>11. ASSUME h.expect # Unknown, NEW g \in Fields
       PROVE  /\ LeftBy(w, g)'
              /\ handler'[w].pass = "done" => monitorInfos_'[g] = <<h.call>>
  <2>1. LeftBy(w, g)
    BY <1>10, <1>11
  <2>2. CASE g = f
    <3>1. /\ h.pass \in {"clear", "clearAgain"} => monitorInfos_'[g] = <<>>
          /\ h.pass = "merge" => monitorInfos_'[g] = <<h.call>>
      BY <1>4, <1>8, <2>1, <2>2 DEF LeftBy
    <3> QED
      BY <1>1, <1>7, <1>9, <2>2, <3>1 DEF LeftBy, Setting, SetPasses
  <2>3. CASE g # f
    <3>1. monitorInfos_'[g] = monitorInfos_[g]
      BY <1>4, <1>8, <2>3
    <3> QED
      BY <1>1, <1>7, <1>9, <2>1, <2>3, <3>1 DEF LeftBy, Setting, SetPasses
  <2> QED
    BY <2>2, <2>3
<1>12. Quiet'
  <2> SUFFICES ASSUME settled' # Unknown
               PROVE  (\A v \in Workers : ~Setting(v)') /\ monitorInfos_' = Content(settled)'
    BY DEF Quiet
  <2>1. h.pass = "merge" /\ h.todo = {f} /\ settled' = h.expect /\ h.expect # Unknown
    BY <1>2, <1>4
  <2>2. handler'[w].pass = "done"
    BY <1>7, <1>9, <2>1
  <2>3. \A v \in Workers : ~Setting(v)'
    BY <1>5, <1>10, <2>1, <2>2 DEF Setting, SetPasses
  <2>4. \A g \in Fields : monitorInfos_'[g] = <<h.call>>
    BY <1>11, <2>1, <2>2
  <2>5. monitorInfos_' = [g \in Fields |-> <<h.call>>]
    BY <2>4 DEF TypeOK, Messages
  <2>6. settled' = h.call /\ h.call # None
    BY <1>3, <1>10, <2>1, ServerAssumption DEF Samples, Calls, Clients
  <2> QED
    BY <2>3, <2>5, <2>6 DEF Content
<1>13. LoneSet'
  <2> SUFFICES ASSUME NEW v \in Workers, Setting(v)', handler'[v].expect # Unknown
               PROVE  /\ handler'[v].expect = handler'[v].call
                      /\ \A u \in Workers \ {v} : ~Setting(u)'
                      /\ \A g \in Fields : LeftBy(v, g)'
    BY DEF LoneSet
  <2>1. v = w
    <3> SUFFICES ASSUME v # w PROVE FALSE
      OBVIOUS
    <3>1. Setting(v) /\ handler[v].expect # Unknown
      BY <1>5 DEF Setting
    <3> QED
      BY <1>1, <3>1 DEF StoreInv, LoneSet
  <2>2. h.expect # Unknown
    BY <1>7, <2>1
  <2>3. \A u \in Workers \ {w} : ~Setting(u)'
    BY <1>5, <1>10, <2>2 DEF Setting
  <2> QED
    BY <1>7, <1>10, <1>11, <2>1, <2>2, <2>3
<1>14. handler'[w].pass # "copy"
  BY <1>1, <1>7, <1>9 DEF Setting, SetPasses
<1>15. QuietGet'
  BY <1>2, <1>5, <1>14 DEF StoreInv, QuietGet
<1>16. handler'[w].call[1] \notin Readers
  BY <1>3, <1>7, ServerAssumption DEF Samples
<1>17. SettledReads'
  BY <1>5, <1>16 DEF StoreInv, SettledReads
<1> QED
  BY <1>12, <1>13, <1>15, <1>17 DEF StoreInv

LEMMA StoreCopyField ==
  ASSUME StoreInv, TypeOK', NEW w \in Workers, CopyField(w)
  PROVE  StoreInv'
<1> DEFINE h == handler[w]
<1>1. h.pass = "copy" /\ UNCHANGED <<monitorInfos_, settled>>
  BY DEF CopyField
<1>2. PICK f \in h.todo :
        handler' = [handler EXCEPT ![w] = [Advance(w, f) EXCEPT !.info[f] = monitorInfos_[f]]]
  BY DEF CopyField
<1>3. h \in Handlers /\ HandlerOK(h)
  BY DEF StoreInv, TypeOK
<1>4. \A v \in Workers \ {w} : handler'[v] = handler[v]
  BY <1>2 DEF StoreInv, TypeOK
<1>5. /\ Advance(w, f) \in Handlers
      /\ Advance(w, f).call = h.call /\ Advance(w, f).expect = h.expect
      /\ Advance(w, f).info = h.info
      /\ h.todo # {f} => Advance(w, f).pass = h.pass /\ Advance(w, f).todo = h.todo \ {f}
      /\ h.todo = {f} => Advance(w, f).pass = NextPass[h.pass] /\ Advance(w, f).todo = {}
  BY <1>1, <1>3, AdvanceStep
<1>6. /\ handler'[w].call = h.call /\ handler'[w].expect = h.expect
      /\ handler'[w].info = [h.info EXCEPT ![f] = monitorInfos_[f]]
      /\ handler'[w].pass = Advance(w, f).pass /\ handler'[w].todo = Advance(w, f).todo
  BY <1>2, <1>5 DEF StoreInv, TypeOK, Handlers
<1>7. NextPass["copy"] = "done"
  BY DEF NextPass
<1>8. handler'[w].pass \in {"copy", "done"} /\ ~Setting(w) /\ ~Setting(w)'
  BY <1>1, <1>5, <1>6, <1>7 DEF Setting, SetPasses
<1>9. \A v \in Workers : Setting(v)' <=> Setting(v)
  BY <1>4, <1>8 DEF Setting
<1>10. ASSUME h.expect # Unknown
       PROVE  /\ h.expect = settled
              /\ \A g \in Fields \ handler'[w].todo :
                   handler'[w].info[g] = Content(h.expect)[g]
  <2>1. /\ h.expect = settled
        /\ \A g \in Fields \ h.todo : h.info[g] = Content(h.expect)[g]
    BY <1>1, <1>10 DEF StoreInv, QuietGet
  <2>2. monitorInfos_ = Content(h.expect)
    BY <1>10, <2>1 DEF StoreInv, Quiet
  <2>3. Fields \ handler'[w].todo \subseteq (Fields \ h.todo) \cup {f}
    BY <1>5, <1>6
  <2>4. h.info \in Messages /\ f \in Fields
    BY <1>3 DEF Handlers
  <2> QED
    BY <1>6, <2>1, <2>2, <2>3, <2>4 DEF Messages
<1>11. Quiet'
  BY <1>1, <1>9 DEF StoreInv, Quiet
<1>12. LoneSet'
  BY <1>1, <1>4, <1>8, LoneSetKept DEF StoreInv
<1>13. QuietGet'
  <2> SUFFICES ASSUME NEW v \in Workers, handler'[v].pass = "copy", handler'[v].expect # Unknown
               PROVE  /\ handler'[v].expect = settled'
                      /\ \A g \in Fields \ handler'[v].todo :
                           handler'[v].info[g] = Content(handler'[v].expect)[g]
    BY DEF QuietGet
  <2>1. CASE v = w
    BY <1>1, <1>6, <1>10, <2>1
  <2>2. CASE v # w
    BY <1>1, <1>4, <2>2 DEF StoreInv, QuietGet
  <2> QED
    BY <2>1, <2>2
<1>14. ASSUME handler'[w].pass = "done", h.expect # Unknown
       PROVE  handler'[w].info = Content(h.expect)
  <2>1. handler'[w].todo = {}
    BY <1>14 DEF TypeOK, HandlerOK
  <2>2. \A g \in Fields : handler'[w].info[g] = Content(h.expect)[g]
    BY <1>10, <1>14, <2>1
  <2>3. handler'[w].info \in Messages
    BY DEF TypeOK, Handlers
  <2> QED
    BY <2>2, <2>3 DEF Messages, Content, Empty
<1>15. SettledReads'
  BY <1>4, <1>6, <1>14 DEF StoreInv, SettledReads
<1> QED
  BY <1>11, <1>12, <1>13, <1>15 DEF StoreInv

LEMMA StoreReply ==
  ASSUME StoreInv, TypeOK', NEW w \in Workers, Reply(w)
  PROVE  StoreInv'
<1>1. /\ handler[w].pass = "done" /\ handler' = [handler EXCEPT ![w] = Free]
      /\ UNCHANGED <<monitorInfos_, settled>>
  BY DEF Reply
<1>2. handler'[w].pass = "free"
  BY <1>1 DEF StoreInv, TypeOK, Free
<1>3. \A v \in Workers \ {w} : handler'[v] = handler[v]
  BY <1>1 DEF StoreInv, TypeOK
<1>4. \A v \in Workers : Setting(v)' <=> Setting(v)
  BY <1>1, <1>2, <1>3 DEF Setting, SetPasses
<1>5. Quiet'
  BY <1>1, <1>4 DEF StoreInv, Quiet
<1>6. LoneSet'
  BY <1>1, <1>2, <1>3, LoneSetKept DEF StoreInv, Setting, SetPasses
<1>7. QuietGet' /\ SettledReads'
  BY <1>1, <1>2, <1>3 DEF StoreInv, QuietGet, SettledReads
<1> QED
  BY <1>5, <1>6, <1>7 DEF StoreInv

LEMMA StoreServerDies ==
  ASSUME StoreInv, TypeOK', ServerDies
  PROVE  StoreInv'
<1>1. monitorInfos_' = Empty /\ settled' = None
  BY DEF ServerDies
<1>2. \A w \in Workers : handler'[w].pass = "free"
  BY DEF ServerDies, Free
<1> QED
  BY <1>1, <1>2 DEF StoreInv, Quiet, LoneSet, QuietGet, SettledReads, Setting, SetPasses, Content

LEMMA StoreInit == Init => StoreInv
<1> SUFFICES ASSUME Init PROVE StoreInv
  OBVIOUS
<1>1. \A w \in Workers : handler[w].pass = "free"
  BY DEF Init, Free
<1>2. monitorInfos_ = Content(settled)
  BY DEF Init, Content
<1> QED
  BY <1>1, <1>2, InitType
     DEF StoreInv, Quiet, LoneSet, QuietGet, SettledReads, Setting, SetPasses

LEMMA StoreNext == StoreInv /\ [Next]_vars => StoreInv'
<1> SUFFICES ASSUME StoreInv, [Next]_vars PROVE StoreInv'
  OBVIOUS
<1>1. TypeOK'
  BY NextType DEF StoreInv
<1>2. CASE UNCHANGED vars
  BY <1>1, <1>2, StoreUnchanged DEF vars
<1>3. ASSUME NEW c \in Clients,
             (c \in Agents /\ Send(c)) \/ (c \in Readers /\ Ask(c)) \/ Break(c) \/ GoSilent(c)
             \/ HangUp(c)
      PROVE  StoreInv'
  BY <1>1, <1>3, ClientType, StoreUnchanged DEF StoreInv
<1>4. ASSUME NEW w \in Workers, HandlerStep(w) PROVE StoreInv'
  <2>1. CASE Start(w)
    BY <1>1, <2>1, StoreStartSet, StoreStartGet DEF Start
  <2>2. CASE ClearField(w) \/ MergeField(w)
    BY <1>1, <2>2, StoreSetStep
  <2>3. CASE CopyField(w)
    BY <1>1, <2>3, StoreCopyField
  <2>4. CASE Reply(w)
    BY <1>1, <2>4, StoreReply
  <2> QED
    BY <1>4, <2>1, <2>2, <2>3, <2>4 DEF HandlerStep
<1>5. CASE ServerDies
  BY <1>1, <1>5, StoreServerDies
<1>6. CASE ServerStarts
  BY <1>1, <1>6, StoreUnchanged DEF ServerStarts
<1> QED
  BY <1>2, <1>3, <1>4, <1>5, <1>6 DEF Next, Clients

\* A Set that no other overlaps leaves exactly its sample, whatever was there.
THEOREM StoreSettles == Spec => []SettledStore
<1>1. StoreInv => SettledStore
  BY DEF StoreInv, Quiet, SettledStore
<1> QED
  BY StoreInit, StoreNext, <1>1, PTL DEF Spec

\* A Get that no Set overlaps returns one whole sample, the last one.
THEOREM ReadsSettle == Spec => []SettledReads
<1>1. StoreInv => SettledReads
  BY DEF StoreInv
<1> QED
  BY StoreInit, StoreNext, <1>1, PTL DEF Spec

-----------------------------------------------------------------------------
(***************************************************************************)
(* How old the store may be.                                               *)
(*                                                                         *)
(* A call that is at the server or on its way there is the one its client  *)
(* waits in, or was given up (Awaited), and is there once (OnceOnly).  The *)
(* fields that its handler has cleared hold nothing older from its client  *)
(* but what was given up (NoOlder), so that when the client is told, the   *)
(* whole store holds nothing older.                                        *)
(***************************************************************************)
InFlight(m) == m \in requests \/ AtServer(m)

Awaited ==
  \A m \in Calls : InFlight(m) =>
    /\ m[2] <= count[m[1]]
    /\ m \in abandoned \/ (m[1] \in pending /\ m = Current(m[1]))

OnceOnly ==
  \A w \in Workers : handler[w].call # None =>
    /\ handler[w].call \notin requests
    /\ \A v \in Workers \ {w} : handler[v].call # handler[w].call

AckedCounted == \A c \in Clients : acked[c] <= count[c]

Older(s, m) == s[1] = m[1] /\ s[2] < m[2]

NoOlderIn(w, f) ==
  handler[w].call # None /\ (handler[w].pass = "clear" => f \notin handler[w].todo) =>
    \A i \in DOMAIN monitorInfos_[f] :
      Older(monitorInfos_[f][i], handler[w].call) => monitorInfos_[f][i] \in abandoned

NoOlder == \A w \in Workers : \A f \in Fields : NoOlderIn(w, f)

AgeInv == TypeOK /\ Awaited /\ OnceOnly /\ AckedCounted /\ NoOlder /\ StaleOnlyByStray

LEMMA AgeInit == Init => AgeInv
<1> SUFFICES ASSUME Init PROVE AgeInv
  OBVIOUS
<1>1. \A w \in Workers : handler[w].call = None
  BY DEF Init, Free
<1>2. \A m \in Calls : ~InFlight(m)
  BY <1>1, ServerAssumption DEF Init, InFlight, AtServer
<1>3. \A f \in Fields : DOMAIN monitorInfos_[f] = {}
  BY DEF Init, Empty
<1>4. AckedCounted
  BY DEF Init, AckedCounted
<1> QED
  BY <1>1, <1>2, <1>3, <1>4, InitType DEF AgeInv, Awaited, OnceOnly, NoOlder, NoOlderIn, StaleOnlyByStray

\* The store and the threads' view of it as calls are given up.
LEMMA AgeServerKept ==
  ASSUME AgeInv, UNCHANGED serverVars, UNCHANGED acked, abandoned \subseteq abandoned'
  PROVE  NoOlder' /\ StaleOnlyByStray'
BY DEF AgeInv, NoOlder, NoOlderIn, StaleOnlyByStray, Older, serverVars

LEMMA AgeInvoke ==
  ASSUME AgeInv, TypeOK', NEW c \in Clients, c \notin pending, Invoke(c), UNCHANGED abandoned
  PROVE  AgeInv'
<1> DEFINE n == <<c, count[c] + 1>>
<1>1. /\ requests' = requests \cup {n} /\ pending' = pending \cup {c}
      /\ count' = [count EXCEPT ![c] = @ + 1]
      /\ UNCHANGED serverVars /\ UNCHANGED acked /\ handler' = handler
  BY DEF Invoke, serverVars
<1>2. count \in [Clients -> Nat] /\ acked \in [Clients -> Nat] /\ n \in Calls
  BY DEF AgeInv, TypeOK, Calls
<1>3. ~InFlight(n)
  BY <1>2 DEF AgeInv, Awaited
<1>4. Awaited'
  <2> SUFFICES ASSUME NEW m \in Calls, InFlight(m)'
               PROVE  /\ m[2] <= count'[m[1]]
                      /\ m \in abandoned \/ (m[1] \in pending' /\ m = Current(m[1])')
    BY DEF Awaited
  <2>1. CASE m = n
    BY <1>1, <1>2, <2>1 DEF Current
  <2>2. CASE m # n
    <3>1. InFlight(m)
      BY <1>1, <2>2 DEF InFlight, AtServer
    <3>2. /\ m[2] <= count[m[1]]
          /\ m \in abandoned \/ (m[1] \in pending /\ m = Current(m[1]))
      BY <3>1 DEF AgeInv, Awaited
    <3>3. m[1] \in Clients /\ m[2] \in Nat
      BY DEF Calls
    <3>4. m[2] <= count'[m[1]]
      BY <1>1, <1>2, <3>2, <3>3
    <3>5. CASE m[1] = c
      BY <3>2, <3>4, <3>5
    <3>6. CASE m[1] # c
      BY <1>1, <1>2, <3>2, <3>3, <3>4, <3>6 DEF Current
    <3> QED
      BY <3>5, <3>6
  <2> QED
    BY <2>1, <2>2
<1>5. OnceOnly'
  BY <1>1, <1>3 DEF AgeInv, OnceOnly, InFlight, AtServer
<1>6. AckedCounted'
  BY <1>1, <1>2 DEF AgeInv, AckedCounted
<1>7. NoOlder' /\ StaleOnlyByStray'
  BY <1>1, AgeServerKept
<1> QED
  BY <1>4, <1>5, <1>6, <1>7 DEF AgeInv

LEMMA AgeFailed ==
  ASSUME AgeInv, TypeOK', NEW c \in Clients, requests' \subseteq requests, Failed(c)
  PROVE  AgeInv'
<1>1. /\ pending' = pending \ {c} /\ abandoned' = abandoned \cup {Current(c)}
      /\ UNCHANGED serverVars /\ UNCHANGED acked /\ count' = count /\ handler' = handler
  BY DEF Failed, serverVars
<1>2. Awaited'
  <2> SUFFICES ASSUME NEW m \in Calls, InFlight(m)'
               PROVE  /\ m[2] <= count'[m[1]]
                      /\ m \in abandoned' \/ (m[1] \in pending' /\ m = Current(m[1])')
    BY DEF Awaited
  <2>1. InFlight(m)
    BY <1>1 DEF InFlight, AtServer
  <2>2. /\ m[2] <= count[m[1]]
        /\ m \in abandoned \/ (m[1] \in pending /\ m = Current(m[1]))
    BY <2>1 DEF AgeInv, Awaited
  <2>3. Current(m[1])' = Current(m[1])
    BY <1>1 DEF Current
  <2> QED
    BY <1>1, <2>2, <2>3
<1>3. OnceOnly'
  BY <1>1 DEF AgeInv, OnceOnly
<1>4. AckedCounted'
  BY <1>1 DEF AgeInv, AckedCounted
<1>5. NoOlder' /\ StaleOnlyByStray'
  BY <1>1, AgeServerKept
<1> QED
  BY <1>2, <1>3, <1>4, <1>5 DEF AgeInv

\* A request that is lost leaves the rest as it is.
LEMMA AgeRequestLost ==
  ASSUME AgeInv, TypeOK', requests' \subseteq requests,
         UNCHANGED <<serverVars, count, pending, acked, abandoned>>
  PROVE  AgeInv'
<1>1. /\ UNCHANGED serverVars /\ handler' = handler
      /\ UNCHANGED <<count, pending, acked, abandoned>>
  BY DEF serverVars
<1>2. Awaited'
  <2> SUFFICES ASSUME NEW m \in Calls, InFlight(m)'
               PROVE  /\ m[2] <= count'[m[1]]
                      /\ m \in abandoned' \/ (m[1] \in pending' /\ m = Current(m[1])')
    BY DEF Awaited
  <2>1. InFlight(m)
    BY <1>1 DEF InFlight, AtServer
  <2>2. Current(m[1])' = Current(m[1])
    BY <1>1 DEF Current
  <2> QED
    BY <1>1, <2>1, <2>2 DEF AgeInv, Awaited
<1>3. OnceOnly' /\ AckedCounted'
  BY <1>1 DEF AgeInv, OnceOnly, AckedCounted
<1>4. NoOlder' /\ StaleOnlyByStray'
  BY <1>1, AgeServerKept
<1> QED
  BY <1>2, <1>3, <1>4 DEF AgeInv

\* A thread that keeps its call keeps what is known of calls.
LEMMA AgeCallsKept ==
  ASSUME AgeInv, UNCHANGED clientVars, \A w \in Workers : handler'[w].call = handler[w].call
  PROVE  Awaited' /\ OnceOnly' /\ AckedCounted'
<1>1. \A m : AtServer(m)' <=> AtServer(m)
  BY DEF AtServer
<1>2. UNCHANGED <<requests, count, pending, acked, abandoned>>
  BY DEF clientVars
<1>3. Awaited'
  BY <1>1, <1>2 DEF AgeInv, Awaited, InFlight, Current
<1>4. OnceOnly'
  BY <1>2 DEF AgeInv, OnceOnly
<1>5. AckedCounted'
  BY <1>2 DEF AgeInv, AckedCounted
<1> QED
  BY <1>3, <1>4, <1>5

LEMMA AgeStart ==
  ASSUME AgeInv, TypeOK', NEW w \in Workers, Start(w)
  PROVE  AgeInv'
<1>1. PICK m \in requests :
        /\ requests' = requests \ {m}
        /\ handler'[w].call = m
        /\ \/ handler'[w].pass = "clear" /\ handler'[w].todo = Fields
           \/ m[1] \in Readers
        /\ \A v \in Workers \ {w} : /\ handler'[v].call = handler[v].call
                                    /\ handler'[v].pass = handler[v].pass
                                    /\ handler'[v].todo = handler[v].todo
  <2>1. CASE StartSet(w)
    <3>1. PICK m \in requests :
            /\ requests' = requests \ {m}
            /\ handler' = [v \in Workers |->
                 IF v = w
                 THEN Begun("clear", m, IF \E u \in Workers : Setting(u) THEN Unknown ELSE m)
                 ELSE IF handler[v].pass \in SetPasses \cup {"copy"}
                      THEN [handler[v] EXCEPT !.expect = Unknown]
                      ELSE handler[v]]
      BY <2>1 DEF StartSet
    <3>2. ASSUME NEW v \in Workers \ {w}
          PROVE  /\ handler'[v].call = handler[v].call
                 /\ handler'[v].pass = handler[v].pass
                 /\ handler'[v].todo = handler[v].todo
      BY <3>1 DEF AgeInv, TypeOK, Handlers
    <3> QED
      BY <3>1, <3>2 DEF Begun
  <2>2. CASE StartGet(w)
    BY <2>2 DEF StartGet, Begun, AgeInv, TypeOK
  <2> QED
    BY <2>1, <2>2 DEF Start
<1>2. UNCHANGED <<monitorInfos_, count, pending, acked, abandoned>> /\ handler[w].pass = "free"
  BY DEF Start, StartSet, StartGet
<1>3. m \in Calls
  BY DEF AgeInv, TypeOK
<1>4. Awaited'
  <2> SUFFICES ASSUME NEW n \in Calls, InFlight(n)'
               PROVE  InFlight(n)
    BY <1>2 DEF AgeInv, Awaited, Current
  <2> QED
    BY <1>1 DEF InFlight, AtServer
<1>5. OnceOnly'
  <2> SUFFICES ASSUME NEW v \in Workers, handler'[v].call # None
               PROVE  /\ handler'[v].call \notin requests'
                      /\ \A u \in Workers \ {v} : handler'[u].call # handler'[v].call
    BY DEF OnceOnly
  <2>1. \A u \in Workers \ {w} : handler[u].call # m
    BY <1>1, <1>3, ServerAssumption DEF AgeInv, OnceOnly
  <2> QED
    BY <1>1, <2>1 DEF AgeInv, OnceOnly
<1>6. AckedCounted'
  BY <1>2 DEF AgeInv, AckedCounted
<1>7. NoOlder'
  <2> SUFFICES ASSUME NEW v \in Workers, NEW f \in Fields PROVE NoOlderIn(v, f)'
    BY DEF NoOlder
  <2>1. CASE v # w
    BY <1>1, <1>2, <2>1 DEF AgeInv, NoOlder, NoOlderIn
  <2>2. CASE v = w
    <3>1. monitorInfos_[f] \in Seq(Samples)
      BY DEF AgeInv, TypeOK, Messages
    <3>2. \A i \in DOMAIN monitorInfos_[f] : monitorInfos_[f][i][1] \in Agents
      BY <3>1 DEF Samples
    <3> QED
      BY <1>1, <1>2, <2>2, <3>2, ServerAssumption DEF NoOlderIn, Older
  <2> QED
    BY <2>1, <2>2
<1>8. StaleOnlyByStray'
  BY <1>2 DEF AgeInv, StaleOnlyByStray
<1> QED
  BY <1>4, <1>5, <1>6, <1>7, <1>8 DEF AgeInv

\* A step over a field, which may complete the part of the store that holds
\* nothing older than the thread's call.
LEMMA AgeSetStep ==
  ASSUME AgeInv, TypeOK', NEW w \in Workers, ClearField(w) \/ MergeField(w)
  PROVE  AgeInv'
<1> DEFINE h == handler[w]
<1>1. h.pass \in SetPasses /\ UNCHANGED clientVars
  BY DEF ClearField, MergeField, SetPasses
<1>2. h \in Handlers /\ HandlerOK(h) /\ h.call \in Samples
  BY <1>1 DEF AgeInv, TypeOK, HandlerOK
<1>3. PICK f \in h.todo :
        /\ handler' = [handler EXCEPT ![w] = Advance(w, f)]
        /\ \/ /\ h.pass \in {"clear", "clearAgain"}
              /\ monitorInfos_' = [monitorInfos_ EXCEPT ![f] = <<>>]
           \/ /\ h.pass = "merge"
              /\ monitorInfos_' = [monitorInfos_ EXCEPT ![f] =
                   IF f \in Repeated THEN Append(@, h.call) ELSE <<h.call>>]
  BY DEF ClearField, MergeField
<1>4. handler'[w] = Advance(w, f) /\ \A v \in Workers \ {w} : handler'[v] = handler[v]
  BY <1>3 DEF AgeInv, TypeOK
<1>5. /\ handler'[w].call = h.call
      /\ h.todo # {f} => handler'[w].pass = h.pass /\ handler'[w].todo = h.todo \ {f}
  BY <1>1, <1>2, <1>4, AdvanceStep
<1>6. UNCHANGED <<requests, count, pending, acked, abandoned>>
  BY <1>1 DEF clientVars
<1>7. Awaited' /\ OnceOnly' /\ AckedCounted'
  BY <1>1, <1>4, <1>5, AgeCallsKept
<1>8. f \in Fields /\ monitorInfos_ \in [Fields -> Seq(Samples)]
  BY <1>2 DEF AgeInv, TypeOK, Messages, Handlers
<1>9. ASSUME NEW i \in DOMAIN monitorInfos_'[f]
      PROVE  \/ \E j \in DOMAIN monitorInfos_[f] : monitorInfos_'[f][i] = monitorInfos_[f][j]
             \/ h.pass = "merge" /\ monitorInfos_'[f][i] = h.call
  <2>1. monitorInfos_[f] \in Seq(Samples)
    BY <1>8
  <2>2. \/ monitorInfos_'[f] = <<>>
        \/ h.pass = "merge" /\ monitorInfos_'[f] = Append(monitorInfos_[f], h.call)
        \/ h.pass = "merge" /\ monitorInfos_'[f] = <<h.call>>
    BY <1>3, <1>8
  <2> QED
    BY <1>9, <2>1, <2>2
<1>10. \A g \in Fields \ {f} : monitorInfos_'[g] = monitorInfos_[g]
  BY <1>3, <1>8
<1>11. InFlight(h.call) /\ h.call \in Calls /\ h.call[1] \in Agents /\ h.call[2] \in Nat
  BY <1>2 DEF InFlight, AtServer, Samples, Calls, Clients
<1>12. \/ h.call \in abandoned
       \/ h.call = Current(h.call[1]) /\ h.call[2] = count[h.call[1]]
  BY <1>11 DEF AgeInv, Awaited, Current
<1>13. NoOlder'
  <2> SUFFICES ASSUME NEW v \in Workers, NEW g \in Fields, handler'[v].call # None,
                      handler'[v].pass = "clear" => g \notin handler'[v].todo,
                      NEW i \in DOMAIN monitorInfos_'[g],
                      Older(monitorInfos_'[g][i], handler'[v].call)
               PROVE  monitorInfos_'[g][i] \in abandoned
    BY <1>6 DEF NoOlder, NoOlderIn
  <2>1. handler'[v].call = handler[v].call
    BY <1>4, <1>5
  <2>2. CASE monitorInfos_'[g][i] = h.call
    <3>1. handler[v].call \in Calls /\ InFlight(handler[v].call)
      BY <2>1 DEF AgeInv, TypeOK, Handlers, InFlight, AtServer
    <3>2. handler[v].call[2] <= count[handler[v].call[1]]
      BY <3>1 DEF AgeInv, Awaited
    <3>3. h.call[1] = handler[v].call[1] /\ h.call[2] < handler[v].call[2]
      BY <2>1, <2>2 DEF Older
    <3>4. handler[v].call[2] \in Nat /\ count[handler[v].call[1]] \in Nat
      BY <3>1 DEF Calls, AgeInv, TypeOK
    <3> QED
      BY <1>11, <1>12, <2>2, <3>2, <3>3, <3>4
  <2>3. CASE monitorInfos_'[g][i] # h.call
    <3>1. PICK j \in DOMAIN monitorInfos_[g] : monitorInfos_'[g][i] = monitorInfos_[g][j]
      BY <1>9, <1>10, <2>3
    <3>2. CASE handler[v].pass = "clear" => g \notin handler[v].todo
      BY <2>1, <3>1, <3>2 DEF AgeInv, NoOlder, NoOlderIn
    <3>3. CASE handler[v].pass = "clear" /\ g \in handler[v].todo
      <4>1. v = w
        BY <1>4, <3>3
      <4>2. g = f
        BY <1>5, <3>3, <4>1
      <4> QED
        BY <1>3, <1>8, <3>3, <4>1, <4>2
    <3> QED
      BY <3>2, <3>3
  <2> QED
    BY <2>2, <2>3
<1>14. StaleOnlyByStray'
  <2> SUFFICES ASSUME NEW g \in Fields, NEW i \in DOMAIN monitorInfos_'[g],
                      monitorInfos_'[g][i][2] < acked[monitorInfos_'[g][i][1]]
               PROVE  monitorInfos_'[g][i] \in abandoned
    BY <1>6 DEF StaleOnlyByStray
  <2>1. CASE monitorInfos_'[g][i] = h.call
    <3>1. acked[h.call[1]] <= count[h.call[1]] /\ h.call[1] \in Clients
      BY <1>11 DEF AgeInv, AckedCounted, Clients
    <3>2. acked[h.call[1]] \in Nat /\ count[h.call[1]] \in Nat
      BY <3>1 DEF AgeInv, TypeOK
    <3> QED
      BY <1>11, <1>12, <2>1, <3>1, <3>2
  <2>2. CASE monitorInfos_'[g][i] # h.call
    <3>1. PICK j \in DOMAIN monitorInfos_[g] : monitorInfos_'[g][i] = monitorInfos_[g][j]
      BY <1>9, <1>10, <2>2
    <3> QED
      BY <3>1 DEF AgeInv, StaleOnlyByStray
  <2> QED
    BY <2>1, <2>2
<1> QED
  BY <1>7, <1>13, <1>14 DEF AgeInv

LEMMA AgeCopyField ==
  ASSUME AgeInv, TypeOK', NEW w \in Workers, CopyField(w)
  PROVE  AgeInv'
<1>1. PICK f \in handler[w].todo :
        handler' = [handler EXCEPT ![w] = [Advance(w, f) EXCEPT !.info[f] = monitorInfos_[f]]]
  BY DEF CopyField
<1>2. handler[w] \in Handlers /\ HandlerOK(handler[w]) /\ handler[w].pass = "copy"
  BY DEF AgeInv, TypeOK, CopyField
<1>3. Advance(w, f) \in Handlers /\ Advance(w, f).call = handler[w].call
  BY <1>2, AdvanceStep
<1>4. handler'[w].call = handler[w].call
  BY <1>1, <1>3 DEF AgeInv, TypeOK, Handlers
<1>5. \A v \in Workers \ {w} : handler'[v] = handler[v]
  BY <1>1 DEF AgeInv, TypeOK
<1>6. UNCHANGED <<monitorInfos_, clientVars>> /\ UNCHANGED abandoned /\ UNCHANGED acked
  BY DEF CopyField, clientVars
<1>7. Awaited' /\ OnceOnly' /\ AckedCounted'
  BY <1>4, <1>5, <1>6, AgeCallsKept
<1>8. NoOlder'
  <2> SUFFICES ASSUME NEW v \in Workers, NEW g \in Fields PROVE NoOlderIn(v, g)'
    BY DEF NoOlder
  <2>1. handler[w].pass # "clear"
    BY <1>2
  <2> QED
    BY <1>4, <1>5, <1>6, <2>1 DEF AgeInv, NoOlder, NoOlderIn
<1>9. StaleOnlyByStray'
  BY <1>6 DEF AgeInv, StaleOnlyByStray
<1> QED
  BY <1>7, <1>8, <1>9 DEF AgeInv

\* The client learns that its call was executed: the store holds nothing
\* older from it, by NoOlder, and by OnceOnly the call is gone.
LEMMA AgeReply ==
  ASSUME AgeInv, TypeOK', NEW w \in Workers, Reply(w)
  PROVE  AgeInv'
<1> DEFINE m == handler[w].call
           awaited == m[1] \in pending \ silent /\ m = Current(m[1])
<1>1. /\ handler[w].pass = "done" /\ handler' = [handler EXCEPT ![w] = Free]
      /\ pending' = IF awaited THEN pending \ {m[1]} ELSE pending
      /\ acked' = IF awaited THEN [acked EXCEPT ![m[1]] = m[2]] ELSE acked
      /\ UNCHANGED <<monitorInfos_, requests, count, abandoned>>
  BY DEF Reply
<1>2. m \in Calls /\ m # None /\ m[1] \in Clients /\ m[2] \in Nat
  BY <1>1, ServerAssumption DEF AgeInv, TypeOK, HandlerOK, Calls
<1>3. handler'[w].call = None /\ \A v \in Workers \ {w} : handler'[v] = handler[v]
  BY <1>1 DEF Free, AgeInv, TypeOK
<1>4. Awaited'
  <2> SUFFICES ASSUME NEW n \in Calls, InFlight(n)'
               PROVE  /\ n[2] <= count'[n[1]]
                      /\ n \in abandoned' \/ (n[1] \in pending' /\ n = Current(n[1])')
    BY DEF Awaited
  <2>1. InFlight(n) /\ n # m
    BY <1>1, <1>2, <1>3, ServerAssumption DEF InFlight, AtServer, AgeInv, OnceOnly
  <2>2. /\ n[2] <= count[n[1]]
        /\ n \in abandoned \/ (n[1] \in pending /\ n = Current(n[1]))
    BY <2>1 DEF AgeInv, Awaited
  <2>3. Current(n[1])' = Current(n[1])
    BY <1>1 DEF Current
  <2> QED
    BY <1>1, <2>1, <2>2, <2>3 DEF Current
<1>5. OnceOnly'
  BY <1>1, <1>3 DEF AgeInv, OnceOnly
<1>6. m[2] <= count[m[1]]
  BY <1>2 DEF AgeInv, Awaited, InFlight, AtServer
<1>7. AckedCounted'
  BY <1>1, <1>2, <1>6 DEF AgeInv, AckedCounted, TypeOK
<1>8. NoOlder'
  BY <1>1, <1>3 DEF AgeInv, NoOlder, NoOlderIn
<1>9. StaleOnlyByStray'
  <2> SUFFICES ASSUME NEW f \in Fields, NEW i \in DOMAIN monitorInfos_[f],
                      monitorInfos_[f][i][2] < acked'[monitorInfos_[f][i][1]]
               PROVE  monitorInfos_[f][i] \in abandoned
    BY <1>1 DEF StaleOnlyByStray
  <2> DEFINE s == monitorInfos_[f][i]
  <2>1. CASE s[2] < acked[s[1]]
    BY <2>1 DEF AgeInv, StaleOnlyByStray
  <2>2. CASE ~(s[2] < acked[s[1]])
    <3>1. Older(s, m)
      BY <1>1, <1>2, <2>2 DEF Older, AgeInv, TypeOK
    <3>2. NoOlderIn(w, f)
      BY DEF AgeInv, NoOlder
    <3> QED
      BY <1>1, <1>2, <3>1, <3>2 DEF NoOlderIn
  <2> QED
    BY <2>1, <2>2
<1> QED
  BY <1>4, <1>5, <1>7, <1>8, <1>9 DEF AgeInv

LEMMA AgeServerDies ==
  ASSUME AgeInv, TypeOK', ServerDies
  PROVE  AgeInv'
<1>1. /\ monitorInfos_' = Empty /\ requests' = {}
      /\ UNCHANGED <<count, acked>>
      /\ \A w \in Workers : handler'[w].call = None
  BY DEF ServerDies, Free
<1>2. \A m \in Calls : ~InFlight(m)'
  BY <1>1, ServerAssumption DEF InFlight, AtServer
<1>3. \A f \in Fields : DOMAIN monitorInfos_'[f] = {}
  BY <1>1 DEF Empty
<1>4. NoOlder' /\ StaleOnlyByStray'
  BY <1>1, <1>3 DEF NoOlder, NoOlderIn, StaleOnlyByStray
<1> QED
  BY <1>1, <1>2, <1>4 DEF AgeInv, Awaited, OnceOnly, AckedCounted

LEMMA AgeUnchanged ==
  ASSUME AgeInv, TypeOK', UNCHANGED serverVars, UNCHANGED clientVars
  PROVE  AgeInv'
<1>1. Awaited' /\ OnceOnly' /\ AckedCounted'
  BY AgeCallsKept DEF serverVars
<1>2. NoOlder' /\ StaleOnlyByStray'
  BY AgeServerKept DEF clientVars
<1> QED
  BY <1>1, <1>2 DEF AgeInv

LEMMA AgeNext == AgeInv /\ [Next]_vars => AgeInv'
<1> SUFFICES ASSUME AgeInv, [Next]_vars PROVE AgeInv'
  OBVIOUS
<1>1. TypeOK'
  BY NextType DEF AgeInv
<1>2. CASE UNCHANGED vars
  BY <1>1, <1>2, AgeUnchanged DEF vars
<1>3. ASSUME NEW c \in Clients, Send(c) \/ Ask(c) PROVE AgeInv'
  BY <1>1, <1>3, AgeInvoke DEF Send, Ask
<1>4. ASSUME NEW c \in Clients, Break(c) \/ HangUp(c) PROVE AgeInv'
  <2>1. requests' \subseteq requests /\ Failed(c)
    BY <1>4 DEF Break, HangUp
  <2> QED
    BY <1>1, <2>1, AgeFailed
<1>5. ASSUME NEW w \in Workers, HandlerStep(w) PROVE AgeInv'
  BY <1>1, <1>5, AgeStart, AgeSetStep, AgeCopyField, AgeReply DEF HandlerStep
<1>6. CASE ServerDies
  BY <1>1, <1>6, AgeServerDies
<1>7. CASE ServerStarts
  BY <1>1, <1>7, AgeUnchanged DEF ServerStarts
<1>8. ASSUME NEW c \in Clients, GoSilent(c) PROVE AgeInv'
  <2>1. /\ requests' \subseteq requests
        /\ UNCHANGED <<serverVars, count, pending, acked, abandoned>>
    BY <1>8 DEF GoSilent
  <2> QED
    BY <1>1, <2>1, AgeRequestLost
<1> QED
  BY <1>2, <1>3, <1>4, <1>5, <1>6, <1>7, <1>8 DEF Next, Clients

\* What an agent knows to be stored is only ever replaced by an older sample
\* of its own through a call that it has given up.
THEOREM StaleIsStray == Spec => []StaleOnlyByStray
<1>1. AgeInv => StaleOnlyByStray
  BY DEF AgeInv
<1> QED
  BY AgeInit, AgeNext, <1>1, PTL DEF Spec
-----------------------------------------------------------------------------
(***************************************************************************)
(* What overlapping Sets may leave in a field.                             *)
(*                                                                         *)
(* A Set clears a field before it merges into it, so that between two      *)
(* merges by one thread the field has been emptied.  The entries of a      *)
(* field and the threads that will merge into it before they clear it      *)
(* again are therefore never more than there are threads.                  *)
(***************************************************************************)

\* The threads whose next access to field f is a merge.
Armed(f) ==
  {w \in Workers :
     \/ handler[w].pass = "merge" /\ f \in handler[w].todo
     \/ handler[w].pass = "clearAgain" /\ f \notin handler[w].todo}

Room(f) == Len(monitorInfos_[f]) + Cardinality(Armed(f)) <= Cardinality(Workers)

RoomForAll == \A f \in Fields : Room(f)

LEMMA ArmedFinite ==
  ASSUME IsFiniteSet(Workers), NEW f
  PROVE  /\ IsFiniteSet(Armed(f)) /\ Cardinality(Armed(f)) \in Nat
         /\ Cardinality(Workers) \in Nat /\ Cardinality(Armed(f)) <= Cardinality(Workers)
         /\ IsFiniteSet(Armed(f)') /\ Cardinality(Armed(f)') \in Nat
         /\ Cardinality(Armed(f)') <= Cardinality(Workers)
<1>1. Armed(f) \subseteq Workers /\ Armed(f)' \subseteq Workers
  BY DEF Armed
<1> QED
  BY <1>1, FS_Subset, FS_CardinalityType

\* A field that is left alone, or emptied, has room if no thread joins those that
\* are about to merge into it.
LEMMA RoomKept ==
  ASSUME IsFiniteSet(Workers), NEW f \in Fields, TypeOK, TypeOK', Room(f),
         \/ monitorInfos_'[f] = <<>>
         \/ monitorInfos_'[f] = monitorInfos_[f] /\ Armed(f)' \subseteq Armed(f)
  PROVE  Room(f)'
<1>1. Len(monitorInfos_[f]) \in Nat
  BY DEF TypeOK, Messages
<1>2. CASE monitorInfos_'[f] = <<>>
  <2>1. Len(monitorInfos_'[f]) = 0
    BY <1>2
  <2> QED
    BY <2>1, ArmedFinite DEF Room
<1>3. CASE monitorInfos_'[f] = monitorInfos_[f] /\ Armed(f)' \subseteq Armed(f)
  <2>1. Cardinality(Armed(f)') <= Cardinality(Armed(f))
    BY <1>3, ArmedFinite, FS_Subset
  <2> QED
    BY <2>1, <1>1, <1>3, ArmedFinite DEF Room
<1> QED
  BY <1>2, <1>3

\* A thread that deals with field f is armed for the other fields as before, and for
\* f no longer, unless it has just cleared it for the second time.
LEMMA ArmedAdvance ==
  ASSUME TypeOK, NEW w \in Workers, NEW f \in handler[w].todo,
         handler[w].pass \in SetPasses \cup {"copy"},
         handler' = [handler EXCEPT ![w] = Advance(w, f)]
  PROVE  /\ \A g \in Fields \ {f} : Armed(g)' = Armed(g)
         /\ handler[w].pass = "merge" => w \in Armed(f) /\ Armed(f)' = Armed(f) \ {w}
<1> DEFINE h == handler[w]  k == Advance(w, f)
<1>1. h \in Handlers /\ HandlerOK(h)
  BY DEF TypeOK
<1>2. /\ h.todo # {f} => k.pass = h.pass /\ k.todo = h.todo \ {f}
      /\ h.todo = {f} => /\ k.pass = NextPass[h.pass]
                         /\ k.todo = IF h.pass \in {"merge", "copy"} THEN {} ELSE Fields
  BY <1>1, AdvanceStep
<1>3. handler'[w] = k /\ \A v \in Workers \ {w} : handler'[v] = handler[v]
  BY DEF TypeOK
<1>4. /\ NextPass["clear"] = "clearAgain" /\ NextPass["clearAgain"] = "merge"
      /\ NextPass["merge"] = "done" /\ NextPass["copy"] = "done"
  BY DEF NextPass
<1> HIDE DEF h, k
<1>5. ASSUME NEW g \in Fields \ {f} PROVE Armed(g)' = Armed(g)
  <2>1. \A v \in Workers \ {w} : v \in Armed(g)' <=> v \in Armed(g)
    BY <1>3 DEF Armed
  <2>2. w \in Armed(g)' <=> w \in Armed(g)
    <3>1. \/ h.pass = "clear" \/ h.pass = "clearAgain" \/ h.pass = "merge" \/ h.pass = "copy"
      BY DEF SetPasses, h
    <3>2. w \in Armed(g) <=> \/ h.pass = "merge" /\ g \in h.todo
                             \/ h.pass = "clearAgain" /\ g \notin h.todo
      BY DEF Armed, h
    <3>3. w \in Armed(g)' <=> \/ k.pass = "merge" /\ g \in k.todo
                              \/ k.pass = "clearAgain" /\ g \notin k.todo
      BY <1>3 DEF Armed
    <3>4. CASE h.todo # {f}
      BY <1>2, <3>2, <3>3, <3>4
    <3>5. CASE h.todo = {f}
      BY <1>2, <1>4, <3>1, <3>2, <3>3, <3>5
    <3> QED
      BY <3>4, <3>5
  <2> QED
    BY <2>1, <2>2 DEF Armed
<1>6. ASSUME h.pass = "merge" PROVE w \in Armed(f) /\ Armed(f)' = Armed(f) \ {w}
  <2>1. w \in Armed(f)
    BY <1>6 DEF Armed, h
  <2>2. ~(w \in Armed(f)')
    BY <1>2, <1>3, <1>4, <1>6 DEF Armed
  <2>3. \A v \in Workers \ {w} : v \in Armed(f)' <=> v \in Armed(f)
    BY <1>3 DEF Armed
  <2> QED
    BY <2>1, <2>2, <2>3 DEF Armed
<1> QED
  BY <1>5, <1>6 DEF h

\* The step that adds to a field: the thread that takes it was counted before.
LEMMA RoomMerge ==
  ASSUME IsFiniteSet(Workers), TypeOK, TypeOK', RoomForAll, NEW w \in Workers, MergeField(w)
  PROVE  RoomForAll'
<1>1. handler[w] \in Handlers /\ HandlerOK(handler[w]) /\ handler[w].pass = "merge"
  BY DEF TypeOK, MergeField
<1>2. PICK f \in handler[w].todo :
        /\ monitorInfos_' = [monitorInfos_ EXCEPT ![f] =
             IF f \in Repeated THEN Append(@, handler[w].call) ELSE <<handler[w].call>>]
        /\ handler' = [handler EXCEPT ![w] = Advance(w, f)]
  BY DEF MergeField
<1>3. /\ \A g \in Fields \ {f} : Armed(g)' = Armed(g)
      /\ w \in Armed(f) /\ Armed(f)' = Armed(f) \ {w}
  BY <1>1, <1>2, ArmedAdvance DEF SetPasses
<1>4. f \in Fields
  BY <1>1, <1>2 DEF Handlers
<1>5. ASSUME NEW g \in Fields \ {f} PROVE Room(g)'
  <2>1. monitorInfos_'[g] = monitorInfos_[g]
    BY <1>2 DEF TypeOK, Messages
  <2> QED
    BY <1>3, <2>1, RoomKept DEF RoomForAll
<1>6. Room(f)'
  <2>1. Cardinality(Armed(f)') = Cardinality(Armed(f)) - 1
    BY <1>3, ArmedFinite, FS_RemoveElement
  <2>2. PICK n \in Nat : n = Len(monitorInfos_[f])
    <3>1. Len(monitorInfos_[f]) \in Nat
      BY <1>4 DEF TypeOK, Messages
    <3> QED
      BY <3>1
  <2>3. Len(monitorInfos_'[f]) \in {1, n + 1}
    <3>1. monitorInfos_[f] \in Seq(Samples)
      BY <1>4 DEF TypeOK, Messages
    <3>2. Len(Append(monitorInfos_[f], handler[w].call)) = n + 1
      BY <3>1, <2>2
    <3>3. monitorInfos_'[f] \in {Append(monitorInfos_[f], handler[w].call), <<handler[w].call>>}
      BY <1>2, <1>4 DEF TypeOK, Messages
    <3> QED
      BY <3>2, <3>3
  <2>4. n + Cardinality(Armed(f)) <= Cardinality(Workers)
    BY <1>4, <2>2 DEF RoomForAll, Room
  <2>5. n + 1 + Cardinality(Armed(f)') <= Cardinality(Workers)
        /\ 1 + Cardinality(Armed(f)') <= Cardinality(Workers)
    BY <2>1, <2>2, <2>4, ArmedFinite
  <2> QED
    BY <2>3, <2>5 DEF Room
<1> QED
  BY <1>5, <1>6 DEF RoomForAll

LEMMA NextRoom ==
  ASSUME IsFiniteSet(Workers)
  PROVE  TypeOK /\ TypeOK' /\ RoomForAll /\ [Next]_vars => RoomForAll'
<1> SUFFICES ASSUME TypeOK, TypeOK', RoomForAll, [Next]_vars PROVE RoomForAll'
  OBVIOUS
<1>1. ASSUME UNCHANGED monitorInfos_, \A f \in Fields : Armed(f)' \subseteq Armed(f)
      PROVE  RoomForAll'
  BY <1>1, RoomKept DEF RoomForAll
<1>2. ASSUME UNCHANGED serverVars PROVE RoomForAll'
  BY <1>2 DEF RoomForAll, Room, Armed, serverVars
<1>3. ASSUME NEW w \in Workers, ClearField(w) PROVE RoomForAll'
  <2>1. PICK f \in handler[w].todo : /\ monitorInfos_' = [monitorInfos_ EXCEPT ![f] = <<>>]
                                     /\ handler' = [handler EXCEPT ![w] = Advance(w, f)]
    BY <1>3 DEF ClearField
  <2>2. handler[w] \in Handlers /\ handler[w].pass \in SetPasses \cup {"copy"}
    BY <1>3 DEF TypeOK, ClearField, SetPasses
  <2>3. \A g \in Fields \ {f} : Armed(g)' = Armed(g)
    BY <2>1, <2>2, ArmedAdvance
  <2>4. f \in Fields /\ monitorInfos_'[f] = <<>>
        /\ \A g \in Fields \ {f} : monitorInfos_'[g] = monitorInfos_[g]
    BY <2>1, <2>2 DEF Handlers, TypeOK, Messages
  <2> QED
    BY <2>3, <2>4, RoomKept DEF RoomForAll
<1>4. ASSUME NEW w \in Workers, MergeField(w) PROVE RoomForAll'
  BY <1>4, RoomMerge
<1>5. ASSUME NEW w \in Workers, CopyField(w) PROVE RoomForAll'
  <2>1. PICK f \in handler[w].todo :
          handler' = [handler EXCEPT ![w] = [Advance(w, f) EXCEPT !.info[f] = monitorInfos_[f]]]
    BY <1>5 DEF CopyField
  <2>2. handler[w] \in Handlers /\ HandlerOK(handler[w]) /\ handler[w].pass = "copy"
    BY <1>5 DEF TypeOK, CopyField
  <2>3. Advance(w, f) \in Handlers /\ Advance(w, f).pass \in {"copy", "done"}
    BY <2>1, <2>2, AdvanceStep DEF NextPass, SetPasses
  <2>4. handler'[w].pass \in {"copy", "done"}
    BY <2>1, <2>3 DEF TypeOK, Handlers
  <2>5. \A v \in Workers \ {w} : handler'[v] = handler[v]
    BY <2>1 DEF TypeOK
  <2> QED
    BY <1>1, <1>5, <2>4, <2>5 DEF CopyField, Armed
<1>6. ASSUME NEW w \in Workers, Start(w), StartSet(w) PROVE RoomForAll'
  <2>1. PICK m \in requests :
          handler' = [v \in Workers |->
               IF v = w
               THEN Begun("clear", m, IF \E u \in Workers : Setting(u) THEN Unknown ELSE m)
               ELSE IF handler[v].pass \in SetPasses \cup {"copy"}
                    THEN [handler[v] EXCEPT !.expect = Unknown]
                    ELSE handler[v]]
    BY <1>6 DEF StartSet
  <2>2. handler'[w].pass = "clear"
    BY <2>1 DEF Begun
  <2>3. ASSUME NEW v \in Workers \ {w}
        PROVE  handler'[v].pass = handler[v].pass /\ handler'[v].todo = handler[v].todo
    <3>1. handler[v] \in Handlers
      BY DEF TypeOK
    <3>2. handler'[v] \in {handler[v], [handler[v] EXCEPT !.expect = Unknown]}
      BY <2>1
    <3> QED
      BY <3>1, <3>2 DEF Handlers
  <2> QED
    BY <1>1, <1>6, <2>2, <2>3 DEF StartSet, Armed
<1>7. ASSUME NEW w \in Workers, Start(w), StartGet(w) PROVE RoomForAll'
  <2>1. PICK m \in requests : handler' = [handler EXCEPT ![w] = Begun("copy", m, settled)]
    BY <1>7 DEF StartGet
  <2>2. handler'[w].pass = "copy" /\ \A v \in Workers \ {w} : handler'[v] = handler[v]
    BY <2>1 DEF Begun, TypeOK
  <2> QED
    BY <1>1, <1>7, <2>2 DEF StartGet, Armed
<1>8. ASSUME NEW w \in Workers, Reply(w) PROVE RoomForAll'
  <2>1. handler'[w].pass = "free" /\ \A v \in Workers \ {w} : handler'[v] = handler[v]
    BY <1>8 DEF Reply, Free, TypeOK
  <2> QED
    BY <1>1, <1>8, <2>1 DEF Reply, Armed
<1>9. CASE ServerDies
  <2>1. \A f \in Fields : monitorInfos_'[f] = <<>>
    BY <1>9 DEF ServerDies, Empty
  <2> QED
    BY <2>1, RoomKept DEF RoomForAll
<1>10. CASE ServerStarts
  BY <1>2, <1>10 DEF ServerStarts
<1>11. CASE UNCHANGED vars
  BY <1>2, <1>11 DEF vars
<1>12. CASE \/ \E a \in Agents : Send(a)
            \/ \E r \in Readers : Ask(r)
            \/ \E c \in Clients : Break(c) \/ GoSilent(c) \/ HangUp(c)
  BY <1>2, <1>12, ClientType DEF Clients
<1> QED
  BY <1>3, <1>4, <1>5, <1>6, <1>7, <1>8, <1>9, <1>10, <1>11, <1>12
  DEF Next, HandlerStep, Start

\* Overlapping Sets never leave more entries in a field than there are threads,
\* whatever the number of calls, agents and deaths of the server.
THEOREM FieldsBounded ==
  ASSUME IsFiniteSet(Workers)
  PROVE  Spec => []MergesBounded
<1>1. Init => RoomForAll
  <2> SUFFICES ASSUME Init, NEW f \in Fields PROVE Room(f)
    BY DEF RoomForAll
  <2>1. Len(monitorInfos_[f]) = 0
    BY DEF Init, Empty
  <2> QED
    BY <2>1, ArmedFinite DEF Room
<1>2. TypeOK /\ RoomForAll => MergesBounded
  <2> SUFFICES ASSUME TypeOK, RoomForAll, NEW f \in Fields
               PROVE  Len(monitorInfos_[f]) <= Cardinality(Workers)
    BY DEF MergesBounded
  <2>1. Len(monitorInfos_[f]) \in Nat
    BY DEF TypeOK, Messages
  <2> QED
    BY <2>1, ArmedFinite DEF RoomForAll, Room
<1> QED
  BY <1>1, <1>2, NextRoom, TypeCorrect, PTL DEF Spec
=============================================================================
