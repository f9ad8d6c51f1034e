----------------------------- MODULE GrpcManager -----------------------------
(***************************************************************************)
(* The server of rpc_manager/server, its clients and the calls between     *)
(* them.                                                                   *)
(*                                                                         *)
(* An agent (monitor_work/src/main.cpp) takes a sample, sends it with a    *)
(* synchronous SetMonitorInfo, sleeps and starts again, whether or not the *)
(* call succeeded.  A reader calls GetMonitorInfo.  A call is named by its *)
(* client and its number; a sample by the call that sends it.              *)
(*                                                                         *)
(* gRPC runs each handler in a thread of a pool.  The handlers share       *)
(* monitorInfos_ without a lock, and protobuf clears, merges and copies a  *)
(* message field by field, so each access to a field is a step of its own. *)
(* The code orders no two fields, and neither does the model.              *)
(***************************************************************************)
EXTENDS Integers, Sequences, FiniteSets

CONSTANTS
  Agents, Readers,
  Workers,              \* gRPC's threads
  Singular, Repeated,   \* fields of MonitorInfo; merging appends to a repeated one
  None, Unknown,        \* no sample; not known which
  MaxCalls,             \* MaxCalls[c]: bound on the calls of c
  MaxBreaks,            \* bound on connections that break or go silent
  MaxDeaths             \* bound on deaths of the server

Clients == Agents \cup Readers
Fields == Singular \cup Repeated
Calls == Clients \X (Nat \ {0})
Samples == Agents \X (Nat \ {0})

ASSUME ServerAssumption ==
  /\ Agents \cap Readers = {}
  /\ Singular \cap Repeated = {}
  /\ Fields # {}
  /\ None # Unknown
  /\ None \notin Calls
  /\ Unknown \notin Calls
  /\ MaxCalls \in [Clients -> Nat]
  /\ {MaxBreaks, MaxDeaths} \subseteq Nat

VARIABLES
  monitorInfos_,  \* monitorInfos_[f]: the samples whose values field f holds
  up,             \* the server runs
  handler,        \* handler[w]: what thread w is doing
  requests,       \* calls on their way to the server
  count,          \* count[c]: the number of calls c has made
  pending,        \* the clients that wait in a call
  silent,         \* those of them whose connection was lost without a sign
  breaks, deaths,
  acked,          \* history: acked[c] is the last call of c that succeeded
  abandoned,      \* history: the calls that failed
  settled         \* history: the sample the last Set left, if it ran alone

serverVars == <<monitorInfos_, handler, settled>>
clientVars == <<requests, count, pending, silent, acked, abandoned>>
vars == <<serverVars, clientVars, up, breaks, deaths>>

-----------------------------------------------------------------------------
Empty == [f \in Fields |-> <<>>]

\* The message that holds sample s and nothing else.
Content(s) == IF s = None THEN Empty ELSE [f \in Fields |-> <<s>>]

\* A thread's record: the pass over the message it is in, the fields the pass
\* has yet to reach, its call, the response it fills, and the sample that its
\* access is expected to leave or to find, Unknown if a Set got in its way.
Free == [pass |-> "free", todo |-> {}, call |-> None, info |-> Empty, expect |-> Unknown]

\* The record of a thread that starts on call m.
Begun(pass, m, expect) ==
  [pass |-> pass, todo |-> Fields, call |-> m, info |-> Empty, expect |-> expect]

SetPasses == {"clear", "clearAgain", "merge"}

Setting(w) == handler[w].pass \in SetPasses

NextPass == [clear |-> "clearAgain", clearAgain |-> "merge", merge |-> "done", copy |-> "done"]

\* Slip: the next pass finds every field dealt with.
AdvanceKeepsTodo(w, f) ==
  IF handler[w].todo # {f}
  THEN [handler[w] EXCEPT !.todo = @ \ {f}]
  ELSE [handler[w] EXCEPT !.pass = NextPass[@], !.todo = {}]

\* Thread w has dealt with field f.
Advance(w, f) ==
  IF handler[w].todo # {f}
  THEN [handler[w] EXCEPT !.todo = @ \ {f}]
  ELSE [handler[w] EXCEPT !.pass = NextPass[@],
                          !.todo = IF NextPass[handler[w].pass] = "done" THEN {} ELSE Fields]

Current(c) == <<c, count[c]>>

Init ==
  /\ monitorInfos_ = Empty
  /\ up = FALSE
  /\ handler = [w \in Workers |-> Free]
  /\ requests = {}
  /\ count = [c \in Clients |-> 0]
  /\ pending = {}
  /\ silent = {}
  /\ breaks = 0 /\ deaths = 0
  /\ acked = [c \in Clients |-> 0]
  /\ abandoned = {}
  /\ settled = None

-----------------------------------------------------------------------------
(***************************************************************************)
(* Clients.                                                                *)
(***************************************************************************)
Invoke(c) ==
  /\ count[c] < MaxCalls[c]
  /\ count' = [count EXCEPT ![c] = @ + 1]
  /\ requests' = requests \cup {<<c, count[c] + 1>>}
  /\ pending' = pending \cup {c}
  /\ UNCHANGED <<serverVars, up, silent, breaks, deaths, acked>>

\* Slip: the next sample does not wait for the answer to the one before.
SendAsync(a) ==
  /\ Invoke(a)
  /\ UNCHANGED abandoned

\* One round of the agent's loop: every collector's UpdateOnce on a fresh
\* message, then the call.
Send(a) ==
  /\ a \notin pending
  /\ Invoke(a)
  /\ UNCHANGED abandoned

Ask(r) ==
  /\ r \notin pending
  /\ Invoke(r)
  /\ UNCHANGED abandoned

\* The call of c fails.  The client logs the error and carries on.
Failed(c) ==
  /\ pending' = pending \ {c}
  /\ silent' = silent \ {c}
  /\ abandoned' = abandoned \cup {Current(c)}
  /\ UNCHANGED <<serverVars, up, deaths, count, acked>>

\* The connection breaks, or the client's process dies and is started again.
\* A request on its way may be lost or may still arrive; a handler runs on.
\* This is also how a connection lost in silence may be noticed in the end.
Break(c) ==
  /\ c \in pending
  /\ \/ c \in silent /\ UNCHANGED breaks
     \/ c \notin silent /\ breaks < MaxBreaks /\ breaks' = breaks + 1
  /\ requests' \in {requests, requests \ {Current(c)}}
  /\ Failed(c)

\* The connection is lost without a sign: the server's host lost power, or the
\* path to it drops what is sent.  The call has no deadline and the channel no
\* keepalive.  A connection lost between two calls shows in the next one.
GoSilent(c) ==
  /\ c \in pending \ silent
  /\ breaks < MaxBreaks
  /\ breaks' = breaks + 1
  /\ silent' = silent \cup {c}
  /\ requests' \in {requests, requests \ {Current(c)}}
  /\ UNCHANGED <<serverVars, up, count, pending, deaths, acked, abandoned>>

AtServer(m) == \E w \in Workers : handler[w].call = m

\* Slip: the call waits until the server is up, and does not notice that the
\* server it was sent to has died (set_wait_for_ready without a deadline).
HangUpWaitForReady(c) ==
  /\ c \in pending \ silent
  /\ up
  /\ Current(c) \notin requests
  /\ ~AtServer(Current(c))
  /\ requests' = requests \ {Current(c)}
  /\ Failed(c)
  /\ UNCHANGED breaks

\* The server is not there, or it died with the call, and the connection says so.
HangUp(c) ==
  /\ c \in pending \ silent
  /\ \/ ~up
     \/ Current(c) \notin requests /\ ~AtServer(Current(c))
  /\ requests' = requests \ {Current(c)}
  /\ Failed(c)
  /\ UNCHANGED breaks

-----------------------------------------------------------------------------
(***************************************************************************)
(* The server.                                                             *)
(***************************************************************************)

\* Thread w starts the handler of SetMonitorInfo.  From here to the end of
\* its last pass the accesses of all other handlers are disturbed.
StartSet(w) ==
  \E m \in requests :
    /\ m[1] \in Agents
    /\ requests' = requests \ {m}
    /\ handler' = [v \in Workers |->
         IF v = w
         THEN Begun("clear", m, IF \E u \in Workers : Setting(u) THEN Unknown ELSE m)
         ELSE IF handler[v].pass \in SetPasses \cup {"copy"}
              THEN [handler[v] EXCEPT !.expect = Unknown]
              ELSE handler[v]]
    /\ settled' = Unknown
    /\ UNCHANGED monitorInfos_

\* Thread w starts the handler of GetMonitorInfo.
StartGet(w) ==
  \E m \in requests :
    /\ m[1] \in Readers
    /\ requests' = requests \ {m}
    /\ handler' = [handler EXCEPT ![w] = Begun("copy", m, settled)]
    /\ UNCHANGED <<monitorInfos_, settled>>

Start(w) ==
  /\ up
  /\ handler[w].pass = "free"
  /\ StartSet(w) \/ StartGet(w)
  /\ UNCHANGED <<up, count, pending, silent, breaks, deaths, acked, abandoned>>

\* Slip: the arrays of the repeated fields are kept.
ClearFieldSingular(w) ==
  /\ handler[w].pass \in {"clear", "clearAgain"}
  /\ \E f \in handler[w].todo :
       /\ monitorInfos_' = IF f \in Singular THEN [monitorInfos_ EXCEPT ![f] = <<>>]
                           ELSE monitorInfos_
       /\ handler' = [handler EXCEPT ![w] = Advance(w, f)]
  /\ UNCHANGED <<clientVars, up, breaks, deaths, settled>>

\* monitorInfos_.Clear(), and the Clear() that the assignment starts with.
ClearField(w) ==
  /\ handler[w].pass \in {"clear", "clearAgain"}
  /\ \E f \in handler[w].todo :
       /\ monitorInfos_' = [monitorInfos_ EXCEPT ![f] = <<>>]
       /\ handler' = [handler EXCEPT ![w] = Advance(w, f)]
  /\ UNCHANGED <<clientVars, up, breaks, deaths, settled>>

\* The merge of the request that the assignment ends with.
MergeField(w) ==
  /\ handler[w].pass = "merge"
  /\ \E f \in handler[w].todo :
       /\ monitorInfos_' = [monitorInfos_ EXCEPT ![f] =
            IF f \in Repeated THEN Append(@, handler[w].call) ELSE <<handler[w].call>>]
       /\ handler' = [handler EXCEPT ![w] = Advance(w, f)]
       /\ settled' = IF handler[w].todo = {f} THEN handler[w].expect ELSE settled
  /\ UNCHANGED <<clientVars, up, breaks, deaths>>

\* *response = monitorInfos_
CopyField(w) ==
  /\ handler[w].pass = "copy"
  /\ \E f \in handler[w].todo :
       handler' = [handler EXCEPT ![w] = [Advance(w, f) EXCEPT !.info[f] = monitorInfos_[f]]]
  /\ UNCHANGED <<clientVars, up, breaks, deaths, monitorInfos_, settled>>

\* The handler has returned OK and its client, if it still waits and can be
\* reached, is told.
Reply(w) ==
  LET m == handler[w].call
      awaited == m[1] \in pending \ silent /\ m = Current(m[1])
  IN  /\ handler[w].pass = "done"
      /\ handler' = [handler EXCEPT ![w] = Free]
      /\ pending' = IF awaited THEN pending \ {m[1]} ELSE pending
      /\ acked' = IF awaited THEN [acked EXCEPT ![m[1]] = m[2]] ELSE acked
      /\ UNCHANGED <<monitorInfos_, up, requests, count, silent, breaks, deaths, abandoned,
                     settled>>

\* monitorInfos_ is in memory only.  A data race that corrupts it ends here.
ServerDies ==
  /\ up
  /\ deaths < MaxDeaths
  /\ deaths' = deaths + 1
  /\ up' = FALSE
  /\ monitorInfos_' = Empty
  /\ handler' = [w \in Workers |-> Free]
  /\ requests' = {}
  /\ settled' = None
  /\ UNCHANGED <<count, pending, silent, breaks, acked, abandoned>>

ServerStarts ==
  /\ ~up
  /\ up' = TRUE
  /\ UNCHANGED <<serverVars, clientVars, breaks, deaths>>

-----------------------------------------------------------------------------
HandlerStep(w) == Start(w) \/ ClearField(w) \/ MergeField(w) \/ CopyField(w) \/ Reply(w)

Next ==
  \/ \E a \in Agents : Send(a)
  \/ \E r \in Readers : Ask(r)
  \/ \E c \in Clients : Break(c) \/ GoSilent(c) \/ HangUp(c)
  \/ \E w \in Workers : HandlerStep(w)
  \/ ServerDies
  \/ ServerStarts

Spec == Init /\ [][Next]_vars

\* Threads of the pool are scheduled, and a client whose connection works or is
\* refused or reset notices that its server is gone.  Nothing makes a server
\* start, an agent sample, or a connection break, not even one that is silent.
Fairness ==
  /\ \A w \in Workers : WF_vars(HandlerStep(w))
  /\ \A c \in Clients : WF_vars(HangUp(c))

FairSpec == Spec /\ Fairness

-----------------------------------------------------------------------------
(***************************************************************************)
(* Properties.                                                             *)
(***************************************************************************)
Messages == [Fields -> Seq(Samples)]

Handlers ==
  [pass : SetPasses \cup {"free", "copy", "done"}, todo : SUBSET Fields,
   call : Calls \cup {None}, info : Messages, expect : Samples \cup {None, Unknown}]

\* A thread that is in a pass has a call of the kind that makes the pass, and
\* a field left to reach; one that is not has none.
HandlerOK(h) ==
  /\ h.pass \in SetPasses => h.call \in Samples
  /\ h.pass = "copy" => h.call \in Calls \ Samples
  /\ h.pass = "done" => h.call \in Calls
  /\ h.pass \in {"free", "done"} <=> h.todo = {}

\* Every variable has its type, each thread's record is consistent, and a client
\* that waits has made a call.
TypeOK ==
  /\ monitorInfos_ \in Messages
  /\ up \in BOOLEAN
  /\ handler \in [Workers -> Handlers] /\ \A w \in Workers : HandlerOK(handler[w])
  /\ requests \subseteq Calls
  /\ count \in [Clients -> Nat]
  /\ pending \subseteq {c \in Clients : count[c] > 0} /\ silent \subseteq pending
  /\ breaks \in Nat /\ deaths \in Nat
  /\ acked \in [Clients -> Nat]
  /\ abandoned \subseteq Calls
  /\ settled \in Samples \cup {None, Unknown}

\* A Set that no other Set overlaps leaves exactly its own sample in
\* monitorInfos_, whatever earlier overlapping Sets had left there, and it
\* stays until the next Set starts.
SettledStore == settled # Unknown => monitorInfos_ = Content(settled)

\* A Get that no Set overlaps returns one whole sample, that of the last Set,
\* if that Set ran alone, or the empty message of a new server.
SettledReads ==
  \A w \in Workers :
    /\ handler[w].pass = "done"
    /\ handler[w].call[1] \in Readers
    /\ handler[w].expect # Unknown
    => handler[w].info = Content(handler[w].expect)

\* No part of the store is older than what its agent knows to be stored,
\* unless it comes from a call the agent has given up, whose request or
\* handler outlived the call.
StaleOnlyByStray ==
  \A f \in Fields : \A i \in DOMAIN monitorInfos_[f] :
    LET s == monitorInfos_[f][i]
    IN  s[2] < acked[s[1]] => s \in abandoned

\* Overlapping Sets may leave a repeated field with the entries of several
\* samples, but never of more samples than there are threads: what they
\* leave does not pile up over time.
MergesBounded ==
  \A f \in Fields : Len(monitorInfos_[f]) <= Cardinality(Workers)

\* Every Get returns one sample, or nothing if none was stored: a reader
\* "simply calls GetMonitorInfo to get the data" (doc/dev.md).
ReadsWhole ==
  \A w \in Workers :
    handler[w].pass = "done" /\ handler[w].call[1] \in Readers
    => \/ handler[w].info = Empty
       \/ \E a \in Agents : \E n \in 1 .. count[a] : handler[w].info = Content(<<a, n>>)

\* The agent's loop goes on: every call ends, also when the server is not
\* there, dies with the call, or never comes back, except a call whose
\* connection was lost without a sign, which may wait for ever.
CallsEnd == \A c \in Clients : c \in pending ~> c \notin pending \/ c \in silent
=============================================================================
