----------------------------- MODULE RpcClient -----------------------------
(***************************************************************************)
(* rpc_client: threads that call, the io thread that connects, reads and   *)
(* writes, an owner that connects and closes, and a network that fails.    *)
(* The server answers every call that reaches it, once and in order: the   *)
(* promise of RpcChannel; and it publishes. Names stand for request ids.   *)
(***************************************************************************)
EXTENDS Naturals, Sequences, FiniteSets

CONSTANTS Future,         (* calls that wait for a future                    *)
          Callback,       (* calls that pass a callback                      *)
          Subscription,   (* what subscribe() is called with                 *)
          Nobody,
          MaxConnects, MaxFailures   (* bounds                               *)

ASSUME ClientAssumption ==
  /\ Future \cap Callback = {} /\ Subscription \cap (Future \cup Callback) = {}
  /\ Nobody \notin Future \cup Callback \cup Subscription
  /\ IsFiniteSet(Subscription)
  /\ MaxConnects \in Nat /\ MaxFailures \in Nat

Call == Future \cup Callback
Message == Call \cup Subscription

VARIABLES enable_reconnect, (* whether enable_auto_reconnect() was called    *)
          connected,      (* has_connected_                                  *)
          open,           (* socket_.is_open()                               *)
          pending,        (* operations under way in asio                    *)
          ready,          (* their handlers, queued for the io thread        *)
          link, server,   (* the connection: "up", "lost", or none: "down";  *)
                          (* what its server knows                           *)
          reading,        (* the call, or subscription, that is being read   *)
          within,         (* what the io thread is within: call_back() with  *)
                          (* one of Deliveries, resend_subscribe(), or "no"  *)
          crossed_reads,  (* a read has begun while another was under way    *)
          outbox, header, (* header: the message whose write is under way    *)
          crossed_writes, (* a write has begun while another was under way   *)
          futures, callbacks,
          phase,          (* where the caller of a call or subscribe() is    *)
          outcome,        (* what its future, or its caller, got             *)
          called,         (* how often its callback has run                  *)
          closing,        (* how far the owner's close() has come            *)
          asserted,       (* an assert of call_back() has failed             *)
          orphans,        (* calls forgotten before they were sent, or while *)
                          (* their answer was being read                     *)
          connects, failures, write_failed, user_closed,
          hasty,          (* connect() was called while handlers were left   *)
          swallowed       (* a write has ended well that went nowhere        *)

socketVars == <<connected, open, pending, ready, link, server>>
readVars   == <<reading, within, crossed_reads>>
writeVars  == <<outbox, header, crossed_writes>>
mapVars    == <<futures, callbacks>>
callVars   == <<phase, outcome, called>>
ownerVars  == <<closing, connects, user_closed, hasty>>
pastVars   == <<failures, write_failed, swallowed, asserted, orphans>>
vars == <<enable_reconnect, socketVars, readVars, writeVars, mapVars, callVars, ownerVars, pastVars>>

Ops == {"head", "body", "connect", "write"}
Deliveries == {"answer", "error", "closed"}

(* The server has things to send and subscriptions, of this connection.    *)
Fresh == [output |-> <<>>, keys |-> {}]

Init ==
  /\ enable_reconnect \in BOOLEAN
  /\ connected = FALSE /\ open = FALSE /\ pending = {} /\ ready = <<>>
  /\ link = "down" /\ server = Fresh /\ reading = Nobody /\ within = "no"
  /\ crossed_reads = FALSE /\ crossed_writes = FALSE
  /\ outbox = <<>> /\ header = Nobody /\ futures = {} /\ callbacks = {}
  /\ phase = [c \in Message |-> "idle"] /\ outcome = [c \in Call |-> "none"]
  /\ called = [c \in Call |-> 0]
  /\ closing = "no" /\ connects = 0 /\ user_closed = FALSE /\ hasty = FALSE
  /\ failures = 0 /\ write_failed = FALSE /\ swallowed = FALSE
  /\ asserted = FALSE /\ orphans = {}

Outstanding(op) == op \in pending \/ \E i \in DOMAIN ready : ready[i].op = op

(* Closing the socket queues the handlers of what was under way.           *)
Aborted(ops) ==
  LET failure(op) == IF op \in ops THEN <<[op |-> op, ok |-> FALSE]>> ELSE <<>>
  IN  failure("head") \o failure("body") \o failure("connect") \o failure("write")

(* asio begins an operation; on a closed socket its handler fails at once. *)
Started(op, ops) == IF open THEN ops \cup {op} ELSE ops
Refused(op, queue) == IF open THEN queue ELSE Append(queue, [op |-> op, ok |-> FALSE])

(* Two reads share head_, body_ and the stream, two writes header_.        *)
BeingUsed(ops) == pending \cap ops # {}
Reads == {"head", "body"}
-----------------------------------------------------------------------------
(* The calling threads.                                                    *)
(* Mutants: a caller that goes on although it is not connected, one that    *)
(* enters its call in the wrong map, one that withdraws its promise.        *)
CheckGoesOn(c) ==
  /\ c \in Callback /\ phase[c] = "idle"
  /\ phase' = [phase EXCEPT ![c] = "checked"]
  /\ called' = [called EXCEPT ![c] = IF connected THEN 0 ELSE 1]
  /\ UNCHANGED <<socketVars, readVars, writeVars, mapVars, outcome, ownerVars, pastVars>>

RegisterAsFuture(c) ==
  /\ phase[c] = IF c \in Future THEN "idle" ELSE "checked"
  /\ phase' = [phase EXCEPT ![c] = "registered"]
  /\ futures' = futures \cup {c} /\ UNCHANGED callbacks
  /\ UNCHANGED <<socketVars, readVars, writeVars, outcome, called, ownerVars, pastVars>>

GiveUpWithdraws(c) ==
  /\ c \in Future /\ phase[c] = "sent" /\ outcome[c] = "none"
  /\ outcome' = [outcome EXCEPT ![c] = "timeout"]
  /\ futures' = futures \ {c}
  /\ UNCHANGED <<socketVars, readVars, writeVars, callbacks, phase, called, ownerVars, pastVars>>

Check(c) ==
  /\ c \in Callback /\ phase[c] = "idle"
  /\ phase' = [phase EXCEPT ![c] = IF connected THEN "checked" ELSE "done"]
  /\ called' = [called EXCEPT ![c] = IF connected THEN 0 ELSE 1]
  /\ UNCHANGED <<socketVars, readVars, writeVars, mapVars, outcome, ownerVars, pastVars>>

Register(c) ==
  /\ phase[c] = IF c \in Future THEN "idle" ELSE "checked"
  /\ phase' = [phase EXCEPT ![c] = "registered"]
  /\ futures' = futures \cup ({c} \cap Future)
  /\ callbacks' = callbacks \cup ({c} \cap Callback)
  /\ UNCHANGED <<socketVars, readVars, writeVars, outcome, called, ownerVars, pastVars>>

Write(c, queue) ==
  /\ header' = c /\ crossed_writes' = BeingUsed({"write"})
  /\ pending' = Started("write", pending) /\ ready' = Refused("write", queue)

(* Mutants of the test for an outstanding write: never idle, always idle.   *)
NeverIdle == FALSE
AlwaysIdle == TRUE
WriterIdle == outbox = <<>>

(* A subscription is sent first and entered in key_token_set_ afterwards.  *)
Send(c) ==
  /\ phase[c] = IF c \in Subscription THEN "idle" ELSE "registered"
  /\ phase' = [phase EXCEPT ![c] = "sent"]
  /\ outbox' = Append(outbox, c)
  /\ IF WriterIdle THEN Write(c, ready) ELSE UNCHANGED <<header, crossed_writes, pending, ready>>
  /\ UNCHANGED <<connected, open, link, server, readVars, mapVars, outcome, called,
                 ownerVars, pastVars>>

Enter(s) ==
  /\ s \in Subscription /\ phase[s] = "sent"
  /\ phase' = [phase EXCEPT ![s] = "done"]
  /\ UNCHANGED <<socketVars, readVars, writeVars, mapVars, outcome, called, ownerVars, pastVars>>

key_token_set == {s \in Subscription : phase[s] = "done"}

GiveUp(c) ==
  /\ c \in Future /\ phase[c] = "sent" /\ outcome[c] = "none"
  /\ outcome' = [outcome EXCEPT ![c] = "timeout"]
  /\ UNCHANGED <<socketVars, readVars, writeVars, mapVars, phase, called, ownerVars, pastVars>>

(* A promise that is set or destroyed ends the wait of its caller.         *)
Settled(calls, what) ==
  [c \in Call |-> IF c \in calls \cap Future /\ outcome[c] = "none" THEN what ELSE outcome[c]]
-----------------------------------------------------------------------------
(* The owner. connect() asks for nothing but has_connected_: handlers of   *)
(* the connection before may be queued or running, or a connect under way. *)
HandlersLeft == ready # <<>> \/ within # "no" \/ "connect" \in pending

(* A socket that has, or had, a connection or is about to get one refuses  *)
(* another; one that is closed, or failed to connect, takes it.            *)
Connect ==
  /\ closing = "no" /\ connects < MaxConnects /\ ~connected
  /\ connects' = connects + 1 /\ hasty' = (hasty \/ HandlersLeft)
  /\ IF open /\ (link # "down" \/ "connect" \in pending)
     THEN ready' = Append(ready, [op |-> "connect", ok |-> FALSE]) /\ UNCHANGED <<pending, link>>
     ELSE pending' = pending \cup {"connect"} /\ link' = "down" /\ UNCHANGED ready
  /\ open' = TRUE
  /\ UNCHANGED <<connected, server, readVars, writeVars, mapVars, callVars,
                 closing, user_closed, pastVars>>

(* close() takes three steps: the socket, which is marked, shut down and   *)
(* closed in one (see the README for what may come between), the outbox,   *)
(* the maps.                                                               *)
CloseSocket ==
  /\ closing = "no" /\ connected
  /\ closing' = "outbox" /\ user_closed' = TRUE
  /\ connected' = FALSE /\ open' = FALSE
  /\ ready' = ready \o Aborted(pending) /\ pending' = {}
  /\ link' = "down" /\ server' = Fresh
  /\ UNCHANGED <<readVars, writeVars, mapVars, callVars, connects, hasty, pastVars>>

ClearOutbox ==
  /\ closing = "outbox" /\ closing' = "maps"
  /\ outbox' = <<>>
  /\ UNCHANGED <<socketVars, readVars, header, crossed_writes, mapVars, callVars, connects,
                 user_closed, hasty, pastVars>>

(* Calls that clear_cache() forgets although they may still be answered.   *)
Among(c, calls) == \E i \in DOMAIN calls : calls[i] = c
BeingRead(c) ==
  c = reading /\ (\/ within \in Deliveries \/ Outstanding("body")
                  \/ \E i \in DOMAIN ready : ready[i] = [op |-> "head", ok |-> TRUE])
Forgotten(queue) ==
  {c \in futures \cup callbacks :
     \/ phase[c] = "registered"
     \/ Among(c, queue) \/ Among(c, server.output) \/ BeingRead(c)
     \/ header = c /\ "write" \in pending}

ClearMaps ==
  /\ closing = "maps" /\ closing' = "no"
  /\ outcome' = Settled(futures, "broken") /\ futures' = {} /\ callbacks' = {}
  /\ orphans' = orphans \cup Forgotten(outbox)
  /\ UNCHANGED <<socketVars, readVars, writeVars, phase, called, connects, user_closed,
                 hasty, failures, write_failed, swallowed, asserted>>
-----------------------------------------------------------------------------
(* The network.                                                            *)
Sent ==
  /\ "write" \in pending /\ link = "up"
  /\ pending' = pending \ {"write"} /\ ready' = Append(ready, [op |-> "write", ok |-> TRUE])
  /\ server' = IF header \in Call THEN [server EXCEPT !.output = Append(@, header)]
                                 ELSE [server EXCEPT !.keys = @ \cup {header}]
  /\ UNCHANGED <<connected, open, link, readVars, writeVars, mapVars, callVars, ownerVars, pastVars>>

(* The server has gone, but the kernel still takes what is written.        *)
Swallowed ==
  /\ "write" \in pending /\ link = "lost"
  /\ pending' = pending \ {"write"} /\ ready' = Append(ready, [op |-> "write", ok |-> TRUE])
  /\ swallowed' = TRUE
  /\ UNCHANGED <<connected, open, link, server, readVars, writeVars, mapVars, callVars, ownerVars,
                 failures, write_failed, asserted, orphans>>

Publish ==
  /\ link = "up"
  /\ \E s \in server.keys :
       /\ ~Among(s, server.output)                  (* bound: one of each *)
       /\ server' = [server EXCEPT !.output = Append(@, s)]
  /\ UNCHANGED <<connected, open, pending, ready, link, readVars, writeVars, mapVars, callVars,
                 ownerVars, pastVars>>

HeadArrives ==
  /\ "head" \in pending /\ link = "up" /\ server.output # <<>>
  /\ pending' = pending \ {"head"} /\ ready' = Append(ready, [op |-> "head", ok |-> TRUE])
  /\ reading' = Head(server.output)
  /\ UNCHANGED <<connected, open, link, server, within, crossed_reads, writeVars, mapVars, callVars,
                 ownerVars, pastVars>>

BodyArrives ==
  /\ "body" \in pending /\ link = "up" /\ server.output # <<>> /\ Head(server.output) = reading
  /\ server' = [server EXCEPT !.output = Tail(@)]
  /\ pending' = pending \ {"body"} /\ ready' = Append(ready, [op |-> "body", ok |-> TRUE])
  /\ UNCHANGED <<connected, open, link, readVars, writeVars, mapVars, callVars, ownerVars, pastVars>>

LinkFails ==
  /\ link = "up" /\ failures < MaxFailures
  /\ link' = "lost" /\ server' = Fresh /\ failures' = failures + 1
  /\ UNCHANGED <<connected, open, pending, ready, readVars, writeVars, mapVars, callVars,
                 ownerVars, write_failed, swallowed, asserted, orphans>>

OperationFails ==
  /\ \E op \in pending :
       /\ IF op = "connect" THEN failures < MaxFailures /\ failures' = failures + 1
          ELSE link # "up" /\ "connect" \notin pending /\ UNCHANGED failures
       /\ pending' = pending \ {op} /\ ready' = Append(ready, [op |-> op, ok |-> FALSE])
  /\ UNCHANGED <<connected, open, link, server, readVars, writeVars, mapVars, callVars,
                 ownerVars, write_failed, swallowed, asserted, orphans>>
-----------------------------------------------------------------------------
(* The io thread takes the handlers in the order they were queued.         *)
Handle(op, ok) == within = "no" /\ ready # <<>> /\ Head(ready) = [op |-> op, ok |-> ok]

(* What a handler that leaves `queue` and `ops` behind does next.          *)
Leave(queue, ops, is_open) ==
  ready' = queue /\ pending' = ops /\ open' = is_open /\ UNCHANGED <<link, server>>

(* async_reconnect() closes the socket once more and begins to connect.    *)
Reconnect(queue, ops) ==
  /\ ready' = queue \o Aborted(ops) /\ pending' = {"connect"} /\ open' = TRUE
  /\ link' = "down" /\ server' = Fresh

ErrorCallbackWaits(queue, ops, is_open) ==   (* mutant: never connects again *)
  Leave(queue, ops, is_open)

ErrorCallback(queue, ops, is_open) ==
  IF enable_reconnect THEN Reconnect(queue, ops) ELSE Leave(queue, ops, is_open)

(* A connection that comes up is seen after the handlers queued before.    *)
OnConnected ==
  /\ within = "no" /\ "connect" \in pending /\ ready = <<>>
  /\ connected' = TRUE /\ link' = "up" /\ server' = Fresh
  /\ pending' = (pending \ {"connect"}) \cup {"head"}
  /\ within' = "resend" /\ crossed_reads' = BeingUsed(Reads)
  /\ UNCHANGED <<open, ready, reading, writeVars, mapVars, callVars, ownerVars, pastVars>>

(* resend_subscribe(), in any order: a set is iterated.                    *)
ResendNothing ==                             (* mutant: forgets to resend *)
  /\ within = "resend" /\ within' = "no"
  /\ UNCHANGED <<socketVars, reading, crossed_reads, writeVars, mapVars, callVars, ownerVars, pastVars>>

InOrder(S) == {q \in [1 .. Cardinality(S) -> S] : {q[i] : i \in DOMAIN q} = S}

ResendSubscribe ==
  /\ within = "resend" /\ within' = "no"
  /\ \E messages \in InOrder(key_token_set) :
       /\ outbox' = outbox \o messages
       /\ IF WriterIdle /\ messages # <<>>
          THEN Write(messages[1], ready) ELSE UNCHANGED <<header, crossed_writes, pending, ready>>
  /\ UNCHANGED <<connected, open, link, server, reading, crossed_reads, mapVars, callVars,
                 ownerVars, pastVars>>

(* How often set_reconnect_count() lets it try again is left open;         *)
(* enable_auto_reconnect() lets it always.                                 *)
OnConnectFailed ==
  /\ Handle("connect", FALSE)
  /\ \/ ~connected /\ Reconnect(Tail(ready), pending)
     \/ (connected \/ ~enable_reconnect) /\ Leave(Tail(ready), pending, open)
  /\ UNCHANGED <<connected, readVars, writeVars, mapVars, callVars, ownerVars, pastVars>>

OnWritten ==
  /\ Handle("write", TRUE)
  /\ outbox' = IF outbox = <<>> THEN <<>> ELSE Tail(outbox)
  /\ IF outbox' = <<>>
     THEN ready' = Tail(ready) /\ UNCHANGED <<header, crossed_writes, pending>>
     ELSE Write(Head(outbox'), Tail(ready))
  /\ UNCHANGED <<connected, open, link, server, readVars, mapVars, callVars, ownerVars, pastVars>>

(* The handler resets has_connected_ itself, so that its close() returns   *)
(* at once: socket, outbox and maps stay as they are.                      *)
OnWriteFailed ==
  /\ Handle("write", FALSE)
  /\ connected' = FALSE /\ write_failed' = TRUE
  /\ ErrorCallback(Tail(ready), pending, open)
  /\ UNCHANGED <<readVars, writeVars, mapVars, callVars, ownerVars, failures, swallowed,
                 asserted, orphans>>

OnHead ==
  /\ Handle("head", TRUE)
  /\ ready' = Tail(ready)
  /\ IF open
     THEN pending' = pending \cup {"body"} /\ crossed_reads' = BeingUsed(Reads) /\ UNCHANGED connected
     ELSE connected' = FALSE /\ UNCHANGED <<pending, crossed_reads>>
  /\ UNCHANGED <<open, link, server, reading, within, writeVars, mapVars, callVars, ownerVars, pastVars>>

OnHeadFailed ==
  /\ Handle("head", FALSE)
  /\ connected' = FALSE
  /\ IF ~open
     THEN /\ ready' = Tail(ready)
          /\ UNCHANGED <<open, pending, link, server, outbox, mapVars, outcome, called, orphans>>
     ELSE /\ called' = [c \in Call |-> IF c \in callbacks THEN called[c] + 1 ELSE called[c]]
          /\ IF connected
             THEN /\ outbox' = <<>> /\ futures' = {} /\ callbacks' = {}
                  /\ orphans' = orphans \cup Forgotten(<<>>)
                  /\ outcome' = Settled(futures, "broken")
                  /\ ErrorCallback(Tail(ready) \o Aborted(pending), {}, FALSE)
             ELSE /\ UNCHANGED <<outbox, mapVars, outcome, orphans>>
                  /\ ErrorCallback(Tail(ready), pending, open)
  /\ UNCHANGED <<readVars, header, crossed_writes, phase, ownerVars, failures, write_failed, swallowed, asserted>>

OnBody ==
  /\ Handle("body", TRUE) \/ Handle("body", FALSE)
  /\ ready' = Tail(ready)
  /\ within' = IF ~open THEN "closed" ELSE IF Head(ready).ok THEN "answer" ELSE "error"
  /\ connected' = (connected /\ within' # "error")
  /\ UNCHANGED <<open, pending, link, server, reading, crossed_reads, writeVars, mapVars, callVars,
                 ownerVars, pastVars>>

(* A publication has no request id: callback_sub() takes one that was read, *)
(* call_back() one that was not, and finds no promise.                     *)
Published == within = "answer" /\ reading \in Subscription

(* call_back() or callback_sub(), and what their caller does next.         *)
CallBack ==
  /\ within \in Deliveries /\ within' = "no"
  /\ asserted' = (reading \notin futures \cup callbacks /\ ~Published)
  /\ outcome' = Settled({reading} \cap futures, IF within = "answer" THEN "value" ELSE "empty")
  /\ called' = [c \in Call |-> IF c = reading /\ c \in callbacks THEN called[c] + 1 ELSE called[c]]
  /\ futures' = futures \ {reading} /\ callbacks' = callbacks \ {reading}
  /\ crossed_reads' = (within = "answer" /\ BeingUsed(Reads))
  /\ CASE within = "answer" ->
            /\ pending' = Started("head", pending) /\ ready' = Refused("head", ready)
            /\ UNCHANGED <<open, link, server>>
       [] within = "error" -> ErrorCallback(ready, pending, open)
       [] OTHER -> UNCHANGED <<open, pending, ready, link, server>>
  /\ UNCHANGED <<connected, reading, writeVars, phase, ownerVars, failures, write_failed,
                 swallowed, orphans>>

Caller(c) == Check(c) \/ Register(c) \/ Send(c) \/ GiveUp(c) \/ Enter(c)
Owner == Connect \/ CloseSocket \/ ClearOutbox \/ ClearMaps
Network == Sent \/ Swallowed \/ Publish \/ HeadArrives \/ BodyArrives \/ LinkFails \/ OperationFails
IoThread == \/ OnConnected \/ ResendSubscribe \/ OnConnectFailed \/ OnWritten \/ OnWriteFailed
            \/ OnHead \/ OnHeadFailed \/ OnBody \/ CallBack

(* A failed assert ends the process; what two reads or two writes at once  *)
(* make of the stream is not followed any further.                         *)
Stopped == asserted \/ crossed_reads \/ crossed_writes
Alive(step) == ~Stopped /\ step /\ UNCHANGED enable_reconnect

Next == Alive((\E c \in Message : Caller(c)) \/ Owner \/ Network \/ IoThread)

Spec == Init /\ [][Next]_vars

(* The io thread runs, and the network delivers or reports its failure.    *)
Fairness ==
  /\ WF_vars(Alive(IoThread))
  /\ WF_vars(Alive(Sent)) /\ WF_vars(Alive(HeadArrives))
  /\ WF_vars(Alive(BodyArrives)) /\ WF_vars(Alive(OperationFails))

FairSpec == Spec /\ Fairness
-----------------------------------------------------------------------------
TypeOK ==
  /\ enable_reconnect \in BOOLEAN
  /\ connected \in BOOLEAN /\ open \in BOOLEAN /\ link \in {"up", "lost", "down"}
  /\ pending \subseteq Ops /\ ready \in Seq([op : Ops, ok : BOOLEAN])
  /\ server \in [output : Seq(Message), keys : SUBSET Subscription]
  /\ outbox \in Seq(Message)
  /\ reading \in Message \cup {Nobody} /\ header \in Message \cup {Nobody}
  /\ within \in {"no", "resend"} \cup Deliveries
  /\ futures \subseteq Future /\ callbacks \subseteq Callback
  /\ phase \in [Message -> {"idle", "checked", "registered", "sent", "done"}]
  /\ outcome \in [Call -> {"none", "value", "empty", "broken", "timeout"}]
  /\ called \in [Call -> Nat]
  /\ closing \in {"no", "outbox", "maps"} /\ user_closed \in BOOLEAN
  /\ hasty \in BOOLEAN /\ crossed_reads \in BOOLEAN /\ crossed_writes \in BOOLEAN
  /\ write_failed \in BOOLEAN /\ swallowed \in BOOLEAN /\ asserted \in BOOLEAN /\ orphans \subseteq Call
  /\ connects \in 0 .. MaxConnects /\ failures \in 0 .. MaxFailures

(* As long as no write has failed and the owner has not closed, a message  *)
(* in the outbox has a write outstanding: nothing is stuck behind it.      *)
OutboxMoves ==
  ~write_failed /\ ~user_closed /\ outbox # <<>> => Outstanding("write")

(* The single header_ and head_ serve one write and one read at a time:    *)
(* reads unless connect() was called while handlers were left, and writes  *)
(* if besides the owner has not closed and no write went nowhere.          *)
Count(ops) == Cardinality({i \in DOMAIN ready : ready[i].op \in ops}) + Cardinality(pending \cap ops)

OneAtATime ==
  ~hasty =>
    /\ ~crossed_reads /\ Count(Reads) <= 1
    /\ ~user_closed /\ ~swallowed =>
         ~crossed_writes /\ (connected => Count({"write"}) <= 1)

(* The asserts of call_back() can fail for three reasons only: the call    *)
(* was forgotten while it could still be answered, a publication was cut   *)
(* off within its body, or connect() was called while handlers were left.  *)
(* Late answers do no harm.                                                *)
AssertsHold == asserted => hasty \/ reading \in orphans \cup Subscription

(* A callback runs at most once, unless a write had failed or connect()    *)
(* was called while handlers were left: a failed read then runs callbacks  *)
(* that clear_cache() does not forget.                                     *)
CalledOnce == \A c \in Callback : called[c] <= 1 \/ write_failed \/ hasty

(* What the asserts of call_back() say: every answer finds its call.       *)
NoAssertFails == ~asserted

(* While nothing fails and the owner does not close, every call that was   *)
(* sent is answered.                                                       *)
Troubled == failures > 0 \/ write_failed \/ user_closed

CallsAnswered ==
  \A c \in Call : phase[c] = "sent" ~> (outcome[c] # "none" \/ called[c] > 0 \/ Troubled)

(* A client that may reconnect does, after the server went away, if no     *)
(* write was lost with it and no connect() was called in between: each of  *)
(* two reconnects closes the socket of the other, again and again. Nothing *)
(* is claimed of a stream that two writes have mixed.                      *)
Recovers ==
  (enable_reconnect /\ connects > 0 /\ ~connected)
    ~> (connected \/ write_failed \/ user_closed \/ hasty \/ Stopped)

(* Of such a client, every subscription that is in key_token_set_ when the *)
(* connection is lost comes to be known to the server of the next one.     *)
SubscriptionsRestored ==
  \A s \in Subscription :
    (enable_reconnect /\ s \in key_token_set /\ ~connected)
      ~> (s \in server.keys \/ write_failed \/ user_closed \/ hasty \/ Stopped)
=============================================================================
