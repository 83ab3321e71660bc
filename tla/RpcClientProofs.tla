-------------------------- MODULE RpcClientProofs --------------------------
(***************************************************************************)
(* The safety of RpcClient, for any calls, subscriptions and bounds: its   *)
(* types, and that the outbox is never stuck, whatever the owner does; and *)
(* unless connect() was called while handlers of the connection before     *)
(* were left, that a callback runs at most once, that one read and one     *)
(* write are under way at a time, and that the asserts of call_back() fail *)
(* for the reasons known only. Each result has an inductive invariant of   *)
(* its own, on which the later ones build.                                 *)
(***************************************************************************)
EXTENDS RpcClient, FiniteSetTheorems, TLAPS

Handler == [op : Ops, ok : BOOLEAN]

(* The operations whose handlers are queued.                               *)
OpsIn(queue) == {queue[i].op : i \in DOMAIN queue}

(* A write under way has the header of a message.                          *)
Headed == "write" \in pending => header \in Message

(* The inductive invariant.                                                *)
IInv == TypeOK /\ OutboxMoves /\ Headed
-----------------------------------------------------------------------------
LEMMA ConcatOps ==
  ASSUME NEW s \in Seq(Handler), NEW t \in Seq(Handler)
  PROVE  s \o t \in Seq(Handler) /\ OpsIn(s \o t) = OpsIn(s) \cup OpsIn(t)
<1>1. s \o t \in Seq(Handler) /\ Len(s \o t) = Len(s) + Len(t)
  OBVIOUS
<1>2. ASSUME NEW i \in 1 .. Len(s)
      PROVE  (s \o t)[i] = s[i] /\ i \in DOMAIN (s \o t)
  OBVIOUS
<1>3. ASSUME NEW i \in 1 .. Len(t)
      PROVE  (s \o t)[Len(s) + i] = t[i] /\ Len(s) + i \in DOMAIN (s \o t)
  OBVIOUS
<1>4. OpsIn(s \o t) \subseteq OpsIn(s) \cup OpsIn(t)
  <2> SUFFICES ASSUME NEW i \in DOMAIN (s \o t)
               PROVE  (s \o t)[i].op \in OpsIn(s) \cup OpsIn(t)
    BY DEF OpsIn
  <2>1. CASE i <= Len(s)
    BY <2>1 DEF OpsIn
  <2>2. CASE i > Len(s)
    <3>1. i - Len(s) \in 1 .. Len(t) /\ (s \o t)[i] = t[i - Len(s)]
      BY <1>1, <2>2
    <3> QED
      BY <3>1 DEF OpsIn
  <2> QED
    BY <1>1, <2>1, <2>2
<1>5. OpsIn(s) \cup OpsIn(t) \subseteq OpsIn(s \o t)
  <2>1. ASSUME NEW i \in DOMAIN s
        PROVE  s[i].op \in OpsIn(s \o t)
    BY <1>2 DEF OpsIn
  <2>2. ASSUME NEW i \in DOMAIN t
        PROVE  t[i].op \in OpsIn(s \o t)
    <3>1. i \in 1 .. Len(t)
      OBVIOUS
    <3>2. (s \o t)[Len(s) + i] = t[i] /\ Len(s) + i \in DOMAIN (s \o t)
      BY <3>1, <1>3
    <3> QED
      BY <3>2 DEF OpsIn
  <2> QED
    BY <2>1, <2>2 DEF OpsIn
<1> QED
  BY <1>1, <1>4, <1>5

LEMMA OneOp ==
  ASSUME NEW op \in Ops, NEW ok \in BOOLEAN
  PROVE  /\ <<[op |-> op, ok |-> ok]>> \in Seq(Handler)
         /\ OpsIn(<<[op |-> op, ok |-> ok]>>) = {op}
<1>1. [op |-> op, ok |-> ok] \in Handler
  BY DEF Handler
<1> QED
  BY <1>1 DEF OpsIn

LEMMA AppendOps ==
  ASSUME NEW s \in Seq(Handler), NEW op \in Ops, NEW ok \in BOOLEAN
  PROVE  /\ Append(s, [op |-> op, ok |-> ok]) \in Seq(Handler)
         /\ OpsIn(Append(s, [op |-> op, ok |-> ok])) = OpsIn(s) \cup {op}
<1>1. Append(s, [op |-> op, ok |-> ok]) = s \o <<[op |-> op, ok |-> ok]>>
  <2>1. [op |-> op, ok |-> ok] \in Handler
    BY DEF Handler
  <2> QED
    BY <2>1
<1>2. /\ <<[op |-> op, ok |-> ok]>> \in Seq(Handler)
      /\ OpsIn(<<[op |-> op, ok |-> ok]>>) = {op}
  BY OneOp
<1>3. /\ s \o <<[op |-> op, ok |-> ok]>> \in Seq(Handler)
      /\ OpsIn(s \o <<[op |-> op, ok |-> ok]>>) = OpsIn(s) \cup OpsIn(<<[op |-> op, ok |-> ok]>>)
  BY <1>2, ConcatOps
<1> QED
  BY <1>1, <1>2, <1>3

(* Closing the socket moves what was under way to the queue.               *)
LEMMA AbortedOps ==
  ASSUME NEW ops \in SUBSET Ops
  PROVE  Aborted(ops) \in Seq(Handler) /\ OpsIn(Aborted(ops)) = ops
<1> DEFINE failure(op) == IF op \in ops THEN <<[op |-> op, ok |-> FALSE]>> ELSE <<>>
<1>1. ASSUME NEW op \in Ops
      PROVE  failure(op) \in Seq(Handler) /\ OpsIn(failure(op)) = ops \cap {op}
  <2>1. CASE op \in ops
    BY <2>1, OneOp
  <2>2. CASE op \notin ops
    BY <2>2 DEF OpsIn
  <2> QED
    BY <2>1, <2>2
<1>2. Aborted(ops) = failure("head") \o failure("body") \o failure("connect") \o failure("write")
  BY DEF Aborted
<1> DEFINE two == failure("head") \o failure("body")
           three == two \o failure("connect")
<1>3. /\ failure("head") \in Seq(Handler) /\ OpsIn(failure("head")) = ops \cap {"head"}
      /\ failure("body") \in Seq(Handler) /\ OpsIn(failure("body")) = ops \cap {"body"}
      /\ failure("connect") \in Seq(Handler) /\ OpsIn(failure("connect")) = ops \cap {"connect"}
      /\ failure("write") \in Seq(Handler) /\ OpsIn(failure("write")) = ops \cap {"write"}
  <2> HIDE DEF failure
  <2> QED
    BY <1>1 DEF Ops
<1> HIDE DEF failure
<1>4. two \in Seq(Handler) /\ OpsIn(two) = OpsIn(failure("head")) \cup OpsIn(failure("body"))
  BY <1>3, ConcatOps
<1>5. three \in Seq(Handler) /\ OpsIn(three) = OpsIn(two) \cup OpsIn(failure("connect"))
  <2> HIDE DEF two
  <2> QED
    BY <1>3, <1>4, ConcatOps
<1>6. /\ three \o failure("write") \in Seq(Handler)
      /\ OpsIn(three \o failure("write")) = OpsIn(three) \cup OpsIn(failure("write"))
  <2> HIDE DEF three
  <2> QED
    BY <1>3, <1>5, ConcatOps
<1>7. Aborted(ops) = three \o failure("write")
  BY <1>2
<1> HIDE DEF two, three
<1> QED
  BY <1>3, <1>4, <1>5, <1>6, <1>7 DEF Ops

(* Taking a handler off the queue.                                         *)
LEMMA TailOps ==
  ASSUME NEW s \in Seq(Handler), s # <<>>
  PROVE  /\ Tail(s) \in Seq(Handler) /\ Head(s) \in Handler
         /\ OpsIn(s) = OpsIn(Tail(s)) \cup {Head(s).op}
<1>1. Tail(s) \in Seq(Handler) /\ Head(s) \in Handler /\ Len(Tail(s)) = Len(s) - 1 /\ Len(s) >= 1
  OBVIOUS
<1>2. OpsIn(s) \subseteq OpsIn(Tail(s)) \cup {Head(s).op}
  <2> SUFFICES ASSUME NEW i \in DOMAIN s, i # 1
               PROVE  s[i].op \in OpsIn(Tail(s))
    BY <1>1 DEF OpsIn
  <2>1. i - 1 \in DOMAIN Tail(s) /\ Tail(s)[i - 1] = s[i]
    BY <1>1
  <2> QED
    BY <2>1 DEF OpsIn
<1>3. OpsIn(Tail(s)) \cup {Head(s).op} \subseteq OpsIn(s)
  <2>1. ASSUME NEW i \in DOMAIN Tail(s)
        PROVE  Tail(s)[i].op \in OpsIn(s)
    <3>1. i + 1 \in DOMAIN s /\ Tail(s)[i] = s[i + 1]
      BY <1>1
    <3> QED
      BY <3>1 DEF OpsIn
  <2>2. 1 \in DOMAIN s /\ Head(s) = s[1]
    BY <1>1
  <2> QED
    BY <2>1, <2>2 DEF OpsIn
<1> QED
  BY <1>1, <1>2, <1>3

LEMMA OutstandingOps ==
  ASSUME NEW op \in Ops
  PROVE  Outstanding(op) <=> op \in pending \cup OpsIn(ready)
  BY DEF Outstanding, OpsIn

(* What a handler that has failed ends with: it reconnects, or does not.   *)
Recovery(queue, ops, is_open) == Reconnect(queue, ops) \/ Leave(queue, ops, is_open)

(* Either way no handler is lost.                                          *)
LEMMA ErrorKeeps ==
  ASSUME TypeOK, NEW queue \in Seq(Handler), NEW ops \in SUBSET Ops, NEW is_open \in BOOLEAN,
         Recovery(queue, ops, is_open)
  PROVE  /\ ready' \in Seq(Handler) /\ pending' \in SUBSET Ops /\ open' \in BOOLEAN
         /\ link' \in {"up", "lost", "down"} /\ server' \in [output : Seq(Message), keys : SUBSET Subscription]
         /\ ops \cup OpsIn(queue) \subseteq pending' \cup OpsIn(ready')
         /\ "write" \in pending' => "write" \in ops
<1>1. CASE Reconnect(queue, ops)
  <2>1. Aborted(ops) \in Seq(Handler) /\ OpsIn(Aborted(ops)) = ops
    BY AbortedOps
  <2>2. /\ queue \o Aborted(ops) \in Seq(Handler)
        /\ OpsIn(queue \o Aborted(ops)) = OpsIn(queue) \cup ops
    BY <2>1, ConcatOps
  <2>3. ready' = queue \o Aborted(ops) /\ pending' = {"connect"} /\ open' = TRUE
        /\ link' = "down" /\ server' = Fresh
    BY <1>1 DEF Reconnect
  <2> QED
    BY <2>2, <2>3 DEF Fresh, Ops
<1>2. CASE Leave(queue, ops, is_open)
  BY <1>2 DEF Leave, TypeOK
<1> QED
  BY <1>1, <1>2 DEF Recovery

LEMMA UseIsBoolean == \A ops : BeingUsed(ops) \in BOOLEAN
  BY DEF BeingUsed

(* Beginning a write on whatever socket leaves it outstanding.             *)
LEMMA WriteBegins ==
  ASSUME TypeOK, NEW c \in Message, NEW queue \in Seq(Handler), Write(c, queue)
  PROVE  /\ header' \in Message \cup {Nobody} /\ crossed_writes' \in BOOLEAN
         /\ ready' \in Seq(Handler) /\ pending' \in SUBSET Ops
         /\ "write" \in pending' \cup OpsIn(ready')
<1>0. crossed_writes' \in BOOLEAN
  BY UseIsBoolean DEF Write
<1>1. CASE open
  BY <1>0, <1>1 DEF Write, Started, Refused, TypeOK, Ops
<1>2. CASE ~open
  <2>1. "write" \in Ops /\ FALSE \in BOOLEAN
    BY DEF Ops
  <2>2. /\ Append(queue, [op |-> "write", ok |-> FALSE]) \in Seq(Handler)
        /\ OpsIn(Append(queue, [op |-> "write", ok |-> FALSE])) = OpsIn(queue) \cup {"write"}
    BY <2>1, AppendOps
  <2> QED
    BY <1>0, <1>2, <2>2 DEF Write, Started, Refused, TypeOK
<1> QED
  BY <1>1, <1>2

(* A step that begins no write and loses none.                             *)
LEMMA WritesKept ==
  ASSUME OutboxMoves, Headed,
         "write" \in pending \cup OpsIn(ready) => "write" \in pending' \cup OpsIn(ready'),
         "write" \in pending' => "write" \in pending /\ header' = header,
         outbox' = outbox \/ outbox' = <<>>,
         write_failed => write_failed', user_closed => user_closed'
  PROVE  OutboxMoves' /\ Headed'
  BY DEF OutboxMoves, Headed, Outstanding, OpsIn

LEMMA FreshServer == Fresh \in [output : Seq(Message), keys : SUBSET Subscription]
  BY DEF Fresh

LEMMA InitHolds ==
  ASSUME Init
  PROVE  IInv
<1>1. /\ enable_reconnect \in BOOLEAN /\ connected \in BOOLEAN /\ open \in BOOLEAN
      /\ user_closed \in BOOLEAN /\ write_failed \in BOOLEAN
      /\ swallowed \in BOOLEAN /\ asserted \in BOOLEAN
  BY DEF Init
<1>2. /\ ready \in Seq(Handler) /\ outbox \in Seq(Message) /\ pending \subseteq Ops
      /\ server \in [output : Seq(Message), keys : SUBSET Subscription]
      /\ connects \in 0 .. MaxConnects /\ failures \in 0 .. MaxFailures
  BY ClientAssumption DEF Init, Fresh
<1>3. TypeOK
  BY <1>1, <1>2 DEF Init, TypeOK, Handler
<1>4. OutboxMoves /\ Headed
  BY DEF Init, OutboxMoves, Headed
<1> QED
  BY <1>3, <1>4 DEF IInv
-----------------------------------------------------------------------------
LEMMA CallerStep ==
  ASSUME IInv, NEW c \in Message, Caller(c), enable_reconnect' = enable_reconnect
  PROVE  IInv'
<1> USE DEF IInv, socketVars, readVars, writeVars, mapVars, callVars, ownerVars, pastVars
<1>1. CASE Check(c)
  <2>1. /\ phase' \in [Message -> {"idle", "checked", "registered", "sent", "done"}]
        /\ called' \in [Call -> Nat]
    BY <1>1 DEF Check, TypeOK
  <2>2. TypeOK'
    BY <1>1, <2>1 DEF Check, TypeOK
  <2> QED
    BY <1>1, <2>2, WritesKept DEF Check
<1>2. CASE Register(c)
  <2>1. TypeOK'
    BY <1>2 DEF Register, TypeOK
  <2> QED
    BY <1>2, <2>1, WritesKept DEF Register
<1>3. CASE GiveUp(c)
  <2>1. outcome' \in [Call -> {"none", "value", "empty", "broken", "timeout"}]
    BY <1>3 DEF GiveUp, TypeOK
  <2>2. TypeOK'
    BY <1>3, <2>1 DEF GiveUp, TypeOK
  <2> QED
    BY <1>3, <2>2, WritesKept DEF GiveUp
<1>4. CASE Enter(c)
  <2>1. TypeOK'
    BY <1>4 DEF Enter, TypeOK
  <2> QED
    BY <1>4, <2>1, WritesKept DEF Enter
<1>5. CASE Send(c)
  <2>1. /\ outbox' \in Seq(Message)
        /\ phase' \in [Message -> {"idle", "checked", "registered", "sent", "done"}]
    BY <1>5 DEF Send, TypeOK
  <2>2. CASE WriterIdle
    <3>1. Write(c, ready) /\ ready \in Seq(Handler)
      BY <1>5, <2>2 DEF Send, Handler, TypeOK
    <3>2. /\ header' = c /\ crossed_writes' \in BOOLEAN
          /\ ready' \in Seq(Handler) /\ pending' \in SUBSET Ops
          /\ "write" \in pending' \cup OpsIn(ready')
      BY <3>1, WriteBegins DEF Write
    <3>3. TypeOK'
      BY <1>5, <2>1, <3>2 DEF Send, Handler, TypeOK
    <3>4. OutboxMoves' /\ Headed'
      BY <3>2 DEF OutboxMoves, Headed, Outstanding, OpsIn
    <3> QED
      BY <3>3, <3>4
  <2>3. CASE ~WriterIdle
    <3>1. TypeOK'
      BY <1>5, <2>1, <2>3 DEF Send, TypeOK
    <3>2. OutboxMoves' /\ Headed'
      BY <1>5, <2>3 DEF Send, OutboxMoves, Headed, Outstanding, WriterIdle
    <3> QED
      BY <3>1, <3>2
  <2> QED
    BY <2>2, <2>3
<1> QED
  BY <1>1, <1>2, <1>3, <1>4, <1>5 DEF Caller

LEMMA OwnerStep ==
  ASSUME IInv, Owner, enable_reconnect' = enable_reconnect
  PROVE  IInv'
<1> USE DEF IInv, socketVars, readVars, writeVars, mapVars, callVars, ownerVars, pastVars
<1>1. CASE Connect
  <2>1. connects' \in 0 .. MaxConnects /\ hasty' \in BOOLEAN
    BY <1>1, ClientAssumption DEF Connect, HandlersLeft, TypeOK
  <2>2. CASE ready' = Append(ready, [op |-> "connect", ok |-> FALSE]) /\ pending' = pending
    <3>1. ready' \in Seq(Handler) /\ OpsIn(ready') = OpsIn(ready) \cup {"connect"}
      BY <2>2, AppendOps DEF Ops, Handler, TypeOK
    <3>2. TypeOK'
      BY <1>1, <2>1, <2>2, <3>1 DEF Connect, Handler, TypeOK
    <3> QED
      BY <1>1, <2>2, <3>1, <3>2, WritesKept DEF Connect
  <2>3. CASE pending' = pending \cup {"connect"} /\ ready' = ready
    <3>1. TypeOK'
      BY <1>1, <2>1, <2>3 DEF Connect, Ops, TypeOK
    <3> QED
      BY <1>1, <2>3, <3>1, WritesKept DEF Connect
  <2> QED
    BY <1>1, <2>2, <2>3 DEF Connect
<1>2. CASE CloseSocket
  <2>1. /\ ready \in Seq(Handler) /\ pending \in SUBSET Ops
        /\ Aborted(pending) \in Seq(Handler)
    BY AbortedOps DEF TypeOK, Handler
  <2>2. ready' \in Seq(Handler)
    BY <1>2, <2>1 DEF CloseSocket
  <2>3. TypeOK'
    BY <1>2, <2>2, FreshServer DEF CloseSocket, Handler, TypeOK
  <2>4. OutboxMoves' /\ Headed'
    BY <1>2 DEF CloseSocket, OutboxMoves, Headed
  <2> QED
    BY <2>3, <2>4
<1>3. CASE ClearOutbox
  <2>1. TypeOK'
    BY <1>3 DEF ClearOutbox, TypeOK
  <2> QED
    BY <1>3, <2>1, WritesKept DEF ClearOutbox
<1>4. CASE ClearMaps
  <2>1. outcome' \in [Call -> {"none", "value", "empty", "broken", "timeout"}]
    BY <1>4 DEF ClearMaps, Settled, TypeOK
  <2>2. orphans' \subseteq Call
    BY <1>4 DEF ClearMaps, Forgotten, Call, TypeOK
  <2>3. TypeOK'
    BY <1>4, <2>1, <2>2 DEF ClearMaps, TypeOK
  <2> QED
    BY <1>4, <2>3, WritesKept DEF ClearMaps
<1> QED
  BY <1>1, <1>2, <1>3, <1>4 DEF Owner

(* An operation that ends leaves its handler in the queue.                 *)
LEMMA OpEnds ==
  ASSUME TypeOK, NEW op \in pending, NEW ok \in BOOLEAN,
         pending' = pending \ {op}, ready' = Append(ready, [op |-> op, ok |-> ok])
  PROVE  /\ pending' \in SUBSET Ops /\ ready' \in Seq(Handler)
         /\ "write" \in pending \cup OpsIn(ready) => "write" \in pending' \cup OpsIn(ready')
         /\ "write" \in pending' => "write" \in pending
<1>1. /\ Append(ready, [op |-> op, ok |-> ok]) \in Seq(Handler)
      /\ OpsIn(Append(ready, [op |-> op, ok |-> ok])) = OpsIn(ready) \cup {op}
  BY AppendOps DEF TypeOK, Handler
<1> QED
  BY <1>1 DEF TypeOK

LEMMA NetworkStep ==
  ASSUME IInv, Network, enable_reconnect' = enable_reconnect
  PROVE  IInv'
<1> USE DEF IInv, socketVars, readVars, writeVars, mapVars, callVars, ownerVars, pastVars
<1> DEFINE Ends == /\ pending' \in SUBSET Ops /\ ready' \in Seq(Handler)
                   /\ "write" \in pending \cup OpsIn(ready) => "write" \in pending' \cup OpsIn(ready')
                   /\ "write" \in pending' => "write" \in pending
<1>1. CASE Sent
  <2>1. Ends
    BY <1>1, OpEnds DEF Sent
  <2>2. server' \in [output : Seq(Message), keys : SUBSET Subscription]
    <3>1. header \in Message /\ server \in [output : Seq(Message), keys : SUBSET Subscription]
      BY <1>1 DEF Sent, Headed, TypeOK
    <3>2. CASE header \in Call
      <4>1. Append(server.output, header) \in Seq(Message)
        BY <3>1
      <4> QED
        BY <1>1, <3>1, <3>2, <4>1 DEF Sent
    <3>3. CASE header \notin Call
      BY <1>1, <3>1, <3>3 DEF Sent, Message
    <3> QED
      BY <3>2, <3>3
  <2>3. TypeOK'
    <3>1. UNCHANGED <<connected, open, link, readVars, writeVars, mapVars, callVars, ownerVars, pastVars>>
      BY <1>1 DEF Sent
    <3> QED
      BY <2>1, <2>2, <3>1 DEF TypeOK, Handler
  <2> QED
    BY <1>1, <2>1, <2>3, WritesKept DEF Sent
<1>2. CASE HeadArrives
  <2>1. Ends
    BY <1>2, OpEnds DEF HeadArrives
  <2>2. reading' \in Message
    <3>1. server.output \in Seq(Message) /\ server.output # <<>>
      BY <1>2 DEF HeadArrives, TypeOK
    <3> QED
      BY <1>2, <3>1 DEF HeadArrives
  <2>3. TypeOK'
    <3>1. UNCHANGED <<connected, open, link, server, within, crossed_reads, writeVars, mapVars, callVars,
                     ownerVars, pastVars>>
      BY <1>2 DEF HeadArrives
    <3> QED
      BY <2>1, <2>2, <3>1 DEF TypeOK, Handler
  <2> QED
    BY <1>2, <2>1, <2>3, WritesKept DEF HeadArrives
<1>3. CASE BodyArrives
  <2>1. Ends
    BY <1>3, OpEnds DEF BodyArrives
  <2>2. server' \in [output : Seq(Message), keys : SUBSET Subscription]
    <3>1. server \in [output : Seq(Message), keys : SUBSET Subscription] /\ server.output # <<>>
      BY <1>3 DEF BodyArrives, TypeOK
    <3>2. Tail(server.output) \in Seq(Message)
      BY <3>1
    <3> QED
      BY <1>3, <3>1, <3>2 DEF BodyArrives
  <2>3. TypeOK'
    <3>1. UNCHANGED <<connected, open, link, readVars, writeVars, mapVars, callVars, ownerVars, pastVars>>
      BY <1>3 DEF BodyArrives
    <3> QED
      BY <2>1, <2>2, <3>1 DEF TypeOK, Handler
  <2> QED
    BY <1>3, <2>1, <2>3, WritesKept DEF BodyArrives
<1>4. CASE LinkFails
  <2>1. failures' \in 0 .. MaxFailures
    BY <1>4, ClientAssumption DEF LinkFails, TypeOK
  <2>2. TypeOK'
    BY <1>4, <2>1, FreshServer DEF LinkFails, TypeOK
  <2> QED
    BY <1>4, <2>2, WritesKept DEF LinkFails
<1>5. CASE OperationFails
  <2>1. PICK op \in pending : /\ pending' = pending \ {op}
                              /\ ready' = Append(ready, [op |-> op, ok |-> FALSE])
    BY <1>5 DEF OperationFails
  <2>2. Ends
    BY <2>1, OpEnds
  <2>3. failures' \in 0 .. MaxFailures
    BY <1>5, ClientAssumption DEF OperationFails, TypeOK
  <2>4. TypeOK'
    BY <1>5, <2>2, <2>3 DEF OperationFails, Handler, TypeOK
  <2> QED
    BY <1>5, <2>2, <2>4, WritesKept DEF OperationFails
<1>6. CASE Publish
  <2>1. PICK s \in server.keys : server' = [server EXCEPT !.output = Append(@, s)]
    BY <1>6 DEF Publish
  <2>2. server \in [output : Seq(Message), keys : SUBSET Subscription]
    BY DEF TypeOK
  <2>3. Append(server.output, s) \in Seq(Message)
    BY <2>2 DEF Message
  <2>4. TypeOK'
    <3>1. UNCHANGED <<connected, open, pending, ready, link, readVars, writeVars, mapVars, callVars,
                      ownerVars, pastVars>>
      BY <1>6 DEF Publish
    <3>2. server' \in [output : Seq(Message), keys : SUBSET Subscription]
      BY <2>1, <2>2, <2>3
    <3> QED
      BY <3>1, <3>2 DEF TypeOK
  <2> QED
    BY <1>6, <2>4, WritesKept DEF Publish
<1>7. CASE Swallowed
  <2>1. Ends
    BY <1>7, OpEnds DEF Swallowed
  <2>2. TypeOK'
    BY <1>7, <2>1 DEF Swallowed, Handler, TypeOK
  <2> QED
    BY <1>7, <2>1, <2>2, WritesKept DEF Swallowed
<1> QED
  BY <1>1, <1>2, <1>3, <1>4, <1>5, <1>6, <1>7 DEF Network

(* The first handler of the queue, and the rest.                           *)
LEMMA HandleTakes ==
  ASSUME TypeOK, NEW op, NEW ok, Handle(op, ok)
  PROVE  /\ within = "no" /\ ready \in Seq(Handler) /\ Tail(ready) \in Seq(Handler)
         /\ OpsIn(ready) = OpsIn(Tail(ready)) \cup {op}
<1>1. ready \in Seq(Handler) /\ ready # <<>> /\ Head(ready) = [op |-> op, ok |-> ok] /\ within = "no"
  BY DEF Handle, TypeOK, Handler
<1>2. Head(ready).op = op
  BY <1>1
<1> QED
  BY <1>1, <1>2, TailOps

LEMMA AppendedMessages ==
  ASSUME NEW q \in Seq(Message), NEW messages \in InOrder(key_token_set)
  PROVE  /\ messages \in Seq(Message)
         /\ q \o messages \in Seq(Message)
         /\ messages # <<>> => messages[1] \in Message
         /\ messages = <<>> => q \o messages = q
<1>1. PICK n \in Nat : messages \in [1 .. n -> Message]
  <2>1. key_token_set \subseteq Message
    BY DEF key_token_set, Message
  <2>2. messages \in [1 .. Cardinality(key_token_set) -> key_token_set]
    BY DEF InOrder
  <2>3. Cardinality(key_token_set) \in Nat
    <3>1. key_token_set \subseteq Subscription
      BY DEF key_token_set
    <3> QED
      BY <3>1, ClientAssumption, FS_Subset, FS_CardinalityType
  <2> QED
    BY <2>1, <2>2, <2>3
<1> QED
  BY <1>1

LEMMA ConnectHandlers ==
  ASSUME IInv, OnConnected \/ ResendSubscribe \/ OnConnectFailed,
         enable_reconnect' = enable_reconnect
  PROVE  IInv'
<1> USE DEF IInv, socketVars, readVars, writeVars, mapVars, callVars, ownerVars, pastVars
<1>1. CASE OnConnected
  <2>1. pending' \in SUBSET Ops
    BY <1>1 DEF OnConnected, TypeOK, Ops
  <2>2. TypeOK'
    BY <1>1, <2>1, FreshServer, UseIsBoolean DEF OnConnected, TypeOK
  <2> QED
    BY <1>1, <2>2, WritesKept DEF OnConnected
<1>2. CASE ResendSubscribe
  <2>1. PICK messages \in InOrder(key_token_set) :
          /\ outbox' = outbox \o messages
          /\ IF WriterIdle /\ messages # <<>>
             THEN Write(messages[1], ready) ELSE UNCHANGED <<header, crossed_writes, pending, ready>>
    BY <1>2 DEF ResendSubscribe
  <2>2. /\ outbox' \in Seq(Message)
        /\ messages # <<>> => messages[1] \in Message
        /\ messages = <<>> => outbox' = outbox
    BY <2>1, AppendedMessages DEF TypeOK
  <2>3. CASE WriterIdle /\ messages # <<>>
    <3>1. /\ header' \in Message /\ crossed_writes' \in BOOLEAN
          /\ ready' \in Seq(Handler) /\ pending' \in SUBSET Ops
          /\ "write" \in pending' \cup OpsIn(ready')
      <4>1. Write(messages[1], ready) /\ ready \in Seq(Handler) /\ messages[1] \in Message
        BY <2>1, <2>2, <2>3 DEF TypeOK, Handler
      <4> QED
        BY <4>1, WriteBegins DEF Write
    <3>2. TypeOK'
      BY <1>2, <2>2, <3>1 DEF ResendSubscribe, TypeOK, Handler
    <3>3. OutboxMoves' /\ Headed'
      BY <3>1 DEF OutboxMoves, Headed, Outstanding, OpsIn
    <3> QED
      BY <3>2, <3>3
  <2>4. CASE ~(WriterIdle /\ messages # <<>>)
    <3>1. UNCHANGED <<header, crossed_writes, pending, ready>> /\ (outbox' = outbox \/ outbox # <<>>)
      BY <2>1, <2>2, <2>4 DEF WriterIdle
    <3>2. TypeOK'
      BY <1>2, <2>2, <3>1 DEF ResendSubscribe, TypeOK
    <3>3. OutboxMoves' /\ Headed'
      BY <1>2, <3>1 DEF ResendSubscribe, OutboxMoves, Headed, Outstanding
    <3> QED
      BY <3>2, <3>3
  <2> QED
    BY <2>3, <2>4
<1>3. CASE OnConnectFailed
  <2>1. Tail(ready) \in Seq(Handler) /\ OpsIn(ready) = OpsIn(Tail(ready)) \cup {"connect"}
    BY <1>3, HandleTakes DEF OnConnectFailed
  <2>2. CASE connected
    <3>1. TypeOK'
      <4>1. /\ ready' = Tail(ready)
            /\ UNCHANGED <<connected, pending, open, link, server, readVars, writeVars, mapVars,
                           callVars, ownerVars, pastVars>>
        BY <1>3, <2>2 DEF OnConnectFailed, Leave
      <4> QED
        BY <2>1, <4>1 DEF TypeOK, Handler
    <3> QED
      BY <1>3, <2>1, <2>2, <3>1, WritesKept DEF OnConnectFailed, Leave
  <2>3. CASE ~connected
    <3>1. Recovery(Tail(ready), pending, open)
      BY <1>3, <2>3 DEF Recovery, OnConnectFailed
    <3>2. /\ ready' \in Seq(Handler) /\ pending' \in SUBSET Ops /\ open' \in BOOLEAN
          /\ link' \in {"up", "lost", "down"} /\ server' \in [output : Seq(Message), keys : SUBSET Subscription]
          /\ pending \cup OpsIn(Tail(ready)) \subseteq pending' \cup OpsIn(ready')
          /\ "write" \in pending' => "write" \in pending
      BY <2>1, <3>1, ErrorKeeps DEF TypeOK
    <3>3. TypeOK'
      <4>1. UNCHANGED <<connected, readVars, writeVars, mapVars, callVars, ownerVars, pastVars>>
        BY <1>3 DEF OnConnectFailed
      <4> QED
        BY <3>2, <4>1 DEF TypeOK, Handler
    <3> QED
      BY <1>3, <2>1, <3>2, <3>3, WritesKept DEF OnConnectFailed
  <2> QED
    BY <2>2, <2>3
<1> QED
  BY <1>1, <1>2, <1>3

LEMMA WriteHandlers ==
  ASSUME IInv, OnWritten \/ OnWriteFailed, enable_reconnect' = enable_reconnect
  PROVE  IInv'
<1> USE DEF IInv, socketVars, readVars, writeVars, mapVars, callVars, ownerVars, pastVars
<1>1. CASE OnWritten
  <2>1. Tail(ready) \in Seq(Handler)
    BY <1>1, HandleTakes DEF OnWritten
  <2>2. outbox' \in Seq(Message)
    BY <1>1 DEF OnWritten, TypeOK
  <2>3. CASE outbox' = <<>>
    <3>1. ready' = Tail(ready) /\ UNCHANGED <<header, crossed_writes, pending>>
      BY <1>1, <2>3 DEF OnWritten
    <3>2. TypeOK'
      BY <1>1, <2>1, <2>2, <3>1 DEF OnWritten, TypeOK, Handler
    <3>3. OutboxMoves' /\ Headed'
      BY <2>3, <3>1 DEF OutboxMoves, Headed
    <3> QED
      BY <3>2, <3>3
  <2>4. CASE outbox' # <<>>
    <3>1. Head(outbox') \in Message /\ Write(Head(outbox'), Tail(ready))
      BY <1>1, <2>2, <2>4 DEF OnWritten
    <3>2. /\ header' \in Message /\ crossed_writes' \in BOOLEAN
          /\ ready' \in Seq(Handler) /\ pending' \in SUBSET Ops
          /\ "write" \in pending' \cup OpsIn(ready')
      BY <2>1, <3>1, WriteBegins DEF Write
    <3>3. TypeOK'
      BY <1>1, <2>2, <3>2 DEF OnWritten, TypeOK, Handler
    <3>4. OutboxMoves' /\ Headed'
      BY <3>2 DEF OutboxMoves, Headed, Outstanding, OpsIn
    <3> QED
      BY <3>3, <3>4
  <2> QED
    BY <2>3, <2>4
<1>2. CASE OnWriteFailed
  <2>1. Tail(ready) \in Seq(Handler) /\ Recovery(Tail(ready), pending, open)
    BY <1>2, HandleTakes DEF Recovery, ErrorCallback, OnWriteFailed
  <2>2. /\ ready' \in Seq(Handler) /\ pending' \in SUBSET Ops /\ open' \in BOOLEAN
        /\ link' \in {"up", "lost", "down"} /\ server' \in [output : Seq(Message), keys : SUBSET Subscription]
        /\ "write" \in pending' => "write" \in pending
    <3>1. pending \in SUBSET Ops /\ open \in BOOLEAN
      BY DEF TypeOK
    <3> QED
      BY <2>1, <3>1, ErrorKeeps
  <2>3. TypeOK'
    <3>1. /\ connected' = FALSE /\ write_failed' = TRUE
          /\ UNCHANGED <<readVars, writeVars, mapVars, callVars, ownerVars, failures, swallowed,
                         asserted, orphans>>
      BY <1>2 DEF OnWriteFailed
    <3>2. connected' \in BOOLEAN /\ write_failed' \in BOOLEAN
      BY <3>1
    <3> QED
      BY <2>2, <3>1, <3>2 DEF TypeOK, Handler
  <2>4. OutboxMoves' /\ Headed'
    BY <1>2, <2>2 DEF OnWriteFailed, OutboxMoves, Headed
  <2> QED
    BY <2>3, <2>4
<1> QED
  BY <1>1, <1>2

LEMMA ReadHandlers ==
  ASSUME IInv, OnHead \/ OnHeadFailed \/ OnBody, enable_reconnect' = enable_reconnect
  PROVE  IInv'
<1> USE DEF IInv, socketVars, readVars, writeVars, mapVars, callVars, ownerVars, pastVars
<1>0. pending \in SUBSET Ops /\ open \in BOOLEAN /\ FALSE \in BOOLEAN /\ {} \in SUBSET Ops
  BY DEF TypeOK
<1>1. CASE OnHead
  <2>1. Tail(ready) \in Seq(Handler) /\ OpsIn(ready) = OpsIn(Tail(ready)) \cup {"head"}
    BY <1>1, HandleTakes DEF OnHead
  <2>2. /\ ready' = Tail(ready) /\ pending' \in {pending, pending \cup {"body"}}
        /\ connected' \in BOOLEAN /\ crossed_reads' \in BOOLEAN
    BY <1>1, UseIsBoolean DEF OnHead, TypeOK
  <2>3. TypeOK'
    BY <1>1, <2>1, <2>2 DEF OnHead, TypeOK, Handler, Ops
  <2> QED
    BY <1>1, <2>1, <2>2, <2>3, WritesKept DEF OnHead
<1>2. CASE OnHeadFailed
  <2>1. Tail(ready) \in Seq(Handler) /\ OpsIn(ready) = OpsIn(Tail(ready)) \cup {"head"}
    BY <1>2, HandleTakes DEF OnHeadFailed
  <2>2. CASE ~open
    <3>1. TypeOK'
      <4>1. /\ ready' = Tail(ready) /\ connected' = FALSE
            /\ called' = called /\ UNCHANGED <<open, pending, link, server, outbox, mapVars, outcome, orphans>>
            /\ UNCHANGED <<readVars, header, crossed_writes, phase, ownerVars, failures, write_failed, swallowed, asserted>>
        BY <1>2, <2>2 DEF OnHeadFailed
      <4>2. ready' \in Seq(Handler) /\ connected' \in BOOLEAN /\ pending' \in SUBSET Ops
        BY <1>0, <2>1, <4>1
      <4>3. UNCHANGED <<open, link, server, outbox, mapVars, outcome, called, orphans, readVars, header,
                        crossed_writes, phase, ownerVars, failures, write_failed, swallowed, asserted>>
        BY <4>1
      <4> QED
        BY <4>2, <4>3 DEF TypeOK, Handler
    <3> QED
      BY <1>2, <2>1, <2>2, <3>1, WritesKept DEF OnHeadFailed
  <2>3. CASE open /\ connected
    <3>1. /\ Tail(ready) \o Aborted(pending) \in Seq(Handler)
          /\ Recovery(Tail(ready) \o Aborted(pending), {}, FALSE)
      BY <1>0, <1>2, <2>1, <2>3, AbortedOps, ConcatOps DEF Recovery, ErrorCallback, OnHeadFailed
    <3>2. /\ ready' \in Seq(Handler) /\ pending' \in SUBSET Ops /\ open' \in BOOLEAN
          /\ link' \in {"up", "lost", "down"} /\ server' \in [output : Seq(Message), keys : SUBSET Subscription]
          /\ "write" \in pending' => "write" \in {}
      BY <1>0, <3>1, ErrorKeeps
    <3>3. /\ called' \in [Call -> Nat] /\ orphans' \subseteq Call
          /\ outcome' \in [Call -> {"none", "value", "empty", "broken", "timeout"}]
      <4>1. /\ called' = [c \in Call |-> IF c \in callbacks THEN called[c] + 1 ELSE called[c]]
            /\ orphans' = orphans \cup Forgotten(<<>>) /\ outcome' = Settled(futures, "broken")
        BY <1>2, <2>3 DEF OnHeadFailed
      <4>2. /\ called \in [Call -> Nat] /\ orphans \subseteq Call
            /\ outcome \in [Call -> {"none", "value", "empty", "broken", "timeout"}]
            /\ Forgotten(<<>>) \subseteq Call
        BY DEF TypeOK, Forgotten, Call
      <4>3. Settled(futures, "broken") \in [Call -> {"none", "value", "empty", "broken", "timeout"}]
        BY <4>2 DEF Settled
      <4> QED
        BY <4>1, <4>2, <4>3
    <3>4. TypeOK'
      <4>1. /\ connected' = FALSE /\ outbox' = <<>> /\ futures' = {} /\ callbacks' = {}
            /\ UNCHANGED <<readVars, header, crossed_writes, phase, ownerVars,
                           failures, write_failed, swallowed, asserted>>
        BY <1>2, <2>3 DEF OnHeadFailed
      <4>2. connected' \in BOOLEAN
        BY <4>1
      <4>4. outbox' \in Seq(Message) /\ futures' \subseteq Future /\ callbacks' \subseteq Callback
        BY <4>1
      <4>3. TypeOK
        OBVIOUS
      <4> QED
        BY <3>2, <3>3, <4>1, <4>2, <4>3, <4>4 DEF TypeOK, Handler
    <3>5. OutboxMoves' /\ Headed'
      BY <1>2, <2>3, <3>2 DEF OnHeadFailed, OutboxMoves, Headed
    <3> QED
      BY <3>4, <3>5
  <2>4. CASE open /\ ~connected
    <3>1. Recovery(Tail(ready), pending, open)
      BY <1>2, <2>4 DEF Recovery, ErrorCallback, OnHeadFailed
    <3>2. /\ ready' \in Seq(Handler) /\ pending' \in SUBSET Ops /\ open' \in BOOLEAN
          /\ link' \in {"up", "lost", "down"} /\ server' \in [output : Seq(Message), keys : SUBSET Subscription]
          /\ pending \cup OpsIn(Tail(ready)) \subseteq pending' \cup OpsIn(ready')
          /\ "write" \in pending' => "write" \in pending
      BY <1>0, <2>1, <3>1, ErrorKeeps
    <3>3. called' \in [Call -> Nat]
      <4>1. called' = [c \in Call |-> IF c \in callbacks THEN called[c] + 1 ELSE called[c]]
        BY <1>2, <2>4 DEF OnHeadFailed
      <4>2. called \in [Call -> Nat]
        BY DEF TypeOK
      <4> QED
        BY <4>1, <4>2
    <3>4. TypeOK'
      <4>1. /\ connected' = FALSE
            /\ UNCHANGED <<outbox, futures, callbacks, outcome, orphans, readVars, header, crossed_writes,
                           phase, ownerVars, failures, write_failed, swallowed, asserted>>
        BY <1>2, <2>4 DEF OnHeadFailed
      <4>2. connected' \in BOOLEAN
        BY <4>1
      <4> QED
        BY <3>2, <3>3, <4>1, <4>2 DEF TypeOK, Handler
    <3> QED
      BY <1>2, <2>1, <2>4, <3>2, <3>4, WritesKept DEF OnHeadFailed
  <2> QED
    BY <2>2, <2>3, <2>4
<1>3. CASE OnBody
  <2>1. Tail(ready) \in Seq(Handler) /\ OpsIn(ready) = OpsIn(Tail(ready)) \cup {"body"}
    BY <1>3, HandleTakes DEF OnBody
  <2>2. within' \in Deliveries /\ connected' \in BOOLEAN
    BY <1>3 DEF OnBody, TypeOK, Deliveries
  <2>3. TypeOK'
    BY <1>3, <2>1, <2>2 DEF OnBody, TypeOK, Handler
  <2> QED
    BY <1>3, <2>1, <2>3, WritesKept DEF OnBody
<1> QED
  BY <1>1, <1>2, <1>3

LEMMA CallBackStep ==
  ASSUME IInv, CallBack, enable_reconnect' = enable_reconnect
  PROVE  IInv'
<1> USE DEF IInv, socketVars, readVars, writeVars, mapVars, callVars, ownerVars, pastVars
<1>1. /\ within' = "no" /\ asserted' \in BOOLEAN /\ crossed_reads' \in BOOLEAN
      /\ outcome' \in [Call -> {"none", "value", "empty", "broken", "timeout"}]
      /\ called' \in [Call -> Nat] /\ futures' \subseteq Future /\ callbacks' \subseteq Callback
  BY DEF CallBack, Settled, TypeOK
<1>2. /\ ready' \in Seq(Handler) /\ pending' \in SUBSET Ops /\ open' \in BOOLEAN
      /\ link' \in {"up", "lost", "down"} /\ server' \in [output : Seq(Message), keys : SUBSET Subscription]
      /\ pending \cup OpsIn(ready) \subseteq pending' \cup OpsIn(ready')
      /\ "write" \in pending' => "write" \in pending
  <2>1. /\ ready \in Seq(Handler) /\ pending \in SUBSET Ops /\ open \in BOOLEAN
        /\ link \in {"up", "lost", "down"} /\ server \in [output : Seq(Message), keys : SUBSET Subscription]
    BY DEF TypeOK, Handler
  <2>2. CASE within = "answer"
    <3>1. /\ pending' = Started("head", pending) /\ ready' = Refused("head", ready)
          /\ UNCHANGED <<open, link, server>>
      BY <2>2 DEF CallBack
    <3>2. /\ Append(ready, [op |-> "head", ok |-> FALSE]) \in Seq(Handler)
          /\ OpsIn(Append(ready, [op |-> "head", ok |-> FALSE])) = OpsIn(ready) \cup {"head"}
      BY <2>1, AppendOps DEF Ops
    <3> QED
      BY <2>1, <3>1, <3>2 DEF Started, Refused, Ops
  <2>3. CASE within = "error"
    <3>1. Recovery(ready, pending, open)
      BY <2>3 DEF Recovery, ErrorCallback, CallBack
    <3> QED
      BY <2>1, <3>1, ErrorKeeps
  <2>4. CASE within \notin {"answer", "error"}
    <3>1. UNCHANGED <<open, pending, ready, link, server>>
      BY <2>4 DEF CallBack
    <3> QED
      BY <2>1, <3>1
  <2> QED
    BY <2>2, <2>3, <2>4
<1>3. TypeOK'
  BY <1>1, <1>2 DEF CallBack, TypeOK, Handler
<1> QED
  BY <1>2, <1>3, WritesKept DEF CallBack

LEMMA NextHolds ==
  ASSUME IInv, [Next]_vars
  PROVE  IInv'
<1>1. CASE Next
  <2>1. /\ enable_reconnect' = enable_reconnect
        /\ (\E c \in Message : Caller(c)) \/ Owner \/ Network \/ IoThread
    BY <1>1 DEF Next, Alive
  <2> QED
    BY <2>1, CallerStep, OwnerStep, NetworkStep, ConnectHandlers, WriteHandlers, ReadHandlers,
       CallBackStep DEF IoThread
<1>2. CASE UNCHANGED vars
  <2>1. TypeOK'
    BY <1>2 DEF vars, IInv, TypeOK, socketVars, readVars, writeVars, mapVars, callVars,
                ownerVars, pastVars
  <2>2. OutboxMoves' /\ Headed'
    BY <1>2 DEF vars, IInv, OutboxMoves, Headed, Outstanding, socketVars, writeVars,
                ownerVars, pastVars
  <2> QED
    BY <2>1, <2>2 DEF IInv
<1> QED
  BY <1>1, <1>2
-----------------------------------------------------------------------------
(* The inductive invariant of the client.                                  *)
THEOREM ClientSafety == Spec => []IInv
  BY InitHolds, NextHolds, PTL DEF Spec

(* Every variable keeps its type, whatever fails or is closed.             *)
THEOREM ClientTypes == Spec => []TypeOK
<1>1. IInv => TypeOK
  BY DEF IInv
<1> QED
  BY <1>1, ClientSafety, PTL

(* rpc_client::write: what is in the outbox moves, until a write fails or  *)
(* the owner closes.                                                       *)
THEOREM OutboxAlwaysMoves == Spec => []OutboxMoves
<1>1. IInv => OutboxMoves
  BY DEF IInv
<1> QED
  BY <1>1, ClientSafety, PTL
-----------------------------------------------------------------------------
(* A failed read runs every callback, and only the close() that follows    *)
(* forgets them: a callback runs once because a read fails on a connected  *)
(* client.                                                                 *)
OneRead(queue) ==
  \A i, j \in DOMAIN queue : queue[i].op \in Reads /\ queue[j].op \in Reads => i = j

(* A single read is under way, queued, or being delivered.                 *)
SingleRead ==
  /\ ~(Reads \subseteq pending)
  /\ OneRead(ready)
  /\ pending \cap Reads # {} => OpsIn(ready) \cap Reads = {}
  /\ within \in Deliveries => (pending \cup OpsIn(ready)) \cap Reads = {}

(* It belongs to a connection that is up, or whose socket is closed.       *)
ReadsAttached ==
  /\ ~open => pending \cap Reads = {}
  /\ open /\ ~connected =>
       (pending \cup OpsIn(ready)) \cap Reads = {} /\ within \notin {"answer", "closed"}
  /\ within = "error" => open /\ ~connected
  /\ within = "closed" => ~open
  /\ "connect" \in pending \cup OpsIn(ready) => open /\ ~connected

(* A callback that may still run has not run.                              *)
CallbacksFresh ==
  \A c \in Callback :
    /\ called[c] <= 1
    /\ c \in callbacks \/ phase[c] = "checked" => called[c] = 0
    /\ phase[c] \in {"idle", "checked", "done"} => c \notin callbacks

Steady == SingleRead /\ ReadsAttached /\ CallbacksFresh

Orderly == write_failed \/ hasty \/ Steady
-----------------------------------------------------------------------------
LEMMA NoReadsOne ==
  ASSUME NEW queue, OpsIn(queue) \cap Reads = {}
  PROVE  OneRead(queue)
  BY DEF OneRead, OpsIn

LEMMA ConcatRead ==
  ASSUME NEW s \in Seq(Handler), NEW t \in Seq(Handler), OneRead(s), OneRead(t),
         OpsIn(s) \cap Reads = {} \/ OpsIn(t) \cap Reads = {}
  PROVE  OneRead(s \o t)
<1> SUFFICES ASSUME NEW i \in DOMAIN (s \o t), NEW j \in DOMAIN (s \o t),
                    (s \o t)[i].op \in Reads, (s \o t)[j].op \in Reads
             PROVE  i = j
  BY DEF OneRead
<1>1. ASSUME NEW k \in DOMAIN (s \o t)
      PROVE  \/ k \in DOMAIN s /\ (s \o t)[k] = s[k]
             \/ k - Len(s) \in DOMAIN t /\ (s \o t)[k] = t[k - Len(s)] /\ k \in Int
  BY <1>1
<1>2. CASE OpsIn(s) \cap Reads = {}
  <2>1. /\ i - Len(s) \in DOMAIN t /\ (s \o t)[i] = t[i - Len(s)] /\ i \in Int
        /\ j - Len(s) \in DOMAIN t /\ (s \o t)[j] = t[j - Len(s)] /\ j \in Int
    BY <1>1, <1>2 DEF OpsIn
  <2>2. i - Len(s) = j - Len(s)
    BY <2>1 DEF OneRead
  <2> QED
    BY <2>1, <2>2
<1>3. CASE OpsIn(t) \cap Reads = {}
  <2>1. i \in DOMAIN s /\ (s \o t)[i] = s[i] /\ j \in DOMAIN s /\ (s \o t)[j] = s[j]
    BY <1>1, <1>3 DEF OpsIn
  <2> QED
    BY <2>1 DEF OneRead
<1> QED
  BY <1>2, <1>3

LEMMA SingletonRead ==
  ASSUME NEW op \in Ops, NEW ok \in BOOLEAN
  PROVE  OneRead(<<[op |-> op, ok |-> ok]>>)
  BY DEF OneRead

LEMMA AppendRead ==
  ASSUME NEW s \in Seq(Handler), NEW op \in Ops, NEW ok \in BOOLEAN, OneRead(s),
         op \notin Reads \/ OpsIn(s) \cap Reads = {}
  PROVE  OneRead(Append(s, [op |-> op, ok |-> ok]))
<1> DEFINE t == <<[op |-> op, ok |-> ok]>>
<1>1. t \in Seq(Handler) /\ OpsIn(t) = {op} /\ OneRead(t)
  BY OneOp, SingletonRead
<1>2. Append(s, [op |-> op, ok |-> ok]) = s \o t
  <2>1. [op |-> op, ok |-> ok] \in Handler
    BY DEF Handler
  <2> QED
    BY <2>1
<1> HIDE DEF t
<1> QED
  BY <1>1, <1>2, ConcatRead

(* The failures of a closed socket hold one read if one was under way.     *)
LEMMA AbortedRead ==
  ASSUME NEW ops \in SUBSET Ops, ~(Reads \subseteq ops)
  PROVE  OneRead(Aborted(ops))
<1> DEFINE failure(op) == IF op \in ops THEN <<[op |-> op, ok |-> FALSE]>> ELSE <<>>
<1>1. ASSUME NEW op \in Ops
      PROVE  /\ failure(op) \in Seq(Handler) /\ OpsIn(failure(op)) = ops \cap {op}
             /\ OneRead(failure(op))
  <2>1. CASE op \in ops
    BY <2>1, OneOp, SingletonRead
  <2>2. CASE op \notin ops
    BY <2>2 DEF OpsIn, OneRead
  <2> QED
    BY <2>1, <2>2
<1>2. Aborted(ops) = failure("head") \o failure("body") \o failure("connect") \o failure("write")
  BY DEF Aborted
<1> DEFINE two == failure("head") \o failure("body")
           three == two \o failure("connect")
<1>3. \A op \in Ops : /\ failure(op) \in Seq(Handler) /\ OpsIn(failure(op)) = ops \cap {op}
                      /\ OneRead(failure(op))
  BY <1>1
<1> HIDE DEF failure
<1>4. two \in Seq(Handler) /\ OpsIn(two) = ops \cap Reads /\ OneRead(two)
  <2>1. "head" \in Ops /\ "body" \in Ops
    BY DEF Ops
  <2>2. OpsIn(failure("head")) \cap Reads = {} \/ OpsIn(failure("body")) \cap Reads = {}
    BY <1>3, <2>1 DEF Reads
  <2> QED
    BY <1>3, <2>1, <2>2, ConcatOps, ConcatRead DEF Reads
<1>5. three \in Seq(Handler) /\ OneRead(three)
  <2>1. "connect" \in Ops /\ OpsIn(failure("connect")) \cap Reads = {}
    BY <1>3 DEF Ops, Reads
  <2> HIDE DEF two
  <2> QED
    BY <1>3, <1>4, <2>1, ConcatOps, ConcatRead
<1>6. OneRead(three \o failure("write"))
  <2>1. "write" \in Ops /\ OpsIn(failure("write")) \cap Reads = {}
    BY <1>3 DEF Ops, Reads
  <2> HIDE DEF three
  <2> QED
    BY <1>3, <1>5, <2>1, ConcatRead
<1> QED
  BY <1>2, <1>6

LEMMA TailRead ==
  ASSUME NEW s \in Seq(Handler), s # <<>>, OneRead(s)
  PROVE  /\ OneRead(Tail(s))
         /\ Head(s).op \in Reads => OpsIn(Tail(s)) \cap Reads = {}
<1>1. \A i \in DOMAIN Tail(s) : i + 1 \in DOMAIN s /\ Tail(s)[i] = s[i + 1] /\ i \in Int /\ i + 1 # 1
  OBVIOUS
<1>2. 1 \in DOMAIN s /\ Head(s) = s[1]
  OBVIOUS
<1>3. OneRead(Tail(s))
  <2> SUFFICES ASSUME NEW i \in DOMAIN Tail(s), NEW j \in DOMAIN Tail(s),
                      Tail(s)[i].op \in Reads, Tail(s)[j].op \in Reads
               PROVE  i = j
    BY DEF OneRead
  <2>1. i + 1 = j + 1 /\ i \in Int /\ j \in Int
    BY <1>1 DEF OneRead
  <2> QED
    BY <2>1
<1>4. ASSUME Head(s).op \in Reads, NEW i \in DOMAIN Tail(s), Tail(s)[i].op \in Reads
      PROVE  FALSE
  BY <1>1, <1>2, <1>4 DEF OneRead
<1> QED
  BY <1>3, <1>4 DEF OpsIn
-----------------------------------------------------------------------------
(* A step that begins no read and no connect.                              *)
LEMMA NoNewReads ==
  ASSUME SingleRead, ReadsAttached, OneRead(ready'),
         pending' \cap (Reads \cup {"connect"}) \subseteq pending,
         OpsIn(ready') \cap (Reads \cup {"connect"}) \subseteq OpsIn(ready),
         UNCHANGED <<open, connected>>,
         within' = within \/ within' \notin Deliveries
  PROVE  SingleRead' /\ ReadsAttached'
<1>1. OpsIn(ready)' = OpsIn(ready')
  BY DEF OpsIn
<1>2. SingleRead'
  BY <1>1 DEF SingleRead, Reads
<1>3. ReadsAttached'
  BY <1>1 DEF ReadsAttached, Reads, Deliveries
<1> QED
  BY <1>2, <1>3

(* A write begins.                                                         *)
LEMMA WriteReads ==
  ASSUME TypeOK, NEW c \in Message, NEW queue \in Seq(Handler), Write(c, queue), OneRead(queue)
  PROVE  /\ OneRead(ready')
         /\ pending' \cap (Reads \cup {"connect"}) \subseteq pending
         /\ OpsIn(ready') \cap (Reads \cup {"connect"}) \subseteq OpsIn(queue)
<1>1. CASE open
  BY <1>1 DEF Write, Started, Refused, Reads
<1>2. CASE ~open
  <2>1. "write" \in Ops /\ "write" \notin Reads
    BY DEF Ops, Reads
  <2>2. /\ OneRead(Append(queue, [op |-> "write", ok |-> FALSE]))
        /\ OpsIn(Append(queue, [op |-> "write", ok |-> FALSE])) = OpsIn(queue) \cup {"write"}
    BY <2>1, AppendOps, AppendRead
  <2> QED
    BY <1>2, <2>2 DEF Write, Started, Refused, Reads
<1> QED
  BY <1>1, <1>2

(* An operation ends: its handler takes its place.                         *)
LEMMA EndReads ==
  ASSUME TypeOK, SingleRead, ReadsAttached, NEW op \in pending, NEW ok \in BOOLEAN,
         pending' = pending \ {op}, ready' = Append(ready, [op |-> op, ok |-> ok]),
         UNCHANGED <<open, connected, within>>
  PROVE  SingleRead' /\ ReadsAttached'
<1>1. op \in Ops /\ ready \in Seq(Handler)
  BY DEF TypeOK, Handler
<1>2. OpsIn(ready)' = OpsIn(ready) \cup {op}
  <2>1. OpsIn(Append(ready, [op |-> op, ok |-> ok])) = OpsIn(ready) \cup {op}
    BY <1>1, AppendOps
  <2> QED
    BY <2>1 DEF OpsIn
<1>3. OneRead(ready)'
  <2>1. op \notin Reads \/ OpsIn(ready) \cap Reads = {}
    BY DEF SingleRead
  <2>2. OneRead(Append(ready, [op |-> op, ok |-> ok]))
    BY <1>1, <2>1, AppendRead DEF SingleRead
  <2> QED
    BY <2>2 DEF OneRead
<1>4. (pending \cup OpsIn(ready))' = pending \cup OpsIn(ready)
  BY <1>2
<1>5. SingleRead'
  BY <1>2, <1>3, <1>4 DEF SingleRead, Reads
<1>6. ReadsAttached'
  BY <1>2, <1>4 DEF ReadsAttached
<1> QED
  BY <1>5, <1>6

(* error_callback() when no read is left: it may only begin to connect.    *)
LEMMA ErrorReads ==
  ASSUME TypeOK, NEW queue \in Seq(Handler), NEW ops \in SUBSET Ops, NEW is_open \in BOOLEAN,
         Recovery(queue, ops, is_open),
         (ops \cup OpsIn(queue)) \cap Reads = {},
         "connect" \in ops \cup OpsIn(queue) => is_open
  PROVE  /\ (pending \cup OpsIn(ready))' \cap Reads = {}
         /\ ("connect" \in pending \cup OpsIn(ready))' => open'
         /\ open' \/ open' = is_open
<1>1. OpsIn(ready)' = OpsIn(ready')
  BY DEF OpsIn
<1>2. CASE Reconnect(queue, ops)
  <2>1. Aborted(ops) \in Seq(Handler) /\ OpsIn(Aborted(ops)) = ops
    BY AbortedOps
  <2>2. OpsIn(queue \o Aborted(ops)) = OpsIn(queue) \cup ops
    BY <2>1, ConcatOps
  <2>3. ready' = queue \o Aborted(ops) /\ pending' = {"connect"} /\ open'
    BY <1>2 DEF Reconnect
  <2> QED
    BY <1>1, <2>2, <2>3 DEF Reads
<1>3. CASE Leave(queue, ops, is_open)
  <2>1. ready' = queue /\ pending' = ops /\ open' = is_open
    BY <1>3 DEF Leave
  <2> QED
    BY <1>1, <2>1
<1> QED
  BY <1>2, <1>3 DEF Recovery

(* What follows from there being no read.                                  *)
LEMMA QuietReads ==
  ASSUME (pending \cup OpsIn(ready))' \cap Reads = {},
         ("connect" \in pending \cup OpsIn(ready))' => open' /\ ~connected',
         open' /\ ~connected' => within' \notin {"answer", "closed"},
         (within' = "error") => open' /\ ~connected',
         (within' = "closed") => ~open'
  PROVE  SingleRead' /\ ReadsAttached'
<1>1. OneRead(ready)'
  <2>1. OpsIn(ready)' = OpsIn(ready') /\ OneRead(ready)' = OneRead(ready')
    BY DEF OpsIn, OneRead
  <2>2. OpsIn(ready') \cap Reads = {}
    BY <2>1
  <2> QED
    BY <2>1, <2>2, NoReadsOne
<1> QED
  BY <1>1 DEF SingleRead, ReadsAttached, Reads

LEMMA UntouchedReads ==
  ASSUME SingleRead, ReadsAttached, UNCHANGED <<pending, ready, open, connected, within>>
  PROVE  SingleRead' /\ ReadsAttached'
  BY DEF SingleRead, ReadsAttached, OneRead, OpsIn

LEMMA UntouchedCallbacks ==
  ASSUME CallbacksFresh, UNCHANGED <<callbacks, called, phase>>
  PROVE  CallbacksFresh'
  BY DEF CallbacksFresh
-----------------------------------------------------------------------------
LEMMA CallerOrderly ==
  ASSUME IInv, Steady, NEW c \in Message, Caller(c)
  PROVE  Steady'
<1> USE DEF Steady, socketVars, readVars, writeVars, mapVars, callVars, ownerVars, pastVars
<1>1. CASE Check(c)
  <2>1. CallbacksFresh'
    BY <1>1 DEF Check, CallbacksFresh, IInv, TypeOK, Call, Message
  <2> QED
    BY <1>1, <2>1, UntouchedReads DEF Check
<1>2. CASE Register(c)
  <2>1. CallbacksFresh'
    BY <1>2, ClientAssumption DEF Register, CallbacksFresh, IInv, TypeOK
  <2> QED
    BY <1>2, <2>1, UntouchedReads DEF Register
<1>3. CASE GiveUp(c)
  BY <1>3, UntouchedReads, UntouchedCallbacks DEF GiveUp
<1>4. CASE Enter(c)
  <2>1. CallbacksFresh'
    BY <1>4, ClientAssumption DEF Enter, CallbacksFresh, IInv, TypeOK
  <2> QED
    BY <1>4, <2>1, UntouchedReads DEF Enter
<1>5. CASE Send(c)
  <2>1. CallbacksFresh'
    BY <1>5 DEF Send, CallbacksFresh, IInv, TypeOK
  <2>2. SingleRead' /\ ReadsAttached'
    <3>1. CASE WriterIdle
      <4>1. Write(c, ready) /\ TypeOK /\ ready \in Seq(Handler) /\ OneRead(ready)
        BY <1>5, <3>1 DEF Send, IInv, TypeOK, Handler, SingleRead
      <4>2. UNCHANGED <<open, connected, within>>
        BY <1>5 DEF Send
      <4> QED
        BY <4>1, <4>2, WriteReads, NoNewReads
    <3>2. CASE ~WriterIdle
      BY <1>5, <3>2, UntouchedReads DEF Send
    <3> QED
      BY <3>1, <3>2
  <2> QED
    BY <2>1, <2>2
<1> QED
  BY <1>1, <1>2, <1>3, <1>4, <1>5 DEF Caller

LEMMA OwnerOrderly ==
  ASSUME IInv, Steady, Owner, ~hasty'
  PROVE  Steady'
<1> USE DEF Steady, socketVars, readVars, writeVars, mapVars, callVars, ownerVars, pastVars
<1>0. ready \in Seq(Handler) /\ pending \in SUBSET Ops
  BY DEF IInv, TypeOK, Handler
<1>1. CASE Connect
  <2>1. CallbacksFresh'
    BY <1>1, UntouchedCallbacks DEF Connect
  <2>2. ready = <<>> /\ ~connected /\ within = "no" /\ open' /\ UNCHANGED <<connected, within>>
    BY <1>1 DEF Connect, HandlersLeft
  <2>3. OpsIn(ready) = {} /\ pending \cap Reads = {}
    BY <2>2 DEF OpsIn, ReadsAttached
  <2>4. OpsIn(ready)' \subseteq {"connect"} /\ pending' \subseteq pending \cup {"connect"}
    <3>1. OpsIn(<<[op |-> "connect", ok |-> FALSE]>>) = {"connect"}
      BY OneOp DEF Ops
    <3>2. CASE ready' = Append(ready, [op |-> "connect", ok |-> FALSE]) /\ pending' = pending
      <4>1. ready' = <<[op |-> "connect", ok |-> FALSE]>>
        BY <2>2, <3>2
      <4> QED
        BY <3>1, <3>2, <4>1 DEF OpsIn
    <3>3. CASE pending' = pending \cup {"connect"} /\ ready' = ready
      BY <2>3, <3>3 DEF OpsIn
    <3> QED
      BY <1>1, <3>2, <3>3 DEF Connect
  <2>5. SingleRead' /\ ReadsAttached'
    BY <2>2, <2>3, <2>4, QuietReads DEF Reads
  <2> QED
    BY <2>1, <2>5
<1>2. CASE CloseSocket
  <2>1. CallbacksFresh'
    BY <1>2, UntouchedCallbacks DEF CloseSocket
  <2>2. /\ connected /\ ~open' /\ ~connected' /\ pending' = {} /\ within' = within
        /\ ready' = ready \o Aborted(pending)
    BY <1>2 DEF CloseSocket
  <2>3. OpsIn(ready)' = OpsIn(ready) \cup pending
    <3>1. OpsIn(ready \o Aborted(pending)) = OpsIn(ready) \cup pending
      BY <1>0, AbortedOps, ConcatOps
    <3> QED
      BY <2>2, <3>1 DEF OpsIn
  <2>4. OneRead(ready)'
    <3>1. /\ Aborted(pending) \in Seq(Handler) /\ OpsIn(Aborted(pending)) = pending
          /\ OneRead(Aborted(pending)) /\ OneRead(ready)
      BY <1>0, AbortedOps, AbortedRead DEF SingleRead
    <3>2. OpsIn(ready) \cap Reads = {} \/ OpsIn(Aborted(pending)) \cap Reads = {}
      BY <3>1 DEF SingleRead
    <3>3. OneRead(ready \o Aborted(pending))
      BY <1>0, <3>1, <3>2, ConcatRead
    <3> QED
      BY <2>2, <3>3 DEF OneRead
  <2>5. SingleRead'
    BY <2>2, <2>3, <2>4 DEF SingleRead, Reads
  <2>6. ReadsAttached'
    BY <2>2, <2>3 DEF ReadsAttached
  <2> QED
    BY <2>1, <2>5, <2>6
<1>3. CASE ClearOutbox
  BY <1>3, UntouchedReads, UntouchedCallbacks DEF ClearOutbox
<1>4. CASE ClearMaps
  <2>1. CallbacksFresh'
    BY <1>4 DEF ClearMaps, CallbacksFresh
  <2> QED
    BY <1>4, <2>1, UntouchedReads DEF ClearMaps
<1> QED
  BY <1>1, <1>2, <1>3, <1>4 DEF Owner

LEMMA NetworkOrderly ==
  ASSUME IInv, Steady, Network
  PROVE  Steady'
<1> USE DEF Steady, socketVars, readVars, writeVars, mapVars, callVars, ownerVars, pastVars
<1>0. TypeOK
  BY DEF IInv
<1>1. CASE Sent
  BY <1>0, <1>1, EndReads, UntouchedCallbacks DEF Sent
<1>2. CASE HeadArrives
  BY <1>0, <1>2, EndReads, UntouchedCallbacks DEF HeadArrives
<1>3. CASE BodyArrives
  BY <1>0, <1>3, EndReads, UntouchedCallbacks DEF BodyArrives
<1>4. CASE LinkFails
  BY <1>4, UntouchedReads, UntouchedCallbacks DEF LinkFails
<1>5. CASE OperationFails
  <2>1. PICK op \in pending : /\ pending' = pending \ {op}
                              /\ ready' = Append(ready, [op |-> op, ok |-> FALSE])
    BY <1>5 DEF OperationFails
  <2> QED
    BY <1>0, <1>5, <2>1, EndReads, UntouchedCallbacks DEF OperationFails
<1>6. CASE Publish
  BY <1>6, UntouchedReads, UntouchedCallbacks DEF Publish
<1>7. CASE Swallowed
  BY <1>0, <1>7, EndReads, UntouchedCallbacks DEF Swallowed
<1> QED
  BY <1>1, <1>2, <1>3, <1>4, <1>5, <1>6, <1>7 DEF Network

LEMMA ConnectOrderly ==
  ASSUME IInv, Steady, OnConnected \/ ResendSubscribe \/ OnConnectFailed
  PROVE  Steady'
<1> USE DEF Steady, socketVars, readVars, writeVars, mapVars, callVars, ownerVars, pastVars
<1>0. TypeOK /\ ready \in Seq(Handler) /\ pending \in SUBSET Ops /\ open \in BOOLEAN
  BY DEF IInv, TypeOK, Handler
<1>1. CASE OnConnected
  <2>1. /\ "connect" \in pending /\ ready = <<>> /\ ready' = <<>> /\ connected' /\ open' = open
        /\ pending' = (pending \ {"connect"}) \cup {"head"} /\ within' = "resend"
    BY <1>1 DEF OnConnected
  <2>2. open /\ pending \cap Reads = {} /\ OpsIn(ready)' = {}
    BY <2>1 DEF ReadsAttached, OpsIn
  <2>3. SingleRead'
    BY <2>1, <2>2 DEF SingleRead, Reads, OneRead, Deliveries
  <2>4. ReadsAttached'
    BY <2>1, <2>2 DEF ReadsAttached, Reads
  <2>5. CallbacksFresh'
    BY <1>1, UntouchedCallbacks DEF OnConnected
  <2> QED
    BY <2>3, <2>4, <2>5
<1>2. CASE ResendSubscribe
  <2>1. PICK messages \in InOrder(key_token_set) :
          IF WriterIdle /\ messages # <<>>
          THEN Write(messages[1], ready) ELSE UNCHANGED <<header, pending, ready>>
    BY <1>2 DEF ResendSubscribe
  <2>2. messages # <<>> => messages[1] \in Message
    <3>1. outbox \in Seq(Message)
      BY <1>0 DEF TypeOK
    <3> QED
      BY <3>1, AppendedMessages
  <2>3. /\ OneRead(ready') /\ pending' \cap (Reads \cup {"connect"}) \subseteq pending
        /\ OpsIn(ready') \cap (Reads \cup {"connect"}) \subseteq OpsIn(ready)
    <3>1. CASE WriterIdle /\ messages # <<>>
      BY <1>0, <2>1, <2>2, <3>1, WriteReads DEF SingleRead
    <3>2. CASE ~(WriterIdle /\ messages # <<>>)
      BY <2>1, <3>2 DEF SingleRead
    <3> QED
      BY <3>1, <3>2
  <2>4. UNCHANGED <<open, connected>> /\ within' \notin Deliveries
    BY <1>2 DEF ResendSubscribe, Deliveries
  <2> QED
    BY <1>2, <2>3, <2>4, NoNewReads, UntouchedCallbacks DEF ResendSubscribe
<1>3. CASE OnConnectFailed
  <2>1. /\ within = "no" /\ Tail(ready) \in Seq(Handler)
        /\ OpsIn(ready) = OpsIn(Tail(ready)) \cup {"connect"}
    BY <1>0, <1>3, HandleTakes DEF OnConnectFailed
  <2>2. open /\ ~connected /\ (pending \cup OpsIn(ready)) \cap Reads = {}
    BY <2>1 DEF ReadsAttached
  <2>3. Recovery(Tail(ready), pending, open) /\ UNCHANGED <<connected, within>>
    BY <1>3, <2>2 DEF Recovery, OnConnectFailed
  <2>4. /\ (pending \cup OpsIn(ready))' \cap Reads = {}
        /\ open' \/ open' = open
    BY <1>0, <2>1, <2>2, <2>3, ErrorReads
  <2>5. SingleRead' /\ ReadsAttached'
    BY <2>1, <2>2, <2>3, <2>4, QuietReads
  <2> QED
    BY <1>3, <2>5, UntouchedCallbacks DEF OnConnectFailed
<1> QED
  BY <1>1, <1>2, <1>3

LEMMA WrittenOrderly ==
  ASSUME IInv, Steady, OnWritten
  PROVE  Steady'
<1> USE DEF Steady, socketVars, readVars, writeVars, mapVars, callVars, ownerVars, pastVars
<1>1. TypeOK /\ ready \in Seq(Handler) /\ outbox \in Seq(Message) /\ ready # <<>>
  BY DEF IInv, TypeOK, Handler, OnWritten, Handle
<1>2. /\ Tail(ready) \in Seq(Handler) /\ OpsIn(Tail(ready)) \subseteq OpsIn(ready)
      /\ OneRead(Tail(ready))
  BY <1>1, TailOps, TailRead DEF SingleRead
<1>3. /\ OneRead(ready') /\ pending' \cap (Reads \cup {"connect"}) \subseteq pending
      /\ OpsIn(ready') \cap (Reads \cup {"connect"}) \subseteq OpsIn(ready)
  <2>1. CASE outbox' = <<>>
    BY <1>2, <2>1 DEF OnWritten
  <2>2. CASE outbox' # <<>>
    <3>1. outbox' \in Seq(Message)
      BY <1>1 DEF OnWritten
    <3>2. Head(outbox') \in Message /\ Write(Head(outbox'), Tail(ready))
      BY <2>2, <3>1 DEF OnWritten
    <3> QED
      BY <1>1, <1>2, <3>2, WriteReads
  <2> QED
    BY <2>1, <2>2
<1>4. UNCHANGED <<open, connected, within>>
  BY DEF OnWritten
<1> QED
  BY <1>3, <1>4, NoNewReads, UntouchedCallbacks DEF OnWritten

(* A read whose handler runs is the only one.                              *)
LEMMA ReadAlone ==
  ASSUME TypeOK, Steady, NEW op \in Reads, NEW ok, Handle(op, ok)
  PROVE  /\ within = "no" /\ Tail(ready) \in Seq(Handler)
         /\ OpsIn(ready) = OpsIn(Tail(ready)) \cup {op}
         /\ (pending \cup OpsIn(Tail(ready))) \cap Reads = {}
         /\ open => connected
         /\ "connect" \notin pending \cup OpsIn(ready)
<1>1. /\ within = "no" /\ ready \in Seq(Handler) /\ Tail(ready) \in Seq(Handler)
      /\ OpsIn(ready) = OpsIn(Tail(ready)) \cup {op}
  BY HandleTakes
<1>2. ready # <<>> /\ Head(ready).op = op
  BY DEF Handle
<1>3. OpsIn(Tail(ready)) \cap Reads = {}
  BY <1>1, <1>2, TailRead DEF Steady, SingleRead
<1>4. pending \cap Reads = {}
  BY <1>1 DEF Steady, SingleRead
<1>5. /\ open => connected
      /\ "connect" \notin pending \cup OpsIn(ready)
  BY <1>1 DEF Steady, ReadsAttached
<1> QED
  BY <1>1, <1>3, <1>4, <1>5

LEMMA HeadOrderly ==
  ASSUME IInv, Steady, OnHead \/ OnHeadFailed
  PROVE  Steady'
<1> USE DEF socketVars, readVars, writeVars, mapVars, callVars, ownerVars, pastVars
<1>0. /\ TypeOK /\ pending \in SUBSET Ops /\ {} \in SUBSET Ops
      /\ open \in BOOLEAN /\ FALSE \in BOOLEAN /\ "head" \in Reads
  BY DEF IInv, TypeOK, Reads
<1>1. /\ within = "no" /\ Tail(ready) \in Seq(Handler)
      /\ OpsIn(ready) = OpsIn(Tail(ready)) \cup {"head"}
      /\ (pending \cup OpsIn(Tail(ready))) \cap Reads = {}
      /\ open => connected
      /\ "connect" \notin pending \cup OpsIn(ready)
  <2>1. CASE OnHead
    BY <1>0, <2>1, ReadAlone DEF OnHead
  <2>2. CASE OnHeadFailed
    BY <1>0, <2>2, ReadAlone DEF OnHeadFailed
  <2> QED
    BY <2>1, <2>2
<1>2. CASE OnHead
  <2>1. /\ ready' = Tail(ready) /\ UNCHANGED <<open, within>>
        /\ IF open THEN pending' = pending \cup {"body"} /\ UNCHANGED connected
                   ELSE connected' = FALSE /\ UNCHANGED pending
    BY <1>2 DEF OnHead
  <2>2. OpsIn(ready)' = OpsIn(Tail(ready)) /\ OneRead(ready)'
    <3>1. OneRead(Tail(ready))
      BY <1>1, NoReadsOne
    <3> QED
      BY <2>1, <3>1 DEF OpsIn, OneRead
  <2>3. SingleRead'
    BY <1>1, <2>1, <2>2 DEF SingleRead, Reads, Deliveries
  <2>4. ReadsAttached'
    BY <1>1, <2>1, <2>2 DEF ReadsAttached, Reads
  <2> QED
    BY <1>2, <2>3, <2>4, UntouchedCallbacks DEF Steady, OnHead
<1>3. CASE OnHeadFailed /\ ~open
  <2>1. ready' = Tail(ready) /\ pending' = pending /\ ~open' /\ within' = "no"
    BY <1>1, <1>3 DEF OnHeadFailed
  <2>2. OpsIn(ready)' = OpsIn(Tail(ready))
    BY <2>1 DEF OpsIn
  <2>3. SingleRead' /\ ReadsAttached'
    BY <1>1, <2>1, <2>2, QuietReads
  <2> QED
    BY <1>3, <2>3, UntouchedCallbacks DEF Steady, OnHeadFailed
<1>4. CASE OnHeadFailed /\ open
  <2>1. connected
    BY <1>1, <1>4
  <2>2. /\ Recovery(Tail(ready) \o Aborted(pending), {}, FALSE)
        /\ ~connected' /\ within' = "no"
    BY <1>1, <1>4, <2>1 DEF Recovery, ErrorCallback, OnHeadFailed
  <2>3. /\ Tail(ready) \o Aborted(pending) \in Seq(Handler)
        /\ OpsIn(Tail(ready) \o Aborted(pending)) = OpsIn(Tail(ready)) \cup pending
    <3>1. Aborted(pending) \in Seq(Handler) /\ OpsIn(Aborted(pending)) = pending
      BY <1>0, AbortedOps
    <3>2. Tail(ready) \in Seq(Handler)
      BY <1>1
    <3> QED
      BY <3>1, <3>2, ConcatOps
  <2>4. /\ (pending \cup OpsIn(ready))' \cap Reads = {}
        /\ ("connect" \in pending \cup OpsIn(ready))' => open'
    <3>1. /\ ({} \cup OpsIn(Tail(ready) \o Aborted(pending))) \cap Reads = {}
          /\ "connect" \notin {} \cup OpsIn(Tail(ready) \o Aborted(pending))
      BY <1>1, <2>3
    <3> QED
      BY <1>0, <2>2, <2>3, <3>1, ErrorReads
  <2>5. SingleRead' /\ ReadsAttached'
    BY <2>2, <2>4, QuietReads
  <2>6. CallbacksFresh'
    <3>1. /\ called' = [c \in Call |-> IF c \in callbacks THEN called[c] + 1 ELSE called[c]]
          /\ callbacks' = {} /\ phase' = phase
      BY <1>4, <2>1 DEF OnHeadFailed
    <3>2. called \in [Call -> Nat] /\ Callback \subseteq Call
      BY <1>0 DEF TypeOK, Call
    <3> QED
      BY <3>1, <3>2 DEF Steady, CallbacksFresh
  <2> QED
    BY <2>5, <2>6 DEF Steady
<1> QED
  BY <1>2, <1>3, <1>4

LEMMA BodyOrderly ==
  ASSUME IInv, Steady, OnBody
  PROVE  Steady'
<1> USE DEF socketVars, readVars, writeVars, mapVars, callVars, ownerVars, pastVars
<1>1. TypeOK /\ "body" \in Reads /\ (Handle("body", TRUE) \/ Handle("body", FALSE))
  BY DEF IInv, Reads, OnBody
<1>2. /\ OpsIn(ready) = OpsIn(Tail(ready)) \cup {"body"}
      /\ (pending \cup OpsIn(Tail(ready))) \cap Reads = {}
      /\ open => connected
      /\ "connect" \notin pending \cup OpsIn(ready)
  BY <1>1, ReadAlone
<1>3. /\ ready' = Tail(ready) /\ UNCHANGED <<open, pending>>
      /\ within' = IF ~open THEN "closed" ELSE IF Head(ready).ok THEN "answer" ELSE "error"
      /\ connected' = (connected /\ within' # "error")
  BY DEF OnBody
<1>4. OpsIn(ready)' = OpsIn(Tail(ready))
  BY <1>3 DEF OpsIn
<1>5. SingleRead' /\ ReadsAttached'
  <2>1. /\ (pending \cup OpsIn(ready))' \cap Reads = {}
        /\ ~("connect" \in pending \cup OpsIn(ready))'
    BY <1>2, <1>3, <1>4
  <2>2. /\ open' /\ ~connected' => within' = "error"
        /\ within' = "error" => open' /\ ~connected'
        /\ within' = "closed" => ~open'
    BY <1>2, <1>3
  <2> QED
    BY <2>1, <2>2, QuietReads
<1> QED
  BY <1>5, UntouchedCallbacks DEF Steady, OnBody

LEMMA CallBackOrderly ==
  ASSUME IInv, Steady, CallBack
  PROVE  Steady'
<1> USE DEF socketVars, readVars, writeVars, mapVars, callVars, ownerVars, pastVars
<1>0. /\ TypeOK /\ ready \in Seq(Handler) /\ pending \in SUBSET Ops
      /\ open \in BOOLEAN
  BY DEF IInv, TypeOK, Handler
<1>1. /\ within \in Deliveries /\ within' = "no" /\ connected' = connected
      /\ (pending \cup OpsIn(ready)) \cap Reads = {}
  BY DEF CallBack, Steady, SingleRead
<1>2. CallbacksFresh'
  <2>1. /\ called' = [c \in Call |-> IF c = reading /\ c \in callbacks THEN called[c] + 1 ELSE called[c]]
        /\ callbacks' = callbacks \ {reading} /\ phase' = phase
    BY DEF CallBack
  <2>2. called \in [Call -> Nat] /\ Callback \subseteq Call
    BY <1>0 DEF TypeOK, Call
  <2>3. ASSUME NEW c \in Callback
        PROVE  /\ called'[c] <= 1
               /\ c \in callbacks' \/ phase'[c] = "checked" => called'[c] = 0
               /\ phase'[c] \in {"idle", "checked", "done"} => c \notin callbacks'
    BY <2>1, <2>2 DEF Steady, CallbacksFresh
  <2> QED
    BY <2>3 DEF CallbacksFresh
<1>3. SingleRead' /\ ReadsAttached'
  <2>1. CASE within = "answer"
    <3>1. pending' = Started("head", pending) /\ ready' = Refused("head", ready) /\ open' = open
      BY <2>1 DEF CallBack
    <3>2. /\ open => connected
          /\ "connect" \notin pending \cup OpsIn(ready)
      BY <2>1 DEF Steady, ReadsAttached
    <3>3. CASE open
      <4>1. pending' = pending \cup {"head"} /\ ready' = ready /\ OpsIn(ready)' = OpsIn(ready)
        BY <3>1, <3>3 DEF Started, Refused, OpsIn
      <4>2. SingleRead'
        <5>1. OneRead(ready)'
          BY <4>1 DEF Steady, SingleRead, OneRead
        <5> QED
          BY <1>1, <4>1, <5>1 DEF SingleRead, Reads, Deliveries
      <4>3. ReadsAttached'
        BY <1>1, <3>1, <3>2, <3>3, <4>1 DEF ReadsAttached
      <4> QED
        BY <4>2, <4>3
    <3>4. CASE ~open
      <4>1. pending' = pending /\ ready' = Append(ready, [op |-> "head", ok |-> FALSE])
        BY <3>1, <3>4 DEF Started, Refused
      <4>2. OneRead(ready)' /\ OpsIn(ready)' = OpsIn(ready) \cup {"head"}
        <5>1. "head" \in Ops /\ FALSE \in BOOLEAN /\ OneRead(ready) /\ OpsIn(ready) \cap Reads = {}
          BY <1>1 DEF Ops, Steady, SingleRead
        <5>2. /\ OneRead(Append(ready, [op |-> "head", ok |-> FALSE]))
              /\ OpsIn(Append(ready, [op |-> "head", ok |-> FALSE])) = OpsIn(ready) \cup {"head"}
          BY <1>0, <5>1, AppendRead, AppendOps
        <5> QED
          BY <4>1, <5>2 DEF OneRead, OpsIn
      <4>3. SingleRead'
        BY <1>1, <4>1, <4>2 DEF SingleRead, Reads, Deliveries
      <4>4. ReadsAttached'
        BY <1>1, <3>1, <3>2, <3>4, <4>1, <4>2 DEF ReadsAttached
      <4> QED
        BY <4>3, <4>4
    <3> QED
      BY <3>3, <3>4
  <2>2. CASE within = "error"
    <3>1. Recovery(ready, pending, open) /\ open /\ ~connected
      BY <2>2 DEF Recovery, ErrorCallback, CallBack, Steady, ReadsAttached
    <3>2. /\ (pending \cup OpsIn(ready))' \cap Reads = {}
          /\ ("connect" \in pending \cup OpsIn(ready))' => open'
      BY <1>0, <1>1, <3>1, ErrorReads
    <3> QED
      BY <1>1, <3>1, <3>2, QuietReads
  <2>3. CASE within = "closed"
    <3>1. UNCHANGED <<open, pending, ready>>
      BY <2>3 DEF CallBack
    <3>2. OneRead(ready') /\ OpsIn(ready') = OpsIn(ready)
      BY <3>1 DEF Steady, SingleRead
    <3>3. within' \notin Deliveries
      BY <1>1 DEF Deliveries
    <3> QED
      BY <1>1, <3>1, <3>2, <3>3, NoNewReads DEF Steady
  <2> QED
    BY <1>1, <2>1, <2>2, <2>3 DEF Deliveries
<1> QED
  BY <1>2, <1>3 DEF Steady
-----------------------------------------------------------------------------
LEMMA InitOrderly ==
  ASSUME Init
  PROVE  Orderly
<1>1. OpsIn(ready) = {} /\ OneRead(ready)
  BY DEF Init, OpsIn, OneRead
<1>2. SingleRead /\ ReadsAttached
  BY <1>1 DEF Init, SingleRead, ReadsAttached, Reads, Deliveries
<1>3. CallbacksFresh
  BY DEF Init, CallbacksFresh, Call
<1> QED
  BY <1>2, <1>3 DEF Orderly, Steady

(* Once a write has failed nothing more is claimed, nor once connect() was *)
(* called while handlers were left.                                        *)
LEMMA HistoryLasts ==
  ASSUME [Next]_vars
  PROVE  (write_failed => write_failed') /\ (hasty => hasty')
<1> USE DEF vars, socketVars, readVars, writeVars, mapVars, callVars, ownerVars, pastVars
<1>1. ASSUME NEW c \in Message, Caller(c)
      PROVE  UNCHANGED <<write_failed, hasty>>
  BY <1>1 DEF Caller, Check, Register, Send, GiveUp, Enter
<1>2. CASE Owner
  <2>1. CASE Connect
    BY <2>1 DEF Connect
  <2>2. CASE CloseSocket \/ ClearOutbox \/ ClearMaps
    BY <2>2 DEF CloseSocket, ClearOutbox, ClearMaps
  <2> QED
    BY <1>2, <2>1, <2>2 DEF Owner
<1>3. CASE Network
  BY <1>3 DEF Network, Sent, Swallowed, Publish, HeadArrives, BodyArrives, LinkFails, OperationFails
<1>4. CASE IoThread
  <2>1. CASE OnWriteFailed
    BY <2>1 DEF OnWriteFailed
  <2>2. CASE ~OnWriteFailed
    <3>1. UNCHANGED <<write_failed, hasty>>
      BY <1>4, <2>2 DEF IoThread, OnConnected, ResendSubscribe, OnConnectFailed, OnWritten,
                        OnHead, OnHeadFailed, OnBody, CallBack
    <3> QED
      BY <3>1
  <2> QED
    BY <2>1, <2>2
<1> QED
  BY <1>1, <1>2, <1>3, <1>4 DEF Next, Alive

LEMMA NextOrderly ==
  ASSUME IInv, Orderly, [Next]_vars
  PROVE  Orderly'
<1>1. CASE write_failed' \/ hasty'
  BY <1>1 DEF Orderly
<1>2. CASE ~write_failed' /\ ~hasty'
  <2>1. Steady
    BY <1>2, HistoryLasts DEF Orderly
  <2>2. CASE UNCHANGED vars
    BY <2>1, <2>2, UntouchedReads, UntouchedCallbacks
       DEF Orderly, Steady, vars, socketVars, readVars, mapVars, callVars
  <2>3. CASE OnWriteFailed
    BY <2>3 DEF OnWriteFailed, Orderly
  <2>4. CASE Next /\ ~OnWriteFailed
    <3>1. (\E c \in Message : Caller(c)) \/ Owner \/ Network \/ (IoThread /\ ~OnWriteFailed)
      BY <2>4 DEF Next, Alive
    <3>2. Steady'
      BY <1>2, <2>1, <3>1, CallerOrderly, OwnerOrderly, NetworkOrderly, ConnectOrderly, WrittenOrderly,
         HeadOrderly, BodyOrderly, CallBackOrderly DEF IoThread
    <3> QED
      BY <3>2 DEF Orderly
  <2> QED
    BY <2>2, <2>3, <2>4
<1> QED
  BY <1>1, <1>2

(* The inductive invariant: until a write fails, or connect() is called    *)
(* while handlers are left, a single read, that of the connection in       *)
(* place, and fresh callbacks.                                             *)
THEOREM ReadsOrderly == Spec => [](IInv /\ Orderly)
  BY InitOrderly, NextOrderly, ClientSafety, PTL DEF Spec

(* rpc_client::do_read and call_back: neither runs a callback that has run *)
(* already, unless a write had failed, or connect() was called while       *)
(* handlers of the connection before were left.                            *)
THEOREM CallbacksRunOnce == Spec => []CalledOnce
<1>1. Orderly => CalledOnce
  BY DEF Orderly, Steady, CallbacksFresh, CalledOnce
<1> QED
  BY <1>1, ReadsOrderly, PTL
-----------------------------------------------------------------------------
(* Nothing more was read.                                                  *)
ReadsFail(queue) == \A i \in DOMAIN queue : queue[i].ok => queue[i].op \notin Reads

(* How the connection, the socket and the io thread go together.           *)
Linked ==
  /\ ~open => pending = {}
  /\ connected => open /\ link # "down"
  /\ "connect" \in pending => ~connected /\ link = "down"
  /\ open /\ link = "down" => pending \cap Reads = {} /\ within # "answer" /\ ReadsFail(ready)
  /\ within = "error" => ~connected
  /\ within = "closed" => ~open
  /\ link = "up" => connected /\ \A i \in DOMAIN ready : ready[i].ok
  /\ link # "up" => server = Fresh
  /\ closing # "no" => user_closed
  /\ \A i, j \in DOMAIN ready : i < j /\ ~ready[i].ok /\ ready[j].ok => ready[j].op \notin Reads

Wired == SingleRead /\ Linked
-----------------------------------------------------------------------------
(* How the queue of handlers moves: k of its handlers are taken, and those *)
(* that are appended are among `new`.                                      *)
Grown(q, r, k, new) ==
  /\ q \in Seq(Handler) /\ r \in Seq(Handler) /\ k \in {0, 1} /\ k <= Len(r)
  /\ Len(q) >= Len(r) - k
  /\ \A i \in 1 .. Len(r) - k : q[i] = r[i + k]
  /\ \A i \in DOMAIN q : i > Len(r) - k => q[i] \in new

Failed(ops) == {[op |-> op, ok |-> FALSE] : op \in ops}

LEMMA GrownSame ==
  ASSUME NEW r \in Seq(Handler)
  PROVE  Grown(r, r, 0, {})
  BY DEF Grown

LEMMA GrownTail ==
  ASSUME NEW r \in Seq(Handler), r # <<>>
  PROVE  Grown(Tail(r), r, 1, {})
  BY DEF Grown

LEMMA GrownConcat ==
  ASSUME NEW q, NEW r, NEW k, NEW new, Grown(q, r, k, new),
         NEW t \in Seq(Handler), NEW more, \A i \in DOMAIN t : t[i] \in more
  PROVE  Grown(q \o t, r, k, new \cup more)
<1> DEFINE n == Len(r) - k
<1>1. /\ q \in Seq(Handler) /\ r \in Seq(Handler) /\ k \in {0, 1} /\ k <= Len(r)
      /\ Len(q) >= n /\ n \in Nat
  BY DEF Grown
<1>2. /\ q \o t \in Seq(Handler) /\ Len(q \o t) = Len(q) + Len(t)
      /\ \A i \in 1 .. Len(q) : (q \o t)[i] = q[i]
      /\ \A i \in 1 .. Len(q) + Len(t) : i > Len(q) => (q \o t)[i] = t[i - Len(q)] /\ i - Len(q) \in DOMAIN t
  BY <1>1
<1>3. \A i \in 1 .. n : (q \o t)[i] = r[i + k]
  BY <1>1, <1>2 DEF Grown
<1>4. ASSUME NEW i \in DOMAIN (q \o t), i > n
      PROVE  (q \o t)[i] \in new \cup more
  <2>1. CASE i <= Len(q)
    BY <1>1, <1>2, <1>4, <2>1 DEF Grown
  <2>2. CASE i > Len(q)
    <3>1. i \in 1 .. Len(q) + Len(t)
      BY <1>1, <1>2
    <3>2. (q \o t)[i] = t[i - Len(q)] /\ i - Len(q) \in DOMAIN t
      BY <1>2, <2>2, <3>1
    <3> QED
      BY <3>2
  <2> QED
    BY <1>1, <1>2, <2>1, <2>2
<1>5. Len(q \o t) >= n
  BY <1>1, <1>2
<1> QED
  BY <1>1, <1>2, <1>3, <1>4, <1>5 DEF Grown

LEMMA GrownAppend ==
  ASSUME NEW q, NEW r, NEW k, NEW new, Grown(q, r, k, new), NEW op \in Ops, NEW ok \in BOOLEAN
  PROVE  Grown(Append(q, [op |-> op, ok |-> ok]), r, k, new \cup {[op |-> op, ok |-> ok]})
<1> DEFINE h == [op |-> op, ok |-> ok]
<1>1. h \in Handler /\ q \in Seq(Handler)
  BY DEF Grown, Handler
<1> HIDE DEF h
<1>2. Append(q, h) = q \o <<h>> /\ <<h>> \in Seq(Handler) /\ \A i \in DOMAIN <<h>> : <<h>>[i] \in {h}
  BY <1>1
<1>3. Grown(q \o <<h>>, r, k, new \cup {h})
  BY <1>2, GrownConcat
<1> QED
  BY <1>2, <1>3 DEF h

LEMMA AbortedFails ==
  ASSUME NEW ops \in SUBSET Ops
  PROVE  Aborted(ops) \in Seq(Handler) /\ \A i \in DOMAIN Aborted(ops) : Aborted(ops)[i] \in Failed(ops)
<1> DEFINE failure(op) == IF op \in ops THEN <<[op |-> op, ok |-> FALSE]>> ELSE <<>>
           N(s) == s \in Seq(Handler) /\ \A i \in DOMAIN s : s[i] \in Failed(ops)
<1>1. ASSUME NEW op \in Ops
      PROVE  N(failure(op))
  <2>1. CASE op \in ops
    <3>1. PICK h : h = [op |-> op, ok |-> FALSE]
      OBVIOUS
    <3>2. h \in Handler /\ h \in Failed(ops) /\ failure(op) = <<h>>
      BY <2>1, <3>1 DEF Handler, Failed
    <3>3. <<h>> \in Seq(Handler) /\ \A i \in DOMAIN <<h>> : <<h>>[i] \in Failed(ops)
      BY <3>2
    <3> QED
      BY <3>2, <3>3
  <2>2. CASE op \notin ops
    BY <2>2
  <2> QED
    BY <2>1, <2>2
<1>2. ASSUME NEW s, NEW t, N(s), N(t)
      PROVE  N(s \o t)
  <2>1. s \in Seq(Handler) /\ t \in Seq(Handler)
    BY <1>2
  <2>2. s \o t \in Seq(Handler) /\ Len(s \o t) = Len(s) + Len(t)
    BY <2>1
  <2>3. ASSUME NEW i \in DOMAIN (s \o t)
        PROVE  (s \o t)[i] \in Failed(ops)
    <3>1. CASE i <= Len(s)
      <4>1. i \in DOMAIN s /\ (s \o t)[i] = s[i]
        BY <2>1, <2>2, <3>1
      <4> QED
        BY <1>2, <4>1
    <3>2. CASE i > Len(s)
      <4>1. i - Len(s) \in DOMAIN t /\ (s \o t)[i] = t[i - Len(s)]
        BY <2>1, <2>2, <3>2
      <4> QED
        BY <1>2, <4>1
    <3> QED
      BY <2>1, <2>2, <3>1, <3>2
  <2> QED
    BY <2>2, <2>3
<1>3. Aborted(ops) = failure("head") \o failure("body") \o failure("connect") \o failure("write")
  BY DEF Aborted
<1>4. N(failure("head")) /\ N(failure("body")) /\ N(failure("connect")) /\ N(failure("write"))
  <2> HIDE DEF failure, N
  <2> QED
    BY <1>1 DEF Ops
<1> HIDE DEF failure, N
<1>5. N(failure("head") \o failure("body") \o failure("connect") \o failure("write"))
  BY <1>2, <1>4
<1>6. N(Aborted(ops))
  BY <1>3, <1>5
<1> QED
  BY <1>6 DEF N

LEMMA GrownAborted ==
  ASSUME NEW q, NEW r, NEW k, NEW new, Grown(q, r, k, new), NEW ops \in SUBSET Ops
  PROVE  Grown(q \o Aborted(ops), r, k, new \cup Failed(ops))
  BY AbortedFails, GrownConcat

(* Where a handler of the queue comes from.                                *)
LEMMA GrownFrom ==
  ASSUME NEW q, NEW r, NEW k, NEW new, Grown(q, r, k, new), NEW i \in DOMAIN q
  PROVE  /\ i \in Nat /\ k \in {0, 1}
         /\ (i + k \in DOMAIN r /\ q[i] = r[i + k]) \/ (q[i] \in new /\ i > Len(r) - k)
  BY DEF Grown

(* Where a handler of the queue goes to.                                   *)
LEMMA GrownTo ==
  ASSUME NEW q, NEW r, NEW k, NEW new, Grown(q, r, k, new), NEW i \in DOMAIN r, i # k
  PROVE  i - k \in DOMAIN q /\ q[i - k] = r[i] /\ i \in Nat
<1>1. i - k \in 1 .. Len(r) - k /\ i \in Nat
  BY DEF Grown
<1>2. q[i - k] = r[(i - k) + k]
  BY <1>1 DEF Grown
<1> QED
  BY <1>1, <1>2 DEF Grown

(* error_callback(): the handlers that it aborts have failed.              *)
LEMMA ErrorMoves ==
  ASSUME TypeOK, NEW queue, NEW k, NEW new, Grown(queue, ready, k, new),
         NEW ops \in SUBSET Ops, NEW is_open, Recovery(queue, ops, is_open)
  PROVE  /\ Grown(ready', ready, k, new \cup Failed(ops))
         /\ \/ pending' = {"connect"} /\ open' /\ link' = "down" /\ server' = Fresh
            \/ pending' = ops /\ open' = is_open /\ UNCHANGED <<link, server>>
<1>1. CASE Reconnect(queue, ops)
  <2>1. ready' = queue \o Aborted(ops) /\ pending' = {"connect"} /\ open' /\ link' = "down" /\ server' = Fresh
    BY <1>1 DEF Reconnect
  <2>2. Grown(queue \o Aborted(ops), ready, k, new \cup Failed(ops))
    BY GrownAborted
  <2> QED
    BY <2>1, <2>2
<1>2. CASE Leave(queue, ops, is_open)
  <2>1. ready' = queue
    BY <1>2 DEF Leave
  <2>2. Grown(queue, ready, k, new \cup Failed(ops))
    BY DEF Grown
  <2> QED
    BY <1>2, <2>1, <2>2 DEF Leave
<1> QED
  BY <1>1, <1>2 DEF Recovery

(* A write begins, on a socket that may be closed.                         *)
Refusal(op) == IF open THEN {} ELSE Failed({op})

LEMMA RefusalFails ==
  \A h \in {} \cup Refusal("write") : ~h.ok
  BY DEF Refusal, Failed

LEMMA WriteMoves ==
  ASSUME NEW queue, NEW k, NEW new, Grown(queue, ready, k, new), NEW c, Write(c, queue)
  PROVE  /\ Grown(ready', ready, k, new \cup Refusal("write"))
         /\ pending' = IF open THEN pending \cup {"write"} ELSE pending
<1>1. CASE open
  <2>1. ready' = queue /\ pending' = pending \cup {"write"} /\ Refusal("write") = {}
    BY <1>1 DEF Write, Started, Refused, Refusal
  <2> QED
    BY <1>1, <2>1
<1>2. CASE ~open
  <2>1. /\ ready' = Append(queue, [op |-> "write", ok |-> FALSE]) /\ pending' = pending
        /\ Refusal("write") = {[op |-> "write", ok |-> FALSE]}
    BY <1>2 DEF Write, Started, Refused, Refusal, Failed
  <2>2. "write" \in Ops /\ FALSE \in BOOLEAN
    BY DEF Ops
  <2> QED
    BY <1>2, <2>1, <2>2, GrownAppend
<1> QED
  BY <1>1, <1>2
-----------------------------------------------------------------------------
(* A single read, whatever fails: it needs no more than Linked.            *)
LEMMA SingleKept ==
  ASSUME SingleRead, OneRead(ready'),
         pending' \cap Reads \subseteq pending, OpsIn(ready') \cap Reads \subseteq OpsIn(ready),
         within' = within \/ within' \notin Deliveries
  PROVE  SingleRead'
<1>1. OpsIn(ready)' = OpsIn(ready') /\ OneRead(ready)' = OneRead(ready')
  BY DEF OpsIn, OneRead
<1> QED
  BY <1>1 DEF SingleRead, Reads

LEMMA NoReadsOk ==
  ASSUME NEW queue, OpsIn(queue) \cap Reads = {}
  PROVE  ReadsFail(queue)
  BY DEF ReadsFail, OpsIn

LEMMA SingleQuiet ==
  ASSUME (pending \cup OpsIn(ready))' \cap Reads = {}
  PROVE  SingleRead'
<1>1. OpsIn(ready)' = OpsIn(ready') /\ OneRead(ready)' = OneRead(ready')
  BY DEF OpsIn, OneRead
<1>2. OneRead(ready')
  BY <1>1, NoReadsOne
<1> QED
  BY <1>1, <1>2 DEF SingleRead, Reads

(* What a step leaves of the connection when it begins no read.            *)
LEMMA LinkedKept ==
  ASSUME Linked, NEW k, NEW new, Grown(ready', ready, k, new),
         open' = open, connected' => connected, link' = link,
         link = "up" => connected' /\ \A h \in new : h.ok,
         link # "up" => server' = server /\ \A h \in new : h.ok => h.op \notin Reads,
         pending' \cap (Reads \cup {"connect"}) \subseteq pending,
         ~open => pending' \subseteq pending,
         within' = within \/ within' \in {"no", "resend"},
         closing' # "no" => user_closed'
  PROVE  Linked'
<1>1. ASSUME link = "up", NEW i \in DOMAIN ready'
      PROVE  ready'[i].ok
  <2>1. \A h \in new : h.ok
    BY <1>1
  <2>2. \A j \in DOMAIN ready : ready[j].ok
    BY <1>1 DEF Linked
  <2> QED
    BY <2>1, <2>2, GrownFrom
<1>2. ASSUME NEW i \in DOMAIN ready', NEW j \in DOMAIN ready', i < j, ~ready'[i].ok, ready'[j].ok
      PROVE  ready'[j].op \notin Reads
  <2>1. link # "up"
    BY <1>1, <1>2
  <2>2. CASE j + k \in DOMAIN ready /\ ready'[j] = ready[j + k]
    <3>1. /\ i \in 1 .. Len(ready') /\ j \in 1 .. Len(ready') /\ k \in {0, 1}
          /\ ready \in Seq(Handler) /\ Len(ready) \in Nat /\ Len(ready') \in Nat
      BY <1>2 DEF Grown
    <3>2. i + k \in DOMAIN ready /\ i + k < j + k
      <4>1. j + k \in 1 .. Len(ready)
        BY <2>2, <3>1
      <4>2. i + k \in 1 .. Len(ready) /\ i + k < j + k
        BY <1>2, <3>1, <4>1
      <4> QED
        BY <3>1, <4>2
    <3>3. ready'[i] = ready[i + k]
      <4>1. i \in 1 .. Len(ready) - k
        BY <3>1, <3>2
      <4> QED
        BY <4>1 DEF Grown
    <3> QED
      BY <1>2, <2>2, <3>2, <3>3 DEF Linked
  <2>3. CASE ready'[j] \in new
    BY <1>2, <2>1, <2>3
  <2> QED
    BY <2>2, <2>3, GrownFrom
<1>3. ASSUME open, link = "down", NEW j \in DOMAIN ready', ready'[j].ok
      PROVE  ready'[j].op \notin Reads
  <2>1. link # "up" /\ \A i \in DOMAIN ready : ready[i].ok => ready[i].op \notin Reads
    BY <1>3 DEF Linked, ReadsFail
  <2> QED
    BY <1>3, <2>1, GrownFrom
<1> QED
  BY <1>1, <1>2, <1>3 DEF Linked, Reads, ReadsFail

(* error_callback(), on a client that is no longer connected.              *)
LEMMA ErrorWired ==
  ASSUME TypeOK, Linked, NEW queue \in Seq(Handler), NEW ops \in SUBSET Ops,
         NEW is_open \in BOOLEAN, Recovery(queue, ops, is_open),
         OneRead(queue), ~(Reads \subseteq ops),
         ops \cap Reads # {} => OpsIn(queue) \cap Reads = {},
         "connect" \in ops => link = "down", is_open /\ link = "down" => ops \cap Reads = {},
         ~is_open => ops = {}, link # "up", ReadsFail(queue),
         ~connected', within' = "no", UNCHANGED <<closing, user_closed>>
  PROVE  Wired'
<1>1. CASE Reconnect(queue, ops)
  <2>1. ready' = queue \o Aborted(ops) /\ pending' = {"connect"} /\ open' /\ link' = "down" /\ server' = Fresh
    BY <1>1 DEF Reconnect
  <2>2. Aborted(ops) \in Seq(Handler) /\ OpsIn(Aborted(ops)) = ops /\ OneRead(Aborted(ops))
    BY AbortedOps, AbortedRead
  <2>3. OneRead(queue \o Aborted(ops))
    BY <2>2, ConcatRead
  <2>4. OneRead(ready)'
    BY <2>1, <2>3 DEF OneRead
  <2>5. ASSUME NEW i \in DOMAIN ready', ready'[i].ok
        PROVE  ready'[i].op \notin Reads
    <3>1. Grown(ready', queue, 0, {} \cup Failed(ops))
      BY <2>1, GrownSame, GrownAborted
    <3> QED
      BY <2>5, <3>1, GrownFrom DEF ReadsFail, Failed
  <2> QED
    BY <2>1, <2>4, <2>5 DEF ReadsFail, Wired, SingleRead, Linked, Reads, Deliveries
<1>2. CASE Leave(queue, ops, is_open)
  <2>1. ready' = queue /\ pending' = ops /\ open' = is_open /\ UNCHANGED <<link, server>>
    BY <1>2 DEF Leave
  <2>2. OneRead(ready)' /\ OpsIn(ready)' = OpsIn(queue) /\ ReadsFail(ready)'
    BY <2>1 DEF OneRead, OpsIn, ReadsFail
  <2>3. ReadsFail(ready)' => \A j \in DOMAIN ready' : ready'[j].ok => ready'[j].op \notin Reads
    BY DEF ReadsFail
  <2> QED
    BY <2>1, <2>2, <2>3 DEF Wired, SingleRead, Linked, Reads, Deliveries
<1> QED
  BY <1>1, <1>2 DEF Recovery

LEMMA UntouchedWired ==
  ASSUME Wired, UNCHANGED <<socketVars, within, closing, user_closed>>
  PROVE  Wired'
  BY DEF Wired, SingleRead, Linked, OneRead, OpsIn, ReadsFail, socketVars

(* A handler that runs is the first of the queue.                          *)
LEMMA HandleMoves ==
  ASSUME TypeOK, NEW op, NEW ok, Handle(op, ok)
  PROVE  /\ within = "no" /\ ready \in Seq(Handler) /\ Tail(ready) \in Seq(Handler)
         /\ 1 \in DOMAIN ready /\ ready[1] = [op |-> op, ok |-> ok]
         /\ Grown(Tail(ready), ready, 1, {})
<1>1. ready \in Seq(Handler) /\ ready # <<>> /\ within = "no" /\ Head(ready) = [op |-> op, ok |-> ok]
  BY DEF Handle, TypeOK, Handler
<1>2. 1 \in DOMAIN ready /\ Head(ready) = ready[1] /\ Tail(ready) \in Seq(Handler)
  BY <1>1
<1> QED
  BY <1>1, <1>2, GrownTail

LEMMA CallerWired ==
  ASSUME TypeOK, Wired, NEW c \in Message, Caller(c)
  PROVE  Wired'
<1> USE DEF socketVars, readVars, writeVars, mapVars, callVars, ownerVars, pastVars
<1>1. CASE Check(c) \/ Register(c) \/ GiveUp(c) \/ Enter(c)
  BY <1>1, UntouchedWired DEF Check, Register, GiveUp, Enter
<1>2. CASE Send(c) /\ ~WriterIdle
  BY <1>2, UntouchedWired DEF Send
<1>3. CASE Send(c) /\ WriterIdle
  <2>1. /\ Write(c, ready) /\ ready \in Seq(Handler) /\ OneRead(ready) /\ Grown(ready, ready, 0, {})
        /\ UNCHANGED <<connected, open, link, server, within, closing, user_closed>>
    BY <1>3, GrownSame DEF Send, TypeOK, Handler, Wired, SingleRead
  <2>2. /\ Grown(ready', ready, 0, {} \cup Refusal("write"))
        /\ pending' = IF open THEN pending \cup {"write"} ELSE pending
    BY <2>1, WriteMoves
  <2>3. /\ OneRead(ready') /\ pending' \cap (Reads \cup {"connect"}) \subseteq pending
        /\ OpsIn(ready') \cap (Reads \cup {"connect"}) \subseteq OpsIn(ready)
    BY <2>1, WriteReads
  <2>4. link = "up" => {} \cup Refusal("write") = {} /\ connected
    BY DEF Wired, Linked, Refusal
  <2>5. Linked'
    BY <2>1, <2>2, <2>3, <2>4, RefusalFails, LinkedKept DEF Wired, Linked
  <2>6. SingleRead'
    BY <2>1, <2>3, SingleKept DEF Wired
  <2> QED
    BY <2>5, <2>6 DEF Wired
<1> QED
  BY <1>1, <1>2, <1>3 DEF Caller

LEMMA OwnerWired ==
  ASSUME TypeOK, Wired, Owner, ~hasty'
  PROVE  Wired'
<1> USE DEF socketVars, readVars, writeVars, mapVars, callVars, ownerVars, pastVars
<1>0. ready \in Seq(Handler) /\ pending \in SUBSET Ops
  BY DEF TypeOK, Handler
<1>1. CASE Connect
  <2>1. /\ ready = <<>> /\ ~connected /\ "connect" \notin pending /\ within = "no" /\ open'
        /\ UNCHANGED <<connected, server, within, closing, user_closed>>
    BY <1>1 DEF Connect, HandlersLeft
  <2>2. OpsIn(ready) = {} /\ link # "up"
    BY <2>1 DEF OpsIn, Wired, Linked
  <2>3. CASE open /\ link # "down"
    <3>1. /\ pending' = pending /\ link' = link
          /\ ready' = Append(ready, [op |-> "connect", ok |-> FALSE])
      BY <1>1, <2>3 DEF Connect
    <3>2. "connect" \in Ops /\ FALSE \in BOOLEAN /\ "connect" \notin Reads /\ OneRead(ready)
      BY DEF Ops, Reads, Wired, SingleRead
    <3>3. OneRead(ready') /\ OpsIn(ready') = {"connect"}
      <4>1. OneRead(ready')
        BY <1>0, <2>2, <3>1, <3>2, AppendRead
      <4>2. OpsIn(ready') = OpsIn(ready) \cup {"connect"}
        BY <1>0, <3>1, <3>2, AppendOps
      <4> QED
        BY <2>2, <4>1, <4>2
    <3>4. SingleRead'
      BY <2>1, <2>2, <3>1, <3>2, <3>3, SingleKept DEF Wired
    <3>5. Linked'
      BY <2>1, <2>2, <2>3, <3>1 DEF Wired, Linked
    <3> QED
      BY <3>4, <3>5 DEF Wired
  <2>4. CASE ~open \/ link = "down"
    <3>1. /\ pending' = pending \cup {"connect"} /\ ready' = ready /\ link' = "down"
          /\ pending \cap Reads = {}
      BY <1>1, <2>1, <2>4 DEF Connect, Wired, Linked
    <3>2. OpsIn(ready)' = OpsIn(ready)
      BY <3>1 DEF OpsIn
    <3>3. SingleRead'
      BY <2>2, <3>1, <3>2, SingleQuiet DEF Reads
    <3>4. Linked'
      BY <2>1, <2>2, <3>1 DEF Wired, Linked, Reads, ReadsFail
    <3> QED
      BY <3>3, <3>4 DEF Wired
  <2> QED
    BY <2>3, <2>4
<1>2. CASE CloseSocket
  <2>1. /\ connected /\ ~open' /\ ~connected' /\ pending' = {} /\ within' = within /\ user_closed'
        /\ ready' = ready \o Aborted(pending) /\ link' = "down" /\ server' = Fresh
    BY <1>2 DEF CloseSocket
  <2>2. /\ Aborted(pending) \in Seq(Handler) /\ OpsIn(Aborted(pending)) = pending
        /\ OneRead(Aborted(pending)) /\ OneRead(ready)
    BY <1>0, AbortedOps, AbortedRead DEF Wired, SingleRead
  <2>3. OpsIn(ready)' = OpsIn(ready) \cup pending
    <3>1. OpsIn(ready \o Aborted(pending)) = OpsIn(ready) \cup pending
      BY <1>0, <2>2, ConcatOps
    <3> QED
      BY <2>1, <3>1 DEF OpsIn
  <2>4. OneRead(ready)'
    <3>1. OpsIn(ready) \cap Reads = {} \/ OpsIn(Aborted(pending)) \cap Reads = {}
      BY <2>2 DEF Wired, SingleRead
    <3>2. OneRead(ready \o Aborted(pending))
      BY <1>0, <2>2, <3>1, ConcatRead
    <3> QED
      BY <2>1, <3>2 DEF OneRead
  <2>5. SingleRead'
    BY <2>1, <2>3, <2>4 DEF Wired, SingleRead, Reads
  <2>6. Linked'
    <3>1. Grown(ready', ready, 0, {} \cup Failed(pending))
      BY <1>0, <2>1, GrownSame, GrownAborted
    <3>2. ASSUME NEW i \in DOMAIN ready', NEW j \in DOMAIN ready', i < j, ~ready'[i].ok, ready'[j].ok
          PROVE  ready'[j].op \notin Reads
      <4>1. j \in DOMAIN ready /\ ready'[j] = ready[j]
        BY <3>1, <3>2, GrownFrom DEF Failed
      <4>2. i \in DOMAIN ready /\ ready'[i] = ready[i]
        BY <3>1, <3>2, <4>1 DEF Grown
      <4> QED
        BY <3>2, <4>1, <4>2 DEF Wired, Linked
    <3> QED
      BY <2>1, <3>2 DEF Wired, Linked
  <2> QED
    BY <2>5, <2>6 DEF Wired
<1>3. CASE ClearOutbox \/ ClearMaps
  <2>1. UNCHANGED <<socketVars, within, user_closed>> /\ closing # "no"
    BY <1>3 DEF ClearOutbox, ClearMaps
  <2>2. SingleRead'
    BY <2>1 DEF Wired, SingleRead, OneRead, OpsIn
  <2>3. Linked'
    BY <2>1 DEF Wired, Linked
  <2> QED
    BY <2>2, <2>3 DEF Wired
<1> QED
  BY <1>1, <1>2, <1>3 DEF Owner

(* An operation ends, well only on a connection that is up or, for a write *)
(* that is swallowed, was.                                                 *)
LEMMA EndWired ==
  ASSUME TypeOK, Wired, NEW op \in pending, NEW ok \in BOOLEAN, ok \/ link # "up",
         link = "up" \/ op \notin Reads \/ ~ok, pending' = pending \ {op}, ready' = Append(ready, [op |-> op, ok |-> ok]),
         link # "up" => server' = server,
         UNCHANGED <<connected, open, link, within, closing, user_closed>>
  PROVE  Wired'
<1>1. op \in Ops /\ ready \in Seq(Handler) /\ Grown(ready, ready, 0, {})
  BY GrownSame DEF TypeOK, Handler
<1>2. Grown(ready', ready, 0, {} \cup {[op |-> op, ok |-> ok]})
  BY <1>1, GrownAppend
<1>3. /\ OpsIn(ready)' = OpsIn(ready) \cup {op}
      /\ OneRead(ready)'
  <2>1. OpsIn(Append(ready, [op |-> op, ok |-> ok])) = OpsIn(ready) \cup {op}
    BY <1>1, AppendOps
  <2>2. op \notin Reads \/ OpsIn(ready) \cap Reads = {}
    BY DEF Wired, SingleRead
  <2>3. OneRead(Append(ready, [op |-> op, ok |-> ok]))
    BY <1>1, <2>2, AppendRead DEF Wired, SingleRead
  <2> QED
    BY <2>1, <2>3 DEF OpsIn, OneRead
<1>4. SingleRead'
  BY <1>3 DEF Wired, SingleRead, Reads
<1>5. Linked'
  <2>1. /\ link = "up" => connected /\ \A h \in {} \cup {[op |-> op, ok |-> ok]} : h.ok
        /\ link # "up" => \A h \in {} \cup {[op |-> op, ok |-> ok]} : h.ok => h.op \notin Reads
    BY DEF Wired, Linked
  <2> QED
    BY <1>2, <2>1, LinkedKept DEF Wired, Linked
<1> QED
  BY <1>4, <1>5 DEF Wired

LEMMA NetworkWired ==
  ASSUME TypeOK, Wired, Network
  PROVE  Wired'
<1> USE DEF socketVars, readVars, writeVars, mapVars, callVars, ownerVars, pastVars
<1>1. CASE Sent
  BY <1>1, EndWired DEF Sent
<1>2. CASE HeadArrives
  BY <1>2, EndWired DEF HeadArrives
<1>3. CASE BodyArrives
  BY <1>3, EndWired DEF BodyArrives
<1>4. CASE LinkFails
  <2>1. /\ UNCHANGED <<connected, open, pending, ready, within, closing, user_closed>>
        /\ link = "up" /\ link' = "lost" /\ server' = Fresh
    BY <1>4 DEF LinkFails
  <2>2. SingleRead'
    BY <2>1 DEF Wired, SingleRead, OneRead, OpsIn
  <2>3. Linked'
    BY <2>1 DEF Wired, Linked
  <2> QED
    BY <2>2, <2>3 DEF Wired
<1>5. CASE OperationFails
  <2>1. PICK op \in pending : /\ pending' = pending \ {op}
                              /\ ready' = Append(ready, [op |-> op, ok |-> FALSE])
                              /\ op = "connect" \/ link # "up"
    BY <1>5 DEF OperationFails
  <2>2. link # "up" /\ UNCHANGED <<connected, open, link, server, within, closing, user_closed>>
    BY <1>5, <2>1 DEF OperationFails, Wired, Linked
  <2> QED
    BY <2>1, <2>2, EndWired
<1>6. CASE Publish
  <2>1. UNCHANGED <<connected, open, link, pending, ready, within, closing, user_closed>> /\ link = "up"
    BY <1>6 DEF Publish
  <2>2. SingleRead'
    BY <2>1 DEF Wired, SingleRead, OneRead, OpsIn
  <2>3. Linked'
    BY <2>1 DEF Wired, Linked
  <2> QED
    BY <2>2, <2>3 DEF Wired
<1>7. CASE Swallowed
  BY <1>7, EndWired DEF Swallowed, Reads
<1> QED
  BY <1>1, <1>2, <1>3, <1>4, <1>5, <1>6, <1>7 DEF Network

LEMMA ReadTaken ==
  ASSUME TypeOK, SingleRead, NEW op \in Reads, NEW ok, Handle(op, ok)
  PROVE  (pending \cup OpsIn(Tail(ready))) \cap Reads = {}
<1>1. /\ within = "no" /\ ready \in Seq(Handler) /\ ready # <<>> /\ Head(ready).op = op
      /\ OpsIn(ready) = OpsIn(Tail(ready)) \cup {op}
  BY HandleTakes DEF Handle
<1>2. OpsIn(Tail(ready)) \cap Reads = {}
  BY <1>1, TailRead DEF SingleRead
<1>3. pending \cap Reads = {}
  BY <1>1 DEF SingleRead
<1> QED
  BY <1>2, <1>3

(* A failed handler runs on a connection that is no longer up.             *)
LEMMA FailureDown ==
  ASSUME TypeOK, Linked, NEW op, Handle(op, FALSE)
  PROVE  link # "up" /\ server = Fresh /\ ReadsFail(Tail(ready))
<1>1. 1 \in DOMAIN ready /\ ready[1].ok = FALSE
  <2>1. 1 \in DOMAIN ready /\ ready[1] = [op |-> op, ok |-> FALSE]
    BY HandleMoves
  <2> QED
    BY <2>1
<1>2. ASSUME NEW i \in DOMAIN Tail(ready), Tail(ready)[i].ok
      PROVE  Tail(ready)[i].op \notin Reads
  <2>1. ready \in Seq(Handler) /\ ready # <<>>
    BY DEF TypeOK, Handler, Handle
  <2>2. i + 1 \in DOMAIN ready /\ Tail(ready)[i] = ready[i + 1] /\ 1 < i + 1
    BY <2>1
  <2> QED
    BY <1>1, <1>2, <2>2 DEF Linked
<1> QED
  BY <1>1, <1>2 DEF Linked, ReadsFail

(* A handler that begins nothing, or no more than a write.                 *)
LEMMA TailWired ==
  ASSUME TypeOK, Wired, NEW op, NEW ok, Handle(op, ok), ready' = Tail(ready),
         connected' => connected, link = "up" => connected',
         UNCHANGED <<open, pending, link, server, within, closing, user_closed>>
  PROVE  Wired'
<1>1. /\ Grown(Tail(ready), ready, 1, {}) /\ OpsIn(Tail(ready)) \subseteq OpsIn(ready)
      /\ OneRead(Tail(ready))
  <2>1. ready \in Seq(Handler) /\ ready # <<>>
    BY DEF TypeOK, Handler, Handle
  <2> QED
    BY <2>1, HandleMoves, HandleTakes, TailRead DEF Wired, SingleRead
<1>2. SingleRead'
  BY <1>1, SingleKept DEF Wired
<1>3. Linked'
  BY <1>1, LinkedKept DEF Wired, Linked
<1> QED
  BY <1>2, <1>3 DEF Wired

LEMMA ConnectWired ==
  ASSUME TypeOK, Wired, OnConnected \/ ResendSubscribe \/ OnConnectFailed
  PROVE  Wired'
<1> USE DEF socketVars, readVars, writeVars, mapVars, callVars, ownerVars, pastVars
<1>0. ready \in Seq(Handler) /\ pending \in SUBSET Ops /\ open \in BOOLEAN
  BY DEF TypeOK, Handler
<1>1. CASE OnConnected
  <2>1. /\ "connect" \in pending /\ ready = <<>> /\ ready' = <<>> /\ connected' /\ open' = open
        /\ pending' = (pending \ {"connect"}) \cup {"head"} /\ within' = "resend"
        /\ link' = "up" /\ UNCHANGED <<closing, user_closed>>
    BY <1>1 DEF OnConnected
  <2>2. open /\ pending \cap Reads = {} /\ OpsIn(ready)' = {}
    BY <2>1 DEF Wired, Linked, OpsIn
  <2>3. SingleRead'
    BY <2>1, <2>2 DEF SingleRead, Reads, OneRead, Deliveries
  <2>4. Linked'
    BY <2>1, <2>2 DEF Wired, Linked, Reads
  <2> QED
    BY <2>3, <2>4 DEF Wired
<1>2. CASE ResendSubscribe
  <2>1. PICK messages \in InOrder(key_token_set) :
          IF WriterIdle /\ messages # <<>>
          THEN Write(messages[1], ready) ELSE UNCHANGED <<header, pending, ready>>
    BY <1>2 DEF ResendSubscribe
  <2>2. UNCHANGED <<connected, open, link, server, closing, user_closed>> /\ within' = "no"
    BY <1>2 DEF ResendSubscribe
  <2>3. messages # <<>> => messages[1] \in Message
    <3>1. outbox \in Seq(Message)
      BY DEF TypeOK
    <3> QED
      BY <3>1, AppendedMessages
  <2>4. Grown(ready, ready, 0, {}) /\ OneRead(ready)
    BY <1>0, GrownSame DEF Wired, SingleRead
  <2>5. /\ OneRead(ready') /\ pending' \cap (Reads \cup {"connect"}) \subseteq pending
        /\ OpsIn(ready') \cap (Reads \cup {"connect"}) \subseteq OpsIn(ready)
        /\ Grown(ready', ready, 0, {} \cup Refusal("write"))
        /\ ~open => pending' \subseteq pending
    <3>1. CASE WriterIdle /\ messages # <<>>
      BY <1>0, <2>1, <2>3, <2>4, <3>1, WriteReads, WriteMoves
    <3>2. CASE ~(WriterIdle /\ messages # <<>>)
      <4>1. ready' = ready /\ pending' = pending
        BY <2>1, <3>2
      <4>2. Grown(ready', ready, 0, {} \cup Refusal("write"))
        BY <2>4, <4>1 DEF Grown
      <4> QED
        BY <2>4, <4>1, <4>2
    <3> QED
      BY <3>1, <3>2
  <2>6. SingleRead'
    BY <2>2, <2>5, SingleKept DEF Wired, Deliveries
  <2>7. Linked'
    <3>1. link = "up" => {} \cup Refusal("write") = {} /\ connected
      BY DEF Wired, Linked, Refusal
    <3> QED
      BY <2>2, <2>5, <3>1, RefusalFails, LinkedKept DEF Wired, Linked
  <2> QED
    BY <2>6, <2>7 DEF Wired
<1>3. CASE OnConnectFailed
  <2>1. /\ Handle("connect", FALSE) /\ link # "up" /\ ReadsFail(Tail(ready))
        /\ within = "no" /\ Tail(ready) \in Seq(Handler) /\ ready # <<>>
        /\ OpsIn(ready) = OpsIn(Tail(ready)) \cup {"connect"}
    BY <1>3, HandleTakes, FailureDown DEF OnConnectFailed, Handle, Wired
  <2>2. CASE connected
    BY <1>3, <2>1, <2>2, TailWired DEF OnConnectFailed, Leave
  <2>3. CASE ~connected
    <3>1. Recovery(Tail(ready), pending, open) /\ UNCHANGED <<connected, within, closing, user_closed>>
      BY <1>3, <2>3 DEF Recovery, OnConnectFailed
    <3>2. OneRead(Tail(ready))
      BY <1>0, <2>1, TailRead DEF Wired, SingleRead
    <3> QED
      BY <1>0, <2>1, <2>3, <3>1, <3>2, ErrorWired DEF Wired, SingleRead, Linked
  <2> QED
    BY <2>2, <2>3
<1> QED
  BY <1>1, <1>2, <1>3

LEMMA WriteWired ==
  ASSUME TypeOK, Wired, OnWritten \/ OnWriteFailed
  PROVE  Wired'
<1> USE DEF socketVars, readVars, writeVars, mapVars, callVars, ownerVars, pastVars
<1>0. /\ ready \in Seq(Handler) /\ pending \in SUBSET Ops /\ open \in BOOLEAN
      /\ outbox \in Seq(Message) /\ ready # <<>>
  BY DEF TypeOK, Handler, OnWritten, OnWriteFailed, Handle
<1>1. Tail(ready) \in Seq(Handler) /\ OpsIn(Tail(ready)) \subseteq OpsIn(ready) /\ OneRead(Tail(ready))
  BY <1>0, TailOps, TailRead DEF Wired, SingleRead
<1>2. CASE OnWritten
  <2>1. Handle("write", TRUE) /\ UNCHANGED <<connected, open, link, server, within, closing, user_closed>>
    BY <1>2 DEF OnWritten
  <2>2. CASE outbox' = <<>>
    <3>1. ready' = Tail(ready) /\ pending' = pending
      BY <1>2, <2>2 DEF OnWritten
    <3>2. link = "up" => connected
      BY DEF Wired, Linked
    <3> QED
      BY <2>1, <3>1, <3>2, TailWired
  <2>3. CASE outbox' # <<>>
    <3>1. outbox' \in Seq(Message)
      BY <1>0, <1>2 DEF OnWritten
    <3>2. Head(outbox') \in Message /\ Write(Head(outbox'), Tail(ready))
      BY <1>2, <2>3, <3>1 DEF OnWritten
    <3>3. Grown(Tail(ready), ready, 1, {})
      BY <2>1, HandleMoves
    <3>4. /\ Grown(ready', ready, 1, {} \cup Refusal("write"))
          /\ pending' = IF open THEN pending \cup {"write"} ELSE pending
      BY <3>2, <3>3, WriteMoves
    <3>5. /\ OneRead(ready') /\ pending' \cap (Reads \cup {"connect"}) \subseteq pending
          /\ OpsIn(ready') \cap (Reads \cup {"connect"}) \subseteq OpsIn(Tail(ready))
      BY <1>1, <3>2, WriteReads
    <3>6. SingleRead'
      BY <1>1, <2>1, <3>5, SingleKept DEF Wired
    <3>7. Linked'
      <4>1. link = "up" => {} \cup Refusal("write") = {} /\ connected
        BY DEF Wired, Linked, Refusal
      <4> QED
        BY <2>1, <3>4, <3>5, <4>1, RefusalFails, LinkedKept DEF Wired, Linked
    <3> QED
      BY <3>6, <3>7 DEF Wired
  <2> QED
    BY <2>2, <2>3
<1>3. CASE OnWriteFailed
  <2>1. /\ Recovery(Tail(ready), pending, open) /\ ~connected' /\ within' = "no"
        /\ link # "up" /\ ReadsFail(Tail(ready)) /\ UNCHANGED <<closing, user_closed>>
    BY <1>3, HandleMoves, FailureDown DEF Recovery, ErrorCallback, OnWriteFailed, Wired
  <2>2. pending \cap Reads # {} => OpsIn(Tail(ready)) \cap Reads = {}
    BY <1>1 DEF Wired, SingleRead
  <2> QED
    BY <1>0, <1>1, <2>1, <2>2, ErrorWired DEF Wired, SingleRead, Linked
<1> QED
  BY <1>2, <1>3

LEMMA ReadWired ==
  ASSUME TypeOK, Wired, OnHead \/ OnHeadFailed \/ OnBody
  PROVE  Wired'
<1> USE DEF socketVars, readVars, writeVars, mapVars, callVars, ownerVars, pastVars
<1>0. /\ ready \in Seq(Handler) /\ pending \in SUBSET Ops /\ open \in BOOLEAN
      /\ {} \in SUBSET Ops /\ FALSE \in BOOLEAN /\ "head" \in Reads /\ "body" \in Reads
  BY DEF TypeOK, Handler, Reads
<1>1. /\ within = "no" /\ Tail(ready) \in Seq(Handler)
      /\ (pending \cup OpsIn(Tail(ready))) \cap Reads = {}
      /\ Grown(Tail(ready), ready, 1, {})
  BY <1>0, HandleMoves, ReadTaken DEF OnHead, OnHeadFailed, OnBody, Wired
<1>2. ready' = Tail(ready) => OpsIn(ready)' = OpsIn(Tail(ready)) /\ OneRead(ready)'
  BY <1>1, NoReadsOne DEF OpsIn, OneRead
<1>3. CASE OnHead
  <2>1. /\ ready' = Tail(ready) /\ UNCHANGED <<open, link, server, within, closing, user_closed>>
        /\ IF open THEN pending' = pending \cup {"body"} /\ UNCHANGED connected
                   ELSE connected' = FALSE /\ UNCHANGED pending
    BY <1>3 DEF OnHead
  <2>2. CASE open
    <3>1. pending' = pending \cup {"body"} /\ connected' = connected
      BY <2>1, <2>2
    <3>2. SingleRead'
      BY <1>1, <1>2, <2>1, <3>1 DEF SingleRead, Reads, Deliveries
    <3>3. Linked'
      <4>1. 1 \in DOMAIN ready /\ ready[1].ok /\ ready[1].op \in Reads
        <5>1. Handle("head", TRUE)
          BY <1>3 DEF OnHead
        <5>2. 1 \in DOMAIN ready /\ ready[1] = [op |-> "head", ok |-> TRUE]
          BY <5>1, HandleMoves
        <5> QED
          BY <1>0, <5>2
      <4>2. "connect" \notin pending /\ link # "down"
        BY <2>2, <4>1 DEF Wired, Linked, ReadsFail
      <4>3. Linked /\ connected' = connected /\ {} \cup {} = {}
        BY <3>1 DEF Wired
      <4>4. /\ link = "up" => \A i \in DOMAIN ready' : ready'[i].ok
            /\ \A i, j \in DOMAIN ready' : i < j /\ ~ready'[i].ok /\ ready'[j].ok => ready'[j].op \notin Reads
        <5>1. \A i \in DOMAIN Tail(ready) : i + 1 \in DOMAIN ready /\ Tail(ready)[i] = ready[i + 1] /\ i \in Int
          BY <1>0, <4>1
        <5> QED
          BY <2>1, <4>3, <5>1 DEF Linked
      <4> QED
        BY <1>1, <2>1, <2>2, <3>1, <4>2, <4>3, <4>4 DEF Linked
    <3> QED
      BY <3>2, <3>3 DEF Wired
  <2>3. CASE ~open
    BY <1>3, <2>1, <2>3, TailWired DEF OnHead, Wired, Linked
  <2> QED
    BY <2>2, <2>3
<1>4. CASE OnHeadFailed
  <2>1. /\ link # "up" /\ ReadsFail(Tail(ready)) /\ ~connected' /\ within' = "no"
        /\ UNCHANGED <<closing, user_closed>>
    BY <1>1, <1>4, FailureDown DEF OnHeadFailed, Wired
  <2>2. CASE ~open
    <3>1. ready' = Tail(ready) /\ UNCHANGED <<open, pending, link, server, within>>
      BY <1>4, <2>2 DEF OnHeadFailed
    <3> QED
      BY <1>4, <2>1, <3>1, TailWired DEF OnHeadFailed
  <2>3. CASE open /\ connected
    <3>1. Recovery(Tail(ready) \o Aborted(pending), {}, FALSE)
      BY <1>4, <2>3 DEF Recovery, ErrorCallback, OnHeadFailed
    <3>2. /\ Aborted(pending) \in Seq(Handler) /\ OpsIn(Aborted(pending)) = pending
          /\ Tail(ready) \o Aborted(pending) \in Seq(Handler)
          /\ OpsIn(Tail(ready) \o Aborted(pending)) = OpsIn(Tail(ready)) \cup pending
      <4>1. Aborted(pending) \in Seq(Handler) /\ OpsIn(Aborted(pending)) = pending
        BY <1>0, AbortedOps
      <4>2. Tail(ready) \in Seq(Handler)
        BY <1>1
      <4> QED
        BY <4>1, <4>2, ConcatOps
    <3>3. OneRead(Tail(ready) \o Aborted(pending))
      BY <1>1, <3>2, NoReadsOne
    <3>4. ReadsFail(Tail(ready) \o Aborted(pending))
      BY <1>1, <3>2, NoReadsOk
    <3> QED
      BY <1>0, <2>1, <3>1, <3>2, <3>3, <3>4, ErrorWired DEF Wired, Reads
  <2>4. CASE open /\ ~connected
    <3>1. Recovery(Tail(ready), pending, open)
      BY <1>4, <2>4 DEF Recovery, ErrorCallback, OnHeadFailed
    <3>2. OneRead(Tail(ready))
      BY <1>1, NoReadsOne
    <3> QED
      BY <1>0, <1>1, <2>1, <2>4, <3>1, <3>2, ErrorWired DEF Wired, Linked, SingleRead
  <2> QED
    BY <2>2, <2>3, <2>4
<1>5. CASE OnBody
  <2>1. /\ ready' = Tail(ready) /\ UNCHANGED <<open, pending, link, server, closing, user_closed>>
        /\ within' = IF ~open THEN "closed" ELSE IF Head(ready).ok THEN "answer" ELSE "error"
        /\ connected' = (connected /\ within' # "error")
    BY <1>5 DEF OnBody
  <2>2. 1 \in DOMAIN ready /\ Head(ready) = ready[1] /\ ready[1].op = "body" /\ ready # <<>>
    BY <1>0, <1>5, HandleMoves DEF OnBody, Handle
  <2>3. SingleRead'
    BY <1>1, <1>2, <2>1, SingleQuiet
  <2>4. Linked'
    <3>1. /\ link = "up" => \A i \in DOMAIN ready' : ready'[i].ok
          /\ \A i, j \in DOMAIN ready' : i < j /\ ~ready'[i].ok /\ ready'[j].ok => ready'[j].op \notin Reads
          /\ ReadsFail(ready) => ReadsFail(ready)'
      <4>1. \A i \in DOMAIN Tail(ready) : i + 1 \in DOMAIN ready /\ Tail(ready)[i] = ready[i + 1] /\ i \in Int
        BY <1>0, <2>2
      <4> QED
        BY <2>1, <4>1 DEF Wired, Linked, ReadsFail
    <3>2. within' = "error" => link # "up"
      BY <2>1, <2>2 DEF Wired, Linked
    <3>3. open /\ link = "down" => within' # "answer"
      BY <1>0, <2>1, <2>2 DEF Wired, Linked, ReadsFail
    <3> QED
      BY <2>1, <3>1, <3>2, <3>3 DEF Wired, Linked
  <2> QED
    BY <2>3, <2>4 DEF Wired
<1> QED
  BY <1>3, <1>4, <1>5

LEMMA CallBackWired ==
  ASSUME TypeOK, Wired, CallBack
  PROVE  Wired'
<1> USE DEF socketVars, readVars, writeVars, mapVars, callVars, ownerVars, pastVars
<1>0. ready \in Seq(Handler) /\ pending \in SUBSET Ops /\ open \in BOOLEAN
  BY DEF TypeOK, Handler
<1>1. /\ within \in Deliveries /\ within' = "no" /\ UNCHANGED <<connected, closing, user_closed>>
      /\ (pending \cup OpsIn(ready)) \cap Reads = {}
  BY DEF CallBack, Wired, SingleRead
<1>2. CASE within = "answer"
  <2>1. pending' = Started("head", pending) /\ ready' = Refused("head", ready) /\ UNCHANGED <<open, link, server>>
    BY <1>2 DEF CallBack
  <2>2. CASE open
    <3>1. pending' = pending \cup {"head"} /\ ready' = ready /\ OpsIn(ready)' = OpsIn(ready)
      BY <2>1, <2>2 DEF Started, Refused, OpsIn
    <3>2. OneRead(ready)'
      BY <3>1 DEF Wired, SingleRead, OneRead
    <3>3. SingleRead'
      BY <1>1, <3>1, <3>2 DEF SingleRead, Reads, Deliveries
    <3>4. Linked'
      BY <1>1, <1>2, <2>1, <2>2, <3>1 DEF Wired, Linked, ReadsFail
    <3> QED
      BY <3>3, <3>4 DEF Wired
  <2>3. CASE ~open
    <3>1. pending' = pending /\ ready' = Append(ready, [op |-> "head", ok |-> FALSE])
      BY <2>1, <2>3 DEF Started, Refused
    <3>2. "head" \in Ops /\ FALSE \in BOOLEAN /\ OneRead(ready) /\ OpsIn(ready) \cap Reads = {}
      BY <1>1 DEF Ops, Wired, SingleRead
    <3>3. OneRead(ready)' /\ Grown(ready', ready, 0, {} \cup {[op |-> "head", ok |-> FALSE]})
      BY <1>0, <3>1, <3>2, AppendRead, GrownSame, GrownAppend DEF OneRead
    <3>4. SingleRead'
      BY <1>1, <2>3, <3>1, <3>3 DEF Wired, Linked, SingleRead, Reads, Deliveries
    <3>5. Linked'
      <4>1. link # "up"
        BY <2>3 DEF Wired, Linked
      <4>2. \A h \in {} \cup {[op |-> "head", ok |-> FALSE]} : h.ok => h.op \notin Reads
        OBVIOUS
      <4> QED
        BY <1>1, <2>1, <3>1, <3>3, <4>1, <4>2, LinkedKept DEF Wired, Linked
    <3> QED
      BY <3>4, <3>5 DEF Wired
  <2> QED
    BY <2>2, <2>3
<1>3. CASE within = "error"
  <2>1. Recovery(ready, pending, open) /\ ~connected /\ link # "up"
    BY <1>3 DEF Recovery, ErrorCallback, CallBack, Wired, Linked
  <2>2. OneRead(ready) /\ ReadsFail(ready)
    BY <1>0, <1>1, NoReadsOne, NoReadsOk
  <2> QED
    BY <1>0, <1>1, <2>1, <2>2, ErrorWired DEF Wired, Linked, SingleRead
<1>4. CASE within = "closed"
  <2>1. UNCHANGED <<open, pending, ready, link, server>>
    BY <1>4 DEF CallBack
  <2>2. SingleRead'
    BY <1>1, <2>1, SingleQuiet DEF OpsIn
  <2>3. Linked'
    BY <1>1, <2>1 DEF Wired, Linked, ReadsFail
  <2> QED
    BY <2>2, <2>3 DEF Wired
<1> QED
  BY <1>1, <1>2, <1>3, <1>4 DEF Deliveries

LEMMA InitWired ==
  ASSUME Init
  PROVE  Wired
<1>1. OpsIn(ready) = {} /\ OneRead(ready)
  BY DEF Init, OpsIn, OneRead
<1> QED
  BY <1>1 DEF Init, Wired, SingleRead, Linked, Reads, Deliveries, ReadsFail

LEMMA NextWired ==
  ASSUME TypeOK, Wired, [Next]_vars, ~hasty'
  PROVE  Wired'
<1>1. CASE Next
  <2>1. (\E c \in Message : Caller(c)) \/ Owner \/ Network \/ IoThread
    BY <1>1 DEF Next, Alive
  <2> QED
    BY <2>1, CallerWired, OwnerWired, NetworkWired, ConnectWired, WriteWired, ReadWired,
       CallBackWired DEF IoThread
<1>2. CASE UNCHANGED vars
  BY <1>2, UntouchedWired DEF vars, readVars, ownerVars
<1> QED
  BY <1>1, <1>2
-----------------------------------------------------------------------------
(* The writes, on a client that is not closed and has swallowed none.      *)
Written == [op |-> "write", ok |-> TRUE]

NoWrite(queue) == \A i \in DOMAIN queue : queue[i].op # "write"

WritesHeld ==
  /\ \A i, j \in DOMAIN ready : i < j /\ ~ready[i].ok => ~ready[j].ok
  /\ "write" \in pending => outbox # <<>>
  /\ \A i \in DOMAIN ready : ready[i] = Written => "write" \notin pending /\ outbox # <<>>
  /\ \A i, j \in DOMAIN ready : ready[i] = Written /\ ready[j] = Written => i = j
  /\ connected =>
       \/ NoWrite(ready)
       \/ /\ \A i, j \in DOMAIN ready : ready[i].op = "write" /\ ready[j].op = "write" => i = j
          /\ "write" \notin pending /\ outbox # <<>>

Writes == user_closed \/ swallowed \/ (WritesHeld /\ ~crossed_writes)

(* What the operations keep to, as long as connect() is called in time.    *)
InTime == Wired /\ ~crossed_reads /\ Writes

LEMMA FailedLast ==
  ASSUME NEW q, NEW r, NEW k, NEW new, Grown(q, r, k, new),
         \A i, j \in DOMAIN r : i < j /\ ~r[i].ok => ~r[j].ok,
         (\A h \in new : ~h.ok) \/ ((\A h \in new : h.ok) /\ \A i \in DOMAIN r : r[i].ok)
  PROVE  \A i, j \in DOMAIN q : i < j /\ ~q[i].ok => ~q[j].ok
<1> SUFFICES ASSUME NEW i \in DOMAIN q, NEW j \in DOMAIN q, i < j, ~q[i].ok
             PROVE  ~q[j].ok
  OBVIOUS
<1>1. CASE j + k \in DOMAIN r /\ q[j] = r[j + k]
  <2>1. /\ q \in Seq(Handler) /\ r \in Seq(Handler) /\ k \in Nat
        /\ i \in 1 .. Len(q) /\ j \in 1 .. Len(q) /\ j + k \in 1 .. Len(r)
    BY <1>1 DEF Grown
  <2>2. i \in 1 .. Len(r) - k
    BY <2>1
  <2>3. q[i] = r[i + k]
    BY <2>2 DEF Grown
  <2>4. i + k \in DOMAIN r /\ i + k < j + k
    BY <2>1
  <2> QED
    BY <1>1, <2>3, <2>4
<1>2. CASE q[j] \in new
  BY <1>2, GrownFrom
<1> QED
  BY <1>1, <1>2, GrownFrom

(* A step that begins no write and ends none.                              *)
LEMMA WritesMove ==
  ASSUME WritesHeld, NEW k, NEW new, Grown(ready', ready, k, new),
         (\A h \in new : ~h.ok) \/ ((\A h \in new : h.ok) /\ \A i \in DOMAIN ready : ready[i].ok),
         connected' => connected, \A h \in new : h # Written /\ (connected' => h.op # "write"),
         "write" \in pending' => "write" \in pending,
         outbox # <<>> => outbox' # <<>>
  PROVE  WritesHeld'
<1>1. \A i, j \in DOMAIN ready' : i < j /\ ~ready'[i].ok => ~ready'[j].ok
  BY FailedLast DEF WritesHeld
<1>2. ASSUME NEW i \in DOMAIN ready', ready'[i] = Written
      PROVE  i + k \in DOMAIN ready /\ ready[i + k] = Written
  BY <1>2, GrownFrom
<1>3. ASSUME connected', NEW i \in DOMAIN ready', ready'[i].op = "write"
      PROVE  i + k \in DOMAIN ready /\ ready[i + k].op = "write"
  BY <1>3, GrownFrom
<1>4. \A i \in DOMAIN ready' : i \in Nat /\ k \in {0, 1}
  BY GrownFrom
<1>5. \A i \in DOMAIN ready' : ready'[i] = Written => "write" \notin pending' /\ outbox' # <<>>
  BY <1>2 DEF WritesHeld
<1>6. \A i, j \in DOMAIN ready' : ready'[i] = Written /\ ready'[j] = Written => i = j
  BY <1>2, <1>4 DEF WritesHeld
<1>7. connected' =>
       \/ NoWrite(ready')
       \/ /\ \A i, j \in DOMAIN ready' : ready'[i].op = "write" /\ ready'[j].op = "write" => i = j
          /\ "write" \notin pending' /\ outbox' # <<>>
  <2> SUFFICES ASSUME connected', NEW l \in DOMAIN ready', ready'[l].op = "write"
               PROVE  /\ \A i, j \in DOMAIN ready' : ready'[i].op = "write" /\ ready'[j].op = "write" => i = j
                      /\ "write" \notin pending' /\ outbox' # <<>>
    BY DEF NoWrite
  <2>1. ~NoWrite(ready)
    BY <1>3 DEF NoWrite
  <2>2. /\ \A i, j \in DOMAIN ready : ready[i].op = "write" /\ ready[j].op = "write" => i = j
        /\ "write" \notin pending /\ outbox # <<>>
    BY <2>1 DEF WritesHeld
  <2>3. ASSUME NEW i \in DOMAIN ready', NEW j \in DOMAIN ready',
               ready'[i].op = "write", ready'[j].op = "write"
        PROVE  i = j
    <3>1. i + k = j + k
      BY <1>3, <2>2, <2>3
    <3> QED
      BY <1>4, <3>1
  <2>4. "write" \notin pending' /\ outbox' # <<>>
    BY <2>2
  <2> QED
    BY <2>3, <2>4
<1> QED
  BY <1>1, <1>5, <1>6, <1>7 DEF WritesHeld, NoWrite

(* A write begins when none is outstanding.                                *)
LEMMA WriteStarts ==
  ASSUME Linked, WritesHeld, NEW queue, NEW k, Grown(queue, ready, k, {}), NEW c, Write(c, queue),
         "write" \notin pending, \A i \in DOMAIN queue : queue[i] # Written,
         connected => NoWrite(queue), connected' = connected, outbox' # <<>>
  PROVE  WritesHeld'
<1>1. /\ Grown(ready', ready, k, {} \cup Refusal("write"))
      /\ pending' = IF open THEN pending \cup {"write"} ELSE pending
  BY WriteMoves
<1>2. \A i, j \in DOMAIN ready' : i < j /\ ~ready'[i].ok => ~ready'[j].ok
  <2>1. PICK new : Grown(ready', ready, k, new) /\ \A h \in new : ~h.ok
    BY <1>1, RefusalFails
  <2>2. \A i, j \in DOMAIN ready : i < j /\ ~ready[i].ok => ~ready[j].ok
    BY DEF WritesHeld
  <2>3. (\A h \in new : ~h.ok) \/ ((\A h \in new : h.ok) /\ \A i \in DOMAIN ready : ready[i].ok)
    BY <2>1
  <2> QED
    BY <2>1, <2>2, <2>3, FailedLast
<1>3. \A i \in DOMAIN ready' : ready'[i] # Written
  <2>1. CASE open
    BY <2>1 DEF Write, Refused
  <2>2. CASE ~open
    <3>1. /\ ready' = Append(queue, [op |-> "write", ok |-> FALSE]) /\ queue \in Seq(Handler)
          /\ [op |-> "write", ok |-> FALSE] \in Handler /\ [op |-> "write", ok |-> FALSE] # Written
      BY <2>2 DEF Write, Refused, Grown, Handler, Ops, Written
    <3> QED
      BY <3>1
  <2> QED
    BY <2>1, <2>2
<1>4. connected' => NoWrite(ready')
  <2>1. connected' => ready' = queue
    BY DEF Linked, Write, Refused
  <2> QED
    BY <2>1
<1> QED
  BY <1>2, <1>3, <1>4 DEF WritesHeld, NoWrite

(* All that was queued has failed, and the client is not connected.        *)
LEMMA WritesOver ==
  ASSUME \A i \in DOMAIN ready' : ~ready'[i].ok, "write" \notin pending', ~connected'
  PROVE  WritesHeld'
<1>1. \A i \in DOMAIN ready' : ready'[i] # Written
  BY DEF Written
<1> QED
  BY <1>1 DEF WritesHeld

LEMMA UntouchedWrites ==
  ASSUME WritesHeld, UNCHANGED <<connected, pending, ready, outbox>>
  PROVE  WritesHeld'
  BY DEF WritesHeld, NoWrite

(* error_callback() on a client that is no longer connected.               *)
LEMMA ErrorWrites ==
  ASSUME TypeOK, WritesHeld, NEW queue, NEW k, Grown(queue, ready, k, {}), NEW is_open,
         Recovery(queue, pending, is_open), ~connected', outbox' = outbox
  PROVE  WritesHeld'
<1>1. pending \in SUBSET Ops
  BY DEF TypeOK
<1>2. PICK new : new = {} \cup Failed(pending)
  OBVIOUS
<1>3. Grown(ready', ready, k, new) /\ ("write" \in pending' => "write" \in pending)
  BY <1>1, <1>2, ErrorMoves
<1>4. \A h \in new : ~h.ok /\ h # Written
  BY <1>2 DEF Failed, Written
<1>5. (\A h \in new : ~h.ok) \/ ((\A h \in new : h.ok) /\ \A i \in DOMAIN ready : ready[i].ok)
  BY <1>4
<1> QED
  BY <1>3, <1>4, <1>5, WritesMove

(* The handler of anything but a write is taken.                           *)
LEMMA TailWrites ==
  ASSUME TypeOK, WritesHeld, NEW op, NEW ok, Handle(op, ok), ready' = Tail(ready),
         "write" \in pending' => "write" \in pending,
         connected' => connected, outbox' = outbox
  PROVE  WritesHeld'
<1>1. Grown(ready', ready, 1, {})
  BY HandleMoves
<1>2. (\A h \in {} : ~h.ok) \/ ((\A h \in {} : h.ok) /\ \A i \in DOMAIN ready : ready[i].ok)
  OBVIOUS
<1> QED
  BY <1>1, <1>2, WritesMove

LEMMA CallerWrites ==
  ASSUME TypeOK, Wired, WritesHeld, NEW c \in Message, Caller(c)
  PROVE  WritesHeld'
<1> USE DEF socketVars, readVars, writeVars, mapVars, callVars, ownerVars, pastVars
<1>1. CASE Check(c) \/ Register(c) \/ GiveUp(c) \/ Enter(c)
  BY <1>1, UntouchedWrites DEF Check, Register, GiveUp, Enter
<1>2. CASE Send(c)
  <2>1. ready \in Seq(Handler) /\ outbox' # <<>> /\ connected' = connected
    <3>1. outbox \in Seq(Message) /\ outbox' = Append(outbox, c)
      BY <1>2 DEF Send, TypeOK
    <3>2. outbox' # <<>>
      BY <3>1
    <3> QED
      BY <1>2, <3>2 DEF Send, TypeOK, Handler
  <2>2. CASE WriterIdle
    <3>1. Write(c, ready) /\ Grown(ready, ready, 0, {})
      BY <1>2, <2>1, <2>2, GrownSame DEF Send
    <3>2. /\ "write" \notin pending /\ \A i \in DOMAIN ready : ready[i] # Written
          /\ connected => NoWrite(ready)
      BY <2>2 DEF WritesHeld, WriterIdle
    <3> QED
      BY <2>1, <3>1, <3>2, WriteStarts DEF Wired
  <2>3. CASE ~WriterIdle
    <3>1. UNCHANGED <<pending, ready>> /\ outbox # <<>>
      BY <1>2, <2>3 DEF Send, WriterIdle
    <3> QED
      BY <2>1, <3>1 DEF WritesHeld, NoWrite
  <2> QED
    BY <2>2, <2>3
<1> QED
  BY <1>1, <1>2 DEF Caller

LEMMA OwnerWrites ==
  ASSUME TypeOK, Wired, WritesHeld, ~user_closed, Owner, ~hasty'
  PROVE  user_closed' \/ WritesHeld'
<1> USE DEF socketVars, readVars, writeVars, mapVars, callVars, ownerVars, pastVars
<1>1. CASE Connect
  <2>1. /\ ready = <<>> /\ ~connected /\ ~connected' /\ outbox' = outbox
        /\ ready' = <<>> \/ ready' = <<[op |-> "connect", ok |-> FALSE]>>
        /\ "write" \in pending' => "write" \in pending
    <3>1. ready = <<>>
      BY <1>1 DEF Connect, HandlersLeft
    <3>2. Append(<<>>, [op |-> "connect", ok |-> FALSE]) = <<[op |-> "connect", ok |-> FALSE]>>
      OBVIOUS
    <3> QED
      BY <1>1, <3>1, <3>2 DEF Connect
  <2>2. \A i \in DOMAIN ready' : i = 1 /\ ready'[i] = [op |-> "connect", ok |-> FALSE]
    BY <2>1
  <2>3. \A i \in DOMAIN ready' : ~ready'[i].ok /\ ready'[i] # Written
    BY <2>2 DEF Written
  <2> QED
    BY <2>1, <2>3 DEF WritesHeld
<1>2. CASE CloseSocket
  BY <1>2 DEF CloseSocket
<1>3. CASE ClearOutbox \/ ClearMaps
  BY <1>3 DEF ClearOutbox, ClearMaps, Wired, Linked
<1> QED
  BY <1>1, <1>2, <1>3 DEF Owner

LEMMA NetworkWrites ==
  ASSUME TypeOK, Wired, WritesHeld, Network
  PROVE  swallowed' \/ WritesHeld'
<1> USE DEF socketVars, readVars, writeVars, mapVars, callVars, ownerVars, pastVars
<1>0. ready \in Seq(Handler) /\ pending \in SUBSET Ops /\ Grown(ready, ready, 0, {})
  BY GrownSame DEF TypeOK, Handler
<1>1. CASE Sent
  <2>1. /\ "write" \in pending /\ link = "up" /\ "write" \notin pending'
        /\ ready' = Append(ready, Written) /\ UNCHANGED <<connected, outbox>>
    BY <1>1 DEF Sent, Written
  <2>2. /\ outbox # <<>> /\ \A i \in DOMAIN ready : ready[i].ok /\ ready[i] # Written
        /\ connected => NoWrite(ready)
    BY <2>1 DEF WritesHeld, Wired, Linked
  <2>3. Written \in Handler /\ Written.op = "write" /\ Written.ok
    BY DEF Written, Handler, Ops
  <2>4. \A i \in DOMAIN ready' : (i \in DOMAIN ready /\ ready'[i] = ready[i]) \/ (i = Len(ready) + 1 /\ ready'[i] = Written)
    BY <1>0, <2>1, <2>3
  <2>5. \A i \in DOMAIN ready' : ready'[i].ok
    BY <2>2, <2>3, <2>4
  <2>6. \A i \in DOMAIN ready' : ready'[i] = Written => i = Len(ready) + 1
    BY <2>2, <2>4
  <2>7. connected => \A i \in DOMAIN ready' : ready'[i].op = "write" => i = Len(ready) + 1
    BY <2>2, <2>4 DEF NoWrite
  <2> QED
    BY <2>1, <2>2, <2>5, <2>6, <2>7 DEF WritesHeld
<1>2. ASSUME NEW op \in {"head", "body"}, link = "up", pending' = pending \ {op},
             ready' = Append(ready, [op |-> op, ok |-> TRUE]), UNCHANGED <<connected, outbox>>
      PROVE  WritesHeld'
  <2>1. PICK h : h = [op |-> op, ok |-> TRUE]
    OBVIOUS
  <2>2. op \in Ops /\ h # Written /\ h.op # "write" /\ h.ok
    BY <1>2, <2>1 DEF Written, Ops
  <2>3. PICK new : new = {} \cup {h}
    OBVIOUS
  <2>4. Grown(ready', ready, 0, new)
    BY <1>0, <1>2, <2>1, <2>2, <2>3, GrownAppend
  <2>5. (\A g \in new : ~g.ok) \/ ((\A g \in new : g.ok) /\ \A i \in DOMAIN ready : ready[i].ok)
    BY <1>2, <2>2, <2>3 DEF Wired, Linked
  <2>6. \A g \in new : g # Written /\ g.op # "write"
    BY <2>2, <2>3
  <2> QED
    BY <1>2, <2>4, <2>5, <2>6, WritesMove
<1>3. CASE HeadArrives \/ BodyArrives
  BY <1>2, <1>3 DEF HeadArrives, BodyArrives
<1>4. CASE LinkFails \/ Publish
  BY <1>4, UntouchedWrites DEF LinkFails, Publish
<1>5. CASE OperationFails
  <2>1. PICK op \in pending : /\ pending' = pending \ {op}
                              /\ ready' = Append(ready, [op |-> op, ok |-> FALSE])
    BY <1>5 DEF OperationFails
  <2>2. UNCHANGED <<connected, outbox>>
    BY <1>5 DEF OperationFails
  <2>3. PICK h : h = [op |-> op, ok |-> FALSE]
    OBVIOUS
  <2>4. op \in Ops /\ h # Written /\ h.op = op /\ ~h.ok
    BY <1>0, <2>3 DEF Written
  <2>5. PICK new : new = {} \cup {h}
    OBVIOUS
  <2>6. Grown(ready', ready, 0, new)
    BY <1>0, <2>1, <2>3, <2>4, <2>5, GrownAppend
  <2>7. (\A g \in new : ~g.ok) \/ ((\A g \in new : g.ok) /\ \A i \in DOMAIN ready : ready[i].ok)
    BY <2>4, <2>5
  <2>8. CASE op # "write"
    <3>1. \A g \in new : g # Written /\ g.op # "write"
      BY <2>4, <2>5, <2>8
    <3> QED
      BY <2>1, <2>2, <2>6, <2>7, <3>1, WritesMove
  <2>9. CASE op = "write"
    <3>1. /\ outbox # <<>> /\ \A i \in DOMAIN ready : ready[i] # Written
          /\ connected => NoWrite(ready)
      BY <2>9 DEF WritesHeld
    <3>2. \A i, j \in DOMAIN ready' : i < j /\ ~ready'[i].ok => ~ready'[j].ok
      BY <2>6, <2>7, FailedLast DEF WritesHeld
    <3>3. h \in Handler /\ ready' = Append(ready, h)
      BY <1>0, <2>1, <2>3 DEF Handler
    <3>4. \A i \in DOMAIN ready' : (i \in DOMAIN ready /\ ready'[i] = ready[i]) \/ (i = Len(ready) + 1 /\ ready'[i] = h)
      BY <1>0, <3>3
    <3>5. \A i \in DOMAIN ready' : ready'[i] # Written
      BY <2>4, <3>1, <3>4
    <3>6. connected => \A i \in DOMAIN ready' : ready'[i].op = "write" => i = Len(ready) + 1
      BY <3>1, <3>4 DEF NoWrite
    <3> QED
      BY <2>1, <2>2, <2>9, <3>1, <3>2, <3>5, <3>6 DEF WritesHeld
  <2> QED
    BY <2>8, <2>9
<1>6. CASE Swallowed
  BY <1>6 DEF Swallowed
<1> QED
  BY <1>1, <1>3, <1>4, <1>5, <1>6 DEF Network

LEMMA ConnectWrites ==
  ASSUME TypeOK, Wired, WritesHeld, OnConnected \/ ResendSubscribe \/ OnConnectFailed
  PROVE  WritesHeld'
<1> USE DEF socketVars, readVars, writeVars, mapVars, callVars, ownerVars, pastVars
<1>0. ready \in Seq(Handler) /\ Grown(ready, ready, 0, {})
  BY GrownSame DEF TypeOK, Handler
<1>1. CASE OnConnected
  <2>1. /\ ready' = <<>> /\ pending' = (pending \ {"connect"}) \cup {"head"} /\ outbox' = outbox
    BY <1>1 DEF OnConnected
  <2> QED
    BY <2>1 DEF WritesHeld, NoWrite
<1>2. CASE ResendSubscribe
  <2>1. PICK messages \in InOrder(key_token_set) :
          /\ outbox' = outbox \o messages
          /\ IF WriterIdle /\ messages # <<>>
             THEN Write(messages[1], ready) ELSE UNCHANGED <<header, pending, ready>>
    BY <1>2 DEF ResendSubscribe
  <2>2. connected' = connected
    BY <1>2 DEF ResendSubscribe
  <2>4. outbox \in Seq(Message) /\ messages \in Seq(Message)
    BY AppendedMessages DEF TypeOK
  <2>5. CASE WriterIdle /\ messages # <<>>
    <3>1. outbox' # <<>> /\ outbox = <<>> /\ Write(messages[1], ready)
      BY <2>1, <2>4, <2>5 DEF WriterIdle
    <3>2. /\ "write" \notin pending /\ \A i \in DOMAIN ready : ready[i] # Written
          /\ connected => NoWrite(ready)
      BY <3>1 DEF WritesHeld
    <3> QED
      BY <1>0, <2>2, <3>1, <3>2, WriteStarts DEF Wired
  <2>6. CASE ~(WriterIdle /\ messages # <<>>)
    <3>1. UNCHANGED <<pending, ready>> /\ (outbox # <<>> => outbox' # <<>>)
      BY <2>1, <2>4, <2>6
    <3> QED
      BY <2>2, <3>1 DEF WritesHeld, NoWrite
  <2> QED
    BY <2>5, <2>6
<1>3. CASE OnConnectFailed
  <2>1. /\ Handle("connect", FALSE) /\ Grown(Tail(ready), ready, 1, {})
        /\ UNCHANGED <<connected, outbox>>
    BY <1>3, HandleMoves DEF OnConnectFailed
  <2>2. CASE connected
    BY <1>3, <2>1, <2>2, TailWrites DEF OnConnectFailed, Leave
  <2>3. CASE ~connected
    BY <1>3, <2>1, <2>3, ErrorWrites DEF Recovery, OnConnectFailed
  <2> QED
    BY <2>2, <2>3
<1> QED
  BY <1>1, <1>2, <1>3

LEMMA WrittenWrites ==
  ASSUME TypeOK, Wired, WritesHeld, OnWritten
  PROVE  WritesHeld'
<1> USE DEF socketVars, readVars, writeVars, mapVars, callVars, ownerVars, pastVars
<1>1. /\ ready \in Seq(Handler) /\ Tail(ready) \in Seq(Handler) /\ ready # <<>>
      /\ 1 \in DOMAIN ready /\ ready[1] = Written /\ Grown(Tail(ready), ready, 1, {})
      /\ connected' = connected
  BY HandleMoves DEF OnWritten, Handle, Written
<1>2. \A i \in DOMAIN Tail(ready) : i + 1 \in DOMAIN ready /\ Tail(ready)[i] = ready[i + 1] /\ i + 1 # 1
  BY <1>1
<1>3. "write" \notin pending /\ ready[1].op = "write"
  BY <1>1 DEF WritesHeld, Written
<1>4. \A i \in DOMAIN Tail(ready) : Tail(ready)[i] # Written
  BY <1>1, <1>2 DEF WritesHeld
<1>5. connected => NoWrite(Tail(ready))
  <2>1. connected => ~NoWrite(ready)
    BY <1>1, <1>3 DEF NoWrite
  <2> QED
    BY <1>1, <1>2, <1>3, <2>1 DEF WritesHeld, NoWrite
<1>6. CASE outbox' = <<>>
  <2>1. ready' = Tail(ready) /\ pending' = pending
    BY <1>6 DEF OnWritten
  <2>2. \A i, j \in DOMAIN ready' : i < j /\ ~ready'[i].ok => ~ready'[j].ok
    <3>1. (\A h \in {} : ~h.ok) \/ ((\A h \in {} : h.ok) /\ \A i \in DOMAIN ready : ready[i].ok)
      OBVIOUS
    <3> QED
      BY <1>1, <2>1, <3>1, FailedLast DEF WritesHeld
  <2> QED
    BY <1>1, <1>3, <1>4, <1>5, <2>1, <2>2 DEF WritesHeld, NoWrite
<1>7. CASE outbox' # <<>>
  <2>1. Write(Head(outbox'), Tail(ready))
    BY <1>7 DEF OnWritten
  <2> QED
    BY <1>1, <1>3, <1>4, <1>5, <1>7, <2>1, WriteStarts DEF Wired
<1> QED
  BY <1>6, <1>7

LEMMA ReadWrites ==
  ASSUME TypeOK, Wired, WritesHeld, OnHead \/ OnHeadFailed \/ OnBody
  PROVE  WritesHeld'
<1> USE DEF socketVars, readVars, writeVars, mapVars, callVars, ownerVars, pastVars
<1>1. CASE OnHead
  <2>1. "write" \in pending' => "write" \in pending
    BY <1>1 DEF OnHead
  <2>2. Handle("head", TRUE) /\ ready' = Tail(ready) /\ outbox' = outbox /\ (connected' => connected)
    BY <1>1 DEF OnHead
  <2> QED
    BY <2>1, <2>2, TailWrites
<1>2. CASE OnBody
  <2>1. connected' => connected
    BY <1>2 DEF OnBody
  <2> QED
    BY <1>2, <2>1, TailWrites DEF OnBody
<1>3. CASE OnHeadFailed
  <2>1. /\ Handle("head", FALSE) /\ ~connected' /\ Grown(Tail(ready), ready, 1, {})
    BY <1>3, HandleMoves DEF OnHeadFailed
  <2>2. CASE ~open
    BY <1>3, <2>1, <2>2, TailWrites DEF OnHeadFailed
  <2>3. CASE open /\ connected
    <3>1. PICK queue : queue = Tail(ready) \o Aborted(pending) /\ Recovery(queue, {}, FALSE)
      BY <1>3, <2>3 DEF Recovery, ErrorCallback, OnHeadFailed
    <3>2. pending \in SUBSET Ops /\ {} \in SUBSET Ops
      BY DEF TypeOK
    <3>3. PICK new : new = {} \cup Failed(pending)
      OBVIOUS
    <3>4. Grown(queue, ready, 1, new)
      BY <2>1, <3>1, <3>2, <3>3, GrownAborted
    <3>5. PICK more : more = new \cup Failed({})
      OBVIOUS
    <3>6. Grown(ready', ready, 1, more) /\ "write" \notin pending'
      <4>1. Grown(ready', ready, 1, new \cup Failed({})) /\ (pending' = {"connect"} \/ pending' = {})
        BY <3>1, <3>2, <3>4, ErrorMoves
      <4> QED
        BY <3>5, <4>1
    <3>7. \A h \in more : ~h.ok
      BY <3>3, <3>5 DEF Failed
    <3>8. \A i \in DOMAIN ready : 1 < i => ~ready[i].ok
      <4>1. 1 \in DOMAIN ready /\ ready[1] = [op |-> "head", ok |-> FALSE]
        BY <2>1, HandleMoves
      <4>2. ~ready[1].ok
        BY <4>1
      <4> QED
        BY <4>1, <4>2 DEF WritesHeld
    <3>9. ASSUME NEW i \in DOMAIN ready'
          PROVE  ~ready'[i].ok
      <4>1. CASE i + 1 \in DOMAIN ready /\ ready'[i] = ready[i + 1]
        <5>1. i \in Nat /\ 1 <= i
          BY <3>6 DEF Grown
        <5> QED
          BY <3>8, <4>1, <5>1
      <4>2. CASE ready'[i] \in more
        BY <3>7, <4>2
      <4> QED
        BY <3>6, <4>1, <4>2, GrownFrom
    <3> QED
      BY <2>1, <3>6, <3>9, WritesOver
  <2>4. CASE open /\ ~connected
    <3>1. Recovery(Tail(ready), pending, open) /\ outbox' = outbox
      BY <1>3, <2>4 DEF Recovery, ErrorCallback, OnHeadFailed
    <3> QED
      BY <2>1, <3>1, ErrorWrites
  <2> QED
    BY <2>2, <2>3, <2>4
<1> QED
  BY <1>1, <1>2, <1>3

LEMMA CallBackWrites ==
  ASSUME TypeOK, Wired, WritesHeld, CallBack
  PROVE  WritesHeld'
<1> USE DEF socketVars, readVars, writeVars, mapVars, callVars, ownerVars, pastVars
<1>0. ready \in Seq(Handler) /\ Grown(ready, ready, 0, {}) /\ UNCHANGED <<connected, outbox>>
  BY GrownSame DEF TypeOK, Handler, CallBack
<1>1. CASE within = "answer"
  <2>1. pending' = Started("head", pending) /\ ready' = Refused("head", ready)
    BY <1>1 DEF CallBack
  <2>2. CASE open
    <3>1. ready' = ready /\ ("write" \in pending' => "write" \in pending)
      BY <2>1, <2>2 DEF Started, Refused
    <3> QED
      BY <1>0, <3>1 DEF WritesHeld, NoWrite
  <2>3. CASE ~open
    <3>1. PICK h : h = [op |-> "head", ok |-> FALSE]
      OBVIOUS
    <3>2. PICK new : new = {} \cup {h}
      OBVIOUS
    <3>3. "head" \in Ops /\ FALSE \in BOOLEAN /\ ~h.ok /\ h # Written /\ h.op # "write"
      BY <3>1 DEF Ops, Written
    <3>4. pending' = pending /\ Grown(ready', ready, 0, new)
      BY <1>0, <2>1, <2>3, <3>1, <3>2, <3>3, GrownAppend DEF Started, Refused
    <3>5. (\A g \in new : ~g.ok) \/ ((\A g \in new : g.ok) /\ \A i \in DOMAIN ready : ready[i].ok)
      BY <3>2, <3>3
    <3>6. \A g \in new : g # Written /\ g.op # "write"
      BY <3>2, <3>3
    <3> QED
      BY <1>0, <3>4, <3>5, <3>6, WritesMove
  <2> QED
    BY <2>2, <2>3
<1>2. CASE within = "error"
  BY <1>0, <1>2, ErrorWrites DEF Recovery, ErrorCallback, CallBack, Wired, Linked
<1>3. CASE within \notin {"answer", "error"}
  BY <1>0, <1>3, UntouchedWrites DEF CallBack
<1> QED
  BY <1>1, <1>2, <1>3

(* A read begins after the one before has been handled.                    *)
LEMMA ReadsApart ==
  ASSUME TypeOK, Wired, ~crossed_reads, [Next]_vars
  PROVE  ~crossed_reads'
<1> USE DEF vars, socketVars, readVars, writeVars, mapVars, callVars, ownerVars, pastVars
<1>1. ASSUME NEW c \in Message, Caller(c)
      PROVE  UNCHANGED crossed_reads
  BY <1>1 DEF Caller, Check, Register, Send, GiveUp, Enter
<1>2. Owner => UNCHANGED crossed_reads
  BY DEF Owner, Connect, CloseSocket, ClearOutbox, ClearMaps
<1>3. Network => UNCHANGED crossed_reads
  BY DEF Network, Sent, Swallowed, Publish, HeadArrives, BodyArrives, LinkFails, OperationFails
<1>4. CASE OnConnected
  <2>1. pending \cap Reads = {}
    BY <1>4 DEF OnConnected, Wired, Linked
  <2> QED
    BY <1>4, <2>1 DEF OnConnected, BeingUsed
<1>5. CASE OnHead
  <2>1. pending \cap Reads = {}
    <3>1. Handle("head", TRUE) /\ "head" \in Reads
      BY <1>5 DEF OnHead, Reads
    <3> QED
      BY <3>1, ReadTaken DEF Wired
  <2> QED
    BY <1>5, <2>1 DEF OnHead, BeingUsed
<1>6. CASE CallBack
  <2>1. pending \cap Reads = {}
    BY <1>6 DEF CallBack, Wired, SingleRead
  <2> QED
    BY <1>6, <2>1 DEF CallBack, BeingUsed
<1>7. CASE ResendSubscribe \/ OnConnectFailed \/ OnWritten \/ OnWriteFailed \/ OnHeadFailed \/ OnBody
  BY <1>7 DEF ResendSubscribe, OnConnectFailed, OnWritten, OnWriteFailed, OnHeadFailed, OnBody
<1> QED
  BY <1>1, <1>2, <1>3, <1>4, <1>5, <1>6, <1>7 DEF Next, Alive, IoThread

(* A write begins after the one before has been handled.                   *)
LEMMA WritesApart ==
  ASSUME TypeOK, WritesHeld, ~crossed_writes, [Next]_vars
  PROVE  ~crossed_writes'
<1> USE DEF vars, socketVars, readVars, writeVars, mapVars, callVars, ownerVars, pastVars
<1>0. outbox = <<>> => ~BeingUsed({"write"})
  BY DEF WritesHeld, BeingUsed
<1>1. ASSUME NEW c \in Message, Caller(c)
      PROVE  ~crossed_writes'
  <2>1. CASE Send(c)
    BY <1>0, <2>1 DEF Send, WriterIdle, Write
  <2>2. CASE ~Send(c)
    BY <1>1, <2>2 DEF Caller, Check, Register, GiveUp, Enter
  <2> QED
    BY <2>1, <2>2
<1>2. Owner => UNCHANGED crossed_writes
  BY DEF Owner, Connect, CloseSocket, ClearOutbox, ClearMaps
<1>3. Network => UNCHANGED crossed_writes
  BY DEF Network, Sent, Swallowed, Publish, HeadArrives, BodyArrives, LinkFails, OperationFails
<1>4. CASE ResendSubscribe
  BY <1>0, <1>4 DEF ResendSubscribe, WriterIdle, Write
<1>5. CASE OnWritten
  <2>1. 1 \in DOMAIN ready /\ ready[1] = Written
    BY <1>5, HandleMoves DEF OnWritten, Written
  <2>2. ~BeingUsed({"write"})
    BY <2>1 DEF WritesHeld, BeingUsed
  <2> QED
    BY <1>5, <2>2 DEF OnWritten, Write
<1>6. CASE OnConnected \/ OnConnectFailed \/ OnWriteFailed \/ OnHead \/ OnHeadFailed \/ OnBody \/ CallBack
  BY <1>6 DEF OnConnected, OnConnectFailed, OnWriteFailed, OnHead, OnHeadFailed, OnBody, CallBack
<1> QED
  BY <1>1, <1>2, <1>3, <1>4, <1>5, <1>6 DEF Next, Alive, IoThread

LEMMA NextWrites ==
  ASSUME TypeOK, Wired, Writes, [Next]_vars, ~hasty'
  PROVE  Writes'
<1> USE DEF vars, socketVars, readVars, writeVars, mapVars, callVars, ownerVars, pastVars
<1>1. ASSUME NEW c \in Message, Caller(c)
      PROVE  UNCHANGED <<user_closed, swallowed>>
  BY <1>1 DEF Caller, Check, Register, Send, GiveUp, Enter
<1>2. Owner => swallowed' = swallowed /\ (user_closed => user_closed')
  BY DEF Owner, Connect, CloseSocket, ClearOutbox, ClearMaps
<1>3. Network => user_closed' = user_closed /\ (swallowed => swallowed')
  BY DEF Network, Sent, Swallowed, Publish, HeadArrives, BodyArrives, LinkFails, OperationFails
<1>4. IoThread => UNCHANGED <<user_closed, swallowed>>
  BY DEF IoThread, OnConnected, ResendSubscribe, OnConnectFailed, OnWritten, OnWriteFailed,
         OnHead, OnHeadFailed, OnBody, CallBack
<1>5. (\E c \in Message : Caller(c)) \/ Owner \/ Network \/ IoThread \/ UNCHANGED vars
  BY DEF Next, Alive
<1>6. CASE user_closed \/ swallowed
  BY <1>1, <1>2, <1>3, <1>4, <1>5, <1>6 DEF Writes
<1>7. CASE WritesHeld /\ ~crossed_writes /\ ~user_closed
  <2>1. ~crossed_writes'
    BY <1>7, WritesApart
  <2>2. user_closed' \/ swallowed' \/ WritesHeld'
    <3>1. CASE UNCHANGED vars
      BY <1>7, <3>1, UntouchedWrites
    <3>2. CASE OnWriteFailed
      <4>1. /\ Grown(Tail(ready), ready, 1, {}) /\ Recovery(Tail(ready), pending, open)
            /\ ~connected' /\ outbox' = outbox
        BY <3>2, HandleMoves DEF Recovery, ErrorCallback, OnWriteFailed
      <4> QED
        BY <1>7, <4>1, ErrorWrites
    <3>3. IoThread /\ ~OnWriteFailed => WritesHeld'
      BY <1>7, ConnectWrites, WrittenWrites, ReadWrites, CallBackWrites DEF IoThread
    <3> QED
      BY <1>5, <1>7, <3>1, <3>2, <3>3, CallerWrites, OwnerWrites, NetworkWrites
  <2> QED
    BY <2>1, <2>2 DEF Writes
<1> QED
  BY <1>6, <1>7 DEF Writes

LEMMA AtMostOne ==
  ASSUME NEW S, \A x, y \in S : x = y
  PROVE  Cardinality(S) \in Nat /\ Cardinality(S) <= 1 /\ (S = {} => Cardinality(S) = 0)
<1>1. CASE S = {}
  BY <1>1, FS_EmptySet
<1>2. CASE S # {}
  <2>1. PICK x : S = {x}
    BY <1>2
  <2> QED
    BY <2>1, FS_Singleton
<1> QED
  BY <1>1, <1>2

(* Of these operations at most one is under way or queued.                 *)
LEMMA CountOne ==
  ASSUME NEW ops,
         \A i, j \in DOMAIN ready : ready[i].op \in ops /\ ready[j].op \in ops => i = j,
         \A x, y \in pending \cap ops : x = y,
         pending \cap ops = {} \/ \A i \in DOMAIN ready : ready[i].op \notin ops
  PROVE  Count(ops) <= 1
<1> DEFINE Q == {i \in DOMAIN ready : ready[i].op \in ops}
           P == pending \cap ops
<1>1. Cardinality(Q) \in Nat /\ Cardinality(Q) <= 1 /\ (Q = {} => Cardinality(Q) = 0)
  <2>1. \A x, y \in Q : x = y
    OBVIOUS
  <2> HIDE DEF Q
  <2> QED
    BY <2>1, AtMostOne
<1>2. Cardinality(P) \in Nat /\ Cardinality(P) <= 1 /\ (P = {} => Cardinality(P) = 0)
  <2>1. \A x, y \in P : x = y
    OBVIOUS
  <2> HIDE DEF P
  <2> QED
    BY <2>1, AtMostOne
<1>3. P = {} \/ Q = {}
  OBVIOUS
<1>4. Count(ops) = Cardinality(Q) + Cardinality(P)
  BY DEF Count
<1> HIDE DEF P, Q
<1> QED
  BY <1>1, <1>2, <1>3, <1>4

LEMMA InitWrites ==
  ASSUME Init
  PROVE  Writes /\ ~crossed_reads
  BY DEF Init, Writes, WritesHeld, NoWrite

(* The inductive invariant of the operations: unless connect() was called  *)
(* while handlers were left, a single read and, until the owner closes or  *)
(* a write is swallowed, a single write.                                   *)
THEOREM ClientOperations == Spec => [](TypeOK /\ (hasty \/ InTime))
<1>1. Init => InTime
  BY InitWired, InitWrites DEF Init, InTime
<1>2. ASSUME TypeOK, hasty \/ InTime, [Next]_vars
      PROVE  hasty' \/ InTime'
  <2>1. CASE ~hasty'
    BY <1>2, <2>1, HistoryLasts, NextWired, ReadsApart, NextWrites DEF InTime
  <2> QED
    BY <2>1
<1> QED
  BY <1>1, <1>2, ClientTypes, PTL DEF Spec

(* rpc_client::do_read and write: head_ serves one read at a time, unless  *)
(* connect() was called while handlers were left, and header_ one write,   *)
(* on a connection that besides the owner has not closed and that has      *)
(* swallowed nothing.                                                      *)
THEOREM OperationsOneAtATime == Spec => []OneAtATime
<1>1. ASSUME SingleRead
      PROVE  Count(Reads) <= 1
  <2>1. \A x, y \in pending \cap Reads : x = y
    BY <1>1 DEF SingleRead, Reads
  <2>2. pending \cap Reads = {} \/ \A i \in DOMAIN ready : ready[i].op \notin Reads
    BY <1>1 DEF SingleRead, OpsIn
  <2> QED
    BY <1>1, <2>1, <2>2, CountOne DEF SingleRead, OneRead
<1>2. ASSUME WritesHeld, connected
      PROVE  Count({"write"}) <= 1
  <2>1. \A i, j \in DOMAIN ready : ready[i].op \in {"write"} /\ ready[j].op \in {"write"} => i = j
    BY <1>2 DEF WritesHeld, NoWrite
  <2>2. pending \cap {"write"} = {} \/ \A i \in DOMAIN ready : ready[i].op \notin {"write"}
    BY <1>2 DEF WritesHeld, NoWrite
  <2>3. \A x, y \in pending \cap {"write"} : x = y
    OBVIOUS
  <2> QED
    BY <2>1, <2>2, <2>3, CountOne
<1>3. hasty \/ InTime => OneAtATime
  BY <1>1, <1>2 DEF InTime, Wired, Writes, OneAtATime
<1> QED
  BY <1>3, ClientOperations, PTL
-----------------------------------------------------------------------------
(* The answers. A call that can still be answered, or has yet to be, is in *)
(* one of the maps, unless it was forgotten.                               *)
Arrived   == [op |-> "head", ok |-> TRUE]
Delivered == [op |-> "body", ok |-> TRUE]
In(handler, queue) == \E i \in DOMAIN queue : queue[i] = handler

(* How far a read has come: its body is next, or it is being delivered.    *)
Fetched == within \in Deliveries \/ Outstanding("body")
Stage == Fetched \/ In(Arrived, ready)
Answering == within = "answer" \/ In(Delivered, ready)

Kept == futures \cup callbacks \cup orphans
Underway(c) == header = c /\ "write" \in pending
Answerable(c) == Among(c, server.output) \/ (c = reading /\ Stage)
Needed(c) == phase[c] = "registered" \/ Among(c, outbox) \/ Underway(c) \/ Answerable(c)

Distinct(queue) == \A i, j \in DOMAIN queue : queue[i] = queue[j] /\ queue[i] \in Call => i = j
Behind(c, queue) == \E i \in DOMAIN queue : i # 1 /\ queue[i] = c

NotSent == \A c \in Call : phase[c] # "sent" =>
             ~Among(c, outbox) /\ header # c /\ ~Among(c, server.output) /\ reading # c
InTurn == \A c \in Call : /\ Behind(c, outbox) => ~Underway(c) /\ ~Answerable(c)
                          /\ Underway(c) => ~Answerable(c)

(* The write of a call that can be answered ended well, and before the     *)
(* head of its answer arrived.                                             *)
Acknowledged(c) ==
  \E i \in DOMAIN ready :
    /\ ready[i] = Written
    /\ c = reading /\ Stage => ~Fetched /\ \A j \in DOMAIN ready : ready[j] = Arrived => i < j

Answers ==
  /\ NotSent /\ InTurn /\ Distinct(outbox) /\ Distinct(server.output)
  /\ \A c \in Call : Among(c, outbox) /\ Answerable(c) => Acknowledged(c)
  /\ Answering /\ reading \in Call => ~Among(reading, server.output)
  /\ \A c \in Call : Needed(c) => c \in Kept
  /\ Stage => reading \in Message

(* What a queue of messages keeps when calls leave it.                     *)
CallsLeft(queue, was) ==
  /\ Distinct(queue)
  /\ \A c \in Call : /\ Among(c, queue) => Among(c, was)
                     /\ Behind(c, queue) => Behind(c, was)

LEMMA SameCalls ==
  ASSUME NEW queue, Distinct(queue)
  PROVE  CallsLeft(queue, queue)
  BY DEF CallsLeft

LEMMA NoCalls ==
  ASSUME NEW queue
  PROVE  CallsLeft(<<>>, queue)
  BY DEF CallsLeft, Distinct, Among, Behind

LEMMA TailCalls ==
  ASSUME NEW queue \in Seq(Message), queue # <<>>, Distinct(queue)
  PROVE  /\ CallsLeft(Tail(queue), queue)
         /\ \A c \in Call : Among(c, Tail(queue)) => Behind(c, queue) /\ c # Head(queue)
<1>1. /\ \A i \in DOMAIN Tail(queue) : /\ i \in Nat /\ i + 1 \in DOMAIN queue /\ i + 1 # 1
                                       /\ Tail(queue)[i] = queue[i + 1]
      /\ 1 \in DOMAIN queue /\ Head(queue) = queue[1]
  OBVIOUS
<1>2. Distinct(Tail(queue))
  <2> SUFFICES ASSUME NEW i \in DOMAIN Tail(queue), NEW j \in DOMAIN Tail(queue),
                      Tail(queue)[i] = Tail(queue)[j], Tail(queue)[i] \in Call
               PROVE  i = j
    BY DEF Distinct
  <2>1. i + 1 = j + 1
    BY <1>1 DEF Distinct
  <2> QED
    BY <1>1, <2>1
<1>3. \A c \in Call : Among(c, Tail(queue)) => Behind(c, queue)
  BY <1>1 DEF Among, Behind
<1>4. \A c \in Call : Behind(c, queue) => c # Head(queue) /\ Among(c, queue)
  BY <1>1 DEF Behind, Distinct, Among
<1>5. \A c \in Call : Behind(c, Tail(queue)) => Among(c, Tail(queue))
  BY DEF Behind, Among
<1> QED
  BY <1>2, <1>3, <1>4, <1>5 DEF CallsLeft

LEMMA MoreMessages ==
  ASSUME NEW queue \in Seq(Message), Distinct(queue),
         NEW messages \in Seq(Message), \A i \in DOMAIN messages : messages[i] \notin Call
  PROVE  CallsLeft(queue \o messages, queue)
<1>1. \A i \in DOMAIN (queue \o messages) :
        (queue \o messages)[i] \in Call => i \in DOMAIN queue /\ (queue \o messages)[i] = queue[i]
  <2> SUFFICES ASSUME NEW i \in DOMAIN (queue \o messages), (queue \o messages)[i] \in Call
               PROVE  i \in DOMAIN queue /\ (queue \o messages)[i] = queue[i]
    OBVIOUS
  <2>1. CASE i <= Len(queue)
    BY <2>1
  <2>2. CASE i > Len(queue)
    <3>1. i - Len(queue) \in DOMAIN messages /\ (queue \o messages)[i] = messages[i - Len(queue)]
      BY <2>2
    <3> QED
      BY <3>1
  <2> QED
    BY <2>1, <2>2
<1> DEFINE all == queue \o messages
<1>2. \A i \in DOMAIN all : all[i] \in Call => i \in DOMAIN queue /\ all[i] = queue[i]
  BY <1>1
<1> HIDE DEF all
<1>3. CallsLeft(all, queue)
  BY <1>2 DEF CallsLeft, Distinct, Among, Behind
<1> QED
  BY <1>3 DEF all

(* A step that begins no read and delivers nothing.                        *)
LEMMA StageKept ==
  ASSUME NEW k, NEW new, Grown(ready', ready, k, new),
         \A h \in new : h # Arrived /\ h # Delivered /\ (h.op = "body" => "body" \in pending),
         "body" \in pending' => "body" \in pending,
         within' = within \/ within' \in {"no", "resend"}
  PROVE  /\ Stage' => Stage
         /\ Fetched' => Fetched
         /\ Answering' => Answering
<1>1. ASSUME NEW h, h \notin new, In(h, ready')
      PROVE  In(h, ready)
  BY <1>1, GrownFrom DEF In
<1>2. Arrived \notin new /\ Delivered \notin new
  OBVIOUS
<1>3. Outstanding("body")' => Outstanding("body")
  <2>1. ASSUME NEW i \in DOMAIN ready', ready'[i].op = "body"
        PROVE  Outstanding("body")
    BY <2>1, GrownFrom DEF Outstanding
  <2> QED
    BY <2>1 DEF Outstanding
<1>4. (within' \in Deliveries => within \in Deliveries) /\ (within' = "answer" => within = "answer")
  BY DEF Deliveries
<1>5. Fetched' => Fetched
  BY <1>3, <1>4 DEF Fetched
<1>6. (In(Arrived, ready') => In(Arrived, ready)) /\ (In(Delivered, ready') => In(Delivered, ready))
  BY <1>1, <1>2
<1> QED
  BY <1>4, <1>5, <1>6 DEF Stage, Answering

(* An acknowledgement outlives the steps that do not take it.              *)
LEMMA AcknowledgedKept ==
  ASSUME NEW k, NEW new, Grown(ready', ready, k, new), Arrived \notin new,
         k = 1 => ready[1] # Written \/ outbox' = <<>>, outbox' # <<>>,
         reading' = reading, Stage' => Stage,
         Fetched' => Fetched \/ (k = 1 /\ ready[1] = Arrived),
         NEW c, Acknowledged(c)
  PROVE  Acknowledged(c)'
<1>2. PICK i \in DOMAIN ready :
        /\ ready[i] = Written
        /\ c = reading /\ Stage => ~Fetched /\ \A j \in DOMAIN ready : ready[j] = Arrived => i < j
  BY DEF Acknowledged
<1>3. i # k
  <2>1. i # 0 /\ k \in {0, 1}
    BY <1>2 DEF Grown
  <2>2. i # 1 \/ k # 1
    BY <1>2
  <2> QED
    BY <2>1, <2>2
<1>4. i - k \in DOMAIN ready' /\ ready'[i - k] = Written
  BY <1>2, <1>3, GrownTo
<1>5. ASSUME c = reading', Stage'
      PROVE  ~Fetched' /\ \A j \in DOMAIN ready' : ready'[j] = Arrived => i - k < j
  <2>1. ~Fetched /\ \A j \in DOMAIN ready : ready[j] = Arrived => i < j
    BY <1>2, <1>5
  <2>2. ~(k = 1 /\ ready[1] = Arrived)
    <3>1. i \in Nat /\ i >= 1 /\ 1 \in DOMAIN ready
      BY <1>2 DEF Grown
    <3> QED
      BY <2>1, <3>1
  <2>3. ASSUME NEW j \in DOMAIN ready', ready'[j] = Arrived
        PROVE  i - k < j
    <3>1. j + k \in DOMAIN ready /\ ready[j + k] = Arrived /\ j \in Nat /\ k \in {0, 1}
      BY <2>3, GrownFrom
    <3>2. i < j + k /\ i \in Nat
      BY <1>2, <2>1, <3>1 DEF Grown
    <3> QED
      BY <3>1, <3>2
  <2> QED
    BY <2>1, <2>2, <2>3
<1> QED
  BY <1>4, <1>5 DEF Acknowledged

(* A step after which no call can be answered that could not be before.    *)
LEMMA AnswersKept ==
  ASSUME Answers, NEW k, NEW new, Grown(ready', ready, k, new),
         Arrived \notin new, k = 1 => ready[1] # Written \/ outbox' = <<>>,
         reading' = reading,
         \A c \in Call : header' = c => header = c,
         \A c \in Call : phase'[c] = phase[c] \/ (phase[c] # "sent" /\ phase'[c] # "sent"),
         \A c \in Call : Underway(c)' => Underway(c),
         CallsLeft(outbox', outbox), CallsLeft(server'.output, server.output),
         Stage' => Stage, Fetched' => Fetched \/ (k = 1 /\ ready[1] = Arrived),
         Answering' /\ reading \in Call => Answering \/ ~Among(reading, server'.output),
         \A c \in Call : Needed(c)' => c \in Kept'
  PROVE  Answers'
<1>1. \A c \in Call : Answerable(c)' => Answerable(c)
  BY DEF Answerable, CallsLeft, Among
<1>2. NotSent'
  BY DEF Answers, NotSent, CallsLeft, Among
<1>3. InTurn'
  BY <1>1 DEF Answers, InTurn, CallsLeft, Behind
<1>4. Distinct(outbox)' /\ Distinct(server.output)'
  BY DEF CallsLeft, Distinct
<1>5. ASSUME NEW c \in Call, Among(c, outbox)', Answerable(c)'
      PROVE  Acknowledged(c)'
  <2>1. Acknowledged(c) /\ outbox' # <<>>
    BY <1>1, <1>5 DEF Answers, CallsLeft, Among
  <2> QED
    BY <2>1, AcknowledgedKept
<1>6. Answering' /\ reading' \in Call => ~Among(reading', server'.output)
  BY DEF Answers, CallsLeft
<1>7. Stage' => reading' \in Message
  BY DEF Answers
<1> QED
  BY <1>2, <1>3, <1>4, <1>5, <1>6, <1>7 DEF Answers, Among

(* Most steps begin no read, no write of a call and leave `reading` alone. *)
LEMMA AnswersQuiet ==
  ASSUME Answers, NEW k, NEW new, Grown(ready', ready, k, new),
         k = 1 => ready[1] # Written \/ outbox' = <<>>,
         \A h \in new : h # Arrived /\ h # Delivered /\ (h.op = "body" => "body" \in pending),
         "body" \in pending' => "body" \in pending,
         within' = within \/ within' \in {"no", "resend"},
         reading' = reading,
         \A c \in Call : header' = c => header = c /\ ("write" \in pending' => "write" \in pending),
         \A c \in Call : phase'[c] = phase[c] \/ (phase[c] # "sent" /\ phase'[c] # "sent"),
         CallsLeft(outbox', outbox), CallsLeft(server'.output, server.output),
         \A c \in Call : phase'[c] = "registered" => phase[c] = "registered" \/ c \in Kept',
         \A c \in Call : Needed(c)' /\ c \in Kept => c \in Kept'
  PROVE  Answers'
<1>1. /\ Stage' => Stage
      /\ Fetched' => Fetched
      /\ Answering' => Answering
  BY StageKept
<1>2. \A c \in Call : Underway(c)' => Underway(c)
  BY DEF Underway
<1>3. \A c \in Call : Answerable(c)' => Answerable(c)
  BY <1>1 DEF Answerable, CallsLeft, Among
<1>4. \A c \in Call : Needed(c)' => c \in Kept'
  <2> SUFFICES ASSUME NEW c \in Call, Needed(c)'
               PROVE  c \in Kept'
    OBVIOUS
  <2>1. Needed(c) \/ c \in Kept'
    <3>1. Among(c, outbox)' => Among(c, outbox)
      BY DEF CallsLeft, Among
    <3> QED
      BY <1>2, <1>3, <3>1 DEF Needed
  <2> QED
    BY <2>1 DEF Answers
<1>5. Arrived \notin new
  OBVIOUS
<1> QED
  BY <1>1, <1>2, <1>4, <1>5, AnswersKept

LEMMA AnswersStill ==
  ASSUME TypeOK, Answers, UNCHANGED <<socketVars, readVars, header>>,
         outbox' = outbox \/ outbox' = <<>>,
         \A c \in Call : phase'[c] = phase[c] \/ (phase[c] # "sent" /\ phase'[c] # "sent"),
         \A c \in Call : phase'[c] = "registered" => phase[c] = "registered" \/ c \in Kept',
         \A c \in Call : Needed(c)' /\ c \in Kept => c \in Kept'
  PROVE  Answers'
<1>1. Grown(ready, ready, 0, {})
  BY GrownSame DEF TypeOK, Handler
<1>2. CallsLeft(outbox', outbox) /\ CallsLeft(server.output, server.output)
  BY SameCalls, NoCalls DEF Answers
<1> QED
  BY <1>1, <1>2, AnswersQuiet DEF socketVars, readVars

LEMMA UntouchedAnswers ==
  ASSUME TypeOK, Answers,
         UNCHANGED <<socketVars, readVars, writeVars, phase, futures, callbacks, orphans>>
  PROVE  Answers'
<1>1. Kept' = Kept
  BY DEF Kept
<1> QED
  BY <1>1, AnswersStill DEF writeVars

LEMMA SendAnswers ==
  ASSUME TypeOK, Answers, NEW c \in Message, Send(c)
  PROVE  Answers'
<1> USE DEF socketVars, readVars, writeVars, mapVars, callVars, ownerVars, pastVars
<1>1. /\ outbox \in Seq(Message) /\ outbox' = Append(outbox, c) /\ phase \in [Message -> {"idle", "checked", "registered", "sent", "done"}]
      /\ phase[c] \in {"idle", "registered"} /\ phase' = [phase EXCEPT ![c] = "sent"]
      /\ c \in Call => phase[c] = "registered"
      /\ UNCHANGED <<server, reading, within, futures, callbacks, orphans>>
  BY ClientAssumption DEF Send, TypeOK, Call, Message
<1>2. Grown(ready, ready, 0, {})
  BY GrownSame DEF TypeOK, Handler
<1>3. PICK new : /\ Grown(ready', ready, 0, new) /\ \A h \in new : ~h.ok /\ h.op = "write"
                 /\ "body" \in pending' => "body" \in pending
                 /\ (outbox = <<>> /\ header' = c) \/ (header' = header /\ pending' = pending)
  <2>1. CASE WriterIdle
    <3>1. Write(c, ready) /\ outbox = <<>> /\ header' = c
      BY <2>1 DEF Send, WriterIdle, Write
    <3>2. /\ Grown(ready', ready, 0, {} \cup Refusal("write"))
          /\ pending' = IF open THEN pending \cup {"write"} ELSE pending
      BY <1>2, <3>1, WriteMoves
    <3>3. \A h \in {} \cup Refusal("write") : ~h.ok /\ h.op = "write"
      BY DEF Refusal, Failed
    <3> QED
      BY <3>1, <3>2, <3>3
  <2>2. CASE ~WriterIdle
    <3>1. UNCHANGED <<header, pending, ready>>
      BY <2>2 DEF Send
    <3> QED
      BY <1>2, <3>1
  <2> QED
    BY <2>1, <2>2
<1>4. \A h \in new : h # Arrived /\ h # Delivered /\ h # Written /\ h.op # "body"
  BY <1>3 DEF Arrived, Delivered, Written
<1>5. /\ Stage' => Stage
      /\ Fetched' => Fetched
      /\ Answering' => Answering
  BY <1>1, <1>3, <1>4, StageKept
(* A call that is sent has been neither sent nor answered.                 *)
<1>6. c \in Call => /\ ~Among(c, outbox) /\ header # c /\ ~Among(c, server.output) /\ reading # c
                    /\ ~Answerable(c) /\ ~Answerable(c)'
  BY <1>1, <1>5 DEF Answers, NotSent, Answerable
<1>7. \A d \in Call : Answerable(d)' => Answerable(d)
  BY <1>1, <1>5 DEF Answerable
<1>8. \A i \in DOMAIN outbox' : \/ i \in DOMAIN outbox /\ outbox'[i] = outbox[i]
                                \/ i = Len(outbox) + 1 /\ outbox'[i] = c
  BY <1>1
<1>9. \A d \in Call : Among(d, outbox)' => Among(d, outbox) \/ d = c
  BY <1>8 DEF Among
<1>10. NotSent'
  <2> SUFFICES ASSUME NEW d \in Call, phase'[d] # "sent"
               PROVE  ~Among(d, outbox)' /\ header' # d /\ ~Among(d, server.output)' /\ reading' # d
    BY DEF NotSent
  <2>1. d # c /\ phase[d] # "sent"
    BY <1>1 DEF Call, Message
  <2> QED
    BY <1>1, <1>3, <1>9, <2>1 DEF Answers, NotSent, Among
<1>11. Distinct(outbox)'
  <2> SUFFICES ASSUME NEW i \in DOMAIN outbox', NEW j \in DOMAIN outbox',
                      outbox'[i] = outbox'[j], outbox'[i] \in Call
               PROVE  i = j
    BY DEF Distinct
  <2>1. CASE i \in DOMAIN outbox /\ j \in DOMAIN outbox /\ outbox'[i] = outbox[i] /\ outbox'[j] = outbox[j]
    BY <2>1 DEF Answers, Distinct
  <2> QED
    BY <1>6, <1>8, <2>1 DEF Among
<1>12. InTurn'
  <2> SUFFICES ASSUME NEW d \in Call
               PROVE  /\ Behind(d, outbox)' => ~Underway(d)' /\ ~Answerable(d)'
                      /\ Underway(d)' => ~Answerable(d)'
    BY DEF InTurn
  <2>1. Underway(d)' => ~Answerable(d)'
    BY <1>3, <1>6, <1>7 DEF Underway, Answers, InTurn
  <2>2. ASSUME Behind(d, outbox)'
        PROVE  ~Underway(d)' /\ ~Answerable(d)'
    <3>1. outbox # <<>> /\ header' = header /\ pending' = pending
      <4>1. outbox # <<>>
        BY <1>1, <1>8, <2>2 DEF Behind
      <4> QED
        BY <1>3, <4>1
    <3>2. Behind(d, outbox) \/ d = c
      BY <1>8, <2>2 DEF Behind
    <3> QED
      BY <1>6, <1>7, <3>1, <3>2 DEF Answers, InTurn, Underway
  <2> QED
    BY <2>1, <2>2
<1>13. ASSUME NEW d \in Call, Among(d, outbox)', Answerable(d)'
       PROVE  Acknowledged(d)'
  <2>1. Acknowledged(d)
    BY <1>6, <1>7, <1>9, <1>13 DEF Answers
  <2>2. outbox' # <<>>
    BY <1>1
  <2> QED
    BY <1>1, <1>3, <1>4, <1>5, <2>1, <2>2, AcknowledgedKept
<1>14. \A d \in Call : Needed(d)' => d \in Kept'
  <2> SUFFICES ASSUME NEW d \in Call, Needed(d)'
               PROVE  Needed(d)
    BY <1>1 DEF Answers, Kept
  <2>1. CASE d = c
    BY <1>1, <2>1 DEF Needed
  <2>2. CASE d # c
    <3>1. phase'[d] = phase[d] /\ (Underway(d)' => Underway(d))
      BY <1>1, <1>3, <2>2 DEF Underway, Call, Message
    <3> QED
      BY <1>7, <1>9, <2>2, <3>1 DEF Needed
  <2> QED
    BY <2>1, <2>2
<1>15. /\ Distinct(server.output)' /\ (Stage' => reading' \in Message)
       /\ Answering' /\ reading' \in Call => ~Among(reading, server.output)'
  BY <1>1, <1>5 DEF Answers, Distinct, Among
<1> QED
  BY <1>10, <1>11, <1>12, <1>13, <1>14, <1>15 DEF Answers

LEMMA CallerAnswers ==
  ASSUME TypeOK, Answers, NEW c \in Message, Caller(c)
  PROVE  Answers'
<1> USE DEF socketVars, readVars, writeVars, mapVars, callVars, ownerVars, pastVars
<1>0. phase \in [Message -> {"idle", "checked", "registered", "sent", "done"}] /\ Call \subseteq Message
  BY DEF TypeOK, Message
<1>1. CASE Check(c)
  <2>1. /\ phase' = [phase EXCEPT ![c] = IF connected THEN "checked" ELSE "done"] /\ phase[c] = "idle"
        /\ Kept' = Kept /\ UNCHANGED <<socketVars, readVars, writeVars>>
    BY <1>1 DEF Check, Kept
  <2>2. /\ \A d \in Call : phase'[d] = phase[d] \/ (phase[d] # "sent" /\ phase'[d] # "sent")
        /\ \A d \in Call : phase'[d] = "registered" => phase[d] = "registered"
    BY <1>0, <2>1
  <2> QED
    BY <2>1, <2>2, AnswersStill
<1>2. CASE Register(c)
  <2>1. /\ phase' = [phase EXCEPT ![c] = "registered"] /\ phase[c] \in {"idle", "checked"}
        /\ UNCHANGED <<socketVars, readVars, writeVars>>
    BY <1>2 DEF Register
  <2>2. Kept \subseteq Kept' /\ (c \in Call => c \in Kept')
    BY <1>2 DEF Register, Kept, Call
  <2>3. /\ \A d \in Call : phase'[d] = phase[d] \/ (phase[d] # "sent" /\ phase'[d] # "sent")
        /\ \A d \in Call : phase'[d] = "registered" => phase[d] = "registered" \/ d \in Kept'
    BY <1>0, <2>1, <2>2
  <2> QED
    BY <2>1, <2>2, <2>3, AnswersStill
<1>3. CASE GiveUp(c)
  BY <1>3, UntouchedAnswers DEF GiveUp
<1>4. CASE Enter(c)
  <2>1. /\ phase' = [phase EXCEPT ![c] = "done"] /\ c \notin Call
        /\ Kept' = Kept /\ UNCHANGED <<socketVars, readVars, writeVars>>
    BY <1>4, ClientAssumption DEF Enter, Kept, Call
  <2>2. \A d \in Call : phase'[d] = phase[d]
    BY <1>0, <2>1
  <2> QED
    BY <2>1, <2>2, AnswersStill
<1>5. CASE Send(c)
  BY <1>5, SendAnswers
<1> QED
  BY <1>1, <1>2, <1>3, <1>4, <1>5 DEF Caller

LEMMA FreshLeft ==
  ASSUME NEW queue
  PROVE  CallsLeft(Fresh.output, queue)
<1>1. Fresh.output = <<>>
  BY DEF Fresh
<1> QED
  BY <1>1, NoCalls

LEMMA OwnerAnswers ==
  ASSUME TypeOK, Wired, Answers, Owner
  PROVE  Answers'
<1> USE DEF socketVars, readVars, writeVars, mapVars, callVars, ownerVars, pastVars
<1>0. /\ ready \in Seq(Handler) /\ pending \in SUBSET Ops /\ Grown(ready, ready, 0, {})
      /\ CallsLeft(outbox, outbox) /\ CallsLeft(server.output, server.output)
  BY GrownSame, SameCalls DEF TypeOK, Handler, Answers
<1>1. CASE Connect
  <2>1. /\ UNCHANGED <<server, reading, within, header, outbox, phase>> /\ Kept' = Kept
        /\ "body" \in pending' => "body" \in pending
        /\ "write" \in pending' => "write" \in pending
    BY <1>1 DEF Connect, Kept
  <2>2. PICK new : /\ Grown(ready', ready, 0, new)
                   /\ \A h \in new : h = [op |-> "connect", ok |-> FALSE]
    <3>1. CASE ready' = Append(ready, [op |-> "connect", ok |-> FALSE])
      <4>1. ready' = Append(ready, [op |-> "connect", ok |-> FALSE]) /\ "connect" \in Ops
        BY <3>1 DEF Ops
      <4>2. Grown(ready', ready, 0, {} \cup {[op |-> "connect", ok |-> FALSE]})
        BY <1>0, <4>1, GrownAppend
      <4> QED
        BY <4>2
    <3>2. CASE ready' = ready
      BY <1>0, <3>2
    <3> QED
      BY <1>1, <3>1, <3>2 DEF Connect
  <2>3. \A h \in new : h # Arrived /\ h # Delivered /\ h.op # "body"
    BY <2>2 DEF Arrived, Delivered
  <2> QED
    BY <1>0, <2>1, <2>2, <2>3, AnswersQuiet
<1>2. CASE CloseSocket
  <2>1. /\ UNCHANGED <<reading, within, header, outbox, phase>> /\ Kept' = Kept /\ server' = Fresh
        /\ pending' = {} /\ ready' = ready \o Aborted(pending)
    BY <1>2 DEF CloseSocket, Kept
  <2>2. PICK new : new = {} \cup Failed(pending)
    OBVIOUS
  <2>3. Grown(ready', ready, 0, new)
    BY <1>0, <2>1, <2>2, GrownAborted
  <2>4. \A h \in new : h # Arrived /\ h # Delivered /\ (h.op = "body" => "body" \in pending)
    BY <2>2 DEF Arrived, Delivered, Failed
  <2>5. CallsLeft(server'.output, server.output)
    BY <2>1, FreshLeft
  <2> QED
    BY <1>0, <2>1, <2>3, <2>4, <2>5, AnswersQuiet
<1>3. CASE ClearOutbox
  <2>1. UNCHANGED <<socketVars, readVars, header, phase>> /\ Kept' = Kept /\ outbox' = <<>>
    BY <1>3 DEF ClearOutbox, Kept
  <2> QED
    BY <2>1, AnswersStill
<1>4. CASE ClearMaps
  <2>1. UNCHANGED <<socketVars, readVars, writeVars, phase>> /\ orphans' = orphans \cup Forgotten(outbox)
    BY <1>4 DEF ClearMaps
  <2>2. ASSUME NEW c \in Call, Needed(c)', c \in Kept
        PROVE  c \in Kept'
    <3>1. Needed(c)
      BY <2>1, <2>2 DEF Needed, Underway, Answerable, Among, Stage, Fetched, In, Outstanding
    <3>2. c \in futures \cup callbacks => c \in Forgotten(outbox)
      BY <3>1 DEF Needed, Forgotten, Underway, Answerable, BeingRead, Stage, Fetched, In, Arrived
    <3> QED
      BY <2>1, <2>2, <3>2 DEF Kept
  <2> QED
    BY <2>1, <2>2, AnswersStill
<1> QED
  BY <1>1, <1>2, <1>3, <1>4 DEF Owner

LEMMA SentAnswers ==
  ASSUME TypeOK, Answers, Sent
  PROVE  Answers'
<1> USE DEF socketVars, readVars, writeVars, mapVars, callVars, ownerVars, pastVars
<1>1. /\ "write" \in pending /\ pending' = pending \ {"write"} /\ ready' = Append(ready, Written)
      /\ UNCHANGED <<reading, within, outbox, header, phase>> /\ Kept' = Kept
  BY DEF Sent, Written, Kept
<1>2. /\ ready \in Seq(Handler) /\ Grown(ready, ready, 0, {}) /\ Written \in Handler
      /\ server.output \in Seq(Message)
  BY GrownSame DEF TypeOK, Handler, Written, Ops
<1>3. PICK new : new = {} \cup {Written}
  OBVIOUS
<1>4. Grown(ready', ready, 0, new)
  BY <1>1, <1>2, <1>3, GrownAppend DEF Written, Ops
<1>5. \A h \in new : h # Arrived /\ h # Delivered /\ h.op # "body"
  BY <1>3 DEF Written, Arrived, Delivered
<1>6. /\ Stage' => Stage
      /\ Fetched' => Fetched
      /\ Answering' => Answering
  BY <1>1, <1>4, <1>5, StageKept
(* The call whose write ends can be answered from now on.                  *)
<1>7. CASE header \in Call
  <2>1. server'.output = Append(server.output, header) /\ header \in Message
    <3>1. server' = [server EXCEPT !.output = Append(@, header)]
      BY <1>7 DEF Sent
    <3>2. server \in [output : Seq(Message), keys : SUBSET Subscription]
      BY DEF TypeOK
    <3> QED
      BY <1>7, <3>1, <3>2 DEF Message
  <2>2. \A i \in DOMAIN server'.output :
          \/ i \in DOMAIN server.output /\ server'.output[i] = server.output[i]
          \/ i = Len(server.output) + 1 /\ server'.output[i] = header
    BY <1>2, <2>1
  <2>3. Underway(header) /\ ~Answerable(header) /\ ~Behind(header, outbox)
    BY <1>1, <1>7 DEF Underway, Answers, InTurn
  <2>4. \A c \in Call : Answerable(c)' => Answerable(c) \/ c = header
    BY <1>1, <1>6, <2>2 DEF Answerable, Among
  <2>5. NotSent'
    BY <1>1, <2>2 DEF Answers, NotSent, Among
  <2>6. InTurn'
    BY <1>1, <2>3, <2>4 DEF Answers, InTurn, Underway
  <2>7. Distinct(server'.output)
    <3> SUFFICES ASSUME NEW i \in DOMAIN server'.output, NEW j \in DOMAIN server'.output,
                        server'.output[i] = server'.output[j], server'.output[i] \in Call
                 PROVE  i = j
      BY DEF Distinct
    <3>1. ~Among(header, server.output)
      BY <2>3 DEF Answerable
    <3> QED
      BY <2>2, <3>1 DEF Answers, Distinct, Among
  <2>8. ASSUME NEW c \in Call, Among(c, outbox'), Answerable(c)'
        PROVE  Acknowledged(c)'
    <3>1. CASE c = header
      <4>1. Len(ready) + 1 \in DOMAIN ready' /\ ready'[Len(ready) + 1] = Written
        BY <1>1, <1>2
      <4>2. ~(c = reading /\ Stage)
        BY <2>3, <3>1 DEF Answerable
      <4> QED
        BY <1>1, <1>6, <4>1, <4>2 DEF Acknowledged
    <3>2. CASE c # header
      <4>1. Acknowledged(c) /\ outbox' # <<>>
        BY <1>1, <2>4, <2>8, <3>2 DEF Answers, Among
      <4> QED
        BY <1>1, <1>4, <1>5, <1>6, <4>1, AcknowledgedKept
    <3> QED
      BY <3>1, <3>2
  <2>9. Answering' /\ reading' \in Call => ~Among(reading', server'.output)
    <3>1. ASSUME Answering, reading \in Call
          PROVE  reading # header /\ ~Among(reading, server.output)
      <4>1. Stage
        BY <3>1 DEF Answering, Stage, Fetched, Deliveries, In, Delivered, Outstanding
      <4> QED
        BY <2>3, <3>1, <4>1 DEF Answers, Answerable
    <3> QED
      BY <1>1, <1>6, <2>2, <3>1 DEF Among
  <2>10. \A c \in Call : Needed(c)' => c \in Kept'
    <3> SUFFICES ASSUME NEW c \in Call, Needed(c)'
                 PROVE  Needed(c)
      BY <1>1 DEF Answers
    <3>1. Underway(c)' => Underway(c)
      BY <1>1 DEF Underway
    <3> QED
      BY <1>1, <2>3, <2>4, <3>1 DEF Needed, Among
  <2> QED
    BY <1>1, <1>6, <2>5, <2>6, <2>7, <2>8, <2>9, <2>10 DEF Answers, Distinct, Among
<1>8. CASE header \notin Call
  <2>1. server'.output = server.output
    <3>1. server' = [server EXCEPT !.keys = @ \cup {header}]
      BY <1>8 DEF Sent
    <3>2. server \in [output : Seq(Message), keys : SUBSET Subscription]
      BY DEF TypeOK
    <3> QED
      BY <3>1, <3>2
  <2>2. CallsLeft(outbox, outbox) /\ CallsLeft(server.output, server.output)
    BY SameCalls DEF Answers
  <2> QED
    BY <1>1, <1>4, <1>5, <2>1, <2>2, AnswersQuiet
<1> QED
  BY <1>7, <1>8

(* The head of the first answer arrives: no other is being read.           *)
LEMMA HeadArrivesAnswers ==
  ASSUME TypeOK, Wired, Answers, HeadArrives
  PROVE  Answers'
<1> USE DEF socketVars, readVars, writeVars, mapVars, callVars, ownerVars, pastVars
<1>1. /\ "head" \in pending /\ pending' = pending \ {"head"} /\ ready' = Append(ready, Arrived)
      /\ server.output # <<>> /\ reading' = Head(server.output)
      /\ UNCHANGED <<server, within, outbox, header, phase>> /\ Kept' = Kept
  BY DEF HeadArrives, Arrived, Kept
<1>2. /\ ready \in Seq(Handler) /\ Arrived \in Handler
      /\ server.output \in Seq(Message)
  BY DEF TypeOK, Handler, Arrived, Ops
<1>3. \A i \in DOMAIN ready' : \/ i \in DOMAIN ready /\ ready'[i] = ready[i]
                               \/ i = Len(ready) + 1 /\ ready'[i] = Arrived
  BY <1>1, <1>2
<1>4. \A i \in DOMAIN ready : i \in DOMAIN ready' /\ ready'[i] = ready[i] /\ i < Len(ready) + 1
  BY <1>1, <1>2
<1>5. ~Stage /\ ~Fetched' /\ ~Answering'
  <2>1. "body" \notin pending /\ within \notin Deliveries /\ \A i \in DOMAIN ready : ready[i].op \notin Reads
    BY <1>1 DEF Wired, SingleRead, Reads, OpsIn
  <2>2. \A i \in DOMAIN ready' : ready'[i].op # "body"
    BY <1>3, <2>1 DEF Arrived, Reads
  <2>3. ~Stage
    BY <2>1 DEF Stage, Fetched, In, Arrived, Outstanding, Reads
  <2>4. ~Fetched'
    BY <1>1, <2>1, <2>2 DEF Fetched, Outstanding
  <2>5. ~Answering'
    BY <1>1, <2>1, <2>2 DEF Answering, In, Delivered, Deliveries
  <2> QED
    BY <2>3, <2>4, <2>5
<1>6. reading' \in Message /\ Among(reading', server.output)
  <2>1. 1 \in DOMAIN server.output /\ reading' = server.output[1]
    BY <1>1, <1>2
  <2> QED
    BY <1>2, <2>1 DEF Among
<1>7. \A c \in Call : Answerable(c)' => Among(c, server.output)
  BY <1>1, <1>6 DEF Answerable
<1>8. NotSent'
  BY <1>1, <1>6 DEF Answers, NotSent
<1>9. InTurn'
  BY <1>1, <1>7 DEF Answers, InTurn, Underway, Answerable
<1>10. ASSUME NEW c \in Call, Among(c, outbox), Answerable(c)'
       PROVE  Acknowledged(c)'
  <2>1. Acknowledged(c)
    BY <1>7, <1>10 DEF Answers, Answerable
  <2>2. PICK i \in DOMAIN ready : ready[i] = Written
    BY <2>1 DEF Acknowledged
  <2>3. i \in DOMAIN ready' /\ ready'[i] = Written /\ i < Len(ready) + 1
    BY <1>4, <2>2
  <2>4. \A j \in DOMAIN ready' : ready'[j] = Arrived => j = Len(ready) + 1
    BY <1>3, <1>5 DEF Stage, In
  <2> QED
    BY <1>5, <2>3, <2>4 DEF Acknowledged
<1>11. \A c \in Call : Needed(c)' => c \in Kept'
  <2> SUFFICES ASSUME NEW c \in Call, Needed(c)'
               PROVE  Needed(c)
    BY <1>1 DEF Answers
  <2>1. Underway(c)' => Underway(c)
    BY <1>1 DEF Underway
  <2> QED
    BY <1>1, <1>7, <2>1 DEF Needed, Answerable
<1> QED
  BY <1>1, <1>5, <1>6, <1>8, <1>9, <1>10, <1>11 DEF Answers

LEMMA NetworkAnswers ==
  ASSUME TypeOK, Wired, Answers, Network
  PROVE  Answers'
<1> USE DEF socketVars, readVars, writeVars, mapVars, callVars, ownerVars, pastVars
<1>0. /\ ready \in Seq(Handler) /\ pending \in SUBSET Ops /\ Grown(ready, ready, 0, {})
      /\ CallsLeft(outbox, outbox) /\ CallsLeft(server.output, server.output)
      /\ server \in [output : Seq(Message), keys : SUBSET Subscription]
  BY GrownSame, SameCalls DEF TypeOK, Handler, Answers
<1>1. CASE Swallowed
  <2>1. /\ UNCHANGED <<reading, within, header, outbox, phase, server>> /\ Kept' = Kept
        /\ pending' = pending \ {"write"} /\ ready' = Append(ready, Written)
    BY <1>1 DEF Swallowed, Kept, Written
  <2>2. PICK new : new = {} \cup {Written}
    OBVIOUS
  <2>3. Grown(ready', ready, 0, new)
    BY <1>0, <2>1, <2>2, GrownAppend DEF Written, Ops
  <2>4. \A h \in new : h # Arrived /\ h # Delivered /\ h.op # "body"
    BY <2>2 DEF Arrived, Delivered, Written
  <2> QED
    BY <1>0, <2>1, <2>3, <2>4, AnswersQuiet
<1>2. CASE Publish
  <2>1. /\ UNCHANGED <<pending, ready, reading, within, header, outbox, phase>> /\ Kept' = Kept
    BY <1>2 DEF Publish, Kept
  <2>2. PICK s \in server.keys : server' = [server EXCEPT !.output = Append(@, s)]
    BY <1>2 DEF Publish
  <2>3. s \in Message /\ s \notin Call /\ server'.output = server.output \o <<s>>
    <3>1. s \in Subscription /\ server'.output = Append(server.output, s)
      BY <1>0, <2>2
    <3>2. s \in Message /\ s \notin Call
      BY <3>1, ClientAssumption DEF Message, Call
    <3>3. Append(server.output, s) = server.output \o <<s>>
      BY <1>0, <3>2
    <3> QED
      BY <3>1, <3>2, <3>3
  <2>4. CallsLeft(server'.output, server.output)
    <3>1. /\ server.output \in Seq(Message) /\ <<s>> \in Seq(Message)
          /\ \A i \in DOMAIN <<s>> : <<s>>[i] \notin Call
      BY <1>0, <2>3
    <3> QED
      BY <2>3, <3>1, MoreMessages DEF Answers
  <2> QED
    BY <1>0, <2>1, <2>4, AnswersQuiet
<1>3. CASE BodyArrives
  <2>1. /\ UNCHANGED <<reading, within, header, outbox, phase>> /\ Kept' = Kept
        /\ "body" \in pending /\ pending' = pending \ {"body"} /\ ready' = Append(ready, Delivered)
        /\ server.output # <<>> /\ reading = Head(server.output) /\ server'.output = Tail(server.output)
    BY <1>0, <1>3 DEF BodyArrives, Kept, Delivered
  <2>2. PICK new : new = {} \cup {Delivered}
    OBVIOUS
  <2>3. Grown(ready', ready, 0, new) /\ Arrived \notin new
    BY <1>0, <2>1, <2>2, GrownAppend DEF Delivered, Ops, Arrived
  <2>4. Stage /\ Fetched
    BY <2>1 DEF Stage, Fetched, Outstanding
  <2>5. /\ CallsLeft(server'.output, server.output)
        /\ reading \in Call => ~Among(reading, server'.output)
    <3>1. server.output \in Seq(Message)
      BY <1>0
    <3> QED
      BY <2>1, <3>1, TailCalls DEF Answers
  <2>6. \A c \in Call : Underway(c)' => Underway(c)
    BY <2>1 DEF Underway
  <2>7. \A c \in Call : Needed(c)' => c \in Kept'
    <3> SUFFICES ASSUME NEW c \in Call, Needed(c)'
                 PROVE  Needed(c)
      BY <2>1 DEF Answers
    <3> QED
      BY <2>1, <2>4, <2>5, <2>6 DEF Needed, Answerable, CallsLeft, Among
  <2> QED
    BY <1>0, <2>1, <2>3, <2>4, <2>5, <2>6, <2>7, AnswersKept
<1>4. CASE LinkFails
  <2>1. /\ UNCHANGED <<pending, ready, reading, within, header, outbox, phase>> /\ Kept' = Kept
        /\ server' = Fresh
    BY <1>4 DEF LinkFails, Kept
  <2>2. CallsLeft(server'.output, server.output)
    BY <2>1, FreshLeft
  <2> QED
    BY <1>0, <2>1, <2>2, AnswersQuiet
<1>5. CASE OperationFails
  <2>1. PICK op \in pending : /\ pending' = pending \ {op}
                              /\ ready' = Append(ready, [op |-> op, ok |-> FALSE])
    BY <1>5 DEF OperationFails
  <2>2. UNCHANGED <<reading, within, header, outbox, phase, server>> /\ Kept' = Kept
    BY <1>5 DEF OperationFails, Kept
  <2>3. PICK h : h = [op |-> op, ok |-> FALSE]
    OBVIOUS
  <2>4. PICK new : new = {} \cup {h}
    OBVIOUS
  <2>5. Grown(ready', ready, 0, new)
    BY <1>0, <2>1, <2>3, <2>4, GrownAppend
  <2>6. \A g \in new : g # Arrived /\ g # Delivered /\ (g.op = "body" => "body" \in pending)
    BY <2>3, <2>4 DEF Arrived, Delivered
  <2>7. ("body" \in pending' => "body" \in pending) /\ ("write" \in pending' => "write" \in pending)
    BY <2>1
  <2> QED
    BY <1>0, <2>2, <2>5, <2>6, <2>7, AnswersQuiet
<1> QED
  BY <1>1, <1>2, <1>3, <1>4, <1>5, SentAnswers, HeadArrivesAnswers DEF Network

(* error_callback(), on a connection that is no longer up.                 *)
LEMMA ErrorAnswers ==
  ASSUME TypeOK, Linked, Answers, NEW queue, NEW k, NEW new, Grown(queue, ready, k, new),
         k = 1 => ready[1] # Written \/ outbox' = <<>>,
         \A h \in new : ~h.ok /\ (h.op = "body" => "body" \in pending),
         NEW ops \in SUBSET Ops, ops \subseteq pending, NEW is_open, Recovery(queue, ops, is_open),
         link # "up", within' = "no", UNCHANGED <<reading, header, phase>>,
         outbox' = outbox \/ outbox' = <<>>,
         \A c \in Call : Needed(c)' /\ c \in Kept => c \in Kept'
  PROVE  Answers'
<1>1. PICK more : more = new \cup Failed(ops)
  OBVIOUS
<1>2. /\ Grown(ready', ready, k, more)
      /\ pending' = {"connect"} \/ pending' = ops
      /\ server' = Fresh \/ server' = server
  BY <1>1, ErrorMoves
<1>3. \A h \in more : h # Arrived /\ h # Delivered /\ (h.op = "body" => "body" \in pending)
  <2>1. \A h \in more : ~h.ok /\ (h.op = "body" => "body" \in pending)
    BY <1>1 DEF Failed
  <2> QED
    BY <2>1 DEF Arrived, Delivered
<1>4. ("body" \in pending' => "body" \in pending) /\ ("write" \in pending' => "write" \in pending)
  BY <1>2
<1>5. CallsLeft(outbox', outbox) /\ CallsLeft(server'.output, server.output)
  BY <1>2, SameCalls, NoCalls, FreshLeft DEF Answers
<1> QED
  BY <1>2, <1>3, <1>4, <1>5, AnswersQuiet

LEMMA ConnectAnswers ==
  ASSUME TypeOK, Wired, Answers, OnConnected \/ ResendSubscribe \/ OnConnectFailed \/ OnWriteFailed
  PROVE  Answers'
<1> USE DEF socketVars, readVars, writeVars, mapVars, callVars, ownerVars, pastVars
<1>0. /\ ready \in Seq(Handler) /\ pending \in SUBSET Ops /\ Grown(ready, ready, 0, {})
      /\ CallsLeft(outbox, outbox) /\ CallsLeft(server.output, server.output)
  BY GrownSame, SameCalls DEF TypeOK, Handler, Answers
<1>1. CASE OnConnected
  <2>1. /\ UNCHANGED <<ready, reading, header, outbox, phase>> /\ Kept' = Kept /\ server' = Fresh
        /\ pending' = (pending \ {"connect"}) \cup {"head"} /\ within' = "resend"
    BY <1>1 DEF OnConnected, Kept
  <2>2. CallsLeft(server'.output, server.output)
    BY <2>1, FreshLeft
  <2> QED
    BY <1>0, <2>1, <2>2, AnswersQuiet
<1>2. CASE ResendSubscribe
  <2>1. PICK messages \in InOrder(key_token_set) :
          /\ outbox' = outbox \o messages
          /\ IF WriterIdle /\ messages # <<>>
             THEN Write(messages[1], ready) ELSE UNCHANGED <<header, pending, ready>>
    BY <1>2 DEF ResendSubscribe
  <2>2. UNCHANGED <<server, reading, phase>> /\ within' = "no" /\ Kept' = Kept
    BY <1>2 DEF ResendSubscribe, Kept
  <2>3. outbox \in Seq(Message) /\ messages \in Seq(Message)
    BY AppendedMessages DEF TypeOK
  <2>4. \A i \in DOMAIN messages : messages[i] \notin Call
    <3>1. messages \in [1 .. Cardinality(key_token_set) -> key_token_set]
      BY DEF InOrder
    <3>2. \A i \in DOMAIN messages : messages[i] \in key_token_set
      BY <3>1
    <3> QED
      BY <3>2, ClientAssumption DEF key_token_set, Call
  <2>5. CallsLeft(outbox', outbox)
    BY <2>1, <2>3, <2>4, MoreMessages DEF Answers
  <2>6. PICK new : /\ Grown(ready', ready, 0, new) /\ \A h \in new : ~h.ok /\ h.op = "write"
                   /\ "body" \in pending' => "body" \in pending
                   /\ header' \notin Call \/ (header' = header /\ pending' = pending)
    <3>1. CASE WriterIdle /\ messages # <<>>
      <4>1. Write(messages[1], ready) /\ header' = messages[1] /\ 1 \in DOMAIN messages
        BY <2>1, <2>3, <3>1 DEF Write
      <4>2. /\ Grown(ready', ready, 0, {} \cup Refusal("write"))
            /\ pending' = IF open THEN pending \cup {"write"} ELSE pending
        BY <1>0, <4>1, WriteMoves
      <4>3. \A h \in {} \cup Refusal("write") : ~h.ok /\ h.op = "write"
        BY DEF Refusal, Failed
      <4> QED
        BY <2>4, <4>1, <4>2, <4>3
    <3>2. CASE ~(WriterIdle /\ messages # <<>>)
      BY <1>0, <2>1, <3>2
    <3> QED
      BY <3>1, <3>2
  <2>7. \A h \in new : h # Arrived /\ h # Delivered /\ h.op # "body"
    BY <2>6 DEF Arrived, Delivered
  <2> QED
    BY <1>0, <2>2, <2>5, <2>6, <2>7, AnswersQuiet
<1>3. ASSUME NEW op \in {"connect", "write"}, Handle(op, FALSE), Recovery(Tail(ready), pending, open),
             UNCHANGED <<readVars, writeVars, phase, mapVars, orphans>>
      PROVE  Answers'
  <2>1. /\ Grown(Tail(ready), ready, 1, {}) /\ ready[1] = [op |-> op, ok |-> FALSE]
        /\ within = "no" /\ link # "up" /\ Kept' = Kept
    BY <1>3, HandleMoves, FailureDown DEF Wired, Kept
  <2>2. ready[1] # Written
    BY <2>1 DEF Written
  <2> QED
    BY <1>0, <1>3, <2>1, <2>2, ErrorAnswers DEF Wired
<1>4. CASE OnConnectFailed
  <2>1. CASE connected
    <3>1. /\ UNCHANGED <<pending, reading, within, header, outbox, phase, server>> /\ Kept' = Kept
          /\ ready' = Tail(ready) /\ Handle("connect", FALSE)
      BY <1>4, <2>1 DEF OnConnectFailed, Leave, Kept
    <3>2. Grown(ready', ready, 1, {}) /\ ready[1] = [op |-> "connect", ok |-> FALSE]
      BY <3>1, HandleMoves
    <3>3. ready[1] # Written
      BY <3>2 DEF Written
    <3> QED
      BY <1>0, <3>1, <3>2, <3>3, AnswersQuiet
  <2>2. CASE ~connected
    BY <1>3, <1>4, <2>2 DEF Recovery, OnConnectFailed
  <2> QED
    BY <2>1, <2>2
<1>5. CASE OnWriteFailed
  BY <1>3, <1>5 DEF Recovery, ErrorCallback, OnWriteFailed
<1> QED
  BY <1>1, <1>2, <1>4, <1>5

LEMMA WrittenAnswers ==
  ASSUME TypeOK, Wired, Answers, OnWritten
  PROVE  Answers'
<1> USE DEF socketVars, readVars, writeVars, mapVars, callVars, ownerVars, pastVars
<1>1. /\ Grown(Tail(ready), ready, 1, {}) /\ outbox \in Seq(Message)
      /\ UNCHANGED <<server, reading, within, phase>> /\ Kept' = Kept
      /\ outbox' = IF outbox = <<>> THEN <<>> ELSE Tail(outbox)
  BY HandleMoves DEF OnWritten, TypeOK, Kept
<1>2. CASE outbox' = <<>>
  <2>1. ready' = Tail(ready) /\ UNCHANGED <<header, pending>>
    BY <1>2 DEF OnWritten
  <2>2. CallsLeft(outbox', outbox) /\ CallsLeft(server.output, server.output)
    BY <1>2, NoCalls, SameCalls DEF Answers
  <2> QED
    BY <1>1, <1>2, <2>1, <2>2, AnswersQuiet
(* The next message is written: it could not be answered yet.              *)
<1>3. CASE outbox' # <<>>
  <2>1. outbox # <<>> /\ outbox' = Tail(outbox) /\ outbox' \in Seq(Message) /\ Write(Head(outbox'), Tail(ready))
    BY <1>1, <1>3 DEF OnWritten
  <2>2. /\ CallsLeft(outbox', outbox)
        /\ \A c \in Call : Among(c, outbox') => Behind(c, outbox)
    BY <1>1, <2>1, TailCalls DEF Answers
  <2>3. PICK new : /\ Grown(ready', ready, 1, new) /\ \A h \in new : ~h.ok /\ h.op = "write"
                   /\ "body" \in pending' => "body" \in pending
    <3>1. /\ Grown(ready', ready, 1, {} \cup Refusal("write"))
          /\ pending' = IF open THEN pending \cup {"write"} ELSE pending
      BY <1>1, <2>1, WriteMoves
    <3>2. \A h \in {} \cup Refusal("write") : ~h.ok /\ h.op = "write"
      BY DEF Refusal, Failed
    <3> QED
      BY <3>1, <3>2
  <2>4. \A h \in new : h # Arrived /\ h # Delivered /\ h.op # "body"
    BY <2>3 DEF Arrived, Delivered
  <2>5. /\ Stage' => Stage
        /\ Fetched' => Fetched
        /\ Answering' => Answering
    BY <1>1, <2>3, <2>4, StageKept
  <2>6. \A c \in Call : Answerable(c)' => Answerable(c)
    BY <1>1, <2>5 DEF Answerable
  <2>7. /\ header' = Head(outbox') /\ Among(header', outbox')
        /\ \A c \in Call : Behind(c, outbox') => c # header' /\ Among(c, outbox')
    <3>1. 1 \in DOMAIN outbox' /\ Head(outbox') = outbox'[1] /\ header' = Head(outbox')
      BY <1>3, <2>1 DEF Write
    <3>2. Distinct(outbox')
      BY <2>2 DEF CallsLeft
    <3> QED
      BY <3>1, <3>2 DEF Among, Behind, Distinct
  <2>8. \A c \in Call : Among(c, outbox') => ~Answerable(c)
    BY <2>2 DEF Answers, InTurn
  <2>9. \A c \in Call : Underway(c)' => Among(c, outbox')
    BY <2>7 DEF Underway
  <2>10. \A c \in Call : Among(c, outbox') => Among(c, outbox)
    BY <2>2 DEF CallsLeft
  <2>11. NotSent'
    BY <1>1, <2>7, <2>10 DEF Answers, NotSent, Among
  <2>12. InTurn'
    <3> SUFFICES ASSUME NEW c \in Call
                 PROVE  /\ Behind(c, outbox') => ~Underway(c)' /\ ~Answerable(c)'
                        /\ Underway(c)' => ~Answerable(c)'
      BY DEF InTurn, Behind
    <3>1. Behind(c, outbox') => ~Underway(c)'
      BY <2>7 DEF Underway
    <3> QED
      BY <2>6, <2>7, <2>8, <2>9, <3>1
  <2>13. \A c \in Call : Needed(c)' => c \in Kept'
    <3> SUFFICES ASSUME NEW c \in Call, Needed(c)'
                 PROVE  Needed(c)
      BY <1>1 DEF Answers
    <3> QED
      BY <1>1, <2>6, <2>9, <2>10 DEF Needed, Among
  <2>14. \A c \in Call : Among(c, outbox)' => ~Answerable(c)'
    BY <2>6, <2>8 DEF Among
  <2> QED
    BY <1>1, <2>2, <2>5, <2>11, <2>12, <2>13, <2>14 DEF Answers, CallsLeft, Distinct, Among
<1> QED
  BY <1>2, <1>3

LEMMA ReadAnswers ==
  ASSUME TypeOK, Wired, Answers, OnHead \/ OnHeadFailed \/ OnBody
  PROVE  Answers'
<1> USE DEF socketVars, readVars, writeVars, mapVars, callVars, ownerVars, pastVars
<1>0. /\ ready \in Seq(Handler) /\ pending \in SUBSET Ops
      /\ CallsLeft(outbox, outbox) /\ CallsLeft(server.output, server.output)
  BY SameCalls DEF TypeOK, Handler, Answers
<1>1. ASSUME NEW op \in Reads, NEW ok \in BOOLEAN, Handle(op, ok), ready' = Tail(ready),
             UNCHANGED <<reading, server, writeVars, phase, mapVars, orphans>>,
             "write" \in pending' => "write" \in pending,
             Stage' => Stage, Fetched' => Fetched \/ ready[1] = Arrived,
             Answering' /\ reading \in Call => Answering
      PROVE  Answers'
  <2>1. Grown(ready', ready, 1, {}) /\ ready[1] # Written /\ Kept' = Kept
    <3>1. Grown(ready', ready, 1, {}) /\ ready[1] = [op |-> op, ok |-> ok]
      BY <1>1, HandleMoves
    <3> QED
      BY <1>1, <3>1 DEF Written, Kept, Reads
  <2>2. \A c \in Call : Underway(c)' => Underway(c)
    BY <1>1 DEF Underway
  <2>3. \A c \in Call : Needed(c)' => c \in Kept'
    <3> SUFFICES ASSUME NEW c \in Call, Needed(c)'
                 PROVE  Needed(c)
      BY <2>1 DEF Answers
    <3> QED
      BY <1>1, <2>2 DEF Needed, Answerable, Among
  <2> QED
    BY <1>0, <1>1, <2>1, <2>2, <2>3, AnswersKept
<1>2. CASE OnHead
  <2>1. /\ Handle("head", TRUE) /\ ready' = Tail(ready) /\ within = "no" /\ within' = "no"
        /\ 1 \in DOMAIN ready /\ ready[1] = Arrived
        /\ UNCHANGED <<reading, server, writeVars, phase, mapVars, orphans>>
        /\ "write" \in pending' => "write" \in pending
    <3>1. /\ Handle("head", TRUE) /\ ready' = Tail(ready) /\ within' = within
          /\ UNCHANGED <<reading, server, writeVars, phase, mapVars, orphans>>
          /\ pending' \in {pending, pending \cup {"body"}}
      BY <1>2 DEF OnHead
    <3>2. 1 \in DOMAIN ready /\ ready[1] = [op |-> "head", ok |-> TRUE] /\ within = "no"
      BY <3>1, HandleMoves
    <3>3. "write" \in pending' => "write" \in pending
      BY <3>1
    <3> QED
      BY <3>1, <3>2, <3>3 DEF Arrived
  <2>2. Stage
    BY <2>1 DEF Stage, In
  <2>3. Answering' => Answering
    <3>1. \A i \in DOMAIN Tail(ready) : i + 1 \in DOMAIN ready /\ Tail(ready)[i] = ready[i + 1]
      BY <1>0, <2>1
    <3> QED
      BY <2>1, <3>1 DEF Answering, In
  <2> QED
    BY <1>1, <2>1, <2>2, <2>3 DEF Reads
<1>3. CASE OnBody
  <2>1. PICK ok \in BOOLEAN : Handle("body", ok)
    BY <1>3 DEF OnBody
  <2>2. /\ ready' = Tail(ready) /\ pending' = pending
        /\ 1 \in DOMAIN ready /\ ready[1] = [op |-> "body", ok |-> ok] /\ Head(ready) = ready[1]
        /\ UNCHANGED <<reading, server, writeVars, phase, mapVars, orphans>>
        /\ within' = "answer" => Head(ready).ok
    BY <1>0, <1>3, <2>1, HandleMoves DEF OnBody
  <2>3. Stage /\ Fetched
    BY <2>2 DEF Stage, Fetched, Outstanding
  <2>4. Answering' => Answering
    <3>1. \A i \in DOMAIN Tail(ready) : i + 1 \in DOMAIN ready /\ Tail(ready)[i] = ready[i + 1]
      BY <1>0, <2>2
    <3>2. ASSUME within' = "answer"
          PROVE  ready[1] = Delivered
      <4>1. ready[1].ok /\ ready[1] = [op |-> "body", ok |-> ok]
        BY <2>2, <3>2
      <4>2. ok = TRUE
        BY <2>1, <4>1
      <4> QED
        BY <4>1, <4>2 DEF Delivered
    <3> QED
      BY <2>2, <3>1, <3>2 DEF Answering, In
  <2> QED
    BY <1>1, <2>1, <2>2, <2>3, <2>4 DEF Reads
<1>4. CASE OnHeadFailed
  <2>1. /\ Grown(Tail(ready), ready, 1, {}) /\ ready[1] = [op |-> "head", ok |-> FALSE]
        /\ within = "no" /\ within' = "no" /\ link # "up"
        /\ UNCHANGED <<reading, header, phase>>
    BY <1>4, HandleMoves, FailureDown DEF OnHeadFailed, Wired
  <2>2. ready[1] # Written
    BY <2>1 DEF Written
  <2>3. CASE ~open
    <3>1. UNCHANGED <<pending, server, outbox>> /\ Kept' = Kept /\ ready' = Tail(ready)
      BY <1>4, <2>3 DEF OnHeadFailed, Kept
    <3> QED
      BY <1>0, <2>1, <2>2, <3>1, AnswersQuiet
  <2>4. CASE open /\ connected
    <3>1. PICK queue : queue = Tail(ready) \o Aborted(pending) /\ Recovery(queue, {}, FALSE)
      BY <1>4, <2>4 DEF Recovery, ErrorCallback, OnHeadFailed
    <3>2. PICK new : new = {} \cup Failed(pending)
      OBVIOUS
    <3>3. Grown(queue, ready, 1, new)
      BY <1>0, <2>1, <3>1, <3>2, GrownAborted
    <3>4. \A h \in new : ~h.ok /\ (h.op = "body" => "body" \in pending)
      BY <3>2 DEF Failed
    <3>5. outbox' = <<>> /\ orphans' = orphans \cup Forgotten(<<>>)
      BY <1>4, <2>4 DEF OnHeadFailed
    <3>6. ASSUME NEW c \in Call, Needed(c)', c \in Kept
          PROVE  c \in Kept'
      <4>1. ~Among(c, outbox)' /\ ~Among(c, server.output)'
        <5>1. server' = Fresh \/ server' = server
          BY <3>1 DEF Recovery, Reconnect, Leave
        <5>2. server = Fresh
          BY <2>1 DEF Wired, Linked
        <5> QED
          BY <3>5, <5>1, <5>2 DEF Among, Fresh
      <4>2. ~Underway(c)'
        <5>1. pending' = {"connect"} \/ pending' = {}
          BY <3>1 DEF Recovery, Reconnect, Leave
        <5> QED
          BY <5>1 DEF Underway
      <4>3. Stage' => Stage
        <5>1. PICK more : more = new \cup Failed({})
          OBVIOUS
        <5>2. {} \in SUBSET Ops
          OBVIOUS
        <5>3. Grown(ready', ready, 1, more) /\ (pending' = {"connect"} \/ pending' = {})
          BY <3>1, <3>3, <5>1, <5>2, ErrorMoves
        <5>4. \A h \in more : h # Arrived /\ h # Delivered /\ (h.op = "body" => "body" \in pending)
          BY <3>4, <5>1 DEF Failed, Arrived, Delivered
        <5> QED
          BY <2>1, <5>3, <5>4, StageKept
      <4>4. phase[c] = "registered" \/ (c = reading /\ Stage)
        BY <2>1, <3>6, <4>1, <4>2, <4>3 DEF Needed, Answerable
      <4>5. c \in futures \cup callbacks => c \in Forgotten(<<>>)
        BY <4>4 DEF Forgotten, BeingRead, Stage, Fetched, In, Arrived
      <4> QED
        BY <3>5, <3>6, <4>5 DEF Kept
    <3>7. {} \in SUBSET Ops /\ {} \subseteq pending
      OBVIOUS
    <3> QED
      BY <2>1, <2>2, <3>1, <3>3, <3>4, <3>5, <3>6, <3>7, ErrorAnswers DEF Wired
  <2>5. CASE open /\ ~connected
    <3>1. Recovery(Tail(ready), pending, open) /\ outbox' = outbox /\ Kept' = Kept
      BY <1>4, <2>5 DEF Recovery, ErrorCallback, OnHeadFailed, Kept
    <3> QED
      BY <1>0, <2>1, <2>2, <3>1, ErrorAnswers DEF Wired
  <2> QED
    BY <2>3, <2>4, <2>5
<1> QED
  BY <1>2, <1>3, <1>4

(* call_back() begins no read but of a head, and writes nothing.           *)
LEMMA CallBackMoves ==
  ASSUME TypeOK, Wired, CallBack
  PROVE  \E new : /\ Grown(ready', ready, 0, new)
                  /\ \A h \in new : ~h.ok /\ h.op # "body"
                  /\ "body" \notin pending' /\ ("write" \in pending' => "write" \in pending)
                  /\ server' = server \/ server' = Fresh
<1>0. ready \in Seq(Handler) /\ Grown(ready, ready, 0, {}) /\ pending \in SUBSET Ops
  BY GrownSame DEF TypeOK, Handler
<1>1. "body" \notin pending
  BY DEF CallBack, Wired, SingleRead, Reads
<1>2. CASE within = "answer"
  <2>1. /\ pending' = Started("head", pending) /\ ready' = Refused("head", ready)
        /\ server' = server
    BY <1>2 DEF CallBack
  <2>2. CASE open
    <3>1. ready' = ready /\ pending' = pending \cup {"head"}
      BY <2>1, <2>2 DEF Started, Refused
    <3> QED
      BY <1>0, <1>1, <2>1, <3>1
  <2>3. CASE ~open
    <3>1. PICK new : new = {} \cup {[op |-> "head", ok |-> FALSE]}
      OBVIOUS
    <3>2. "head" \in Ops /\ FALSE \in BOOLEAN
      BY DEF Ops
    <3>3. pending' = pending /\ Grown(ready', ready, 0, new)
      BY <1>0, <2>1, <2>3, <3>1, <3>2, GrownAppend DEF Started, Refused
    <3>4. \A h \in new : ~h.ok /\ h.op # "body"
      BY <3>1
    <3> QED
      BY <1>1, <2>1, <3>3, <3>4
  <2> QED
    BY <2>2, <2>3
<1>3. CASE within = "error"
  <2>1. PICK new : new = {} \cup Failed(pending)
    OBVIOUS
  <2>2. Recovery(ready, pending, open)
    BY <1>3 DEF Recovery, ErrorCallback, CallBack
  <2>3. /\ Grown(ready', ready, 0, new)
        /\ pending' = {"connect"} \/ pending' = pending
        /\ server' = server \/ server' = Fresh
    BY <1>0, <2>1, <2>2, ErrorMoves
  <2>4. \A h \in new : ~h.ok /\ h.op # "body"
    BY <1>1, <2>1 DEF Failed
  <2> QED
    BY <1>1, <2>3, <2>4
<1>4. CASE within = "closed"
  <2>1. UNCHANGED <<pending, ready, server>>
    BY <1>4 DEF CallBack
  <2> QED
    BY <1>0, <1>1, <2>1
<1> QED
  BY <1>2, <1>3, <1>4 DEF CallBack, Deliveries

(* call_back() forgets the call it answers, which nothing else awaits.     *)
LEMMA CallBackAnswers ==
  ASSUME TypeOK, Wired, Answers, CallBack
  PROVE  Answers'
<1>0. /\ within \in Deliveries /\ within' = "no"
      /\ UNCHANGED <<reading, outbox, header, phase, orphans>>
      /\ futures' = futures \ {reading} /\ callbacks' = callbacks \ {reading}
  BY DEF CallBack, writeVars
<1>1. PICK new : /\ Grown(ready', ready, 0, new)
                 /\ \A h \in new : ~h.ok /\ h.op # "body"
                 /\ "body" \notin pending' /\ ("write" \in pending' => "write" \in pending)
                 /\ server' = server \/ server' = Fresh
  BY CallBackMoves
<1>2. \A h \in new : h # Arrived /\ h # Delivered /\ h.op # "body"
  BY <1>1 DEF Arrived, Delivered
<1>3. CallsLeft(outbox', outbox) /\ CallsLeft(server'.output, server.output)
  BY <1>0, <1>1, SameCalls, FreshLeft DEF Answers
<1>4. \A i \in DOMAIN ready : ready[i].op \notin Reads
  BY <1>0 DEF Wired, SingleRead, OpsIn
<1>5. ~Stage'
  <2>1. \A i \in DOMAIN ready' : ready'[i] # Arrived /\ ready'[i].op # "body"
    <3>1. ASSUME NEW i \in DOMAIN ready'
          PROVE  ready'[i] # Arrived /\ ready'[i].op # "body"
      <4>1. CASE ready'[i] \in new
        BY <1>2, <4>1
      <4>2. CASE i + 0 \in DOMAIN ready /\ ready'[i] = ready[i + 0]
        <5>1. ready'[i].op \notin Reads
          BY <1>4, <4>2
        <5> QED
          BY <5>1 DEF Arrived, Reads
      <4> QED
        BY <1>1, <3>1, <4>1, <4>2, GrownFrom
    <3> QED
      BY <3>1
  <2> QED
    BY <1>0, <1>1, <2>1 DEF Stage, Fetched, In, Outstanding, Deliveries
<1>6. ASSUME reading \in Call
      PROVE  ~Needed(reading)'
  <2>1. Stage /\ Fetched /\ Answerable(reading)
    BY <1>0 DEF Stage, Fetched, Answerable
  <2>2. phase[reading] = "sent"
    BY <1>6 DEF Answers, NotSent
  <2>3. ~Underway(reading)
    BY <1>6, <2>1 DEF Answers, InTurn
  <2>4. ~Among(reading, outbox)
    BY <1>6, <2>1 DEF Answers, Acknowledged
  <2>5. ~Among(reading, server.output)
    <3>1. CASE within = "answer"
      BY <1>6, <3>1 DEF Answers, Answering
    <3>2. CASE link # "up"
      BY <3>2 DEF Wired, Linked, Fresh, Among
    <3> QED
      BY <1>0, <3>1, <3>2 DEF Wired, Linked, Deliveries
  <2>6. ~Among(reading, Fresh.output)
    BY DEF Fresh, Among
  <2>7. /\ phase'[reading'] # "registered" /\ ~Among(reading', outbox') /\ ~Among(reading', server'.output)
        /\ ~(header' = reading' /\ "write" \in pending')
    BY <1>0, <1>1, <2>2, <2>3, <2>4, <2>5, <2>6 DEF Underway
  <2> QED
    BY <1>0, <1>5, <2>7 DEF Needed, Answerable, Underway
<1>7. \A c \in Call : Needed(c)' /\ c \in Kept => c \in Kept'
  BY <1>0, <1>6 DEF Kept
<1> QED
  BY <1>0, <1>1, <1>2, <1>3, <1>7, AnswersQuiet

LEMMA InitAnswers ==
  ASSUME Init
  PROVE  Answers
<1>1. /\ \A c \in Call : phase[c] = "idle" /\ header # c /\ reading # c
      /\ ~Stage /\ ~Answering
      /\ DOMAIN outbox = {} /\ DOMAIN server.output = {}
  BY ClientAssumption DEF Init, Message, Call, Stage, Fetched, Answering, In, Outstanding, Deliveries, Fresh
<1> QED
  BY <1>1 DEF Answers, NotSent, InTurn, Distinct, Behind, Among, Underway, Answerable, Needed

LEMMA NextAnswers ==
  ASSUME TypeOK, Wired, Answers, [Next]_vars, ~hasty'
  PROVE  Answers'
<1>1. CASE UNCHANGED vars
  BY <1>1, UntouchedAnswers DEF vars, socketVars, readVars, writeVars, mapVars, callVars, ownerVars, pastVars
<1>2. CASE \E c \in Message : Caller(c)
  BY <1>2, CallerAnswers
<1>3. CASE IoThread
  BY <1>3, ConnectAnswers, WrittenAnswers, ReadAnswers, CallBackAnswers DEF IoThread
<1> QED
  BY <1>1, <1>2, <1>3, OwnerAnswers, NetworkAnswers DEF Next, Alive

(* rpc_client::call_back and do_write: every call that is registered, in    *)
(* the outbox, being written, or still to be answered, is in one of the    *)
(* maps, unless clear_cache() forgot it meanwhile or connect() was called  *)
(* while handlers were left.                                               *)
THEOREM ClientAnswers == Spec => [](TypeOK /\ (hasty \/ (Wired /\ Answers)))
<1>1. Init => Wired /\ Answers
  BY InitWired, InitAnswers
<1>2. ASSUME TypeOK, hasty \/ (Wired /\ Answers), [Next]_vars
      PROVE  hasty' \/ (Wired' /\ Answers')
  <2>1. CASE ~hasty'
    BY <1>2, <2>1, HistoryLasts, NextWired, NextAnswers
  <2> QED
    BY <2>1
<1> QED
  BY <1>1, <1>2, ClientTypes, PTL DEF Spec

(* Only call_back() asserts.                                               *)
LEMMA AssertedByCallBack ==
  ASSUME TypeOK, [Next]_vars, AssertsHold, ~CallBack
  PROVE  AssertsHold'
<1> USE DEF socketVars, readVars, writeVars, mapVars, callVars, ownerVars, pastVars
<1>1. CASE UNCHANGED vars
  BY <1>1 DEF vars, AssertsHold
<1>2. ASSUME Alive((\E c \in Message : Caller(c)) \/ Owner \/ Network \/ IoThread)
      PROVE  asserted' = asserted /\ ~asserted
  <2>1. ASSUME NEW c \in Message, Caller(c)
        PROVE  asserted' = asserted
    BY <2>1 DEF Caller, Check, Register, Send, GiveUp, Enter
  <2>2. Owner => asserted' = asserted
    BY DEF Owner, Connect, CloseSocket, ClearOutbox, ClearMaps
  <2>3. Network => asserted' = asserted
    BY DEF Network, Sent, Swallowed, Publish, HeadArrives, BodyArrives, LinkFails, OperationFails
  <2>4. IoThread => asserted' = asserted
    BY DEF IoThread, OnConnected, ResendSubscribe, OnConnectFailed, OnWritten, OnWriteFailed,
           OnHead, OnHeadFailed, OnBody
  <2> QED
    BY <1>2, <2>1, <2>2, <2>3, <2>4 DEF Alive, Stopped
<1> QED
  BY <1>1, <1>2 DEF Next, AssertsHold

(* rpc_client::call_back, whose asserts look for the request id in the map: *)
(* they fail only for a call that was forgotten while it could still be    *)
(* answered, for a publication cut off within its body, or after a         *)
(* connect() while handlers were left.                                     *)
THEOREM AssertsHoldAlways == Spec => []AssertsHold
<1>1. Init => AssertsHold
  BY DEF Init, AssertsHold
<1>2. ASSUME TypeOK, hasty \/ Answers, AssertsHold, CallBack
      PROVE  AssertsHold'
  <2>1. /\ asserted' => reading \notin futures \cup callbacks
        /\ UNCHANGED <<reading, orphans, hasty>> /\ within \in Deliveries
    BY <1>2 DEF CallBack, ownerVars
  <2>2. CASE hasty
    BY <2>1, <2>2 DEF AssertsHold
  <2>3. CASE Answers
    <3>1. Stage /\ reading \in Message
      BY <2>1, <2>3 DEF Stage, Fetched, Answers
    <3>2. reading \in Call => reading \in Kept
      BY <2>3, <3>1 DEF Answers, Needed, Answerable
    <3> QED
      BY <2>1, <3>1, <3>2 DEF AssertsHold, Kept, Message
  <2> QED
    BY <1>2, <2>2, <2>3
<1>3. TypeOK /\ (hasty \/ (Wired /\ Answers)) /\ AssertsHold /\ [Next]_vars => AssertsHold'
  BY <1>2, AssertedByCallBack
<1> QED
  BY <1>1, <1>3, ClientAnswers, PTL DEF Spec
=============================================================================
