------------------------ MODULE RpcConnectionProofs ------------------------
(***************************************************************************)
(* The safety of RpcConnection, for any request ids and bounds.            *)
(***************************************************************************)
EXTENDS RpcConnection, SequenceTheorems, TLAPS

(* A message carries the id of the frame it answers.                       *)
Matches(m, frames) ==
  m.of <= Len(frames) /\ m.id = (IF m.of = 0 THEN 0 ELSE frames[m.of].id)

(* At every stage on its way to the peer; header_ is that of the write     *)
(* under way, the only one.                                                *)
Queued ==
  /\ \A i \in DOMAIN write_queue : Matches(write_queue[i], sent)
  /\ \A w \in wire : Matches(w.message, sent) /\ (w.state = "pending" => header = w.message.id)
  /\ \A i \in DOMAIN delivered : Matches(delivered[i], sent)
  /\ \A v, w \in wire : v = w
  /\ write_queue = <<>> => wire = {}
  /\ ~has_closed /\ wire = {} => write_queue = <<>>

(* req_id_ is that of the frame whose body is read or routed.              *)
Staged ==
  /\ reading = "body" => taken # 0 /\ req_id = sent[taken].id
  /\ handling # 0 => handling = taken /\ req_id = sent[taken].id

(* An open connection reads under a timer, or reads no more because the    *)
(* peer hung up within a body.                                             *)
Timed ==
  ~has_closed => IF reading = "none" THEN peer = "gone" /\ complete < Len(sent)
                                     ELSE armed \/ due

(* The inductive invariant.                                                *)
IInv == TypeOK /\ Queued /\ Staged /\ Timed
-----------------------------------------------------------------------------
LEMMA InitHolds ==
  ASSUME Init
  PROVE  IInv
<1> USE ConnectionAssumption
<1>1. TypeOK
  <2>1. sent \in Seq(Frame) /\ write_queue \in Seq(Message) /\ delivered \in Seq(Message) /\ Len(sent) = 0
    BY DEF Init
  <2>2. /\ armed \in BOOLEAN /\ due \in BOOLEAN /\ has_closed \in BOOLEAN
        /\ subscribed \in BOOLEAN /\ publishing \in BOOLEAN
    BY DEF Init
  <2> QED
    BY <2>1, <2>2 DEF Init, TypeOK
<1>2. Queued /\ Staged /\ Timed
  BY DEF Init, Queued, Staged, Timed
<1> QED
  BY <1>1, <1>2 DEF IInv

(* What is queued does not lose its frame when the peer sends more.        *)
LEMMA MatchesStay ==
  ASSUME NEW m \in Message, Matches(m, sent), sent \in Seq(Frame),
         sent' = sent \/ \E f \in Frame : sent' = Append(sent, f)
  PROVE  Matches(m, sent')
  BY DEF Matches, Message

LEMMA FirstMatches ==
  ASSUME NEW q \in Seq(Message), q # <<>>, \A i \in DOMAIN q : Matches(q[i], sent)
  PROVE  q[1] \in Message /\ Matches(q[1], sent)
<1>1. 1 \in DOMAIN q
  OBVIOUS
<1> QED
  BY <1>1

(* response() keeps a write outstanding exactly while the queue is not     *)
(* empty, and begins none beside another.                                  *)
LEMMA ResponseKeeps ==
  ASSUME TypeOK, Queued, NEW m \in Message, Matches(m, sent), Response(m), UNCHANGED <<sent, has_closed>>
  PROVE  /\ Queued'
         /\ write_queue' \in Seq(Message) /\ header' \in Nat
         /\ wire' \subseteq [message : Message, state : {"pending", "done", "failed"}]
<1>1. write_queue' = Append(write_queue, m) /\ delivered' = delivered
  BY DEF Response
<1>2. ASSUME NEW n
      PROVE  Matches(n, sent') <=> Matches(n, sent)
  BY DEF Matches
<1>3. write_queue \in Seq(Message) /\ wire \subseteq [message : Message, state : {"pending", "done", "failed"}]
  BY DEF TypeOK
<1>4. write_queue' # <<>> /\ write_queue' \in Seq(Message)
  BY <1>1, <1>3
<1>5. ASSUME NEW i \in DOMAIN write_queue'
      PROVE  Matches(write_queue'[i], sent)
  BY <1>1, <1>3 DEF Queued
<1>6. \A i \in DOMAIN write_queue' : Matches(write_queue'[i], sent')
  BY <1>2, <1>5
<1>7. \A i \in DOMAIN delivered' : Matches(delivered'[i], sent')
  BY <1>1, <1>2 DEF Queued
<1>8. CASE write_queue = <<>>
  <2>1. wire' = {[message |-> m, state |-> "pending"]} /\ header' = m.id
    <3>1. wire = {} /\ Append(write_queue, m)[1] = m /\ <<m>>[1] = m
      BY <1>3, <1>8 DEF Queued
    <3>2. Begin(wire, write_queue')
      BY <1>8, <1>1 DEF Response, Begin
    <3> QED
      BY <1>1, <3>1, <3>2 DEF Begin
  <2>2. \A w \in wire' : w.message = m /\ w.state = "pending"
    BY <2>1
  <2>3. Queued'
    BY <1>2, <1>4, <1>6, <1>7, <2>1, <2>2 DEF Queued
  <2> QED
    BY <1>4, <2>1, <2>3 DEF Message
<1>9. CASE write_queue # <<>>
  <2>1. wire' = wire /\ header' = header
    BY <1>9 DEF Response
  <2>2. \A w \in wire : Matches(w.message, sent') /\ (w.state = "pending" => header = w.message.id)
    BY <1>2 DEF Queued
  <2>3. ~has_closed' => wire' # {}
    BY <1>9, <2>1 DEF Queued
  <2>4. \A v, w \in wire' : v = w
    BY <2>1 DEF Queued
  <2>5. Queued'
    BY <1>4, <1>6, <1>7, <2>1, <2>2, <2>3, <2>4 DEF Queued
  <2> QED
    BY <1>4, <2>1, <2>5 DEF TypeOK
<1> QED
  BY <1>8, <1>9
-----------------------------------------------------------------------------
(* One lemma per actor.                                                    *)
LEMMA PeerStep ==
  ASSUME IInv, Peer
  PROVE  IInv'
<1> USE ConnectionAssumption DEF IInv, TypeOK
<1>1. sent' = sent \/ \E f \in Frame : sent' = Append(sent, f)
  BY DEF Peer, SendHead, SendBody, HangUp
<1>2. UNCHANGED <<readVars, timerVars, has_closed, writeVars, pubVars>>
  BY DEF Peer, SendHead, SendBody, HangUp
<1>3. Queued'
  BY <1>1, <1>2, MatchesStay DEF Queued, writeVars
<1>4. /\ sent' \in Seq(Frame) /\ Len(sent') <= MaxSent /\ Len(sent) <= Len(sent')
      /\ complete' \in 0 .. Len(sent') /\ complete' + 1 >= Len(sent')
      /\ peer' \in {"up", "gone"}
      /\ \A i \in 1 .. Len(sent) : sent'[i] = sent[i]
      /\ peer # "gone"
  <2>1. CASE SendHead
    <3>1. PICK f \in Frame : /\ sent' = Append(sent, f)
                             /\ complete' = IF f.kind \in Bodiless THEN complete + 1 ELSE complete
      BY <2>1 DEF SendHead
    <3>2. peer' = peer /\ peer = "up" /\ complete = Len(sent) /\ Len(sent) < MaxSent
      BY <2>1 DEF SendHead
    <3>3. Len(sent') = Len(sent) + 1 /\ Len(sent) \in Nat
      BY <3>1
    <3> QED
      BY <3>1, <3>2, <3>3
  <2>2. CASE SendBody \/ HangUp
    BY <2>2 DEF SendBody, HangUp
  <2> QED
    BY <2>1, <2>2 DEF Peer
<1>5. TypeOK'
  BY <1>2, <1>4 DEF readVars, timerVars, writeVars, pubVars
<1>6. Staged'
  BY <1>2, <1>4 DEF Staged, readVars
<1>7. Timed'
  BY <1>2, <1>4 DEF Timed, readVars, timerVars
<1> QED
  BY <1>3, <1>5, <1>6, <1>7

LEMMA ReadStep ==
  ASSUME IInv, OnHead \/ HeadFails \/ OnBody \/ BodyFails \/ Aborted
  PROVE  IInv'
<1> USE ConnectionAssumption DEF IInv, TypeOK, Staged, Timed, IoThreadFree
<1>1. UNCHANGED <<inputVars, due, writeVars, pubVars>>
  BY DEF OnHead, HeadFails, OnBody, BodyFails, Aborted, timerVars
<1>2. has_closed => has_closed'
  BY DEF OnHead, HeadFails, OnBody, BodyFails, Aborted
<1>3. Queued'
  BY <1>1, <1>2, MatchesStay DEF Queued, inputVars, writeVars
<1>4. CASE OnHead
  <2> DEFINE f == sent[taken + 1]
  <2>1. taken' = taken + 1 /\ taken < Len(sent) /\ f \in Frame /\ handling = 0
        /\ UNCHANGED <<inputVars, handling, subscribed, due, writeVars, pubVars>>
    BY <1>4 DEF OnHead
  <2>2. CASE f.kind \in {"alien", "huge"}
    <3>1. reading' = "none" /\ has_closed' /\ armed' = armed /\ req_id' \in Nat
      BY <1>4, <2>1, <2>2 DEF OnHead, Frame
    <3> QED
      BY <1>3, <2>1, <3>1 DEF inputVars, writeVars, pubVars
  <2>3. CASE f.kind = "heartbeat"
    <3>1. reading' = "head" /\ armed' /\ has_closed' = has_closed /\ req_id' \in Nat
      BY <1>4, <2>1, <2>3 DEF OnHead, ReadHead, Frame
    <3>2. armed' \in BOOLEAN
      BY <1>4, <2>1, <2>3 DEF OnHead, ReadHead, Frame
    <3> QED
      BY <1>3, <2>1, <3>1, <3>2 DEF inputVars, writeVars, pubVars
  <2>4. CASE f.kind \notin {"alien", "huge", "heartbeat"}
    <3>1. /\ reading' = "body" /\ UNCHANGED <<armed, has_closed>>
          /\ req_id' = f.id /\ req_id' \in Nat
      BY <1>4, <2>1, <2>4 DEF OnHead, Frame
    <3> QED
      BY <1>3, <1>4, <2>1, <3>1 DEF OnHead, inputVars, writeVars, pubVars
  <2> QED
    BY <2>2, <2>3, <2>4
<1>5. CASE HeadFails
  BY <1>3, <1>5 DEF HeadFails, inputVars, timerVars, writeVars, pubVars
<1>6. CASE OnBody
  <2>1. armed' \in BOOLEAN /\ armed' /\ reading' = "head" /\ handling' = taken
        /\ UNCHANGED <<inputVars, taken, req_id, subscribed, due, has_closed, writeVars, pubVars>>
    BY <1>6 DEF OnBody, ReadHead
  <2>2. req_id = sent[taken].id
    BY <1>6 DEF OnBody
  <2>3. TypeOK'
    BY <2>1 DEF inputVars, writeVars, pubVars
  <2>4. Staged' /\ Timed'
    <3>1. sent' = sent /\ taken' = taken /\ req_id' = req_id /\ reading' # "none"
      BY <2>1 DEF inputVars
    <3> QED
      BY <2>1, <2>2, <3>1
  <2> QED
    BY <1>3, <2>3, <2>4
<1>7. CASE BodyFails
  <2>1. /\ armed' \in BOOLEAN /\ reading' = "none" /\ peer = "gone" /\ complete < taken
        /\ UNCHANGED <<inputVars, taken, handling, req_id, subscribed, due, has_closed, writeVars, pubVars>>
    BY <1>7 DEF BodyFails
  <2>2. TypeOK'
    BY <2>1 DEF inputVars, writeVars, pubVars
  <2>3. Staged' /\ Timed'
    <3>1. handling = 0
      BY <1>7 DEF BodyFails
    <3> QED
      BY <2>1, <3>1 DEF inputVars
  <2> QED
    BY <1>3, <2>2, <2>3
<1>8. CASE Aborted
  <2>1. armed' \in BOOLEAN
    BY <1>8 DEF Aborted
  <2> QED
    BY <1>3, <1>8, <2>1 DEF Aborted, inputVars, writeVars, pubVars
<1> QED
  BY <1>4, <1>5, <1>6, <1>7, <1>8

LEMMA WriteStep ==
  ASSUME IInv, Network \/ OnWritten \/ OnWriteFailed
  PROVE  IInv'
<1> USE DEF IInv
<1>1. UNCHANGED <<inputVars, readVars, timerVars, pubVars>> /\ (has_closed => has_closed')
      /\ has_closed' \in BOOLEAN
  BY DEF TypeOK, Network, Transmit, WriteFails, OnWritten, OnWriteFailed
<1>2. Staged' /\ Timed'
  BY <1>1 DEF Staged, Timed, inputVars, readVars, timerVars
<1>3. SUFFICES /\ Queued'
               /\ write_queue' \in Seq(Message) /\ delivered' \in Seq(Message) /\ header' \in Nat
               /\ wire' \subseteq [message : Message, state : {"pending", "done", "failed"}]
  BY <1>1, <1>2 DEF TypeOK, inputVars, readVars, timerVars, pubVars
<1>4. /\ write_queue \in Seq(Message) /\ delivered \in Seq(Message) /\ header \in Nat
      /\ wire \subseteq [message : Message, state : {"pending", "done", "failed"}]
      /\ sent' = sent
  BY <1>1 DEF TypeOK, inputVars
<1>5. CASE Transmit
  <2>1. PICK w \in wire :
          /\ w.state = "pending" /\ wire' = (wire \ {w}) \cup {[w EXCEPT !.state = "done"]}
          /\ delivered' = IF peer = "up"
                          THEN Append(delivered, [id |-> header, of |-> w.message.of,
                                                  result |-> w.message.result])
                          ELSE delivered
          /\ UNCHANGED <<has_closed, write_queue, header>>
    BY <1>5 DEF Transmit
  <2>2. wire' = {[w EXCEPT !.state = "done"]} /\ w.message \in Message
    BY <1>4, <2>1 DEF Queued
  <2> DEFINE d == [id |-> header, of |-> w.message.of, result |-> w.message.result]
  <2>3. d \in Message /\ Matches(d, sent)
    BY <1>4, <2>1, <2>2 DEF Queued, Message, Matches
  <2>4. delivered' \in Seq(Message) /\ \A i \in DOMAIN delivered' : Matches(delivered'[i], sent)
    <3>1. CASE delivered' = delivered
      BY <1>4, <3>1 DEF Queued
    <3>2. CASE delivered' = Append(delivered, d)
      BY <1>4, <2>3, <3>2 DEF Queued
    <3> QED
      BY <2>1, <3>1, <3>2
  <2>5. wire' \subseteq [message : Message, state : {"pending", "done", "failed"}]
    BY <1>4, <2>1, <2>2
  <2>6. \A v \in wire' : Matches(v.message, sent) /\ v.state = "done"
    BY <1>4, <2>1, <2>2 DEF Queued
  <2>7. Queued'
    BY <1>4, <2>1, <2>2, <2>4, <2>6 DEF Queued
  <2> QED
    BY <1>4, <2>1, <2>4, <2>5, <2>7
<1>6. CASE WriteFails
  <2>1. PICK w \in wire :
          /\ w.state = "pending" /\ wire' = (wire \ {w}) \cup {[w EXCEPT !.state = "failed"]}
          /\ UNCHANGED <<has_closed, write_queue, header, delivered>>
    BY <1>6 DEF WriteFails
  <2>2. wire' = {[w EXCEPT !.state = "failed"]} /\ w.message \in Message
    BY <1>4, <2>1 DEF Queued
  <2>3. wire' \subseteq [message : Message, state : {"pending", "done", "failed"}]
    BY <1>4, <2>1, <2>2
  <2>4. \A v \in wire' : Matches(v.message, sent) /\ v.state = "failed"
    BY <1>4, <2>1, <2>2 DEF Queued
  <2>5. Queued'
    BY <1>4, <2>1, <2>2, <2>4 DEF Queued
  <2> QED
    BY <1>4, <2>1, <2>3, <2>5
<1>7. CASE OnWritten
  <2>1. PICK w \in wire :
          /\ write_queue' = IF has_closed THEN write_queue ELSE Tail(write_queue)
          /\ IF has_closed \/ Tail(write_queue) = <<>>
             THEN wire' = wire \ {w} /\ UNCHANGED header
             ELSE Begin(wire \ {w}, Tail(write_queue))
    BY <1>7 DEF OnWritten
  <2>2. delivered' = delivered /\ has_closed' = has_closed /\ wire \ {w} = {} /\ write_queue # <<>>
    BY <1>7 DEF OnWritten, Queued
  <2>3. /\ Tail(write_queue) \in Seq(Message)
        /\ \A i \in DOMAIN Tail(write_queue) : Matches(Tail(write_queue)[i], sent)
    BY <1>4, <2>2 DEF Queued
  <2>4. CASE has_closed \/ Tail(write_queue) = <<>>
    <3>1. wire' = {} /\ header' = header
      BY <2>1, <2>2, <2>4
    <3>2. write_queue' \in Seq(Message) /\ \A i \in DOMAIN write_queue' : Matches(write_queue'[i], sent)
      <4>1. CASE has_closed
        BY <1>4, <2>1, <4>1 DEF Queued
      <4>2. CASE ~has_closed
        BY <2>1, <2>3, <4>2
      <4> QED
        BY <4>1, <4>2
    <3>3. ~has_closed' => write_queue' = <<>>
      BY <2>1, <2>2, <2>4
    <3> QED
      BY <1>4, <2>2, <3>1, <3>2, <3>3 DEF Queued
  <2>5. CASE ~has_closed /\ Tail(write_queue) # <<>>
    <3> DEFINE m == Tail(write_queue)[1]
    <3>1. wire' = {[message |-> m, state |-> "pending"]} /\ header' = m.id
          /\ write_queue' = Tail(write_queue)
      BY <2>1, <2>2, <2>5 DEF Begin
    <3>2. m \in Message /\ Matches(m, sent)
      BY <2>3, <2>5, FirstMatches
    <3> HIDE DEF m
    <3>3. wire' \subseteq [message : Message, state : {"pending", "done", "failed"}] /\ header' \in Nat
      BY <3>1, <3>2 DEF Message
    <3>4. \A v \in wire' : Matches(v.message, sent) /\ header' = v.message.id
      BY <3>1, <3>2
    <3> QED
      BY <1>4, <2>2, <2>3, <2>5, <3>1, <3>3, <3>4 DEF Queued
  <2> QED
    BY <2>4, <2>5
<1>8. CASE OnWriteFailed
  <2>1. /\ wire' \subseteq wire /\ has_closed'
        /\ UNCHANGED <<write_queue, header, delivered>>
    BY <1>8 DEF OnWriteFailed
  <2> QED
    BY <1>4, <2>1 DEF Queued
<1> QED
  BY <1>5, <1>6, <1>7, <1>8 DEF Network

IsReq(f) == f.kind \in {"call", "bad_call"}

LEMMA RouteStep ==
  ASSUME IInv, Route
  PROVE  IInv'
<1> USE ConnectionAssumption DEF IInv
<1>1. handling # 0 /\ handling' = 0 /\ UNCHANGED <<inputVars, taken, reading, req_id, timerVars, has_closed, pubVars>>
  BY DEF Route
<1>2. Staged' /\ Timed'
  BY <1>1 DEF Staged, Timed, inputVars, timerVars
<1>3. handling \in 1 .. Len(sent) /\ handling \in 0 .. MaxSent /\ sent[handling] \in Frame
  BY <1>1 DEF TypeOK
<1>4. CASE IsReq(sent[handling])
  <2> DEFINE m == [id |-> req_id, of |-> handling, result |-> Result(sent[handling])]
  <2>1. Response(m) /\ subscribed' = subscribed
    BY <1>4 DEF Route, IsReq
  <2>2. m \in Message /\ Matches(m, sent)
    BY <1>1, <1>3 DEF TypeOK, Staged, Message, Matches, Result
  <2>3. delivered' = delivered /\ UNCHANGED <<sent, has_closed>>
    BY <1>1, <2>1 DEF Response, inputVars
  <2> QED
    BY <1>1, <1>2, <2>1, <2>2, <2>3, ResponseKeeps DEF TypeOK, inputVars, timerVars, pubVars
<1>5. CASE ~IsReq(sent[handling])
  <2>1. subscribed' \in BOOLEAN /\ UNCHANGED writeVars
    BY <1>5 DEF Route, IsReq, TypeOK
  <2>2. Queued'
    BY <1>1, <2>1 DEF Queued, inputVars, writeVars
  <2> QED
    BY <1>1, <1>2, <2>1, <2>2 DEF TypeOK, inputVars, timerVars, writeVars, pubVars
<1> QED
  BY <1>4, <1>5

LEMMA PublishStep ==
  ASSUME IInv, Publisher
  PROVE  IInv'
<1> USE ConnectionAssumption DEF IInv
<1>1. UNCHANGED <<inputVars, readVars, timerVars, has_closed>>
  BY DEF Publisher, StartPublish, Publish
<1>2. Staged' /\ Timed'
  BY <1>1 DEF Staged, Timed, inputVars, readVars, timerVars
<1>3. publishing' \in BOOLEAN /\ published' \in 0 .. MaxPublished
  <2>1. CASE StartPublish
    BY <2>1 DEF StartPublish, TypeOK
  <2>2. CASE Publish
    BY <2>2 DEF Publish, TypeOK
  <2> QED
    BY <2>1, <2>2 DEF Publisher
<1>4. CASE StartPublish
  <2>1. UNCHANGED writeVars
    BY <1>4 DEF StartPublish
  <2>2. Queued'
    BY <1>1, <2>1 DEF Queued, inputVars, writeVars
  <2> QED
    BY <1>1, <1>2, <1>3, <2>1, <2>2 DEF TypeOK, inputVars, readVars, timerVars, writeVars
<1>5. CASE Publish
  <2> DEFINE m == [id |-> 0, of |-> 0, result |-> "OK"]
  <2>1. m \in Message /\ Matches(m, sent)
    BY DEF TypeOK, Message, Matches
  <2>2. Response(m) /\ delivered' = delivered /\ UNCHANGED <<sent, has_closed>>
    BY <1>1, <1>5 DEF Publish, Response, inputVars
  <2> QED
    BY <1>1, <1>2, <1>3, <2>1, <2>2, ResponseKeeps DEF TypeOK, inputVars, readVars, timerVars
<1> QED
  BY <1>4, <1>5 DEF Publisher

LEMMA TimerStep ==
  ASSUME IInv, Expire \/ OnTimeout
  PROVE  IInv'
<1> USE DEF IInv, TypeOK, Queued, Staged, Timed
<1>1. CASE Expire
  BY <1>1 DEF Expire, inputVars, readVars, writeVars, pubVars
<1>2. CASE OnTimeout
  BY <1>2 DEF OnTimeout, inputVars, readVars, writeVars, pubVars
<1> QED
  BY <1>1, <1>2
-----------------------------------------------------------------------------
(* The inductive invariant holds in every state.                           *)
THEOREM ConnectionSafety == Spec => []IInv
<1>1. IInv /\ [Next]_vars => IInv'
  <2> SUFFICES ASSUME IInv, [Next]_vars
               PROVE  IInv'
    OBVIOUS
  <2>1. CASE Next
    BY <2>1, PeerStep, ReadStep, WriteStep, RouteStep, PublishStep, TimerStep DEF Next, IoThread
  <2>2. CASE UNCHANGED vars
    BY <2>2 DEF IInv, TypeOK, Queued, Staged, Timed, vars, inputVars, readVars, timerVars,
       writeVars, pubVars
  <2> QED
    BY <2>1, <2>2
<1> QED
  BY <1>1, InitHolds, PTL DEF Spec

(* Every variable keeps its type, and the reader does not overtake the     *)
(* peer.                                                                   *)
THEOREM ConnectionTypes == Spec => []TypeOK
<1>1. IInv => TypeOK
  BY DEF IInv
<1> QED
  BY <1>1, ConnectionSafety, PTL

(* Every answer that reaches the client carries the id of its own call.    *)
THEOREM AnswersOwn == Spec => []AnswersMatch
<1>1. IInv => AnswersMatch
  BY DEF IInv, TypeOK, Queued, Matches, AnswersMatch
<1> QED
  BY <1>1, ConnectionSafety, PTL

(* response() and on_write(), between any threads, never leave the queue   *)
(* of an open connection without a write, and never begin a second one.    *)
THEOREM OneWrite == Spec => []NeverStalls
<1>1. IInv => NeverStalls
  BY DEF IInv, Queued, NeverStalls
<1> QED
  BY <1>1, ConnectionSafety, PTL

(* An open connection has a timer, or its peer hung up within a body.      *)
THEOREM EveryoneWatched == Spec => []Watched
<1>1. IInv => Watched
  BY DEF IInv, Timed, Watched, Abandoned
<1> QED
  BY <1>1, ConnectionSafety, PTL
-----------------------------------------------------------------------------
(* What the refinement of RpcChannel needs besides.  The frames up to Upto *)
(* have been dealt with: read, and routed if they are calls.               *)
Upto == IF reading = "body" \/ handling # 0 THEN taken - 1 ELSE taken

HasSubscribed == \E i \in 1 .. complete : sent[i].kind = "subscribe"

(* An answer is that of a call that was dealt with, a publication that of  *)
(* a subscriber.                                                           *)
Valid(m) ==
  /\ m.of = 0 => m.result = "OK" /\ HasSubscribed
  /\ m.of # 0 => /\ m.of <= Upto /\ m.of <= complete
                 /\ IsReq(sent[m.of]) /\ m.result = Result(sent[m.of])

Progress ==
  /\ \A i \in DOMAIN write_queue : Valid(write_queue[i])
  /\ \A w \in wire : Valid(w.message)
  /\ \A i \in DOMAIN delivered : Valid(delivered[i])
  /\ handling <= complete
  /\ handling # 0 => reading # "body"
  /\ subscribed \/ publishing => HasSubscribed

(* The head of the queue stays there until on_write() has seen its write.  *)
Done == \E w \in wire : w.state = "done"

Waiting == {i \in DOMAIN write_queue : Done => i # 1}

(* While client and connection are both there, what waits in the queue     *)
(* continues what was delivered, in the order of the calls and with no     *)
(* call left out.                                                          *)
HeadWritten ==
  \A w \in wire : w.state # "failed" /\ write_queue # <<>> /\ w.message = write_queue[1]

Later == \A i \in Waiting, k \in DOMAIN delivered :
           write_queue[i].of # 0 => delivered[k].of < write_queue[i].of

Ascending == \A i, k \in Waiting :
               i < k /\ write_queue[k].of # 0 => write_queue[i].of < write_queue[k].of

Covered == \A n \in 1 .. Upto : IsReq(sent[n]) =>
             \/ \E k \in DOMAIN delivered : delivered[k].of = n
             \/ \E i \in Waiting : write_queue[i].of = n

InOrder == ~has_closed /\ peer = "up" => HeadWritten /\ Later /\ Ascending /\ Covered

Last(n) ==
  /\ n = 0 \/ \E i \in DOMAIN delivered : delivered[i].of = n
  /\ \A i \in DOMAIN delivered : delivered[i].of <= n

RInv == Progress /\ InOrder /\ \E n \in 0 .. MaxSent : Last(n)

(* Nothing that was dealt with is undone.                                  *)
Grows ==
  /\ \A i \in 1 .. Len(sent) : sent'[i] = sent[i]
  /\ complete <= complete' /\ Upto <= Upto'

LEMMA UptoType ==
  ASSUME IInv
  PROVE  Upto \in 0 .. taken /\ taken \in 0 .. Len(sent) /\ Len(sent) \in Nat /\ complete \in 0 .. Len(sent)
BY DEF IInv, TypeOK, Staged, Upto

(* So a valid message stays valid.                                         *)
LEMMA ValidStays ==
  ASSUME IInv, NEW m \in Message, Valid(m), Grows, complete' \in Nat, Upto' \in Nat
  PROVE  Valid(m)'
<1>1. Upto \in 0 .. taken /\ complete \in 0 .. Len(sent) /\ Len(sent) \in Nat
  BY UptoType
<1>2. HasSubscribed => HasSubscribed'
  BY <1>1 DEF HasSubscribed, Grows
<1>3. m.of \in Nat
  BY ConnectionAssumption DEF Message
<1>4. CASE m.of = 0
  BY <1>2, <1>4 DEF Valid
<1>5. CASE m.of # 0
  BY <1>1, <1>3, <1>5 DEF Valid, Grows
<1> QED
  BY <1>4, <1>5

(* The messages of the queue, of the wire and of the peer.                 *)
LEMMA MessageTypes ==
  ASSUME IInv
  PROVE  /\ \A i \in DOMAIN write_queue : write_queue[i] \in Message
         /\ \A i \in DOMAIN delivered : delivered[i] \in Message
         /\ \A w \in wire : w.message \in Message
BY DEF IInv, TypeOK
-----------------------------------------------------------------------------
(* The steps of the peer, the reads and the timer touch no message.        *)
LEMMA QuietProgress ==
  ASSUME IInv, Progress, Grows, UNCHANGED writeVars, complete' \in Nat, Upto' \in Nat,
         handling' <= complete', handling' # 0 => reading' # "body",
         subscribed' \/ publishing' => HasSubscribed \/ HasSubscribed'
  PROVE  Progress'
<1>1. HasSubscribed => HasSubscribed'
  BY UptoType DEF HasSubscribed, Grows
<1>2. UNCHANGED <<write_queue, wire, delivered>>
  BY DEF writeVars
<1>3. ASSUME NEW m \in Message, Valid(m)
      PROVE  Valid(m)'
  BY <1>3, ValidStays
<1>4. /\ \A i \in DOMAIN write_queue' : Valid(write_queue[i])'
      /\ \A w \in wire' : Valid(w.message)'
      /\ \A i \in DOMAIN delivered' : Valid(delivered[i])'
  BY <1>2, <1>3, MessageTypes DEF Progress, Valid
<1> QED
  BY <1>1, <1>4 DEF Progress
LEMMA QuietOrder ==
  ASSUME IInv, InOrder, UNCHANGED writeVars,
         ~has_closed' /\ peer' = "up" =>
           /\ ~has_closed /\ peer = "up"
           /\ \A n \in 1 .. Upto' : IsReq(sent'[n]) => n \in 1 .. Upto /\ sent[n] = sent'[n]
  PROVE  InOrder'
<1>1. SUFFICES ASSUME ~has_closed', peer' = "up"
               PROVE  HeadWritten' /\ Later' /\ Ascending' /\ Covered'
  BY DEF InOrder
<1>2. HeadWritten /\ Later /\ Ascending /\ Covered
  BY <1>1 DEF InOrder
<1>3. UNCHANGED <<write_queue, wire, delivered>> /\ Waiting' = Waiting
  BY DEF writeVars, Waiting, Done
<1>4. HeadWritten' /\ Later' /\ Ascending'
  BY <1>2, <1>3 DEF HeadWritten, Later, Ascending
<1>5. Covered'
  BY <1>1, <1>2, <1>3 DEF Covered
<1> QED
  BY <1>4, <1>5

LEMMA QuietLast ==
  ASSUME \E n \in 0 .. MaxSent : Last(n), UNCHANGED delivered
  PROVE  \E n \in 0 .. MaxSent : Last(n)'
BY DEF Last

(* The peer: it only adds to the input.                                    *)
LEMMA PeerOrder ==
  ASSUME IInv, RInv, Peer
  PROVE  RInv'
<1> USE ConnectionAssumption
<1>1. UNCHANGED <<readVars, timerVars, has_closed, writeVars, pubVars>> /\ Upto' = Upto
  BY DEF Peer, SendHead, SendBody, HangUp, Upto, readVars
<1>2. /\ \A i \in 1 .. Len(sent) : sent'[i] = sent[i]
      /\ complete <= complete' /\ complete' \in Nat
      /\ peer' = "up" => peer = "up"
  <2>1. CASE SendHead
    <3>1. PICK f \in Frame : /\ sent' = Append(sent, f)
                             /\ complete' = IF f.kind \in Bodiless THEN complete + 1 ELSE complete
      BY <2>1 DEF SendHead
    <3> QED
      BY <2>1, <3>1 DEF SendHead, IInv, TypeOK
  <2>2. CASE SendBody \/ HangUp
    BY <2>2 DEF SendBody, HangUp, IInv, TypeOK
  <2> QED
    BY <2>1, <2>2 DEF Peer
<1>3. Upto \in 0 .. taken /\ taken \in 0 .. Len(sent) /\ Len(sent) \in Nat /\ handling \in Nat
      /\ complete \in Nat
  BY UptoType DEF IInv, TypeOK
<1>4. Grows
  BY <1>1, <1>2, <1>3 DEF Grows
<1>5. Progress'
  BY <1>1, <1>2, <1>3, <1>4, QuietProgress DEF RInv, Progress, readVars, pubVars
<1>6. InOrder'
  BY <1>1, <1>2, <1>3, QuietOrder DEF RInv
<1>7. \E n \in 0 .. MaxSent : Last(n)'
  BY <1>1, QuietLast DEF RInv, writeVars
<1> QED
  BY <1>5, <1>6, <1>7 DEF RInv

(* Reading: a call counts as dealt with only when it has been routed.      *)
LEMMA ReadOrder ==
  ASSUME IInv, RInv, OnHead \/ HeadFails \/ OnBody \/ BodyFails \/ Aborted
  PROVE  RInv'
<1>0. /\ Upto \in 0 .. taken /\ taken \in 0 .. Len(sent) /\ Len(sent) \in Nat /\ complete \in 0 .. Len(sent)
      /\ handling = 0
  BY UptoType DEF OnHead, HeadFails, OnBody, BodyFails, Aborted, IoThreadFree
<1>1. UNCHANGED <<inputVars, subscribed, writeVars, pubVars>> /\ (has_closed => has_closed')
  BY DEF OnHead, HeadFails, OnBody, BodyFails, Aborted
<1>2. /\ Upto' \in Nat /\ Upto <= Upto' /\ handling' <= complete /\ (handling' # 0 => reading' # "body")
      /\ ~has_closed' /\ peer = "up" => \A n \in 1 .. Upto' : IsReq(sent[n]) => n \in 1 .. Upto
  <2>1. CASE OnHead
    <3> DEFINE f == sent[taken + 1]
    <3>1. taken' = taken + 1 /\ handling' = 0 /\ Upto = taken
      BY <1>0, <2>1 DEF OnHead, Upto
    <3>2. CASE f.kind \in {"alien", "huge"}
      BY <1>0, <2>1, <3>1, <3>2 DEF OnHead, Upto
    <3>3. CASE f.kind = "heartbeat"
      <4>1. reading' = "head"
        BY <2>1, <3>3 DEF OnHead, ReadHead
      <4>2. Upto' = taken + 1 /\ ~IsReq(sent[taken + 1])
        BY <3>1, <3>3, <4>1 DEF Upto, IsReq
      <4> QED
        BY <1>0, <3>1, <4>2
    <3>4. CASE f.kind \notin {"alien", "huge", "heartbeat"}
      <4>1. reading' = "body"
        BY <2>1, <3>4 DEF OnHead
      <4>2. Upto' = taken
        BY <1>0, <3>1, <4>1 DEF Upto
      <4> QED
        BY <1>0, <3>1, <4>2
    <3> QED
      BY <3>2, <3>3, <3>4
  <2>2. CASE HeadFails
    BY <1>0, <2>2 DEF HeadFails, Upto
  <2>3. CASE OnBody
    <3>1. taken # 0 /\ reading = "body" /\ reading' = "head" /\ handling' = taken /\ taken' = taken /\ taken <= complete
      BY <2>3 DEF OnBody, ReadHead, IInv, Staged
    <3> QED
      BY <1>0, <3>1 DEF Upto
  <2>4. CASE BodyFails
    BY <1>0, <2>4 DEF BodyFails, Upto
  <2>5. CASE Aborted
    BY <1>0, <2>5 DEF Aborted, Upto
  <2> QED
    BY <2>1, <2>2, <2>3, <2>4, <2>5
<1>3. Grows
  BY <1>1, <1>2, <1>0 DEF Grows, inputVars
<1>4. Progress'
  BY <1>0, <1>1, <1>2, <1>3, QuietProgress DEF RInv, Progress, inputVars, pubVars
<1>5. InOrder'
  BY <1>1, <1>2, QuietOrder DEF RInv, inputVars
<1>6. \E n \in 0 .. MaxSent : Last(n)'
  BY <1>1, QuietLast DEF RInv, writeVars
<1> QED
  BY <1>4, <1>5, <1>6 DEF RInv

(* The timer, and a publication that begins.                               *)
LEMMA IdleOrder ==
  ASSUME IInv, RInv, Expire \/ OnTimeout \/ StartPublish
  PROVE  RInv'
<1>0. /\ Upto \in 0 .. taken /\ taken \in 0 .. Len(sent) /\ Len(sent) \in Nat /\ complete \in 0 .. Len(sent)
  BY UptoType
<1>1. /\ UNCHANGED <<inputVars, readVars, writeVars>> /\ (has_closed => has_closed') /\ Upto' = Upto
      /\ publishing' => publishing \/ subscribed
  BY DEF Expire, OnTimeout, StartPublish, pubVars, Upto, readVars
<1>2. Grows
  BY <1>0, <1>1 DEF Grows, inputVars
<1>3. Progress'
  BY <1>0, <1>1, <1>2, QuietProgress DEF RInv, Progress, inputVars, readVars
<1>4. InOrder'
  BY <1>1, QuietOrder DEF RInv, inputVars
<1>5. \E n \in 0 .. MaxSent : Last(n)'
  BY <1>1, QuietLast DEF RInv, writeVars
<1> QED
  BY <1>3, <1>4, <1>5 DEF RInv
-----------------------------------------------------------------------------
(* response() puts the answer of the next call behind those of the calls   *)
(* before it, or a publication anywhere among them.                        *)
LEMMA ResponseOrder ==
  ASSUME IInv, RInv, NEW m \in Message, Response(m), UNCHANGED <<inputVars, has_closed>>,
         Valid(m)', Grows, Upto' \in Nat,
         IF m.of = 0 THEN Upto' = Upto ELSE m.of = Upto + 1 /\ Upto' = m.of,
         handling' <= complete, handling' # 0 => reading' # "body",
         subscribed' \/ publishing' => HasSubscribed
  PROVE  RInv'
<1> DEFINE n == Len(write_queue)
           q == write_queue
<1>0. /\ q \in Seq(Message) /\ delivered \in Seq(Message) /\ n \in Nat
      /\ Upto \in Nat /\ complete \in Nat
      /\ \A i \in DOMAIN q : q[i].of \in Nat /\ q[i].of <= Upto
      /\ \A i \in DOMAIN delivered : delivered[i].of \in Nat /\ delivered[i].of <= Upto
      /\ m.of \in Nat
  <2>1. \A k \in Message : k.of \in Nat
    BY ConnectionAssumption DEF Message
  <2>2. q \in Seq(Message) /\ delivered \in Seq(Message) /\ Upto \in Nat /\ complete \in Nat
    BY UptoType DEF IInv, TypeOK
  <2>3. \A i \in DOMAIN q : q[i].of \in Nat /\ q[i].of <= Upto
    BY <2>1, <2>2, MessageTypes DEF RInv, Progress, Valid
  <2>4. \A i \in DOMAIN delivered : delivered[i].of \in Nat /\ delivered[i].of <= Upto
    BY <2>1, <2>2, MessageTypes DEF RInv, Progress, Valid
  <2> QED
    BY <2>1, <2>2, <2>3, <2>4
<1>1. /\ write_queue' = Append(q, m) /\ delivered' = delivered
      /\ UNCHANGED <<sent, complete, peer, has_closed>>
  BY DEF Response, inputVars
<1>2. /\ Len(write_queue') = n + 1 /\ DOMAIN write_queue' = 1 .. n + 1 /\ DOMAIN q = 1 .. n
      /\ write_queue'[n + 1] = m /\ \A i \in 1 .. n : write_queue'[i] = q[i]
  BY <1>0, <1>1
<1>3. IF n = 0 THEN q = <<>> /\ wire = {} /\ wire' = {[message |-> m, state |-> "pending"]}
               ELSE q # <<>> /\ wire' = wire
  <2>1. CASE n = 0
    <3>1. q = <<>> /\ wire = {}
      BY <1>0, <2>1 DEF IInv, Queued
    <3>2. Begin({}, Append(q, m))
      BY <1>1, <3>1 DEF Response
    <3>3. Append(q, m)[1] = m
      BY <1>1, <1>2, <2>1
    <3> QED
      BY <2>1, <3>1, <3>2, <3>3 DEF Begin
  <2>2. CASE n # 0
    BY <1>0, <2>2 DEF Response
  <2> QED
    BY <2>1, <2>2
<1>4. ASSUME NEW k \in Message, Valid(k)
      PROVE  Valid(k)'
  BY <1>0, <1>1, <1>4, ValidStays
<1>5. Progress'
  <2>1. \A i \in DOMAIN write_queue' : Valid(write_queue[i])'
    <3>1. \A i \in 1 .. n : write_queue'[i] \in Message /\ Valid(write_queue'[i])
      BY <1>2, MessageTypes DEF RInv, Progress
    <3> QED
      BY <1>2, <1>4, <3>1 DEF Valid
  <2>2. \A w \in wire' : Valid(w.message)'
    <3>1. \A w \in wire' : w.message = m \/ (w.message \in Message /\ Valid(w.message))
      BY <1>3, MessageTypes DEF RInv, Progress
    <3> QED
      BY <1>4, <3>1 DEF Valid
  <2>3. \A i \in DOMAIN delivered' : Valid(delivered[i])'
    BY <1>1, <1>4, MessageTypes DEF RInv, Progress, Valid
  <2>4. HasSubscribed' <=> HasSubscribed
    BY <1>1 DEF HasSubscribed
  <2> QED
    BY <1>1, <2>1, <2>2, <2>3, <2>4 DEF Progress
<1>6. InOrder'
  <2>1. SUFFICES ASSUME ~has_closed, peer = "up"
                 PROVE  HeadWritten' /\ Later' /\ Ascending' /\ Covered'
    BY <1>1 DEF InOrder
  <2>2. HeadWritten /\ Later /\ Ascending /\ Covered
    BY <2>1 DEF RInv, InOrder
  <2>3. Waiting' = Waiting \cup {n + 1} /\ Waiting \subseteq 1 .. n
    <3>1. CASE n = 0
      BY <1>2, <1>3, <3>1 DEF Waiting, Done
    <3>2. CASE n # 0
      BY <1>0, <1>2, <1>3, <3>2 DEF Waiting, Done
    <3> QED
      BY <3>1, <3>2
  <2>4. HeadWritten'
    <3>1. CASE n = 0
      <4>1. write_queue' # <<>> /\ write_queue'[1] = m
        <5>1. n + 1 = 1
          BY <3>1
        <5>2. write_queue'[1] = m
          BY <1>2, <5>1
        <5>3. write_queue' # <<>>
          BY <1>0, <1>1
        <5> QED
          BY <5>2, <5>3
      <4>2. \A w \in wire' : w.state = "pending" /\ w.message = m
        BY <1>3, <3>1
      <4> QED
        BY <4>1, <4>2 DEF HeadWritten
    <3>2. CASE n # 0
      BY <1>0, <1>2, <1>3, <2>2, <3>2 DEF HeadWritten
    <3> QED
      BY <3>1, <3>2
  <2>5. Later'
    <3>1. SUFFICES ASSUME NEW i \in Waiting', NEW k \in DOMAIN delivered, write_queue'[i].of # 0
                   PROVE  delivered[k].of < write_queue'[i].of
      BY <1>1 DEF Later
    <3>2. CASE i = n + 1
      BY <1>0, <1>2, <3>1, <3>2
    <3>3. CASE i # n + 1
      BY <1>2, <2>2, <2>3, <3>1, <3>3 DEF Later
    <3> QED
      BY <3>2, <3>3
  <2>6. Ascending'
    <3>1. SUFFICES ASSUME NEW i \in Waiting', NEW k \in Waiting', i < k, write_queue'[k].of # 0
                   PROVE  write_queue'[i].of < write_queue'[k].of
      BY DEF Ascending
    <3>2. CASE k = n + 1
      <4>1. i \in 1 .. n
        BY <1>0, <2>3, <3>1, <3>2
      <4> QED
        BY <1>0, <1>2, <3>1, <3>2, <4>1
    <3>3. CASE k # n + 1
      <4> HIDE DEF n, q
      <4>0. n \in Nat
        BY <1>0
      <4>1. k \in Waiting /\ k \in 1 .. n /\ i \in 1 .. n + 1
        BY <2>3, <3>1, <3>3, <4>0
      <4>2. i \in Waiting /\ i \in 1 .. n
        BY <2>3, <3>1, <4>0, <4>1
      <4>3. write_queue'[i] = q[i] /\ write_queue'[k] = q[k]
        BY <1>2, <4>1, <4>2
      <4> QED
        BY <2>2, <3>1, <4>1, <4>2, <4>3 DEF Ascending, q
    <3> QED
      BY <3>2, <3>3
  <2>7. Covered'
    <3>1. SUFFICES ASSUME NEW k \in 1 .. Upto', IsReq(sent[k])
                   PROVE  \/ \E i \in DOMAIN delivered : delivered[i].of = k
                          \/ \E i \in Waiting' : write_queue'[i].of = k
      BY <1>1 DEF Covered
    <3>2. CASE k \in 1 .. Upto
      BY <1>2, <2>2, <2>3, <3>1, <3>2 DEF Covered
    <3>3. CASE k = m.of
      BY <1>2, <2>3, <3>3
    <3> QED
      BY <1>0, <3>1, <3>2, <3>3
  <2> QED
    BY <2>4, <2>5, <2>6, <2>7
<1>7. \E k \in 0 .. MaxSent : Last(k)'
  BY <1>1, QuietLast DEF RInv
<1> QED
  BY <1>5, <1>6, <1>7 DEF RInv

LEMMA RouteOrder ==
  ASSUME IInv, RInv, Route
  PROVE  RInv'
<1> USE ConnectionAssumption
<1>0. /\ taken \in 0 .. Len(sent) /\ Len(sent) \in Nat /\ complete \in 0 .. Len(sent)
      /\ handling = taken /\ taken # 0 /\ handling <= complete /\ reading # "body" /\ req_id \in Nat
      /\ sent[handling] \in Frame /\ handling \in 0 .. MaxSent
  BY UptoType DEF Route, IInv, TypeOK, Staged, RInv, Progress
<1>1. /\ handling' = 0 /\ UNCHANGED <<inputVars, taken, reading, has_closed, pubVars>>
  BY DEF Route
<1>2. Upto = taken - 1 /\ Upto' = taken
  BY <1>0, <1>1 DEF Upto
<1>3. Grows
  BY <1>0, <1>1, <1>2 DEF Grows, inputVars
<1>4. HasSubscribed' <=> HasSubscribed
  BY <1>1 DEF HasSubscribed, inputVars
<1>5. CASE IsReq(sent[handling])
  <2>1. PICK m \in Message : /\ Response(m) /\ subscribed' = subscribed
                             /\ m.of = taken /\ m.result = Result(sent[taken])
    <3>1. [id |-> req_id, of |-> handling, result |-> Result(sent[handling])] \in Message
      BY <1>0 DEF Message, Result
    <3> QED
      BY <1>0, <1>5, <3>1 DEF Route, IsReq
  <2>3. Valid(m)'
    BY <1>0, <1>1, <1>2, <1>5, <2>1 DEF Valid, inputVars
  <2> QED
    BY <1>0, <1>1, <1>2, <1>3, <1>4, <2>1, <2>3, ResponseOrder DEF RInv, Progress, pubVars, inputVars
<1>6. CASE ~IsReq(sent[handling])
  <2>1. UNCHANGED writeVars /\ subscribed' = (subscribed \/ sent[handling].kind = "subscribe")
    BY <1>6 DEF Route, IsReq
  <2>2. subscribed' => HasSubscribed
    <3>1. handling \in 1 .. complete
      BY <1>0
    <3> QED
      BY <2>1, <3>1, Zenon DEF RInv, Progress, HasSubscribed
  <2>3. Progress'
    BY <1>0, <1>1, <1>2, <1>3, <2>1, <2>2, QuietProgress DEF RInv, Progress, inputVars, pubVars
  <2>4. InOrder'
    BY <1>0, <1>1, <1>2, <1>6, <2>1, QuietOrder DEF RInv, inputVars
  <2> QED
    BY <2>1, <2>3, <2>4, QuietLast DEF RInv, writeVars
<1> QED
  BY <1>5, <1>6

LEMMA PublishOrder ==
  ASSUME IInv, RInv, Publish
  PROVE  RInv'
<1> DEFINE m == [id |-> 0, of |-> 0, result |-> "OK"]
<1>0. /\ Upto \in 0 .. taken /\ taken \in 0 .. Len(sent) /\ Len(sent) \in Nat /\ complete \in 0 .. Len(sent)
  BY UptoType
<1>1. /\ Response(m) /\ publishing /\ ~publishing'
      /\ UNCHANGED <<inputVars, readVars, has_closed>> /\ Upto' = Upto
  BY DEF Publish, Upto, readVars
<1>2. m \in Message /\ m.of = 0 /\ m.result = "OK"
  BY ConnectionAssumption DEF Message
<1> HIDE DEF m
<1>3. HasSubscribed /\ HasSubscribed'
  BY <1>1 DEF RInv, Progress, HasSubscribed, inputVars
<1>4. Valid(m)'
  BY <1>2, <1>3 DEF Valid
<1>5. Grows
  BY <1>0, <1>1 DEF Grows, inputVars
<1> QED
  BY <1>0, <1>1, <1>2, <1>3, <1>4, <1>5, ResponseOrder DEF RInv, Progress, readVars
-----------------------------------------------------------------------------
(* A write reaches the peer: the next answer, or a publication.            *)
TransmitOne(w) ==
  /\ w \in wire /\ w.state = "pending" /\ wire' = {[w EXCEPT !.state = "done"]}
  /\ delivered' = IF peer = "up"
                  THEN Append(delivered, [id |-> w.message.id, of |-> w.message.of,
                                          result |-> w.message.result])
                  ELSE delivered
  /\ ~has_closed
  /\ UNCHANGED <<inputVars, readVars, timerVars, has_closed, write_queue, header, pubVars>>

LEMMA TransmitShape ==
  ASSUME IInv, Transmit
  PROVE  \E w : TransmitOne(w)
BY DEF Transmit, TransmitOne, IInv, Queued

LEMMA TransmitOrder ==
  ASSUME IInv, RInv, NEW w, TransmitOne(w)
  PROVE  RInv'
<1> DEFINE n == Len(delivered)
           d == [id |-> w.message.id, of |-> w.message.of, result |-> w.message.result]
<1>0. /\ write_queue \in Seq(Message) /\ delivered \in Seq(Message) /\ n \in Nat
      /\ w \in [message : Message, state : {"pending", "done", "failed"}]
      /\ d \in Message /\ Valid(d) /\ Upto \in Nat /\ complete \in Nat
      /\ \A k \in Message : k.of \in Nat
      /\ ~Done /\ Waiting = DOMAIN write_queue
  <2>1. w \in [message : Message, state : {"pending", "done", "failed"}] /\ Valid(w.message)
    BY DEF TransmitOne, IInv, TypeOK, RInv, Progress
  <2>2. d \in Message /\ d.of = w.message.of /\ d.result = w.message.result
    BY <2>1 DEF Message
  <2>3. Valid(d)
    BY <2>1, <2>2 DEF Valid
  <2>4. ~Done
    BY DEF TransmitOne, IInv, Queued, Done
  <2>5. \A k \in Message : k.of \in Nat
    BY ConnectionAssumption DEF Message
  <2>6. write_queue \in Seq(Message) /\ delivered \in Seq(Message)
    BY DEF IInv, TypeOK
  <2>7. n \in Nat
    BY <2>6
  <2>8. Upto \in Nat /\ complete \in Nat
    BY UptoType
  <2>9. Waiting = DOMAIN write_queue
    BY <2>4 DEF Waiting
  <2> QED
    BY <2>1, <2>2, <2>3, <2>4, <2>5, <2>6, <2>7, <2>8, <2>9
<1>1. /\ UNCHANGED <<sent, complete, peer, taken, reading, handling, subscribed, publishing, has_closed, write_queue>>
      /\ Upto' = Upto /\ (HasSubscribed' <=> HasSubscribed) /\ ~has_closed
  BY DEF TransmitOne, inputVars, readVars, pubVars, Upto, HasSubscribed
<1>2. Done' /\ Waiting' = {i \in DOMAIN write_queue : i # 1}
  <2>1. [w EXCEPT !.state = "done"].state = "done"
    BY <1>0
  <2> QED
    BY <1>1, <2>1 DEF TransmitOne, Done, Waiting
<1>3. delivered' = delivered \/ (peer = "up" /\ delivered' = Append(delivered, d))
  BY DEF TransmitOne
<1>4. \A i \in DOMAIN delivered' : delivered'[i] = d \/ (i \in DOMAIN delivered /\ delivered'[i] = delivered[i])
  BY <1>0, <1>3
<1>5. ASSUME NEW m \in Message, Valid(m)
      PROVE  Valid(m)'
  BY <1>1, <1>5 DEF Valid
<1>6. Progress'
  <2>1. \A i \in DOMAIN write_queue' : Valid(write_queue[i])'
    BY <1>1, <1>5, MessageTypes DEF RInv, Progress, Valid
  <2>2. \A v \in wire' : Valid(v.message)'
    <3>1. \A v \in wire' : v.message = w.message
      BY <1>0 DEF TransmitOne
    <3>2. w.message \in Message /\ Valid(w.message)
      BY <1>0 DEF TransmitOne, RInv, Progress
    <3>3. \A v \in wire' : v.message \in Message /\ Valid(v.message)
      BY <3>1, <3>2
    <3> QED
      BY <1>5, <3>3 DEF Valid
  <2>3. \A i \in DOMAIN delivered' : Valid(delivered[i])'
    <3>1. \A i \in DOMAIN delivered' : delivered'[i] \in Message /\ Valid(delivered'[i])
      BY <1>0, <1>4, MessageTypes DEF RInv, Progress
    <3> QED
      BY <1>5, <3>1 DEF Valid
  <2> QED
    BY <1>1, <2>1, <2>2, <2>3 DEF RInv, Progress
<1>7. ASSUME peer = "up"
      PROVE  /\ write_queue # <<>> /\ w.message = write_queue[1] /\ 1 \in DOMAIN write_queue
             /\ d.of = write_queue[1].of
             /\ HeadWritten /\ Later /\ Ascending /\ Covered
             /\ delivered' = Append(delivered, d) /\ n + 1 \in DOMAIN delivered' /\ delivered'[n + 1] = d
             /\ \A i \in DOMAIN delivered : i \in DOMAIN delivered' /\ delivered'[i] = delivered[i]
  <2>1. HeadWritten /\ Later /\ Ascending /\ Covered
    BY <1>1, <1>7 DEF RInv, InOrder
  <2>2. write_queue # <<>> /\ w.message = write_queue[1]
    BY <2>1 DEF TransmitOne, HeadWritten
  <2>3. 1 \in DOMAIN write_queue
    BY <1>0, <2>2
  <2>4. delivered' = Append(delivered, d)
    BY <1>7 DEF TransmitOne
  <2>5. n + 1 \in DOMAIN delivered' /\ delivered'[n + 1] = d
        /\ \A i \in DOMAIN delivered : i \in DOMAIN delivered' /\ delivered'[i] = delivered[i]
    BY <1>0, <2>4
  <2> QED
    BY <2>1, <2>2, <2>3, <2>4, <2>5
<1>8. InOrder'
  <2>1. SUFFICES ASSUME peer = "up"
                 PROVE  HeadWritten' /\ Later' /\ Ascending' /\ Covered'
    BY <1>1 DEF InOrder
  <2> HIDE DEF d
  <2>2. HeadWritten'
    BY <1>0, <1>1, <1>7, <2>1 DEF HeadWritten, TransmitOne
  <2>3. Later'
    <3>1. SUFFICES ASSUME NEW i \in Waiting', NEW k \in DOMAIN delivered', write_queue[i].of # 0
                   PROVE  delivered'[k].of < write_queue[i].of
      BY <1>1 DEF Later
    <3>2. i \in Waiting /\ i # 1 /\ i \in Nat /\ 1 < i
      BY <1>0, <1>2
    <3>3. CASE delivered'[k] = d
      BY <1>0, <1>7, <2>1, <3>1, <3>2, <3>3 DEF Ascending
    <3>4. CASE k \in DOMAIN delivered /\ delivered'[k] = delivered[k]
      BY <1>7, <2>1, <3>1, <3>2, <3>4 DEF Later
    <3> QED
      BY <1>4, <3>3, <3>4
  <2>4. Ascending'
    BY <1>0, <1>1, <1>2, <1>7, <2>1 DEF Ascending
  <2>5. Covered'
    <3>1. SUFFICES ASSUME NEW k \in 1 .. Upto, IsReq(sent[k])
                   PROVE  \/ \E i \in DOMAIN delivered' : delivered'[i].of = k
                          \/ \E i \in Waiting' : write_queue[i].of = k
      BY <1>1 DEF Covered
    <3>2. CASE \E i \in DOMAIN delivered : delivered[i].of = k
      BY <1>7, <2>1, <3>2
    <3>3. CASE \E i \in Waiting : write_queue[i].of = k
      BY <1>0, <1>2, <1>7, <2>1, <3>3
    <3> QED
      BY <1>7, <2>1, <3>1, <3>2, <3>3 DEF Covered
  <2> QED
    BY <2>2, <2>3, <2>4, <2>5
<1>9. \E k \in 0 .. MaxSent : Last(k)'
  <2>1. PICK k \in 0 .. MaxSent : Last(k)
    BY DEF RInv
  <2> HIDE DEF d
  <2>2. CASE delivered' = delivered
    BY <2>1, <2>2 DEF Last
  <2>3. CASE delivered' = Append(delivered, d)
    <3>0. n + 1 \in DOMAIN delivered' /\ delivered'[n + 1] = d
          /\ \A i \in DOMAIN delivered : i \in DOMAIN delivered' /\ delivered'[i] = delivered[i]
      BY <1>0, <2>3
    <3>1. d.of \in 0 .. MaxSent /\ \A i \in DOMAIN delivered : delivered[i].of \in Nat /\ delivered[i].of <= k
      BY <1>0, <2>1, MessageTypes DEF Last, Message
    <3>2. CASE d.of <= k
      BY <1>4, <2>1, <3>0, <3>1, <3>2 DEF Last
    <3>3. CASE ~(d.of <= k)
      <4>1. \A i \in DOMAIN delivered' : delivered'[i].of <= d.of
        BY <1>4, <2>1, <3>1, <3>3
      <4> QED
        BY <3>0, <3>1, <4>1 DEF Last
    <3> QED
      BY <3>2, <3>3
  <2> QED
    BY <1>3, <2>2, <2>3
<1> QED
  BY <1>6, <1>8, <1>9 DEF RInv

LEMMA FailOrder ==
  ASSUME IInv, RInv, WriteFails \/ OnWriteFailed
  PROVE  RInv'
<1>1. /\ UNCHANGED <<inputVars, readVars, write_queue, delivered, pubVars>> /\ Upto' = Upto
      /\ (HasSubscribed' <=> HasSubscribed) /\ (has_closed' \/ peer' = "gone")
  BY DEF WriteFails, OnWriteFailed, inputVars, readVars, Upto, HasSubscribed
<1>2. ASSUME NEW m \in Message, Valid(m)
      PROVE  Valid(m)'
  BY <1>1, <1>2 DEF Valid, inputVars
<1>3. \A v \in wire' : \E w \in wire : v.message = w.message
  <2>1. CASE WriteFails
    <3>1. PICK w \in wire : wire' = (wire \ {w}) \cup {[w EXCEPT !.state = "failed"]}
      BY <2>1 DEF WriteFails
    <3>2. [w EXCEPT !.state = "failed"].message = w.message
      BY <3>1 DEF IInv, TypeOK
    <3> QED
      BY <3>1, <3>2
  <2>2. CASE OnWriteFailed
    BY <2>2 DEF OnWriteFailed
  <2> QED
    BY <2>1, <2>2
<1>4. Progress'
  <2>1. \A i \in DOMAIN write_queue' : Valid(write_queue[i])'
    BY <1>1, <1>2, MessageTypes DEF RInv, Progress, Valid
  <2>2. \A v \in wire' : Valid(v.message)'
    <3>1. \A v \in wire' : v.message \in Message /\ Valid(v.message)
      BY <1>3, MessageTypes DEF RInv, Progress
    <3> QED
      BY <1>2, <3>1 DEF Valid
  <2>3. \A i \in DOMAIN delivered' : Valid(delivered[i])'
    BY <1>1, <1>2, MessageTypes DEF RInv, Progress, Valid
  <2> QED
    BY <1>1, <2>1, <2>2, <2>3 DEF RInv, Progress, inputVars, readVars, pubVars
<1>5. InOrder'
  BY <1>1 DEF InOrder
<1> QED
  BY <1>1, <1>4, <1>5, QuietLast DEF RInv

(* on_write() drops the head, which was delivered, and what waits behind   *)
(* it moves up.                                                            *)
LEMMA WrittenOrder ==
  ASSUME IInv, RInv, OnWritten
  PROVE  RInv'
<1> DEFINE q == write_queue
           t == Tail(write_queue)
<1>1. PICK w \in wire :
        /\ w.state = "done"
        /\ write_queue' = IF has_closed THEN q ELSE t
        /\ IF has_closed \/ t = <<>> THEN wire' = wire \ {w} ELSE Begin(wire \ {w}, t)
  BY DEF OnWritten
<1>2. wire \ {w} = {} /\ q # <<>> /\ q \in Seq(Message) /\ Done
  BY <1>1 DEF IInv, Queued, TypeOK, Done
<1>3. /\ Len(q) \in Nat /\ Len(q) # 0 /\ DOMAIN q = 1 .. Len(q) /\ t \in Seq(Message)
      /\ Len(t) = Len(q) - 1 /\ DOMAIN t = 1 .. Len(t)
      /\ \A i \in DOMAIN t : i + 1 \in DOMAIN q /\ i + 1 # 1 /\ t[i] = q[i + 1]
      /\ t # <<>> => 1 \in DOMAIN t
  <2>1. Len(q) \in Nat /\ Len(q) # 0 /\ DOMAIN q = 1 .. Len(q)
    BY <1>2
  <2>2. t \in Seq(Message) /\ Len(t) = Len(q) - 1 /\ DOMAIN t = 1 .. Len(t)
        /\ \A i \in 1 .. Len(t) : t[i] = q[i + 1]
    BY <1>2, <2>1
  <2>3. t # <<>> => Len(t) # 0
    BY <2>2
  <2> QED
    BY <2>1, <2>2, <2>3
<1>4. /\ UNCHANGED <<sent, complete, peer, taken, reading, handling, subscribed, publishing, delivered, has_closed>>
      /\ Upto' = Upto /\ (HasSubscribed' <=> HasSubscribed)
  BY DEF OnWritten, inputVars, readVars, pubVars, Upto, HasSubscribed
<1> HIDE DEF t, q
<1>5. wire' = {} \/ (~has_closed /\ t # <<>> /\ wire' = {[message |-> t[1], state |-> "pending"]})
  BY <1>1, <1>2 DEF Begin
<1>6. ASSUME NEW m \in Message, Valid(m)
      PROVE  Valid(m)'
  BY <1>4, <1>6 DEF Valid
<1>7. /\ \A i \in DOMAIN q : q[i] \in Message /\ Valid(q[i])
      /\ \A i \in DOMAIN t : t[i] \in Message /\ Valid(t[i])
  BY <1>3, MessageTypes DEF RInv, Progress, q
<1>8. Progress'
  <2>1. \A i \in DOMAIN write_queue' : Valid(write_queue[i])'
    <3>1. \A i \in DOMAIN write_queue' : write_queue'[i] \in Message /\ Valid(write_queue'[i])
      BY <1>1, <1>7
    <3> QED
      BY <1>6, <3>1 DEF Valid
  <2>2. \A v \in wire' : Valid(v.message)'
    <3>1. \A v \in wire' : v.message \in Message /\ Valid(v.message)
      BY <1>3, <1>5, <1>7
    <3> QED
      BY <1>6, <3>1 DEF Valid
  <2>3. \A i \in DOMAIN delivered' : Valid(delivered[i])'
    BY <1>4, <1>6, MessageTypes DEF RInv, Progress, Valid
  <2> QED
    BY <1>4, <2>1, <2>2, <2>3 DEF RInv, Progress
<1>9. InOrder'
  <2>1. SUFFICES ASSUME ~has_closed, peer = "up"
                 PROVE  HeadWritten' /\ Later' /\ Ascending' /\ Covered'
    BY <1>4 DEF InOrder
  <2>2. HeadWritten /\ Later /\ Ascending /\ Covered
    BY <2>1 DEF RInv, InOrder
  <2>3. write_queue' = t /\ Waiting' = DOMAIN t
    <3>1. write_queue' = t
      BY <1>1, <2>1
    <3>2. ~Done'
      BY <1>5 DEF Done
    <3> QED
      BY <3>1, <3>2 DEF Waiting
  <2>4. Waiting = {i \in DOMAIN q : i # 1}
    BY <1>2 DEF Waiting, q
  <2>5. \A i \in DOMAIN t : i \in Nat /\ i + 1 \in Waiting /\ t[i] = q[i + 1]
    BY <1>3, <2>4
  <2>6. \A i \in Waiting : i \in Nat /\ i - 1 \in DOMAIN t /\ t[i - 1] = q[i]
    BY <1>3, <2>4
  <2>7. HeadWritten'
    BY <1>5, <2>3 DEF HeadWritten
  <2>8. Later'
    BY <1>4, <2>2, <2>3, <2>5 DEF Later, q
  <2>9. Ascending'
    <3>1. SUFFICES ASSUME NEW i \in DOMAIN t, NEW k \in DOMAIN t, i < k, t[k].of # 0
                   PROVE  t[i].of < t[k].of
      BY <2>3 DEF Ascending
    <3>2. i + 1 \in Waiting /\ k + 1 \in Waiting /\ i + 1 < k + 1
      BY <2>5, <3>1
    <3> QED
      BY <2>2, <2>5, <3>1, <3>2 DEF Ascending, q
  <2>10. Covered'
    <3>1. SUFFICES ASSUME NEW k \in 1 .. Upto, IsReq(sent[k])
                   PROVE  \/ \E i \in DOMAIN delivered : delivered[i].of = k
                          \/ \E i \in DOMAIN t : t[i].of = k
      BY <1>4, <2>3 DEF Covered
    <3> QED
      BY <2>2, <2>6, <3>1 DEF Covered, q
  <2> QED
    BY <2>7, <2>8, <2>9, <2>10
<1> QED
  BY <1>4, <1>8, <1>9, QuietLast DEF RInv
-----------------------------------------------------------------------------
LEMMA InitOrder ==
  ASSUME Init
  PROVE  RInv
<1>1. Progress /\ InOrder
  BY DEF Init, Progress, InOrder, HeadWritten, Later, Ascending, Covered, Waiting, Upto
<1>2. 0 \in 0 .. MaxSent /\ Last(0)
  BY ConnectionAssumption DEF Init, Last
<1> QED
  BY <1>1, <1>2 DEF RInv

LEMMA StutterOrder ==
  ASSUME RInv, UNCHANGED vars
  PROVE  RInv'
BY DEF RInv, Progress, Valid, HasSubscribed, Upto, InOrder, HeadWritten, Later, Ascending, Covered,
       Waiting, Done, Last, vars, inputVars, readVars, timerVars, writeVars, pubVars

(* Answers keep the order of the calls and leave none out, whatever is     *)
(* queued, on the wire and delivered.                                      *)
THEOREM ConnectionOrder == Spec => [](IInv /\ RInv)
<1>1. RInv /\ IInv /\ [Next]_vars => RInv'
  <2> SUFFICES ASSUME RInv, IInv, [Next]_vars
               PROVE  RInv'
    OBVIOUS
  <2>1. CASE Peer \/ Expire
    BY <2>1, PeerOrder, IdleOrder
  <2>2. CASE IoThread
    BY <2>2, ReadOrder, WrittenOrder, FailOrder, RouteOrder, IdleOrder DEF IoThread
  <2>3. CASE Network
    BY <2>3, TransmitShape, TransmitOrder, FailOrder DEF Network
  <2>4. CASE Publisher
    BY <2>4, PublishOrder, IdleOrder DEF Publisher
  <2>5. CASE UNCHANGED vars
    BY <2>5, StutterOrder
  <2> QED
    BY <2>1, <2>2, <2>3, <2>4, <2>5 DEF Next
<1> QED
  BY <1>1, InitOrder, ConnectionSafety, PTL DEF Spec
-----------------------------------------------------------------------------
(* The refinement mapping.                                                 *)
LEMMA AppendIs ==
  ASSUME NEW S, NEW n \in Nat, NEW r \in [1 .. n -> S], NEW s \in [1 .. n + 1 -> S],
         \A i \in 1 .. n : s[i] = r[i]
  PROVE  s = Append(r, s[n + 1])
<1>1. r \in Seq(S) /\ Len(r) = n
  <2>1. r \in Seq(S)
    BY SeqDef
  <2> QED
    BY <2>1, LenProperties
<1>2. s[n + 1] \in S
  OBVIOUS
<1>3. s \in Seq(S) /\ Len(s) = n + 1
  <2>1. s \in Seq(S)
    BY SeqDef, n + 1 \in Nat
  <2> QED
    BY <2>1, LenProperties
<1> DEFINE t == Append(r, s[n + 1])
<1>4. t \in Seq(S) /\ Len(t) = n + 1 /\ \A i \in 1 .. n + 1 : s[i] = t[i]
  BY <1>1, <1>2
<1> HIDE DEF t
<1>5. s = t
  BY <1>3, <1>4, SeqEqual
<1> QED
  BY <1>5 DEF t

LEMMA LastOne ==
  ASSUME NEW d \in Seq(Message), NEW m \in 0 .. MaxSent, NEW n \in 0 .. MaxSent,
         m = 0 \/ \E i \in DOMAIN d : d[i].of = m, \A i \in DOMAIN d : d[i].of <= m,
         n = 0 \/ \E i \in DOMAIN d : d[i].of = n, \A i \in DOMAIN d : d[i].of <= n
  PROVE  m = n
BY ConnectionAssumption

LEMMA LastIs ==
  ASSUME NEW n \in 0 .. MaxSent, delivered \in Seq(Message), Last(n)
  PROVE  LastAnswered = n
<1>1. LastAnswered \in 0 .. MaxSent /\ Last(LastAnswered)
  BY Zenon DEF LastAnswered, Last
<1> QED
  BY <1>1, LastOne DEF Last

LEMMA LastIsNext ==
  ASSUME NEW n \in 0 .. MaxSent, (delivered \in Seq(Message))', Last(n)'
  PROVE  LastAnswered' = n
<1>1. LastAnswered' \in 0 .. MaxSent /\ Last(LastAnswered)'
  BY Zenon DEF LastAnswered, Last
<1> QED
  BY <1>1, LastOne DEF Last

LEMMA RequestsKept ==
  ASSUME IInv, complete' = complete, \A i \in 1 .. complete : sent'[i] = sent[i]
  PROVE  Requests' = Requests
BY DEF Requests

LEMMA RequestsGrow ==
  ASSUME IInv, complete' = complete + 1, sent' \in Seq(Frame), complete' \in 0 .. Len(sent'),
         \A i \in 1 .. complete : sent'[i] = sent[i]
  PROVE  \E f \in Frame : Requests' = Append(Requests, f)
<1>1. complete \in Nat /\ sent \in Seq(Frame) /\ complete \in 0 .. Len(sent)
  BY DEF IInv, TypeOK
<1>2. Requests \in [1 .. complete -> Frame]
  BY <1>1 DEF Requests
<1>3. Requests' \in [1 .. complete + 1 -> Frame]
  BY <1>1 DEF Requests
<1>4. \A i \in 1 .. complete : Requests'[i] = Requests[i]
  BY <1>1 DEF Requests
<1>5. Requests'[complete + 1] \in Frame
  BY <1>1, <1>3
<1>6. Requests' = Append(Requests, Requests'[complete + 1])
  BY <1>1, <1>2, <1>3, <1>4, AppendIs
<1> QED
  BY <1>5, <1>6

(* A step that neither sends a frame to its end nor delivers a message.    *)
LEMMA QuietStep ==
  ASSUME IInv, IInv', complete' = complete, \A i \in 1 .. complete : sent'[i] = sent[i],
         delivered' = delivered, has_closed => has_closed'
  PROVE  Channel!Close \/ UNCHANGED Channel!channelVars
<1>1. Requests' = Requests
  BY RequestsKept
<1>2. Received' = Received /\ LastAnswered' = LastAnswered
  BY DEF Received, LastAnswered
<1>3. has_closed \in BOOLEAN /\ has_closed' \in BOOLEAN
  BY DEF IInv, TypeOK
<1>4. CASE has_closed' = has_closed
  BY <1>1, <1>2, <1>4 DEF Channel!channelVars
<1>5. CASE ~has_closed /\ has_closed'
  BY <1>1, <1>2, <1>5 DEF Channel!Close
<1> QED
  BY <1>3, <1>4, <1>5

LEMMA PeerMaps ==
  ASSUME IInv, IInv', Peer
  PROVE  Channel!Ask \/ Channel!Close \/ UNCHANGED Channel!channelVars
<1>1. /\ sent \in Seq(Frame) /\ complete \in Nat /\ complete \in 0 .. Len(sent) /\ complete + 1 >= Len(sent)
      /\ sent' \in Seq(Frame) /\ complete' \in 0 .. Len(sent')
  BY DEF IInv, TypeOK
<1>2. UNCHANGED <<delivered, has_closed>>
  BY DEF Peer, SendHead, SendBody, HangUp, writeVars
<1>3. (complete' = complete \/ complete' = complete + 1) /\ \A i \in 1 .. complete : sent'[i] = sent[i]
  BY <1>1 DEF Peer, SendHead, SendBody, HangUp
<1>4. CASE complete' = complete
  BY <1>2, <1>3, <1>4, QuietStep
<1>5. CASE complete' = complete + 1
  <2>1. \E f \in Frame : Requests' = Append(Requests, f)
    BY <1>1, <1>3, <1>5, RequestsGrow
  <2>2. Received' = Received /\ LastAnswered' = LastAnswered
    BY <1>2 DEF Received, LastAnswered
  <2> QED
    BY <1>2, <2>1, <2>2 DEF Channel!Ask
<1> QED
  BY <1>3, <1>4, <1>5

LEMMA TransmitMaps ==
  ASSUME IInv, IInv', RInv, NEW w, TransmitOne(w), peer = "up"
  PROVE  Channel!Reply \/ Channel!Push
<1> DEFINE n == Len(delivered)
           i == w.message.of
           d == [id |-> w.message.id, of |-> i, result |-> w.message.result]
           r == [id |-> w.message.id, result |-> w.message.result]
<1>1. /\ delivered \in Seq(Message) /\ delivered' \in Seq(Message) /\ delivered' = Append(delivered, d)
      /\ UNCHANGED <<sent, complete, has_closed>> /\ ~has_closed
  BY DEF IInv, TypeOK, TransmitOne, inputVars
<1>2. w.message \in Message /\ Valid(w.message) /\ Matches(w.message, sent)
  BY MessageTypes DEF TransmitOne, RInv, Progress, IInv, Queued
<1>3. /\ i \in 0 .. MaxSent /\ Upto \in 0 .. taken /\ taken \in 0 .. Len(sent)
      /\ Len(sent) \in Nat /\ complete \in 0 .. Len(sent)
  BY <1>2, UptoType DEF Message
<1>4. d \in Message /\ d.of = i /\ n \in Nat /\ Len(delivered') = n + 1 /\ delivered'[n + 1] = d
      /\ DOMAIN delivered = 1 .. n /\ DOMAIN delivered' = 1 .. n + 1
      /\ \A k \in 1 .. n : delivered'[k] = delivered[k] /\ delivered[k].of \in Nat
  <2>1. d \in Message /\ d.of = i
    BY <1>2 DEF Message
  <2>2. \A k \in DOMAIN delivered : delivered[k].of \in Nat
    BY <1>1, ConnectionAssumption, MessageTypes DEF Message
  <2> QED
    BY <1>1, <2>1, <2>2
<1>5. Received' = Append(Received, r)
  <2> DEFINE S == [id : Nat, result : {"OK", "FAIL"}]
  <2>1. \A m \in Message : [id |-> m.id, result |-> m.result] \in S
    BY DEF Message
  <2>2. \A k \in 1 .. n : delivered[k] \in Message /\ delivered'[k] = delivered[k]
    BY <1>1, <1>4
  <2>3. \A k \in 1 .. n + 1 : delivered'[k] \in Message
    BY <1>1, <1>4
  <2> HIDE DEF S
  <2>4. Received \in [1 .. n -> S] /\ Received' \in [1 .. n + 1 -> S]
    BY <1>4, <2>1, <2>2, <2>3 DEF Received
  <2>5. \A k \in 1 .. n : Received'[k] = Received[k]
    BY <1>4 DEF Received
  <2>6. Received'[n + 1] = r
    BY <1>4 DEF Received
  <2> QED
    BY <1>4, <2>4, <2>5, <2>6, AppendIs
<1>6. Requests' = Requests /\ DOMAIN Requests = 1 .. complete /\ \A k \in 1 .. complete : Requests[k] = sent[k]
  BY <1>1 DEF Requests
<1>7. PICK m \in 0 .. MaxSent : Last(m)
  BY DEF RInv
<1>8. LastAnswered = m /\ m \in Nat
  BY <1>1, <1>7, LastIs, ConnectionAssumption
<1>9. CASE i = 0
  <2>1. Last(m)'
    BY <1>4, <1>7, <1>8, <1>9 DEF Last
  <2>2. LastAnswered' = LastAnswered
    BY <1>1, <1>8, <2>1, LastIsNext
  <2>3. r = [id |-> 0, result |-> "OK"]
    BY <1>2, <1>9 DEF Valid, Matches
  <2>4. \E k \in DOMAIN Requests : Requests[k].kind = "subscribe"
    BY <1>2, <1>6, <1>9 DEF Valid, HasSubscribed
  <2> QED
    BY <1>1, <1>5, <1>6, <2>2, <2>3, <2>4 DEF Channel!Push, Channel!Pushed
<1>10. CASE i # 0
  <2>1. i \in 1 .. complete /\ i <= Upto /\ IsReq(sent[i])
        /\ r = [id |-> sent[i].id, result |-> Result(sent[i])]
    BY <1>2, <1>3, <1>10 DEF Valid, Matches
  <2>2. HeadWritten /\ Later /\ Ascending /\ Covered
    BY DEF RInv, InOrder, TransmitOne
  <2>3. write_queue \in Seq(Message) /\ write_queue # <<>> /\ write_queue[1].of = i
    BY <2>2 DEF HeadWritten, TransmitOne, IInv, TypeOK
  <2>4. 1 \in Waiting /\ Waiting \subseteq DOMAIN write_queue /\ \A j \in Waiting : j \in Nat /\ 1 <= j
    <3>1. ~Done
      BY DEF TransmitOne, IInv, Queued, Done
    <3> QED
      BY <2>3, <3>1 DEF Waiting
  <2>5. \A k \in DOMAIN delivered : delivered[k].of < i
    BY <1>10, <2>2, <2>3, <2>4 DEF Later
  <2>6. m < i
    BY <1>3, <1>7, <1>8, <1>10, <2>5 DEF Last
  <2>7. ASSUME NEW k \in 1 .. complete, m < k, k < i
        PROVE  ~IsReq(sent[k])
    <3>1. SUFFICES ASSUME IsReq(sent[k])
                   PROVE  FALSE
      OBVIOUS
    <3>2. k \in 1 .. Upto
      BY <1>3, <2>1, <2>7
    <3>3. CASE \E j \in DOMAIN delivered : delivered[j].of = k
      BY <1>7, <1>8, <2>7, <3>3 DEF Last
    <3>4. CASE \E j \in Waiting : write_queue[j].of = k
      <4>1. PICK j \in Waiting : write_queue[j].of = k
        BY <3>4
      <4>2. j # 1
        BY <1>3, <2>3, <2>7, <4>1
      <4>3. i < k
        BY <2>2, <2>3, <2>4, <2>7, <4>1, <4>2 DEF Ascending
      <4> QED
        BY <1>3, <2>7, <4>3
    <3> QED
      BY <2>2, <3>1, <3>2, <3>3, <3>4 DEF Covered
  <2>8. Channel!NextCall(i)
    BY <1>6, <1>8, <2>1, <2>6, <2>7 DEF Channel!NextCall, Channel!IsCall, IsReq
  <2>9. LastAnswered' = i
    <3>1. Last(i)'
      <4>1. n + 1 \in DOMAIN delivered' /\ delivered'[n + 1].of = i
        BY <1>4
      <4>2. ASSUME NEW k \in DOMAIN delivered'
            PROVE  delivered'[k].of <= i
        <5>1. CASE k = n + 1
          BY <1>3, <4>1, <5>1
        <5>2. CASE k # n + 1
          <6>1. k \in DOMAIN delivered /\ delivered'[k] = delivered[k] /\ delivered[k].of \in Nat
            BY <1>4, <4>2, <5>2
          <6> QED
            BY <1>3, <2>5, <6>1
        <5> QED
          BY <5>1, <5>2
      <4> QED
        BY <4>1, <4>2 DEF Last
    <3>2. i \in 0 .. MaxSent
      BY <1>3
    <3>3. (delivered \in Seq(Message))'
      BY <1>1
    <3> QED
      BY <3>1, <3>2, <3>3, LastIsNext
  <2>10. r = [id |-> Requests[i].id, result |-> Channel!Result(Requests[i])]
    BY <1>6, <2>1 DEF Result, Channel!Result
  <2> HIDE DEF i, r
  <2> QED
    BY <1>1, <1>5, <1>6, <2>1, <2>8, <2>9, <2>10 DEF Channel!Reply
<1> QED
  BY <1>9, <1>10

(* The connection keeps what RpcChannel promises: each call is answered    *)
(* once, in the order of the calls, with the result of its own handler.    *)
THEOREM KeepsItsPromise == Spec => KeepsPromise
<1>1. Init => Channel!Init
  <2> SUFFICES ASSUME Init
               PROVE  Channel!Init
    OBVIOUS
  <2>1. Requests = <<>> /\ Received = <<>> /\ ~has_closed
    BY DEF Init, Requests, Received
  <2>2. LastAnswered = 0
    <3>1. Last(0) /\ 0 \in 0 .. MaxSent /\ delivered \in Seq(Message)
      BY ConnectionAssumption DEF Init, Last
    <3> QED
      BY <3>1, LastIs
  <2> QED
    BY <2>1, <2>2 DEF Channel!Init
<1>2. /\ IInv /\ RInv /\ IInv' /\ [Next]_vars => [Channel!Next]_(Channel!channelVars)
  <2> SUFFICES ASSUME IInv, RInv, IInv', [Next]_vars
               PROVE  Channel!Next \/ UNCHANGED Channel!channelVars
    OBVIOUS
  <2>1. CASE Peer
    BY <2>1, PeerMaps DEF Channel!Next
  <2>2. CASE Transmit
    <3>1. PICK w : TransmitOne(w)
      BY <2>2, TransmitShape
    <3>2. CASE peer = "up"
      BY <3>1, <3>2, TransmitMaps DEF Channel!Next
    <3>3. CASE peer # "up"
      <4>1. UNCHANGED <<sent, complete, delivered, has_closed>>
        BY <3>1, <3>3 DEF TransmitOne, inputVars
      <4> QED
        BY <4>1, QuietStep DEF Channel!Next
    <3> QED
      BY <3>2, <3>3
  <2>3. CASE IoThread \/ WriteFails \/ Publisher \/ Expire \/ UNCHANGED vars
    <3>1. UNCHANGED <<inputVars, delivered>> /\ (has_closed => has_closed')
      <4>1. CASE OnHead \/ HeadFails \/ OnBody \/ BodyFails \/ Aborted
        BY <4>1 DEF OnHead, HeadFails, OnBody, BodyFails, Aborted, writeVars
      <4>2. CASE OnWritten \/ OnWriteFailed \/ WriteFails
        BY <4>2 DEF OnWritten, OnWriteFailed, WriteFails
      <4>3. CASE Route \/ Publisher
        BY <4>3 DEF Route, Publisher, StartPublish, Publish, Response, writeVars
      <4>4. CASE OnTimeout \/ Expire \/ UNCHANGED vars
        BY <4>4 DEF OnTimeout, Expire, vars, writeVars
      <4> QED
        BY <2>3, <4>1, <4>2, <4>3, <4>4 DEF IoThread
    <3> QED
      BY <3>1, QuietStep DEF Channel!Next, inputVars
  <2> QED
    BY <2>1, <2>2, <2>3 DEF Next, Network
<1>3. Spec => [](IInv /\ RInv)
  BY ConnectionOrder
<1> QED
  BY <1>1, <1>2, <1>3, PTL DEF Spec, KeepsPromise, Channel!Spec
=============================================================================
