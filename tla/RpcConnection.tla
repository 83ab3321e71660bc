--------------------------- MODULE RpcConnection ---------------------------
(***************************************************************************)
(* The server's end of one connection: reading frames, routing them,       *)
(* writing the answers, and the timer that closes a silent connection.     *)
(* Handlers of the io thread run one at a time; a publisher on another     *)
(* thread shares the queue of answers with them.                           *)
(***************************************************************************)
EXTENDS Naturals, Sequences

CONSTANTS Id,           (* request ids, chosen by the client                 *)
          MaxSent,      (* bound: frames the client sends                    *)
          MaxPublished  (* bound: publications                               *)

ASSUME ConnectionAssumption ==
  /\ Id \subseteq Nat
  /\ MaxSent \in Nat /\ MaxPublished \in Nat

(* A frame has a head and, if it is none of Bodiless, a body.              *)
(*   call, bad_call   a request; its handler returns, throws or is unknown *)
(*   subscribe        with a body that unpacks, or one that does not       *)
(*   alien, huge      the magic number or the length of the body is wrong  *)
Kinds == {"call", "bad_call", "subscribe", "bad_subscribe", "heartbeat", "alien", "huge"}
Bodiless == {"heartbeat", "alien", "huge"}
Frame == [id : Id, kind : Kinds]

VARIABLES sent,         (* the frames whose head the peer has sent           *)
          complete,     (* how many of them were sent to the end             *)
          peer,         (* "up", or "gone" after it hung up                  *)
          taken,        (* how many heads have been read                     *)
          reading,      (* the outstanding read: "head", "body" or "none"    *)
          handling,     (* the number of the frame being routed, or 0        *)
          req_id,
          armed,        (* timer_ has a wait outstanding                     *)
          due,          (* the handler of an expired wait is queued          *)
          has_closed,
          write_queue,
          wire,         (* the writes handed to asio and not yet handled     *)
          header,       (* req_id of header_                                 *)
          delivered,    (* what has reached the peer                         *)
          subscribed, publishing, published

inputVars == <<sent, complete, peer>>
readVars  == <<taken, reading, handling, req_id, subscribed>>
timerVars == <<armed, due>>
writeVars == <<write_queue, wire, header, delivered>>
pubVars   == <<publishing, published>>
vars == <<inputVars, readVars, timerVars, has_closed, writeVars, pubVars>>

Init ==
  /\ sent = <<>> /\ complete = 0 /\ peer = "up"
  /\ taken = 0 /\ reading = "head" /\ handling = 0 /\ req_id = 0 /\ subscribed = FALSE
  /\ armed = TRUE /\ due = FALSE /\ has_closed = FALSE
  /\ write_queue = <<>> /\ wire = {} /\ header = 0 /\ delivered = <<>>
  /\ publishing = FALSE /\ published = 0
-----------------------------------------------------------------------------
(* The peer.                                                               *)
SendHead ==
  /\ peer = "up" /\ complete = Len(sent) /\ Len(sent) < MaxSent
  /\ \E f \in Frame :
       /\ sent' = Append(sent, f)
       /\ complete' = IF f.kind \in Bodiless THEN complete + 1 ELSE complete
  /\ UNCHANGED <<peer, readVars, timerVars, has_closed, writeVars, pubVars>>

SendBody ==
  /\ peer = "up" /\ complete < Len(sent)
  /\ complete' = Len(sent)
  /\ UNCHANGED <<sent, peer, readVars, timerVars, has_closed, writeVars, pubVars>>

HangUp ==
  /\ peer = "up" /\ peer' = "gone"
  /\ UNCHANGED <<sent, complete, readVars, timerVars, has_closed, writeVars, pubVars>>
-----------------------------------------------------------------------------
(* Reading. A read cut off by close() ends in a handler that only returns. *)
(* Mutants: an io context run by two threads, a timer that is not renewed. *)
IoThreadPair == TRUE
IoThreadFree == handling = 0

ReadHeadUnwatched == reading' = "head" /\ armed' = FALSE

ReadHead == reading' = "head" /\ armed' = TRUE

OnHead ==
  /\ IoThreadFree /\ reading = "head" /\ ~has_closed /\ taken < Len(sent)
  /\ taken' = taken + 1
  /\ LET f == sent[taken + 1]
     IN  /\ req_id' = IF f.kind = "alien" THEN req_id ELSE f.id
         /\ CASE f.kind \in {"alien", "huge"} ->
                   reading' = "none" /\ has_closed' = TRUE /\ UNCHANGED armed
              [] f.kind = "heartbeat" -> ReadHead /\ UNCHANGED has_closed
              [] OTHER -> reading' = "body" /\ UNCHANGED <<armed, has_closed>>
  /\ UNCHANGED <<inputVars, handling, subscribed, due, writeVars, pubVars>>

HeadFails ==
  /\ IoThreadFree /\ reading = "head" /\ ~has_closed
  /\ peer = "gone" /\ taken = Len(sent)
  /\ reading' = "none" /\ has_closed' = TRUE
  /\ UNCHANGED <<inputVars, taken, handling, req_id, subscribed, timerVars, writeVars, pubVars>>

OnBody ==
  /\ IoThreadFree /\ reading = "body" /\ ~has_closed /\ taken <= complete
  /\ ReadHead
  /\ handling' = taken
  /\ UNCHANGED <<inputVars, taken, req_id, subscribed, due, has_closed, writeVars, pubVars>>

(* The connection stays open, without a timer and without a read.          *)
BodyFails ==
  /\ IoThreadFree /\ reading = "body" /\ ~has_closed
  /\ peer = "gone" /\ complete < taken
  /\ reading' = "none" /\ armed' = FALSE
  /\ UNCHANGED <<inputVars, taken, handling, req_id, subscribed, due, has_closed, writeVars, pubVars>>

Aborted ==
  /\ IoThreadFree /\ has_closed /\ reading # "none"
  /\ reading' = "none"
  /\ armed' = (armed /\ reading = "head")
  /\ UNCHANGED <<inputVars, taken, handling, req_id, subscribed, due, has_closed, writeVars, pubVars>>
-----------------------------------------------------------------------------
(* Writing: a write is begun when it will be the only one.                 *)
Begin(others, queue) ==
  /\ wire' = others \cup {[message |-> queue[1], state |-> "pending"]}
  /\ header' = queue[1].id

(* Mutants: response() that writes although a write is outstanding, that    *)
(* puts the last answer first, and that never begins a write.               *)
ResponseAlways(message) ==
  /\ write_queue' = Append(write_queue, message)
  /\ Begin(wire, <<message>>) /\ UNCHANGED delivered

ResponseFirst(message) ==
  /\ write_queue' = <<message>> \o write_queue
  /\ IF write_queue = <<>> THEN Begin(wire, <<message>>) ELSE UNCHANGED <<wire, header>>
  /\ UNCHANGED delivered

ResponseNever(message) ==
  /\ write_queue' = Append(write_queue, message)
  /\ UNCHANGED <<wire, header, delivered>>

Response(message) ==
  /\ write_queue' = Append(write_queue, message)
  /\ IF write_queue = <<>> THEN Begin(wire, <<message>>) ELSE UNCHANGED <<wire, header>>
  /\ UNCHANGED delivered

Transmit ==
  /\ ~has_closed
  /\ \E w \in wire :
       /\ w.state = "pending"
       /\ wire' = (wire \ {w}) \cup {[w EXCEPT !.state = "done"]}
       /\ delivered' = IF peer = "up"
                       THEN Append(delivered, [id |-> header, of |-> w.message.of,
                                               result |-> w.message.result])
                       ELSE delivered
  /\ UNCHANGED <<inputVars, readVars, timerVars, has_closed, write_queue, header, pubVars>>

WriteFails ==
  /\ has_closed \/ peer = "gone"
  /\ \E w \in wire :
       /\ w.state = "pending"
       /\ wire' = (wire \ {w}) \cup {[w EXCEPT !.state = "failed"]}
  /\ UNCHANGED <<inputVars, readVars, timerVars, has_closed, write_queue, header, delivered, pubVars>>

OnWritten ==
  /\ IoThreadFree
  /\ \E w \in wire :
       /\ w.state = "done"
       /\ write_queue' = IF has_closed THEN write_queue ELSE Tail(write_queue)
       /\ IF has_closed \/ Tail(write_queue) = <<>>
          THEN wire' = wire \ {w} /\ UNCHANGED header
          ELSE Begin(wire \ {w}, Tail(write_queue))
  /\ UNCHANGED <<inputVars, readVars, timerVars, has_closed, delivered, pubVars>>

OnWriteFailed ==
  /\ IoThreadFree
  /\ \E w \in wire : w.state = "failed" /\ wire' = wire \ {w}
  /\ has_closed' = TRUE
  /\ UNCHANGED <<inputVars, readVars, timerVars, write_queue, header, delivered, pubVars>>
-----------------------------------------------------------------------------
(* router::route runs the handler and answers under request_id(), the id   *)
(* of the last head that was read; subscriptions are not answered.         *)
(* Mutant: the result of a handler that throws is sent as it was left.     *)
ResultUnset(f) == IF f.kind = "call" THEN "OK" ELSE ""
Result(f) == IF f.kind = "call" THEN "OK" ELSE "FAIL"

Route ==
  /\ handling # 0 /\ handling' = 0
  /\ LET f == sent[handling]
     IN  IF f.kind \in {"call", "bad_call"}
         THEN /\ Response([id |-> req_id, of |-> handling, result |-> Result(f)])
              /\ UNCHANGED subscribed
         ELSE /\ subscribed' = (subscribed \/ f.kind = "subscribe")
              /\ UNCHANGED writeVars
  /\ UNCHANGED <<inputVars, taken, reading, req_id, timerVars, has_closed, pubVars>>

(* Another thread publishes: it tests has_closed() first, and answers then. *)
StartPublish ==
  /\ subscribed /\ ~has_closed /\ ~publishing /\ published < MaxPublished
  /\ publishing' = TRUE /\ published' = published + 1
  /\ UNCHANGED <<inputVars, readVars, timerVars, has_closed, writeVars>>

Publish ==
  /\ publishing /\ publishing' = FALSE
  /\ Response([id |-> 0, of |-> 0, result |-> "OK"])
  /\ UNCHANGED <<inputVars, readVars, timerVars, has_closed, published>>
-----------------------------------------------------------------------------
(* The timer. cancel() and a new wait do not take back a handler that is   *)
(* already queued.                                                         *)
Expire ==
  /\ armed /\ armed' = FALSE /\ due' = TRUE
  /\ UNCHANGED <<inputVars, readVars, has_closed, writeVars, pubVars>>

OnTimeout ==
  /\ IoThreadFree /\ due /\ due' = FALSE
  /\ has_closed' = TRUE
  /\ UNCHANGED <<inputVars, readVars, armed, writeVars, pubVars>>

Peer == SendHead \/ SendBody \/ HangUp
IoThread == \/ OnHead \/ HeadFails \/ OnBody \/ BodyFails \/ Aborted
            \/ OnWritten \/ OnWriteFailed \/ Route \/ OnTimeout
Network == Transmit \/ WriteFails
Publisher == StartPublish \/ Publish

Next == Peer \/ IoThread \/ Network \/ Publisher \/ Expire

Spec == Init /\ [][Next]_vars

(* io_context::run takes every queued handler in turn, the kernel sends or *)
(* fails. Nothing is assumed of the peer; that time passes, only by the    *)
(* property that needs it.                                                 *)
FairSpec ==
  /\ Spec
  /\ WF_vars(OnHead) /\ WF_vars(HeadFails) /\ WF_vars(OnBody) /\ WF_vars(BodyFails)
  /\ WF_vars(OnWritten) /\ WF_vars(OnWriteFailed) /\ WF_vars(Route) /\ WF_vars(OnTimeout)
  /\ WF_vars(Network) /\ WF_vars(Publish)
-----------------------------------------------------------------------------
(* Types, with the progress of the reader against what was sent.           *)
Message == [id : Nat, of : 0 .. MaxSent, result : {"OK", "FAIL"}]

TypeOK ==
  /\ sent \in Seq(Frame) /\ Len(sent) <= MaxSent
  /\ complete \in 0 .. Len(sent) /\ complete + 1 >= Len(sent)
  /\ peer \in {"up", "gone"}
  /\ taken \in 0 .. Len(sent)
  /\ reading \in {"none", "head", "body"}
  /\ handling \in 0 .. taken
  /\ req_id \in Nat /\ header \in Nat
  /\ armed \in BOOLEAN /\ due \in BOOLEAN /\ has_closed \in BOOLEAN
  /\ write_queue \in Seq(Message) /\ delivered \in Seq(Message)
  /\ wire \subseteq [message : Message, state : {"pending", "done", "failed"}]
  /\ subscribed \in BOOLEAN /\ publishing \in BOOLEAN /\ published \in 0 .. MaxPublished

(* An answer carries the request id of the call it answers, although       *)
(* req_id_ and header_ are single members that the next head and the next  *)
(* write reuse.                                                            *)
AnswersMatch ==
  \A i \in DOMAIN delivered :
    LET d == delivered[i] IN d.id = (IF d.of = 0 THEN 0 ELSE sent[d.of].id)

(* Of an open connection, a write is outstanding exactly while the queue   *)
(* is not empty, and never two: neither a stall nor interleaved answers.   *)
NeverStalls ==
  /\ \A v, w \in wire : v = w
  /\ ~has_closed => (write_queue = <<>> <=> wire = {})

(* The one way out of the timer's watch: the peer hung up within a body.   *)
Abandoned == ~has_closed /\ reading = "none"

Watched ==
  has_closed \/ armed \/ due \/ (Abandoned /\ peer = "gone" /\ complete < Len(sent))

(* The promise of RpcChannel, for the frames that were sent to the end.    *)
Requests == [i \in 1 .. complete |-> sent[i]]

Received == [i \in DOMAIN delivered |-> [id |-> delivered[i].id, result |-> delivered[i].result]]

LastAnswered ==
  CHOOSE n \in 0 .. MaxSent :
    /\ n = 0 \/ \E i \in DOMAIN delivered : delivered[i].of = n
    /\ \A i \in DOMAIN delivered : delivered[i].of <= n

Channel == INSTANCE RpcChannel
             WITH requests <- Requests, received <- Received, answered <- LastAnswered, open <- ~has_closed

KeepsPromise == Channel!Spec

(* A call of a peer that stays is answered, unless the connection closes:  *)
(* no answer waits for a write that nobody begins.                         *)
Answered(i) == \E k \in DOMAIN delivered : delivered[k].of = i

AnsweredOrClosed ==
  \A i \in 1 .. MaxSent :
    (complete >= i /\ sent[i].kind \in {"call", "bad_call"})
      ~> (Answered(i) \/ has_closed \/ peer = "gone")

(* As time passes, a peer that falls silent is dropped: no path of reads,  *)
(* bodies and heartbeats leaves the connection waiting without a timer.    *)
SilentDropped == WF_vars(Expire) => <>(has_closed \/ Abandoned)
=============================================================================
