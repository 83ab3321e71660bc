----------------------------- MODULE RpcChannel -----------------------------
(***************************************************************************)
(* What a connection of the RPC server promises its client: the calls are  *)
(* answered in the order they came, each once, under its own request id    *)
(* and with the result of its own handler; what comes in between is pushed *)
(* to a client that has subscribed; once closed, it sends nothing.         *)
(***************************************************************************)
EXTENDS Naturals, Sequences

CONSTANT Frame

VARIABLES requests,     (* what the client has sent, in order                *)
          received,     (* what has been sent to the client, in order        *)
          answered,     (* the last request that was answered                *)
          open

channelVars == <<requests, received, answered, open>>

IsCall(f) == f.kind \in {"call", "bad_call"}

Result(f) == IF f.kind = "call" THEN "OK" ELSE "FAIL"

Pushed == [id |-> 0, result |-> "OK"]

(* The first call after the one that was answered last. *)
NextCall(i) ==
  /\ answered < i /\ IsCall(requests[i])
  /\ \A k \in DOMAIN requests : answered < k /\ k < i => ~IsCall(requests[k])

Init == requests = <<>> /\ received = <<>> /\ answered = 0 /\ open = TRUE

Ask == /\ \E f \in Frame : requests' = Append(requests, f)
       /\ UNCHANGED <<received, answered, open>>

Reply == /\ open
         /\ \E i \in DOMAIN requests :
              /\ NextCall(i)
              /\ received' = Append(received, [id |-> requests[i].id, result |-> Result(requests[i])])
              /\ answered' = i
         /\ UNCHANGED <<requests, open>>

Push == /\ open
        /\ \E i \in DOMAIN requests : requests[i].kind = "subscribe"
        /\ received' = Append(received, Pushed)
        /\ UNCHANGED <<requests, answered, open>>

Close == open /\ open' = FALSE /\ UNCHANGED <<requests, received, answered>>

Next == Ask \/ Reply \/ Push \/ Close

Spec == Init /\ [][Next]_channelVars
=============================================================================
