----------------------------- MODULE MCRpcClient -----------------------------
EXTENDS RpcClient

CONSTANTS f1, c1, s1

MCFuture == {f1}
MCCallback == {c1}
MCSubscription == {s1}

(* Bound: two of the three threads take part in a behaviour, any two.      *)
MaxActive == 2
Active == {m \in Message : phase[m] # "idle"}

MCNext == Next /\ Cardinality(Active') <= MaxActive
MCSpec == Init /\ [][MCNext]_vars /\ Fairness
=============================================================================
