----------------------------- MODULE MCRpcServer -----------------------------
(* Three topics under one key: its own, and those of the tokens a and ab,  *)
(* the text of the first of which is part of the second.                   *)
EXTENDS RpcServer

MCTopic == {"k", "ka", "kab"}
MCToken == {"a", "ab"}
MCTokenOf == [p \in MCTopic |-> CASE p = "k" -> "" [] p = "ka" -> "a" [] OTHER -> "ab"]
MCWithin == {<<"a", "ka">>, <<"a", "kab">>, <<"ab", "kab">>}
=============================================================================
