-------------------------- MODULE RpcServerProofs --------------------------
(***************************************************************************)
(* The safety of RpcServer, for any connections, contexts and topics.      *)
(***************************************************************************)
EXTENDS RpcServer, TLAPS

(* The inductive invariant: the lists against the states, and the tokens   *)
(* against the subscriptions.                                              *)
IInv == TypeOK /\ OpenListed /\ TokensSubscribed /\ TokensKept
-----------------------------------------------------------------------------
LEMMA AfterInRange ==
  ASSUME NEW i \in 0 .. PoolSize - 1
  PROVE  After(i) \in 0 .. PoolSize - 1
  BY ServerAssumption DEF After

LEMMA InitHolds ==
  ASSUME Init
  PROVE  IInv
  BY ServerAssumption DEF Init, IInv, TypeOK, OpenListed, TokensSubscribed, TokensKept, Cleaners

(* The steps of the acceptor and of the connections.                       *)
LEMMA ServeStep ==
  ASSUME IInv, Serve \/ List
  PROVE  IInv'
<1> USE ServerAssumption DEF IInv, TypeOK, OpenListed, TokensSubscribed, TokensKept, Cleaners
<1>1. ASSUME NEW c \in Conn, Accept(c)
      PROVE  IInv'
  <2>1. accepting = 0
    BY <1>1 DEF Accept, Runs
  <2> QED
    BY <1>1, <2>1, AfterInRange DEF Accept, subVars, cleanVars
<1>2. ASSUME NEW c \in Conn, Close(c)
      PROVE  IInv'
  BY <1>2 DEF Close, subVars, cleanVars
<1>3. ASSUME NEW c \in Conn, NEW p \in Topic, Subscribe(c, p)
      PROVE  IInv'
  <2> USE <1>3 DEF Subscribe, connVars, cleanVars
  <2>1. TypeOK' /\ OpenListed'
    OBVIOUS
  <2>2. TokensSubscribed'
    <3> SUFFICES ASSUME NEW t \in token_list'
                 PROVE  \E s \in sub_map' : TokenOf[s[1]] = t
      OBVIOUS
    <3>1. CASE t = TokenOf[p]
      <4>1. <<p, c>> \in sub_map' /\ <<p, c>>[1] = p
        OBVIOUS
      <4> QED
        BY <3>1, <4>1
    <3>2. CASE t # TokenOf[p]
      BY <3>2
    <3> QED
      BY <3>1, <3>2
  <2>3. TokensKept'
    <3> SUFFICES ASSUME NEW s \in sub_map'
                 PROVE  \/ TokenOf[s[1]] = NoToken \/ TokenOf[s[1]] \in token_list'
                        \/ \E q \in departed' : <<TokenOf[s[1]], q>> \in Within
      OBVIOUS
    <3>1. CASE s \in sub_map
      BY <3>1
    <3>2. CASE s = <<p, c>>
      BY <3>2
    <3> QED
      BY <3>1, <3>2
  <2> QED
    BY <2>1, <2>2, <2>3
<1>4. CASE List
  BY <1>4 DEF List, subVars, cleanVars
<1> QED
  BY <1>1, <1>2, <1>3, <1>4 DEF Serve

(* The steps of the two cleaning threads.                                  *)
LEMMA CleanUpStep ==
  ASSUME IInv, CleanUp
  PROVE  IInv'
<1> USE ServerAssumption DEF IInv, TypeOK, OpenListed, TokensSubscribed, TokensKept, Cleaners
<1>1. ASSUME NEW t \in Cleaners, TestFlag(t) \/ Wait(t)
      PROVE  IInv'
  <2>1. UNCHANGED <<connVars, subVars, stop_check, stopping, main>>
    BY <1>1 DEF TestFlag, Wait
  <2>2. cleaner' \in [Cleaners -> {"test", "lock", "wait", "ended"}]
    <3>1. CASE TestFlag(t)
      BY <3>1 DEF TestFlag
    <3>2. CASE Wait(t)
      BY <3>2 DEF Wait
    <3> QED
      BY <1>1, <3>1, <3>2
  <2>3. notified' \in [Cleaners -> BOOLEAN]
    <3>1. CASE notified' = notified
      BY <3>1
    <3>2. CASE notified' = [notified EXCEPT ![t] = FALSE]
      BY <3>2
    <3> QED
      BY <1>1, <3>1, <3>2 DEF TestFlag, Wait
  <2> QED
    BY <2>1, <2>2, <2>3 DEF connVars, subVars
<1>2. CASE Clean
  BY <1>2 DEF Clean, Wake, Dead, subVars
<1>3. CASE CleanSubPub
  <2> DEFINE gone == {s \in sub_map : Dead(s[2])}
             topics == {s[1] : s \in gone}
  <2>1. /\ sub_map' = sub_map \ gone
        /\ token_list' = token_list \ Erased(topics)
        /\ departed' = departed \cup topics
        /\ UNCHANGED <<connVars, stop_check, notified, stopping, main>>
        /\ cleaner' = [cleaner EXCEPT !["clean_sub_pub"] = "test"]
    BY <1>3 DEF CleanSubPub, Wake
  <2>2. gone \subseteq Topic \X Conn /\ topics \subseteq Topic
    OBVIOUS
  <2>3. TypeOK' /\ OpenListed'
    BY <2>1, <2>2 DEF connVars
  <2>4. TokensSubscribed'
    <3> SUFFICES ASSUME NEW t \in token_list'
                 PROVE  \E s \in sub_map' : TokenOf[s[1]] = t
      OBVIOUS
    <3>1. t \in token_list /\ t \in Token /\ t \notin Erased(topics)
      BY <2>1
    <3>2. PICK s \in sub_map : TokenOf[s[1]] = t
      BY <3>1
    <3>3. s \notin gone
      <4> SUFFICES ASSUME s \in gone
                   PROVE  FALSE
        OBVIOUS
      <4>1. s[1] \in topics /\ <<t, s[1]>> \in Within
        BY <2>2, <3>1, <3>2
      <4> QED
        BY <3>1, <4>1 DEF Erased
    <3> QED
      BY <2>1, <3>2, <3>3
  <2>5. TokensKept'
    <3> SUFFICES ASSUME NEW s \in sub_map'
                 PROVE  \/ TokenOf[s[1]] = NoToken \/ TokenOf[s[1]] \in token_list'
                        \/ \E q \in departed' : <<TokenOf[s[1]], q>> \in Within
      OBVIOUS
    <3>1. s \in sub_map
      BY <2>1
    <3> QED
      BY <2>1, <3>1 DEF Erased
  <2> QED
    BY <2>3, <2>4, <2>5
<1> QED
  BY <1>1, <1>2, <1>3 DEF CleanUp

(* The steps of stop() and of the end of main().                           *)
LEMMA StopStep ==
  ASSUME IInv, Signal \/ Stop
  PROVE  IInv'
<1> USE DEF IInv, TypeOK, OpenListed, TokensSubscribed, TokensKept, Cleaners
<1>1. CASE Signal
  BY <1>1 DEF Signal, connVars, subVars, cleanVars
<1>2. ASSUME NEW t \in Cleaners, Notify(t) \/ Join(t)
      PROVE  IInv'
  <2>1. CASE Notify(t)
    <3>1. stop_check' \in [Cleaners -> BOOLEAN] /\ notified' \in [Cleaners -> BOOLEAN]
      BY <2>1, Zenon DEF Notify
    <3> QED
      BY <2>1, <3>1 DEF Notify, connVars, subVars
  <2>2. CASE Join(t)
    BY <2>2 DEF Join, connVars, subVars, cleanVars
  <2> QED
    BY <1>2, <2>1, <2>2
<1>3. CASE StopReturns \/ RunReturns \/ Terminate
  BY <1>3 DEF StopReturns, RunReturns, Terminate, connVars, subVars, cleanVars
<1> QED
  BY <1>1, <1>2, <1>3 DEF Stop

(* The inductive invariant holds in every state.                           *)
THEOREM ServerSafety == Spec => []IInv
<1>1. IInv /\ [Next]_vars => IInv'
  <2> SUFFICES ASSUME IInv, [Next]_vars
               PROVE  IInv'
    OBVIOUS
  <2>1. CASE Next
    BY <2>1, ServeStep, CleanUpStep, StopStep DEF Next
  <2>2. CASE UNCHANGED vars
    BY <2>2 DEF IInv, TypeOK, OpenListed, TokensSubscribed, TokensKept, vars, connVars, subVars,
       cleanVars
  <2> QED
    BY <2>1, <2>2
<1> QED
  BY <1>1, InitHolds, PTL DEF Spec

(* Every variable keeps its type; get_io_service() never leaves the pool.  *)
THEOREM ServerTypes == Spec => []TypeOK
<1>1. IInv => TypeOK
  BY DEF IInv
<1> QED
  BY <1>1, ServerSafety, PTL

(* Although a connection is served before it is listed, and clean() runs   *)
(* meanwhile, no open connection is missing from the list.                 *)
THEOREM OpenAreListed == Spec => []OpenListed
<1>1. IInv => OpenListed
  BY DEF IInv
<1> QED
  BY <1>1, ServerSafety, PTL

(* get_token_list() returns tokens of subscribers only...                  *)
THEOREM TokensHaveSubscribers == Spec => []TokensSubscribed
<1>1. IInv => TokensSubscribed
  BY DEF IInv
<1> QED
  BY <1>1, ServerSafety, PTL

(* ...and lacks one only where its text was part of another's topic.       *)
THEOREM TokensStay == Spec => []TokensKept
<1>1. IInv => TokensKept
  BY DEF IInv
<1> QED
  BY <1>1, ServerSafety, PTL
=============================================================================
