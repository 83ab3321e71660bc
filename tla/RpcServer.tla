----------------------------- MODULE RpcServer -----------------------------
(***************************************************************************)
(* rpc_server: connections are accepted onto a pool of io contexts, each   *)
(* run by one thread; two threads clean up behind closed connections; a    *)
(* signal stops everything and main() ends. What happens within a          *)
(* connection is the subject of RpcConnection.                             *)
(***************************************************************************)
EXTENDS Naturals, FiniteSets

CONSTANTS Conn,         (* connections, in the order they are accepted: 1, 2 *)
          PoolSize,     (* io contexts                                       *)
          Topic,        (* what is subscribed to: a key and its token        *)
          Token,        (* the tokens that are not empty                     *)
          TokenOf,      (* the token of a topic, or NoToken                  *)
          Within,       (* <<t, p>>: token t is part of the text of topic p  *)
          NoToken

ASSUME ServerAssumption ==
  /\ Conn \subseteq Nat \ {0}
  /\ PoolSize \in Nat \ {0}
  /\ NoToken \notin Token /\ TokenOf \in [Topic -> Token \cup {NoToken}]
  /\ Within \subseteq Token \X Topic
  /\ \A p \in Topic : TokenOf[p] # NoToken => <<TokenOf[p], p>> \in Within

VARIABLES state,        (* of a connection                                   *)
          context,      (* the io context of a connection                    *)
          next_io_service,
          accepting,    (* the connection being accepted, or 0               *)
          connections,  (* the connections that are listed                   *)
          sub_map, token_list,
          departed,     (* topics whose subscriber was cleaned away          *)
          cleaner,      (* where the two cleaning threads are                *)
          stop_check, notified,
          stopping,     (* where stop() is                                   *)
          main          (* where main() is                                   *)

connVars  == <<state, context, next_io_service, accepting, connections>>
subVars   == <<sub_map, token_list, departed>>
cleanVars == <<cleaner, stop_check, notified>>
vars == <<connVars, subVars, cleanVars, stopping, main>>

Cleaners == {"clean", "clean_sub_pub"}

(* Mutant: the index of the next context is never set back.                 *)
AfterUnbounded(io_service) == io_service + 1
After(io_service) == (io_service + 1) % PoolSize

(* The constructor takes a context for the acceptor, then for the signals. *)
AcceptorContext == 0
SignalContext == 1 % PoolSize

Init ==
  /\ state = [c \in Conn |-> "new"] /\ context = [c \in Conn |-> 0]
  /\ next_io_service = 2 % PoolSize
  /\ accepting = 0 /\ connections = {}
  /\ sub_map = {} /\ token_list = {} /\ departed = {}
  /\ cleaner = [t \in Cleaners |-> "test"]
  /\ stop_check = [t \in Cleaners |-> FALSE] /\ notified = [t \in Cleaners |-> FALSE]
  /\ stopping = "no" /\ main = "run"

(* A context runs one handler at a time: accept takes two steps, stop() as *)
(* long as it lasts; after io_context::stop() it runs no further handler.  *)
Runs(ctx) ==
  /\ stopping \notin {"stopped", "done"}
  /\ ~(stopping # "no" /\ ctx = SignalContext)
  /\ ~(accepting # 0 /\ ctx = AcceptorContext)
-----------------------------------------------------------------------------
(* conn_->start(): from here on the connection is served by its context.   *)
Accept(c) ==
  /\ Runs(AcceptorContext)
  /\ state[c] = "new" /\ \A d \in Conn : d < c => state[d] # "new"
  /\ state' = [state EXCEPT ![c] = "open"]
  /\ context' = [context EXCEPT ![c] = next_io_service]
  /\ next_io_service' = After(next_io_service)
  /\ accepting' = c
  /\ UNCHANGED <<connections, subVars, cleanVars, stopping, main>>

List ==
  /\ accepting # 0 /\ accepting' = 0
  /\ connections' = connections \cup {accepting}
  /\ UNCHANGED <<state, context, next_io_service, subVars, cleanVars, stopping, main>>

(* An error, the peer or the timer closes it (RpcConnection).              *)
Close(c) ==
  /\ Runs(context[c]) /\ state[c] = "open"
  /\ state' = [state EXCEPT ![c] = "closed"]
  /\ UNCHANGED <<context, next_io_service, accepting, connections, subVars, cleanVars,
                 stopping, main>>

(* A subscription that is repeated enters its token again.                 *)
Subscribe(c, p) ==
  /\ Runs(context[c]) /\ state[c] = "open"
  /\ sub_map' = sub_map \cup {<<p, c>>}
  /\ token_list' = token_list \cup ({TokenOf[p]} \ {NoToken})
  /\ UNCHANGED <<connVars, departed, cleanVars, stopping, main>>
-----------------------------------------------------------------------------
(* Mutants: everybody is taken for closed, or nobody; no token is erased,  *)
(* or every one; the threads wait until they are notified.                 *)
Everybody(c) == TRUE
DeadNever(c) == FALSE
ErasedNone(topics) == {}
ErasedAll(topics) == {t \in Token : topics # {}}
TimePassesNot == FALSE

Dead(c) == state[c] = "closed"

(* The tokens found in the text of a topic whose subscriber has gone.      *)
Erased(topics) == {t \in Token : \E p \in topics : <<t, p>> \in Within}

(* wait_for() returns after its period, notified or not.                   *)
TimePasses == TRUE

(* The flag is tested before the lock is taken.                            *)
TestFlag(t) ==
  /\ cleaner[t] = "test"
  /\ cleaner' = [cleaner EXCEPT ![t] = IF stop_check[t] THEN "ended" ELSE "lock"]
  /\ UNCHANGED <<connVars, subVars, stop_check, notified, stopping, main>>

Wait(t) ==
  /\ cleaner[t] = "lock"
  /\ cleaner' = [cleaner EXCEPT ![t] = "wait"]
  /\ notified' = [notified EXCEPT ![t] = FALSE]
  /\ UNCHANGED <<connVars, subVars, stop_check, stopping, main>>

Wake(t) ==
  /\ cleaner[t] = "wait" /\ (notified[t] \/ TimePasses)
  /\ cleaner' = [cleaner EXCEPT ![t] = "test"]

Clean ==
  /\ Wake("clean")
  /\ connections' = {c \in connections : ~Dead(c)}
  /\ UNCHANGED <<state, context, next_io_service, accepting, subVars, stop_check, notified,
                 stopping, main>>

CleanSubPub ==
  /\ Wake("clean_sub_pub")
  /\ LET gone == {s \in sub_map : Dead(s[2])}
         topics == {s[1] : s \in gone}
     IN  /\ sub_map' = sub_map \ gone
         /\ token_list' = token_list \ Erased(topics)
         /\ departed' = departed \cup topics
  /\ UNCHANGED <<connVars, stop_check, notified, stopping, main>>
-----------------------------------------------------------------------------
(* stop(), on the context of the signals: it notifies each cleaning thread *)
(* under its lock, joins it, and stops the contexts.                       *)
Signal ==
  /\ Runs(SignalContext) /\ stopping = "no"
  /\ stopping' = "clean"
  /\ UNCHANGED <<connVars, subVars, cleanVars, main>>

Notify(t) ==
  /\ stopping = t /\ ~stop_check[t]
  /\ stop_check' = [stop_check EXCEPT ![t] = TRUE]
  /\ notified' = [notified EXCEPT ![t] = cleaner[t] = "wait"]
  /\ UNCHANGED <<connVars, subVars, cleaner, stopping, main>>

Join(t) ==
  /\ stopping = t /\ stop_check[t] /\ cleaner[t] = "ended"
  /\ stopping' = IF t = "clean" THEN "clean_sub_pub" ELSE "stopped"
  /\ UNCHANGED <<connVars, subVars, cleanVars, main>>

StopReturns ==
  /\ stopping = "stopped" /\ stopping' = "done"
  /\ UNCHANGED <<connVars, subVars, cleanVars, main>>

(* run() joins the threads of the pool: the last handlers have returned.   *)
RunReturns ==
  /\ main = "run" /\ stopping = "done" /\ accepting = 0
  /\ main' = "destructors"
  /\ UNCHANGED <<connVars, subVars, cleanVars, stopping>>

(* The first destructor is that of render_thread, which is joinable: it    *)
(* calls std::terminate, and no other destructor runs.                     *)
Terminate ==
  /\ main = "destructors" /\ main' = "terminated"
  /\ UNCHANGED <<connVars, subVars, cleanVars, stopping>>

Serve == \E c \in Conn : Accept(c) \/ Close(c) \/ (\E p \in Topic : Subscribe(c, p))
CleanUp == (\E t \in Cleaners : TestFlag(t) \/ Wait(t)) \/ Clean \/ CleanSubPub
Stop == (\E t \in Cleaners : Notify(t) \/ Join(t)) \/ StopReturns \/ RunReturns \/ Terminate

Next == main # "terminated" /\ (Serve \/ List \/ CleanUp \/ Signal \/ Stop)

Spec == Init /\ [][Next]_vars

(* Threads run; clients, errors and signals need not come.                 *)
FairSpec ==
  /\ Spec
  /\ WF_vars(List) /\ WF_vars(Stop) /\ WF_vars(Clean) /\ WF_vars(CleanSubPub)
  /\ \A t \in Cleaners : WF_vars(TestFlag(t)) /\ WF_vars(Wait(t))
-----------------------------------------------------------------------------
TypeOK ==
  /\ state \in [Conn -> {"new", "open", "closed"}]
  /\ context \in [Conn -> 0 .. PoolSize - 1] /\ next_io_service \in 0 .. PoolSize - 1
  /\ accepting \in Conn \cup {0} /\ connections \subseteq Conn
  /\ sub_map \subseteq Topic \X Conn /\ token_list \subseteq Token /\ departed \subseteq Topic
  /\ cleaner \in [Cleaners -> {"test", "lock", "wait", "ended"}]
  /\ stop_check \in [Cleaners -> BOOLEAN] /\ notified \in [Cleaners -> BOOLEAN]
  /\ stopping \in {"no", "stopped", "done"} \cup Cleaners
  /\ main \in {"run", "destructors", "terminated"}

(* Every open connection is listed or about to be, although it is served   *)
(* before it is listed and the cleaning thread works at the same time.     *)
OpenListed == \A c \in Conn : state[c] = "open" => c \in connections \/ c = accepting

(* Every listed token has a subscriber, or one not yet cleaned away: none  *)
(* survives the last subscriber that gave it.                              *)
TokensSubscribed == \A t \in token_list : \E s \in sub_map : TokenOf[s[1]] = t

(* The token of a subscriber is missing only if its text was part of the   *)
(* topic of one who was cleaned away.                                      *)
TokensKept ==
  \A s \in sub_map :
    LET t == TokenOf[s[1]]
    IN  t = NoToken \/ t \in token_list \/ \E p \in departed : <<t, p>> \in Within

(* A closed connection is forgotten, in both lists, while the server runs. *)
ClosedForgotten ==
  \A c \in Conn :
    state[c] = "closed" ~>
      \/ stopping # "no"
      \/ c # accepting /\ c \notin connections /\ (\A p \in Topic : <<p, c>> \notin sub_map)

(* A signal ends the program, even if its notification came between a      *)
(* cleaning thread's test of the flag and its wait.                        *)
SignalEnds == (stopping # "no") ~> (main = "terminated")
=============================================================================
