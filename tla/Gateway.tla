------------------------------- MODULE Gateway -------------------------------
(***************************************************************************)
(* The two threads of src/gateway.rs: run with handle_client, which reads  *)
(* a client's commands and pushes them into the ring, and matching_loop,   *)
(* which pops and processes them, with the shutdown flag between them.     *)
(*                                                                         *)
(* The ring is the one of module Ring, step by step, with its stale loads. *)
(* The flag is stored with Release and loaded with Acquire: a load may     *)
(* return an older value, but one that returns TRUE orders every push      *)
(* before it.  A command is its number in the client's stream; cutting the *)
(* stream into commands is in module Session, and what processing does to  *)
(* the log and to the book in module Recovery.                             *)
(***************************************************************************)
EXTENDS Ring

CONSTANTS MaxCommands,   \* bound on the commands a client sends
          Panics         \* the commands whose processing may panic

ASSUME GatewayAssumption == MaxCommands \in Nat /\ Values = 1 .. MaxCommands

VARIABLES runPc,      \* where run is
          received,   \* how many commands handle_client has decoded
          result,     \* what run returns
          shutdown,   \* the flag
          loopPc,     \* where matching_loop is
          draining,   \* whether it has seen the flag
          executed    \* the commands processed

runVars == <<runPc, received, result, shutdown>>
loopVars == <<loopPc, draining, executed>>
gatewayVars == <<vars, runVars, loopVars>>

GatewayInit ==
  /\ Init
  /\ runPc = "udp" /\ received = 0 /\ result = "none" /\ shutdown = FALSE
  /\ loopPc = "unborn" /\ draining = FALSE /\ executed = << >>
-----------------------------------------------------------------------------
(* run and handle_client *)

\* The engine is recovered, the UDP socket bound, the matching thread spawned.
Spawn ==
  /\ runPc = "udp" /\ runPc' = "bind"
  /\ loopPc' = "pop"
  /\ UNCHANGED <<vars, received, result, shutdown, draining, executed>>

BindListener ==
  /\ runPc = "bind" /\ runPc' = "accept"
  /\ UNCHANGED <<vars, received, result, shutdown, loopVars>>

Accept ==
  /\ runPc = "accept" /\ runPc' = "read"
  /\ UNCHANGED <<vars, received, result, shutdown, loopVars>>

\* No UDP socket: run returns with nothing started, freeing the whole ring.
UdpFails ==
  /\ runPc = "udp" /\ runPc' = "returned" /\ result' = "SocketErr"
  /\ pcP' = "dropped" /\ pcC' = "dropped"
  /\ UNCHANGED <<slots, head, tail, cachedTail, cachedHead, knownTail, knownHead,
                 pval, cval, popped, dropCursor, received, shutdown, loopVars>>

\* bind or accept fails: run returns and drops the producer, and the matching
\* thread, spawned already, keeps polling.
ListenerFails ==
  /\ runPc \in {"bind", "accept"}
  /\ runPc' = "returned" /\ result' = "SocketErr"
  /\ DropProducer
  /\ UNCHANGED <<received, shutdown, loopVars>>

ReadCommand ==
  /\ runPc = "read" /\ received < MaxCommands
  /\ received' = received + 1
  /\ runPc' = "push"
  /\ UNCHANGED <<vars, result, shutdown, loopVars>>

\* The inner loop: a push that finds the ring full is tried again.
PushCommand ==
  /\ runPc = "push"
  /\ \/ (PushBegin(received) \/ PushReload \/ PushWrite) /\ UNCHANGED runPc
     \/ PushPublish /\ runPc' = "read"
  /\ UNCHANGED <<received, result, shutdown, loopVars>>

ClientLeaves ==
  /\ runPc = "read" /\ runPc' = "flag"
  /\ result' = "Ok"
  /\ UNCHANGED <<vars, received, shutdown, loopVars>>

\* A read or a message fails: handle_client returns without the store.
ClientFails ==
  /\ runPc = "read" /\ runPc' = "store"
  /\ result' = "ClientErr"
  /\ UNCHANGED <<vars, received, shutdown, loopVars>>

\* The store at the end of handle_client, and the one of run after it.
StoreFlag ==
  /\ runPc \in {"flag", "store"}
  /\ shutdown' = TRUE
  /\ runPc' = IF runPc = "flag" THEN "store" ELSE "join"
  /\ UNCHANGED <<vars, received, result, loopVars>>

JoinEndedOnly ==
  /\ runPc = "join" /\ loopPc = "ended"
  /\ runPc' = "returned"
  /\ DropProducer
  /\ UNCHANGED <<received, result, shutdown, loopVars>>

\* join().expect(...): run panics if the matching thread did.
Join ==
  /\ runPc = "join" /\ loopPc \in {"ended", "panicked"}
  /\ runPc' = "returned"
  /\ result' = IF loopPc = "panicked" THEN "Panic" ELSE result
  /\ DropProducer
  /\ UNCHANGED <<received, shutdown, loopVars>>
-----------------------------------------------------------------------------
(* matching_loop *)

PopStale ==
  /\ loopPc = "pop"
  /\ \/ PopBegin /\ UNCHANGED loopPc
     \/ PopReload /\ loopPc' = IF pcC' = "idle" THEN "empty" ELSE "pop"
     \/ PopRead /\ UNCHANGED loopPc
     \/ PopPublish /\ loopPc' = "process"
  /\ UNCHANGED <<draining, executed, runVars>>

\* A pop, one step at a time.  Once the flag was seen no push is missed.
PopCommand ==
  /\ loopPc = "pop"
  /\ \/ PopBegin /\ UNCHANGED loopPc
     \/ /\ PopReload
        /\ draining => cachedHead' = head
        /\ loopPc' = IF pcC' = "idle" THEN "empty" ELSE "pop"
     \/ PopRead /\ UNCHANGED loopPc
     \/ PopPublish /\ loopPc' = "process"
  /\ UNCHANGED <<draining, executed, runVars>>

ProcessCommand ==
  /\ loopPc = "process"
  /\ executed' = Append(executed, popped)
  /\ loopPc' = "pop"
  /\ UNCHANGED <<vars, draining, runVars>>

\* The thread unwinds, and drops the consumer.
Panic ==
  /\ loopPc = "process" /\ popped \in Panics
  /\ loopPc' = "panicked"
  /\ DropConsumer
  /\ UNCHANGED <<draining, executed, runVars>>

SleepUntilFlag ==
  /\ loopPc = "empty" /\ ~draining
  /\ UNCHANGED gatewayVars

\* The ring was empty: the flag decides whether to yield and go on, or to
\* drain the ring.
FlagUnset ==
  /\ loopPc = "empty" /\ ~draining
  /\ loopPc' = "pop"
  /\ UNCHANGED <<vars, draining, executed, runVars>>

DrainsFromLast ==
  /\ loopPc = "empty" /\ ~draining /\ shutdown
  /\ draining' = TRUE
  /\ loopPc' = "process"
  /\ UNCHANGED <<vars, executed, runVars>>

FlagSeen ==
  /\ loopPc = "empty" /\ ~draining /\ shutdown
  /\ draining' = TRUE
  /\ loopPc' = "pop"
  /\ UNCHANGED <<vars, executed, runVars>>

\* The drained ring is empty: the loop ends and the consumer is dropped.
EndLoop ==
  /\ loopPc = "empty" /\ draining
  /\ loopPc' = "ended"
  /\ DropConsumer
  /\ UNCHANGED <<draining, executed, runVars>>
-----------------------------------------------------------------------------
\* The threads' own steps; the rest is the client and the network.
RunStep == PushCommand \/ StoreFlag \/ Join
LoopStep == PopCommand \/ ProcessCommand \/ Panic \/ FlagUnset \/ FlagSeen \/ EndLoop

GatewayNext ==
  \/ Spawn \/ BindListener \/ Accept \/ UdpFails \/ ListenerFails
  \/ ReadCommand \/ ClientLeaves \/ ClientFails
  \/ PushCommand \/ StoreFlag \/ Join
  \/ PopCommand \/ ProcessCommand \/ Panic \/ FlagUnset \/ FlagSeen \/ EndLoop

\* Loads that return the newest value.
SeesSpace == PushCommand /\ pcP = "reload" /\ cachedTail' = tail
SeesCommands == PopCommand /\ pcC = "reload" /\ cachedHead' = head

\* Both threads are scheduled, and a store becomes visible to a thread that
\* keeps loading the location.
Fairness ==
  /\ WF_gatewayVars(RunStep) /\ WF_gatewayVars(LoopStep)
  /\ SF_gatewayVars(SeesSpace) /\ SF_gatewayVars(SeesCommands) /\ SF_gatewayVars(FlagSeen)

GatewaySpec == GatewayInit /\ [][GatewayNext]_gatewayVars /\ Fairness
-----------------------------------------------------------------------------
\* The commands are processed in the order the client sent them, none twice
\* and none that was not sent, whatever the ring and the retries do.
ExecutedInOrder ==
  /\ Len(executed) <= received
  /\ \A k \in DOMAIN executed : executed[k] = k

\* When run has served a client and returns without a panic, every command it
\* read has been processed: the flag never overtakes a command in the ring,
\* although the loop stops at the first pop that finds the ring empty.
NothingLeftInRing ==
  runPc = "returned" /\ result \in {"Ok", "ClientErr"} => Len(executed) = received

\* Every command read is processed in the end, unless the matching thread
\* panics: a full ring delays the client and loses nothing.
ReceivedIsExecuted ==
  \A n \in Values : received >= n ~> Len(executed) >= n \/ loopPc = "panicked"

\* When the client is gone both threads end and run returns, also when the
\* matching thread has panicked.
RunReturns == runPc \in {"flag", "store"} ~> runPc = "returned" /\ loopPc \in {"ended", "panicked"}
-----------------------------------------------------------------------------
(* The inductive invariant behind the first two properties. *)

GatewayTypeOK ==
  /\ runPc \in {"udp", "bind", "accept", "read", "push", "flag", "store", "join", "returned"}
  /\ loopPc \in {"unborn", "pop", "empty", "process", "ended", "panicked"}
  /\ received \in 0 .. MaxCommands /\ (runPc = "push" => received > 0)
  /\ executed \in Seq(Nat)

\* Where each thread is in its half of the ring.
HandlesInv ==
  /\ dropCursor = NoValue
  /\ runPc # "push" => pcP \in {"idle", "dropped"}
  /\ pcP \in {"reload", "write", "publish"} => pval = received
  /\ loopPc # "pop" => pcC \in {"idle", "dropped"}
  /\ runPc = "udp" => loopPc = "unborn" /\ pcP = "idle" /\ pcC = "idle"

\* The commands that are in the ring, or were, and those taken out of it.
Published == IF runPc = "push" THEN received - 1 ELSE received
Taken == IF loopPc \in {"process", "panicked"} THEN Len(executed) + 1 ELSE Len(executed)

\* What is executed, what is taken and not yet executed, and what is in the
\* ring are the commands published so far, in order.
OrderInv ==
  /\ \A k \in DOMAIN executed : executed[k] = k
  /\ loopPc = "process" => popped = Taken
  /\ Taken + Len(Content) = Published
  /\ \A k \in DOMAIN Content : Content[k] = Taken + k

\* Once the flag was seen nothing is pushed any more, so that an empty ring
\* stays empty.
ShutdownInv ==
  /\ draining => shutdown
  /\ shutdown => runPc \in {"store", "join", "returned"}
  /\ loopPc = "ended" => draining
  /\ draining /\ loopPc \in {"empty", "ended"} => Content = << >>
  /\ runPc = "returned" /\ result \in {"Ok", "ClientErr"} => loopPc = "ended"

GatewayInv == GatewayTypeOK /\ HandlesInv /\ OrderInv /\ ShutdownInv
=============================================================================
