----------------------------- MODULE SimReducer -----------------------------
(***************************************************************************)
(* The synthetic metrics producer sim-reducer (src/tools/simulator/        *)
(* reducer.cc with src/tools/reducer-simulator/generator.cc).  main        *)
(* constructs one Generator per shard, installs a SIGINT/SIGTERM handler,  *)
(* starts one thread per generator and one for the signal handler, and     *)
(* joins them all.  Each generator runs its own libuv loop: a repeating    *)
(* timer that publishes metrics for its flows, and an async handle that    *)
(* stops the loop.  The signal handler's on_terminate sends that async to  *)
(* every generator and stops the signal handler's own loop.                *)
(*                                                                         *)
(* Threads interleave freely; each libuv callback is one atomic step of   *)
(* its thread.  The flows of a generator are abstracted to their number:  *)
(* no property tells their labels apart.                                   *)
(***************************************************************************)
EXTENDS Naturals, FiniteSets

CONSTANTS
  Shards,              \* the generators, one per shard (--num-shards)
  NumFlows,            \* --num-flows
  IntervalSec,         \* --interval, in seconds
  DimensionFiles  \* the --dimensions files considered: "absent" (no flag),
                  \* "lists" (well formed), "not_a_list" (a node that is
                  \* not a list of strings)

ASSUME ShardsAssumption == IsFiniteSet(Shards)

ASSUME FlowsAssumption == NumFlows \in Nat /\ IntervalSec \in Nat

ASSUME DimensionsAssumption ==
  DimensionFiles \subseteq {"absent", "lists", "not_a_list"}

VARIABLES
  main,        \* the main thread: "start", "created", "spawn", "join",
               \* "exited", "failed" (returned 1) or "killed" (by a signal)
  gen,         \* gen[g]: "none", "created", "spawned", "running" or "done"
  timer,       \* timer[g]: generator g's uv timer is active
  stopReq,     \* stopReq[g]: stop_async_ was sent and its callback has not run
  flows,       \* flows[g]: flows_.size() of generator g
  sigThread,   \* the signal handler's thread: "none", "running" or "done"
  sigPending,  \* a SIGINT or SIGTERM the handler's loop has not handled yet
  sigStop      \* signal_handler->stop_async() was called

vars == <<main, gen, timer, stopReq, flows, sigThread, sigPending, sigStop>>

-----------------------------------------------------------------------------
(* The main thread.                                                        *)

(* Before main constructs anything.                                        *)
Init ==
  /\ main = "start"
  /\ gen = [g \in Shards |-> "none"]
  /\ timer = [g \in Shards |-> FALSE]
  /\ stopReq = [g \in Shards |-> FALSE]
  /\ flows = [g \in Shards |-> 0]
  /\ sigThread = "none"
  /\ sigPending = FALSE
  /\ sigStop = FALSE

(* random_load_dimensions, when --dimensions is given: load_values throws *)
(* when a dimension's node is not a sequence or one of its elements is    *)
(* not a string; an undefined node leaves the defaults.                   *)
LoadDimensions(file) == IF file = "not_a_list" THEN "throws" ELSE "ok"

(* The Generator constructor: a loop, an async handle and a timer, none   *)
(* of them started, and no flows.                                          *)
GeneratorCtor ==
  /\ gen' = [g \in Shards |-> "created"]
  /\ timer' = [g \in Shards |-> FALSE]
  /\ stopReq' = [g \in Shards |-> FALSE]
  /\ flows' = [g \in Shards |-> 0]

(* main's setup: loading the dimensions file either fails, and main      *)
(* returns 1, or main creates the publisher and one generator per shard.  *)
Setup ==
  /\ main = "start"
  /\ \E file \in DimensionFiles :
       \/ /\ LoadDimensions(file) = "throws"
          /\ main' = "failed"
          /\ UNCHANGED <<gen, timer, stopReq, flows>>
       \/ /\ LoadDimensions(file) = "ok"
          /\ main' = "created"
          /\ GeneratorCtor
  /\ UNCHANGED <<sigThread, sigPending, sigStop>>

(* The SIGINT and SIGTERM handlers are installed.                          *)
InstallHandlers ==
  /\ main = "created"
  /\ main' = "spawn"
  /\ UNCHANGED <<gen, timer, stopReq, flows, sigThread, sigPending, sigStop>>

(* One thread is started per generator, in any order.                      *)
SpawnGenerator(g) ==
  /\ main = "spawn"
  /\ gen[g] = "created"
  /\ gen' = [gen EXCEPT ![g] = "spawned"]
  /\ UNCHANGED <<main, timer, stopReq, flows, sigThread, sigPending, sigStop>>

(* The signal handler's thread is started last; main then joins.           *)
SpawnSignalThread ==
  /\ main = "spawn"
  /\ \A g \in Shards : gen[g] # "created"
  /\ sigThread' = "running"
  /\ main' = "join"
  /\ UNCHANGED <<gen, timer, stopReq, flows, sigPending, sigStop>>

(* Every join returns once all threads have finished; main shuts the     *)
(* publisher down and returns 0.                                          *)
Join ==
  /\ main = "join"
  /\ \A g \in Shards : gen[g] = "done"
  /\ sigThread = "done"
  /\ main' = "exited"
  /\ UNCHANGED <<gen, timer, stopReq, flows, sigThread, sigPending, sigStop>>

-----------------------------------------------------------------------------
(* A generator's thread.                                                   *)

(* Generator::run: the timer starts with timeout and repeat both equal to *)
(* the interval in milliseconds, then the loop runs.                      *)
Run(g) ==
  /\ gen[g] = "spawned"
  /\ gen' = [gen EXCEPT ![g] = "running"]
  /\ timer' = [timer EXCEPT ![g] = TRUE]
  /\ UNCHANGED <<main, stopReq, flows, sigThread, sigPending, sigStop>>

(* Mutation: the refill loop runs while size <= num_flows.                *)
RefillInclusive(n) == IF n <= NumFlows THEN NumFlows + 1 ELSE n

(* The deque is refilled up to num_flows.                                  *)
Refill(n) == IF n < NumFlows THEN NumFlows ELSE n

(* How many flows are erased from the front: rand() % size, never all.    *)
PopCounts(n) == IF n > 0 THEN 0 .. (n - 1) ELSE {0}

(* Mutation: the timer is started without a repeat.                        *)
TickOneShot(g) ==
  /\ gen[g] = "running"
  /\ timer[g]
  /\ \E k \in PopCounts(Refill(flows[g])) :
       flows' = [flows EXCEPT ![g] = Refill(flows[g]) - k]
  /\ timer' = [timer EXCEPT ![g] = FALSE]
  /\ UNCHANGED <<main, gen, stopReq, sigThread, sigPending, sigStop>>

(* on_timer runs generate_random_metrics: refill, publish every flow's    *)
(* metrics, erase a random prefix.  A libuv timer whose repeat is 0 is    *)
(* not re-armed.                                                           *)
Tick(g) ==
  /\ gen[g] = "running"
  /\ timer[g]
  /\ \E k \in PopCounts(Refill(flows[g])) :
       flows' = [flows EXCEPT ![g] = Refill(flows[g]) - k]
  /\ timer' = [timer EXCEPT ![g] = IntervalSec * 1000 > 0]
  /\ UNCHANGED <<main, gen, stopReq, sigThread, sigPending, sigStop>>

(* on_stop_async calls uv_stop; uv_run returns and the thread ends.       *)
StopAsyncCb(g) ==
  /\ gen[g] = "running"
  /\ stopReq[g]
  /\ gen' = [gen EXCEPT ![g] = "done"]
  /\ stopReq' = [stopReq EXCEPT ![g] = FALSE]
  /\ UNCHANGED <<main, timer, flows, sigThread, sigPending, sigStop>>

-----------------------------------------------------------------------------
(* Signals and the signal handler's thread.                                *)

(* A SIGINT or SIGTERM arrives.  Before the handlers are installed its    *)
(* default action ends the process; afterwards it waits for the signal    *)
(* handler's loop.                                                         *)
Signal ==
  /\ main \in {"start", "created", "spawn", "join"}
  /\ ~sigPending
  /\ IF main \in {"start", "created"}
       THEN /\ main' = "killed"
            /\ UNCHANGED sigPending
       ELSE /\ sigPending' = TRUE
            /\ UNCHANGED main
  /\ UNCHANGED <<gen, timer, stopReq, flows, sigThread, sigStop>>

(* Mutation: on_terminate forgets to stop the signal handler.              *)
OnTerminateKeepsHandler ==
  /\ sigThread = "running"
  /\ sigPending
  /\ stopReq' = [g \in Shards |-> TRUE]
  /\ sigPending' = FALSE
  /\ UNCHANGED <<main, gen, timer, flows, sigThread, sigStop>>

(* on_terminate, on the signal handler's thread: stop_async on every      *)
(* generator, then on the signal handler itself.                          *)
OnTerminate ==
  /\ sigThread = "running"
  /\ sigPending
  /\ stopReq' = [g \in Shards |-> TRUE]
  /\ sigStop' = TRUE
  /\ sigPending' = FALSE
  /\ UNCHANGED <<main, gen, timer, flows, sigThread>>

(* The signal handler's loop sees its stop request and its thread ends.   *)
SignalThreadStop ==
  /\ sigThread = "running"
  /\ sigStop
  /\ sigThread' = "done"
  /\ UNCHANGED <<main, gen, timer, stopReq, flows, sigPending, sigStop>>

-----------------------------------------------------------------------------

Next ==
  \/ Setup
  \/ InstallHandlers
  \/ \E g \in Shards : SpawnGenerator(g)
  \/ SpawnSignalThread
  \/ Join
  \/ \E g \in Shards : Run(g) \/ Tick(g) \/ StopAsyncCb(g)
  \/ Signal
  \/ OnTerminate
  \/ SignalThreadStop

(* Every thread is scheduled by the OS and every armed libuv handle is    *)
(* served by its loop.  Signals come from outside and get no fairness.    *)
Fairness ==
  /\ WF_vars(Setup)
  /\ WF_vars(InstallHandlers)
  /\ \A g \in Shards : WF_vars(SpawnGenerator(g))
  /\ WF_vars(SpawnSignalThread)
  /\ WF_vars(Join)
  /\ \A g \in Shards : WF_vars(Run(g)) /\ WF_vars(Tick(g)) /\ WF_vars(StopAsyncCb(g))
  /\ WF_vars(OnTerminate)
  /\ WF_vars(SignalThreadStop)

Spec == Init /\ [][Next]_vars /\ Fairness

-----------------------------------------------------------------------------
(* Properties.                                                             *)

TypeOK ==
  /\ main \in {"start", "created", "spawn", "join", "exited", "failed", "killed"}
  /\ gen \in [Shards -> {"none", "created", "spawned", "running", "done"}]
  /\ timer \in [Shards -> BOOLEAN]
  /\ stopReq \in [Shards -> BOOLEAN]
  /\ flows \in [Shards -> 0 .. NumFlows]
  /\ sigThread \in {"none", "running", "done"}
  /\ sigPending \in BOOLEAN
  /\ sigStop \in BOOLEAN

(* The process is gone.                                                    *)
Ended == main \in {"exited", "failed", "killed"}

(* A SIGINT or SIGTERM that reaches the installed handler always ends the *)
(* process: whatever each generator thread is doing (not yet in its loop, *)
(* inside a tick), on_terminate's async stops reach every loop, every     *)
(* thread returns and main's joins complete.                              *)
Termination == sigPending ~> Ended

(* Generator g runs and nobody has asked it to stop.                      *)
Active(g) == gen[g] = "running" /\ ~stopReq[g]

(* A generator that stays running, with nobody asking it to stop, keeps   *)
(* publishing: its timer fires again and again ("Generate metrics every   *)
(* 'interval' seconds").                                                   *)
KeepsGenerating ==
  \A g \in Shards : []<>~Active(g) \/ []<><<Tick(g)>>_vars

=============================================================================
