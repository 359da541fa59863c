-------------------------- MODULE SimReducerProofs --------------------------
(***************************************************************************)
(* Proofs about SimReducer for every set of shards, every number of flows *)
(* and every interval.                                                     *)
(***************************************************************************)
EXTENDS SimReducer, TLAPS

-----------------------------------------------------------------------------
(* The flow deque.                                                         *)

(* A tick refills the deque to num_flows and erases fewer flows than it  *)
(* holds: the count stays within 0 .. num_flows.                           *)
LEMMA TickFlows ==
  ASSUME NEW n \in 0 .. NumFlows, NEW k \in PopCounts(Refill(n))
  PROVE  Refill(n) - k \in 0 .. NumFlows
  BY FlowsAssumption DEF PopCounts, Refill

-----------------------------------------------------------------------------
(* Type correctness.                                                       *)

LEMMA InitType == Init => TypeOK
<1> SUFFICES ASSUME Init PROVE TypeOK
  OBVIOUS
<1>1. flows \in [Shards -> 0 .. NumFlows]
  BY FlowsAssumption DEF Init
<1>2. gen \in [Shards -> {"none", "created", "spawned", "running", "done"}]
  BY DEF Init
<1>3. timer \in [Shards -> BOOLEAN] /\ stopReq \in [Shards -> BOOLEAN]
  BY DEF Init
<1>4. QED
  BY <1>1, <1>2, <1>3 DEF Init, TypeOK

LEMMA TypeStep == TypeOK /\ [Next]_vars => TypeOK'
<1> SUFFICES ASSUME TypeOK, [Next]_vars PROVE TypeOK'
  OBVIOUS
<1>1. CASE Setup
  <2>1. PICK file \in DimensionFiles :
          \/ /\ LoadDimensions(file) = "throws"
             /\ main' = "failed"
             /\ UNCHANGED <<gen, timer, stopReq, flows>>
          \/ /\ LoadDimensions(file) = "ok"
             /\ main' = "created"
             /\ GeneratorCtor
    BY <1>1 DEF Setup
  <2>2. UNCHANGED <<sigThread, sigPending, sigStop>>
    BY <1>1 DEF Setup
  <2>3. CASE main' = "failed" /\ UNCHANGED <<gen, timer, stopReq, flows>>
    BY <2>2, <2>3 DEF TypeOK
  <2>4. CASE main' = "created" /\ GeneratorCtor
    BY <2>2, <2>4, FlowsAssumption DEF GeneratorCtor, TypeOK
  <2>5. QED
    BY <2>1, <2>3, <2>4
<1>2. CASE InstallHandlers
  BY <1>2 DEF InstallHandlers, TypeOK
<1>3. ASSUME NEW g \in Shards, SpawnGenerator(g) PROVE TypeOK'
  BY <1>3 DEF SpawnGenerator, TypeOK
<1>4. CASE SpawnSignalThread
  BY <1>4 DEF SpawnSignalThread, TypeOK
<1>5. CASE Join
  BY <1>5 DEF Join, TypeOK
<1>6. ASSUME NEW g \in Shards, Run(g) PROVE TypeOK'
  BY <1>6 DEF Run, TypeOK
<1>7. ASSUME NEW g \in Shards, Tick(g) PROVE TypeOK'
  <2>1. PICK k \in PopCounts(Refill(flows[g])) :
          flows' = [flows EXCEPT ![g] = Refill(flows[g]) - k]
    BY <1>7 DEF Tick
  <2>2. Refill(flows[g]) - k \in 0 .. NumFlows
    BY <2>1, TickFlows DEF TypeOK
  <2>3. QED
    BY <1>7, <2>1, <2>2 DEF Tick, TypeOK
<1>8. ASSUME NEW g \in Shards, StopAsyncCb(g) PROVE TypeOK'
  BY <1>8 DEF StopAsyncCb, TypeOK
<1>9. CASE Signal
  BY <1>9 DEF Signal, TypeOK
<1>10. CASE OnTerminate
  BY <1>10 DEF OnTerminate, TypeOK
<1>11. CASE SignalThreadStop
  BY <1>11 DEF SignalThreadStop, TypeOK
<1>12. CASE UNCHANGED vars
  BY <1>12 DEF vars, TypeOK
<1>13. QED
  BY <1>1, <1>2, <1>3, <1>4, <1>5, <1>6, <1>7, <1>8, <1>9, <1>10, <1>11, <1>12
     DEF Next

(* Every reachable state of sim-reducer is well typed; in particular a    *)
(* generator's deque never holds more than num_flows flows.                *)
THEOREM TypeCorrect == Spec => []TypeOK
BY InitType, TypeStep, PTL DEF Spec

=============================================================================
