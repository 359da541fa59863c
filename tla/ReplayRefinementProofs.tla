---------------------- MODULE ReplayRefinementProofs ----------------------
(***************************************************************************)
(* The replay core implements the spec's connection supervisor: the safety *)
(* part of ImplementsAbstract, for every recording, proved from the       *)
(* inductive invariant IInv of ReplaySupervisorProofs.                     *)
(***************************************************************************)
EXTENDS ReplayRefinement, ReplaySupervisorProofs

(* What one call of next() leaves the peer with is what the abstract      *)
(* dispatch may leave it with: handled records are always written,        *)
(* skipped ones never.                                                     *)
LEMMA DispatchStep ==
  ASSUME NEW c \in Idx, NEW base, NEW o \in WriteOutcomes(c), o # "aborted"
  PROVE  (IF o = "written" THEN base \cup {c} ELSE base) \in A!Dispatch(c, base)
<1>1. Kind[c] \in RecordKinds
  BY KindAssumption
<1>2. CASE o = "written"
  <2>1. c \notin NeverBar
    BY <1>1, <1>2 DEF NeverBar, WriteOutcomes, RecordKinds
  <2>2. {c} \in {s \in {{}, {c}} : /\ (c \in AlwaysBar => s = {c})
                                   /\ (c \in NeverBar => s = {})}
    BY <2>1
  <2>3. QED
    BY <1>2, <2>2 DEF A!Dispatch
<1>3. CASE o # "written"
  <2>1. c \notin AlwaysBar
    BY <1>1, <1>3 DEF AlwaysBar, Handled, WriteOutcomes, RecordKinds
  <2>2. {} \in {s \in {{}, {c}} : /\ (c \in AlwaysBar => s = {c})
                                  /\ (c \in NeverBar => s = {})}
    BY <2>1
  <2>3. base = base \cup {}
    OBVIOUS
  <2>4. QED
    BY <1>3, <2>2, <2>3 DEF A!Dispatch
<1>4. QED
  BY <1>2, <1>3

(* Every step of the simulator is a step of the abstract supervisor, or   *)
(* leaves the supervisor's state, cursor and session alone.               *)
LEMMA RefinementStep ==
  ~CloseWithoutError /\ IInv /\ [Next]_vars => [A!ANext]_A!avars
<1> SUFFICES ASSUME ~CloseWithoutError, IInv, [Next]_vars
             PROVE  [A!ANext]_A!avars
  OBVIOUS
<1>0. TypeOK
  BY DEF IInv
<1>1. CASE RunLoop
  <2>1. StBar = "Disconnected" /\ StBar' = "Connecting"
    BY <1>1 DEF RunLoop, StBar, ChanState
  <2>2. QED
    BY <1>1, <2>1 DEF RunLoop, A!ANext, A!Initiate
<1>2. CASE OnConnect
  <2>1. stopped /\ cursor = 1 /\ StBar = "Connecting"
    BY <1>2, Zenon DEF OnConnect, IInv, StBar, ChanState
  <2>2. CASE proc' = "crashed"
    <3>1. UNCHANGED <<cursor, seen>> /\ StBar' = "Stopped"
      BY <1>2, <2>2 DEF OnConnect, OnConnected, ReplayNext, StBar
    <3>2. QED
      BY <2>1, <3>1 DEF A!ANext, A!Stop
  <2>3. CASE proc' # "crashed"
    <3>1. PICK o \in WriteOutcomes(cursor) :
              /\ o # "aborted" /\ proc' = "running"
              /\ seen' = IF o = "written" THEN {} \cup {cursor} ELSE {}
              /\ cursor' = Succ(cursor)
      BY <1>2, <2>3 DEF OnConnect, OnConnected, ReplayNext
    <3>2. StBar' = "Connected"
      BY <1>2, <3>1 DEF OnConnect, StBar, ChanState
    <3>3. seen' \in A!Dispatch(cursor, {})
      BY <1>0, <3>1, DispatchStep DEF TypeOK
    <3>4. cursor' = A!Wrap(cursor)
      BY <3>1 DEF Succ, A!Wrap
    <3>5. QED
      BY <2>1, <3>2, <3>3, <3>4 DEF A!ANext, A!Established
  <2>4. QED
    BY <2>2, <2>3
<1>3. CASE ChannelError
  <2>1. StBar \in {"Connecting", "Connected"} /\ StBar' = "Backoff"
    BY <1>3 DEF ChannelError, OnError, StBar, ChanState
  <2>2. QED
    BY <1>3, <2>1 DEF ChannelError, OnError, Reset, A!ANext, A!Fail
<1>4. CASE OnClosed
  BY <1>4 DEF OnClosed
<1>5. CASE Reconnect
  <2>1. StBar = "Backoff" /\ StBar' = "Connecting"
    BY <1>5 DEF Reconnect, StBar, ChanState
  <2>2. QED
    BY <1>5, <2>1 DEF Reconnect, A!ANext, A!Retry
<1>6. CASE Callback
  <2>1. CASE stopped
    <3>1. UNCHANGED <<proc, chan, cursor, seen>>
      BY <1>6, <2>1 DEF Callback
    <3>2. QED
      BY <3>1 DEF A!avars, StBar
  <2>2. CASE ~stopped
    <3>0. proc = "running" /\ chan = "connected"
      BY <1>6, <2>2, Zenon DEF Callback, IInv
    <3>1. proc = "running" /\ chan = "connected" /\ StBar = "Connected"
      BY <3>0 DEF StBar, ChanState
    <3>2. ReplayNext(seen) /\ UNCHANGED chan
      BY <1>6, <2>2 DEF Callback
    <3>3. CASE proc' = "crashed"
      <4>1. UNCHANGED <<cursor, seen>> /\ StBar' = "Stopped"
        BY <3>1, <3>2, <3>3 DEF ReplayNext, StBar
      <4>2. QED
        BY <3>1, <4>1 DEF A!ANext, A!Stop
    <3>4. CASE proc' # "crashed"
      <4>1. PICK o \in WriteOutcomes(cursor) :
                /\ o # "aborted" /\ proc' = "running"
                /\ seen' = IF o = "written" THEN seen \cup {cursor} ELSE seen
                /\ cursor' = Succ(cursor)
        BY <3>1, <3>2, <3>4 DEF ReplayNext
      <4>2. StBar' = "Connected"
        BY <3>1, <3>2, <4>1 DEF StBar, ChanState
      <4>3. seen' \in A!Dispatch(cursor, seen)
        BY <1>0, <4>1, DispatchStep DEF TypeOK
      <4>4. cursor' = A!Wrap(cursor)
        BY <4>1 DEF Succ, A!Wrap
      <4>5. QED
        BY <3>1, <4>2, <4>3, <4>4 DEF A!ANext, A!Tick
    <3>5. QED
      BY <3>3, <3>4
  <2>3. QED
    BY <2>1, <2>2
<1>7. CASE Shutdown
  <2>1. StBar # "Stopped" /\ StBar' = "Stopped"
    BY <1>0, <1>7 DEF Shutdown, StBar, ChanState, TypeOK
  <2>2. QED
    BY <1>7, <2>1 DEF Shutdown, A!ANext, A!Stop
<1>8. CASE UNCHANGED vars
  BY <1>8 DEF vars, A!avars, StBar
<1>9. QED
  BY <1>1, <1>2, <1>3, <1>4, <1>5, <1>6, <1>7, <1>8 DEF Next

(* The simulator starts where the abstract supervisor starts, and every   *)
(* handler the loop runs (on_connect with the first replay, callback,     *)
(* on_error with reset, reconnect, shutdown) is a transition of the       *)
(* spec's state machine: in particular every session begins at the first  *)
(* record.  This is the safety part of ImplementsAbstract, for every       *)
(* recording, when sessions end through on_error.                          *)
THEOREM RefinementSafety ==
  ASSUME ~CloseWithoutError
  PROVE  Spec => A!AInit /\ [][A!ANext]_A!avars
<1>1. Init => A!AInit
  BY DEF Init, A!AInit, StBar, ChanState
<1>2. Init => IInv
  BY InitIInv
<1>3. IInv /\ [Next]_vars => IInv'
  BY IInvStep
<1>4. IInv /\ [Next]_vars => [A!ANext]_A!avars
  BY RefinementStep
<1>5. QED
  BY <1>1, <1>2, <1>3, <1>4, PTL DEF Spec
=============================================================================
