----------------------- MODULE ReplaySupervisorProofs -----------------------
(***************************************************************************)
(* Proofs about ReplaySupervisor, for every recording (any N >= 2, any     *)
(* record kinds and timestamps).                                           *)
(***************************************************************************)
EXTENDS ReplaySupervisor, TLAPS

(* The records write_message always writes.                               *)
AllHandled == {j \in Idx : Handled(j)}

(* While a session is up, the peer has received exactly the handled       *)
(* records before the cursor, or the replay has wrapped and it has        *)
(* received all of them.                                                  *)
SessionCover ==
  \/ AllHandled \subseteq seen
  \/ /\ \A i \in seen : i < cursor
     /\ \A j \in 1 .. (cursor - 1) : Handled(j) => j \in seen

(* The inductive invariant behind SessionPrefix.  While the process runs, *)
(* stopped_ is set exactly when the channel is not connected (on_error is *)
(* the only way a session ends), a stopped reader is at begin(), and a    *)
(* live session is covered.                                               *)
IInv ==
  /\ TypeOK
  /\ SessionPrefix
  /\ proc = "running" => (stopped <=> chan # "connected")
  /\ proc = "running" /\ stopped => cursor = 1
  /\ proc = "running" /\ chan = "connected" => SessionCover

-----------------------------------------------------------------------------
(* Facts about the reader's helpers.                                      *)

(* The cursor stays within the recording.                                 *)
LEMMA SuccType == \A c \in Idx : Succ(c) \in Idx
  BY NAssumption DEF Succ, Idx

(* The defer period is a natural number.                                  *)
LEMMA DeferMsType == \A c \in Idx : DeferMs(c) \in Nat
<1> SUFFICES ASSUME NEW c \in Idx, c # N PROVE DeferMs(c) \in Nat
  BY DEF DeferMs
<1>1. c + 1 \in Idx
  BY NAssumption DEF Idx
<1>2. AbsDiff(Stamp[c], Stamp[c + 1]) \in Nat
  BY <1>1, StampAssumption DEF AbsDiff
<1>3. \A d \in Nat : d \div NsPerMs \in Nat
  BY StampAssumption
<1>4. QED
  BY <1>2, <1>3 DEF DeferMs

(* Every step of Next preserves the types.                              *)
LEMMA TypeStep == TypeOK /\ [Next]_vars => TypeOK'
<1> SUFFICES ASSUME TypeOK, [Next]_vars PROVE TypeOK'
  OBVIOUS
<1>1. stopped' \in BOOLEAN /\ armed' \in BOOLEAN
  BY Zenon DEF TypeOK, Next, vars, RunLoop, OnConnect, OnConnected, Defer,
               ChannelError, OnError, OnClosed, Reconnect, Callback, Shutdown
<1>2. /\ proc' \in {"running", "crashed", "exited"}
      /\ chan' \in {"idle", "connecting", "connected", "backoff"}
      /\ delay' \in Nat /\ cursor' \in Idx /\ seen' \subseteq Idx
  <2>1. ASSUME NEW base \in SUBSET Idx, ReplayNext(base)
        PROVE  /\ proc' \in {"running", "crashed", "exited"}
               /\ delay' \in Nat /\ cursor' \in Idx /\ seen' \subseteq Idx
    BY <2>1, SuccType, DeferMsType DEF ReplayNext, TypeOK
  <2>3. CASE RunLoop
    BY <2>3 DEF RunLoop, TypeOK
  <2>4. CASE OnConnect
    BY <2>1, <2>4 DEF OnConnect, OnConnected, TypeOK
  <2>5. CASE ChannelError
    BY <2>5, NAssumption DEF ChannelError, OnError, Reset, TypeOK, Idx
  <2>6. CASE OnClosed
    BY <2>6 DEF OnClosed, TypeOK
  <2>7. CASE Reconnect
    BY <2>7 DEF Reconnect, TypeOK
  <2>8. CASE Callback
    BY <2>1, <2>8 DEF Callback, TypeOK
  <2>9. CASE Shutdown
    BY <2>9 DEF Shutdown, TypeOK
  <2>10. CASE UNCHANGED vars
    BY <2>10 DEF vars, TypeOK
  <2>11. QED
    BY <2>3, <2>4, <2>5, <2>6, <2>7, <2>8, <2>9, <2>10 DEF Next
<1>3. QED
  BY <1>1, <1>2 DEF TypeOK

(* Init establishes the types.                                           *)
LEMMA InitType == Init => TypeOK
<1> SUFFICES ASSUME Init PROVE TypeOK
  OBVIOUS
<1>1. stopped \in BOOLEAN /\ armed \in BOOLEAN
  BY Zenon DEF Init
<1>2. cursor \in Idx /\ seen \subseteq Idx /\ delay \in Nat
  BY NAssumption DEF Init, Idx
<1>3. QED
  BY <1>1, <1>2 DEF Init, TypeOK

(* Type correctness: the variables keep their types in every step of the *)
(* simulator, the channel and the scheduler.                              *)
THEOREM TypeCorrect == Spec => []TypeOK
<1>1. Init => TypeOK
  BY InitType
<1>2. TypeOK /\ [Next]_vars => TypeOK'
  BY TypeStep
<1>3. QED
  BY <1>1, <1>2, PTL DEF Spec

-----------------------------------------------------------------------------
(* SessionPrefix.                                                          *)

(* A handled record is always written.                                    *)
LEMMA HandledWritten == \A c \in Idx : Handled(c) => WriteOutcomes(c) = {"written"}
  BY DEF Handled, WriteOutcomes

(* A covered set of records is prefix-closed, for any set and cursor.     *)
LEMMA CoverPrefix ==
  ASSUME NEW S \in SUBSET Idx, NEW c \in Idx,
         \/ AllHandled \subseteq S
         \/ /\ \A i \in S : i < c
            /\ \A j \in 1 .. (c - 1) : Handled(j) => j \in S
  PROVE  \A i \in S : \A j \in 1 .. (i - 1) : Handled(j) => j \in S
<1> SUFFICES ASSUME NEW i \in S, NEW j \in 1 .. (i - 1), Handled(j)
             PROVE  j \in S
  OBVIOUS
<1>1. j \in Idx
  BY NAssumption DEF Idx
<1>2. CASE AllHandled \subseteq S
  BY <1>1, <1>2 DEF AllHandled
<1>3. CASE ~(AllHandled \subseteq S)
  BY <1>3, NAssumption DEF Idx
<1>4. QED
  BY <1>2, <1>3

(* The first record of a new session: the reader is at begin() and the   *)
(* peer starts empty.                                                     *)
LEMMA ConnectCover ==
  ASSUME TypeOK, cursor = 1, ReplayNext({}), proc' = "running",
         chan' = "connected"
  PROVE  SessionCover' /\ seen' \subseteq {1}
<1>1. cursor' = 2 /\ seen' \subseteq {1}
  BY NAssumption DEF ReplayNext, Succ, TypeOK
<1>2. Handled(1) => 1 \in seen'
  BY HandledWritten, NAssumption DEF ReplayNext, Idx
<1>3. QED
  BY <1>1, <1>2 DEF SessionCover

(* One replayed record keeps a live session covered.                      *)
LEMMA TickCover ==
  ASSUME TypeOK, SessionCover, ReplayNext(seen), proc' = "running",
         chan' = "connected"
  PROVE  SessionCover'
<1>0. cursor \in Idx /\ seen \subseteq Idx
  BY DEF TypeOK
<1>1. /\ cursor' = Succ(cursor)
      /\ seen' = seen \/ seen' = seen \cup {cursor}
      /\ Handled(cursor) => seen' = seen \cup {cursor}
  BY HandledWritten DEF ReplayNext, TypeOK
<1>2. CASE AllHandled \subseteq seen
  BY <1>1, <1>2 DEF SessionCover
<1>3. CASE ~(AllHandled \subseteq seen) /\ cursor = N
  <2>1. AllHandled \subseteq seen'
    BY <1>0, <1>1, <1>3, NAssumption DEF SessionCover, AllHandled, Idx
  <2>2. QED
    BY <2>1 DEF SessionCover
<1>4. CASE ~(AllHandled \subseteq seen) /\ cursor # N
  <2>0. /\ \A i \in seen : i < cursor
        /\ \A j \in 1 .. (cursor - 1) : Handled(j) => j \in seen
    BY <1>4 DEF SessionCover
  <2>1. cursor' = cursor + 1
    BY <1>1, <1>4 DEF Succ
  <2>2. \A i \in seen' : i < cursor'
    <3> SUFFICES ASSUME NEW i \in seen' PROVE i < cursor'
      OBVIOUS
    <3>1. CASE i \in seen
      BY <1>0, <2>0, <2>1, <3>1, NAssumption DEF Idx
    <3>2. CASE i = cursor
      BY <1>0, <2>1, <3>2, NAssumption DEF Idx
    <3>3. QED
      BY <1>1, <3>1, <3>2
  <2>3. \A j \in 1 .. (cursor' - 1) : Handled(j) => j \in seen'
    <3> SUFFICES ASSUME NEW j \in 1 .. (cursor' - 1), Handled(j) PROVE j \in seen'
      OBVIOUS
    <3>1. CASE j = cursor
      BY <1>1, <3>1
    <3>2. CASE j # cursor
      BY <1>0, <1>1, <2>0, <2>1, <3>2 DEF Idx
    <3>3. QED
      BY <3>1, <3>2
  <2>4. QED
    BY <2>2, <2>3 DEF SessionCover
<1>5. QED
  BY <1>2, <1>3, <1>4

(* Init establishes the inductive invariant.                              *)
LEMMA InitIInv == Init => IInv
<1> SUFFICES ASSUME Init PROVE IInv
  OBVIOUS
<1>1. TypeOK
  BY InitType
<1>2. QED
  BY <1>1, Zenon DEF Init, IInv, SessionPrefix

(* Every step preserves the inductive invariant when the channel reports *)
(* every lost session through on_error.                                   *)
LEMMA IInvStep == ~CloseWithoutError /\ IInv /\ [Next]_vars => IInv'
<1> SUFFICES ASSUME ~CloseWithoutError, IInv, [Next]_vars PROVE IInv'
  OBVIOUS
<1>0. /\ TypeOK /\ TypeOK'
      /\ cursor' \in Idx /\ seen' \subseteq Idx
  <2>1. TypeOK
    BY DEF IInv
  <2>2. TypeOK'
    BY <2>1, TypeStep
  <2>3. QED
    BY <2>1, <2>2 DEF TypeOK
(* A step that keeps seen keeps SessionPrefix.                            *)
<1>a. UNCHANGED seen => SessionPrefix'
  BY DEF IInv, SessionPrefix
<1>1. CASE RunLoop
  BY <1>0, <1>1, <1>a, Zenon DEF RunLoop, IInv
<1>2. CASE OnConnect
  <2>1. stopped /\ cursor = 1
    BY <1>2, Zenon DEF OnConnect, IInv
  <2>2. CASE proc' = "crashed"
    <3>1. UNCHANGED seen
      BY <1>2, <2>2 DEF OnConnect, OnConnected, ReplayNext
    <3>2. QED
      BY <1>0, <1>a, <2>2, <3>1 DEF IInv
  <2>3. CASE proc' # "crashed"
    <3>1. proc' = "running"
      BY <1>2, <2>3 DEF OnConnect, OnConnected, ReplayNext
    <3>2. SessionCover' /\ chan' = "connected" /\ stopped' = FALSE
      BY <1>0, <1>2, <2>1, <3>1, ConnectCover DEF OnConnect, OnConnected
    <3>3. SessionPrefix'
      BY <1>0, <3>2, CoverPrefix DEF SessionCover, SessionPrefix
    <3>4. QED
      BY <1>0, <3>1, <3>2, <3>3 DEF IInv
  <2>4. QED
    BY <2>2, <2>3
<1>3. CASE ChannelError
  BY <1>0, <1>3, <1>a, Zenon DEF ChannelError, OnError, Reset, IInv
<1>4. CASE OnClosed
  BY <1>4 DEF OnClosed
<1>5. CASE Reconnect
  BY <1>0, <1>5, <1>a, Zenon DEF Reconnect, IInv
<1>6. CASE Callback
  <2>1. CASE stopped
    BY <1>0, <1>6, <2>1, <1>a, Zenon DEF Callback, IInv, SessionCover
  <2>2. CASE ~stopped
    <3>1. proc = "running" /\ chan = "connected" /\ SessionCover
      BY <1>6, <2>2, Zenon DEF Callback, IInv
    <3>2. ReplayNext(seen) /\ UNCHANGED <<chan, stopped>>
      BY <1>6, <2>2 DEF Callback
    <3>3. CASE proc' = "crashed"
      <4>1. UNCHANGED seen
        BY <3>1, <3>2, <3>3 DEF ReplayNext
      <4>2. QED
        BY <1>0, <1>a, <3>3, <4>1 DEF IInv
    <3>4. CASE proc' # "crashed"
      <4>1. proc' = "running"
        BY <3>1, <3>2, <3>4 DEF ReplayNext
      <4>2. SessionCover'
        BY <1>0, <3>1, <3>2, <4>1, TickCover
      <4>3. SessionPrefix'
        BY <1>0, <4>2, CoverPrefix DEF SessionCover, SessionPrefix
      <4>4. QED
        BY <1>0, <2>2, <3>1, <3>2, <4>1, <4>2, <4>3 DEF IInv
    <3>5. QED
      BY <3>3, <3>4
  <2>3. QED
    BY <2>1, <2>2
<1>7. CASE Shutdown
  BY <1>0, <1>7, <1>a, Zenon DEF Shutdown, IInv
<1>8. CASE UNCHANGED vars
  BY <1>0, <1>8, <1>a, Zenon DEF vars, IInv, SessionCover
<1>9. QED
  BY <1>1, <1>2, <1>3, <1>4, <1>5, <1>6, <1>7, <1>8 DEF Next

(* The peer's view of every session is prefix-closed: a session that has *)
(* received record i has received every earlier handled record, because  *)
(* on_error rewinds the reader and on_connected restarts from it.  This   *)
(* holds for every recording provided the channel ends sessions through  *)
(* on_error (CloseWithoutError = FALSE); run closed_gap shows it fails    *)
(* otherwise.                                                              *)
THEOREM SessionPrefixInvariant ==
  ASSUME ~CloseWithoutError
  PROVE  Spec => []SessionPrefix
<1>1. Init => IInv
  BY InitIInv
<1>2. IInv /\ [Next]_vars => IInv'
  BY IInvStep
<1>3. IInv => SessionPrefix
  BY DEF IInv
<1>4. QED
  BY <1>1, <1>2, <1>3, PTL DEF Spec
-----------------------------------------------------------------------------
(* Playback stays stopped until reconnection.                              *)

(* The step form of the action property.                                   *)
PlaybackStep ==
  proc' = "running" /\ chan' # "connected" => cursor' \in {cursor, 1}

(* Under the inductive invariant every step keeps the reader in place or  *)
(* rewinds it unless the channel is connected after the step: a tick can  *)
(* only be armed with stopped_ clear, and stopped_ is clear only while    *)
(* the channel is connected.                                              *)
LEMMA PlaybackStepHolds == IInv /\ [Next]_vars => PlaybackStep
<1> SUFFICES ASSUME IInv, [Next]_vars PROVE PlaybackStep
  OBVIOUS
<1>1. CASE RunLoop
  BY <1>1 DEF RunLoop, PlaybackStep
<1>2. CASE OnConnect
  BY <1>2 DEF OnConnect, PlaybackStep
<1>3. CASE ChannelError
  BY <1>3 DEF ChannelError, OnError, Reset, PlaybackStep
<1>4. CASE OnClosed
  BY <1>4 DEF OnClosed, PlaybackStep
<1>5. CASE Reconnect
  BY <1>5 DEF Reconnect, PlaybackStep
<1>6. CASE Callback
  <2>1. CASE stopped
    BY <1>6, <2>1 DEF Callback, PlaybackStep
  <2>2. CASE ~stopped
    <3>1. chan = "connected"
      BY <1>6, <2>2, Zenon DEF Callback, IInv
    <3>2. chan' = "connected"
      BY <1>6, <3>1 DEF Callback
    <3>3. QED
      BY <3>2 DEF PlaybackStep
  <2>3. QED
    BY <2>1, <2>2
<1>7. CASE Shutdown
  BY <1>7 DEF Shutdown, PlaybackStep
<1>8. CASE UNCHANGED vars
  BY <1>8 DEF vars, PlaybackStep
<1>9. QED
  BY <1>1, <1>2, <1>3, <1>4, <1>5, <1>6, <1>7, <1>8 DEF Next

(* on_error keeps its promise "stopping playback until reconnection" for  *)
(* every recording, provided the channel ends sessions through on_error   *)
(* (CloseWithoutError = FALSE): in a live process no step moves the       *)
(* reader forward while the channel is down.  With on_closed the timer    *)
(* stays armed and ticks replay into the closed channel.                  *)
THEOREM PlaybackStoppedTheorem ==
  ASSUME ~CloseWithoutError
  PROVE  Spec => PlaybackStoppedUntilReconnection
<1>1. Init => IInv
  BY InitIInv
<1>2. IInv /\ [Next]_vars => IInv'
  BY IInvStep
<1>3. IInv /\ [Next]_vars => [PlaybackStep]_vars
  BY PlaybackStepHolds
<1>4. QED
  BY <1>1, <1>2, <1>3, PTL DEF Spec, PlaybackStoppedUntilReconnection, PlaybackStep
=============================================================================
