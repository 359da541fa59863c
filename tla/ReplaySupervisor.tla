-------------------------- MODULE ReplaySupervisor --------------------------
(***************************************************************************)
(* The replay core of the kernel-collector simulator                       *)
(* (src/tools/kernel-collector-simulator): the JSON reader's cursor        *)
(* (IngestJsonReader::next/reset), the scheduler job that replays one      *)
(* record per tick (KernelCollectorSimulator::callback), and the handlers  *)
(* the transport calls (IngestConnection::on_connect / on_error /          *)
(* on_closed, forwarded to KernelCollectorSimulator::on_connected /        *)
(* on_error and to the no-op channel::Callbacks::on_closed).               *)
(*                                                                         *)
(* Everything runs on one libuv loop, so each handler is one atomic step.  *)
(* The reconnecting channel and the signal-driven shutdown are not in the  *)
(* repository's source; they are the environment of this module.          *)
(*                                                                         *)
(* A record is abstracted to what write_message does with it (Kind) and   *)
(* its timestamp (Stamp).  The downstream peer is abstracted to the set of *)
(* records written to it during the current session (seen).               *)
(***************************************************************************)
EXTENDS Naturals, FiniteSets

CONSTANTS
  N,                 \* number of records in the recording
  Kind,              \* Kind[i]: how write_message fares on record i
  Stamp,             \* Stamp[i]: the "timestamp" of record i, in ns
  NsPerMs,           \* duration_cast<milliseconds> divides by this
  CloseWithoutError  \* may the channel end a session with on_closed only?

(* The outcomes of write_message and of the header reads around it:       *)
(*   "Ok"           every field has its type: one write to the writer;    *)
(*   "TypeError"    a data field has the wrong type: nlohmann throws      *)
(*                  type_error, caught in next(), record skipped;         *)
(*   "Unknown"      no handler for the name: skipped;                     *)
(*   "MissingField" a data field is absent: const operator[] on a missing *)
(*                  key is undefined behaviour (assertion or a read of    *)
(*                  end()->second);                                        *)
(*   "BadTimestamp" the record's body is fine but its "timestamp" is not  *)
(*                  a number: the uint64 conversion throws outside the    *)
(*                  try block.                                             *)
RecordKinds == {"Ok", "TypeError", "Unknown", "MissingField", "BadTimestamp"}

Idx == 1 .. N

(* The constructor throws unless the recording has at least 2 messages.  *)
ASSUME NAssumption == N \in Nat /\ N >= 2

ASSUME KindAssumption == Kind \in [Idx -> RecordKinds]

ASSUME StampAssumption == Stamp \in [Idx -> Nat] /\ NsPerMs \in Nat \ {0}

ASSUME CloseAssumption == CloseWithoutError \in BOOLEAN

VARIABLES
  proc,     \* the simulator process: "running", "crashed" or "exited"
  chan,     \* the reconnecting channel: "idle", "connecting", "connected", "backoff"
  stopped,  \* KernelCollectorSimulator::stopped_
  armed,    \* scheduler_ holds a deferred run of callback()
  delay,    \* the delay (ms) passed to the last scheduler_.defer
  cursor,   \* IngestJsonReader::current_, as a 1-based index
  seen      \* records written to the peer in the current session

vars == <<proc, chan, stopped, armed, delay, cursor, seen>>

-----------------------------------------------------------------------------
(* The reader.                                                             *)

(* What write_message may do with a record: write it, skip it, or (through *)
(* the undefined behaviour of a missing key) abort the process.           *)
WriteOutcomes(c) ==
  CASE Kind[c] \in {"Ok", "BadTimestamp"}  -> {"written"}
    [] Kind[c] \in {"TypeError", "Unknown"} -> {"skipped"}
    [] Kind[c] = "MissingField"             -> {"written", "skipped", "aborted"}

(* next() reads the timestamps of the current and the next record only    *)
(* when it does not wrap; a malformed one throws out of next().           *)
HeaderThrows(c) ==
  c # N /\ (Kind[c] = "BadTimestamp" \/ Kind[c + 1] = "BadTimestamp")

(* Mutation: the end() check of next() forgotten.                          *)
SuccNoWrap(c) == c + 1

(* The record after c; after the last one the cursor returns to begin().  *)
Succ(c) == IF c = N THEN 1 ELSE c + 1

(* The defer period: the absolute difference of the two timestamps, zero  *)
(* at wrap-around, truncated to milliseconds by the caller.               *)
AbsDiff(a, b) == IF b > a THEN b - a ELSE a - b

DeferMs(c) == IF c = N THEN 0 ELSE AbsDiff(Stamp[c], Stamp[c + 1]) \div NsPerMs

(* One call of next() on a session whose peer has already seen base; its  *)
(* result is the delay.  A write reaches the peer only while the channel  *)
(* is connected.  An exception or an abort ends the process and with it   *)
(* every other state change.                                              *)
ReplayNext(base) ==
  \E o \in WriteOutcomes(cursor) :
    IF o = "aborted" \/ HeaderThrows(cursor)
      THEN /\ proc' = "crashed"
           /\ UNCHANGED <<delay, cursor, seen>>
      ELSE /\ seen' = IF o = "written" /\ chan' = "connected"
                        THEN base \cup {cursor} ELSE base
           /\ cursor' = Succ(cursor)
           /\ delay' = DeferMs(cursor)
           /\ UNCHANGED proc

(* scheduler_.defer: the job runs again after the delay, unless next()   *)
(* took the process down.                                                 *)
Defer == armed' = IF proc' = "running" THEN TRUE ELSE armed

-----------------------------------------------------------------------------
(* The simulator's handlers.                                               *)

(* The constructor: stopped_ is true, current_ is begin(), nothing is      *)
(* scheduled; run_loop has not called connect() yet.                      *)
Init ==
  /\ proc = "running"
  /\ chan = "idle"
  /\ stopped = TRUE
  /\ armed = FALSE
  /\ delay = 0
  /\ cursor = 1
  /\ seen = {}

(* run_loop: connection_.connect() before entering the loop.              *)
RunLoop ==
  /\ proc = "running"
  /\ chan = "idle"
  /\ chan' = "connecting"
  /\ UNCHANGED <<proc, stopped, armed, delay, cursor, seen>>

(* Mutation: on_connected leaves stopped_ set.                             *)
OnConnectedKeepsStopped ==
  /\ UNCHANGED stopped
  /\ ReplayNext({})
  /\ Defer

(* KernelCollectorSimulator::on_connected: clears stopped_, replays the   *)
(* current record at once and defers the next tick.                       *)
OnConnected ==
  /\ stopped' = FALSE
  /\ ReplayNext({})
  /\ Defer

(* IngestConnection::on_connect: caretaker_.set_connected() invokes the    *)
(* on_connected callback; channel::Callbacks::on_connect, which the       *)
(* simulator does not override, does nothing.  A session begins with an   *)
(* empty peer.                                                             *)
OnConnect ==
  /\ proc = "running"
  /\ chan = "connecting"
  /\ chan' = "connected"
  /\ OnConnected

(* IngestJsonReader::reset: the cursor returns to begin().                 *)
Reset == cursor' = 1

(* Mutation: on_error does not rewind the reader.                          *)
OnErrorNoReset ==
  /\ armed' = FALSE
  /\ stopped' = TRUE
  /\ UNCHANGED <<proc, delay, cursor, seen>>

(* Mutation: on_error rewinds the reader but leaves playback running.    *)
OnErrorNoStop ==
  /\ Reset
  /\ UNCHANGED <<proc, armed, stopped, delay, seen>>

(* KernelCollectorSimulator::on_error: stops the scheduler, sets stopped_,*)
(* resets the reader and sleeps the jittered reconnect delay on the loop  *)
(* thread (the sleep changes no state).                                    *)
OnError ==
  /\ armed' = FALSE
  /\ stopped' = TRUE
  /\ Reset
  /\ UNCHANGED <<proc, delay, seen>>

(* IngestConnection::on_error, for a failed connect or a lost session:    *)
(* caretaker_.set_disconnected(), then the simulator's on_error.          *)
ChannelError ==
  /\ proc = "running"
  /\ chan \in {"connecting", "connected"}
  /\ chan' = "backoff"
  /\ OnError

(* IngestConnection::on_closed forwards to channel::Callbacks::on_closed, *)
(* which KernelCollectorSimulator does not override: nothing is stopped   *)
(* and the cursor is not reset.                                           *)
OnClosed ==
  /\ CloseWithoutError
  /\ proc = "running"
  /\ chan = "connected"
  /\ chan' = "backoff"
  /\ UNCHANGED <<proc, stopped, armed, delay, cursor, seen>>

(* The reconnecting channel leaves backoff and connects again.            *)
Reconnect ==
  /\ proc = "running"
  /\ chan = "backoff"
  /\ chan' = "connecting"
  /\ UNCHANGED <<proc, stopped, armed, delay, cursor, seen>>

(* Mutation: callback replays a record but forgets scheduler_.defer.       *)
CallbackNoDefer ==
  /\ proc = "running"
  /\ armed
  /\ UNCHANGED chan
  /\ IF stopped
       THEN /\ armed' = FALSE
            /\ UNCHANGED <<proc, stopped, delay, cursor, seen>>
       ELSE /\ ReplayNext(seen)
            /\ armed' = FALSE
            /\ UNCHANGED stopped

(* The scheduler runs callback(): it returns stop when stopped_ is set,   *)
(* otherwise it replays the current record, flushes and defers again.     *)
Callback ==
  /\ proc = "running"
  /\ armed
  /\ UNCHANGED chan
  /\ IF stopped
       THEN /\ armed' = FALSE
            /\ UNCHANGED <<proc, stopped, delay, cursor, seen>>
       ELSE /\ ReplayNext(seen)
            /\ Defer
            /\ UNCHANGED stopped

(* A signal stops the loop; run_loop then stops the scheduler and sets    *)
(* stopped_, and main returns.                                            *)
Shutdown ==
  /\ proc = "running"
  /\ proc' = "exited"
  /\ armed' = FALSE
  /\ stopped' = TRUE
  /\ UNCHANGED <<chan, delay, cursor, seen>>

Next ==
  \/ RunLoop
  \/ OnConnect
  \/ ChannelError
  \/ OnClosed
  \/ Reconnect
  \/ Callback
  \/ Shutdown

(* libuv runs an armed timer once its delay has elapsed: the loop never   *)
(* blocks for good (on_error's sleep is bounded).  The channel and the    *)
(* signal are the environment and get no fairness.                       *)
Fairness == WF_vars(Callback)

Spec == Init /\ [][Next]_vars /\ Fairness

-----------------------------------------------------------------------------
(* Properties.                                                             *)

TypeOK ==
  /\ proc \in {"running", "crashed", "exited"}
  /\ chan \in {"idle", "connecting", "connected", "backoff"}
  /\ stopped \in BOOLEAN
  /\ armed \in BOOLEAN
  /\ delay \in Nat
  /\ cursor \in Idx
  /\ seen \subseteq Idx

(* The records write_message always writes.                               *)
Handled(j) == Kind[j] \in {"Ok", "BadTimestamp"}

(* The peer keeps no state across sessions, so every session must replay *)
(* the recording from its first record: whenever the peer has received    *)
(* record i in the current session, it has also received every earlier   *)
(* record the dispatcher handles.  This is what on_error's reset() and    *)
(* on_connected's restart are for.                                        *)
SessionPrefix ==
  \A i \in seen : \A j \in 1 .. (i - 1) : Handled(j) => j \in seen

(* A session is up: the process is alive and the channel connected.       *)
SessionUp == proc = "running" /\ chan = "connected"

(* As long as a session stays up, replay keeps cycling through the whole *)
(* recording (callback re-defers itself after every record): every record *)
(* comes up for replay again and again.                                   *)
ReplayProgress == \A i \in Idx : []<>(~SessionUp \/ cursor = i)

(* on_error's promise, "stopping playback until reconnection": in a live  *)
(* process no step leaves the reader past a record while the channel is   *)
(* not connected.  The reader may only stay or be rewound, so a tick that *)
(* was armed before the session was lost never replays a record into a   *)
(* channel that is down.                                                  *)
PlaybackStoppedUntilReconnection ==
  [][proc' = "running" /\ chan' # "connected" => cursor' \in {cursor, 1}]_vars

(* A malformed record never stops the replay (spec section 7).            *)
ReplayNeverAborts == proc # "crashed"

=============================================================================
