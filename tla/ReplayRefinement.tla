-------------------------- MODULE ReplayRefinement --------------------------
(***************************************************************************)
(* ReplaySupervisor seen through the abstract supervisor of the spec:     *)
(* the channel's state, with the process's end as Stopped, is the         *)
(* supervisor's state; IngestJsonReader's cursor is the scheduler's       *)
(* cursor; the peer's records are the session.  stopped_, the armed timer *)
(* and the defer period have no abstract counterpart.                     *)
(***************************************************************************)
EXTENDS ReplaySupervisor

(* The supervisor state each channel state stands for.                   *)
ChanState ==
  [idle |-> "Disconnected", connecting |-> "Connecting",
   connected |-> "Connected", backoff |-> "Backoff"]

(* The supervisor state the simulator's process and channel stand for.    *)
StBar == IF proc # "running" THEN "Stopped" ELSE ChanState[chan]

(* The records write_message always writes, and those it always skips.    *)
AlwaysBar == {j \in Idx : Handled(j)}

NeverBar == {j \in Idx : Kind[j] \in {"TypeError", "Unknown"}}

A == INSTANCE AbstractReplay
       WITH st <- StBar, cur <- cursor, sess <- seen,
            Always <- AlwaysBar, Never <- NeverBar

(* The simulator implements the spec's supervisor: every handler of the   *)
(* loop (on_connect with on_connected's first replay, callback, on_error  *)
(* with reset, the reconnects and the shutdown) is a step of the abstract *)
(* state machine or leaves its state alone, every session begins at the   *)
(* first record, and while a session lasts the scheduler keeps ticking.   *)
ImplementsAbstract == A!ASpec

=============================================================================
