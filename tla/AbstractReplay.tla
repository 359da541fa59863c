--------------------------- MODULE AbstractReplay ---------------------------
(***************************************************************************)
(* What the connection supervisor and the replay scheduler promise        *)
(* (spec sections 4.4 and 4.5), without the loop, the timer or the        *)
(* channel's callbacks: a state machine over Disconnected, Connecting,    *)
(* Connected and Backoff, plus Stopped once the process has ended.  The   *)
(* scheduler is a cursor over records 1 .. N that runs only while         *)
(* Connected; a session starts at the first record, and every failure     *)
(* rewinds the cursor.  sess is what the peer has received in the current *)
(* session.                                                                *)
(***************************************************************************)
EXTENDS Naturals

CONSTANTS
  N,       \* number of records
  Always,  \* the records dispatch always writes
  Never    \* the records dispatch always skips (the rest it may do either)

VARIABLES st, cur, sess

avars == <<st, cur, sess>>

(* The record after c, wrapping around at the end.                        *)
Wrap(c) == IF c = N THEN 1 ELSE c + 1

(* The peer's records after record c is dispatched on top of base.        *)
Dispatch(c, base) ==
  {base \cup w : w \in {s \in {{}, {c}} : /\ (c \in Always => s = {c})
                                           /\ (c \in Never => s = {})}}

AInit ==
  /\ st = "Disconnected"
  /\ cur = 1
  /\ sess = {}

(* Disconnected -> Connecting: the session is initiated.                   *)
Initiate ==
  /\ st = "Disconnected"
  /\ st' = "Connecting"
  /\ UNCHANGED <<cur, sess>>

(* Connecting -> Connected: the scheduler starts at the first record and  *)
(* its first tick fires at once, on a fresh peer.                         *)
Established ==
  /\ st = "Connecting"
  /\ cur = 1
  /\ st' = "Connected"
  /\ sess' \in Dispatch(cur, {})
  /\ cur' = Wrap(cur)

(* One scheduler tick while Connected.                                     *)
Tick ==
  /\ st = "Connected"
  /\ sess' \in Dispatch(cur, sess)
  /\ cur' = Wrap(cur)
  /\ UNCHANGED st

(* A failure while Connecting or Connected: stop, rewind, back off.       *)
Fail ==
  /\ st \in {"Connecting", "Connected"}
  /\ st' = "Backoff"
  /\ cur' = 1
  /\ UNCHANGED sess

(* Backoff -> Connecting after the jittered delay.                         *)
Retry ==
  /\ st = "Backoff"
  /\ st' = "Connecting"
  /\ UNCHANGED <<cur, sess>>

(* The process ends.                                                       *)
Stop ==
  /\ st # "Stopped"
  /\ st' = "Stopped"
  /\ UNCHANGED <<cur, sess>>

ANext == Initiate \/ Established \/ Tick \/ Fail \/ Retry \/ Stop

(* While Connected the scheduler keeps ticking.                           *)
ASpec == AInit /\ [][ANext]_avars /\ WF_avars(Tick)

=============================================================================
