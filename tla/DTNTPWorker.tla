---------------------------- MODULE DTNTPWorker ----------------------------
(***************************************************************************)
(* The time synchronisation between daemons.  The quality of a clock is a  *)
(* power of 1/sigma: level 0 is a reference, every hop and every period    *)
(* without synchronisation adds one, and level Worst stands for quality 0  *)
(* and for all that is worse than Worst - 1.  A clock is modelled by its   *)
(* error against real time, so that real time itself is never needed:      *)
(* "elapsed" is the time since the request of an exchange was created.     *)
(***************************************************************************)
EXTENDS Integers

CONSTANTS
  Second,     \* units of time in a second
  Worst,      \* the level of quality 0
  QotTick,    \* getQualityOfTimeTick()
  SyncGap     \* levels by which a peer must be better (getSyncLevel())

ASSUME TimeAssumption ==
  /\ Second \in Nat \ {0} /\ Worst \in Nat \ {0}
  /\ QotTick \in Nat /\ SyncGap \in Nat

\* q * (1 / sigma ^ k)
Faded(level, k) == IF level + k > Worst THEN Worst ELSE level + k

\* The clock and the worker's record of its last synchronisation.
InitialClock(ref, e) ==
  [level |-> IF ref THEN 0 ELSE Worst, last |-> IF ref THEN 0 ELSE Worst,
   age |-> 0, tic |-> 0, err |-> e]

\* raiseEvent(TIME_SECOND_TICK): the quality of the clock decreases.
Ticked(c, ref, sane) ==
  IF QotTick > 0 /\ ~ref
  THEN IF c.tic = QotTick
       THEN [c EXCEPT !.age = IF c.level = Worst THEN @ ELSE @ + 1, !.tic = 0,
                      !.level = Faded(c.last, c.age + 1)]
       ELSE [c EXCEPT !.tic = @ + 1]
  ELSE [c EXCEPT !.level = IF @ = Worst /\ sane THEN 0 ELSE @]

\* raiseEvent(NODE_INFO_UPDATED): is the announced clock worth a request?
IsBetter(level, own) == level # Worst /\ level + SyncGap < own

(***************************************************************************)
(* callbackBundleReceived, TIMESYNC_RESPONSE.  The age of the bundle goes  *)
(* into the microseconds of a timeval, timersub() carries one second only, *)
(* the seconds of the halved delay are not used, and the division of C     *)
(* rounds towards zero.                                                    *)
(***************************************************************************)
Truncated(x) == IF x >= 0 THEN x \div 2 ELSE -((-x) \div 2)

\* Seeded error: the time the bundles have waited in the nodes is not subtracted.
PropDelayUnaged(rtt, age) == Truncated(rtt % Second)

PropDelay(rtt, age) ==
  LET usec == (rtt % Second) - age
  IN Truncated(IF usec < 0 THEN usec + Second ELSE usec)

\* offset: local clock minus estimated clock of the peer.
Offset(c, msg, b) ==
  LET rtt == b.elapsed + c.err - msg.originErr
  IN (b.elapsed + c.err) - (msg.peerTime + msg.peerErr + b.peerAge + PropDelay(rtt, b.originAge))

\* Clock::setOffset() adds the offset, gettimeofday() subtracts it.
Adjusted(err, offset) == err - offset

Sync(c, ref, msg, b) ==
  IF ref \/ c.level <= msg.level THEN c
  ELSE [c EXCEPT !.level = Faded(msg.level, 1), !.err = Adjusted(@, Offset(c, msg, b)),
                 !.last = msg.level, !.age = 0]
=============================================================================
