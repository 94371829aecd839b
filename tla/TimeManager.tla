----------------------------- MODULE TimeManager -----------------------------
(***************************************************************************)
(* TimeManager (components/sys/TimeManager.cpp): the UTC clock of a node,  *)
(* a line through (m_local_ref_us, m_epoch_base_us) whose slope follows    *)
(* the master.  Two-way samples and broadcast beacons either step it or    *)
(* change its slope.  The network may lose beacons, repeat them and        *)
(* deliver them late, up to a limit, and in any order.                     *)
(*                                                                         *)
(* UTC as the master keeps it is the true time plus an offset.  A slope is *)
(* 1 + drift / SlewUnit; the real unit is a millionth.                     *)
(*                                                                         *)
(* One task calls the handlers, one after the other, and any task may read *)
(* the clock.  Nothing is locked: time passes and others look between any  *)
(* two readings of the clock that a handler makes, and between any two of  *)
(* the fields it stores.                                                   *)
(***************************************************************************)
EXTENDS TimeSource

CONSTANTS
  Offsets,       \* the master's time at power-up, in us
  StepThreshold, \* STEP_THRESHOLD_US
  SlewUnit, MaxSlew, \* MAX_SLEW_RATE = MaxSlew / SlewUnit
  Holdover,      \* HOLDOVER_TIMEOUT_MS, in updates
  MaxDelay,      \* how late a beacon may be, in us
  MaxRtt,        \* the longest round trip, in us
  MaxSyncs,      \* bound: samples and beacons processed
  Forced,        \* what force_step is called with
  MaxSteps       \* bound: steps taken when one is forced

ASSUME SlewAssumption ==
  /\ SlewUnit \in Nat \ {0} /\ MaxSlew \in Nat /\ MaxSlew < SlewUnit
  /\ StepThreshold \in Nat /\ Holdover \in Nat \ {0}
  /\ MaxDelay \in Nat /\ MaxRtt \in Nat /\ MaxSyncs \in Nat /\ MaxSteps \in Nat
  /\ Offsets \subseteq Nat /\ Forced \subseteq Int

VARIABLES
  offset,   \* the master's time at power-up
  state,    \* m_state
  base,     \* m_epoch_base_us
  ref,      \* m_local_ref_us
  drift,    \* m_drift_rate
  integral, \* m_integral_error
  lastRtt,  \* m_last_rtt_us
  silent,   \* m_holdover_elapsed_ms, up to Holdover
  steps,    \* m_step_count
  samples,  \* m_sync_count
  beacons,  \* m_beacon_count
  handler,  \* the handler that is running
  stepping, \* its correction is a step, and not one of the slope
  at,       \* what it does next: a reading, or the store of a field
  goal,     \* what it is to store as base,
  point,    \* ... as ref
  rate,     \* ... and as drift
  began,    \* history: cycles and Elapsed when it took its first reading
  seen      \* history: the last UTC read since a step, no handler running

lineVars == <<base, ref, drift, integral, steps>>
counts == <<lastRtt, samples, beacons>>
locals == <<handler, stepping, at, goal, point, rate, began>>
managerVars == <<state, lineVars, counts, silent, locals, seen>>
vars == <<sourceVars, offset, managerVars>>

Init ==
  /\ SourceInit /\ offset \in Offsets
  /\ state = "UNSYNCHRONIZED" /\ base = 0 /\ ref = 0 /\ drift = 0 /\ integral = 0
  /\ lastRtt = 0 /\ silent = 0 /\ steps = 0 /\ samples = 0 /\ beacons = 0
  /\ handler = "none" /\ stepping = FALSE /\ at = "idle"
  /\ goal = 0 /\ point = 0 /\ rate = 0 /\ began = <<0, 0>> /\ seen = 0

\* The master's clock.
Master == cycles \div CyclesPerUs + offset

Abs(n) == IF n < 0 THEN -n ELSE n
\* C's conversion from double.
Truncated(n, d) == IF n < 0 THEN -((-n) \div d) ELSE n \div d
\* get_utc_epoch_us.
Utc ==
  IF state = "UNSYNCHRONIZED" THEN Local
  ELSE LET calc == base + Truncated((Local - ref) * (SlewUnit + drift), SlewUnit)
       IN IF calc > 0 THEN calc ELSE 0

-----------------------------------------------------------------------------
(* The two corrections.                                                     *)

\* A handler asks for the time.
Asking == Extends /\ UNCHANGED <<cycles, asking, lapsed, offset, seen>>

\* Mutant: no limit on the slope.
Unlimited(n) == n
Clamp(n) == IF n > MaxSlew THEN MaxSlew ELSE IF n < -MaxSlew THEN -MaxSlew ELSE n

Starts(h) ==
  /\ at = "idle" /\ Settled
  /\ handler' = h /\ began' = <<cycles, Elapsed>>
Synchronizes(h) ==
  Starts(h) /\ samples + beacons < MaxSyncs /\ silent' = 0

\* apply_step is called with both ends of the line.
StepsTo(target, local) ==
  /\ stepping' = TRUE /\ at' = "base" /\ goal' = target /\ point' = local
  /\ UNCHANGED <<rate, integral>>

\* apply_slew works out the slope (the gains are 1), and reads the clock next.
Slews(error) ==
  /\ integral' = integral + error
  /\ rate' = Clamp(error + integral')
  /\ at' = "utc" /\ UNCHANGED <<stepping, goal, point>>

\* apply_slew: the present point, its UTC ...
ReadUtc ==
  /\ at = "utc" /\ at' = "local" /\ goal' = Utc
  /\ Asking
  /\ UNCHANGED <<state, lineVars, counts, silent, handler, stepping, point, rate, began>>

\* ... and its local time, by a second reading.  So does force_step.
ReadLocal ==
  /\ at = "local" /\ at' = "base" /\ point' = Local
  /\ Asking
  /\ UNCHANGED <<state, lineVars, counts, silent, handler, stepping, goal, rate, began>>

Storing == UNCHANGED <<sourceVars, offset, counts, silent, handler, stepping, goal, point, rate,
                       began, seen>>

\* Mutant: a correction of the slope leaves the base where it was.
StoreBaseOfSteps ==
  /\ at = "base" /\ at' = "ref" /\ base' = IF stepping THEN goal ELSE base
  /\ Storing /\ UNCHANGED <<state, ref, drift, integral, steps>>
StoreBase ==
  /\ at = "base" /\ at' = "ref" /\ base' = goal
  /\ Storing /\ UNCHANGED <<state, ref, drift, integral, steps>>
StoreRef ==
  /\ at = "ref" /\ at' = "drift" /\ ref' = point
  /\ Storing /\ UNCHANGED <<state, base, drift, integral, steps>>

\* The handler returns; a step makes all earlier readings of UTC void.
Returns ==
  /\ handler' = "none" /\ stepping' = FALSE /\ at' = "idle"
  /\ goal' = 0 /\ point' = 0 /\ rate' = 0 /\ began' = <<0, 0>>
  /\ seen' = IF stepping THEN 0 ELSE seen
  /\ UNCHANGED <<sourceVars, offset, counts, silent>>

\* A step clears the integral and is counted; force_step ends with it.
StoreDrift ==
  /\ at = "drift" /\ drift' = rate
  /\ IF stepping THEN integral' = 0 /\ steps' = steps + 1 ELSE UNCHANGED <<integral, steps>>
  /\ IF handler = "force" THEN Returns ELSE at' = "state" /\ Storing
  /\ UNCHANGED <<state, base, ref>>

\* The other handlers end with m_state.
StoreState ==
  /\ at = "state"
  /\ state' = IF handler = "sample" /\ stepping THEN "CALIBRATING" ELSE "LOCKED"
  /\ Returns /\ UNCHANGED lineVars

Continues == ReadUtc \/ ReadLocal \/ StoreBase \/ StoreRef \/ StoreDrift \/ StoreState

-----------------------------------------------------------------------------
(* The handlers.                                                            *)

\* process_rtt_sample: the node stamped its local time between the request,
\* sent d1 before, and the answer, which came d2 later.  The offset is that
\* of the local clock, not of the disciplined one.
RttSample(d1, d2) ==
  LET t2 == Local - d2
      t1 == Master - d2 - d1
      raw == Truncated(2 * t2 - t1 - Master, 2)
  IN /\ t2 >= 0 /\ t1 >= 0
     /\ Synchronizes("sample")
     /\ lastRtt' = d1 + d2 /\ samples' = samples + 1
     /\ IF state = "UNSYNCHRONIZED" \/ Abs(raw) > StepThreshold
        THEN StepsTo(t1 + (d1 + d2) \div 2, t2)
        ELSE Slews(-raw)
     /\ UNCHANGED <<sourceVars, offset, seen, state, base, ref, drift, steps, beacons>>

\* Mutant: only a clock that is behind is stepped.
FarBehind(error) == error > StepThreshold
Far(error) == Abs(error) > StepThreshold

\* process_beacon: sent `late` ago, received `queued` before the clock is
\* read.  The error is taken at the present, not when the beacon was received,
\* and neither sequence number nor stratum is looked at.
Beacon(late, queued) ==
  LET received == Local - queued
      target == Master - queued - late + lastRtt \div 2
      error == target - Utc
  IN /\ received >= 0 /\ Master >= queued + late
     /\ Synchronizes("beacon")
     /\ beacons' = beacons + 1
     /\ IF state = "UNSYNCHRONIZED" \/ Far(error)
        THEN StepsTo(target, received)
        ELSE Slews(error)
     /\ Asking /\ UNCHANGED <<state, base, ref, drift, steps, lastRtt, samples>>

\* force_step reads UTC, then local time, and leaves the state as it is.
ForceStep(by) ==
  /\ Starts("force") /\ steps < MaxSteps
  /\ Utc + by >= 0 /\ goal' = Utc + by /\ stepping' = TRUE /\ at' = "local"
  /\ Asking /\ UNCHANGED <<state, lineVars, counts, silent, point, rate>>

\* Mutant: the time without a master not added up.
UpdateUncounted ==
  /\ at = "idle" /\ state \in {"LOCKED", "HOLDOVER"} /\ silent < Holdover
  /\ silent' = 1
  /\ state' = IF silent' = Holdover THEN "HOLDOVER" ELSE state
  /\ UNCHANGED <<sourceVars, offset, lineVars, counts, locals, seen>>
\* update, called at regular intervals.
Update ==
  /\ at = "idle" /\ state \in {"LOCKED", "HOLDOVER"} /\ silent < Holdover
  /\ silent' = silent + 1
  /\ state' = IF silent' = Holdover THEN "HOLDOVER" ELSE state
  /\ UNCHANGED <<sourceVars, offset, lineVars, counts, locals, seen>>

\* A task reads UTC while no handler runs.
Observe ==
  /\ at = "idle" /\ Settled /\ seen' = Utc
  /\ Extends /\ UNCHANGED <<cycles, asking, lapsed, offset, state, lineVars, counts, silent,
                           locals>>

Next ==
  \/ SourceStep /\ UNCHANGED <<offset, managerVars>>
  \/ \E d1 \in 0 .. MaxRtt : \E d2 \in 0 .. MaxRtt - d1 : RttSample(d1, d2)
  \/ \E late \in 0 .. MaxDelay : \E queued \in 0 .. late : Beacon(late - queued, queued)
  \/ \E by \in Forced : ForceStep(by)
  \/ Continues \/ Update \/ Observe

Spec == Init /\ [][Next]_vars /\ WF_vars(Update) /\ WF_vars(Continues)

-----------------------------------------------------------------------------
\* The types of the variables; the slope stays positive.
TypeOK ==
  /\ cycles \in 0 .. MaxCycles /\ zeroedAt \in 0 .. cycles /\ readAt \in zeroedAt .. cycles
  /\ lastCyccnt \in 0 .. Wrap - 1 /\ accumulated \in Nat /\ lapsed \in BOOLEAN
  /\ initialized \in BOOLEAN /\ asking \in [Tasks -> {"no", "counter", "total"}]
  /\ state \in {"UNSYNCHRONIZED", "CALIBRATING", "LOCKED", "HOLDOVER"}
  /\ offset \in Nat /\ base \in Nat /\ ref \in Nat
  /\ drift \in -MaxSlew .. MaxSlew /\ integral \in Int
  /\ lastRtt \in 0 .. MaxRtt /\ silent \in 0 .. Holdover /\ steps \in Nat
  /\ samples \in Nat /\ beacons \in Nat /\ samples + beacons <= MaxSyncs
  /\ handler \in {"none", "sample", "beacon", "force"}
  /\ at \in {"idle", "utc", "local", "base", "ref", "drift", "state"}
  /\ stepping \in BOOLEAN
  /\ goal \in Nat /\ point \in Nat /\ rate \in -MaxSlew .. MaxSlew
  /\ began \in Nat \X Nat /\ seen \in Nat

\* However often the hardware counter turns over, whoever asks and whenever:
\* once it is started by one task alone, local time passes as time does,
\* provided somebody asks in every turn.
TimeRunsTrue ==
  [][Settled /\ ~Overdue' => Elapsed' - Elapsed = cycles' - cycles]_vars

\* UTC as it is read while no handler runs never turns back but by a step:
\* whatever time passes between the readings and the stores of the slope
\* corrections between, the line does not fall below an earlier reading.
OnlyStepsTurnBack ==
  at = "idle" /\ Settled /\ ~lapsed => seen <= Utc

\* What TimeManager.h promises of every reading: while the clock is not
\* stepped, whoever reads it never sees it turn back.  A reader that looks
\* between the readings and the stores of apply_slew does.
NeverTurnsBack ==
  [][Settled /\ ~lapsed' /\ ~stepping /\ ~stepping' => Utc' >= Utc]_vars

\* When the handler of a beacon returns, however late the beacon was and in
\* whatever order they come, the clock is no further from the master's than
\* the beacon was late, half a round trip, the error that is tolerated and
\* the time the handler took, to the microsecond.
BeaconBoundsError ==
  [][handler = "beacon" /\ at' = "idle" /\ ~lapsed'
       => Abs(Utc' - Master) <= MaxDelay + MaxRtt + StepThreshold
                                + (Local - began[2] \div CyclesPerUs) + 1]_vars

\* When the master falls silent the clock does not pass for locked.
HoldoverComes == []<>(state # "LOCKED")
=============================================================================
