------------------------------ MODULE TimeSource ------------------------------
(***************************************************************************)
(* Stm32H7DwtTimeSource (targets/stm32h7/hal_impl/                         *)
(* Stm32H7DwtTimeSource.cpp): the cycle counter of the core, 32 bits wide  *)
(* in hardware, extended in software by whoever asks for the time.  The    *)
(* first to ask starts the counter, without a lock; the reading itself is  *)
(* one critical section.                                                   *)
(***************************************************************************)
EXTENDS Integers

CONSTANTS
  Tasks,       \* the tasks that ask for the time
  Wrap,        \* 2^32, the values of DWT->CYCCNT
  CyclesPerUs, \* m_cycles_per_us
  MaxCycles    \* bound: cycles until the end of the run

ASSUME WrapAssumption == Wrap \in Nat \ {0} /\ CyclesPerUs \in Nat \ {0} /\ MaxCycles \in Nat

VARIABLES
  cycles,      \* true time, in cycles
  zeroedAt,    \* when CYCCNT was last set to 0
  lastCyccnt,  \* m_last_cyccnt
  accumulated, \* m_accumulated_cycles
  initialized, \* m_initialized
  asking,      \* where each task is in init()
  readAt,      \* history: when lastCyccnt was last taken
  lapsed       \* history: a turn of the counter passed without a reading

counterVars == <<zeroedAt, lastCyccnt, accumulated, initialized, readAt>>
sourceVars == <<cycles, counterVars, asking, lapsed>>

SourceInit ==
  /\ cycles = 0 /\ zeroedAt = 0 /\ lastCyccnt = 0 /\ accumulated = 0
  /\ initialized = FALSE /\ asking = [t \in Tasks |-> "no"] /\ readAt = 0
  /\ lapsed = FALSE

Cyccnt == (cycles - zeroedAt) % Wrap
\* now_cyc - m_last_cyccnt in unsigned arithmetic.
\* Mutant: the difference of the numbers.
DeltaSigned == Cyccnt - lastCyccnt
Delta == (Cyccnt - lastCyccnt) % Wrap
\* What a reading would find now, in cycles and as get_time_us returns it.
Elapsed == accumulated + Delta
Local == Elapsed \div CyclesPerUs

\* The source has been started, and no second task is starting it again.
Settled == initialized /\ \A t \in Tasks : asking[t] = "no"
\* Nobody has asked for the time during a whole turn of the counter.
Overdue == cycles - readAt >= Wrap

Runs ==
  /\ cycles < MaxCycles /\ cycles' = cycles + 1
  /\ UNCHANGED <<counterVars, asking>>
  /\ lapsed' = (lapsed \/ (Settled /\ Overdue'))

\* The task has found the source not initialized.
Asks(t) ==
  /\ ~initialized /\ asking[t] = "no"
  /\ asking' = [asking EXCEPT ![t] = "counter"]
  /\ UNCHANGED <<cycles, counterVars, lapsed>>

\* init: the counter restarts and is read back ...
StartsCounter(t) ==
  /\ asking[t] = "counter"
  /\ asking' = [asking EXCEPT ![t] = "total"]
  /\ zeroedAt' = cycles /\ lastCyccnt' = 0 /\ readAt' = cycles
  /\ UNCHANGED <<cycles, accumulated, initialized, lapsed>>

\* ... and then the total.
StartsTotal(t) ==
  /\ asking[t] = "total"
  /\ asking' = [asking EXCEPT ![t] = "no"]
  /\ accumulated' = 0 /\ initialized' = TRUE
  /\ UNCHANGED <<cycles, zeroedAt, lastCyccnt, readAt, lapsed>>

\* Mutant: m_last_cyccnt forgotten.
ExtendsTwice ==
  /\ initialized
  /\ accumulated' = Elapsed /\ readAt' = cycles
  /\ UNCHANGED <<zeroedAt, lastCyccnt, initialized>>
\* The critical section of get_time_us.
Extends ==
  /\ initialized
  /\ accumulated' = Elapsed /\ lastCyccnt' = Cyccnt /\ readAt' = cycles
  /\ UNCHANGED <<zeroedAt, initialized>>

Reads == Extends /\ UNCHANGED <<cycles, asking, lapsed>>

SourceStep == Runs \/ Reads \/ \E t \in Tasks : Asks(t) \/ StartsCounter(t) \/ StartsTotal(t)
=============================================================================
