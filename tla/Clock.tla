-------------------------------- MODULE Clock -------------------------------
(***************************************************************************)
(* The millisecond clock of dn_time.h, which wraps around, and how         *)
(* dn_fsm.c measures time with it.                                         *)
(***************************************************************************)
EXTENDS Integers

CONSTANT ClockSize     \* the values of a uint32_t

ASSUME ClockAssumption == ClockSize \in Nat \ {0}

Times == 0 .. ClockSize - 1

\* The clock d milliseconds after it showed t.
Later(t, d) == (t + d) % ClockSize

\* Fault: a clock that has wrapped around seems to stand still.
ElapsedNoWrap(now, then) == IF now >= then THEN now - then ELSE 0

\* A difference of two uint32_t.
Elapsed(now, then) == (now - then) % ClockSize

=============================================================================
