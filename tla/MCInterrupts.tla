---------------------------- MODULE MCInterrupts ----------------------------
(* A small instance of Interrupts: three interrupts, a one-bit TIMA, and an *)
(* instruction with an entry longer than the fastest timer step.            *)
EXTENDS Interrupts

MCPriority == <<"VBlank", "Joypad", "Timer">>
MCPeriods == [s \in 0 .. 3 |-> IF s = 0 THEN 2 ELSE 1]

=============================================================================
