------------------------------- MODULE MCTraps -------------------------------
(* Instances of Traps.tla for TLC: what the CSR instructions write.        *)
EXTENDS Traps

(* Software switches the timer's interrupt on and off, starts the timer    *)
(* once or repeating, and clears the pending bit.  It leaves mstatus to    *)
(* the traps: MIE, all it could change, decides nothing.                   *)
AllWrites == {<<"mie", 0>>, <<"mie", 1>>, <<"config", 1>>, <<"config", 3>>,
              <<"divider", 0>>, <<"mip", 0>>}

(* test_timer.s enables the interrupt and lets the timer repeat; here it   *)
(* may also set and clear MIE.                                             *)
TimerTest == {<<"mie", 1>>, <<"config", 3>>, <<"mstatus", 0>>, <<"mstatus", 1>>}
=============================================================================
