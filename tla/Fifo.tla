-------------------------------- MODULE Fifo --------------------------------
(***************************************************************************)
(* The one-place fifo every stage of the core hands its results through    *)
(* (SIM/SystemC/UTIL/fifo.h).  A fifo is a record: v is fifo_v, the valid  *)
(* bit, and d is DOUT_R, the internal register, which is also the output.  *)
(* Popping clears v and leaves d alone, so the value of the last           *)
(* instruction stays visible on DOUT_R after it has left.                  *)
(*                                                                         *)
(* Only operators on such records here: the modules of the stages keep     *)
(* their fifos in variables of their own.  ElasticPipe.tla chains fifos     *)
(* into a pipeline.                                                        *)
(***************************************************************************)

FifoOf(Data) == [v : BOOLEAN, d : Data]

(* Reset: nothing valid, the data register cleared.                        *)
ResetFifo(zero) == [v |-> FALSE, d |-> zero]

(* flags_update: full when the data is valid and nobody pops it in this    *)
(* cycle, empty when it is not valid.                                      *)
FULL_S(f, pop) == f.v /\ ~pop
EMPTY_S(f)     == ~f.v

(* function: what the rising edge does with PUSH_S, POP_S and DIN_S.       *)
Clocked(f, push, pop, din) ==
  IF f.v /\ ~push /\ pop
  THEN [f EXCEPT !.v = FALSE]
  ELSE IF push /\ (pop \/ ~f.v)
       THEN [v |-> TRUE, d |-> din]
       ELSE f

(* clock_update: the same edge as the mini core's fifo writes it.          *)
MiniClocked(f, push, pop, din) ==
  IF ~push /\ pop
  THEN [f EXCEPT !.v = FALSE]
  ELSE IF push /\ ~FULL_S(f, pop)
       THEN [v |-> TRUE, d |-> din]
       ELSE f
=============================================================================
