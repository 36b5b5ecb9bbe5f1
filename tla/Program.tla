------------------------------- MODULE Program -------------------------------
(***************************************************************************)
(* The order in which an RV32 hart executes instructions, one at a time:   *)
(* the specification the fetch loop of the core has to implement.  npc is  *)
(* the address of the next instruction.  Executing it records its address, *)
(* the link value a jump would save, and where it went; a trap moves npc   *)
(* without executing, and is recorded as well, so that npc never moves     *)
(* unnoticed.                                                              *)
(***************************************************************************)
EXTENDS Address

VARIABLES npc, issued

Issue == [pc : PC, link : PC, taken : BOOLEAN, to : PC, trap : BOOLEAN]

Executed(pc, link, jump, target) ==
  [pc |-> pc, link |-> link, taken |-> jump, to |-> target, trap |-> FALSE]

Trapped(target) ==
  [pc |-> target, link |-> target, taken |-> TRUE, to |-> target, trap |-> TRUE]

Execute(jump, target) ==
  /\ issued' = Executed(npc, Succ(npc), jump, target)
  /\ npc' = IF jump THEN target ELSE Succ(npc)

Redirect(target) == npc' = target /\ issued' = Trapped(target)

PInit == npc \in PC /\ issued \in Issue
PNext == \E t \in PC : Redirect(t) \/ \E jump \in BOOLEAN : Execute(jump, t)
PSpec == PInit /\ [][PNext]_<<npc, issued>>
=============================================================================
