----------------------------- MODULE AccessQueue -----------------------------
(***************************************************************************)
(* What the data cache's write buffer promises the memory: the accesses it *)
(* has taken reach the memory port in the order they came in, each once.   *)
(* It may refuse an access.                                                *)
(***************************************************************************)
EXTENDS Naturals, Sequences

CONSTANTS Access, Size

VARIABLES q,    \* accesses taken and not yet shown to the memory
          port  \* the access the memory port shows, <<>> or a sequence of one

QInit == q = <<>> /\ port = <<>>

(* In a cycle an access may be taken, the oldest may be shown, or both.    *)
Move(new, shown) ==
  /\ Len(q) + Len(new) =< Size
  /\ \/ shown /\ q # <<>> /\ q' = Tail(q) \o new /\ port' = <<Head(q)>>
     \/ ~shown /\ q' = q \o new /\ port' \in {port, <<>>}

QNext == \E new \in {<<>>} \union {<<a>> : a \in Access}, shown \in BOOLEAN : Move(new, shown)

QSpec == QInit /\ [][QNext]_<<q, port>>
=============================================================================
