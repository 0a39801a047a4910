-------------------------- MODULE CommandDelivery --------------------------
(***************************************************************************)
(* What producers of commands are promised: a command accepted by the      *)
(* broker leaves its queue only after the gateway has acted on it, and the *)
(* gateway acts for the first time on commands in the order they came.  It *)
(* may act on a command more than once, and acting is no promise that      *)
(* Liquidsoap obeyed.                                                      *)
(***************************************************************************)
EXTENDS Naturals, Sequences

CONSTANT Msgs           \* the commands that may be published

VARIABLES published,    \* the commands the broker accepted, in order
          pending,      \* those it still holds
          firsts        \* those the gateway has acted on, in order

vars == <<published, pending, firsts>>

Acted == {firsts[i] : i \in DOMAIN firsts}

Init == published = <<>> /\ pending = {} /\ firsts = <<>>

Submit(m) == /\ m \notin {published[i] : i \in DOMAIN published}
             /\ published' = Append(published, m)
             /\ pending' = pending \cup {m}
             /\ UNCHANGED firsts

(* The first action on a command; later ones change nothing here. *)
Act == /\ Len(firsts) < Len(published)
       /\ firsts' = Append(firsts, published[Len(firsts) + 1])
       /\ UNCHANGED <<published, pending>>

Settle(m) == /\ m \in pending \cap Acted
             /\ pending' = pending \ {m}
             /\ UNCHANGED <<published, firsts>>

Next == Act \/ \E m \in Msgs : Submit(m) \/ Settle(m)

Spec == Init /\ [][Next]_vars
=============================================================================
