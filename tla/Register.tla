------------------------------ MODULE Register ------------------------------
(***************************************************************************)
(* What a sequence lock promises: the words it protects behave like one    *)
(* register that is written and read in single steps.                      *)
(***************************************************************************)
CONSTANTS Words, Values, Readers, Initial

VARIABLES
  value,   \* the contents of the register
  got      \* got[r]: what the last successful read of r returned

Nothing == [w \in {} |-> Initial[w]]

Init == value = Initial /\ got = [r \in Readers |-> Nothing]

Write == value' \in [Words -> Values] /\ UNCHANGED got

(* A read returns the words it asks for, all from one moment. *)
Read(r) ==
  /\ \E ws \in SUBSET Words : got' = [got EXCEPT ![r] = [w \in ws |-> value[w]]]
  /\ UNCHANGED value

Next == Write \/ \E r \in Readers : Read(r)

Spec == Init /\ [][Next]_<<value, got>>
=============================================================================
