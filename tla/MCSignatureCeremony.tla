------------------------- MODULE MCSignatureCeremony -------------------------
(* Instances of SignatureCeremony for TLC. *)
EXTENDS SignatureCeremony

CONSTANTS c1, c2, emp, emp2, wit, wit2, other, emp3

\* Step 1 asks the employer emp2 and the counterparty other, and may have the
\* witness wit2; step 2 asks the employer emp, and may have wit.  A roster that
\* starts with emp opens the later step first.  emp3 signs contract c2.
MCContractOf == [p \in Party |-> IF p = emp3 THEN c2 ELSE c1]
MCStepOf     == [p \in Party |-> IF p \in {emp, wit} THEN 2 ELSE 1]
MCRequired   == Party \ {wit, wit2}
MCEmployer   == Party \ {wit, wit2, other}
=============================================================================
