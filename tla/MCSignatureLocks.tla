--------------------------- MODULE MCSignatureLocks ---------------------------
(* Instances of SignatureLocks for TLC. *)
EXTENDS SignatureLocks, TLC

CONSTANTS c1, emp, emp2, wit

\* Two employers who must sign and, in some runs, a witness who may.
MCContractOf == [p \in Party |-> c1]
MCStepOf     == [p \in Party |-> 1]
MCRequired   == Party \ {wit}
MCEmployer   == Party \ {wit}

\* Sessions are interchangeable, the sweepers among themselves, and so are the
\* parties, who are all required and on one step.
Sessions == Permutations(Txn \ Sweeper) \cup Permutations(Sweeper)
            \cup Permutations(Party)
=============================================================================
