-------------------------- MODULE ContractLifecycle --------------------------
(***************************************************************************)
(* What the approval engine and the signature ceremony promise together of *)
(* a contract, without their tables: it goes through one approval at a     *)
(* time, only an open approval can decide a contract that waits for one,   *)
(* and only an approved contract goes to its signers.  ContractEngines     *)
(* implements it.                                                          *)
(***************************************************************************)
EXTENDS ContractStatus

CONSTANT Contract

VARIABLES
    status,       \* contract.status
    live,         \* contracts that are not deleted
    open          \* contracts with an approval under way

Init ==
    /\ status = [c \in Contract |-> "draft"]
    /\ live = Contract
    /\ open = {}

Set(c, new) == c \in live /\ status' = [status EXCEPT ![c] = new]

Submit(c) ==
    /\ status[c] \in {"draft", "resubmission_requested"} /\ c \notin open
    /\ Set(c, "in_approval")
    /\ open' = open \cup {c}
    /\ UNCHANGED live

\* The approval under way may be another one than that which gives the verdict
\* (an approver of an earlier round decides late), and then stays open.
MayClose(c) == open' \in {open, open \ {c}}

Verdict(c, new) ==
    /\ status[c] = "in_approval" /\ c \in open
    /\ Set(c, new)
    /\ MayClose(c)
    /\ UNCHANGED live

InSignature == {"awaiting_signature_employer", "awaiting_signature_counterparty"}

\* The signers, and approvers who decide late, move the contract on or back.
Advance(c, new) ==
    /\ status[c] \in InSignature \cup {"approved"}
    /\ <<status[c], new>> \in InternalTransitions
    /\ Set(c, new)
    /\ MayClose(c)
    /\ UNCHANGED live

\* One batch of expiries may end several ceremonies.
Halt(C) ==
    /\ \A c \in C : c \in live /\ status[c] \in InSignature
    /\ status' = [c \in Contract |-> IF c \in C THEN "expired" ELSE status[c]]
    /\ UNCHANGED <<live, open>>

Update(c, new) ==
    /\ <<status[c], new>> \in UserTransitions
    /\ Set(c, new)
    /\ UNCHANGED <<live, open>>

Delete(c) ==
    /\ live' = live \ {c}
    /\ UNCHANGED <<status, open>>

Next ==
    \/ \E c \in Contract :
          \/ Submit(c) \/ Delete(c)
          \/ \E new \in {"approved", "rejected", "draft"} : Verdict(c, new)
          \/ \E new \in ContractState : Advance(c, new) \/ Update(c, new)
    \/ \E C \in SUBSET Contract : Halt(C)

Spec == Init /\ [][Next]_<<status, live, open>>
=============================================================================
