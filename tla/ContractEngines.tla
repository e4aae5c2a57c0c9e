--------------------------- MODULE ContractEngines ---------------------------
(***************************************************************************)
(* The approval engine and the signature ceremony on the same contracts.   *)
(* They share contract.status and nothing else: the engine leaves a step   *)
(* pending after its chain has ended and lets its approver decide it, also *)
(* while the contract is being signed, and the whitelist of transitions    *)
(* does not ask which engine calls.                                        *)
(***************************************************************************)
EXTENDS ApprovalChain

CONSTANTS
    Party,        \* as in SignatureCeremony
    ContractOf,
    StepOf,
    Signatory,    \* parties with is_required
    Employer

ASSUME RosterAssumption ==
    /\ ContractOf \in [Party -> Contract]
    /\ StepOf \in [Party -> Nat]
    /\ Signatory \subseteq Party /\ Employer \subseteq Party

VARIABLES
    roster,       \* signature_party
    inv,          \* signature_invitation
    due           \* invitations past their 14 days

signatures == <<roster, inv, due>>
evars == <<vars, signatures>>

Ceremony == INSTANCE SignatureCeremony

EnginesInit ==
    /\ Init
    /\ roster = {} /\ due = {}
    /\ inv = [p \in Party |-> "none"]

EnginesNext ==
    \/ Next /\ UNCHANGED signatures
    \/ Ceremony!Next /\ UNCHANGED <<chain, steps>>

EnginesSpec == EnginesInit /\ [][EnginesNext]_evars

-----------------------------------------------------------------------------
(* Properties. *)

\* Whatever signers and approvers do, a contract that is approved, being signed
\* or executed has an approved chain: an approver of that chain who decides
\* late takes the contract along with the approval.
ApprovedByChain ==
    \A c \in Contract :
        status[c] \in {"approved", "awaiting_signature_employer",
                       "awaiting_signature_counterparty", "fully_signed",
                       "expired", "active"}
        => \E ch \in Chain : chain[ch].contract = c /\ chain[ch].status = "approved"

\* The two engines implement the life of a contract that ContractLifecycle
\* describes: one approval at a time, verdicts only while one is open, and no
\* way out of a rejection, an expiry or an execution but the user's.
Life == INSTANCE ContractLifecycle WITH open <- {c \in Contract : InProgress(c) # {}}
Lifecycle == Life!Spec

\* What documentation says and the code does not keep (see README).

\* Migration 033: the way back to approved is the rollback of a cancellation.
RollbackIsCancellation ==
    [][\A c \in Contract :
         /\ status[c] \in {"awaiting_signature_employer",
                           "awaiting_signature_counterparty"}
         /\ status'[c] = "approved"
         => \E p \in Party : Ceremony!CancelInvitation(p)]_evars
=============================================================================
