-------------------------- MODULE SignatureCeremony --------------------------
(***************************************************************************)
(* The signature ceremony of an approved contract: a roster of signers in  *)
(* steps, one invitation per signer, signatures and refusals by the        *)
(* holders of the invitation tokens, resends, cancellations, the cron that *)
(* expires invitations after their 14 days, and what each of them does to  *)
(* contract.status.                                                        *)
(*                                                                         *)
(* Every operation is one PL/pgSQL function in a transaction of its own    *)
(* and is one action here; where the code raises, the action is disabled.  *)
(* Only the active invitation of a party matters to any function: the ones *)
(* a resend deactivated are left out.  No function deactivates a party.    *)
(***************************************************************************)
EXTENDS FiniteSets, Naturals, ContractStatus

CONSTANTS
    Contract,     \* contracts
    Party,        \* signature_party rows a roster may hold
    ContractOf,   \* the contract of each party
    StepOf,       \* step_order of each party
    Signatory,     \* parties with is_required
    Employer      \* parties whose signer_side is employer

ASSUME PartyAssumption ==
    /\ ContractOf \in [Party -> Contract]
    /\ StepOf \in [Party -> Nat]
    /\ Signatory \subseteq Party /\ Employer \subseteq Party
ASSUME FiniteAssumption == IsFiniteSet(Party)

\* The status of a party's active invitation; "none" before the first one.
InvitationStatus == {"pending", "viewed", "signed", "declined", "expired",
                     "cancelled"}

VARIABLES
    status,       \* contract.status
    live,         \* contract.is_active
    roster,       \* signature_party: the parties created so far
    inv,          \* the active invitation of each party
    due           \* parties whose open invitation is past its 14 days

vars == <<status, live, roster, inv, due>>

\* Invitations that still wait for their signer.
Open(p) == inv[p] \in {"pending", "viewed"}

TypeOK ==
    /\ status \in [Contract -> ContractState]
    /\ live \subseteq Contract
    /\ roster \subseteq Party
    /\ inv \in [Party -> InvitationStatus \cup {"none"}]
    /\ due \subseteq {p \in roster : Open(p)}

\* The ceremony starts on contracts that the approval engine approved.
Init ==
    /\ status = [c \in Contract |-> "approved"]
    /\ live = Contract
    /\ roster = {}
    /\ inv = [p \in Party |-> "none"]
    /\ due = {}

-----------------------------------------------------------------------------
(* Reads of the tables. *)

PartiesAt(c, s) == {p \in roster : ContractOf[p] = c /\ StepOf[p] = s}
RequiredOf(c)   == {p \in roster \cap Signatory : ContractOf[p] = c}

\* Mutant: the optional signers are counted too.
OutstandingAnyParty(c, s) ==
    {p \in PartiesAt(c, s) : inv[p] \in {"pending", "viewed", "signed"}}
\* Mutant: a signature is not counted.
OutstandingUnsigned(c, s) == {p \in PartiesAt(c, s) \cap Signatory : Open(p)}

\* What a cancellation and an expiry count: the required invitations of a
\* step that are waiting or signed.
Outstanding(c, s) ==
    {p \in PartiesAt(c, s) \cap Signatory :
        inv[p] \in {"pending", "viewed", "signed"}}

\* fn_signature_send_for_signature invites the first step with a required
\* party, optional parties of that step included.
FirstStep(c, s) ==
    /\ \E p \in RequiredOf(c) : StepOf[p] = s
    /\ \A p \in RequiredOf(c) : s <= StepOf[p]

\* It raises unless none of them has an active invitation (the unique index
\* on signature_invitation), whatever that invitation's status.
CanSend(c) ==
    /\ c \in live
    /\ status[c] = "approved"
    /\ \E s \in {StepOf[p] : p \in RequiredOf(c)} :
          FirstStep(c, s) /\ \A p \in PartiesAt(c, s) : inv[p] = "none"

\* fn_contract_status_update_internal, called inside other transactions.
StatusUpdateInternal(c, new) ==
    /\ c \in live
    /\ <<status[c], new>> \in InternalTransitions
    /\ status' = [status EXCEPT ![c] = new]

-----------------------------------------------------------------------------
(* Operations. *)

\* fn_signature_party_create_bulk: a call names an employer who must sign;
\* parties that exist already are skipped.
CreateParties(c, new) ==
    /\ c \in live
    /\ status[c] = "approved"
    /\ new \cap Signatory \cap Employer # {}
    /\ \A p \in new : ContractOf[p] = c
    /\ roster' = roster \cup new
    /\ UNCHANGED <<status, live, inv, due>>

\* fn_signature_send_for_signature.
SendForSignature(c) ==
    /\ CanSend(c)
    /\ inv' = [p \in Party |->
                 IF \E s \in {StepOf[q] : q \in RequiredOf(c)} :
                       FirstStep(c, s) /\ p \in PartiesAt(c, s)
                 THEN "pending" ELSE inv[p]]
    /\ StatusUpdateInternal(c, "awaiting_signature_employer")
    /\ UNCHANGED <<live, roster, due>>

\* Mutant: a refused invitation can be renewed too.
RenewableDeclined == {"pending", "viewed", "expired", "declined"}

\* The statuses a resend accepts.
Renewable == {"pending", "viewed", "expired"}

\* The old row is deactivated, a pending one with a fresh date inserted.
Renew(p) ==
    /\ inv' = [inv EXCEPT ![p] = "pending"]
    /\ due' = due \ {p}
    /\ UNCHANGED <<status, live, roster>>

\* fn_signature_invitation_resend, and fn_signature_invitation_resolve_for_self
\* called by the signer: whatever the contract's status.
Resend(p) == inv[p] \in Renewable /\ Renew(p)

\* The signer's token still works.
Usable(p) == Open(p) /\ p \notin due

\* fn_signature_get_by_invitation_token: the signer opens the link.
View(p) ==
    /\ inv[p] = "pending" /\ Usable(p)
    /\ inv' = [inv EXCEPT ![p] = "viewed"]
    /\ UNCHANGED <<status, live, roster, due>>

\* Mutant: cancellation does not look at the invitation's status.
CancellableAny(p) == inv[p] # "none"

Cancellable(p) == Open(p)

\* When no required invitation of the step is left, the contract goes back to
\* approved.
RecordCancel(p) ==
    LET c == ContractOf[p] IN
    /\ inv' = [inv EXCEPT ![p] = "cancelled"]
    /\ due' = due \ {p}
    /\ \/ /\ Outstanding(c, StepOf[p]) \subseteq {p}
          /\ StatusUpdateInternal(c, "approved")
       \/ /\ ~(Outstanding(c, StepOf[p]) \subseteq {p})
          /\ UNCHANGED status
    /\ UNCHANGED <<live, roster>>

\* fn_signature_invitation_cancel.
CancelInvitation(p) == Cancellable(p) /\ RecordCancel(p)

\* Mutant: one signature completes its step.
StepCompleteFirst(p) == TRUE

\* Does p's signature complete its step?  The signatures of all the parties of
\* the step are counted, and compared with the number of required parties.
StepComplete(p) ==
    LET peers  == PartiesAt(ContractOf[p], StepOf[p])
        signed == {q \in peers : inv[q] = "signed"} \cup {p}
    IN  /\ peers \cap Signatory # {}
        /\ Cardinality(signed) >= Cardinality(peers \cap Signatory)

HasNextStep(p) == \E q \in RequiredOf(ContractOf[p]) : StepOf[q] > StepOf[p]

RecordSignature(p) ==
    LET c == ContractOf[p] IN
    /\ inv' = [inv EXCEPT ![p] = "signed"]
    /\ \/ /\ StepComplete(p) /\ HasNextStep(p)
          /\ StatusUpdateInternal(c, "awaiting_signature_counterparty")
       \/ /\ StepComplete(p) /\ ~HasNextStep(p)
          /\ StatusUpdateInternal(c, "fully_signed")
       \/ ~StepComplete(p) /\ UNCHANGED status
    /\ UNCHANGED <<live, roster, due>>

\* fn_signature_sign by the holder of p's token.
Sign(p) == Usable(p) /\ RecordSignature(p)

\* A required refusal ends the contract.
RecordDecline(p) ==
    /\ inv' = [inv EXCEPT ![p] = "declined"]
    /\ \/ /\ p \in Signatory
          /\ StatusUpdateInternal(ContractOf[p], "rejected")
       \/ p \notin Signatory /\ UNCHANGED status
    /\ UNCHANGED <<live, roster, due>>

\* fn_signature_decline by the holder of p's token.
Decline(p) == Usable(p) /\ RecordDecline(p)

\* The 14 days of an open invitation run out (the clock, not the code).
RunOut(p) ==
    /\ Usable(p)
    /\ due' = due \cup {p}
    /\ UNCHANGED <<status, live, roster, inv>>

\* The steps of contract c whose last outstanding invitations are in batch.
ExhaustedSteps(c, batch) ==
    {StepOf[p] : p \in {q \in batch \cap Signatory :
                          /\ ContractOf[q] = c
                          /\ Outstanding(c, StepOf[q]) \subseteq batch}}

\* May the batch halt contract c?  One transition, and an allowed one.
HaltAllowed(c, batch) ==
    /\ c \in live
    /\ <<status[c], "expired">> \in InternalTransitions
    /\ \A s, s2 \in ExhaustedSteps(c, batch) : s = s2

\* Mutant: invitations that were opened are not looked for.
SelectedPending(p) == inv[p] = "pending"

\* The rows the batch looks for, beside their dates.
Selected(p) == Open(p)

\* fn_signature_invitation_expire_due: one transaction for the whole batch,
\* the due rows that no other session holds (SKIP LOCKED).  The rows are
\* expired one by one and the last required one of a step halts its contract;
\* one transition that is refused aborts the batch.
ExpireDue(batch) ==
    /\ batch # {}
    /\ \A p \in batch : p \in due /\ Selected(p)
    /\ \A c \in Contract :
          ExhaustedSteps(c, batch) # {} => HaltAllowed(c, batch)
    /\ inv' = [p \in Party |-> IF p \in batch THEN "expired" ELSE inv[p]]
    /\ due' = due \ batch
    /\ status' = [c \in Contract |->
                    IF ExhaustedSteps(c, batch) # {} THEN "expired"
                    ELSE status[c]]
    /\ UNCHANGED <<live, roster>>

\* One sweep of the cron with nobody else at work: every due row.
Sweep == ExpireDue({p \in due : Selected(p)})

\* fn_contract_status_update_user.
StatusUpdateUser(c, new) ==
    /\ c \in live
    /\ <<status[c], new>> \in UserTransitions
    /\ status' = [status EXCEPT ![c] = new]
    /\ UNCHANGED <<live, roster, inv, due>>

\* fn_contract_delete: a soft delete in any status.
DeleteContract(c) ==
    /\ c \in live
    /\ live' = live \ {c}
    /\ UNCHANGED <<status, roster, inv, due>>

Next ==
    \/ \E c \in Contract :
          \/ \E new \in SUBSET Party : CreateParties(c, new)
          \/ SendForSignature(c)
          \/ \E new \in ContractState : StatusUpdateUser(c, new)
          \/ DeleteContract(c)
    \/ \E p \in Party :
          \/ Resend(p) \/ View(p) \/ CancelInvitation(p)
          \/ Sign(p) \/ Decline(p) \/ RunOut(p)
    \/ \E batch \in SUBSET due : ExpireDue(batch)

Spec == Init /\ [][Next]_vars

\* The cron runs every 15 minutes and retries after an error.
FairSpec == Spec /\ WF_vars(Sweep)

-----------------------------------------------------------------------------
(* Properties. *)

\* A contract that awaits signatures has, among the parties who must sign, one
\* who still can or already did: no mix of refusals, cancellations, expiries
\* and signatures of optional parties leaves it waiting for nobody.
AwaitingHasSigner ==
    \A c \in Contract :
        status[c] \in {"awaiting_signature_employer",
                       "awaiting_signature_counterparty"}
        => \E p \in RequiredOf(c) : inv[p] \in {"pending", "viewed", "signed"}

\* A required party's refusal and the contract's rejection go together, for
\* good: no resend, expiry, cancellation or other signature separates them.
RefusalIsFinal ==
    \A c \in Contract :
        (status[c] = "rejected")
        <=> \E p \in RequiredOf(c) : inv[p] = "declined"

\* An executed contract stays backed by as many signatures on its last step as
\* the step has required parties, and by no waiting later step.
ExecutedIsCovered ==
    \A c \in Contract : status[c] = "fully_signed" =>
        \E s \in {StepOf[p] : p \in RequiredOf(c)} :
            /\ \A p \in RequiredOf(c) : StepOf[p] <= s
            /\ Cardinality({p \in PartiesAt(c, s) : inv[p] = "signed"})
                 >= Cardinality(PartiesAt(c, s) \cap Signatory)

\* An answer that a signer gave, yes or no, is never withdrawn or replaced.
AnswersStay ==
    [][\A p \in Party :
         inv[p] \in {"signed", "declined"} => inv'[p] = inv[p]]_vars

\* A ceremony is halted or rolled back only when no required party of some
\* step has signed or can sign: a signature given is not thrown away.
HaltsWhenExhausted ==
    [][\A c \in Contract :
         /\ status[c] \in {"awaiting_signature_employer",
                           "awaiting_signature_counterparty"}
         /\ status'[c] \in {"expired", "approved"}
         => \E s \in {StepOf[p] : p \in RequiredOf(c)} :
               \A p \in PartiesAt(c, s) \cap Signatory :
                  inv'[p] \notin {"pending", "viewed", "signed"}]_vars

\* The batch of all due rows is refused: one of their contracts was cancelled,
\* deleted or has expired already, or two of its steps run out together.
SweepBlocked ==
    \E c \in Contract : ExhaustedSteps(c, due) # {} /\ ~HaltAllowed(c, due)

\* While no row blocks the batch, every invitation that ran out is expired (or
\* renewed or cancelled) in the end.
DueSettles ==
    \A p \in Party : p \in due ~> (p \notin due \/ SweepBlocked)
=============================================================================
