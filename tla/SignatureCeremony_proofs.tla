----------------------- MODULE SignatureCeremony_proofs -----------------------
(* What TLAPS proves of the signature ceremony and of its transactions, for  *)
(* any number of contracts, parties, steps and sessions.                     *)
EXTENDS SignatureLocks, FiniteSetTheorems, WellFoundedInduction, TLAPS

Awaiting == {"awaiting_signature_employer", "awaiting_signature_counterparty"}
Standing == {"pending", "viewed", "signed"}

\* The invitations belong to the roster, on steps with a required party.
Invited ==
    \A p \in Party : inv[p] # "none" =>
        /\ p \in roster
        /\ \E q \in RequiredOf(ContractOf[p]) : StepOf[q] = StepOf[p]

IInv == TypeOK /\ Invited /\ RefusalIsFinal /\ AwaitingHasSigner

\* What the users' wrapper can write, and from where.
LEMMA UserMoves ==
    ASSUME NEW old, NEW new, <<old, new>> \in UserTransitions
    PROVE  /\ new \in ContractState /\ new \notin Awaiting
           /\ new \notin {"rejected", "expired", "approved"}
           /\ old # "rejected"
BY DEF UserTransitions, DrafterCancellable, AdminCancellable, ContractState,
       Awaiting

\* What the ceremony can write, and from where.
LEMMA InternalMoves ==
    ASSUME NEW old, NEW new, <<old, new>> \in InternalTransitions
    PROVE  /\ new \in ContractState
           /\ old # "rejected"
           /\ new \in {"expired", "awaiting_signature_counterparty"}
                => old \in Awaiting
           /\ new \in {"expired", "awaiting_signature_counterparty",
                       "awaiting_signature_employer", "fully_signed"}
                => old # "in_approval"
BY DEF InternalTransitions, ContractState, Awaiting

\* The invariant holds before any roster exists.
LEMMA InitIInv == Init => IInv
BY DEF Init, IInv, TypeOK, Invited, RefusalIsFinal, AwaitingHasSigner,
       ContractState, RequiredOf

-----------------------------------------------------------------------------
(* Type correctness. *)

\* Every operation keeps the rows well typed.
LEMMA TypeNext == TypeOK /\ Invited /\ [Next]_vars => TypeOK'
<1> SUFFICES ASSUME TypeOK, Invited, [Next]_vars PROVE TypeOK'
  OBVIOUS
<1> USE PartyAssumption
<1>1. ASSUME NEW c \in Contract, NEW new \in SUBSET Party,
             CreateParties(c, new)
      PROVE  TypeOK'
  BY <1>1 DEF CreateParties, TypeOK, Open
<1>2. ASSUME NEW c \in Contract, SendForSignature(c)
      PROVE  TypeOK'
  <2>1. \A p \in due : inv'[p] \in {"pending", "viewed"}
    BY <1>2 DEF SendForSignature, TypeOK, Open
  <2>2. inv' \in [Party -> InvitationStatus \cup {"none"}]
    BY <1>2 DEF SendForSignature, TypeOK, InvitationStatus
  <2>3. status' \in [Contract -> ContractState]
    BY <1>2 DEF SendForSignature, StatusUpdateInternal, TypeOK, ContractState
  <2> QED  BY <1>2, <2>1, <2>2, <2>3 DEF SendForSignature, TypeOK, Open
<1>3. ASSUME NEW c \in Contract, NEW new \in ContractState,
             StatusUpdateUser(c, new)
      PROVE  TypeOK'
  BY <1>3 DEF StatusUpdateUser, TypeOK, Open
<1>4. ASSUME NEW c \in Contract, DeleteContract(c)
      PROVE  TypeOK'
  BY <1>4 DEF DeleteContract, TypeOK, Open
<1>5. ASSUME NEW p \in Party, Resend(p)
      PROVE  TypeOK'
  BY <1>5 DEF Resend, Renew, TypeOK, Open, InvitationStatus
<1>6. ASSUME NEW p \in Party, View(p)
      PROVE  TypeOK'
  BY <1>6 DEF View, Usable, TypeOK, Open, InvitationStatus
<1>7. ASSUME NEW p \in Party, RunOut(p)
      PROVE  TypeOK'
  BY <1>7 DEF RunOut, Usable, TypeOK, Open, Invited
<1>8. ASSUME NEW p \in Party, NEW new \in ContractState,
             StatusUpdateInternal(ContractOf[p], new)
      PROVE  status' \in [Contract -> ContractState]
  BY <1>8 DEF StatusUpdateInternal, TypeOK
<1>9. ASSUME NEW p \in Party, CancelInvitation(p)
      PROVE  TypeOK'
  <2>1. status' \in [Contract -> ContractState]
    BY <1>8, <1>9 DEF CancelInvitation, RecordCancel, ContractState, TypeOK
  <2> QED  BY <1>9, <2>1
  DEF CancelInvitation, RecordCancel, TypeOK, Open, InvitationStatus
<1>10. ASSUME NEW p \in Party, Sign(p)
       PROVE  TypeOK'
  <2>1. status' \in [Contract -> ContractState]
    BY <1>8, <1>10 DEF Sign, RecordSignature, Usable, ContractState, TypeOK
  <2> QED  BY <1>10, <2>1
  DEF Sign, RecordSignature, Usable, TypeOK, Open, InvitationStatus
<1>11. ASSUME NEW p \in Party, Decline(p)
       PROVE  TypeOK'
  <2>1. status' \in [Contract -> ContractState]
    BY <1>8, <1>11 DEF Decline, RecordDecline, Usable, ContractState, TypeOK
  <2> QED  BY <1>11, <2>1
  DEF Decline, RecordDecline, Usable, TypeOK, Open, InvitationStatus
<1>12. ASSUME NEW batch \in SUBSET due, ExpireDue(batch)
       PROVE  TypeOK'
  <2>1. status' \in [Contract -> ContractState]
    BY <1>12 DEF ExpireDue, ContractState, TypeOK
  <2>2. inv' \in [Party -> InvitationStatus \cup {"none"}]
    BY <1>12 DEF ExpireDue, InvitationStatus, TypeOK
  <2> QED  BY <1>12, <2>1, <2>2 DEF ExpireDue, TypeOK, Open
<1>13. CASE UNCHANGED vars
  BY <1>13 DEF vars, TypeOK, Open
<1> QED
  BY <1>1, <1>2, <1>3, <1>4, <1>5, <1>6, <1>7, <1>9, <1>10, <1>11, <1>12,
     <1>13 DEF Next

-----------------------------------------------------------------------------
(* The roster and its invitations. *)

\* Every operation invites members of the roster only.
LEMMA InvitedNext == TypeOK /\ Invited /\ [Next]_vars => Invited'
<1> SUFFICES ASSUME TypeOK, Invited, [Next]_vars PROVE Invited'
  OBVIOUS
<1> USE PartyAssumption
<1>1. ASSUME roster \subseteq roster',
             \A p \in Party : inv'[p] # "none" => inv[p] # "none"
      PROVE  Invited'
  BY <1>1 DEF Invited, RequiredOf
<1>2. ASSUME NEW c \in Contract, SendForSignature(c)
      PROVE  Invited'
  <2>1. ASSUME NEW p \in Party, inv[p] = "none", inv'[p] # "none"
        PROVE  /\ p \in roster
               /\ \E q \in RequiredOf(ContractOf[p]) : StepOf[q] = StepOf[p]
    BY <1>2, <2>1
    DEF SendForSignature, FirstStep, PartiesAt, RequiredOf, TypeOK
  <2> QED  BY <1>2, <2>1 DEF SendForSignature, Invited, RequiredOf
<1>3. ASSUME NEW c \in Contract, NEW new \in SUBSET Party,
             CreateParties(c, new)
      PROVE  Invited'
  BY <1>1, <1>3 DEF CreateParties
<1>4. ASSUME NEW p \in Party,
             \/ Resend(p) \/ View(p) \/ RunOut(p)
             \/ CancelInvitation(p) \/ Sign(p) \/ Decline(p)
      PROVE  Invited'
  <2>1. roster' = roster /\ (inv[p] # "none" \/ inv' = inv)
    BY <1>4
    DEF Resend, Renew, Renewable, View, Usable, RunOut, CancelInvitation,
        RecordCancel, Cancellable, Sign, RecordSignature, Decline,
        RecordDecline, Open
  <2>2. \A q \in Party \ {p} : inv'[q] = inv[q]
    BY <1>4
    DEF Resend, Renew, View, Usable, RunOut, CancelInvitation, RecordCancel,
        Sign, RecordSignature, Decline, RecordDecline, TypeOK
  <2> QED  BY <1>1, <2>1, <2>2
<1>5. ASSUME NEW batch \in SUBSET due, ExpireDue(batch)
      PROVE  Invited'
  BY <1>1, <1>5 DEF ExpireDue, Selected, Open
<1>6. ASSUME NEW c \in Contract, NEW new \in ContractState,
             StatusUpdateUser(c, new)
      PROVE  Invited'
  BY <1>1, <1>6 DEF StatusUpdateUser
<1>7. CASE UNCHANGED vars
  BY <1>1, <1>7 DEF vars
<1>8. ASSUME NEW c \in Contract, DeleteContract(c)
      PROVE  Invited'
  BY <1>1, <1>8 DEF DeleteContract
<1> QED
  BY <1>2, <1>3, <1>4, <1>5, <1>6, <1>7, <1>8 DEF Next

-----------------------------------------------------------------------------
(* Refusals. *)

\* A status other than rejected neither rejects a contract nor revives one.
LEMMA NotRejecting ==
    ASSUME TypeOK, NEW d \in Contract, NEW new, new # "rejected",
           StatusUpdateInternal(d, new)
    PROVE  \A c \in Contract : status'[c] = "rejected" <=> status[c] = "rejected"
BY InternalMoves DEF StatusUpdateInternal, TypeOK

\* Nothing is refused and nothing rejected: the two stay together.
LEMMA RefusalKept ==
    ASSUME RefusalIsFinal,
           \A p \in Signatory :
              (p \in roster' /\ inv'[p] = "declined")
                <=> (p \in roster /\ inv[p] = "declined"),
           \A c \in Contract :
              status'[c] = "rejected" <=> status[c] = "rejected"
    PROVE  RefusalIsFinal'
<1>1. \A c \in Contract :
        (\E p \in RequiredOf(c)' : inv'[p] = "declined")
          <=> (\E p \in RequiredOf(c) : inv[p] = "declined")
  BY DEF RequiredOf
<1> QED  BY <1>1 DEF RefusalIsFinal

\* Invitations are sent to parties without an active one.
LEMMA SendFresh ==
    ASSUME TypeOK, NEW c \in Contract, SendForSignature(c), NEW p \in Party
    PROVE  inv'[p] = inv[p] \/ (inv[p] = "none" /\ inv'[p] = "pending")
<1> DEFINE Steps == {StepOf[q] : q \in RequiredOf(c)}
<1>1. Steps \subseteq Nat
  BY PartyAssumption DEF RequiredOf
<1>2. PICK s0 \in Steps :
         FirstStep(c, s0) /\ \A q \in PartiesAt(c, s0) : inv[q] = "none"
  BY DEF SendForSignature, CanSend
<1>3. ASSUME NEW s \in Steps, FirstStep(c, s)
      PROVE  s = s0
  <2>1. s <= s0 /\ s0 <= s
    BY <1>2, <1>3 DEF FirstStep
  <2> QED  BY <1>1, <2>1
<1>4. CASE \E s \in Steps : FirstStep(c, s) /\ p \in PartiesAt(c, s)
  BY <1>2, <1>3, <1>4 DEF SendForSignature
<1>5. CASE ~\E s \in Steps : FirstStep(c, s) /\ p \in PartiesAt(c, s)
  BY <1>5 DEF SendForSignature
<1> QED  BY <1>4, <1>5

\* Every operation keeps refusals and rejections together.
LEMMA RefusalNext ==
    TypeOK /\ Invited /\ RefusalIsFinal /\ [Next]_vars => RefusalIsFinal'
<1> SUFFICES ASSUME TypeOK, Invited, RefusalIsFinal, [Next]_vars
             PROVE  RefusalIsFinal'
  OBVIOUS
<1> USE PartyAssumption
<1>1. ASSUME NEW c \in Contract, NEW new \in SUBSET Party,
             CreateParties(c, new)
      PROVE  RefusalIsFinal'
  <2>1. \A p \in roster' \ roster : inv'[p] = "none"
    BY <1>1 DEF CreateParties, Invited
  <2> QED  BY <1>1, <2>1, RefusalKept DEF CreateParties
<1>2. ASSUME NEW c \in Contract, SendForSignature(c)
      PROVE  RefusalIsFinal'
  BY <1>2, SendFresh, NotRejecting, RefusalKept DEF SendForSignature
<1>3. ASSUME NEW p \in Party,
             \/ Resend(p) \/ View(p) \/ RunOut(p)
             \/ CancelInvitation(p) \/ Sign(p)
      PROVE  RefusalIsFinal'
  <2>1. \A q \in Party : inv'[q] = "declined" <=> inv[q] = "declined"
    BY <1>3
    DEF Resend, Renew, Renewable, View, Usable, RunOut, CancelInvitation,
        RecordCancel, Cancellable, Sign, RecordSignature, Open, TypeOK
  <2>2. \A c \in Contract : status'[c] = "rejected" <=> status[c] = "rejected"
    BY <1>3, NotRejecting
    DEF Resend, Renew, View, Usable, RunOut, CancelInvitation, RecordCancel,
        Sign, RecordSignature, TypeOK
  <2>3. roster' = roster
    BY <1>3
    DEF Resend, Renew, View, Usable, RunOut, CancelInvitation, RecordCancel,
        Sign, RecordSignature
  <2> QED  BY <2>1, <2>2, <2>3, RefusalKept
<1>4. ASSUME NEW p \in Party, Decline(p)
      PROVE  RefusalIsFinal'
  <2>1. inv' = [inv EXCEPT ![p] = "declined"] /\ roster' = roster
    BY <1>4 DEF Decline, RecordDecline, Usable
  <2>2. CASE p \notin Signatory
    <3>1. status' = status
      BY <1>4, <2>2 DEF Decline, RecordDecline, Usable
    <3> QED  BY <2>1, <2>2, <3>1, RefusalKept DEF TypeOK
  <2>3. CASE p \in Signatory
    <3>1. status' = [status EXCEPT ![ContractOf[p]] = "rejected"]
      BY <1>4, <2>3 DEF Decline, RecordDecline, Usable, StatusUpdateInternal
    <3>2. p \in RequiredOf(ContractOf[p])' /\ inv'[p] = "declined"
      BY <1>4, <2>1, <2>3
      DEF Decline, RecordDecline, Usable, Open, Invited, RequiredOf, TypeOK
    <3>3. \A c \in Contract \ {ContractOf[p]} :
             (\E q \in RequiredOf(c)' : inv'[q] = "declined")
               <=> (\E q \in RequiredOf(c) : inv[q] = "declined")
      BY <2>1 DEF RequiredOf, TypeOK
    <3> QED  BY <3>1, <3>2, <3>3 DEF RefusalIsFinal, TypeOK
  <2> QED  BY <2>2, <2>3
<1>5. ASSUME NEW batch \in SUBSET due, ExpireDue(batch)
      PROVE  RefusalIsFinal'
  <2>1. \A q \in Party : inv'[q] = "declined" <=> inv[q] = "declined"
    BY <1>5 DEF ExpireDue, Selected, Open, TypeOK
  <2>2. \A c \in Contract : status'[c] = "rejected" <=> status[c] = "rejected"
    BY <1>5, InternalMoves DEF ExpireDue, HaltAllowed, TypeOK
  <2> QED  BY <1>5, <2>1, <2>2, RefusalKept DEF ExpireDue
<1>6. ASSUME NEW c \in Contract, NEW new \in ContractState,
             StatusUpdateUser(c, new)
      PROVE  RefusalIsFinal'
  <2>1. \A d \in Contract : status'[d] = "rejected" <=> status[d] = "rejected"
    BY <1>6, UserMoves DEF StatusUpdateUser, TypeOK
  <2> QED  BY <1>6, <2>1, RefusalKept DEF StatusUpdateUser
<1>7. ASSUME NEW c \in Contract, DeleteContract(c)
      PROVE  RefusalIsFinal'
  BY <1>7, RefusalKept DEF DeleteContract
<1>8. CASE UNCHANGED vars
  BY <1>8, RefusalKept DEF vars
<1> QED
  BY <1>1, <1>2, <1>3, <1>4, <1>5, <1>6, <1>7, <1>8 DEF Next

-----------------------------------------------------------------------------
(* Somebody to wait for. *)

\* The contracts that start to await have a signer, and every signer somebody
\* waited for still stands: the invariant is kept.
LEMMA AwaitingKept ==
    ASSUME AwaitingHasSigner, roster \subseteq roster',
           NEW D \in SUBSET Contract,
           \A c \in Contract \ D : status'[c] \in Awaiting => status[c] \in Awaiting,
           \A c \in D : status'[c] \in Awaiting =>
              \E p \in RequiredOf(c)' : inv'[p] \in Standing,
           \A p \in Party \cap roster : ContractOf[p] \in Contract \ D =>
              (inv[p] \in Standing => inv'[p] \in Standing)
    PROVE  AwaitingHasSigner'
<1> SUFFICES ASSUME NEW c \in Contract, status'[c] \in Awaiting
             PROVE  \E p \in RequiredOf(c)' : inv'[p] \in Standing
  BY DEF AwaitingHasSigner, Awaiting, Standing
<1>1. CASE c \in D
  BY <1>1
<1>2. CASE c \notin D
  <2>1. PICK p \in RequiredOf(c) : inv[p] \in Standing
    BY <1>2 DEF AwaitingHasSigner, Awaiting, Standing
  <2>2. p \in Party /\ p \in roster /\ ContractOf[p] = c /\ p \in RequiredOf(c)'
    BY <2>1, PartyAssumption DEF RequiredOf
  <2> QED  BY <1>2, <2>1, <2>2
<1> QED  BY <1>1, <1>2

\* Every operation leaves a signer to a contract that awaits signatures.
LEMMA AwaitingNext ==
    TypeOK /\ Invited /\ AwaitingHasSigner /\ [Next]_vars => AwaitingHasSigner'
<1> SUFFICES ASSUME TypeOK, Invited, AwaitingHasSigner, [Next]_vars
             PROVE  AwaitingHasSigner'
  OBVIOUS
<1> USE PartyAssumption
<1>1. ASSUME NEW c \in Contract, NEW new \in SUBSET Party,
             CreateParties(c, new)
      PROVE  AwaitingHasSigner'
  BY <1>1, AwaitingKept, {} \in SUBSET Contract DEF CreateParties
<1>2. ASSUME NEW c \in Contract, SendForSignature(c)
      PROVE  AwaitingHasSigner'
  <2>1. PICK p \in RequiredOf(c) : FirstStep(c, StepOf[p])
    BY <1>2 DEF SendForSignature, CanSend
  <2>2. inv'[p] = "pending" /\ p \in RequiredOf(c)'
    BY <1>2, <2>1 DEF SendForSignature, PartiesAt, RequiredOf, TypeOK
  <2>3. \A d \in Contract \ {c} : status'[d] = status[d]
    BY <1>2 DEF SendForSignature, StatusUpdateInternal, TypeOK
  <2>4. \A q \in Party : inv'[q] \in {inv[q], "pending"}
    BY <1>2 DEF SendForSignature, TypeOK
  <2> QED
    BY <1>2, <2>2, <2>3, <2>4, AwaitingKept, {c} \in SUBSET Contract
    DEF SendForSignature, Standing
<1>3. ASSUME NEW p \in Party, Resend(p) \/ View(p) \/ RunOut(p)
      PROVE  AwaitingHasSigner'
  <2>1. \A q \in Party : inv[q] \in Standing => inv'[q] \in Standing
    BY <1>3 DEF Resend, Renew, View, Usable, RunOut, Standing, TypeOK
  <2>2. status' = status /\ roster' = roster
    BY <1>3 DEF Resend, Renew, View, Usable, RunOut
  <2> QED  BY <2>1, <2>2, AwaitingKept, {} \in SUBSET Contract
<1>4. ASSUME NEW p \in Party, CancelInvitation(p)
      PROVE  AwaitingHasSigner'
  <2> DEFINE c == ContractOf[p]
  <2>1. inv' = [inv EXCEPT ![p] = "cancelled"] /\ roster' = roster
    BY <1>4 DEF CancelInvitation, RecordCancel
  <2>2. \A d \in Contract \ {c} : status'[d] = status[d]
    BY <1>4 DEF CancelInvitation, RecordCancel, StatusUpdateInternal, TypeOK
  <2>3. ASSUME status'[c] \in Awaiting
        PROVE  \E q \in RequiredOf(c)' : inv'[q] \in Standing
    <3>1. PICK q \in Outstanding(c, StepOf[p]) : q # p
      BY <1>4, <2>3
      DEF CancelInvitation, RecordCancel, StatusUpdateInternal, Awaiting,
          TypeOK
    <3> QED
      BY <2>1, <3>1 DEF Outstanding, PartiesAt, RequiredOf, Standing, TypeOK
  <2> QED
    BY <2>1, <2>2, <2>3, AwaitingKept, {c} \in SUBSET Contract DEF TypeOK
<1>5. ASSUME NEW p \in Party, Sign(p)
      PROVE  AwaitingHasSigner'
  <2>1. inv' = [inv EXCEPT ![p] = "signed"] /\ roster' = roster
    BY <1>5 DEF Sign, RecordSignature, Usable
  <2>2. \A d \in Contract : status'[d] \in Awaiting => status[d] \in Awaiting
    <3>1. ASSUME NEW new \in {"fully_signed", "awaiting_signature_counterparty"},
                 StatusUpdateInternal(ContractOf[p], new)
          PROVE  \A d \in Contract :
                    status'[d] \in Awaiting => status[d] \in Awaiting
      <4>1. new \in Awaiting => status[ContractOf[p]] \in Awaiting
        BY <3>1, InternalMoves DEF StatusUpdateInternal, Awaiting
      <4> QED  BY <3>1, <4>1 DEF StatusUpdateInternal, TypeOK
    <3> QED  BY <1>5, <3>1 DEF Sign, RecordSignature, Usable
  <2> QED
    BY <2>1, <2>2, AwaitingKept, {} \in SUBSET Contract DEF Standing, TypeOK
<1>6. ASSUME NEW p \in Party, Decline(p)
      PROVE  AwaitingHasSigner'
  <2>1. inv' = [inv EXCEPT ![p] = "declined"] /\ roster' = roster
    BY <1>6 DEF Decline, RecordDecline, Usable
  <2>2. CASE p \in Signatory
    <3>1. status' = [status EXCEPT ![ContractOf[p]] = "rejected"]
      BY <1>6, <2>2 DEF Decline, RecordDecline, Usable, StatusUpdateInternal
    <3> QED
      BY <2>1, <3>1, AwaitingKept, {ContractOf[p]} \in SUBSET Contract
      DEF Awaiting, TypeOK
  <2>3. CASE p \notin Signatory
    <3>1. status' = status
      BY <1>6, <2>3 DEF Decline, RecordDecline, Usable
    <3>2. \A q \in Signatory : inv'[q] = inv[q]
      BY <2>1, <2>3 DEF TypeOK
    <3> QED
      BY <2>1, <3>1, <3>2 DEF AwaitingHasSigner, RequiredOf
  <2> QED  BY <2>2, <2>3
<1>7. ASSUME NEW batch \in SUBSET due, ExpireDue(batch)
      PROVE  AwaitingHasSigner'
  <2> SUFFICES ASSUME NEW c \in Contract, status'[c] \in Awaiting
               PROVE  \E q \in RequiredOf(c)' : inv'[q] \in Standing
    BY DEF AwaitingHasSigner, Awaiting, Standing
  <2>1. ExhaustedSteps(c, batch) = {} /\ status[c] \in Awaiting
    BY <1>7 DEF ExpireDue, Awaiting
  <2>2. PICK w \in RequiredOf(c) : inv[w] \in Standing
    BY <2>1 DEF AwaitingHasSigner, Awaiting, Standing
  <2>3. CASE w \notin batch
    BY <1>7, <2>2, <2>3 DEF ExpireDue, RequiredOf
  <2>4. CASE w \in batch
    <3>1. PICK q \in Outstanding(c, StepOf[w]) : q \notin batch
      BY <2>1, <2>2, <2>4 DEF ExhaustedSteps, RequiredOf
    <3> QED
      BY <1>7, <3>1 DEF ExpireDue, Outstanding, PartiesAt, RequiredOf, Standing
  <2> QED  BY <2>3, <2>4
<1>8. ASSUME NEW c \in Contract, NEW new \in ContractState,
             StatusUpdateUser(c, new)
      PROVE  AwaitingHasSigner'
  <2>1. \A d \in Contract : status'[d] \in Awaiting => status[d] \in Awaiting
    BY <1>8, UserMoves DEF StatusUpdateUser, TypeOK
  <2> QED
    BY <1>8, <2>1, AwaitingKept, {} \in SUBSET Contract DEF StatusUpdateUser
<1>9. ASSUME NEW c \in Contract, DeleteContract(c)
      PROVE  AwaitingHasSigner'
  BY <1>9, AwaitingKept, {} \in SUBSET Contract DEF DeleteContract
<1>10. CASE UNCHANGED vars
  BY <1>10, AwaitingKept, {} \in SUBSET Contract DEF vars
<1> QED
  BY <1>1, <1>2, <1>3, <1>4, <1>5, <1>6, <1>7, <1>8, <1>9, <1>10 DEF Next

-----------------------------------------------------------------------------
(* Signatures, given for good, and what they cover. *)

\* No operation touches an answer.
LEMMA AnswersStand ==
    ASSUME TypeOK, Invited, [Next]_vars, NEW p \in Party,
           inv[p] \in {"signed", "declined"}
    PROVE  inv'[p] = inv[p]
<1>1. ASSUME NEW c \in Contract, SendForSignature(c)
      PROVE  inv'[p] = inv[p]
  BY <1>1, SendFresh
<1>2. ASSUME NEW q \in Party,
             \/ Resend(q) \/ View(q) \/ RunOut(q)
             \/ CancelInvitation(q) \/ Sign(q) \/ Decline(q)
      PROVE  inv'[p] = inv[p]
  BY <1>2
  DEF Resend, Renew, Renewable, View, Usable, RunOut, CancelInvitation,
      RecordCancel, Cancellable, Sign, RecordSignature, Decline,
      RecordDecline, Open, TypeOK
<1>3. ASSUME NEW batch \in SUBSET due, ExpireDue(batch)
      PROVE  inv'[p] = inv[p]
  BY <1>3 DEF ExpireDue, Selected, Open
<1>4. ASSUME NEW c \in Contract, NEW new \in ContractState,
             StatusUpdateUser(c, new)
      PROVE  inv' = inv
  BY <1>4 DEF StatusUpdateUser
<1>5. ASSUME NEW c \in Contract, NEW new \in SUBSET Party,
             CreateParties(c, new)
      PROVE  inv' = inv
  BY <1>5 DEF CreateParties
<1>6. ASSUME NEW c \in Contract, DeleteContract(c)
      PROVE  inv' = inv
  BY <1>6 DEF DeleteContract
<1>7. CASE UNCHANGED vars
  BY <1>7 DEF vars
<1> QED
BY <1>1, <1>2, <1>3, <1>4, <1>5, <1>6, <1>7 DEF Next

\* The last step of c, with the signatures on it.
Covers(c, s) ==
    /\ s \in {StepOf[p] : p \in RequiredOf(c)}
    /\ \A p \in RequiredOf(c) : StepOf[p] <= s
    /\ Cardinality({p \in PartiesAt(c, s) : inv[p] = "signed"})
         >= Cardinality(PartiesAt(c, s) \cap Signatory)

\* The signature that executes a contract covers its last step.
LEMMA SignCovers ==
    ASSUME TypeOK, Invited, NEW p \in Party, Sign(p),
           StepComplete(p), ~HasNextStep(p)
    PROVE  Covers(ContractOf[p], StepOf[p])'
<1> USE PartyAssumption
<1> DEFINE c == ContractOf[p]
           s == StepOf[p]
<1>1. inv' = [inv EXCEPT ![p] = "signed"] /\ roster' = roster
  BY DEF Sign, RecordSignature, Usable
<1>2. p \in PartiesAt(c, s)
  BY DEF Sign, Usable, Open, Invited, PartiesAt
<1>3. PartiesAt(c, s)' = PartiesAt(c, s) /\ RequiredOf(c)' = RequiredOf(c)
  BY <1>1 DEF PartiesAt, RequiredOf
<1>4. {q \in PartiesAt(c, s) : inv'[q] = "signed"}
        = {q \in PartiesAt(c, s) : inv[q] = "signed"} \cup {p}
  BY <1>1, <1>2 DEF TypeOK, PartiesAt
<1>5. s \in {StepOf[q] : q \in RequiredOf(c)}
  BY DEF StepComplete, PartiesAt, RequiredOf
<1>6. \A q \in RequiredOf(c) : StepOf[q] \in Nat /\ s \in Nat
  BY DEF RequiredOf
<1>7. \A q \in RequiredOf(c) : StepOf[q] <= s
  BY <1>6 DEF HasNextStep
<1>8. Cardinality({q \in PartiesAt(c, s) : inv[q] = "signed"} \cup {p})
         >= Cardinality(PartiesAt(c, s) \cap Signatory)
  BY DEF StepComplete
<1>9. Cardinality({q \in PartiesAt(c, s)' : inv'[q] = "signed"})
         >= Cardinality((PartiesAt(c, s) \cap Signatory)')
  BY <1>3, <1>4, <1>8, Zenon
<1> QED  BY <1>3, <1>5, <1>7, <1>9 DEF Covers

\* Who joins no step of c and loses no signature leaves its cover.
LEMMA CoverKept ==
    ASSUME NEW c \in Contract, NEW s, Covers(c, s), roster \subseteq Party,
           \A p \in Party : ContractOf[p] = c => (p \in roster' <=> p \in roster),
           roster' \subseteq Party,
           \A p \in Party : inv[p] = "signed" => inv'[p] = "signed"
    PROVE  Covers(c, s)'
<1>1. PartiesAt(c, s)' = PartiesAt(c, s) /\ RequiredOf(c)' = RequiredOf(c)
  BY DEF PartiesAt, RequiredOf
<1> DEFINE S == {p \in PartiesAt(c, s) : inv[p] = "signed"}
           T == {p \in PartiesAt(c, s) : inv'[p] = "signed"}
           R == PartiesAt(c, s) \cap Signatory
<1>2. S \subseteq T /\ T \subseteq Party /\ R \subseteq Party
  BY DEF PartiesAt
<1>3. IsFiniteSet(T) /\ IsFiniteSet(R)
  BY <1>2, FiniteAssumption, FS_Subset, Zenon
<1>4. IsFiniteSet(S) /\ Cardinality(S) <= Cardinality(T)
  BY <1>2, <1>3, FS_Subset, Zenon
<1>5. Cardinality(S) \in Nat /\ Cardinality(T) \in Nat /\ Cardinality(R) \in Nat
  BY <1>3, <1>4, FS_CardinalityType, Zenon
<1>6. Cardinality(S) >= Cardinality(R)
  BY DEF Covers
<1>7. Cardinality(T) >= Cardinality(R)
  BY <1>4, <1>5, <1>6
<1>8. Cardinality({p \in PartiesAt(c, s)' : inv'[p] = "signed"})
         >= Cardinality((PartiesAt(c, s) \cap Signatory)')
  BY <1>1, <1>7, Zenon
<1> QED  BY <1>1, <1>8 DEF Covers

\* Only a last signature executes a contract.
LEMMA OnlySignExecutes ==
    ASSUME TypeOK, Next, NEW c \in Contract,
           status[c] # "fully_signed", status'[c] = "fully_signed"
    PROVE  \E p \in Party : /\ Sign(p) /\ ContractOf[p] = c
                            /\ StepComplete(p) /\ ~HasNextStep(p)
<1> USE PartyAssumption
<1>1. ASSUME NEW d \in Contract, NEW new, StatusUpdateInternal(d, new)
      PROVE  d = c /\ new = "fully_signed"
  BY <1>1 DEF StatusUpdateInternal, TypeOK
<1>2. ASSUME NEW p \in Party, Sign(p)
      PROVE  ContractOf[p] = c /\ StepComplete(p) /\ ~HasNextStep(p)
  BY <1>1, <1>2 DEF Sign, RecordSignature
<1>3. ASSUME NEW p \in Party, CancelInvitation(p) \/ Decline(p)
      PROVE  FALSE
  BY <1>1, <1>3 DEF CancelInvitation, RecordCancel, Decline, RecordDecline
<1>4. ASSUME NEW d \in Contract, SendForSignature(d)
      PROVE  FALSE
  BY <1>1, <1>4 DEF SendForSignature
<1>5. ASSUME NEW d \in Contract, NEW new \in ContractState, StatusUpdateUser(d, new)
      PROVE  FALSE
  BY <1>5 DEF StatusUpdateUser, UserTransitions, TypeOK
<1>6. ASSUME NEW p \in Party, Resend(p) \/ View(p) \/ RunOut(p)
      PROVE  FALSE
  BY <1>6 DEF Resend, Renew, View, RunOut
<1>7. ASSUME NEW d \in Contract,
             DeleteContract(d) \/ \E new \in SUBSET Party : CreateParties(d, new)
      PROVE  FALSE
  BY <1>7 DEF DeleteContract, CreateParties
<1>8. ASSUME NEW batch \in SUBSET due, ExpireDue(batch)
      PROVE  FALSE
  BY <1>8 DEF ExpireDue
<1> QED  BY <1>2, <1>3, <1>4, <1>5, <1>6, <1>7, <1>8 DEF Next

\* An executed contract takes no further parties.
LEMMA RosterStands ==
    ASSUME TypeOK, [Next]_vars, NEW c \in Contract, status[c] = "fully_signed",
           NEW p \in Party, ContractOf[p] = c
    PROVE  p \in roster' <=> p \in roster
<1>1. ASSUME NEW d \in Contract, NEW new \in SUBSET Party, CreateParties(d, new)
      PROVE  p \in roster' <=> p \in roster
  BY <1>1 DEF CreateParties
<1>2. ASSUME NEW q \in Party,
             \/ Resend(q) \/ View(q) \/ RunOut(q)
             \/ CancelInvitation(q) \/ Sign(q) \/ Decline(q)
      PROVE  roster' = roster
  BY <1>2 DEF Resend, Renew, View, RunOut, CancelInvitation, RecordCancel,
              Sign, RecordSignature, Decline, RecordDecline
<1>3. ASSUME NEW d \in Contract,
             \/ SendForSignature(d) \/ DeleteContract(d)
             \/ \E new \in ContractState : StatusUpdateUser(d, new)
      PROVE  roster' = roster
  BY <1>3 DEF SendForSignature, DeleteContract, StatusUpdateUser
<1>4. ASSUME NEW batch \in SUBSET due, ExpireDue(batch)
      PROVE  roster' = roster
  BY <1>4 DEF ExpireDue
<1>5. CASE UNCHANGED vars
  BY <1>5 DEF vars
<1> QED  BY <1>1, <1>2, <1>3, <1>4, <1>5 DEF Next

\* Every operation keeps an executed contract covered by signatures.
LEMMA CoveredNext ==
    TypeOK /\ Invited /\ ExecutedIsCovered /\ [Next]_vars => ExecutedIsCovered'
<1> SUFFICES ASSUME TypeOK, Invited, ExecutedIsCovered, [Next]_vars,
                    NEW c \in Contract, status'[c] = "fully_signed"
             PROVE  \E s : Covers(c, s)'
  BY DEF ExecutedIsCovered, Covers
<1>1. CASE status[c] = "fully_signed"
  <2>1. PICK s : Covers(c, s)
    BY <1>1 DEF ExecutedIsCovered, Covers
  <2>2. \A p \in Party : ContractOf[p] = c => (p \in roster' <=> p \in roster)
    BY <1>1, RosterStands
  <2>3. \A p \in Party : inv[p] = "signed" => inv'[p] = "signed"
    BY AnswersStand
  <2>4. roster \subseteq Party /\ roster' \subseteq Party
    BY TypeNext DEF TypeOK
  <2> QED  BY <2>1, <2>2, <2>3, <2>4, CoverKept
<1>2. CASE status[c] # "fully_signed"
  <2>1. Next
    BY <1>2 DEF vars
  <2>2. PICK p \in Party : /\ Sign(p) /\ ContractOf[p] = c
                           /\ StepComplete(p) /\ ~HasNextStep(p)
    BY <1>2, <2>1, OnlySignExecutes
  <2> QED  BY <2>2, SignCovers
<1> QED  BY <1>1, <1>2

-----------------------------------------------------------------------------
(* The theorems. *)

\* The invariant of the ceremony.
LEMMA Inductive == Spec => []IInv
<1>1. IInv /\ [Next]_vars => IInv'
  BY TypeNext, InvitedNext, RefusalNext, AwaitingNext DEF IInv
<1> QED  BY <1>1, InitIInv, PTL DEF Spec

\* Every status the ceremony writes, on a contract or an invitation, is one
\* the tables accept, and only open invitations of the roster run out.
THEOREM CeremonyTypeCorrect == Spec => []TypeOK
BY Inductive, PTL DEF IInv

\* For any roster, a required refusal and the contract's rejection go together.
THEOREM RefusalsAreFinal == Spec => []RefusalIsFinal
BY Inductive, PTL DEF IInv

\* For any roster, a contract that awaits signatures has a required signer who
\* can still sign or did.
THEOREM AwaitingContractsHaveSigners == Spec => []AwaitingHasSigner
BY Inductive, PTL DEF IInv

\* For any roster, an answer given by a signer is never withdrawn or replaced.
THEOREM AnswersAreKept == Spec => AnswersStay
<1>1. TypeOK /\ Invited /\ [Next]_vars =>
         [\A p \in Party :
            inv[p] \in {"signed", "declined"} => inv'[p] = inv[p]]_vars
  BY AnswersStand
<1> QED  BY <1>1, Inductive, PTL DEF Spec, AnswersStay, IInv

\* For any roster, an executed contract stays covered: nobody joins its last
\* step, and no signature of it is lost.
THEOREM ExecutedAreCovered == Spec => []ExecutedIsCovered
<1>1. IInv /\ ExecutedIsCovered /\ [Next]_vars => ExecutedIsCovered'
  BY CoveredNext DEF IInv
<1>2. Init => ExecutedIsCovered
  BY DEF Init, ExecutedIsCovered
<1> QED  BY <1>1, <1>2, Inductive, PTL DEF Spec

\* For any roster, a ceremony is halted or rolled back only when a step of it
\* has no required signer left.
THEOREM HaltsOnlyExhausted == Spec => HaltsWhenExhausted
<1> USE PartyAssumption
<1>1. ASSUME TypeOK, Invited, [Next]_vars, NEW c \in Contract,
             status[c] \in Awaiting, status'[c] \in {"expired", "approved"}
      PROVE  \E s \in {StepOf[p] : p \in RequiredOf(c)} :
               \A p \in PartiesAt(c, s) \cap Signatory : inv'[p] \notin Standing
  <2>1. ASSUME NEW p \in Party, CancelInvitation(p)
        PROVE  \E s \in {StepOf[q] : q \in RequiredOf(c)} :
                 \A q \in PartiesAt(c, s) \cap Signatory : inv'[q] \notin Standing
    <3>1. /\ c = ContractOf[p]
          /\ Outstanding(c, StepOf[p]) \subseteq {p}
      BY <1>1, <2>1
      DEF CancelInvitation, RecordCancel, StatusUpdateInternal, Awaiting,
          TypeOK
    <3>2. inv[p] # "none" /\ inv' = [inv EXCEPT ![p] = "cancelled"]
      BY <2>1 DEF CancelInvitation, RecordCancel, Cancellable, Open
    <3>3. \A q \in PartiesAt(c, StepOf[p]) \cap Signatory : inv'[q] \notin Standing
      BY <1>1, <3>1, <3>2 DEF Outstanding, PartiesAt, Standing, TypeOK
    <3>4. StepOf[p] \in {StepOf[q] : q \in RequiredOf(c)}
      BY <1>1, <3>1, <3>2 DEF Invited
    <3> QED  BY <3>3, <3>4
  <2>2. ASSUME NEW batch \in SUBSET due, ExpireDue(batch)
        PROVE  \E s \in {StepOf[q] : q \in RequiredOf(c)} :
                 \A q \in PartiesAt(c, s) \cap Signatory : inv'[q] \notin Standing
    <3>1. PICK p \in batch \cap Signatory :
             ContractOf[p] = c /\ Outstanding(c, StepOf[p]) \subseteq batch
      BY <1>1, <2>2 DEF ExpireDue, ExhaustedSteps, Awaiting
    <3>2. \A q \in PartiesAt(c, StepOf[p]) \cap Signatory : inv'[q] \notin Standing
      BY <2>2, <3>1 DEF ExpireDue, Outstanding, Standing
    <3>3. p \in RequiredOf(c)
      BY <1>1, <3>1 DEF RequiredOf, TypeOK
    <3> QED  BY <3>2, <3>3
  <2>3. ASSUME NEW new \in {"fully_signed", "rejected",
                  "awaiting_signature_employer",
                  "awaiting_signature_counterparty"},
               NEW d \in Contract, StatusUpdateInternal(d, new)
        PROVE  FALSE
    BY <1>1, <2>3 DEF StatusUpdateInternal, Awaiting, TypeOK
  <2>4. ASSUME NEW p \in Party, Sign(p) \/ Decline(p)
        PROVE  FALSE
    BY <1>1, <2>3, <2>4
    DEF Sign, RecordSignature, Usable, Decline, RecordDecline, Awaiting,
        TypeOK
  <2>5. ASSUME NEW d \in Contract, SendForSignature(d)
        PROVE  FALSE
    BY <1>1, <2>5 DEF SendForSignature, StatusUpdateInternal, Awaiting, TypeOK
  <2>6. ASSUME NEW d \in Contract, NEW new \in ContractState,
               StatusUpdateUser(d, new)
        PROVE  FALSE
    BY <1>1, <2>6, UserMoves DEF StatusUpdateUser, Awaiting, TypeOK
  <2>7. ASSUME NEW p \in Party, Resend(p) \/ View(p) \/ RunOut(p)
        PROVE  FALSE
    BY <1>1, <2>7 DEF Resend, Renew, View, Usable, RunOut, Awaiting
  <2>8. ASSUME NEW d \in Contract, NEW new \in SUBSET Party,
               CreateParties(d, new)
        PROVE  FALSE
    BY <1>1, <2>8 DEF CreateParties, Awaiting
  <2>9. ASSUME NEW d \in Contract, DeleteContract(d)
        PROVE  FALSE
    BY <1>1, <2>9 DEF DeleteContract, Awaiting
  <2>10. CASE UNCHANGED vars
    BY <1>1, <2>10 DEF vars, Awaiting
  <2> QED
    BY <1>1, <2>1, <2>2, <2>4, <2>5, <2>6, <2>7, <2>8, <2>9, <2>10 DEF Next
<1>2. TypeOK /\ Invited /\ [Next]_vars =>
         [\A c \in Contract :
            /\ status[c] \in {"awaiting_signature_employer",
                              "awaiting_signature_counterparty"}
            /\ status'[c] \in {"expired", "approved"}
            => \E s \in {StepOf[p] : p \in RequiredOf(c)} :
                  \A p \in PartiesAt(c, s) \cap Signatory :
                     inv'[p] \notin {"pending", "viewed", "signed"}]_vars
  BY <1>1 DEF Awaiting, Standing
<1> QED  BY <1>2, Inductive, PTL DEF Spec, HaltsWhenExhausted, IInv

-----------------------------------------------------------------------------
(* The locks of a call. *)

Answer  == {"sign", "decline", "cancel"}
PartyOp == Answer \cup {"resend", "view"}
SweepOp == {"expire", "halt"}

\* The locks that calls take, by name.
InvitationLock(r) == Alone({<<"invitation", r.party>>})
ContractLock(r)   == Alone({<<"contract", ContractOf[r.party]>>})
ContractRef(r)    == Shared({<<"contract", ContractOf[r.party]>>})
PartyLock(r)      == Alone({<<"party", r.party>>})
BatchLock(r)      == Alone({<<"invitation", p>> : p \in r.batch})
BatchRef(r)       == Shared({<<"contract", ContractOf[p]>> : p \in r.batch})
HaltsLock(r)      == Alone({<<"contract", c>> : c \in r.halts})
CloseLock(r)      == Alone({<<"contract", r.contract>>})

\* The calls a session can make, by operation, and what each carries.
LEMMA CallShapes ==
    ASSUME NEW r \in Call
    PROVE  /\ r.op \in PartyOp \cup SweepOp \cup {"close"}
           /\ r.op \in PartyOp => r \in PartyCall /\ r.party \in Party
           /\ r.op \in SweepOp => /\ r \in SweepCall /\ r.batch \subseteq Party
                                  /\ r.halts \subseteq Contract
           /\ r.op = "close" => r \in CloseCall /\ r.contract \in Contract
           /\ r \in PartyCall <=> r.op \in PartyOp
           /\ r # NoCall
BY DEF Call, PartyCall, SweepCall, CloseCall, NoCall, PartyOp, SweepOp, Answer

\* What the functions that answer an invitation lock.
LEMMA AnswerLocks ==
    ASSUME NEW r \in Call, r.op \in Answer
    PROVE  /\ Len(Locks(r)) = 4
           /\ Locks(r)[1] = InvitationLock(r) /\ Locks(r)[2] = ContractLock(r)
           /\ Locks(r)[3] = PartyLock(r) /\ Locks(r)[4] = Audit
<1> DEFINE s == Locks(r)
           a == InvitationLock(r)
           b == ContractLock(r)
           c == PartyLock(r)
<1>1. PartyLocks(r) = <<a, b, c, Audit>>
  BY Zenon DEF PartyLocks, Answer, InvitationLock, ContractLock, PartyLock
<1>2. r.op # "expire" /\ r.op # "halt" /\ r.op # "close"
  BY DEF Answer
<1>3. s = <<a, b, c, Audit>>
  BY <1>1, <1>2, Zenon DEF Locks
<1> HIDE DEF s, a, b, c
<1>4. Len(s) = 4 /\ s[1] = a /\ s[2] = b /\ s[3] = c /\ s[4] = Audit
  BY <1>3
<1> QED  BY <1>4 DEF s, a, b, c

\* The locks of a resend, in order.
LEMMA ResendLocks ==
    ASSUME NEW r \in Call, r.op = "resend"
    PROVE  /\ Len(Locks(r)) = 4
           /\ Locks(r)[1] = PartyLock(r) /\ Locks(r)[2] = InvitationLock(r)
           /\ Locks(r)[3] = Audit /\ Locks(r)[4] = ContractRef(r)
<1> DEFINE s == Locks(r)
           a == PartyLock(r)
           b == InvitationLock(r)
           c == ContractRef(r)
<1>1. PartyLocks(r) = <<a, b, Audit, c>>
  BY Zenon DEF PartyLocks, InvitationLock, ContractRef, PartyLock
<1>2. s = <<a, b, Audit, c>>
  <2>1. r.op # "expire" /\ r.op # "halt" /\ r.op # "close"
    OBVIOUS
  <2> QED  BY <1>1, <2>1, Zenon DEF Locks
<1> HIDE DEF s, a, b, c
<1>3. Len(s) = 4 /\ s[1] = a /\ s[2] = b /\ s[3] = Audit /\ s[4] = c
  BY <1>2
<1> QED  BY <1>3 DEF s, a, b, c

\* The locks of a view, in order.
LEMMA ViewLocks ==
    ASSUME NEW r \in Call, r.op = "view"
    PROVE  /\ Len(Locks(r)) = 3
           /\ Locks(r)[1] = InvitationLock(r) /\ Locks(r)[2] = Audit
           /\ Locks(r)[3] = ContractRef(r)
<1> DEFINE s == Locks(r)
           a == InvitationLock(r)
           b == ContractRef(r)
<1>1. PartyLocks(r) = <<a, Audit, b>>
  BY Zenon DEF PartyLocks, InvitationLock, ContractRef
<1>2. s = <<a, Audit, b>>
  <2>1. r.op # "expire" /\ r.op # "halt" /\ r.op # "close"
    OBVIOUS
  <2> QED  BY <1>1, <2>1, Zenon DEF Locks
<1> HIDE DEF s, a, b
<1>3. Len(s) = 3 /\ s[1] = a /\ s[2] = Audit /\ s[3] = b
  BY <1>2
<1> QED  BY <1>3 DEF s, a, b

\* The locks of an expiration sweep, in order, before and after it has counted.
LEMMA BatchLocks ==
    ASSUME NEW r \in Call, r.op \in SweepOp
    PROVE  /\ Len(Locks(r)) = IF r.op = "halt" THEN 4 ELSE 3
           /\ Locks(r)[1] = BatchLock(r) /\ Locks(r)[2] = Audit
           /\ Locks(r)[3] = BatchRef(r)
           /\ r.op = "halt" => Locks(r)[4] = HaltsLock(r)
<1> DEFINE s == Locks(r)
           a == BatchLock(r)
           b == BatchRef(r)
           d == HaltsLock(r)
<1>1. SweepLocks(r) = <<a, Audit, b>>
  BY Zenon DEF SweepLocks, BatchLock, BatchRef
<1>2. CASE r.op = "expire"
  <2>1. s = <<a, Audit, b>>
    BY <1>1, <1>2, Zenon DEF Locks
  <2> HIDE DEF s, a, b, d
  <2>2. Len(s) = 3 /\ s[1] = a /\ s[2] = Audit /\ s[3] = b
    BY <2>1
  <2> QED  BY <1>2, <2>2 DEF s, a, b
<1>3. CASE r.op = "halt"
  <2>1. s = <<a, Audit, b>> \o <<d>>
    <3>1. r.op # "expire"
      BY <1>3
    <3> QED  BY <1>1, <1>3, <3>1, Zenon DEF Locks, HaltsLock
  <2> HIDE DEF s, a, b, d
  <2>2. Len(s) = 4 /\ s[1] = a /\ s[2] = Audit /\ s[3] = b /\ s[4] = d
    BY <2>1
  <2> QED  BY <1>3, <2>2 DEF s, a, b, d
<1> QED  BY <1>2, <1>3 DEF SweepOp

\* The locks of the sessions that close a ceremony, in order.
LEMMA CloseLocks ==
    ASSUME NEW r \in Call, r.op = "close"
    PROVE  /\ Len(Locks(r)) = 2
           /\ Locks(r)[1] = CloseLock(r) /\ Locks(r)[2] = Audit
<1> DEFINE s == Locks(r)
           a == CloseLock(r)
<1>1. s = <<a, Audit>>
  <2>1. r.op # "expire" /\ r.op # "halt"
    OBVIOUS
  <2> QED  BY <2>1, Zenon DEF Locks, CloseLock
<1> HIDE DEF s, a
<1>2. Len(s) = 2 /\ s[1] = a /\ s[2] = Audit
  BY <1>1
<1> QED  BY <1>2 DEF s, a

\* A resend makes another call stale and leaves its locks as they are.
LEMMA StaleLocks ==
    ASSUME NEW r \in PartyCall
    PROVE  LET q == [r EXCEPT !.stale = TRUE]
           IN  /\ q \in PartyCall /\ q.op = r.op /\ q.party = r.party
               /\ Len(Locks(q)) = Len(Locks(r))
               /\ \A i \in 1..Len(Locks(r)) : Locks(q)[i] = Locks(r)[i]
<1> DEFINE q == [r EXCEPT !.stale = TRUE]
<1>1. q \in PartyCall /\ q.op = r.op /\ q.party = r.party
  BY DEF PartyCall
<1>2. /\ InvitationLock(q) = InvitationLock(r) /\ ContractLock(q) = ContractLock(r)
      /\ ContractRef(q) = ContractRef(r) /\ PartyLock(q) = PartyLock(r)
  BY <1>1 DEF InvitationLock, ContractLock, ContractRef, PartyLock
<1> SUFFICES /\ Len(Locks(q)) = Len(Locks(r))
             /\ \A i \in 1..Len(Locks(r)) : Locks(q)[i] = Locks(r)[i]
  BY <1>1
<1> HIDE DEF q
<1>3. q \in Call /\ r \in Call
  BY <1>1 DEF Call
<1>4. CASE r.op \in Answer
  BY <1>1, <1>2, <1>3, <1>4, AnswerLocks
<1>5. CASE r.op = "resend"
  BY <1>1, <1>2, <1>3, <1>5, ResendLocks
<1>6. CASE r.op = "view"
  BY <1>1, <1>2, <1>3, <1>6, ViewLocks
<1> QED  BY <1>4, <1>5, <1>6 DEF PartyCall, Answer

-----------------------------------------------------------------------------
(* The invariant of the locks. *)

Shape ==
    /\ call \in [Txn -> Call \cup {NoCall}]
    /\ held \in [Txn -> Nat]
    /\ \A t \in Txn : call[t] # NoCall => held[t] <= Len(Locks(call[t]))
    /\ \A t \in Txn : call[t].op = "expire" => held[t] >= 1
    /\ \A t \in Txn : call[t].op = "halt" => held[t] >= 3

\* No two sessions hold locks that exclude each other.
Exclusive == \A t \in Txn : \A l \in Taken(t) : Blockers(t, l) = {}

\* What a call read under its locks still holds.
Checked(t) ==
    LET r == call[t] IN
    /\ r.op \in {"sign", "decline"} /\ held[t] >= 1 => Usable(r.party)
    /\ r.op = "cancel" /\ held[t] >= 1 => Cancellable(r.party)
    /\ r.op = "resend" /\ held[t] >= 2 => inv[r.party] \in Renewable
    /\ r.op = "view" => r.party \notin due
    /\ r.op \in SweepOp =>
         r.batch # {} /\ \A p \in r.batch : p \in due /\ Selected(p)
    /\ r.op = "halt" =>
         r.halts = {c \in Contract : ExhaustedSteps(c, r.batch) # {}}

AllChecked == \A t \in Txn : Checked(t)

LInv == TypeOK /\ Shape /\ Exclusive /\ AllChecked

\* Session t has taken the row alone.
Holds(t, row) == \E l \in Taken(t) : l.alone /\ row \in l.rows

\* A row has one holder.
LEMMA OneHolder ==
    ASSUME Exclusive, NEW t \in Txn, NEW u \in Txn, NEW row,
           Holds(t, row), Holds(u, row)
    PROVE  t = u
BY DEF Exclusive, Blockers, Holds

\* What a call that has got that far holds alone.
LEMMA HoldsRows ==
    ASSUME Shape, NEW t \in Txn, call[t] # NoCall
    PROVE  /\ call[t].op \in Answer /\ held[t] >= 1 =>
                Holds(t, <<"invitation", call[t].party>>)
           /\ call[t].op = "resend" /\ held[t] >= 2 =>
                Holds(t, <<"invitation", call[t].party>>)
           /\ call[t].op \in SweepOp =>
                \A p \in call[t].batch : Holds(t, <<"invitation", p>>)
           /\ call[t].op = "halt" => Holds(t, <<"audit">>)
<1> DEFINE r == call[t]
<1>1. held[t] \in Nat /\ held[t] <= Len(Locks(r))
  BY DEF Shape
<1>2. \A i \in 1..held[t] : Locks(r)[i] \in Taken(t)
  BY DEF Taken
<1>0. r \in Call
  BY DEF Shape
<1>3. ASSUME r.op \in Answer, held[t] >= 1
      PROVE  Holds(t, <<"invitation", r.party>>)
  <2>1. InvitationLock(r) \in Taken(t)
    BY <1>0, <1>1, <1>2, <1>3, AnswerLocks
  <2> QED  BY <2>1 DEF Holds, InvitationLock, Alone
<1>4. ASSUME r.op = "resend", held[t] >= 2
      PROVE  Holds(t, <<"invitation", r.party>>)
  <2>1. InvitationLock(r) \in Taken(t)
    BY <1>0, <1>1, <1>2, <1>4, ResendLocks
  <2> QED  BY <2>1 DEF Holds, InvitationLock, Alone
<1>5. ASSUME r.op \in SweepOp, NEW p \in r.batch
      PROVE  Holds(t, <<"invitation", p>>)
  <2>1. held[t] >= 1
    BY <1>1, <1>5 DEF Shape, SweepOp
  <2>2. BatchLock(r) \in Taken(t)
    BY <1>0, <1>1, <1>2, <1>5, <2>1, BatchLocks
  <2> QED  BY <2>2 DEF Holds, BatchLock, Alone
<1>6. ASSUME r.op = "halt"
      PROVE  Holds(t, <<"audit">>)
  <2>1. held[t] >= 3
    BY <1>6 DEF Shape
  <2>2. Audit \in Taken(t)
    BY <1>0, <1>1, <1>2, <1>6, <2>1, BatchLocks DEF SweepOp
  <2> QED  BY <2>2 DEF Holds, Audit, Alone
<1> QED  BY <1>3, <1>4, <1>5, <1>6

\* Who writes holds the audit lock and the invitations it writes.
LEMMA ReadyHolds ==
    ASSUME Shape, NEW t \in Txn, Ready(t)
    PROVE  /\ call[t] \in Call
           /\ call[t].op \in PartyOp \cup {"halt", "close"}
           /\ Holds(t, <<"audit">>)
           /\ call[t].op \in PartyOp => Holds(t, <<"invitation", call[t].party>>)
           /\ call[t].op = "halt" =>
                \A p \in call[t].batch : Holds(t, <<"invitation", p>>)
           /\ call[t].op \in Answer => held[t] >= 1
           /\ call[t].op = "resend" => held[t] >= 2
<1> DEFINE r == call[t]
<1>1. r # NoCall /\ r.op # "expire"
  BY DEF Ready, NoCall
<1>2. r \in Call
  BY <1>1 DEF Shape
<1>3. r.op \in PartyOp \cup {"halt", "close"}
  BY <1>1, <1>2, CallShapes DEF SweepOp
<1>4. /\ held[t] \in Nat /\ held[t] <= Len(Locks(r))
      /\ ~(held[t] < Len(Locks(r)))
  BY <1>1 DEF Shape, Ready, HasNext
<1>5. \A i \in 1..held[t] : Locks(r)[i] \in Taken(t)
  BY <1>1 DEF Taken
<1>6. CASE r.op \in Answer
  <2>1. Len(Locks(r)) = 4
    BY <1>2, <1>6, AnswerLocks
  <2>2. held[t] = 4
    BY <1>4, <2>1
  <2>3. InvitationLock(r) \in Taken(t) /\ Audit \in Taken(t)
    BY <1>2, <1>5, <1>6, <2>2, AnswerLocks
  <2> QED  BY <1>2, <1>3, <1>6, <2>2, <2>3
           DEF Holds, InvitationLock, Audit, Alone, Answer
<1>7. CASE r.op = "resend"
  <2>1. Len(Locks(r)) = 4
    BY <1>2, <1>7, ResendLocks
  <2>2. held[t] = 4
    BY <1>4, <2>1
  <2>3. InvitationLock(r) \in Taken(t) /\ Audit \in Taken(t)
    BY <1>2, <1>5, <1>7, <2>2, ResendLocks
  <2> QED  BY <1>2, <1>3, <1>7, <2>2, <2>3
           DEF Holds, InvitationLock, Audit, Alone, Answer
<1>8. CASE r.op = "view"
  <2>1. Len(Locks(r)) = 3
    BY <1>2, <1>8, ViewLocks
  <2>2. held[t] = 3
    BY <1>4, <2>1
  <2>3. InvitationLock(r) \in Taken(t) /\ Audit \in Taken(t)
    BY <1>2, <1>5, <1>8, <2>2, ViewLocks
  <2> QED  BY <1>2, <1>3, <1>8, <2>2, <2>3
           DEF Holds, InvitationLock, Audit, Alone, Answer
<1>9. CASE r.op = "halt"
  BY <1>1, <1>2, <1>3, <1>9, HoldsRows DEF SweepOp, PartyOp, Answer
<1>10. CASE r.op = "close"
  <2>1. Len(Locks(r)) = 2
    BY <1>2, <1>10, CloseLocks
  <2>2. held[t] = 2
    BY <1>4, <2>1
  <2>3. Audit \in Taken(t)
    BY <1>2, <1>5, <1>10, <2>2, CloseLocks
  <2> QED  BY <1>2, <1>3, <1>10, <2>3
           DEF Holds, Audit, Alone, Answer, PartyOp
<1> QED  BY <1>3, <1>6, <1>7, <1>8, <1>9, <1>10 DEF PartyOp

-----------------------------------------------------------------------------
(* Commits. *)

\* What each call writes.
LEMMA WriteParts ==
    ASSUME NEW r \in Call, Write(r)
    PROVE  /\ r.op = "sign" => RecordSignature(r.party)
           /\ r.op = "decline" => RecordDecline(r.party)
           /\ r.op = "cancel" => RecordCancel(r.party)
           /\ r.op = "resend" => Renew(r.party)
           /\ r.op = "view" => UNCHANGED vars \/ RecordView(r.party)
           /\ r.op = "halt" => RecordExpiry(r.batch, r.halts)
           /\ r.op = "close" => StatusUpdateUser(r.contract, "cancelled")
<1>1. CASE r.op = "sign"
  BY <1>1, Zenon DEF Write
<1>2. CASE r.op = "decline"
  BY <1>2, Zenon DEF Write
<1>3. CASE r.op = "cancel"
  BY <1>3, Zenon DEF Write
<1>4. CASE r.op = "resend"
  BY <1>4, Zenon DEF Write
<1>5. CASE r.op = "view"
  BY <1>5, Zenon DEF Write
<1>6. CASE r.op = "halt"
  BY <1>6, Zenon DEF Write
<1>7. CASE r.op = "close"
  BY <1>7, Zenon DEF Write
<1> QED  BY <1>1, <1>2, <1>3, <1>4, <1>5, <1>6, <1>7

\* The parties a call writes about.
Touched(r) == IF r.op = "halt" THEN r.batch
              ELSE IF r.op \in PartyOp THEN {r.party} ELSE {}

\* A write changes no other invitation, and nothing becomes due by it.
LEMMA WriteFrame ==
    ASSUME TypeOK, NEW r \in Call, Write(r),
           r.op \in PartyOp \cup {"halt", "close"}
    PROVE  /\ roster' = roster /\ due' \subseteq due
           /\ \A p \in Party \ Touched(r) :
                 inv'[p] = inv[p] /\ (p \in due' <=> p \in due)
<1>1. CASE r.op = "sign"
  BY <1>1, WriteParts DEF RecordSignature, Touched, PartyOp, Answer, TypeOK
<1>2. CASE r.op = "decline"
  BY <1>2, WriteParts DEF RecordDecline, Touched, PartyOp, Answer, TypeOK
<1>3. CASE r.op = "cancel"
  BY <1>3, WriteParts DEF RecordCancel, Touched, PartyOp, Answer, TypeOK
<1>4. CASE r.op = "resend"
  BY <1>4, WriteParts DEF Renew, Touched, PartyOp, Answer, TypeOK
<1>5. CASE r.op = "view"
  BY <1>5, WriteParts DEF RecordView, vars, Touched, PartyOp, Answer, TypeOK
<1>6. CASE r.op = "halt"
  BY <1>6, WriteParts DEF RecordExpiry, Touched, TypeOK
<1>7. CASE r.op = "close"
  BY <1>7, WriteParts DEF StatusUpdateUser, TypeOK
<1> QED  BY <1>1, <1>2, <1>3, <1>4, <1>5, <1>6, <1>7 DEF PartyOp, Answer

\* What a call writes is an operation of the ceremony on the present state.
LEMMA WriteIsOperation ==
    ASSUME TypeOK, Shape, AllChecked, NEW t \in Txn, Ready(t), Write(call[t])
    PROVE  [Next]_vars
<1> DEFINE r == call[t]
           p == r.party
<1>1. r \in Call /\ r.op \in PartyOp \cup {"halt", "close"}
  BY ReadyHolds
<1>2. Checked(t)
  BY DEF AllChecked
<1>3. r.op \in PartyOp => p \in Party
  BY <1>1, CallShapes
<1>4. CASE r.op = "sign"
  BY <1>1, <1>2, <1>3, <1>4, WriteParts, ReadyHolds
  DEF Checked, Sign, Next, PartyOp, Answer
<1>5. CASE r.op = "decline"
  BY <1>1, <1>2, <1>3, <1>5, WriteParts, ReadyHolds
  DEF Checked, Decline, Next, PartyOp, Answer
<1>6. CASE r.op = "cancel"
  BY <1>1, <1>2, <1>3, <1>6, WriteParts, ReadyHolds
  DEF Checked, CancelInvitation, Next, PartyOp, Answer
<1>7. CASE r.op = "resend"
  BY <1>1, <1>2, <1>3, <1>7, WriteParts, ReadyHolds
  DEF Checked, Resend, Next, PartyOp
<1>8. CASE r.op = "view"
  <2>1. p \in Party /\ p \notin due
    BY <1>2, <1>3, <1>8 DEF Checked, PartyOp
  <2>2. CASE RecordView(p) /\ inv[p] = "pending"
    BY <2>1, <2>2 DEF RecordView, View, Usable, Open, Next
  <2>3. CASE RecordView(p) /\ inv[p] # "pending"
    BY <2>3 DEF RecordView, vars
  <2> QED  BY <1>1, <1>8, <2>2, <2>3, WriteParts
<1>9. CASE r.op = "halt"
  <2>1. /\ r.batch # {} /\ \A q \in r.batch : q \in due /\ Selected(q)
        /\ r.halts = {c \in Contract : ExhaustedSteps(c, r.batch) # {}}
    BY <1>2, <1>9 DEF Checked, SweepOp
  <2>2. RecordExpiry(r.batch, r.halts)
    BY <1>1, <1>9, WriteParts
  <2>3. status' = [c \in Contract |->
                     IF ExhaustedSteps(c, r.batch) # {} THEN "expired"
                     ELSE status[c]]
    BY <2>1, <2>2 DEF RecordExpiry
  <2>4. ExpireDue(r.batch)
    BY <2>1, <2>2, <2>3 DEF RecordExpiry, ExpireDue
  <2>5. r.batch \in SUBSET due
    BY <2>1
  <2> QED  BY <2>4, <2>5 DEF Next
<1>10. CASE r.op = "close"
  <2>1. r.contract \in Contract /\ "cancelled" \in ContractState
    BY <1>1, <1>10, CallShapes DEF ContractState
  <2>2. StatusUpdateUser(r.contract, "cancelled")
    BY <1>1, <1>10, WriteParts
  <2> QED  BY <2>1, <2>2 DEF Next
<1> QED
  BY <1>1, <1>4, <1>5, <1>6, <1>7, <1>8, <1>9, <1>10 DEF PartyOp, Answer

\* Under the invariant every step is one operation of the ceremony, or none.
LEMMA StepIsAtomic == LInv /\ [LocksNext]_lvars => [Next]_vars
<1> SUFFICES ASSUME LInv, [LocksNext]_lvars PROVE [Next]_vars
  OBVIOUS
<1>1. ASSUME NEW t \in Txn, Commit(t)
      PROVE  [Next]_vars
  BY <1>1, WriteIsOperation DEF Commit, LInv
<1>2. ASSUME NEW t \in Txn,
             BeginParty(t) \/ BeginClose(t) \/ BeginSweep(t) \/ TakeLock(t)
             \/ TurnAway(t) \/ CountExhausted(t) \/ Refuse(t)
             \/ DeadlockAbort(t)
      PROVE  UNCHANGED vars
  BY <1>2 DEF BeginParty, BeginClose, Begin, BeginSweep, TakeLock, TurnAway,
              CountExhausted, Refuse, DeadlockAbort
<1>3. ASSUME NEW p \in Party, Tick(p)
      PROVE  [Next]_vars
  BY <1>3 DEF Tick, Next
<1>4. CASE UNCHANGED lvars
  BY <1>4 DEF lvars, vars
<1> QED  BY <1>1, <1>2, <1>3, <1>4 DEF LocksNext, Advance

-----------------------------------------------------------------------------
(* The locks stay exclusive. *)

\* Every call has at least two locks to take, and a sweep three.
LEMMA LenLocks ==
    ASSUME NEW r \in Call
    PROVE  /\ Len(Locks(r)) \in Nat /\ Len(Locks(r)) >= 2
           /\ r.op \in SweepOp => Len(Locks(r)) >= 3
<1>1. CASE r.op \in Answer
  BY <1>1, AnswerLocks DEF Answer, SweepOp
<1>2. CASE r.op = "resend"
  BY <1>2, ResendLocks DEF SweepOp
<1>3. CASE r.op = "view"
  BY <1>3, ViewLocks DEF SweepOp
<1>4. CASE r.op \in SweepOp
  BY <1>4, BatchLocks
<1>5. CASE r.op = "close"
  BY <1>5, CloseLocks DEF SweepOp
<1> QED  BY <1>1, <1>2, <1>3, <1>4, <1>5, CallShapes DEF PartyOp

\* A step of session t leaves the other sessions' calls and locks alone, but
\* for the mark that a resend leaves on them.
OthersStand(t) ==
    \A u \in Txn \ {t} :
        /\ held'[u] = held[u]
        /\ \/ call'[u] = call[u]
           \/ /\ call[u] \in PartyCall
              /\ call'[u] = [call[u] EXCEPT !.stale = TRUE]

\* A session that a step of another leaves standing keeps its call and its locks.
LEMMA OthersKept ==
    ASSUME Shape, NEW t \in Txn, OthersStand(t), NEW u \in Txn \ {t}
    PROVE  /\ call'[u] \in Call \cup {NoCall}
           /\ call'[u] = NoCall <=> call[u] = NoCall
           /\ call'[u].op = call[u].op
           /\ call[u].op \in PartyOp => call'[u].party = call[u].party
           /\ call[u].op \in SweepOp => call'[u] = call[u]
           /\ call[u] # NoCall => held'[u] <= Len(Locks(call'[u]))
           /\ Taken(u)' = Taken(u)
<1>1. CASE call'[u] = call[u]
  <2>1. held'[u] = held[u]
    BY DEF OthersStand
  <2>2. Taken(u)' = Taken(u)
    BY <1>1, <2>1, Zenon DEF Taken
  <2>3. call[u] # NoCall => held'[u] <= Len(Locks(call'[u]))
    BY <1>1, <2>1 DEF Shape
  <2>4. call'[u] \in Call \cup {NoCall}
    BY <1>1 DEF Shape
  <2> QED  BY <1>1, <2>2, <2>3, <2>4, Zenon
<1>2. CASE /\ call[u] \in PartyCall
           /\ call'[u] = [call[u] EXCEPT !.stale = TRUE]
  <2>1. /\ call'[u] \in PartyCall
        /\ call'[u].op = call[u].op /\ call'[u].party = call[u].party
        /\ Len(Locks(call'[u])) = Len(Locks(call[u]))
        /\ \A i \in 1..Len(Locks(call[u])) :
              Locks(call'[u])[i] = Locks(call[u])[i]
    BY <1>2, StaleLocks
  <2>2. call[u] \in Call /\ call'[u] \in Call
    BY <1>2, <2>1 DEF Call
  <2>3. call[u] # NoCall /\ call'[u] # NoCall /\ call[u].op \notin SweepOp
    BY <1>2, <2>2, CallShapes DEF SweepOp, PartyOp, Answer
  <2>4. /\ held'[u] = held[u] /\ held[u] \in Nat
        /\ held[u] <= Len(Locks(call[u])) /\ Len(Locks(call[u])) \in Nat
    BY <2>2, <2>3, LenLocks DEF Shape, OthersStand
  <2>5. \A i \in 1..held[u] : Locks(call'[u])[i] = Locks(call[u])[i]
    BY <2>1, <2>4
  <2>6. Taken(u)' = Taken(u)
    BY <2>3, <2>4, <2>5 DEF Taken
  <2> QED  BY <2>1, <2>2, <2>3, <2>4, <2>6
<1> QED  BY <1>1, <1>2 DEF OthersStand

\* A session may take locks that no other session's locks exclude.
LEMMA ExclusiveKept ==
    ASSUME Exclusive, NEW t \in Txn, NEW new,
           Taken(t)' \subseteq Taken(t) \cup new,
           \A u \in Txn \ {t} : Taken(u)' \subseteq Taken(u),
           \A l \in new : Blockers(t, l) = {}
    PROVE  Exclusive'
<1> SUFFICES ASSUME NEW x \in Txn, NEW l \in Taken(x)',
                    NEW y \in Txn \ {x}, NEW m \in Taken(y)',
                    m.rows \cap l.rows # {}, m.alone \/ l.alone
             PROVE  FALSE
  BY DEF Exclusive, Blockers
<1>1. ASSUME NEW u \in Txn, NEW v \in Txn \ {u},
             NEW a \in Taken(u), NEW b \in Taken(v),
             b.rows \cap a.rows # {}, b.alone \/ a.alone
      PROVE  FALSE
  BY <1>1 DEF Exclusive, Blockers
<1>2. CASE x = t
  BY <1>1, <1>2 DEF Blockers
<1>3. CASE y = t
  BY <1>1, <1>3 DEF Blockers
<1>4. CASE x # t /\ y # t
  BY <1>1, <1>4
<1> QED  BY <1>2, <1>3, <1>4

\* The shape of the calls survives a step that leaves the other sessions standing.
LEMMA OthersInShape ==
    ASSUME Shape, NEW t \in Txn, OthersStand(t),
           DOMAIN call' = Txn, call' = [u \in Txn |-> call'[u]],
           held' = [u \in Txn |-> held'[u]],
           call'[t] \in Call \cup {NoCall}, held'[t] \in Nat,
           call'[t] # NoCall => held'[t] <= Len(Locks(call'[t])),
           call'[t].op = "expire" => held'[t] >= 1,
           call'[t].op = "halt" => held'[t] >= 3
    PROVE  Shape'
<1>1. \A u \in Txn : call'[u] \in Call \cup {NoCall} /\ held'[u] \in Nat
  BY OthersKept DEF Shape, OthersStand
<1>2. \A u \in Txn : call'[u] # NoCall => held'[u] <= Len(Locks(call'[u]))
  BY OthersKept
<1>3. \A u \in Txn : /\ call'[u].op = "expire" => held'[u] >= 1
                     /\ call'[u].op = "halt" => held'[u] >= 3
  BY OthersKept DEF Shape, OthersStand
<1> QED  BY <1>1, <1>2, <1>3 DEF Shape

\* How a step ends the call of session t.
Ends(t) == call'[t] = NoCall /\ held'[t] = 0

\* A call that ends frees its session and leaves the others standing.
LEMMA Enders ==
    ASSUME Shape, NEW t \in Txn,
           TurnAway(t) \/ Commit(t) \/ Refuse(t) \/ DeadlockAbort(t)
    PROVE  /\ Ends(t) /\ OthersStand(t)
           /\ call' = [u \in Txn |-> call'[u]]
           /\ held' = [u \in Txn |-> held'[u]]
<1>1. CASE Release(t)
  BY <1>1 DEF Release, Shape, Ends, OthersStand
<1>2. CASE Commit(t)
  BY <1>2 DEF Commit, Shape, Ends, OthersStand
<1> QED  BY <1>1, <1>2 DEF TurnAway, Refuse, DeadlockAbort

\* A call that begins holds no lock and leaves the others standing.
LEMMA Beginners ==
    ASSUME Shape, NEW t \in Txn, BeginParty(t) \/ BeginClose(t)
    PROVE  /\ call[t] = NoCall
           /\ call'[t] \in PartyCall \cup CloseCall /\ held'[t] = 0
           /\ OthersStand(t)
           /\ call' = [u \in Txn |-> call'[u]]
           /\ held' = [u \in Txn |-> held'[u]]
           /\ call'[t].op = "view" => call'[t].party \notin due
<1>1. PICK r \in PartyCall \cup CloseCall :
         Begin(t, r) /\ (r.op = "view" => Usable(r.party))
  BY DEF BeginParty, BeginClose, CloseCall
<1> QED  BY <1>1 DEF Begin, Shape, OthersStand, Usable

\* A sweep begins with the due invitations that nobody has locked.
LEMMA Sweeps ==
    ASSUME TypeOK, Shape, NEW t \in Txn, BeginSweep(t)
    PROVE  /\ call[t] = NoCall
           /\ call'[t] \in SweepCall /\ call'[t].op = "expire" /\ held'[t] = 1
           /\ call'[t].batch # {}
           /\ \A p \in call'[t].batch :
                 /\ p \in due /\ Selected(p)
                 /\ Blockers(t, Alone({<<"invitation", p>>})) = {}
           /\ OthersStand(t)
           /\ call' = [u \in Txn |-> call'[u]]
           /\ held' = [u \in Txn |-> held'[u]]
<1> DEFINE free == {p \in due : /\ Selected(p)
                                /\ Blockers(t, Alone({<<"invitation", p>>})) = {}}
           q == [op |-> "expire", batch |-> free, halts |-> {}]
<1>1. /\ free # {} /\ call[t] = NoCall
      /\ call' = [call EXCEPT ![t] = q]
      /\ held' = [held EXCEPT ![t] = 1]
  BY DEF BeginSweep
<1>2. free \subseteq Party
  BY DEF TypeOK
<1>3. q \in SweepCall /\ q.op = "expire" /\ q.batch = free
  BY <1>2 DEF SweepCall
<1>4. \A p \in free : /\ p \in due /\ Selected(p)
                      /\ Blockers(t, Alone({<<"invitation", p>>})) = {}
  OBVIOUS
<1> HIDE DEF free, q
<1>5. call'[t] = q /\ held'[t] = 1
  BY <1>1 DEF Shape
<1>6. /\ OthersStand(t)
      /\ call' = [u \in Txn |-> call'[u]]
      /\ held' = [u \in Txn |-> held'[u]]
  BY <1>1 DEF Shape, OthersStand
<1> QED  BY <1>1, <1>3, <1>4, <1>5, <1>6

\* A session that takes a lock gets one that nobody holds, and checks what it
\* locked.
LEMMA Takers ==
    ASSUME Shape, NEW t \in Txn, TakeLock(t)
    PROVE  /\ call' = call /\ held'[t] = held[t] + 1
           /\ OthersStand(t)
           /\ held' = [u \in Txn |-> held'[u]]
           /\ call[t] \in Call /\ held[t] < Len(Locks(call[t]))
           /\ Blockers(t, Locks(call[t])[held[t] + 1]) = {}
           /\ TakesInvitation(t) => Admitted(call[t])
           /\ UNCHANGED vars
BY DEF TakeLock, HasNext, NextLock, Shape, OthersStand

\* A sweep that has its batch counts the exhausted steps and learns what to halt.
LEMMA Counters ==
    ASSUME Shape, NEW t \in Txn, CountExhausted(t)
    PROVE  LET r == call[t]
               q == call'[t]
           IN  /\ r \in Call /\ r.op = "expire"
               /\ q \in Call /\ q.op = "halt" /\ q.batch = r.batch
               /\ q.halts = {c \in Contract : ExhaustedSteps(c, r.batch) # {}}
               /\ held[t] = 3 /\ held'[t] = 3
               /\ OthersStand(t)
               /\ call' = [u \in Txn |-> call'[u]]
               /\ held' = held
               /\ UNCHANGED vars
<1> DEFINE r == call[t]
           H == {c \in Contract : ExhaustedSteps(c, r.batch) # {}}
           q == call'[t]
<1>1. r \in Call /\ r.op = "expire" /\ r # NoCall
  BY DEF CountExhausted, Shape, NoCall
<1>2. r \in SweepCall
  BY <1>1, CallShapes DEF SweepOp
<1>3. H \subseteq Contract
  OBVIOUS
<1>0. ~HasNext(t) /\ held' = held /\ UNCHANGED vars
  BY DEF CountExhausted
<1>4. call' = [call EXCEPT ![t].op = "halt", ![t].halts = H]
  BY DEF CountExhausted
<1>5. Len(Locks(r)) = 3
  BY <1>1, BatchLocks DEF SweepOp
<1>6. held[t] = 3
  <2>1. held[t] \in Nat /\ held[t] <= Len(Locks(r))
    BY <1>1 DEF Shape
  <2>2. ~(held[t] < Len(Locks(r)))
    BY <1>0, <1>1 DEF HasNext
  <2> QED  BY <1>5, <2>1, <2>2
<1> HIDE DEF H
<1>7. q = [r EXCEPT !.op = "halt", !.halts = H]
  BY <1>4 DEF Shape
<1>8. OthersStand(t) /\ call' = [u \in Txn |-> call'[u]]
  BY <1>0, <1>4 DEF Shape, OthersStand
<1> HIDE DEF q, r
<1>9. q.op = "halt" /\ q.batch = r.batch /\ q.halts = H /\ q \in SweepCall
  BY <1>2, <1>3, <1>7 DEF SweepCall
<1> USE DEF q, r
<1> QED  BY <1>0, <1>1, <1>6, <1>8, <1>9 DEF H, Call

SessionStep(t) ==
    \/ BeginParty(t) \/ BeginClose(t) \/ BeginSweep(t)
    \/ Advance(t)
    \/ DeadlockAbort(t)

\* Every step of a session keeps the shape of the calls.
LEMMA ShapeStep ==
    ASSUME TypeOK, Shape, NEW t \in Txn, SessionStep(t)
    PROVE  Shape' /\ OthersStand(t)
<1>0. NoCall.op = "none"
  BY DEF NoCall
<1>1. CASE TurnAway(t) \/ Commit(t) \/ Refuse(t) \/ DeadlockAbort(t)
  BY <1>0, <1>1, Enders, OthersInShape DEF Ends
<1>2. CASE BeginParty(t) \/ BeginClose(t)
  <2>1. call'[t] \in Call /\ held'[t] = 0
    BY <1>2, Beginners DEF Call
  <2>2. call'[t].op \notin {"expire", "halt"}
    BY <1>2, Beginners DEF PartyCall, CloseCall
  <2>3. held'[t] <= Len(Locks(call'[t]))
    BY <2>1, LenLocks
  <2> QED  BY <1>2, <2>1, <2>2, <2>3, Beginners, OthersInShape
<1>3. CASE BeginSweep(t)
  <2>1. call'[t] \in Call /\ call'[t].op = "expire" /\ held'[t] = 1
    BY <1>3, Sweeps DEF Call
  <2>2. held'[t] <= Len(Locks(call'[t]))
    BY <2>1, LenLocks
  <2> QED  BY <1>3, <2>1, <2>2, Sweeps, OthersInShape
<1>4. CASE TakeLock(t)
  <2>1. /\ call'[t] = call[t] /\ call[t] \in Call
        /\ held'[t] = held[t] + 1 /\ held[t] < Len(Locks(call[t]))
        /\ call' = [u \in Txn |-> call'[u]]
    BY <1>4, Takers DEF Shape
  <2>2. held[t] \in Nat /\ Len(Locks(call[t])) \in Nat
    BY <2>1, LenLocks DEF Shape
  <2>3. /\ call[t].op = "expire" => held[t] >= 1
        /\ call[t].op = "halt" => held[t] >= 3
    BY DEF Shape
  <2> QED  BY <1>4, <2>1, <2>2, <2>3, Takers, OthersInShape
<1>5. CASE CountExhausted(t)
  <2>1. /\ call'[t] \in Call /\ call'[t].op = "halt" /\ held'[t] = 3
        /\ OthersStand(t) /\ call' = [u \in Txn |-> call'[u]] /\ held' = held
    BY <1>5, Counters
  <2>2. held' = [u \in Txn |-> held'[u]]
    BY <2>1 DEF Shape
  <2>3. held'[t] <= Len(Locks(call'[t]))
    BY <2>1, BatchLocks DEF SweepOp
  <2> QED  BY <2>1, <2>2, <2>3, OthersInShape
<1> QED  BY <1>1, <1>2, <1>3, <1>4, <1>5 DEF SessionStep, Advance

\* Every step of a session keeps the locks exclusive.
LEMMA ExclusiveStep ==
    ASSUME TypeOK, Shape, Exclusive, NEW t \in Txn, SessionStep(t)
    PROVE  Exclusive'
<1>0. \A u \in Txn \ {t} : Taken(u)' \subseteq Taken(u)
  BY ShapeStep, OthersKept
<1>1. CASE TurnAway(t) \/ Commit(t) \/ Refuse(t) \/ DeadlockAbort(t)
  <2>1. Taken(t)' = {}
    BY <1>1, Enders DEF Ends, Taken
  <2> QED  BY <1>0, <2>1, ExclusiveKept
<1>2. CASE BeginParty(t) \/ BeginClose(t)
  <2>1. held'[t] = 0
    BY <1>2, Beginners
  <2>2. Taken(t)' = {}
    BY <2>1 DEF Taken
  <2> QED  BY <1>0, <2>2, ExclusiveKept
<1>3. CASE BeginSweep(t)
  <2> DEFINE r == call'[t]
  <2>1. /\ r \in Call /\ r.op \in SweepOp /\ held'[t] = 1
        /\ \A p \in r.batch : Blockers(t, Alone({<<"invitation", p>>})) = {}
    BY <1>3, Sweeps DEF Call, SweepOp
  <2>2. Taken(t)' \subseteq {BatchLock(r)}
    <3>1. Locks(r)[1] = BatchLock(r)
      BY <2>1, BatchLocks
    <3>2. Taken(t)' \subseteq {Locks(r)[i] : i \in 1..held'[t]}
      BY DEF Taken
    <3>3. 1..held'[t] = {1}
      BY <2>1
    <3>4. Taken(t)' \subseteq {Locks(r)[i] : i \in {1}}
      BY <3>2, <3>3, Zenon
    <3> HIDE DEF r
    <3>5. {Locks(r)[i] : i \in {1}} = {Locks(r)[1]}
      OBVIOUS
    <3> QED  BY <3>1, <3>4, <3>5, Zenon
  <2>3. Blockers(t, BatchLock(r)) = {}
    <3> SUFFICES ASSUME NEW u \in Txn \ {t}, NEW l \in Taken(u),
                        NEW row \in l.rows, row \in BatchLock(r).rows
                 PROVE  FALSE
      BY DEF Blockers
    <3>1. PICK p \in r.batch : row = <<"invitation", p>>
      BY DEF BatchLock, Alone
    <3>2. u \in Blockers(t, Alone({<<"invitation", p>>}))
      BY <3>1 DEF Blockers, Alone
    <3> QED  BY <2>1, <3>2
  <2> DEFINE new == {BatchLock(r)}
  <2>4. Taken(t)' \subseteq Taken(t) \cup new /\ \A l \in new : Blockers(t, l) = {}
    BY <2>2, <2>3
  <2> HIDE DEF new
  <2> QED  BY <1>0, <2>4, ExclusiveKept
<1>4. CASE TakeLock(t)
  <2> DEFINE n == Locks(call[t])[held[t] + 1]
  <2>1. /\ call' = call /\ held'[t] = held[t] + 1 /\ Blockers(t, n) = {}
        /\ call[t] # NoCall
    BY <1>4, Takers, CallShapes
  <2>2. held[t] \in Nat
    BY DEF Shape
  <2>3. Taken(t)' \subseteq Taken(t) \cup {n}
    <3>1. \A i \in 1..(held[t] + 1) : i \in 1..held[t] \/ i = held[t] + 1
      BY <2>2
    <3>2. Taken(t)' = {Locks(call[t])[i] : i \in 1..(held[t] + 1)}
      BY <2>1 DEF Taken
    <3>3. Taken(t) = {Locks(call[t])[i] : i \in 1..held[t]}
      BY <2>1 DEF Taken
    <3> DEFINE F(i) == Locks(call[t])[i]
               k == held[t]
    <3>4. {F(i) : i \in 1..(k + 1)} \subseteq {F(i) : i \in 1..k} \cup {F(k + 1)}
      <4> HIDE DEF F, k
      <4> QED  BY <3>1 DEF k
    <3> QED  BY <3>2, <3>3, <3>4
  <2> DEFINE new == {n}
  <2>4. Taken(t)' \subseteq Taken(t) \cup new /\ \A l \in new : Blockers(t, l) = {}
    BY <2>1, <2>3
  <2> HIDE DEF new
  <2> QED  BY <1>0, <2>4, ExclusiveKept
<1>5. CASE CountExhausted(t)
  <2> DEFINE r == call[t]
             q == call'[t]
  <2>1. /\ r \in Call /\ r.op \in SweepOp /\ q \in Call /\ q.op \in SweepOp
        /\ q.batch = r.batch /\ held[t] = 3 /\ held'[t] = 3
    BY <1>5, Counters DEF SweepOp
  <2>2. BatchLock(q) = BatchLock(r) /\ BatchRef(q) = BatchRef(r)
    BY <2>1 DEF BatchLock, BatchRef
  <2>3. \A i \in 1..3 : Locks(q)[i] = Locks(r)[i]
    <3> HIDE DEF q, r
    <3>1. Locks(q)[1] = Locks(r)[1]
      BY <2>1, <2>2, BatchLocks
    <3>2. Locks(q)[2] = Locks(r)[2]
      BY <2>1, BatchLocks
    <3>3. Locks(q)[3] = Locks(r)[3]
      BY <2>1, <2>2, BatchLocks
    <3> QED  BY <3>1, <3>2, <3>3
  <2>4. r # NoCall /\ q # NoCall
    BY <2>1, CallShapes
  <2>5. Taken(t)' = Taken(t)
    BY <2>1, <2>3, <2>4 DEF Taken
  <2> DEFINE new == {}
  <2>6. Taken(t)' \subseteq Taken(t) \cup new /\ \A l \in new : Blockers(t, l) = {}
    BY <2>5
  <2> HIDE DEF new
  <2> QED  BY <1>0, <2>6, ExclusiveKept
<1> QED  BY <1>1, <1>2, <1>3, <1>4, <1>5 DEF SessionStep, Advance

-----------------------------------------------------------------------------
(* What a call read still holds. *)

\* What a session read about rows that stand, while another one works.
LEMMA OthersChecked ==
    ASSUME TypeOK, Shape, NEW t \in Txn, OthersStand(t),
           NEW u \in Txn \ {t}, Checked(u),
           \A p \in Party : Holds(u, <<"invitation", p>>) =>
              inv'[p] = inv[p] /\ (p \in due' <=> p \in due),
           call[u].op = "view" => (call[u].party \in due' => call[u].party \in due),
           call[u].op = "halt" => UNCHANGED <<inv, roster>>
    PROVE  Checked(u)'
<1>1. CASE call[u] = NoCall
  <2>1. call'[u] = NoCall
    BY <1>1, OthersKept
  <2> QED  BY <2>1 DEF Checked, NoCall, SweepOp
<1>2. CASE call[u] # NoCall
  <2> DEFINE r == call[u]
             q == call'[u]
  <2>1. /\ r \in Call /\ q \in Call /\ q.op = r.op /\ held'[u] = held[u]
        /\ r.op \in PartyOp => q.party = r.party /\ r.party \in Party
        /\ r.op \in SweepOp => q = r /\ r.batch \subseteq Party
    <3>1. r \in Call /\ q # NoCall /\ held'[u] = held[u]
      BY <1>2, OthersKept DEF Shape, OthersStand
    <3> QED  BY <3>1, OthersKept, CallShapes
  <2>2. CASE r.op \in Answer
    <3>1. held[u] >= 1 =>
             /\ inv'[r.party] = inv[r.party]
             /\ r.party \in due' <=> r.party \in due
      BY <1>2, <2>1, <2>2, HoldsRows DEF PartyOp
    <3> QED
      BY <2>1, <2>2, <3>1
      DEF Checked, Answer, PartyOp, SweepOp, Usable, Cancellable, Open
  <2>3. CASE r.op = "resend"
    <3>1. held[u] >= 2 => inv'[r.party] = inv[r.party]
      BY <1>2, <2>1, <2>3, HoldsRows DEF PartyOp
    <3> QED  BY <2>1, <2>3, <3>1 DEF Checked, PartyOp, SweepOp, Renewable
  <2>4. CASE r.op = "view"
    BY <2>1, <2>4 DEF Checked, PartyOp, SweepOp
  <2>5. CASE r.op \in SweepOp
    <3>1. \A p \in r.batch : inv'[p] = inv[p] /\ (p \in due' <=> p \in due)
      BY <1>2, <2>1, <2>5, HoldsRows
    <3>2. r.batch # {} /\ \A p \in r.batch : p \in due /\ Selected(p)
      BY <2>5 DEF Checked
    <3>3. CASE r.op = "expire"
      BY <2>1, <2>5, <3>1, <3>2, <3>3 DEF Checked, SweepOp, Selected, Open
    <3>4. CASE r.op = "halt"
      <4>1. call'[u] = call[u] /\ inv' = inv /\ roster' = roster
        BY <2>1, <2>5, <3>4
      <4>2. r.halts = {c \in Contract : ExhaustedSteps(c, r.batch) # {}}
        BY <3>4 DEF Checked
      <4> QED
        BY <3>1, <3>2, <3>4, <4>1, <4>2
        DEF Checked, SweepOp, Selected, Open, ExhaustedSteps, Outstanding,
            PartiesAt
    <3> QED  BY <2>5, <3>3, <3>4 DEF SweepOp
  <2>6. CASE r.op = "close"
    BY <2>1, <2>6 DEF Checked, SweepOp
  <2> QED  BY <2>1, <2>2, <2>3, <2>4, <2>5, <2>6, CallShapes DEF PartyOp
<1> QED  BY <1>1, <1>2

\* A session that writes nothing.
LEMMA QuietChecked ==
    ASSUME TypeOK, Shape, AllChecked, NEW t \in Txn, OthersStand(t),
           UNCHANGED vars, Checked(t)'
    PROVE  AllChecked'
<1>1. ASSUME NEW u \in Txn \ {t} PROVE Checked(u)'
  BY OthersChecked DEF AllChecked, vars
<1> QED  BY <1>1 DEF AllChecked

\* A commit disturbs nothing that another session has checked.
LEMMA CommitChecked ==
    ASSUME TypeOK, Shape, Exclusive, AllChecked, NEW t \in Txn, Commit(t)
    PROVE  AllChecked'
<1> DEFINE r == call[t]
<1>1. Ready(t) /\ Write(r) /\ OthersStand(t) /\ call'[t] = NoCall
  BY Enders DEF Commit, Ends
<1>2. /\ r \in Call /\ r.op \in PartyOp \cup {"halt", "close"}
      /\ Holds(t, <<"audit">>)
      /\ \A p \in Touched(r) : Holds(t, <<"invitation", p>>)
  BY <1>1, ReadyHolds DEF Touched
<1>3. /\ roster' = roster /\ due' \subseteq due
      /\ \A p \in Party \ Touched(r) :
            inv'[p] = inv[p] /\ (p \in due' <=> p \in due)
  BY <1>1, <1>2, WriteFrame
<1>4. Checked(t)'
  BY <1>1 DEF Checked, NoCall, SweepOp
<1>5. ASSUME NEW u \in Txn \ {t} PROVE Checked(u)'
  <2>1. Checked(u)
    BY DEF AllChecked
  <2>2. \A p \in Party : Holds(u, <<"invitation", p>>) =>
           inv'[p] = inv[p] /\ (p \in due' <=> p \in due)
    BY <1>2, <1>3, OneHolder
  <2>3. call[u].op # "halt"
    <3>1. ASSUME call[u].op = "halt" PROVE FALSE
      <4>1. call[u] # NoCall
        BY <3>1 DEF NoCall
      <4>2. Holds(u, <<"audit">>)
        BY <3>1, <4>1, HoldsRows
      <4> QED  BY <1>2, <4>2, OneHolder
    <3> QED  BY <3>1
  <2> QED  BY <1>1, <1>3, <2>1, <2>2, <2>3, OthersChecked
<1> QED  BY <1>4, <1>5 DEF AllChecked

\* What the check on a locked invitation establishes.
LEMMA AdmittedParts ==
    ASSUME NEW r \in Call, Admitted(r)
    PROVE  /\ r.op \in {"sign", "decline"} => Usable(r.party)
           /\ r.op = "cancel" => Cancellable(r.party)
           /\ r.op = "resend" => inv[r.party] \in Renewable
<1>1. CASE r.op \in {"sign", "decline"}
  BY <1>1, Zenon DEF Admitted
<1>2. CASE r.op = "cancel"
  BY <1>2, Zenon DEF Admitted
<1>3. CASE r.op = "resend"
  BY <1>3, Zenon DEF Admitted
<1> QED  BY <1>1, <1>2, <1>3

\* Every step of a session keeps what the sessions have checked.
LEMMA CheckedStep ==
    ASSUME TypeOK, Shape, Exclusive, AllChecked, NEW t \in Txn, SessionStep(t)
    PROVE  AllChecked'
<1>0. OthersStand(t)
  BY ShapeStep
<1>1. CASE TurnAway(t) \/ Refuse(t) \/ DeadlockAbort(t)
  <2>1. UNCHANGED vars
    BY <1>1 DEF TurnAway, Refuse, DeadlockAbort
  <2>2. call'[t] = NoCall
    BY <1>1, Enders DEF Ends
  <2>3. Checked(t)'
    BY <2>2 DEF Checked, NoCall, SweepOp
  <2> QED  BY <1>0, <2>1, <2>3, QuietChecked
<1>2. CASE Commit(t)
  BY <1>2, CommitChecked
<1>3. CASE BeginParty(t) \/ BeginClose(t)
  <2>1. UNCHANGED vars
    BY <1>3 DEF BeginParty, BeginClose, Begin
  <2>2. /\ call'[t] \in PartyCall \cup CloseCall /\ held'[t] = 0
        /\ call'[t].op = "view" => call'[t].party \notin due
    BY <1>3, Beginners
  <2>3. call'[t].op \notin SweepOp
    BY <2>2 DEF PartyCall, CloseCall, SweepOp
  <2>4. Checked(t)'
    BY <2>1, <2>2, <2>3 DEF Checked, SweepOp, vars
  <2> QED  BY <1>0, <2>1, <2>4, QuietChecked
<1>4. CASE BeginSweep(t)
  <2>1. UNCHANGED vars
    BY <1>4 DEF BeginSweep
  <2>2. /\ call'[t].op = "expire" /\ call'[t].batch # {}
        /\ \A p \in call'[t].batch : p \in due /\ Selected(p)
    BY <1>4, Sweeps
  <2>3. \A p \in call'[t].batch : p \in due' /\ Selected(p)'
    BY <2>1, <2>2 DEF Selected, Open, vars
  <2>4. Checked(t)'
    BY <2>2, <2>3 DEF Checked, SweepOp
  <2> QED  BY <1>0, <2>1, <2>4, QuietChecked
<1>5. CASE CountExhausted(t)
  <2> DEFINE r == call[t]
             q == call'[t]
  <2>1. /\ r.op = "expire" /\ q.op = "halt" /\ q.batch = r.batch
        /\ q.halts = {c \in Contract : ExhaustedSteps(c, r.batch) # {}}
        /\ UNCHANGED vars
    BY <1>5, Counters
  <2>2. r.batch # {} /\ \A p \in r.batch : p \in due /\ Selected(p)
    BY <2>1 DEF AllChecked, Checked, SweepOp
  <2>3. \A p \in q.batch : p \in due' /\ Selected(p)'
    BY <2>1, <2>2 DEF Selected, Open, vars
  <2>4. q.halts = {c \in Contract : ExhaustedSteps(c, q.batch) # {}}
    BY <2>1, Zenon
  <2>5. inv' = inv /\ roster' = roster
    BY <2>1 DEF vars
  <2>6. (call[t].halts = {c \in Contract : ExhaustedSteps(c, call[t].batch) # {}})'
    <3>1. PICK b : b = q.batch
      OBVIOUS
    <3>2. PICK h : h = q.halts
      OBVIOUS
    <3>3. h = {c \in Contract : ExhaustedSteps(c, b) # {}}
      BY <2>4, <3>1, <3>2, Zenon
    <3>4. (h = {c \in Contract : ExhaustedSteps(c, b) # {}})'
      BY <2>5, <3>3 DEF ExhaustedSteps, Outstanding, PartiesAt
    <3> QED
      BY <3>1, <3>2, <3>4, Zenon DEF ExhaustedSteps, Outstanding, PartiesAt
  <2>7. Checked(t)'
    <3>1. /\ q.op = "halt" /\ q.batch # {}
          /\ \A p \in q.batch : p \in due' /\ Selected(p)'
      BY <2>1, <2>2, <2>3
    <3> QED  BY <2>6, <3>1 DEF Checked, SweepOp, ExhaustedSteps, Outstanding,
                               PartiesAt, Selected, Open
  <2> QED  BY <1>0, <2>1, <2>7, QuietChecked
<1>6. CASE TakeLock(t)
  <2> DEFINE r == call[t]
  <2>1. /\ call'[t] = r /\ held'[t] = held[t] + 1 /\ r \in Call
        /\ held[t] \in Nat /\ Checked(t)
        /\ TakesInvitation(t) => Admitted(r)
        /\ UNCHANGED vars
    BY <1>6, Takers DEF Shape, AllChecked
  <2>2. r.op \in Answer /\ held[t] = 0 => Admitted(r)
    <3> SUFFICES ASSUME r.op \in Answer, held[t] = 0
                 PROVE  TakesInvitation(t)
      BY <2>1
    <3>1. NextLock(t) = InvitationLock(r)
      BY <2>1, AnswerLocks DEF NextLock
    <3>2. <<"invitation", r.party>> \in NextLock(t).rows
      BY <3>1 DEF InvitationLock, Alone
    <3>3. <<"invitation", r.party>>[1] = "invitation"
      OBVIOUS
    <3> QED  BY <3>2, <3>3, Zenon DEF TakesInvitation
  <2>3. r.op = "resend" /\ held[t] = 1 => Admitted(r)
    <3> SUFFICES ASSUME r.op = "resend", held[t] = 1
                 PROVE  TakesInvitation(t)
      BY <2>1
    <3>1. NextLock(t) = InvitationLock(r)
      BY <2>1, ResendLocks DEF NextLock
    <3>2. <<"invitation", r.party>> \in NextLock(t).rows
      BY <3>1 DEF InvitationLock, Alone
    <3>3. <<"invitation", r.party>>[1] = "invitation"
      OBVIOUS
    <3> QED  BY <3>2, <3>3, Zenon DEF TakesInvitation
  <2>4. /\ r.op \in {"sign", "decline"} => Usable(r.party)
        /\ r.op = "cancel" => Cancellable(r.party)
        /\ r.op = "resend" /\ held[t] >= 1 => inv[r.party] \in Renewable
    BY <2>1, <2>2, <2>3, AdmittedParts DEF Answer, Checked
  <2>5. Checked(t)'
    BY <2>1, <2>4
    DEF Checked, Usable, Cancellable, Selected, Open, vars, ExhaustedSteps,
        Outstanding, PartiesAt
  <2> QED  BY <1>0, <2>1, <2>5, QuietChecked
<1> QED
  BY <1>1, <1>2, <1>3, <1>4, <1>5, <1>6 DEF SessionStep, Advance

\* A clock that no call on the invitation sees.
LEMMA TickKeeps ==
    ASSUME TypeOK, Shape, Exclusive, AllChecked, NEW p \in Party, Tick(p)
    PROVE  Shape' /\ Exclusive' /\ AllChecked'
<1>1. /\ call' = call /\ held' = held /\ inv' = inv /\ roster' = roster
      /\ due' = due \cup {p}
      /\ \A t \in Txn : call[t] \in PartyCall => call[t].party # p
  BY DEF Tick, RunOut
<1>2. Shape'
  BY <1>1 DEF Shape
<1>3. Exclusive'
  BY <1>1 DEF Exclusive, Blockers, Taken
<1>4. ASSUME NEW t \in Txn PROVE Checked(t)'
  <2>1. call[t].op \in PartyOp => call[t].party # p
    <3>1. call[t] = NoCall => call[t].op \notin PartyOp
      BY DEF NoCall, PartyOp, Answer
    <3> QED  BY <1>1, <3>1, CallShapes DEF Shape
  <2>2. Checked(t)
    BY DEF AllChecked
  <2> QED
    BY <1>1, <2>1, <2>2
    DEF Checked, PartyOp, Answer, SweepOp, Usable, Cancellable, Selected, Open,
        Renewable, ExhaustedSteps, Outstanding, PartiesAt
<1> QED  BY <1>2, <1>3, <1>4 DEF AllChecked

\* The invariant holds when the calls start, and every step keeps it.
LEMMA LInvInit == LocksInit => LInv
<1> SUFFICES ASSUME LocksInit PROVE LInv
  OBVIOUS
<1> USE PartyAssumption
<1>1. TypeOK
  BY DEF LocksInit, TypeOK, InvitationStatus, ContractState
<1>2. Shape
  BY DEF LocksInit, Shape, NoCall
<1>3. \A t \in Txn : Taken(t) = {}
  BY DEF LocksInit, Taken
<1>4. Exclusive
  BY <1>3 DEF Exclusive
<1>5. AllChecked
  BY DEF LocksInit, AllChecked, Checked, NoCall, SweepOp
<1> QED  BY <1>1, <1>2, <1>4, <1>5 DEF LInv

\* The rows stay well typed through it.
LEMMA LInvNext ==
    ASSUME LInv, Invited, [LocksNext]_lvars
    PROVE  LInv' /\ Invited'
<1>1. [Next]_vars
  BY StepIsAtomic
<1>2. TypeOK' /\ Invited'
  BY <1>1, TypeNext, InvitedNext DEF LInv
<1>3. CASE UNCHANGED lvars
  <2>1. /\ call' = call /\ held' = held /\ inv' = inv /\ roster' = roster
        /\ due' = due
    BY <1>3 DEF lvars
  <2>4. Shape /\ Exclusive
    BY DEF LInv
  <2>5. Shape'
    BY <2>1, <2>4 DEF Shape
  <2>2. Exclusive'
    BY <2>1, <2>4 DEF Exclusive, Blockers, Taken
  <2>3. ASSUME NEW t \in Txn PROVE Checked(t)'
    <3>1. Checked(t)
      BY DEF LInv, AllChecked
    <3> QED
      BY <2>1, <3>1
      DEF Checked, SweepOp, Usable, Cancellable, Selected, Open, Renewable,
          ExhaustedSteps, Outstanding, PartiesAt
  <2> QED  BY <1>2, <2>2, <2>3, <2>5 DEF LInv, AllChecked
<1>4. ASSUME NEW t \in Txn, SessionStep(t)
      PROVE  LInv' /\ Invited'
  BY <1>2, <1>4, ShapeStep, ExclusiveStep, CheckedStep DEF LInv
<1>5. ASSUME NEW p \in Party, Tick(p)
      PROVE  LInv' /\ Invited'
  BY <1>2, <1>5, TickKeeps DEF LInv
<1> QED  BY <1>3, <1>4, <1>5 DEF LocksNext, SessionStep

\* Every nonempty set of step orders has a first one.
LEMMA Least ==
    ASSUME NEW S, S \subseteq Nat, S # {}
    PROVE  \E m \in S : \A n \in S : m <= n
<1>1. PICK m \in S : \A n \in S : ~(<<n, m>> \in OpToRel(<, Nat))
  BY NatLessThanWellFounded, WFMin
<1>2. \A n \in S : ~(n < m)
  BY <1>1 DEF OpToRel
<1> QED  BY <1>2

\* A contract that was sent has a required party on its first step.
LEMMA SentHasSigner ==
    ASSUME LocksInit, NEW c \in Contract
    PROVE  \E p \in RequiredOf(c) : inv[p] = "pending"
<1> USE PartyAssumption
<1>1. roster = Party
  BY DEF LocksInit
<1> DEFINE S == {StepOf[p] : p \in RequiredOf(c)}
<1>2. S \subseteq Nat /\ S # {}
  BY <1>1, SentAssumption DEF RequiredOf
<1>3. PICK m \in S : \A n \in S : m <= n
  BY <1>2, Least
<1>4. PICK p \in RequiredOf(c) : StepOf[p] = m
  OBVIOUS
<1>5. p \in Party /\ ContractOf[p] = c
  BY <1>4 DEF RequiredOf
<1>6. FirstStep(c, StepOf[p])
  BY <1>3, <1>4 DEF FirstStep
<1> QED  BY <1>4, <1>5, <1>6 DEF LocksInit

\* The ceremony's invariant holds when the calls start.
LEMMA SentInit == LocksInit => IInv
<1> SUFFICES ASSUME LocksInit PROVE IInv
  OBVIOUS
<1> USE PartyAssumption
<1>1. TypeOK
  BY LInvInit DEF LInv
<1>2. Invited
  BY DEF LocksInit, Invited, FirstStep
<1>3. RefusalIsFinal
  BY DEF LocksInit, RefusalIsFinal, RequiredOf
<1>4. AwaitingHasSigner
  BY SentHasSigner DEF AwaitingHasSigner
<1> QED  BY <1>1, <1>2, <1>3, <1>4 DEF IInv

\* The invariant holds always.
LEMMA LocksInductive == LocksSpec => [](LInv /\ Invited)
<1>1. LocksInit => LInv /\ Invited
  BY LInvInit, SentInit DEF IInv
<1>2. LInv /\ Invited /\ [LocksNext]_lvars => (LInv /\ Invited)'
  BY LInvNext
<1> QED  BY <1>1, <1>2, PTL DEF LocksSpec

\* For any number of sessions, sweepers, contracts and parties, and however
\* their locks interleave, every commit is one operation of the ceremony on the
\* state it commits to.
THEOREM SigningIsAtomic == LocksSpec => EveryCommitIsAtomic
<1>1. LInv /\ [LocksNext]_lvars => [Next]_vars
  BY StepIsAtomic
<1>2. [Next]_vars => [UNCHANGED vars \/ Next]_vars
  OBVIOUS
<1> QED  BY <1>1, <1>2, LocksInductive, PTL DEF LocksSpec, EveryCommitIsAtomic

\* However the calls interleave, a contract that awaits its employers has one
\* who still can sign or did.
THEOREM SweepsHaltExhausted == LocksSpec => []ExhaustedIsHalted
<1>1. IInv /\ [Next]_vars => IInv'
  BY TypeNext, InvitedNext, RefusalNext, AwaitingNext DEF IInv
<1>2. LInv /\ [LocksNext]_lvars => [Next]_vars
  BY StepIsAtomic
<1>3. IInv => ExhaustedIsHalted
  BY DEF IInv, AwaitingHasSigner, ExhaustedIsHalted
<1> QED  BY <1>1, <1>2, <1>3, SentInit, LocksInductive, PTL DEF LocksSpec

-----------------------------------------------------------------------------
(* The order of the locks. *)

\* The kinds of rows, in the order of S2-17.
Rank(kind) == CASE kind = "invitation" -> 0
                [] kind = "contract"   -> 1
                [] kind = "party"      -> 2
                [] kind = "audit"      -> 3

\* The order in which the kinds of rows are locked.
LEMMA Ranks == /\ Rank("invitation") = 0 /\ Rank("contract") = 1
               /\ Rank("party") = 2 /\ Rank("audit") = 3
BY Zenon DEF Rank

\* The kind a call waits for that answers an invitation or closes a contract.
Waits(t) == IF call[t].op = "close" THEN IF held[t] = 0 THEN 1 ELSE 3
            ELSE held[t]

\* The kind of row that each lock names.
LEMMA LockRows ==
    ASSUME NEW r
    PROVE  /\ \A row \in InvitationLock(r).rows : Rank(row[1]) = 0
           /\ \A row \in ContractLock(r).rows : Rank(row[1]) = 1
           /\ \A row \in PartyLock(r).rows : Rank(row[1]) = 2
           /\ \A row \in CloseLock(r).rows : Rank(row[1]) = 1
           /\ \A row \in Audit.rows : Rank(row[1]) = 3
<1>1. ASSUME NEW x
      PROVE  /\ Rank(<<"invitation", x>>[1]) = 0 /\ Rank(<<"contract", x>>[1]) = 1
             /\ Rank(<<"party", x>>[1]) = 2 /\ Rank(<<"audit">>[1]) = 3
  BY Ranks
<1> QED
  BY <1>1
  DEF InvitationLock, ContractLock, PartyLock, CloseLock, Audit, Alone

\* Such a call waits for a kind of row that comes after the ones it holds.
LEMMA InOrder ==
    ASSUME Shape, NEW t \in Txn, call[t].op \in Answer \cup {"close"}, HasNext(t)
    PROVE  /\ Waits(t) \in 0..3
           /\ \A row \in NextLock(t).rows : Rank(row[1]) = Waits(t)
           /\ \A l \in Taken(t) : \A row \in l.rows :
                 Rank(row[1]) \in 0..3 /\ Rank(row[1]) < Waits(t)
<1> DEFINE r == call[t]
<1>1. r \in Call /\ held[t] \in Nat /\ held[t] < Len(Locks(r))
  BY DEF Shape, HasNext
<1>2. \A l \in Taken(t) : \E i \in 1..held[t] : l = Locks(r)[i]
  BY DEF Taken
<1>3. CASE r.op \in Answer
  <2>0. Len(Locks(r)) = 4
    BY <1>1, <1>3, AnswerLocks
  <2>4. held[t] \in 0..3
    BY <1>1, <2>0
  <2>1. held[t] \in 0..3 /\ Waits(t) = held[t]
    BY <1>3, <2>4 DEF Waits, Answer
  <2>2. ASSUME NEW row \in NextLock(t).rows PROVE Rank(row[1]) = held[t]
    <3>1. /\ held[t] = 0 => NextLock(t) = InvitationLock(r)
          /\ held[t] = 1 => NextLock(t) = ContractLock(r)
          /\ held[t] = 2 => NextLock(t) = PartyLock(r)
          /\ held[t] = 3 => NextLock(t) = Audit
      BY <1>1, <1>3, AnswerLocks DEF NextLock
    <3> QED  BY <2>1, <2>2, <3>1, LockRows
  <2>3. ASSUME NEW l \in Taken(t), NEW row \in l.rows
        PROVE  Rank(row[1]) \in 0..3 /\ Rank(row[1]) < held[t]
    <3>1. PICK i \in 1..held[t] : l = Locks(r)[i]
      BY <1>2
    <3>2. /\ i = 1 => l = InvitationLock(r)
          /\ i = 2 => l = ContractLock(r)
          /\ i = 3 => l = PartyLock(r)
      BY <1>1, <1>3, <3>1, AnswerLocks
    <3>3. i = 1 \/ i = 2 \/ i = 3
      BY <2>1, <3>1
    <3>4. Rank(row[1]) = i - 1
      BY <2>3, <3>2, <3>3, LockRows
    <3> QED  BY <2>1, <3>1, <3>4
  <2> QED  BY <2>1, <2>2, <2>3
<1>4. CASE r.op = "close"
  <2>0. Len(Locks(r)) = 2
    BY <1>1, <1>4, CloseLocks
  <2>1. held[t] = 0 \/ held[t] = 1
    BY <1>1, <2>0
  <2>2. Waits(t) = IF held[t] = 0 THEN 1 ELSE 3
    BY <1>4 DEF Waits
  <2>3. ASSUME NEW row \in NextLock(t).rows PROVE Rank(row[1]) = Waits(t)
    <3>1. /\ held[t] = 0 => NextLock(t) = CloseLock(r)
          /\ held[t] = 1 => NextLock(t) = Audit
      BY <1>1, <1>4, CloseLocks DEF NextLock
    <3> QED  BY <2>1, <2>2, <2>3, <3>1, LockRows
  <2>4. ASSUME NEW l \in Taken(t), NEW row \in l.rows
        PROVE  Rank(row[1]) \in 0..3 /\ Rank(row[1]) < Waits(t)
    <3>1. PICK i \in 1..held[t] : l = Locks(r)[i]
      BY <1>2
    <3>2. i = 1 /\ held[t] = 1
      BY <2>1, <3>1
    <3>3. l = CloseLock(r)
      BY <1>1, <1>4, <3>1, <3>2, CloseLocks
    <3>4. Rank(row[1]) = 1
      BY <2>4, <3>3, LockRows
    <3> QED  BY <2>2, <3>2, <3>4
  <2> QED  BY <2>1, <2>2, <2>3, <2>4
<1> QED  BY <1>3, <1>4

\* Sessions that take their locks in the order of the kinds wait in no circle.
LEMMA NoCycle == Shape => LockOrderKept
<1> SUFFICES ASSUME Shape, NEW D \in SUBSET Txn, Deadlock(D),
                    \A t \in D : call[t].op \notin {"view", "resend", "expire", "halt"}
             PROVE  FALSE
  BY DEF LockOrderKept
<1>1. \A t \in D : \E u \in D : HasNext(t) /\ u \in Blockers(t, NextLock(t))
  BY DEF Deadlock, Cyclic, WaitsFor
<1>2. ASSUME NEW t \in D
      PROVE  call[t].op \in Answer \cup {"close"} /\ HasNext(t)
  <2>1. HasNext(t) /\ call[t] \in Call
    BY <1>1 DEF HasNext, Shape
  <2> QED  BY <2>1, CallShapes DEF PartyOp, SweepOp
<1>3. ASSUME NEW t \in D
      PROVE  \E u \in D : /\ Waits(u) \in 0..3 /\ Waits(t) \in 0..3
                          /\ Waits(t) < Waits(u)
  <2>1. PICK u \in D : u \in Blockers(t, NextLock(t))
    BY <1>1
  <2>2. PICK l \in Taken(u) : l.rows \cap NextLock(t).rows # {}
    BY <2>1 DEF Blockers
  <2>3. PICK row \in l.rows : row \in NextLock(t).rows
    BY <2>2
  <2>4. Rank(row[1]) = Waits(t) /\ Waits(t) \in 0..3
    BY <1>2, <2>3, InOrder
  <2>5. Rank(row[1]) < Waits(u) /\ Waits(u) \in 0..3
    BY <1>2, <2>3, InOrder
  <2> QED  BY <2>4, <2>5
<1>4. \A t \in D : Waits(t) # 3
  BY <1>3
<1>5. \A t \in D : Waits(t) # 2
  BY <1>3, <1>4
<1>6. \A t \in D : Waits(t) # 1
  BY <1>3, <1>4, <1>5
<1>7. D = {}
  BY <1>3, <1>4, <1>5, <1>6
<1> QED  BY <1>7 DEF Deadlock, Cyclic

\* However many sessions sign, refuse, cancel and close, they never wait for
\* each other in a circle.
THEOREM AnswersDoNotDeadlock == LocksSpec => []LockOrderKept
<1>1. LInv => LockOrderKept
  BY NoCycle DEF LInv
<1> QED  BY <1>1, LocksInductive, PTL

\* What is proved of the ceremony holds of its transactions: refusals, executed
\* contracts and the answers given, however the calls interleave.
THEOREM SigningKeepsTheCeremony ==
    LocksSpec => [](RefusalIsFinal /\ ExecutedIsCovered) /\ AnswersStay
<1>1. IInv /\ [Next]_vars => IInv'
  BY TypeNext, InvitedNext, RefusalNext, AwaitingNext DEF IInv
<1>2. LInv /\ [LocksNext]_lvars => [Next]_vars
  BY StepIsAtomic
<1>3. LocksInit => ExecutedIsCovered
  BY DEF LocksInit, ExecutedIsCovered
<1>4. IInv /\ ExecutedIsCovered /\ [Next]_vars => ExecutedIsCovered'
  BY CoveredNext DEF IInv
<1>5. IInv /\ [Next]_vars =>
        [\A p \in Party :
            inv[p] \in {"signed", "declined"} => inv'[p] = inv[p]]_vars
  BY AnswersStand DEF IInv
<1>6. IInv => RefusalIsFinal
  BY DEF IInv
<1> QED
  BY <1>1, <1>2, <1>3, <1>4, <1>5, <1>6, SentInit, LocksInductive, PTL
  DEF LocksSpec, AnswersStay
====
