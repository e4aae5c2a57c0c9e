----------------------- MODULE ContractEngines_proofs -----------------------
(***************************************************************************)
(* Proofs about ContractEngines: what the approval engine promises of its  *)
(* own also holds when the signature ceremony moves the same contracts,    *)
(* and the two together implement ContractLifecycle.                       *)
(***************************************************************************)
EXTENDS ContractEngines, ApprovalChain_proofs

Signing == {"awaiting_signature_employer", "awaiting_signature_counterparty"}

\* Before its approval a contract has not been sent to anybody.
Early == {"draft", "in_review", "in_approval", "resubmission_requested"}
SentAfterApproval ==
    /\ inv \in [Party -> {"none", "pending", "viewed", "signed", "declined",
                          "expired", "cancelled"}]
    /\ \A p \in Party : inv[p] # "none" => status[ContractOf[p]] \notin Early

\* What a step of the ceremony may do to the contracts.
Moved(c, new) ==
    /\ <<status[c], new>> \in InternalTransitions
    /\ status[c] \in Signing \cup {"approved"}
    /\ c \in live
    /\ status' = [status EXCEPT ![c] = new]
Halted(C) ==
    /\ \A c \in C : c \in live /\ status[c] \in Signing
    /\ status' = [c \in Contract |-> IF c \in C THEN "expired" ELSE status[c]]
CeremonyMove ==
    /\ UNCHANGED live
    /\ \/ status' = status
       \/ \E c \in Contract, new \in ContractState : Moved(c, new)
       \/ \E C \in SUBSET Contract : Halted(C)

\* Both engines go by the tables of ContractStatus.
LEMMA Tables ==
    /\ Ceremony!ContractState = ContractState
    /\ Ceremony!InternalTransitions = InternalTransitions
    /\ Ceremony!UserTransitions = UserTransitions
BY DEF Ceremony!ContractState, ContractState, Ceremony!InternalTransitions,
       InternalTransitions, Ceremony!UserTransitions, UserTransitions,
       Ceremony!DrafterCancellable, DrafterCancellable,
       Ceremony!AdminCancellable, AdminCancellable

\* The ceremony's own status changes are among the moves of a contract.
LEMMA InternalMoves ==
    ASSUME NEW c \in Contract, NEW new, Ceremony!StatusUpdateInternal(c, new),
           status[c] # "in_approval"
    PROVE  new \in ContractState /\ Moved(c, new)
<1>1. <<status[c], new>> \in InternalTransitions /\ c \in live
      /\ status' = [status EXCEPT ![c] = new]
  BY Tables DEF Ceremony!StatusUpdateInternal
<1>2. status[c] \in Signing \cup {"approved"} /\ new \in ContractState
  BY <1>1 DEF InternalTransitions, Signing, ContractState
<1> QED  BY <1>1, <1>2 DEF Moved

\* A step of the ceremony is one of the cancellations that the engine knows, or a
\* move out of an approved contract.
LEMMA CeremonyStep ==
    ASSUME SentAfterApproval, Ceremony!Next, UNCHANGED <<chain, steps>>
    PROVE  Next \/ CeremonyMove
<1>1. ASSUME NEW c \in Contract, NEW new \in SUBSET Party,
             Ceremony!CreateParties(c, new)
      PROVE  CeremonyMove
  BY <1>1 DEF Ceremony!CreateParties, CeremonyMove
<1>2. ASSUME NEW c \in Contract, Ceremony!SendForSignature(c)
      PROVE  CeremonyMove
  <2>1. status[c] = "approved" /\ live' = live
        /\ Ceremony!StatusUpdateInternal(c, "awaiting_signature_employer")
    BY <1>2 DEF Ceremony!SendForSignature, Ceremony!CanSend
  <2>2. Moved(c, "awaiting_signature_employer")
        /\ "awaiting_signature_employer" \in ContractState
    BY <2>1, InternalMoves
  <2> QED  BY <2>1, <2>2 DEF CeremonyMove
<1>3. ASSUME NEW c \in Contract, NEW new \in ContractState,
             Ceremony!StatusUpdateUser(c, new)
      PROVE  Next
  BY <1>3, Tables DEF Ceremony!StatusUpdateUser, StatusUpdateUser, Next
<1>4. ASSUME NEW c \in Contract, Ceremony!DeleteContract(c)
      PROVE  Next
  BY <1>4 DEF Ceremony!DeleteContract, DeleteContract, Next
<1>5. ASSUME NEW p \in Party,
             Ceremony!Resend(p) \/ Ceremony!View(p) \/ Ceremony!RunOut(p)
      PROVE  CeremonyMove
  BY <1>5 DEF Ceremony!Resend, Ceremony!Renew, Ceremony!View, Ceremony!RunOut,
              CeremonyMove
<1>6. ASSUME NEW p \in Party, Ceremony!Open(p)
      PROVE  ContractOf[p] \in Contract /\ status[ContractOf[p]] # "in_approval"
  BY <1>6, RosterAssumption DEF Ceremony!Open, SentAfterApproval, Early
<1>7. ASSUME NEW p \in Party, Ceremony!CancelInvitation(p)
      PROVE  CeremonyMove
  <2>1. Ceremony!Open(p) /\ live' = live
        /\ (status' = status \/ Ceremony!StatusUpdateInternal(ContractOf[p], "approved"))
    BY <1>7 DEF Ceremony!CancelInvitation, Ceremony!Cancellable, Ceremony!RecordCancel
  <2> QED  BY <2>1, <1>6, InternalMoves DEF CeremonyMove
<1>8. ASSUME NEW p \in Party, Ceremony!Sign(p)
      PROVE  CeremonyMove
  <2>1. /\ Ceremony!Open(p) /\ live' = live
        /\ \/ status' = status
           \/ Ceremony!StatusUpdateInternal(ContractOf[p], "awaiting_signature_counterparty")
           \/ Ceremony!StatusUpdateInternal(ContractOf[p], "fully_signed")
    BY <1>8 DEF Ceremony!Sign, Ceremony!Usable, Ceremony!RecordSignature
  <2> QED  BY <2>1, <1>6, InternalMoves DEF CeremonyMove
<1>9. ASSUME NEW p \in Party, Ceremony!Decline(p)
      PROVE  CeremonyMove
  <2>1. /\ Ceremony!Open(p) /\ live' = live
        /\ \/ status' = status
           \/ Ceremony!StatusUpdateInternal(ContractOf[p], "rejected")
    BY <1>9 DEF Ceremony!Decline, Ceremony!Usable, Ceremony!RecordDecline
  <2> QED  BY <2>1, <1>6, InternalMoves DEF CeremonyMove
<1>10. ASSUME NEW batch \in SUBSET due, Ceremony!ExpireDue(batch)
       PROVE  CeremonyMove
  <2> DEFINE C == {c \in Contract : Ceremony!ExhaustedSteps(c, batch) # {}}
  <2>1. \A c \in C : Ceremony!HaltAllowed(c, batch)
    BY <1>10 DEF Ceremony!ExpireDue
  <2>2. ASSUME NEW c \in C
        PROVE  c \in live /\ status[c] \in Signing
    <3>1. c \in live /\ <<status[c], "expired">> \in InternalTransitions
      BY <2>1, Tables DEF Ceremony!HaltAllowed
    <3> QED  BY <3>1 DEF InternalTransitions, Signing
  <2>3. status' = [c \in Contract |-> IF c \in C THEN "expired" ELSE status[c]]
    BY <1>10 DEF Ceremony!ExpireDue
  <2>4. live' = live
    BY <1>10 DEF Ceremony!ExpireDue
  <2> QED  BY <2>2, <2>3, <2>4 DEF Halted, CeremonyMove
<1> QED
  BY <1>1, <1>2, <1>3, <1>4, <1>5, <1>7, <1>8, <1>9, <1>10, Tables
  DEF Ceremony!Next

\* Only invitations sent by the ceremony are new, and the contract is out then.
LEMMA Invitations ==
    ASSUME SentAfterApproval, Ceremony!Next, TypeOK
    PROVE  /\ inv' \in [Party -> {"none", "pending", "viewed", "signed",
                                  "declined", "expired", "cancelled"}]
           /\ \A p \in Party : inv'[p] # "none" =>
                 \/ inv[p] # "none"
                 \/ status'[ContractOf[p]] = "awaiting_signature_employer"
<1>1. ASSUME NEW c \in Contract,
             \/ \E new \in SUBSET Party : Ceremony!CreateParties(c, new)
             \/ \E new \in ContractState : Ceremony!StatusUpdateUser(c, new)
             \/ Ceremony!DeleteContract(c)
      PROVE  inv' = inv
  BY <1>1 DEF Ceremony!CreateParties, Ceremony!StatusUpdateUser,
              Ceremony!DeleteContract
<1>2. ASSUME NEW c \in Contract, Ceremony!SendForSignature(c)
      PROVE  /\ inv' \in [Party -> {"none", "pending", "viewed", "signed",
                                    "declined", "expired", "cancelled"}]
             /\ \A p \in Party : inv'[p] # "none" =>
                   \/ inv[p] # "none"
                   \/ status'[ContractOf[p]] = "awaiting_signature_employer"
  <2>1. status' = [status EXCEPT ![c] = "awaiting_signature_employer"]
    BY <1>2 DEF Ceremony!SendForSignature, Ceremony!StatusUpdateInternal
  <2>2. inv' = [p \in Party |->
                 IF \E s \in {StepOf[q] : q \in Ceremony!RequiredOf(c)} :
                       Ceremony!FirstStep(c, s) /\ p \in Ceremony!PartiesAt(c, s)
                 THEN "pending" ELSE inv[p]]
    BY <1>2 DEF Ceremony!SendForSignature
  <2>3. ASSUME NEW p \in Party, NEW s, p \in Ceremony!PartiesAt(c, s)
        PROVE  ContractOf[p] = c
    BY <2>3 DEF Ceremony!PartiesAt
  <2> QED  BY <2>1, <2>2, <2>3 DEF SentAfterApproval, TypeOK
<1>3. ASSUME NEW p \in Party,
             \/ Ceremony!Resend(p) \/ Ceremony!View(p) \/ Ceremony!RunOut(p)
             \/ Ceremony!CancelInvitation(p) \/ Ceremony!Sign(p) \/ Ceremony!Decline(p)
      PROVE  /\ inv[p] # "none" \/ inv' = inv
             /\ \E i \in {"pending", "viewed", "signed", "declined", "cancelled",
                          inv[p]} : inv' = [inv EXCEPT ![p] = i]
  BY <1>3
  DEF Ceremony!Resend, Ceremony!Renew, Ceremony!Renewable, Ceremony!View,
      Ceremony!RunOut, Ceremony!CancelInvitation, Ceremony!Cancellable,
      Ceremony!RecordCancel, Ceremony!Sign, Ceremony!Usable, Ceremony!Open,
      Ceremony!RecordSignature, Ceremony!Decline, Ceremony!RecordDecline,
      SentAfterApproval
<1>4. ASSUME NEW batch \in SUBSET due, Ceremony!ExpireDue(batch)
      PROVE  /\ \A p \in batch : inv[p] # "none"
             /\ inv' = [p \in Party |-> IF p \in batch THEN "expired" ELSE inv[p]]
  BY <1>4 DEF Ceremony!ExpireDue, Ceremony!Selected, Ceremony!Open
<1> QED
  BY <1>1, <1>2, <1>3, <1>4, Tables DEF Ceremony!Next, SentAfterApproval

-----------------------------------------------------------------------------
(* The approval engine's own steps, seen from the contract.                *)

\* A decision leaves the contract and the chains' states alone, or it moves
\* the contract along the whitelist and approves it only with its chain.
LEMMA DecideMoves ==
    ASSUME TypeOK, NEW ch \in Chain, NEW k \in StepId, NEW u \in User,
           Decide(ch, k, u)
    PROVE  /\ live' = live
           /\ \/ status' = status /\ \A a \in Chain : chain'[a].status = chain[a].status
              \/ \E s \in {"approved", "rejected", "draft"} :
                    /\ StatusUpdateInternal(chain[ch].contract, s)
                    /\ s = "approved" => chain'[ch].status = "approved"
<1>1. chain \in [Chain -> ChainRow]
  BY DEF TypeOK
<1>2. CASE RejectRequired(ch, k, u)
  BY <1>2 DEF RejectRequired, EndChain, DecideStep
<1>3. CASE RejectOptional(ch, k, u)
  BY <1>3 DEF RejectOptional, DecideStep
<1>4. CASE RequestResubmission(ch, k, u)
  BY <1>4 DEF RequestResubmission, EndChain, DecideStep
<1>5. CASE ApproveWait(ch, k, u)
  BY <1>5 DEF ApproveWait, DecideStep
<1>6. CASE ApproveAdvance(ch, k, u)
  BY <1>1, <1>6 DEF ApproveAdvance, ChainRow, DecideStep
<1>7. CASE ApproveFinal(ch, k, u)
  BY <1>1, <1>7 DEF ApproveFinal, DecideStep, ChainRow
<1> QED  BY <1>2, <1>3, <1>4, <1>5, <1>6, <1>7 DEF Decide

\* The other steps of the engine: routing, the user's changes, and those that
\* touch neither a contract nor a chain.
LEMMA EngineStep ==
    ASSUME Next
    PROVE  \/ \E c \in Contract, ch \in Chain, m \in Matrix : RouteInit(c, ch, m)
           \/ \E c \in Contract, new \in ContractState : StatusUpdateUser(c, new)
           \/ \E c \in Contract : DeleteContract(c)
           \/ \E ch \in Chain, k \in StepId, u \in User : Decide(ch, k, u)
           \/ UNCHANGED <<status, live, chain>>
<1>1. ASSUME NEW ch \in Chain, NEW k \in StepId,
             \/ \E u, to \in User :
                   Delegate(ch, k, u, to) \/ Reassign(ch, k, u, to)
             \/ \E new \in StepId : Escalate(ch, k, new)
      PROVE  UNCHANGED <<status, live, chain>>
  BY <1>1 DEF Delegate, Reassign, Escalate
<1> QED  BY <1>1 DEF Next

\* The whitelist leads from no later status back to an early one.
LEMMA NotEarlyAgain ==
    ASSUME TypeOK, Next \/ CeremonyMove, NEW c \in Contract, status[c] \notin Early
    PROVE  status'[c] \notin Early
<1>1. ASSUME NEW d \in Contract, NEW new,
             <<status[d], new>> \in InternalTransitions \cup UserTransitions,
             status' = [status EXCEPT ![d] = new]
      PROVE  status'[c] \notin Early
  <2>1. CASE c # d
    BY <1>1, <2>1 DEF TypeOK
  <2>2. CASE c = d
    <3>1. status'[c] = new /\ status[d] \notin Early
      BY <1>1, <2>2 DEF TypeOK
    <3> QED
      BY <1>1, <3>1
      DEF InternalTransitions, UserTransitions, Early, DrafterCancellable,
          AdminCancellable
  <2> QED  BY <2>1, <2>2
<1>2. ASSUME NEW d \in Contract, NEW ch \in Chain, NEW m \in Matrix,
             RouteInit(d, ch, m)
      PROVE  status'[c] \notin Early
  BY <1>2 DEF RouteInit, Early, TypeOK
<1>3. ASSUME NEW d \in Contract, NEW new \in ContractState,
             StatusUpdateUser(d, new)
      PROVE  status'[c] \notin Early
  BY <1>1, <1>3 DEF StatusUpdateUser
<1>4. ASSUME NEW ch \in Chain, NEW k \in StepId, NEW u \in User, Decide(ch, k, u)
      PROVE  status'[c] \notin Early
  <2>1. chain[ch].contract \in Contract
    BY DEF TypeOK, ChainRow
  <2> QED  BY <1>1, <1>4, <2>1, DecideMoves DEF StatusUpdateInternal
<1>5. ASSUME NEW d \in Contract, DeleteContract(d)
      PROVE  status'[c] \notin Early
  BY <1>5 DEF DeleteContract
<1>6. ASSUME CeremonyMove
      PROVE  status'[c] \notin Early
  <2>1. ASSUME NEW C \in SUBSET Contract, Halted(C)
        PROVE  status'[c] \notin Early
    BY <2>1 DEF Halted, Early
  <2>2. ASSUME NEW d \in Contract, NEW new \in ContractState, Moved(d, new)
        PROVE  status'[c] \notin Early
    BY <1>1, <2>2 DEF Moved
  <2> QED  BY <1>6, <2>1, <2>2 DEF CeremonyMove
<1> QED  BY <1>2, <1>3, <1>4, <1>5, <1>6, EngineStep

-----------------------------------------------------------------------------
(* The invariant of the composition.                                       *)

Engines ==
    /\ TypeOK /\ OneOpenChain /\ InApprovalHasOpenChain
    /\ SentAfterApproval /\ ApprovedByChain

\* The two engines start in their invariant.
LEMMA EnginesStart == EnginesInit => Engines
<1>1. SUFFICES ASSUME EnginesInit PROVE Engines
  OBVIOUS
<1>2. TypeOK
  BY <1>1, TypeInit DEF EnginesInit
<1>3. OneOpenChain /\ InApprovalHasOpenChain /\ ApprovedByChain
  BY <1>1 DEF EnginesInit, Init, OneOpenChain, InApprovalHasOpenChain,
              InProgress, ApprovedByChain
<1>4. SentAfterApproval
  BY <1>1 DEF EnginesInit, SentAfterApproval
<1> QED  BY <1>2, <1>3, <1>4 DEF Engines

\* A step of the ceremony keeps what the engine promises of its own.
LEMMA CeremonyKeeps ==
    ASSUME Engines, CeremonyMove, UNCHANGED <<chain, steps>>
    PROVE  TypeOK' /\ OneOpenChain' /\ InApprovalHasOpenChain'
<1>1. ASSUME NEW c \in Contract, NEW new \in ContractState, Moved(c, new)
      PROVE  /\ status' \in [Contract -> ContractState]
             /\ \A d \in Contract :
                   status'[d] = "in_approval" => status[d] = "in_approval"
  <2>1. new # "in_approval"
    BY <1>1 DEF Moved, InternalTransitions
  <2> QED  BY <1>1, <2>1 DEF Moved, Engines, TypeOK
<1>2. ASSUME NEW C \in SUBSET Contract, Halted(C)
      PROVE  /\ status' \in [Contract -> ContractState]
             /\ \A d \in Contract :
                   status'[d] = "in_approval" => status[d] = "in_approval"
  <2>1. "expired" \in ContractState
    BY DEF ContractState
  <2> QED  BY <1>2, <2>1 DEF Halted, Engines, TypeOK
<1>3. /\ status' \in [Contract -> ContractState]
      /\ \A d \in Contract :
            status'[d] = "in_approval" => status[d] = "in_approval"
  BY <1>1, <1>2 DEF CeremonyMove, Engines, TypeOK
<1>4. live' \subseteq Contract
  BY DEF CeremonyMove, Engines, TypeOK
<1> QED
  BY <1>3, <1>4
  DEF Engines, TypeOK, OneOpenChain, InApprovalHasOpenChain, InProgress

\* Contracts go out for signature only from approval, whatever step is taken.
LEMMA SentKeeps ==
    ASSUME Engines, EnginesNext
    PROVE  SentAfterApproval'
<1>1. CASE Next /\ UNCHANGED signatures
  <2>1. inv' = inv
    BY <1>1 DEF signatures
  <2> QED
    BY <1>1, <2>1, NotEarlyAgain, RosterAssumption DEF Engines, SentAfterApproval
<1>2. CASE Ceremony!Next /\ UNCHANGED <<chain, steps>>
  <2>1. Next \/ CeremonyMove
    BY <1>2, CeremonyStep DEF Engines
  <2>2. "awaiting_signature_employer" \notin Early
    BY DEF Early
  <2> QED
    BY <1>2, <2>1, <2>2, Invitations, NotEarlyAgain, RosterAssumption
    DEF Engines, SentAfterApproval
<1> QED  BY <1>1, <1>2 DEF EnginesNext

\* The statuses of ApprovedByChain.
Executable == {"approved", "awaiting_signature_employer",
               "awaiting_signature_counterparty", "fully_signed", "expired",
               "active"}
Backed(c) ==
    \E ch \in Chain : chain[ch].contract = c /\ chain[ch].status = "approved"

\* The whitelists lead into these statuses only from in_approval, by way of a
\* verdict, and from each other.
LEMMA ExecutableFrom ==
    ASSUME NEW a, NEW b,
           <<a, b>> \in InternalTransitions \cup UserTransitions,
           b \in Executable
    PROVE  a \in Executable \/ (a = "in_approval" /\ b = "approved")
BY DEF InternalTransitions, UserTransitions, Executable

\* A contract past approval keeps the approved chain behind it.
LEMMA BackedKeeps ==
    ASSUME Engines, Next \/ (CeremonyMove /\ UNCHANGED <<chain, steps>>),
           NEW c \in Contract, status'[c] \in Executable
    PROVE  Backed(c)'
<1>1. status[c] \in Executable => Backed(c)
  BY DEF Engines, ApprovedByChain, Executable, Backed
<1>2. chain \in [Chain -> ChainRow] /\ status \in [Contract -> ContractState]
  BY DEF Engines, TypeOK
<1>3. ASSUME NEW d \in Contract, NEW new,
             <<status[d], new>> \in InternalTransitions \cup UserTransitions,
             status' = [status EXCEPT ![d] = new]
      PROVE  \/ status[c] \in Executable
             \/ d = c /\ status[c] = "in_approval" /\ new = "approved"
  <2>1. CASE c # d
    BY <1>2, <1>3, <2>1
  <2>2. CASE c = d
    BY <1>2, <1>3, <2>2, ExecutableFrom
  <2> QED  BY <2>1, <2>2
<1>4. ASSUME NEW d \in Contract, NEW ch \in Chain, NEW m \in Matrix,
             RouteInit(d, ch, m)
      PROVE  Backed(c)'
  <2>1. status[c] \in Executable
    BY <1>2, <1>4 DEF RouteInit, Executable
  <2>2. PICK a \in Chain : chain[a].contract = c /\ chain[a].status = "approved"
    BY <1>1, <2>1 DEF Backed
  <2>3. a # ch
    BY <1>4, <2>2 DEF RouteInit
  <2>4. chain'[a] = chain[a]
    BY <1>2, <1>4, <2>3 DEF RouteInit
  <2> QED  BY <2>2, <2>4 DEF Backed
<1>5. ASSUME NEW ch \in Chain, NEW k \in StepId, NEW u \in User, Decide(ch, k, u)
      PROVE  Backed(c)'
  <2> DEFINE x == chain[ch].contract
  <2>1. x \in Contract
    BY <1>2 DEF ChainRow
  <2>2. \A a \in Chain : /\ chain'[a].contract = chain[a].contract
                         /\ a # ch => chain'[a] = chain[a]
    BY <1>5, DecideOpens DEF Engines
  <2>3. CASE status' = status /\ \A a \in Chain : chain'[a].status = chain[a].status
    BY <1>1, <2>2, <2>3 DEF Backed
  <2>4. ASSUME NEW s \in {"approved", "rejected", "draft"},
               StatusUpdateInternal(x, s),
               s = "approved" => chain'[ch].status = "approved"
        PROVE  Backed(c)'
    <3>1. \/ status[c] \in Executable
          \/ x = c /\ status[c] = "in_approval" /\ s = "approved"
      BY <1>3, <2>1, <2>4 DEF StatusUpdateInternal
    <3>2. CASE x = c /\ s = "approved"
      BY <2>2, <2>4, <3>2 DEF Backed
    <3>3. CASE x = c /\ s # "approved"
      BY <1>2, <2>4, <3>3 DEF StatusUpdateInternal, Executable
    <3>4. CASE x # c
      <4>1. PICK a \in Chain : chain[a].contract = c /\ chain[a].status = "approved"
        BY <1>1, <3>1, <3>4 DEF Backed
      <4> QED  BY <2>2, <3>4, <4>1 DEF Backed
    <3> QED  BY <3>2, <3>3, <3>4
  <2> QED  BY <1>5, <2>3, <2>4, DecideMoves DEF Engines
<1>6. ASSUME NEW d \in Contract, NEW new \in ContractState,
             StatusUpdateUser(d, new)
      PROVE  Backed(c)'
  <2>1. chain' = chain /\ new # "approved"
    BY <1>6 DEF StatusUpdateUser, UserTransitions
  <2> QED  BY <1>1, <1>3, <1>6, <2>1 DEF StatusUpdateUser, Backed
<1>7. CASE UNCHANGED <<status, chain>>
  BY <1>1, <1>7 DEF Backed
<1>8. ASSUME NEW d \in Contract, DeleteContract(d)
      PROVE  UNCHANGED <<status, chain>>
  BY <1>8 DEF DeleteContract
<1>9. CASE CeremonyMove /\ UNCHANGED <<chain, steps>>
  <2>1. ASSUME NEW d \in Contract, NEW new \in ContractState, Moved(d, new)
        PROVE  status[c] \in Executable
    BY <1>3, <2>1 DEF Moved, Signing
  <2>2. ASSUME NEW C \in SUBSET Contract, Halted(C)
        PROVE  status[c] \in Executable
    BY <2>2 DEF Halted, Signing, Executable
  <2> QED  BY <1>1, <1>9, <2>1, <2>2 DEF CeremonyMove, Backed
<1> QED  BY <1>4, <1>5, <1>6, <1>7, <1>8, <1>9, EngineStep

\* The invariant of the two engines is inductive.
LEMMA EnginesKeep == Engines /\ [EnginesNext]_evars => Engines'
<1>1. ASSUME Engines, EnginesNext
      PROVE  Engines'
  <2>1. Next \/ (CeremonyMove /\ UNCHANGED <<chain, steps>>)
    BY <1>1, CeremonyStep DEF EnginesNext, Engines
  <2>2. TypeOK' /\ OneOpenChain' /\ InApprovalHasOpenChain'
    BY <1>1, <2>1, CeremonyKeeps, NextIsLate, TypeNext, OpenNext DEF Engines
  <2>3. ApprovedByChain'
    BY <1>1, <2>1, BackedKeeps DEF ApprovedByChain, Executable, Backed
  <2> QED  BY <1>1, <2>2, <2>3, SentKeeps DEF Engines
<1>2. ASSUME Engines, UNCHANGED evars
      PROVE  Engines'
  BY <1>2
  DEF Engines, evars, vars, signatures, TypeOK, OneOpenChain,
      InApprovalHasOpenChain, InProgress, SentAfterApproval, ApprovedByChain
<1> QED  BY <1>1, <1>2

\* With the ceremony moving the same contracts, a contract still never has two
\* open chains.
THEOREM EnginesKeepOneOpenChain == EnginesSpec => []OneOpenChain
<1>1. Engines => OneOpenChain
  BY DEF Engines
<1> QED  BY <1>1, EnginesStart, EnginesKeep, PTL DEF EnginesSpec

\* Nothing is signed, executed or active that no chain approved.
THEOREM ApprovedContractsHaveChain == EnginesSpec => []ApprovedByChain
<1>1. Engines => ApprovedByChain
  BY DEF Engines
<1> QED  BY <1>1, EnginesStart, EnginesKeep, PTL DEF EnginesSpec

\* Progress of the open chains, beside what both engines keep.
Way == Engines /\ GroupsSettled /\ PointerAtUndecided /\ LastOrderOutstanding

\* The chains can finish at the start.
LEMMA WayStarts == EnginesInit => Way
BY EnginesStart
DEF Way, EnginesInit, Init, GroupsSettled, PointerAtUndecided,
    LastOrderOutstanding, Settled, PointerValid, LastOpen

\* Every step of either engine keeps the chains able to finish.
LEMMA WayKeeps == Way /\ [EnginesNext]_evars => Way'
<1>1. ASSUME Way, Next \/ UNCHANGED vars
      PROVE  GroupsSettled' /\ PointerAtUndecided' /\ LastOrderOutstanding'
  BY <1>1, NextIsLate, ProgressNext DEF Way, Engines
<1>2. ASSUME Way, UNCHANGED <<chain, steps>>
      PROVE  GroupsSettled' /\ PointerAtUndecided' /\ LastOrderOutstanding'
  BY <1>2
  DEF Way, GroupsSettled, PointerAtUndecided, LastOrderOutstanding, Settled,
      PointerValid, LastOpen, HasRequired, Undecided, IsLast, Required,
      Exists, Pending, Peers
<1> QED  BY <1>1, <1>2, EnginesKeep DEF Way, EnginesNext, evars, vars

\* Late decisions during the ceremony leave the open chains settled group by
\* group, and their pointers where they can still be decided.
THEOREM EnginesKeepProgress ==
    EnginesSpec => []GroupsSettled /\ []PointerAtUndecided /\ []LastOrderOutstanding
<1>1. Way => GroupsSettled /\ PointerAtUndecided /\ LastOrderOutstanding
  BY DEF Way
<1> QED  BY <1>1, WayStarts, WayKeeps, PTL DEF EnginesSpec

\* A chain that is approved beside the ceremony had its last order signed off.
THEOREM EnginesSignOff == EnginesSpec => LastOrderSignedOff
<1>1. Way /\ [EnginesNext]_evars => [LastOrderStep]_vars
  <2>1. ASSUME Way, Next PROVE LastOrderStep
    BY <2>1, NextIsLate, NextSignsOff DEF LastOrderStep, SignedOff, Way, Engines
  <2>2. ASSUME UNCHANGED chain PROVE LastOrderStep
    BY <2>2 DEF LastOrderStep
  <2> QED  BY <2>1, <2>2 DEF EnginesNext, evars, vars
<1> QED  BY <1>1, WayStarts, WayKeeps, PTL DEF EnginesSpec, LastOrderSignedOff, LastOrderStep

-----------------------------------------------------------------------------
(* The two engines implement ContractLifecycle.                            *)

Opened == {c \in Contract : InProgress(c) # {}}

\* What is open depends on the chains alone.
LEMMA SameChains ==
    ASSUME chain' = chain
    PROVE  Opened' = Opened
BY DEF Opened, InProgress

\* A decision may close the approval of its own contract and no other.
LEMMA DecideCloses ==
    ASSUME TypeOK, NEW ch \in Chain, NEW k \in StepId, NEW u \in User,
           Decide(ch, k, u)
    PROVE  Opened' \in {Opened, Opened \ {chain[ch].contract}}
<1>1. \A a \in Chain :
         /\ chain'[a].contract = chain[a].contract
         /\ chain'[a].status = "in_progress" => chain[a].status = "in_progress"
         /\ a # ch => chain'[a] = chain[a]
  BY DecideOpens
<1>2. \A c \in Contract : InProgress(c)' \subseteq InProgress(c)
  BY <1>1 DEF InProgress
<1>3. \A c \in Contract \ {chain[ch].contract} : InProgress(c)' = InProgress(c)
  BY <1>1 DEF InProgress
<1> QED  BY <1>2, <1>3 DEF Opened

\* The life cycle uses the transition tables of the engines.
LEMMA LifeTables ==
    /\ Life!ContractState = ContractState
    /\ Life!InternalTransitions = InternalTransitions
    /\ Life!UserTransitions = UserTransitions
BY DEF Life!ContractState, ContractState, Life!InternalTransitions,
       InternalTransitions, Life!UserTransitions, UserTransitions,
       Life!DrafterCancellable, DrafterCancellable, Life!AdminCancellable,
       AdminCancellable

\* A decision is a step of the life cycle, or changes nothing it sees.
LEMMA DecideLives ==
    ASSUME Engines, NEW ch \in Chain, NEW k \in StepId, NEW u \in User,
           Decide(ch, k, u)
    PROVE  Life!Next \/ UNCHANGED <<status, live, Opened>>
<1> DEFINE x == chain[ch].contract
<1>1. x \in Contract
  BY DEF Engines, TypeOK, ChainRow
<1>2. Opened' \in {Opened, Opened \ {x}}
  BY DecideCloses DEF Engines
<1>3. CASE status' = status /\ \A a \in Chain : chain'[a].status = chain[a].status
  <2>1. \A c \in Contract : InProgress(c)' = InProgress(c)
    BY <1>3, DecideOpens DEF InProgress, Engines
  <2> QED  BY <1>3, <2>1, DecideMoves DEF Opened, Engines
<1>4. ASSUME NEW s \in {"approved", "rejected", "draft"},
             StatusUpdateInternal(x, s)
      PROVE  Life!Next
  <2>1. live' = live
    BY DecideMoves DEF Engines
  <2>2. /\ x \in live /\ status' = [status EXCEPT ![x] = s]
        /\ <<status[x], s>> \in InternalTransitions
    BY <1>4 DEF StatusUpdateInternal
  <2>3. CASE status[x] = "in_approval"
    <3>1. x \in Opened
      BY <1>1, <2>3 DEF Engines, InApprovalHasOpenChain, Opened
    <3>2. Life!Verdict(x, s)
      BY <1>2, <2>1, <2>2, <2>3, <3>1 DEF Life!Verdict, Life!Set, Life!MayClose, Opened
    <3> QED  BY <1>1, <3>2 DEF Life!Next
  <2>4. CASE status[x] # "in_approval"
    <3>1. status[x] \in Life!InSignature \cup {"approved"} /\ s \in ContractState
      BY <2>2, <2>4 DEF InternalTransitions, Life!InSignature, ContractState
    <3>2. Life!Advance(x, s)
      BY <1>2, <2>1, <2>2, <3>1, LifeTables
      DEF Life!Advance, Life!Set, Life!MayClose, Opened
    <3> QED  BY <1>1, <3>1, <3>2, LifeTables DEF Life!Next
  <2> QED  BY <2>3, <2>4
<1> QED  BY <1>3, <1>4, DecideMoves DEF Engines

\* A step of the ceremony is a step of the life cycle, or changes nothing it sees.
LEMMA CeremonyLives ==
    ASSUME CeremonyMove, UNCHANGED <<chain, steps>>
    PROVE  Life!Next \/ UNCHANGED <<status, live, Opened>>
<1>1. Opened' = Opened /\ live' = live
  BY SameChains DEF CeremonyMove
<1>2. ASSUME NEW c \in Contract, NEW new \in ContractState, Moved(c, new)
      PROVE  Life!Advance(c, new)
  BY <1>1, <1>2, LifeTables
  DEF Moved, Signing, Life!Advance, Life!Set, Life!MayClose, Life!InSignature,
      Opened
<1>3. ASSUME NEW C \in SUBSET Contract, Halted(C)
      PROVE  Life!Halt(C)
  BY <1>1, <1>3 DEF Halted, Signing, Life!Halt, Life!InSignature, Opened
<1> QED  BY <1>1, <1>2, <1>3, LifeTables DEF CeremonyMove, Life!Next

\* What the two engines do to a contract, with their tables and invitations
\* out of sight, is a life that ContractLifecycle allows.
THEOREM EnginesImplementLife == EnginesSpec => Lifecycle
<1>1. EnginesInit => Life!Init
  BY DEF EnginesInit, Init, Life!Init, InProgress
<1>2. ASSUME Engines, EnginesNext
      PROVE  Life!Next \/ UNCHANGED <<status, live, Opened>>
  <2>1. ASSUME NEW c \in Contract, NEW ch \in Chain, NEW m \in Matrix,
               RouteInit(c, ch, m)
        PROVE  Life!Submit(c)
    <3>1. /\ chain'[ch].status = "in_progress" /\ chain'[ch].contract = c
          /\ \A a \in Chain \ {ch} : chain'[a] = chain[a]
          /\ chain[ch].status = "none"
      BY <1>2, <2>1 DEF RouteInit, Engines, TypeOK
    <3>2. InProgress(c)' # {}
      BY <3>1 DEF InProgress
    <3>3. \A d \in Contract \ {c} : InProgress(d)' = InProgress(d)
      BY <3>1 DEF InProgress
    <3>4. Opened' = Opened \cup {c}
      BY <3>2, <3>3 DEF Opened
    <3> QED  BY <2>1, <3>4 DEF RouteInit, Life!Submit, Life!Set, Opened
  <2>2. ASSUME NEW c \in Contract, NEW new \in ContractState,
               StatusUpdateUser(c, new)
        PROVE  Life!Update(c, new)
    <3>1. Opened' = Opened
      BY <2>2, SameChains DEF StatusUpdateUser
    <3> QED  BY <2>2, <3>1, LifeTables
             DEF StatusUpdateUser, Life!Update, Life!Set, Opened
  <2>3. ASSUME NEW c \in Contract, DeleteContract(c)
        PROVE  Life!Delete(c)
    <3>1. Opened' = Opened
      BY <2>3, SameChains DEF DeleteContract
    <3> QED  BY <2>3, <3>1 DEF DeleteContract, Life!Delete, Opened
  <2>4. CASE UNCHANGED <<status, live, chain>>
    BY <2>4, SameChains
  <2>5. Next \/ (CeremonyMove /\ UNCHANGED <<chain, steps>>)
    BY <1>2, CeremonyStep DEF EnginesNext, Engines
  <2> QED
    BY <1>2, <2>1, <2>2, <2>3, <2>4, <2>5, EngineStep, DecideLives,
       CeremonyLives, LifeTables
    DEF Life!Next
<1>3. UNCHANGED evars => UNCHANGED <<status, live, Opened>>
  BY SameChains DEF evars, vars
<1>4. Engines /\ [EnginesNext]_evars => [Life!Next]_<<status, live, Opened>>
  BY <1>2, <1>3
<1> QED
  BY <1>1, <1>4, EnginesStart, EnginesKeep, PTL
  DEF EnginesSpec, Lifecycle, Life!Spec, Opened
=============================================================================
