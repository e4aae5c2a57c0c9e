------------------------ MODULE ApprovalChain_proofs ------------------------
(* What TLAPS proves of the approval engine and of its transactions, for   *)
(* any number of contracts, chains, steps, users, rule sets and sessions.  *)
EXTENDS ApprovalLocks, TLAPS

\* fn_approval_escalate once its search for a peer came back empty: it inserts
\* the peer, whatever was inserted since.  The invariants do not need the search,
\* so that they are proved of this wider next-state relation.
LateEscalate(ch, k, new) ==
    /\ Pending(ch, k)
    /\ steps[ch][k].escRole # NoRole
    /\ ~Exists(ch, new)
    /\ \A j \in StepId : ~Exists(ch, j) => new <= j
    /\ steps' = [steps EXCEPT
          ![ch][k].grouped = TRUE,
          ![ch][new] = [status |-> "pending", order |-> steps[ch][k].order,
                        required |-> steps[ch][k].required, grouped |-> TRUE,
                        role |-> steps[ch][k].escRole, escRole |-> NoRole,
                        approver |-> NoUser, delegated |-> NoUser,
                        reassigned |-> NoUser]]
    /\ UNCHANGED <<status, live, chain>>

LateNext ==
    \/ \E c \in Contract :
          \/ \E ch \in Chain, m \in Matrix : RouteInit(c, ch, m)
          \/ \E new \in ContractState : StatusUpdateUser(c, new)
          \/ DeleteContract(c)
    \/ \E ch \in Chain, k \in StepId :
          \/ \E u \in User : Decide(ch, k, u)
          \/ \E u, to \in User :
                Delegate(ch, k, u, to) \/ Reassign(ch, k, u, to)
          \/ \E new \in StepId : LateEscalate(ch, k, new)

\* Every step of the engine is a step of the wider relation.
LEMMA NextIsLate == Next => LateNext
BY DEF Next, LateNext, Escalate, LateEscalate

\* A step's verdict, with the peers it skips, keeps the steps well typed.
LEMMA DecideStepType ==
    ASSUME TypeOK, NEW ch \in Chain, NEW k \in StepId, NEW u \in User,
           NEW verdict \in StepStatus, NEW others,
           DecideStep(ch, k, u, verdict, others)
    PROVE  steps' \in [Chain -> [StepId -> StepRow]]
<1>1. \A j \in StepId : steps[ch][j] \in StepRow
  BY DEF TypeOK
<1>2. DecidedRow(steps[ch][k], u, verdict) \in StepRow
  BY <1>1 DEF DecidedRow, StepRow
<1>3. \A j \in StepId :
         [steps[ch][j] EXCEPT !.status = "skipped"] \in StepRow
  BY <1>1 DEF StepRow, StepStatus
<1> QED  BY <1>1, <1>2, <1>3 DEF DecideStep, TypeOK

\* A verdict on the contract is a status.
LEMMA InternalType ==
    ASSUME TypeOK, NEW c \in Contract, NEW new \in ContractState,
           StatusUpdateInternal(c, new)
    PROVE  status' \in [Contract -> ContractState]
BY DEF TypeOK, StatusUpdateInternal

\* Ending a chain keeps the types of the chains and of the contracts.
LEMMA EndChainType ==
    ASSUME TypeOK, NEW ch \in Chain,
           NEW s \in {"rejected", "resubmission_requested"}, EndChain(ch, s)
    PROVE  /\ chain' \in [Chain -> ChainRow]
           /\ status' \in [Contract -> ContractState]
<1>1. chain[ch].contract \in Contract
  BY DEF TypeOK, ChainRow
<1>2. status' \in [Contract -> ContractState]
  BY <1>1, InternalType DEF EndChain, ContractState
<1>3. chain' \in [Chain -> ChainRow]
  BY DEF EndChain, TypeOK, ChainRow, ChainStatus
<1> QED  BY <1>2, <1>3

\* The engine starts in a state of the right types.
LEMMA TypeInit == Init => TypeOK
BY DEF Init, TypeOK, ContractState, ChainRow, StepRow, ChainStatus, StepStatus

\* A decision keeps the types.
LEMMA TypeDecide ==
    ASSUME TypeOK, NEW ch \in Chain, NEW k \in StepId, NEW u \in User,
           Decide(ch, k, u)
    PROVE  TypeOK'
<1>1. CASE RejectRequired(ch, k, u)
  <2>1. steps' \in [Chain -> [StepId -> StepRow]]
    BY <1>1, DecideStepType DEF RejectRequired, StepStatus
  <2>2. /\ chain' \in [Chain -> ChainRow]
        /\ status' \in [Contract -> ContractState]
    BY <1>1, EndChainType DEF RejectRequired
  <2> QED  BY <1>1, <2>1, <2>2 DEF RejectRequired, DecideStep, TypeOK
<1>2. CASE RejectOptional(ch, k, u)
  <2>1. steps' \in [Chain -> [StepId -> StepRow]]
    BY <1>2, DecideStepType DEF RejectOptional, StepStatus
  <2> QED  BY <1>2, <2>1 DEF RejectOptional, DecideStep, TypeOK
<1>3. CASE RequestResubmission(ch, k, u)
  <2>1. steps' \in [Chain -> [StepId -> StepRow]]
    BY <1>3, DecideStepType DEF RequestResubmission, StepStatus
  <2>2. /\ chain' \in [Chain -> ChainRow]
        /\ status' \in [Contract -> ContractState]
    BY <1>3, EndChainType DEF RequestResubmission
  <2> QED  BY <1>3, <2>1, <2>2 DEF RequestResubmission, DecideStep, TypeOK
<1>4. CASE ApproveWait(ch, k, u)
  <2>1. steps' \in [Chain -> [StepId -> StepRow]]
    BY <1>4, DecideStepType DEF ApproveWait, StepStatus
  <2> QED  BY <1>4, <2>1 DEF ApproveWait, DecideStep, TypeOK
<1>5. CASE ApproveAdvance(ch, k, u)
  <2>1. steps' \in [Chain -> [StepId -> StepRow]]
    BY <1>5, DecideStepType DEF ApproveAdvance, StepStatus
  <2>2. PICK j \in Later(ch, k) :
           chain' = [chain EXCEPT ![ch].current = steps[ch][j].order]
    BY <1>5 DEF ApproveAdvance
  <2>3. steps[ch][j].order \in Nat
    BY <2>2 DEF Later, TypeOK, StepRow
  <2>4. chain' \in [Chain -> ChainRow]
    BY <2>2, <2>3 DEF TypeOK, ChainRow
  <2> QED  BY <1>5, <2>1, <2>4 DEF ApproveAdvance, DecideStep, TypeOK
<1>6. CASE ApproveFinal(ch, k, u)
  <2>1. steps' \in [Chain -> [StepId -> StepRow]]
    BY <1>6, DecideStepType DEF ApproveFinal, StepStatus
  <2>2. chain[ch].contract \in Contract /\ steps[ch][k].order \in Nat
    BY DEF TypeOK, ChainRow, StepRow
  <2>3. status' \in [Contract -> ContractState]
    BY <1>6, <2>2, InternalType DEF ApproveFinal, ContractState
  <2>4. chain' \in [Chain -> ChainRow]
    BY <1>6, <2>2 DEF ApproveFinal, TypeOK, ChainRow, ChainStatus
  <2> QED  BY <1>6, <2>1, <2>3, <2>4 DEF ApproveFinal, DecideStep, TypeOK
<1> QED  BY <1>1, <1>2, <1>3, <1>4, <1>5, <1>6 DEF Decide

\* Every operation keeps the types.
LEMMA TypeNext == TypeOK /\ [LateNext]_vars => TypeOK'
<1> SUFFICES ASSUME TypeOK, [LateNext]_vars PROVE TypeOK'
  OBVIOUS
<1>1. ASSUME NEW c \in Contract, NEW ch \in Chain, NEW m \in Matrix,
             RouteInit(c, ch, m)
      PROVE  TypeOK'
  <2>1. m \in [StepId -> StepRow]
    BY MatrixAssumption
  <2> QED
    BY <1>1, <2>1 DEF RouteInit, TypeOK, ChainRow, ChainStatus, ContractState
<1>2. ASSUME NEW c \in Contract, NEW new \in ContractState,
             StatusUpdateUser(c, new)
      PROVE  TypeOK'
  BY <1>2 DEF StatusUpdateUser, TypeOK
<1>3. ASSUME NEW c \in Contract, DeleteContract(c)
      PROVE  TypeOK'
  BY <1>3 DEF DeleteContract, TypeOK
<1>4. ASSUME NEW ch \in Chain, NEW k \in StepId, NEW u \in User, NEW to \in User,
             Delegate(ch, k, u, to) \/ Reassign(ch, k, u, to)
      PROVE  TypeOK'
  <2>1. steps[ch] \in [StepId -> StepRow] /\ steps[ch][k] \in StepRow
    BY DEF TypeOK
  <2>2. CASE Delegate(ch, k, u, to)
    <3>1. [steps[ch][k] EXCEPT !.delegated = to] \in StepRow
      BY <2>1 DEF StepRow
    <3>2. steps' \in [Chain -> [StepId -> StepRow]]
      BY <2>2, <3>1 DEF Delegate, TypeOK
    <3> QED  BY <2>2, <3>2 DEF Delegate, TypeOK
  <2>3. CASE Reassign(ch, k, u, to)
    <3>1. [steps[ch][k] EXCEPT !.approver = to, !.reassigned = to] \in StepRow
      BY <2>1 DEF StepRow
    <3>2. steps' = [steps EXCEPT ![ch] = [steps[ch] EXCEPT ![k] =
                      [steps[ch][k] EXCEPT !.approver = to, !.reassigned = to]]]
      BY <2>1, <2>3 DEF Reassign, TypeOK
    <3>3. steps' \in [Chain -> [StepId -> StepRow]]
      BY <2>1, <3>1, <3>2 DEF TypeOK
    <3> QED  BY <2>3, <3>3 DEF Reassign, TypeOK
  <2> QED  BY <1>4, <2>2, <2>3
<1>5. ASSUME NEW ch \in Chain, NEW k \in StepId, NEW new \in StepId,
             LateEscalate(ch, k, new)
      PROVE  TypeOK'
  <2>1. steps' \in [Chain -> [StepId -> StepRow]]
    <3>1. steps[ch] \in [StepId -> StepRow] /\ steps[ch][k] \in StepRow
      BY DEF TypeOK
    <3>2. [steps[ch][k] EXCEPT !.grouped = TRUE] \in StepRow
      BY <3>1 DEF StepRow
    <3>3. [status |-> "pending", order |-> steps[ch][k].order,
           required |-> steps[ch][k].required, grouped |-> TRUE,
           role |-> steps[ch][k].escRole, escRole |-> NoRole,
           approver |-> NoUser, delegated |-> NoUser,
           reassigned |-> NoUser] \in StepRow
      BY <3>1 DEF StepRow, StepStatus
    <3> QED  BY <1>5, <3>2, <3>3 DEF LateEscalate, TypeOK
  <2> QED  BY <1>5, <2>1 DEF LateEscalate, TypeOK
<1>6. CASE UNCHANGED vars
  BY <1>6 DEF vars, TypeOK
<1> QED  BY <1>1, <1>2, <1>3, <1>4, <1>5, <1>6, TypeDecide DEF LateNext

\* Every reachable state of the tables is well typed.
THEOREM TypeCorrect == Spec => []TypeOK
BY TypeInit, TypeNext, NextIsLate, PTL DEF Spec

-----------------------------------------------------------------------------
(* A contract in approval has exactly one open chain.                       *)

\* Open chains are only opened by the router: a decision closes or keeps them.
LEMMA DecideOpens ==
    ASSUME TypeOK, NEW ch \in Chain, NEW k \in StepId, NEW u \in User,
           Decide(ch, k, u)
    PROVE  \A a \in Chain :
              /\ chain'[a].contract = chain[a].contract
              /\ chain'[a].status = "in_progress" => chain[a].status = "in_progress"
              /\ a # ch => chain'[a] = chain[a]
<1>1. chain \in [Chain -> ChainRow]
  BY DEF TypeOK
<1>2. CASE RejectRequired(ch, k, u)
  BY <1>1, <1>2 DEF RejectRequired, EndChain, ChainRow
<1>3. CASE RejectOptional(ch, k, u)
  BY <1>3 DEF RejectOptional
<1>4. CASE RequestResubmission(ch, k, u)
  BY <1>1, <1>4 DEF RequestResubmission, EndChain, ChainRow
<1>5. CASE ApproveWait(ch, k, u)
  BY <1>5 DEF ApproveWait
<1>6. CASE ApproveAdvance(ch, k, u)
  BY <1>1, <1>6 DEF ApproveAdvance, ChainRow
<1>7. CASE ApproveFinal(ch, k, u)
  BY <1>1, <1>7 DEF ApproveFinal, ChainRow
<1> QED  BY <1>2, <1>3, <1>4, <1>5, <1>6, <1>7 DEF Decide

\* A decision either leaves every chain open that was open and every contract
\* where it was, or takes the chain's contract out of approval.
LEMMA DecideVerdict ==
    ASSUME TypeOK, NEW ch \in Chain, NEW k \in StepId, NEW u \in User,
           Decide(ch, k, u)
    PROVE  \/ status' = status /\ \A a \in Chain : chain'[a].status = chain[a].status
           \/ \E s \in {"approved", "rejected", "draft"} :
                 status' = [status EXCEPT ![chain[ch].contract] = s]
<1>1. chain \in [Chain -> ChainRow]
  BY DEF TypeOK
<1>2. CASE RejectRequired(ch, k, u)
  BY <1>2 DEF RejectRequired, EndChain, StatusUpdateInternal
<1>3. CASE RejectOptional(ch, k, u)
  BY <1>3 DEF RejectOptional
<1>4. CASE RequestResubmission(ch, k, u)
  BY <1>4 DEF RequestResubmission, EndChain, StatusUpdateInternal
<1>5. CASE ApproveWait(ch, k, u)
  BY <1>5 DEF ApproveWait
<1>6. CASE ApproveAdvance(ch, k, u)
  BY <1>1, <1>6 DEF ApproveAdvance, ChainRow
<1>7. CASE ApproveFinal(ch, k, u)
  BY <1>7 DEF ApproveFinal, StatusUpdateInternal
<1> QED  BY <1>2, <1>3, <1>4, <1>5, <1>6, <1>7 DEF Decide

\* A decision, late ones on ended chains included, opens no chain and leaves a
\* contract in approval only with the chain it had.
LEMMA OpenDecide ==
    ASSUME TypeOK, OneOpenChain, InApprovalHasOpenChain,
           NEW ch \in Chain, NEW k \in StepId, NEW u \in User, Decide(ch, k, u)
    PROVE  OneOpenChain' /\ InApprovalHasOpenChain'
<1>1. OneOpenChain'
  BY DecideOpens DEF OneOpenChain, InProgress
<1>2. ASSUME NEW c \in Contract, status'[c] = "in_approval"
      PROVE  InProgress(c)' # {}
  <2>1. CASE /\ status' = status
             /\ \A a \in Chain : chain'[a].status = chain[a].status
    <3>1. PICK a \in InProgress(c) : TRUE
      BY <1>2, <2>1 DEF InApprovalHasOpenChain
    <3>2. a \in InProgress(c)'
      BY <3>1, <2>1, DecideOpens DEF InProgress
    <3> QED  BY <3>2
  <2>2. ASSUME NEW s \in {"approved", "rejected", "draft"},
               status' = [status EXCEPT ![chain[ch].contract] = s]
        PROVE  InProgress(c)' # {}
    <3>1. chain[ch].contract # c /\ status[c] = "in_approval"
      BY <1>2, <2>2 DEF TypeOK
    <3>2. PICK a \in InProgress(c) : TRUE
      BY <3>1 DEF InApprovalHasOpenChain
    <3>3. a # ch
      BY <3>1, <3>2 DEF InProgress
    <3>4. a \in InProgress(c)'
      BY <3>2, <3>3, DecideOpens DEF InProgress
    <3> QED  BY <3>4
  <2> QED  BY <2>1, <2>2, DecideVerdict
<1> QED  BY <1>1, <1>2 DEF InApprovalHasOpenChain

\* Every operation keeps one open chain at most per contract, and one for each
\* contract in approval.
LEMMA OpenNext ==
    ASSUME TypeOK, OneOpenChain, InApprovalHasOpenChain, [LateNext]_vars
    PROVE  OneOpenChain' /\ InApprovalHasOpenChain'
<1>1. ASSUME NEW c \in Contract, NEW ch \in Chain, NEW m \in Matrix,
             RouteInit(c, ch, m)
      PROVE  OneOpenChain' /\ InApprovalHasOpenChain'
  <2>1. \A a \in Chain \ {ch} : chain'[a] = chain[a]
    BY <1>1 DEF RouteInit, TypeOK
  <2>2. chain'[ch].status = "in_progress" /\ chain'[ch].contract = c
    BY <1>1 DEF RouteInit, TypeOK
  <2>3. chain[ch].status = "none" /\ InProgress(c) = {}
    BY <1>1 DEF RouteInit
  <2>4. OneOpenChain'
    BY <2>1, <2>2, <2>3 DEF OneOpenChain, InProgress
  <2>5. ASSUME NEW d \in Contract, status'[d] = "in_approval"
        PROVE  InProgress(d)' # {}
    <3>1. CASE d = c
      BY <3>1, <2>2 DEF InProgress
    <3>2. CASE d # c
      <4>1. status[d] = "in_approval"
        BY <1>1, <2>5, <3>2 DEF RouteInit, TypeOK
      <4>2. PICK a \in InProgress(d) : TRUE
        BY <4>1 DEF InApprovalHasOpenChain
      <4>3. a \in InProgress(d)'
        BY <4>2, <2>1, <2>3 DEF InProgress
      <4> QED  BY <4>3
    <3> QED  BY <3>1, <3>2
  <2> QED  BY <2>4, <2>5 DEF InApprovalHasOpenChain
<1>2. ASSUME NEW c \in Contract, NEW new \in ContractState,
             StatusUpdateUser(c, new)
      PROVE  OneOpenChain' /\ InApprovalHasOpenChain'
  <2>1. new # "in_approval"
    BY <1>2 DEF StatusUpdateUser, UserTransitions
  <2> QED
    BY <1>2, <2>1
    DEF StatusUpdateUser, OneOpenChain, InApprovalHasOpenChain, InProgress, TypeOK
<1>3. CASE UNCHANGED <<status, chain>>
  BY <1>3 DEF OneOpenChain, InApprovalHasOpenChain, InProgress
<1>4. ASSUME NEW c \in Contract, DeleteContract(c)
      PROVE  UNCHANGED <<status, chain>>
  BY <1>4 DEF DeleteContract
<1>5. ASSUME NEW ch \in Chain, NEW k \in StepId, NEW u \in User, NEW to \in User,
             Delegate(ch, k, u, to) \/ Reassign(ch, k, u, to)
      PROVE  UNCHANGED <<status, chain>>
  BY <1>5 DEF Delegate, Reassign
<1>6. ASSUME NEW ch \in Chain, NEW k \in StepId, NEW new \in StepId,
             LateEscalate(ch, k, new)
      PROVE  UNCHANGED <<status, chain>>
  BY <1>6 DEF LateEscalate
<1>7. CASE UNCHANGED vars
  BY <1>3, <1>7 DEF vars
<1> QED
  BY <1>1, <1>2, <1>3, <1>4, <1>5, <1>6, <1>7, OpenDecide DEF LateNext

\* A contract that is in approval always has an open chain, and never two.
THEOREM OneOpenChainForApproval ==
    Spec => []OneOpenChain /\ []InApprovalHasOpenChain
<1>1. Init => OneOpenChain /\ InApprovalHasOpenChain
  BY DEF Init, OneOpenChain, InApprovalHasOpenChain, InProgress
<1> QED  BY <1>1, TypeInit, TypeNext, OpenNext, NextIsLate, PTL DEF Spec

-----------------------------------------------------------------------------
(* An open chain is never stuck while its last order has a required step.   *)

\* The part of the invariant that speaks of one chain.
Progress(ch) == Settled(ch) /\ PointerValid(ch) /\ LastOpen(ch)

\* Progress depends only on the chain's row and on the status, the order and
\* the kind of its steps.
LEMMA ProgressFrame ==
    ASSUME NEW ch \in Chain, Progress(ch),
           chain'[ch] = chain[ch],
           \A j \in StepId :
              /\ steps'[ch][j].status = steps[ch][j].status
              /\ steps'[ch][j].order = steps[ch][j].order
              /\ steps'[ch][j].required = steps[ch][j].required
    PROVE  Progress(ch)'
<1>1. Settled(ch)'
  BY DEF Progress, Settled, Required, Exists, Pending, Peers
<1>2. PointerValid(ch)'
  BY DEF Progress, PointerValid, HasRequired, Undecided, Required, Exists,
         Pending
<1>3. LastOpen(ch)'
  BY DEF Progress, LastOpen, IsLast, Undecided, Required, Exists, Pending
<1> QED  BY <1>1, <1>2, <1>3 DEF Progress

\* What a decision does to the steps of its chain, and to no other chain's.
LEMMA DecideEffect ==
    ASSUME TypeOK, NEW ch \in Chain, NEW k \in StepId, NEW u \in User,
           NEW verdict \in StepStatus, NEW others,
           DecideStep(ch, k, u, verdict, others)
    PROVE  /\ \A a \in Chain \ {ch} : steps'[a] = steps[a]
           /\ steps'[ch][k].status = verdict
           /\ \A j \in StepId :
                 /\ steps'[ch][j].order = steps[ch][j].order
                 /\ steps'[ch][j].required = steps[ch][j].required
                 /\ j # k => steps'[ch][j].status =
                       IF j \in others THEN "skipped" ELSE steps[ch][j].status
<1>1. \A j \in StepId : steps[ch][j] \in StepRow
  BY DEF TypeOK
<1>2. \A a \in Chain \ {ch} : steps'[a] = steps[a]
  BY DEF DecideStep, TypeOK
<1>3. \A j \in StepId : steps'[ch][j] =
         IF j = k THEN DecidedRow(steps[ch][k], u, verdict)
         ELSE IF j \in others
              THEN [steps[ch][j] EXCEPT !.status = "skipped"]
              ELSE steps[ch][j]
  BY DEF DecideStep, TypeOK
<1>4. /\ DecidedRow(steps[ch][k], u, verdict).status = verdict
      /\ DecidedRow(steps[ch][k], u, verdict).order = steps[ch][k].order
      /\ DecidedRow(steps[ch][k], u, verdict).required = steps[ch][k].required
  BY <1>1 DEF DecidedRow, StepRow
<1>5. \A j \in StepId :
         LET r == [steps[ch][j] EXCEPT !.status = "skipped"] IN
         /\ r.status = "skipped"
         /\ r.order = steps[ch][j].order
         /\ r.required = steps[ch][j].required
  BY <1>1 DEF StepRow
<1> QED  BY <1>2, <1>3, <1>4, <1>5

\* The rejection of an optional step keeps its chain able to finish.
LEMMA ProgressRejectOptional ==
    ASSUME TypeOK, NEW ch \in Chain, NEW k \in StepId, NEW u \in User,
           Progress(ch), RejectOptional(ch, k, u)
    PROVE  Progress(ch)'
<1>1. /\ chain' = chain /\ ~steps[ch][k].required
      /\ Pending(ch, k) /\ DecideStep(ch, k, u, "rejected", {})
  BY DEF RejectOptional, DecideStep
<1>2. /\ steps'[ch][k].status = "rejected"
      /\ \A j \in StepId :
            /\ steps'[ch][j].order = steps[ch][j].order
            /\ steps'[ch][j].required = steps[ch][j].required
            /\ j # k => steps'[ch][j].status = steps[ch][j].status
  BY <1>1, DecideEffect DEF StepStatus
<1>3. /\ \A j \in StepId : Exists(ch, j)' <=> Exists(ch, j)
      /\ \A j \in StepId : Required(ch, j)' <=> Required(ch, j)
      /\ \A j \in StepId : Required(ch, j) =>
            j # k /\ (Pending(ch, j)' <=> Pending(ch, j))
      /\ \A j \in StepId : Pending(ch, j)' => Pending(ch, j)
  BY <1>1, <1>2 DEF Exists, Required, Pending
<1>4. Settled(ch)'
  BY <1>1, <1>2, <1>3 DEF Progress, Settled, Peers
<1>5. PointerValid(ch)'
  BY <1>1, <1>2, <1>3 DEF Progress, PointerValid, HasRequired, Undecided
<1>6. LastOpen(ch)'
  BY <1>1, <1>2, <1>3 DEF Progress, LastOpen, IsLast, Undecided
<1> QED  BY <1>4, <1>5, <1>6 DEF Progress

\* An approval whose group still waits for others keeps its chain able to finish.
LEMMA ProgressApproveWait ==
    ASSUME TypeOK, NEW ch \in Chain, NEW k \in StepId, NEW u \in User,
           Progress(ch), ApproveWait(ch, k, u)
    PROVE  Progress(ch)'
<1>1. /\ chain' = chain /\ Pending(ch, k) /\ ~CarriesGroup(ch, k)
      /\ DecideStep(ch, k, u, "approved", {})
  BY DEF ApproveWait, DecideStep, Advances, SkippedPeers
<1>2. PICK w \in Peers(ch, k) : Required(ch, w) /\ Pending(ch, w)
  BY DEF ApproveWait, Advances
<1>3. /\ steps'[ch][k].status = "approved"
      /\ \A j \in StepId :
            /\ steps'[ch][j].order = steps[ch][j].order
            /\ steps'[ch][j].required = steps[ch][j].required
            /\ j # k => steps'[ch][j].status = steps[ch][j].status
  BY <1>1, DecideEffect DEF StepStatus
<1>4. /\ \A j \in StepId : Exists(ch, j)' <=> Exists(ch, j)
      /\ \A j \in StepId : Required(ch, j)' <=> Required(ch, j)
      /\ \A j \in StepId : j # k => (Pending(ch, j)' <=> Pending(ch, j))
      /\ ~Pending(ch, k)'
      /\ \A j \in StepId : Peers(ch, j)' = Peers(ch, j)
  BY <1>1, <1>3 DEF Exists, Required, Pending, Peers
<1>5. Settled(ch)'
  <2> SUFFICES ASSUME (chain[ch].status = "in_progress")', NEW i \in StepId,
                      Required(ch, i)'
               PROVE  (/\ steps[ch][i].status \in {"pending", "approved", "skipped"}
                       /\ steps[ch][i].status = "skipped" =>
                            \E j \in StepId :
                               /\ Required(ch, j)
                               /\ steps[ch][j].status = "approved"
                               /\ steps[ch][j].order = steps[ch][i].order
                       /\ ~Pending(ch, i) =>
                            \A j \in Peers(ch, i) : Pending(ch, j) => Required(ch, j))'
    BY DEF Settled
  <2>1. CASE i = k
    BY <2>1, <1>1, <1>3, <1>4 DEF CarriesGroup, Required, Peers
  <2>2. CASE i # k
    BY <2>2, <1>1, <1>3, <1>4 DEF Progress, Settled, Pending, Peers
  <2> QED  BY <2>1, <2>2
<1>6. \A o : (\E j \in StepId :
                 Required(ch, j) /\ Pending(ch, j) /\ steps[ch][j].order = o)
              => (\E j \in StepId : Required(ch, j)' /\ Pending(ch, j)'
                                    /\ steps'[ch][j].order = o)
  BY <1>2, <1>3, <1>4 DEF Peers
<1>7. PointerValid(ch)'
  BY <1>1, <1>3, <1>4, <1>6 DEF Progress, PointerValid, HasRequired, Undecided
<1>8. LastOpen(ch)'
  <2>1. \A i \in StepId : IsLast(ch, i)' => IsLast(ch, i)
    BY <1>3, <1>4 DEF IsLast
  <2> QED
    BY <1>1, <1>3, <1>4, <1>6, <2>1 DEF Progress, LastOpen, Undecided
<1> QED  BY <1>5, <1>7, <1>8 DEF Progress

\* An approval that settles its order keeps the chain able to finish, with its
\* pointer on the next order.
LEMMA ProgressApproveAdvance ==
    ASSUME TypeOK, NEW ch \in Chain, NEW k \in StepId, NEW u \in User,
           Progress(ch), ApproveAdvance(ch, k, u)
    PROVE  Progress(ch)'
<1> DEFINE others == SkippedPeers(ch, k)
<1>1. /\ Pending(ch, k) /\ Advances(ch, k)
      /\ DecideStep(ch, k, u, "approved", others)
  BY DEF ApproveAdvance, DecideStep
<1>2. PICK n \in Later(ch, k) :
         chain' = [chain EXCEPT ![ch].current = steps[ch][n].order]
  BY DEF ApproveAdvance
<1>3. /\ chain'[ch].status = chain[ch].status
      /\ chain'[ch].current = steps[ch][n].order
  BY <1>2 DEF TypeOK, ChainRow
<1>4. /\ steps'[ch][k].status = "approved"
      /\ \A j \in StepId :
            /\ steps'[ch][j].order = steps[ch][j].order
            /\ steps'[ch][j].required = steps[ch][j].required
            /\ j # k => steps'[ch][j].status =
                  IF j \in others THEN "skipped" ELSE steps[ch][j].status
  BY <1>1, DecideEffect DEF StepStatus
<1>5. \A j \in others : /\ j \in Peers(ch, k) /\ Pending(ch, j)
                        /\ CarriesGroup(ch, k)
  BY DEF SkippedPeers
<1>6. /\ \A j \in StepId : Exists(ch, j)' <=> Exists(ch, j)
      /\ \A j \in StepId : Required(ch, j)' <=> Required(ch, j)
      /\ \A j \in StepId : Pending(ch, j)' <=>
            Pending(ch, j) /\ j # k /\ j \notin others
      /\ \A j \in StepId : Peers(ch, j)' = Peers(ch, j)
  BY <1>1, <1>4, <1>5 DEF Exists, Required, Pending, Peers
<1>7. /\ n \in StepId /\ Pending(ch, n)
      /\ steps[ch][n].order > steps[ch][k].order
      /\ \A j \in StepId : steps[ch][j].order \in Nat
  BY <1>2 DEF Later, TypeOK, StepRow
<1>8. \A j \in StepId :
         Pending(ch, j) /\ steps[ch][j].order > steps[ch][k].order
            => Pending(ch, j)'
  BY <1>5, <1>6, <1>7 DEF Peers
<1>9. Settled(ch)'
  <2> SUFFICES ASSUME (chain[ch].status = "in_progress")', NEW i \in StepId,
                      Required(ch, i)'
               PROVE  (/\ steps[ch][i].status \in {"pending", "approved", "skipped"}
                       /\ steps[ch][i].status = "skipped" =>
                            \E j \in StepId :
                               /\ Required(ch, j)
                               /\ steps[ch][j].status = "approved"
                               /\ steps[ch][j].order = steps[ch][i].order
                       /\ ~Pending(ch, i) =>
                            \A j \in Peers(ch, i) : Pending(ch, j) => Required(ch, j))'
    BY DEF Settled
  <2>1. CASE i = k
    <3>1. ASSUME NEW j \in Peers(ch, k), Pending(ch, j)'
          PROVE  Required(ch, j)
      <4>1. Pending(ch, j) /\ j \notin others /\ Exists(ch, j)
        BY <1>6, <3>1 DEF Peers
      <4>2. ~CarriesGroup(ch, k)
        BY <3>1, <4>1 DEF SkippedPeers
      <4> QED
        BY <2>1, <1>6, <3>1, <4>1, <4>2 DEF CarriesGroup, Required
    <3> QED  BY <2>1, <3>1, <1>4, <1>6 DEF Peers
  <2>2. CASE i \in others
    <3>1. \A j \in Peers(ch, i) : ~Pending(ch, j)'
      BY <2>2, <1>5, <1>6 DEF SkippedPeers, Peers
    <3>2. Required(ch, k)
      BY <2>2, <1>1, <1>5 DEF CarriesGroup, Required, Exists, Pending
    <3>3. steps'[ch][i].status = "skipped" /\ steps[ch][i].order = steps[ch][k].order
      BY <2>2, <1>4, <1>5 DEF Peers
    <3> QED  BY <3>1, <3>2, <3>3, <1>4, <1>6
  <2>3. CASE i # k /\ i \notin others
    BY <2>3, <1>1, <1>3, <1>4, <1>5, <1>6 DEF Progress, Settled, Pending, Peers
  <2> QED  BY <2>1, <2>2, <2>3
<1>10. PointerValid(ch)'
  <2>1. ASSUME chain[ch].status = "in_progress", NEW i \in StepId,
               Required(ch, i), steps[ch][i].order = steps[ch][n].order
        PROVE  Required(ch, n) \/ Pending(ch, i)
    <3>1. CASE i = n
      BY <3>1, <1>7
    <3>2. CASE i # n
      <4>1. n \in Peers(ch, i)
        BY <2>1, <3>2, <1>7 DEF Peers, Exists, Pending
      <4> QED  BY <2>1, <4>1, <1>7 DEF Progress, Settled
    <3> QED  BY <3>1, <3>2
  <2> QED
    BY <2>1, <1>3, <1>4, <1>6, <1>7, <1>8 DEF PointerValid, HasRequired, Undecided
<1>11. LastOpen(ch)'
  <2>1. \A i \in StepId : IsLast(ch, i)' =>
           IsLast(ch, i) /\ steps[ch][i].order > steps[ch][k].order
    BY <1>4, <1>6, <1>7 DEF IsLast, Exists, Pending
  <2> QED
    BY <2>1, <1>3, <1>4, <1>6, <1>8 DEF Progress, LastOpen, Undecided
<1> QED  BY <1>9, <1>10, <1>11 DEF Progress

\* A decision keeps every chain able to finish.
LEMMA ProgressDecide ==
    ASSUME TypeOK, NEW ch \in Chain, NEW k \in StepId, NEW u \in User,
           GroupsSettled, PointerAtUndecided, LastOrderOutstanding,
           Decide(ch, k, u), NEW a \in Chain
    PROVE  Progress(a)'
<1>1. Progress(a) /\ Progress(ch)
  BY DEF Progress, GroupsSettled, PointerAtUndecided, LastOrderOutstanding
<1>2. CASE a # ch
  <2>1. chain'[a] = chain[a]
    BY <1>2, DecideOpens
  <2>2. steps'[a] = steps[a]
    BY <1>2 DEF Decide, RejectRequired, RejectOptional, RequestResubmission,
                ApproveWait, ApproveAdvance, ApproveFinal, DecideStep, TypeOK
  <2> QED  BY <1>1, <2>1, <2>2, ProgressFrame
<1>3. CASE a = ch
  <2>1. CASE chain'[ch].status # "in_progress"
    BY <1>3, <2>1 DEF Progress, Settled, PointerValid, LastOpen
  <2>2. CASE RejectRequired(ch, k, u) \/ RequestResubmission(ch, k, u)
             \/ ApproveFinal(ch, k, u)
    <3>1. chain'[ch].status # "in_progress"
      BY <2>2 DEF RejectRequired, RequestResubmission, ApproveFinal, EndChain,
                  TypeOK, ChainRow
    <3> QED  BY <3>1, <2>1
  <2> QED
    BY <1>1, <1>3, <2>2, ProgressRejectOptional, ProgressApproveWait,
       ProgressApproveAdvance DEF Decide
<1> QED  BY <1>2, <1>3

\* An escalation peer joins its order without unsettling the chain, whenever it
\* arrives.
LEMMA ProgressEscalate ==
    ASSUME TypeOK, NEW ch \in Chain, NEW k \in StepId, NEW new \in StepId,
           Progress(ch), LateEscalate(ch, k, new)
    PROVE  Progress(ch)'
<1>1. /\ chain' = chain /\ Pending(ch, k) /\ ~Exists(ch, new) /\ new # k
  BY DEF LateEscalate, Exists, Pending
<1>2. /\ \A j \in StepId \ {new} :
            /\ steps'[ch][j].status = steps[ch][j].status
            /\ steps'[ch][j].order = steps[ch][j].order
            /\ steps'[ch][j].required = steps[ch][j].required
      /\ steps'[ch][new].status = "pending"
      /\ steps'[ch][new].order = steps[ch][k].order
      /\ steps'[ch][new].required = steps[ch][k].required
  <2>1. steps[ch] \in [StepId -> StepRow] /\ steps[ch][k] \in StepRow
    BY DEF TypeOK
  <2>2. steps'[ch] = [[steps[ch] EXCEPT ![k] = [steps[ch][k] EXCEPT !.grouped = TRUE]]
           EXCEPT ![new] =
              [status |-> "pending", order |-> steps[ch][k].order,
               required |-> steps[ch][k].required, grouped |-> TRUE,
               role |-> steps[ch][k].escRole, escRole |-> NoRole,
               approver |-> NoUser, delegated |-> NoUser,
               reassigned |-> NoUser]]
    BY <1>1, <2>1 DEF LateEscalate, TypeOK
  <2>3. /\ [steps[ch][k] EXCEPT !.grouped = TRUE].status = steps[ch][k].status
        /\ [steps[ch][k] EXCEPT !.grouped = TRUE].order = steps[ch][k].order
        /\ [steps[ch][k] EXCEPT !.grouped = TRUE].required = steps[ch][k].required
    BY <2>1 DEF StepRow
  <2>4. \A j \in StepId \ {new, k} : steps'[ch][j] = steps[ch][j]
    BY <1>1, <2>1, <2>2
  <2>5. steps'[ch][k] = [steps[ch][k] EXCEPT !.grouped = TRUE]
    BY <1>1, <2>1, <2>2
  <2>6. /\ steps'[ch][new].status = "pending"
        /\ steps'[ch][new].order = steps[ch][k].order
        /\ steps'[ch][new].required = steps[ch][k].required
    BY <1>1, <2>1, <2>2
  <2> QED  BY <2>3, <2>4, <2>5, <2>6
<1>3. /\ \A j \in StepId : Exists(ch, j)' <=> Exists(ch, j) \/ j = new
      /\ \A j \in StepId : Required(ch, j)' <=>
            Required(ch, j) \/ (j = new /\ Required(ch, k))
      /\ \A j \in StepId : Pending(ch, j)' <=> Pending(ch, j) \/ j = new
      /\ Exists(ch, k)
  BY <1>1, <1>2 DEF Exists, Required, Pending
<1>4. Settled(ch)'
  <2> SUFFICES ASSUME (chain[ch].status = "in_progress")', NEW i \in StepId,
                      Required(ch, i)'
               PROVE  (/\ steps[ch][i].status \in {"pending", "approved", "skipped"}
                       /\ steps[ch][i].status = "skipped" =>
                            \E j \in StepId :
                               /\ Required(ch, j)
                               /\ steps[ch][j].status = "approved"
                               /\ steps[ch][j].order = steps[ch][i].order
                       /\ ~Pending(ch, i) =>
                            \A j \in Peers(ch, i) : Pending(ch, j) => Required(ch, j))'
    BY DEF Settled
  <2>1. CASE i = new
    BY <2>1, <1>2 DEF Pending
  <2>2. CASE i # new
    <3>1. Required(ch, i) /\ Exists(ch, i)
      BY <2>2, <1>3 DEF Required
    <3>2. ASSUME ~Pending(ch, i)', NEW j \in Peers(ch, i)', Pending(ch, j)'
          PROVE  Required(ch, j)'
      <4>1. CASE j = new
        <5>1. k \in Peers(ch, i)
          BY <4>1, <3>1, <3>2, <2>2, <1>1, <1>2, <1>3 DEF Peers
        <5> QED
          BY <5>1, <4>1, <3>1, <3>2, <2>2, <1>1, <1>3 DEF Progress, Settled
      <4>2. CASE j # new
        <5>1. j \in Peers(ch, i) /\ Pending(ch, j)
          BY <4>2, <3>2, <2>2, <1>2, <1>3 DEF Peers
        <5>2. j \in StepId /\ ~Pending(ch, i)
          BY <5>1, <3>2, <1>3 DEF Peers
        <5>3. Required(ch, j)
          BY <5>1, <5>2, <3>1, <2>2, <1>1 DEF Progress, Settled
        <5> QED  BY <5>2, <5>3, <1>3
      <4> QED  BY <4>1, <4>2
    <3>3. steps[ch][i].status \in {"pending", "approved", "skipped"}
      BY <3>1, <1>1 DEF Progress, Settled
    <3>4. ASSUME steps[ch][i].status = "skipped"
          PROVE  \E j \in StepId \ {new} :
                    /\ Required(ch, j)
                    /\ steps[ch][j].status = "approved"
                    /\ steps[ch][j].order = steps[ch][i].order
      BY <3>1, <3>4, <1>1 DEF Progress, Settled, Required
    <3> QED  BY <3>2, <3>3, <3>4, <2>2, <1>2, <1>3
  <2> QED  BY <2>1, <2>2
<1>5. \A o : (\E j \in StepId :
                 Required(ch, j) /\ Pending(ch, j) /\ steps[ch][j].order = o)
              => (\E j \in StepId : Required(ch, j)' /\ Pending(ch, j)'
                                    /\ steps'[ch][j].order = o)
  BY <1>1, <1>2, <1>3 DEF Required
<1>6. PointerValid(ch)'
  BY <1>1, <1>2, <1>3, <1>5 DEF Progress, PointerValid, HasRequired, Undecided
<1>7. LastOpen(ch)'
  <2>1. \A i \in StepId \ {new} : Exists(ch, i) /\ IsLast(ch, i)' => IsLast(ch, i)
    BY <1>1, <1>2, <1>3 DEF IsLast
  <2>2. IsLast(ch, new)' => IsLast(ch, k)
    BY <1>1, <1>2, <1>3 DEF IsLast
  <2> QED
    BY <1>1, <1>2, <1>3, <1>5, <2>1, <2>2 DEF Progress, LastOpen, Undecided, Required
<1> QED  BY <1>4, <1>6, <1>7 DEF Progress

\* A chain just routed can finish.
LEMMA ProgressRoute ==
    ASSUME TypeOK, NEW c \in Contract, NEW ch \in Chain, NEW m \in Matrix,
           RouteInit(c, ch, m)
    PROVE  Progress(ch)'
<1>1. /\ steps'[ch] = m /\ chain'[ch].current = 1
      /\ \A k \in StepId : m[k].status \in {"none", "pending"}
  BY MatrixAssumption DEF RouteInit, TypeOK
<1>2. Settled(ch)'
  BY <1>1 DEF Settled, Required, Exists, Pending
<1>3. PointerValid(ch)'
  BY <1>1 DEF PointerValid, HasRequired, Undecided, Required, Exists, Pending
<1>4. LastOpen(ch)'
  BY <1>1 DEF LastOpen, Undecided, Required, Exists, Pending
<1> QED  BY <1>2, <1>3, <1>4 DEF Progress

\* Every operation keeps every chain able to finish.
LEMMA ProgressNext ==
    ASSUME TypeOK, GroupsSettled, PointerAtUndecided, LastOrderOutstanding,
           [LateNext]_vars
    PROVE  GroupsSettled' /\ PointerAtUndecided' /\ LastOrderOutstanding'
<1> SUFFICES ASSUME NEW a \in Chain PROVE Progress(a)'
  BY DEF Progress, GroupsSettled, PointerAtUndecided, LastOrderOutstanding
<1>1. Progress(a)
  BY DEF Progress, GroupsSettled, PointerAtUndecided, LastOrderOutstanding
<1>2. ASSUME NEW c \in Contract, NEW ch \in Chain, NEW m \in Matrix,
             RouteInit(c, ch, m)
      PROVE  Progress(a)'
  <2>1. CASE a = ch
    BY <1>2, <2>1, ProgressRoute
  <2>2. CASE a # ch
    <3>1. chain'[a] = chain[a] /\ steps'[a] = steps[a]
      BY <1>2, <2>2 DEF RouteInit, TypeOK
    <3> QED  BY <1>1, <3>1, ProgressFrame
  <2> QED  BY <2>1, <2>2
<1>3. ASSUME NEW ch \in Chain, NEW k \in StepId, NEW u \in User, NEW to \in User,
             Delegate(ch, k, u, to) \/ Reassign(ch, k, u, to)
      PROVE  Progress(a)'
  <2>1. chain'[a] = chain[a] /\ \A j \in StepId : steps[a][j] \in StepRow
    BY <1>3 DEF Delegate, Reassign, TypeOK
  <2>2. steps[ch] \in [StepId -> StepRow] /\ steps[ch][k] \in StepRow
    BY DEF TypeOK
  <2>3. CASE Delegate(ch, k, u, to)
    <3>1. \A j \in StepId : steps'[a][j] =
             IF a = ch /\ j = k THEN [steps[ch][k] EXCEPT !.delegated = to]
                                ELSE steps[a][j]
      BY <2>2, <2>3 DEF Delegate, TypeOK
    <3>2. \A j \in StepId : /\ steps'[a][j].status = steps[a][j].status
                            /\ steps'[a][j].order = steps[a][j].order
                            /\ steps'[a][j].required = steps[a][j].required
      BY <2>2, <3>1 DEF StepRow
    <3> QED  BY <1>1, <2>1, <3>2, ProgressFrame
  <2>4. CASE Reassign(ch, k, u, to)
    <3>1. steps' = [steps EXCEPT ![ch] = [steps[ch] EXCEPT ![k] =
             [steps[ch][k] EXCEPT !.approver = to, !.reassigned = to]]]
      BY <2>2, <2>4 DEF Reassign, TypeOK
    <3>2. \A j \in StepId : steps'[a][j] =
             IF a = ch /\ j = k
             THEN [steps[ch][k] EXCEPT !.approver = to, !.reassigned = to]
             ELSE steps[a][j]
      BY <2>2, <3>1 DEF TypeOK
    <3>3. LET r == [steps[ch][k] EXCEPT !.approver = to, !.reassigned = to] IN
          /\ r.status = steps[ch][k].status
          /\ r.order = steps[ch][k].order
          /\ r.required = steps[ch][k].required
      BY <2>2 DEF StepRow
    <3>4. \A j \in StepId : /\ steps'[a][j].status = steps[a][j].status
                            /\ steps'[a][j].order = steps[a][j].order
                            /\ steps'[a][j].required = steps[a][j].required
      BY <3>2, <3>3
    <3> QED  BY <1>1, <2>1, <3>4, ProgressFrame
  <2> QED  BY <1>3, <2>3, <2>4
<1>4. ASSUME NEW ch \in Chain, NEW k \in StepId, NEW new \in StepId,
             LateEscalate(ch, k, new)
      PROVE  Progress(a)'
  <2>1. CASE a = ch
    BY <1>1, <1>4, <2>1, ProgressEscalate
  <2>2. CASE a # ch
    <3>1. chain'[a] = chain[a] /\ steps'[a] = steps[a]
      BY <1>4, <2>2 DEF LateEscalate, TypeOK
    <3> QED  BY <1>1, <3>1, ProgressFrame
  <2> QED  BY <2>1, <2>2
<1>5. CASE UNCHANGED <<chain, steps>>
  BY <1>1, <1>5, ProgressFrame
<1>6. ASSUME NEW c \in Contract, NEW new \in ContractState,
             StatusUpdateUser(c, new)
      PROVE  UNCHANGED <<chain, steps>>
  BY <1>6 DEF StatusUpdateUser
<1>7. CASE UNCHANGED vars
  BY <1>5, <1>7 DEF vars
<1>8. ASSUME NEW ch \in Chain, NEW k \in StepId, NEW u \in User,
             Decide(ch, k, u)
      PROVE  Progress(a)'
  BY <1>8, ProgressDecide
<1>9. ASSUME NEW c \in Contract, DeleteContract(c)
      PROVE  UNCHANGED <<chain, steps>>
  BY <1>9 DEF DeleteContract
<1> QED
  BY <1>2, <1>3, <1>4, <1>5, <1>6, <1>7, <1>8, <1>9 DEF LateNext

\* The pointer of an open chain stays on an order that still needs a required
\* decision, and the last order's sign-off is outstanding until the end.
THEOREM OpenChainsProgress ==
    Spec => []PointerAtUndecided /\ []LastOrderOutstanding /\ []GroupsSettled
<1>1. Init => GroupsSettled /\ PointerAtUndecided /\ LastOrderOutstanding
  BY DEF Init, GroupsSettled, PointerAtUndecided, LastOrderOutstanding,
         Settled, PointerValid, LastOpen
<1> QED  BY <1>1, TypeInit, TypeNext, ProgressNext, NextIsLate, PTL DEF Spec

\* The steps of an open chain are settled the way the two invariants above need:
\* no required step is rejected or skipped for nothing, and once one is decided
\* no optional peer of it waits.
THEOREM GroupsAlwaysSettled == Spec => []GroupsSettled
BY OpenChainsProgress, PTL

\* No call moves a contract out of rejected or cancelled.
LEMMA TerminalNext ==
    ASSUME TypeOK, [LateNext]_vars, NEW c \in Contract,
           status[c] \in {"rejected", "cancelled"}
    PROVE  status'[c] = status[c]
<1>1. ASSUME NEW d \in Contract, NEW new \in {"approved", "rejected", "draft"},
             StatusUpdateInternal(d, new)
      PROVE  status'[c] = status[c]
  <2>1. status[d] \notin {"rejected", "cancelled"}
    BY <1>1 DEF StatusUpdateInternal, InternalTransitions
  <2> QED  BY <1>1, <2>1 DEF StatusUpdateInternal, TypeOK
<1>2. ASSUME NEW ch \in Chain, NEW k \in StepId, NEW u \in User,
             Decide(ch, k, u)
      PROVE  status'[c] = status[c]
  <2>1. chain[ch].contract \in Contract
    BY DEF TypeOK, ChainRow
  <2> QED
    BY <1>1, <1>2, <2>1
    DEF Decide, RejectRequired, RejectOptional, RequestResubmission,
        ApproveWait, ApproveAdvance, ApproveFinal, EndChain
<1>3. ASSUME NEW d \in Contract, NEW ch \in Chain, NEW m \in Matrix,
             RouteInit(d, ch, m)
      PROVE  status'[c] = status[c]
  BY <1>3 DEF RouteInit, TypeOK
<1>4. ASSUME NEW d \in Contract, NEW new \in ContractState,
             StatusUpdateUser(d, new)
      PROVE  status'[c] = status[c]
  BY <1>4 DEF StatusUpdateUser, UserTransitions, DrafterCancellable,
                    AdminCancellable, TypeOK
<1>5. ASSUME NEW d \in Contract, DeleteContract(d)
      PROVE  status' = status
  BY <1>5 DEF DeleteContract
<1>6. ASSUME NEW ch \in Chain, NEW k \in StepId, NEW u \in User,
             NEW to \in User, Delegate(ch, k, u, to) \/ Reassign(ch, k, u, to)
      PROVE  status' = status
  BY <1>6 DEF Delegate, Reassign
<1>7. ASSUME NEW ch \in Chain, NEW k \in StepId, NEW new \in StepId,
             LateEscalate(ch, k, new)
      PROVE  status' = status
  BY <1>7 DEF LateEscalate
<1>8. CASE UNCHANGED vars
  BY <1>8 DEF vars
<1> QED
  BY <1>2, <1>3, <1>4, <1>5, <1>6, <1>7, <1>8 DEF LateNext

\* Rejected and cancelled contracts are at rest: no decision on any of their
\* chains moves them.
THEOREM TerminalContractsStay == Spec => TerminalStays
<1>1. TypeOK /\ [LateNext]_vars =>
         [\A c \in Contract :
            status[c] \in {"rejected", "cancelled"} => status'[c] = status[c]]_vars
  BY TerminalNext
<1> QED  BY <1>1, TypeCorrect, NextIsLate, PTL DEF Spec, TerminalStays

-----------------------------------------------------------------------------
(* What an approval rests on, and who may give it.                          *)

SignedOff(ch, k) ==
    /\ steps[ch][k].status \in {"approved", "skipped"}
    /\ \E j \in StepId : /\ steps[ch][j].status = "approved"
                         /\ steps[ch][j].required
                         /\ steps[ch][j].order = steps[ch][k].order

\* What LastOrderSignedOff says of a step.
LastOrderStep ==
    \A ch \in Chain :
      chain[ch].status = "in_progress" /\ chain'[ch].status = "approved" =>
         \A k \in StepId :
            (steps'[ch][k].status # "none" /\ steps'[ch][k].required
               /\ \A j \in StepId : steps'[ch][j].status # "none" =>
                     steps'[ch][j].order <= steps'[ch][k].order)
            => /\ steps'[ch][k].status \in {"approved", "skipped"}
               /\ \E j \in StepId :
                     /\ steps'[ch][j].status = "approved"
                     /\ steps'[ch][j].required
                     /\ steps'[ch][j].order = steps'[ch][k].order

\* The approval that ends an open chain decides a required step of its last
\* order, or one beside a required step of the order that was approved.
LEMMA FinalSignsOff ==
    ASSUME TypeOK, NEW ch \in Chain, NEW k \in StepId, NEW u \in User,
           Settled(ch), LastOpen(ch), chain[ch].status = "in_progress",
           ApproveFinal(ch, k, u),
           NEW x \in StepId, Required(ch, x), IsLast(ch, x)
    PROVE  SignedOff(ch, x)'
<1>1. /\ Pending(ch, k) /\ Advances(ch, k) /\ Later(ch, k) = {}
      /\ DecideStep(ch, k, u, "approved", SkippedPeers(ch, k))
  BY DEF ApproveFinal, DecideStep
<1>2. /\ steps'[ch][k].status = "approved"
      /\ \A j \in StepId :
            /\ steps'[ch][j].order = steps[ch][j].order
            /\ steps'[ch][j].required = steps[ch][j].required
            /\ j # k => steps'[ch][j].status =
                  IF j \in SkippedPeers(ch, k) THEN "skipped" ELSE steps[ch][j].status
  BY <1>1, DecideEffect DEF StepStatus
<1>3. /\ \A j \in StepId : steps[ch][j].order \in Nat /\ steps[ch][j].required \in BOOLEAN
      /\ Exists(ch, k)
  BY <1>1 DEF TypeOK, StepRow, Pending, Exists
\* The last order is the one being decided.
<1>4. steps[ch][x].order = steps[ch][k].order
  <2>1. Undecided(ch, steps[ch][x].order) # {}
    BY DEF LastOpen
  <2>2. ~(steps[ch][x].order > steps[ch][k].order)
    BY <1>1, <2>1 DEF Undecided, Later
  <2>3. steps[ch][k].order <= steps[ch][x].order
    BY <1>3 DEF IsLast
  <2> QED  BY <1>3, <2>2, <2>3
<1>5. CASE steps[ch][k].required
  <2>1. steps'[ch][x].status \in {"approved", "skipped"}
    <3>1. CASE x = k
      BY <1>2, <3>1
    <3>2. CASE x # k /\ ~Pending(ch, x)
      <4>1. steps[ch][x].status \in {"approved", "skipped"}
        BY <3>2 DEF Settled, Pending
      <4> QED  BY <1>2, <3>2, <4>1
    <3>3. CASE x # k /\ Pending(ch, x)
      <4>1. x \in Peers(ch, k)
        BY <1>4, <3>3 DEF Peers, Required
      <4>2. CarriesGroup(ch, k)
        BY <1>1, <3>3, <4>1 DEF Advances
      <4> QED  BY <1>2, <3>3, <4>1, <4>2 DEF SkippedPeers
    <3> QED  BY <3>1, <3>2, <3>3
  <2> QED  BY <1>2, <1>4, <1>5, <2>1 DEF SignedOff
\* An optional step is no longer pending once a required one was decided, and
\* does not end the chain while one waits.
<1>6. CASE ~steps[ch][k].required
  <2>1. x # k
    BY <1>6 DEF Required
  <2>2. x \in Peers(ch, k) /\ k \in Peers(ch, x)
    BY <1>3, <1>4, <2>1 DEF Peers, Required
  <2>3. ~Pending(ch, x)
    BY <1>1, <1>6, <2>2 DEF Advances, CarriesGroup
  <2> QED  BY <1>1, <1>6, <2>2, <2>3 DEF Settled, Required
<1> QED  BY <1>5, <1>6

\* No other step approves a chain that is open.
LEMMA OnlyFinalApproves ==
    ASSUME TypeOK, LateNext, NEW ch \in Chain,
           chain[ch].status = "in_progress", chain'[ch].status = "approved"
    PROVE  \E k \in StepId, u \in User : ApproveFinal(ch, k, u)
<1>1. chain \in [Chain -> ChainRow]
  BY DEF TypeOK
<1>2. ASSUME NEW a \in Chain, NEW k \in StepId, NEW u \in User, Decide(a, k, u)
      PROVE  a = ch /\ ApproveFinal(ch, k, u)
  <2>1. CASE ApproveFinal(a, k, u)
    BY <1>1, <2>1 DEF ApproveFinal
  <2>2. CASE RejectRequired(a, k, u) \/ RequestResubmission(a, k, u)
    <3>1. PICK s \in {"rejected", "resubmission_requested"} :
             chain' = [chain EXCEPT ![a].status = s]
      BY <2>2 DEF RejectRequired, RequestResubmission, EndChain
    <3> QED  BY <1>1, <3>1 DEF ChainRow
  <2>3. CASE RejectOptional(a, k, u) \/ ApproveWait(a, k, u)
    BY <2>3 DEF RejectOptional, ApproveWait
  <2>4. CASE ApproveAdvance(a, k, u)
    <3>1. PICK n : chain' = [chain EXCEPT ![a].current = n]
      BY <2>4 DEF ApproveAdvance
    <3> QED  BY <1>1, <3>1 DEF ChainRow
  <2> QED  BY <1>2, <2>1, <2>2, <2>3, <2>4 DEF Decide
<1>3. ASSUME NEW c \in Contract, NEW a \in Chain, NEW m \in Matrix, RouteInit(c, a, m)
      PROVE  FALSE
  BY <1>1, <1>3 DEF RouteInit
<1>4. chain' # chain
  OBVIOUS
<1>5. ASSUME NEW a \in Chain, NEW k \in StepId, NEW u \in User, NEW to \in User,
             Delegate(a, k, u, to) \/ Reassign(a, k, u, to)
      PROVE  FALSE
  BY <1>4, <1>5 DEF Delegate, Reassign
<1>6. ASSUME NEW a \in Chain, NEW k \in StepId, NEW new \in StepId, LateEscalate(a, k, new)
      PROVE  FALSE
  BY <1>4, <1>6 DEF LateEscalate
<1>7. ASSUME NEW c \in Contract, NEW new \in ContractState,
             StatusUpdateUser(c, new)
      PROVE  FALSE
  BY <1>4, <1>7 DEF StatusUpdateUser
<1>8. ASSUME NEW c \in Contract, DeleteContract(c)
      PROVE  FALSE
  BY <1>4, <1>8 DEF DeleteContract
<1> QED
  BY <1>2, <1>3, <1>5, <1>6, <1>7, <1>8 DEF LateNext

\* A chain that turns approved has the required step of its last order signed
\* off in the same step.
LEMMA NextSignsOff ==
    ASSUME TypeOK, GroupsSettled, LastOrderOutstanding, LateNext, NEW ch \in Chain,
           chain[ch].status = "in_progress", chain'[ch].status = "approved",
           NEW x \in StepId, steps'[ch][x].status # "none", steps'[ch][x].required,
           \A j \in StepId : steps'[ch][j].status # "none" =>
              steps'[ch][j].order <= steps'[ch][x].order
    PROVE  SignedOff(ch, x)'
<1>1. PICK k \in StepId, u \in User : ApproveFinal(ch, k, u)
  BY OnlyFinalApproves
<1>2. DecideStep(ch, k, u, "approved", SkippedPeers(ch, k)) /\ Pending(ch, k)
  BY <1>1 DEF ApproveFinal, DecideStep
<1>3. \A j \in StepId :
         /\ steps'[ch][j].order = steps[ch][j].order
         /\ steps'[ch][j].required = steps[ch][j].required
         /\ Exists(ch, j) <=> steps'[ch][j].status # "none"
  <2>1. /\ steps'[ch][k].status = "approved"
        /\ \A j \in StepId :
              /\ steps'[ch][j].order = steps[ch][j].order
              /\ steps'[ch][j].required = steps[ch][j].required
              /\ j # k => steps'[ch][j].status =
                    IF j \in SkippedPeers(ch, k) THEN "skipped" ELSE steps[ch][j].status
    BY <1>2, DecideEffect DEF StepStatus
  <2> QED  BY <1>2, <2>1 DEF Exists, Pending, SkippedPeers, Peers
<1>4. Required(ch, x) /\ IsLast(ch, x)
  BY <1>3 DEF Required, IsLast
<1> QED  BY <1>1, <1>4, FinalSignsOff DEF GroupsSettled, LastOrderOutstanding

\* A row that waits for somebody keeps its named approver under every update.
Kept(row) == row.status = "pending" /\ ~Unassigned(row) => row.approver # NoUser

\* Every operation keeps an approver, or a role, on each waiting step.
LEMMA KeptNext ==
    ASSUME TypeOK, AssignmentKept, [LateNext]_vars
    PROVE  AssignmentKept'
<1> SUFFICES ASSUME NEW a \in Chain, NEW j \in StepId PROVE Kept(steps'[a][j])
  BY DEF AssignmentKept, Kept, Pending, Unassigned
<1>1. Kept(steps[a][j])
  BY DEF AssignmentKept, Kept, Pending
<1>2. \A b \in Chain : steps[b] \in [StepId -> StepRow]
  BY DEF TypeOK
<1>3. ASSUME NEW c \in Contract, NEW ch \in Chain, NEW m \in Matrix, RouteInit(c, ch, m)
      PROVE  Kept(steps'[a][j])
  <2>1. steps'[a][j] \in {steps[a][j], m[j]}
    BY <1>3 DEF RouteInit, TypeOK
  <2>2. Kept(m[j])
    BY MatrixAssumption DEF Kept, Unassigned
  <2> QED  BY <1>1, <2>1, <2>2
<1>4. ASSUME NEW ch \in Chain, NEW k \in StepId, NEW u \in User, NEW v \in StepStatus,
             v # "pending", NEW others, DecideStep(ch, k, u, v, others)
      PROVE  Kept(steps'[a][j])
  <2>1. \/ steps'[a][j] = steps[a][j]
        \/ steps'[a][j] = DecidedRow(steps[a][j], u, v)
        \/ steps'[a][j] = [steps[a][j] EXCEPT !.status = "skipped"]
    BY <1>4 DEF DecideStep, TypeOK
  <2>2. DecidedRow(steps[a][j], u, v).status = v
        /\ [steps[a][j] EXCEPT !.status = "skipped"].status = "skipped"
    BY <1>2 DEF DecidedRow, StepRow
  <2> QED  BY <1>1, <1>4, <2>1, <2>2 DEF Kept
<1>5. ASSUME NEW ch \in Chain, NEW k \in StepId, NEW u \in User, Decide(ch, k, u)
      PROVE  Kept(steps'[a][j])
  BY <1>4, <1>5 DEF Decide, RejectRequired, RejectOptional, RequestResubmission,
                    ApproveWait, ApproveAdvance, ApproveFinal, StepStatus
<1>6. ASSUME NEW ch \in Chain, NEW k \in StepId, NEW u \in User, NEW to \in User,
             Delegate(ch, k, u, to)
      PROVE  Kept(steps'[a][j])
  <2>1. \/ steps'[a][j] = steps[a][j]
        \/ /\ steps'[a][j] = [steps[a][j] EXCEPT !.delegated = to]
           /\ steps[a][j].approver = u
    BY <1>2, <1>6 DEF Delegate, TypeOK
  <2>2. [steps[a][j] EXCEPT !.delegated = to].approver = steps[a][j].approver
    BY <1>2 DEF StepRow
  <2> QED  BY <1>1, <2>1, <2>2, RoleAssumption DEF Kept
<1>7. ASSUME NEW ch \in Chain, NEW k \in StepId, NEW u \in User, NEW to \in User,
             Reassign(ch, k, u, to)
      PROVE  Kept(steps'[a][j])
  <2>1. steps' = [steps EXCEPT ![ch] = [steps[ch] EXCEPT ![k] =
           [steps[ch][k] EXCEPT !.approver = to, !.reassigned = to]]]
    BY <1>2, <1>7 DEF Reassign, TypeOK
  <2>2. \/ steps'[a][j] = steps[a][j]
        \/ steps'[a][j] = [steps[a][j] EXCEPT !.approver = to, !.reassigned = to]
    BY <1>2, <2>1 DEF TypeOK
  <2>3. [steps[a][j] EXCEPT !.approver = to, !.reassigned = to].approver = to
    BY <1>2 DEF StepRow
  <2> QED  BY <1>1, <2>2, <2>3, RoleAssumption DEF Kept
<1>8. ASSUME NEW ch \in Chain, NEW k \in StepId, NEW new \in StepId, LateEscalate(ch, k, new)
      PROVE  Kept(steps'[a][j])
  <2> DEFINE peer == [status |-> "pending", order |-> steps[ch][k].order,
                      required |-> steps[ch][k].required, grouped |-> TRUE,
                      role |-> steps[ch][k].escRole, escRole |-> NoRole,
                      approver |-> NoUser, delegated |-> NoUser,
                      reassigned |-> NoUser]
  <2>1. new # k
    BY <1>8 DEF LateEscalate, Pending, Exists
  <2>2. steps' = [steps EXCEPT ![ch] = [steps[ch] EXCEPT
           ![k] = [steps[ch][k] EXCEPT !.grouped = TRUE], ![new] = peer]]
    BY <1>2, <1>8, <2>1 DEF LateEscalate, TypeOK
  <2>3. \/ steps'[a][j] = steps[a][j]
        \/ steps'[a][j] = [steps[a][j] EXCEPT !.grouped = TRUE]
        \/ steps'[a][j] = peer
    BY <1>2, <2>1, <2>2 DEF TypeOK
  <2>4. LET r == [steps[a][j] EXCEPT !.grouped = TRUE] IN
        /\ r.status = steps[a][j].status /\ r.approver = steps[a][j].approver
        /\ r.delegated = steps[a][j].delegated /\ r.reassigned = steps[a][j].reassigned
    BY <1>2 DEF StepRow
  <2>5. Kept(peer)
    BY DEF Kept, Unassigned
  <2>6. Kept([steps[a][j] EXCEPT !.grouped = TRUE])
    BY <1>1, <2>4 DEF Kept, Unassigned
  <2> QED  BY <1>1, <2>3, <2>5, <2>6
<1>9. CASE UNCHANGED steps
  BY <1>1, <1>9
<1> QED
  BY <1>3, <1>5, <1>6, <1>7, <1>8, <1>9
  DEF LateNext, StatusUpdateUser, DeleteContract, vars

\* An open chain is approved only when its last order was signed off, whatever
\* order the steps were decided in and whatever peers escalation added.
THEOREM ApprovalsAreSignedOff == Spec => LastOrderSignedOff
<1>1. Init => GroupsSettled /\ PointerAtUndecided /\ LastOrderOutstanding
  BY DEF Init, GroupsSettled, PointerAtUndecided, LastOrderOutstanding,
         Settled, PointerValid, LastOpen
<1>2. TypeOK /\ GroupsSettled /\ LastOrderOutstanding /\ [LateNext]_vars
        => [LastOrderStep]_vars
  BY NextSignsOff DEF LastOrderStep, SignedOff
<1> QED  BY <1>1, <1>2, TypeInit, TypeNext, ProgressNext, NextIsLate, PTL
         DEF Spec, LastOrderSignedOff, LastOrderStep

\* A step that awaits a decision has a named approver or is open to its role.
THEOREM AssignmentsAreKept == Spec => []AssignmentKept
<1>1. Init => AssignmentKept
  BY DEF Init, AssignmentKept, Pending
<1> QED  BY <1>1, TypeInit, TypeNext, KeptNext, NextIsLate, PTL DEF Spec

-----------------------------------------------------------------------------
(* The transactions: locks. *)

StepCall == {"decide", "reassign", "escalate"}
RowCall  == {"route", "update"}

Points == {"idle", "step", "peer", "chain", "contract", "audit", "peers", "write"}

\* The locks of different kinds, and of different rows, are different.
LEMMA LockNames ==
    /\ \A c \in Contract : AuditLock # ContractLock(c)
    /\ \A ch \in Chain : AuditLock # ChainLock(ch)
    /\ \A ch \in Chain, k \in StepId : AuditLock # StepLock(ch, k)
    /\ \A c \in Contract, ch \in Chain : ContractLock(c) # ChainLock(ch)
    /\ \A c \in Contract, ch \in Chain, k \in StepId :
          ContractLock(c) # StepLock(ch, k)
    /\ \A ch, a \in Chain, k \in StepId : ChainLock(a) # StepLock(ch, k)
<1>1. \A c \in Contract : AuditLock # ContractLock(c)
  BY DEF AuditLock, ContractLock
<1>2. \A ch \in Chain : AuditLock # ChainLock(ch)
  BY DEF AuditLock, ChainLock
<1>3. \A ch \in Chain, k \in StepId : AuditLock # StepLock(ch, k)
  BY DEF AuditLock, StepLock
<1>4. \A c \in Contract, ch \in Chain : ContractLock(c) # ChainLock(ch)
  BY DEF ContractLock, ChainLock
<1>5. \A c \in Contract, ch \in Chain, k \in StepId :
          ContractLock(c) # StepLock(ch, k)
  BY DEF ContractLock, StepLock
<1>6. \A ch, a \in Chain, k \in StepId : ChainLock(a) # StepLock(ch, k)
  BY DEF ChainLock, StepLock
<1> QED  BY <1>1, <1>2, <1>3, <1>4, <1>5, <1>6

\* A lock names one row.
LEMMA LockRows ==
    /\ \A ch, a \in Chain : ChainLock(ch) = ChainLock(a) => ch = a
    /\ \A c, d \in Contract : ContractLock(c) = ContractLock(d) => c = d
    /\ \A ch, a \in Chain, k, j \in StepId :
          StepLock(ch, k) = StepLock(a, j) => ch = a /\ k = j
<1>1. \A c, d \in Contract : ContractLock(c) = ContractLock(d) => c = d
  BY DEF ContractLock
<1>2. \A ch, a \in Chain, k, j \in StepId :
          StepLock(ch, k) = StepLock(a, j) => ch = a /\ k = j
  BY DEF StepLock
<1>3. \A ch, a \in Chain : ChainLock(ch) = ChainLock(a) => ch = a
  BY DEF ChainLock
<1> QED  BY <1>1, <1>2, <1>3

\* The calls a session can make, by kind, and what each carries.
LEMMA CallShapes ==
    ASSUME NEW r \in Call
    PROVE  /\ r.kind \in StepCall \cup RowCall
           /\ r.kind \in StepCall => r.ch \in Chain /\ r.k \in StepId
           /\ r.kind = "decide" => /\ r.u \in User
                                   /\ r.verdict \in {"approved", "rejected",
                                                     "resubmission_requested"}
           /\ r.kind = "reassign" => r.u \in Reassigner /\ r.to \in User
           /\ r.kind \in RowCall => r.c \in Contract
           /\ r.kind = "route" => r.m \in Matrix
           /\ r.kind = "update" => r.new \in ContractState
BY DEF Call, StepCall, RowCall, ContractState, UserTransitions,
       DrafterCancellable, AdminCancellable

\* The locks a session asks for, point by point.
LEMMA AskedAt ==
    ASSUME NEW t \in Txn
    PROVE  /\ pc[t] = "step" => Asked(t) = {StepLock(call[t].ch, call[t].k)}
           /\ pc[t] = "peer" => Asked(t) = {StepLock(call[t].ch, j) :
                                    j \in EscalationPeers(call[t].ch, call[t].k)}
           /\ pc[t] = "chain" /\ call[t].kind # "route" =>
                 Asked(t) = {ChainLock(call[t].ch)}
           /\ pc[t] = "contract" /\ call[t].kind \in RowCall =>
                 Asked(t) = {ContractLock(call[t].c)}
           /\ pc[t] = "contract" /\ call[t].kind \notin RowCall =>
                 Asked(t) = {ContractLock(chain[call[t].ch].contract)}
           /\ pc[t] = "audit" => Asked(t) = {AuditLock}
           /\ pc[t] \in {"idle", "write"} => Asked(t) = {}
<1>1. pc[t] = "step" => Asked(t) = {StepLock(call[t].ch, call[t].k)}
  BY Zenon DEF Asked
<1>2. pc[t] = "peer" => Asked(t) = {StepLock(call[t].ch, j) :
                            j \in EscalationPeers(call[t].ch, call[t].k)}
  BY Zenon DEF Asked
<1>3. pc[t] = "chain" /\ call[t].kind # "route" =>
         Asked(t) = {ChainLock(call[t].ch)}
  BY Zenon DEF Asked
<1>4. pc[t] = "contract" /\ call[t].kind \in RowCall =>
         Asked(t) = {ContractLock(call[t].c)}
  BY Zenon DEF Asked, RowCall
<1>5. pc[t] = "contract" /\ call[t].kind \notin RowCall =>
         Asked(t) = {ContractLock(chain[call[t].ch].contract)}
  BY Zenon DEF Asked, RowCall
<1>6. pc[t] = "audit" => Asked(t) = {AuditLock}
  BY Zenon DEF Asked
<1>7. pc[t] \in {"idle", "write"} => Asked(t) = {}
  <2>1. ASSUME pc[t] = "idle" \/ pc[t] = "write"
        PROVE  /\ pc[t] # "step" /\ pc[t] # "peer" /\ pc[t] # "chain"
               /\ pc[t] # "contract" /\ pc[t] # "audit" /\ pc[t] # "peers"
    BY <2>1
  <2> QED  BY <2>1, Zenon DEF Asked
<1> QED  BY <1>1, <1>2, <1>3, <1>4, <1>5, <1>6, <1>7

\* Where a call goes once it has its step.
LEMMA AfterStepAt ==
    ASSUME NEW t \in Txn
    PROVE  /\ call[t].kind = "decide" =>
                 AfterStep(t) = IF Unassigned(steps[call[t].ch][call[t].k])
                                THEN "audit" ELSE "chain"
           /\ call[t].kind = "reassign" => AfterStep(t) = "audit"
           /\ call[t].kind = "escalate" =>
                 \/ AfterStep(t) = "peer"
                 \/ /\ AfterStep(t) \in {"chain", "audit"}
                    /\ EscalationPeers(call[t].ch, call[t].k) = {}
<1>1. call[t].kind = "decide" =>
         AfterStep(t) = IF Unassigned(steps[call[t].ch][call[t].k])
                        THEN "audit" ELSE "chain"
  BY Zenon DEF AfterStep
<1>2. call[t].kind = "reassign" => AfterStep(t) = "audit"
  BY Zenon DEF AfterStep
<1>3. ASSUME call[t].kind = "escalate"
      PROVE  AfterStep(t) = IF EscalationPeers(call[t].ch, call[t].k) # {}
                            THEN "peer"
                            ELSE IF steps[call[t].ch][call[t].k].grouped
                                 THEN "chain" ELSE "audit"
  <2>1. call[t].kind # "decide" /\ call[t].kind # "reassign"
    BY <1>3
  <2> QED  BY <2>1, Zenon DEF AfterStep
<1> QED  BY <1>1, <1>2, <1>3

\* The points of a call that can hold the audit lock.
Locked == {"peers", "contract", "chain", "write"}

\* What the audit lock leads to, by kind of call.
LEMMA AfterAudit ==
    ASSUME NEW t \in Txn, LockAudit(t)
    PROVE  /\ pc[t] = "audit"
           /\ Take(t, AuditLock)
           /\ Claims(t) => seen[t].status = "pending"
           /\ peers' = peers \/ peers' = [peers EXCEPT ![t] = ToSkip(t)]
           /\ \E l \in Locked :
                 /\ pc' = [pc EXCEPT ![t] = l]
                 /\ call[t].kind = "decide" /\ Claims(t) =>
                       l = "chain" /\ UNCHANGED peers
                 /\ call[t].kind = "decide" /\ ~Claims(t) =>
                       /\ peers' = [peers EXCEPT ![t] = ToSkip(t)]
                       /\ l = IF ToSkip(t) = {} THEN "write" ELSE "peers"
                 /\ call[t].kind # "decide" => UNCHANGED peers
                 /\ call[t].kind = "reassign" => l = "contract"
                 /\ call[t].kind = "escalate" =>
                       l = IF ChainLock(call[t].ch) \in share[t]
                           THEN "contract" ELSE "chain"
                 /\ call[t].kind \in RowCall => l = "write"
           /\ UNCHANGED <<status, live, chain, steps, call, seen, skip, calls>>
<1>1. /\ pc[t] = "audit"
      /\ \E r \in Asked(t) : Take(t, r)
      /\ Claims(t) => seen[t].status = "pending"
      /\ UNCHANGED <<status, live, chain, steps, call, seen, skip, calls>>
  BY DEF LockAudit
<1>2. Take(t, AuditLock)
  BY <1>1, AskedAt
<1>3. CASE call[t].kind = "decide" /\ ~Claims(t)
  BY <1>1, <1>2, <1>3 DEF LockAudit, LookForPeers, GoTo, Locked, RowCall
<1>4. CASE ~(call[t].kind = "decide" /\ ~Claims(t))
  <2> DEFINE l == CASE call[t].kind = "decide" -> "chain"
                    [] call[t].kind = "reassign" -> "contract"
                    [] call[t].kind = "escalate" ->
                         IF ChainLock(call[t].ch) \in share[t]
                         THEN "contract" ELSE "chain"
                    [] OTHER -> "write"
  <2>1. pc' = [pc EXCEPT ![t] = l] /\ UNCHANGED peers
    BY <1>4, Zenon DEF LockAudit, GoTo
  <2>2. call[t].kind = "decide" => l = "chain"
    BY Zenon
  <2>3. call[t].kind = "reassign" => l = "contract"
    BY Zenon
  <2>4. call[t].kind = "escalate" => l = IF ChainLock(call[t].ch) \in share[t]
                                        THEN "contract" ELSE "chain"
    BY Zenon
  <2>5. ASSUME call[t].kind # "decide", call[t].kind # "reassign",
               call[t].kind # "escalate"
        PROVE  l = "write"
    BY <2>5, Zenon
  <2> HIDE DEF l
  <2>6. call[t].kind \in RowCall => /\ call[t].kind # "decide"
                                    /\ call[t].kind # "reassign"
                                    /\ call[t].kind # "escalate"
    BY DEF RowCall
  <2>7. l \in Locked
    BY <2>2, <2>3, <2>4, <2>5 DEF Locked
  <2> QED  BY <1>1, <1>2, <1>4, <2>1, <2>2, <2>3, <2>4, <2>5, <2>6, <2>7
<1> QED  BY <1>3, <1>4

-----------------------------------------------------------------------------
(* The transactions: the invariant. *)

\* Every local variable has a value for every session.
Typed ==
    /\ LocksTypeOK
    /\ seen \in [Txn -> StepRow]
    /\ DOMAIN excl = Txn /\ DOMAIN share = Txn

\* Steps belong to chains that exist.
Rooted ==
    \A ch \in Chain : chain[ch].status = "none" =>
        \A k \in StepId : ~Exists(ch, k)

\* A lock held exclusively is held by one session.
Exclusive ==
    \A t, u \in Txn : t # u => excl[t] \cap (excl[u] \cup share[u]) = {}

\* The locks a session holds at each point.
Shape(t) ==
    LET r == call[t] IN
    /\ IF pc[t] = "idle" THEN r = NoCall ELSE r \in Call
    /\ pc[t] \in {"idle", "step"} => excl[t] = {} /\ share[t] = {}
    /\ pc[t] = "contract" /\ r.kind \in RowCall => excl[t] = {} /\ share[t] = {}
    /\ pc[t] = "step" => r.kind \in StepCall
    /\ pc[t] = "peer" => r.kind = "escalate"
    /\ pc[t] = "chain" => r.kind \in {"decide", "escalate", "route"}
    /\ pc[t] = "peers" => r.kind = "decide" /\ AuditLock \in excl[t]
    /\ pc[t] = "write" => AuditLock \in excl[t] /\ peers[t] = {}
    /\ pc[t] = "contract" /\ r.kind \in {"reassign", "escalate"} =>
          AuditLock \in excl[t]
    /\ AuditLock \notin share[t]
    /\ AuditLock \in excl[t] =>
          \/ pc[t] \in {"peers", "write"}
          \/ /\ pc[t] \in {"chain", "contract"}
             /\ Claims(t) \/ r.kind \in {"reassign", "escalate"}
    /\ Claims(t) /\ pc[t] \in Locked => AuditLock \in excl[t]
    /\ \A c \in Contract : ContractLock(c) \in excl[t] \cup share[t] =>
          \/ pc[t] = "audit" /\ r.kind \notin {"reassign", "escalate"}
             /\ ~Claims(t)
          \/ pc[t] \in {"peers", "write"}
          \/ pc[t] = "chain" /\ r.kind = "route"
    /\ \A ch \in Chain : ChainLock(ch) \in excl[t] \cup share[t] =>
          \/ pc[t] \in {"contract", "peers", "write"}
          \/ pc[t] = "audit" /\ ~Claims(t)
    /\ \A ch \in Chain : ChainLock(ch) \in excl[t] => r.kind = "decide"
    /\ \A ch \in Chain : ChainLock(ch) \in share[t] => ch = r.ch
    /\ peers[t] \cup skip[t] # {} =>
          /\ pc[t] \in {"peers", "write"}
          /\ r.kind = "decide" /\ r.verdict = "approved"
    /\ \A j \in skip[t] : StepLock(r.ch, j) \in excl[t]
    /\ r.kind \in StepCall /\ pc[t] \notin {"idle", "step"} =>
          StepLock(r.ch, r.k) \in excl[t]
    /\ r.kind = "decide" /\ pc[t] \in {"peers", "write"} =>
          ContractLock(chain[r.ch].contract) \in excl[t]
    /\ r.kind = "decide" /\ pc[t] = "audit" /\ ~Claims(t) =>
          ContractLock(chain[r.ch].contract) \in excl[t]
    /\ r.kind \in RowCall /\ pc[t] \in {"chain", "audit", "write"} =>
          ContractLock(r.c) \in excl[t]

\* What a session has read is still so.
Checked(t) ==
    LET r == call[t] IN
    /\ r.kind \in StepCall => Exists(r.ch, r.k)
    /\ r.kind \in StepCall /\ pc[t] \notin {"idle", "step"} =>
          seen[t] = steps[r.ch][r.k] /\ StepChecks(t)
    /\ r.kind = "decide" /\ pc[t] \in Locked => seen[t].status = "pending"
    /\ pc[t] \in {"peers", "write"} /\ r.kind = "decide"
          /\ r.verdict = "approved" =>
          skip[t] \cup peers[t] = SkippedPeers(r.ch, r.k)
    /\ pc[t] = "chain" /\ r.kind = "route" =>
          status[r.c] \in {"draft", "resubmission_requested"}

AInv ==
    /\ Typed /\ Rooted /\ Exclusive
    /\ \A t \in Txn : Shape(t) /\ Checked(t)

\* A session whose variables a step leaves alone.
Same(u) ==
    /\ call'[u] = call[u] /\ pc'[u] = pc[u]
    /\ excl'[u] = excl[u] /\ share'[u] = share[u]
    /\ seen'[u] = seen[u] /\ peers'[u] = peers[u] /\ skip'[u] = skip[u]

\* The variables of the sessions, typed.
Locals ==
    /\ call \in [Txn -> Call \cup {NoCall}]
    /\ pc \in [Txn -> Points]
    /\ peers \in [Txn -> SUBSET StepId]
    /\ skip \in [Txn -> SUBSET StepId]
    /\ seen \in [Txn -> StepRow]
    /\ DOMAIN excl = Txn /\ DOMAIN share = Txn
    /\ calls \in 0..MaxCalls

\* The types of the engine and of the sessions, apart.
LEMMA TypedParts == Typed <=> TypeOK /\ Locals
BY DEF Typed, LocksTypeOK, Locals, Points

\* Taking a lock adds one row to what the session holds, when nobody is in the
\* way, and touches no other session.
LEMMA TakeEffect ==
    ASSUME Locals, NEW t \in Txn, NEW r, Take(t, r)
    PROVE  /\ DOMAIN excl' = Txn /\ DOMAIN share' = Txn
           /\ \A u \in Txn \ {t} : excl'[u] = excl[u] /\ share'[u] = share[u]
           /\ r \in Asked(t)
           /\ ForShare(t) => /\ share'[t] = share[t] \cup {r}
                             /\ excl'[t] = excl[t]
                             /\ \A u \in Txn \ {t} : r \notin excl[u]
           /\ ~ForShare(t) => /\ excl'[t] = excl[t] \cup {r}
                              /\ share'[t] = share[t]
                              /\ \A u \in Txn \ {t} :
                                    r \notin excl[u] /\ r \notin share[u]
<1>1. CASE ForShare(t)
  BY <1>1 DEF Take, Locals, Blockers, HoldersS
<1>2. CASE ~ForShare(t)
  BY <1>2 DEF Take, Locals, Blockers, HoldersX
<1> QED  BY <1>1, <1>2

\* The end of a transaction frees its session and touches no other.
LEMMA ReleaseEffect ==
    ASSUME Locals, NEW t \in Txn, Release(t)
    PROVE  /\ Locals' /\ \A u \in Txn \ {t} : Same(u)
           /\ excl'[t] = {} /\ share'[t] = {} /\ call'[t] = NoCall
           /\ peers'[t] = {} /\ skip'[t] = {} /\ pc'[t] = "idle"
<1>1. "idle" \in Points
  BY DEF Points
<1> QED  BY <1>1 DEF Release, GoTo, Locals, Same

\* A step of a session that is not a commit leaves the tables alone.
Moves(t) ==
    \/ \E r \in Call : Begin(t, r)
    \/ LockStep(t) \/ LockChain(t) \/ LockContract(t) \/ LockContractRoute(t)
    \/ LockAudit(t) \/ \E j \in StepId : LockPeer(t, j)

Ends(t) ==
    \/ StepRaise(t) \/ ClaimRaise(t) \/ AlreadyDone(t) \/ RouteFindsChain(t)
    \/ Raise(t)
    \/ DeadlockAbort(t)

\* Every step moves a session on, ends its call without writing, or commits it.
LEMMA StepKinds ==
    ASSUME [LocksNext]_lvars
    PROVE  \/ \E t \in Txn : Moves(t) \/ Ends(t) \/ Commit(t)
           \/ UNCHANGED lvars
<1>1. ASSUME NEW t \in Txn, Advance(t)
      PROVE  Moves(t) \/ Ends(t) \/ Commit(t)
  BY <1>1, Zenon DEF Advance, Moves, Ends
<1>2. ASSUME NEW t \in Txn, DeadlockAbort(t) \/ \E r \in Call : Begin(t, r)
      PROVE  Moves(t) \/ Ends(t)
  BY <1>2, Zenon DEF Moves, Ends
<1> QED  BY <1>1, <1>2, Zenon DEF LocksNext

\* A call that raises, or is rolled back, writes nothing.
LEMMA EndsEffect ==
    ASSUME NEW t \in Txn, Ends(t)
    PROVE  Release(t) /\ UNCHANGED vars
BY DEF Ends, StepRaise, ClaimRaise, AlreadyDone, RouteFindsChain, Raise,
       DeadlockAbort, vars

\* A call writes nothing before its commit.
LEMMA MovesEffect ==
    ASSUME NEW t \in Txn, Moves(t)
    PROVE  UNCHANGED vars
BY DEF Moves, Begin, LockStep, LockChain, LockContract, LockContractRoute,
       LockAudit, LockPeer, vars

\* What a decision skips are steps.
LEMMA ToSkipSteps ==
    ASSUME NEW t \in Txn
    PROVE  ToSkip(t) \in SUBSET StepId
BY DEF ToSkip, SkippedPeers, Peers

\* A session that moves on changes its own variables only.
LEMMA MovesLocal ==
    ASSUME TypeOK, Locals, NEW t \in Txn, Moves(t), Shape(t)
    PROVE  Locals' /\ \A u \in Txn \ {t} : Same(u)
<1>1. ASSUME NEW r \in Call, Begin(t, r)
      PROVE  Locals' /\ \A u \in Txn \ {t} : Same(u)
  <2>1. pc' \in [Txn -> Points]
    BY <1>1 DEF Begin, GoTo, Locals, Points
  <2>2. calls' \in 0..MaxCalls
    BY <1>1, CallsAssumption DEF Begin, Locals
  <2> QED  BY <1>1, <2>1, <2>2 DEF Begin, GoTo, Locals, Same
<1>2. CASE LockStep(t)
  <2>1. /\ pc[t] = "step" /\ call[t] \in Call /\ call[t].kind \in StepCall
    BY <1>2 DEF LockStep, Shape
  <2>2. /\ AfterStep(t) \in Points
        /\ steps[call[t].ch][call[t].k] \in StepRow
    BY <2>1, AfterStepAt, CallShapes DEF Points, StepCall, TypeOK
  <2>3. PICK r : Take(t, r)
    BY <1>2 DEF LockStep
  <2>4. /\ seen' \in [Txn -> StepRow] /\ pc' \in [Txn -> Points]
    BY <1>2, <2>2 DEF LockStep, GoTo, Locals
  <2> QED  BY <1>2, <2>3, <2>4, TakeEffect DEF LockStep, GoTo, Locals, Same
<1>3. CASE LockChain(t) \/ LockContract(t) \/ LockContractRoute(t)
  <2>1. PICK r : Take(t, r)
    BY <1>3 DEF LockChain, LockContract, LockContractRoute
  <2>2. \E l \in Points : pc' = [pc EXCEPT ![t] = l]
    BY <1>3 DEF LockChain, LockContract, LockContractRoute, LookForPeers, GoTo,
                Points
  <2>3. UNCHANGED <<call, seen, skip, calls>>
    BY <1>3 DEF LockChain, LockContract, LockContractRoute
  <2>4. \E s \in SUBSET StepId : peers' = peers \/ peers' = [peers EXCEPT ![t] = s]
    BY <1>3, ToSkipSteps
    DEF LockChain, LockContract, LockContractRoute, LookForPeers
  <2> QED  BY <2>1, <2>2, <2>3, <2>4, TakeEffect DEF Locals, Same
<1>4. CASE LockAudit(t)
  <2>1. /\ Take(t, AuditLock)
        /\ peers' = peers \/ peers' = [peers EXCEPT ![t] = ToSkip(t)]
        /\ \E l \in Locked : pc' = [pc EXCEPT ![t] = l]
        /\ UNCHANGED <<call, seen, skip, calls>>
    BY <1>4, AfterAudit
  <2>2. ToSkip(t) \in SUBSET StepId
    BY ToSkipSteps
  <2>3. \E l \in Points : pc' = [pc EXCEPT ![t] = l]
    BY <2>1 DEF Points, Locked
  <2> QED  BY <2>1, <2>2, <2>3, TakeEffect DEF Locals, Same
<1>5. ASSUME NEW j \in StepId, LockPeer(t, j)
      PROVE  Locals' /\ \A u \in Txn \ {t} : Same(u)
  <2>1. \E l \in Points : pc' = [pc EXCEPT ![t] = l]
    BY <1>5 DEF LockPeer, GoTo, Points
  <2>2. \E s \in SUBSET StepId : skip' = [skip EXCEPT ![t] = s]
    BY <1>5 DEF LockPeer, Locals
  <2>3. \E s \in SUBSET StepId : peers' = [peers EXCEPT ![t] = s]
    BY <1>5 DEF LockPeer, Locals
  <2>4. Take(t, StepLock(call[t].ch, j)) /\ UNCHANGED <<call, seen, calls>>
    BY <1>5 DEF LockPeer
  <2> QED  BY <2>1, <2>2, <2>3, <2>4, TakeEffect DEF Locals, Same
<1> QED  BY <1>1, <1>2, <1>3, <1>4, <1>5 DEF Moves

\* A call starts at its first lock, holding nothing.
LEMMA ShapeBegin ==
    ASSUME Locals, NEW t \in Txn, Shape(t), NEW r \in Call, Begin(t, r)
    PROVE  Shape(t)'
<1>1. /\ pc[t] = "idle" /\ call'[t] = r
      /\ pc'[t] = IF r.kind \in {"route", "update"} THEN "contract" ELSE "step"
      /\ UNCHANGED <<chain, excl, share, peers, skip>>
  BY DEF Begin, GoTo, Locals
<1>2. excl[t] = {} /\ share[t] = {} /\ peers[t] = {} /\ skip[t] = {}
  BY <1>1 DEF Shape
<1>3. r.kind \in StepCall \cup RowCall
  BY CallShapes
<1> QED  BY <1>1, <1>2, <1>3 DEF Shape, StepCall, RowCall, Locked, Claims

\* A call that locked its step holds it where it goes next.
LEMMA ShapeStep ==
    ASSUME TypeOK, Locals, NEW t \in Txn, Shape(t), LockStep(t)
    PROVE  Shape(t)'
<1>1. /\ pc[t] = "step" /\ pc'[t] = AfterStep(t)
      /\ UNCHANGED <<chain, call, peers, skip>>
  BY DEF LockStep, GoTo, Locals
<1> DEFINE r == call[t]
           x == StepLock(call[t].ch, call[t].k)
<1>2. /\ r \in Call /\ r.kind \in StepCall /\ r.ch \in Chain /\ r.k \in StepId
      /\ excl[t] = {} /\ share[t] = {} /\ peers[t] = {} /\ skip[t] = {}
  BY <1>1, CallShapes DEF Shape
<1>3. Take(t, x)
  BY <1>1, AskedAt DEF LockStep
<1>4. ~ForShare(t)
  BY <1>1 DEF ForShare
<1>5. excl'[t] = {x} /\ share'[t] = {}
  BY <1>2, <1>3, <1>4, TakeEffect
<1>6. /\ AuditLock # x
      /\ \A c \in Contract : ContractLock(c) # x
      /\ \A ch \in Chain : ChainLock(ch) # x
  BY <1>2, LockNames
<1>7. /\ r.kind = "decide" => AfterStep(t) = IF Claims(t)' THEN "audit" ELSE "chain"
      /\ r.kind = "reassign" => AfterStep(t) = "audit"
      /\ r.kind = "escalate" => AfterStep(t) \in {"peer", "chain", "audit"}
      /\ Claims(t)' => r.kind = "decide"
  <2>1. seen'[t] = steps[call[t].ch][call[t].k] /\ call' = call
    BY DEF LockStep, Locals
  <2>2. Claims(t)' <=> r.kind = "decide" /\ Unassigned(steps[call[t].ch][call[t].k])
    BY <2>1 DEF Claims, Unassigned
  <2> QED  BY <2>2, AfterStepAt
<1> HIDE DEF x
<1>8. /\ call'[t] = r /\ peers'[t] = {} /\ skip'[t] = {}
  BY <1>1, <1>2
<1>9. StepLock(r.ch, r.k) = x
  BY DEF x
<1> HIDE DEF r
<1> QED  BY <1>1, <1>2, <1>5, <1>6, <1>7, <1>8, <1>9
         DEF Shape, StepCall, RowCall, Locked

\* A call that locked its chain holds it where it goes next.
LEMMA ShapeChain ==
    ASSUME TypeOK, Locals, NEW t \in Txn, Shape(t), LockChain(t)
    PROVE  Shape(t)'
<1> DEFINE r == call[t]
           x == ChainLock(call[t].ch)
<1>1. /\ pc[t] = "chain" /\ r.kind \in {"decide", "escalate"}
      /\ pc'[t] = IF r.kind = "decide" \/ AuditLock \in excl[t]
                  THEN "contract" ELSE "audit"
      /\ UNCHANGED <<chain, call, seen, peers, skip>>
  BY DEF LockChain, GoTo, Locals
<1>2. r \in Call /\ r.ch \in Chain /\ r.k \in StepId
  BY <1>1, CallShapes DEF Shape, StepCall
<1>3. Take(t, x)
  BY <1>1, AskedAt DEF LockChain
<1>4. /\ r.kind = "decide" => /\ excl'[t] = excl[t] \cup {x}
                             /\ share'[t] = share[t]
      /\ r.kind = "escalate" => /\ excl'[t] = excl[t]
                               /\ share'[t] = share[t] \cup {x}
  BY <1>1, <1>3, TakeEffect DEF ForShare
<1>5. \A ch \in Chain : ChainLock(ch) = x => ch = r.ch
  BY <1>2, LockRows
<1>6. /\ AuditLock # x
      /\ \A c \in Contract : ContractLock(c) # x
  BY <1>2, LockNames
<1>7. Claims(t)' <=> Claims(t)
  BY <1>1 DEF Claims, Unassigned
<1>8. call'[t] = r /\ peers'[t] = peers[t] /\ skip'[t] = skip[t]
  BY <1>1
<1>10. Claims(t) => r.kind = "decide"
  BY DEF Claims
<1> HIDE DEF x, r
<1>9. peers[t] = {} /\ skip[t] = {}
  BY <1>1 DEF Shape
<1> QED  BY <1>1, <1>2, <1>4, <1>5, <1>6, <1>7, <1>8, <1>9, <1>10
         DEF Shape, StepCall, RowCall, r, Locked

\* A call that locked its contract holds it where it goes next.
LEMMA ShapeContract ==
    ASSUME TypeOK, Locals, NEW t \in Txn, Shape(t), LockContract(t)
    PROVE  Shape(t)'
<1> DEFINE r == call[t]
           c == IF call[t].kind \in RowCall THEN call[t].c
                ELSE chain[call[t].ch].contract
           x == ContractLock(c)
<1>1. /\ pc[t] = "contract" /\ r.kind # "route"
      /\ UNCHANGED <<chain, call, seen, skip>>
      /\ ~Claims(t) => /\ UNCHANGED peers
                       /\ pc'[t] = IF r.kind \in {"decide", "update"}
                                   THEN "audit" ELSE "write"
      /\ Claims(t) => /\ peers'[t] = ToSkip(t)
                      /\ pc'[t] = IF ToSkip(t) = {} THEN "write" ELSE "peers"
  BY DEF LockContract, LookForPeers, GoTo, Locals
<1>2. /\ r \in Call /\ r.kind \in StepCall \cup RowCall
      /\ r.kind \in StepCall => r.ch \in Chain /\ r.k \in StepId
      /\ r.kind \in RowCall => r.c \in Contract
  BY <1>1, CallShapes DEF Shape
<1>3. Take(t, x)
  BY <1>1, AskedAt DEF LockContract
<1>4. c \in Contract
  BY <1>2 DEF TypeOK, ChainRow
<1>5. /\ excl[t] \subseteq excl'[t] /\ excl'[t] \subseteq excl[t] \cup {x}
      /\ share[t] \subseteq share'[t] /\ share'[t] \subseteq share[t] \cup {x}
      /\ r.kind \in {"decide", "update"} => x \in excl'[t]
  BY <1>1, <1>3, TakeEffect DEF ForShare
<1>6. /\ AuditLock # x
      /\ \A ch \in Chain : ChainLock(ch) # x
  BY <1>4, LockNames
<1>8. call'[t] = r /\ skip'[t] = skip[t]
  BY <1>1
<1>7. /\ Claims(t)' <=> Claims(t)
      /\ Claims(t) => r.kind = "decide"
      /\ ToSkip(t) # {} => r.kind = "decide" /\ r.verdict = "approved"
  BY <1>1 DEF Claims, Unassigned, ToSkip
<1>10. /\ r.kind = "decide" => x = ContractLock(chain[r.ch].contract)
       /\ r.kind = "update" => x = ContractLock(r.c)
  BY DEF RowCall
<1> HIDE DEF x, r, c
<1>9. peers[t] = {} /\ skip[t] = {}
  BY <1>1 DEF Shape
<1>11. pc'[t] \in {"peers", "write"} => AuditLock \in excl[t]
  BY <1>1, <1>2 DEF Shape, StepCall, RowCall, r, Locked
<1>12. pc'[t] = "audit" => ~Claims(t) /\ AuditLock \notin excl[t]
  BY <1>1, <1>2 DEF Shape, StepCall, RowCall, r
<1>13. CASE Claims(t)
  BY <1>1, <1>2, <1>5, <1>6, <1>7, <1>8, <1>9, <1>10, <1>11, <1>13
     DEF Shape, StepCall, RowCall, r, Locked
<1>14. CASE ~Claims(t)
  BY <1>1, <1>2, <1>5, <1>6, <1>7, <1>8, <1>9, <1>10, <1>11, <1>12, <1>14
     DEF Shape, StepCall, RowCall, r, Locked
<1> QED  BY <1>13, <1>14

\* A routing that locked its contract goes to the open chain, or to its first
\* write.
LEMMA ShapeRoute ==
    ASSUME TypeOK, Locals, NEW t \in Txn, Shape(t), LockContractRoute(t)
    PROVE  Shape(t)'
<1> DEFINE r == call[t]
           x == ContractLock(call[t].c)
<1>1. /\ pc[t] = "contract" /\ r.kind = "route"
      /\ pc'[t] \in {"chain", "audit"}
      /\ UNCHANGED <<chain, call, peers, skip>>
  BY DEF LockContractRoute, GoTo, Locals
<1>2. r \in Call /\ r.kind \in RowCall /\ r.c \in Contract
  BY <1>1, CallShapes DEF Shape, RowCall
<1>3. Take(t, x)
  BY <1>1, <1>2, AskedAt DEF LockContractRoute
<1>4. ~ForShare(t)
  BY <1>1 DEF ForShare
<1>5. excl'[t] = excl[t] \cup {x} /\ share'[t] = share[t]
  BY <1>3, <1>4, TakeEffect
<1>6. AuditLock # x /\ \A ch \in Chain : ChainLock(ch) # x
  BY <1>2, LockNames
<1>8. call'[t] = r /\ peers'[t] = peers[t] /\ skip'[t] = skip[t]
  BY <1>1
<1>9. ContractLock(r.c) = x
  OBVIOUS
<1>7. r.kind # "decide" /\ ~Claims(t)'
  BY <1>1 DEF Claims
<1> HIDE DEF x, r
<1> QED  BY <1>1, <1>2, <1>5, <1>6, <1>7, <1>8, <1>9
         DEF Shape, StepCall, RowCall, r, Locked

\* A call that took the audit lock holds it until it ends.
LEMMA ShapeAudit ==
    ASSUME TypeOK, Locals, NEW t \in Txn, Shape(t), LockAudit(t)
    PROVE  Shape(t)'
<1> DEFINE r == call[t]
           x == AuditLock
<1>1. /\ pc[t] = "audit" /\ Take(t, x)
      /\ UNCHANGED <<chain, call, seen, skip>>
  BY AfterAudit
<1>2. /\ r \in Call /\ r.kind \in StepCall \cup RowCall
      /\ r.kind \in StepCall => r.ch \in Chain /\ r.k \in StepId
  BY <1>1, CallShapes DEF Shape
<1>3. ~ForShare(t)
  BY <1>1 DEF ForShare
<1>4. excl'[t] = excl[t] \cup {x} /\ share'[t] = share[t]
  BY <1>1, <1>3, TakeEffect
<1>5. /\ \A c \in Contract : ContractLock(c) # x
      /\ \A ch \in Chain : ChainLock(ch) # x
  BY LockNames
<1>6. call'[t] = r /\ skip'[t] = {} /\ peers[t] = {}
  BY <1>1 DEF Shape
<1>7. /\ Claims(t)' <=> Claims(t)
      /\ Claims(t) => r.kind = "decide"
      /\ ToSkip(t) # {} => r.kind = "decide" /\ r.verdict = "approved"
  BY <1>1 DEF Claims, Unassigned, ToSkip
<1>8. /\ pc'[t] \in Locked
      /\ Claims(t) => pc'[t] = "chain" /\ peers'[t] = {}
      /\ r.kind = "decide" /\ ~Claims(t) =>
            /\ peers'[t] = ToSkip(t)
            /\ pc'[t] = IF ToSkip(t) = {} THEN "write" ELSE "peers"
      /\ r.kind # "decide" => peers'[t] = {}
      /\ r.kind = "reassign" => pc'[t] = "contract"
      /\ r.kind = "escalate" => pc'[t] = IF ChainLock(r.ch) \in share[t]
                                        THEN "contract" ELSE "chain"
      /\ r.kind \in RowCall => pc'[t] = "write"
  BY <1>6, <1>7, AfterAudit DEF Locals, Locked
<1> HIDE DEF x, r
<1>9. pc[t] = "audit" /\ UNCHANGED chain
  BY <1>1
<1>11. CASE Claims(t)
  <2>1. /\ \A c \in Contract : ContractLock(c) \notin excl[t] \cup share[t]
        /\ \A ch \in Chain : ChainLock(ch) \notin excl[t] \cup share[t]
    BY <1>7, <1>9, <1>11 DEF Shape, r
  <2> QED  BY <1>2, <1>4, <1>5, <1>6, <1>7, <1>8, <1>9, <1>11, <2>1, LockNames
           DEF Shape, StepCall, RowCall, r, x, Locked
<1>12. CASE r.kind = "decide" /\ ~Claims(t)
  BY <1>2, <1>4, <1>5, <1>6, <1>7, <1>8, <1>9, <1>12, LockNames
     DEF Shape, StepCall, RowCall, r, x, Locked
<1>13. CASE r.kind # "decide"
  BY <1>2, <1>4, <1>5, <1>6, <1>7, <1>8, <1>9, <1>13, LockNames
     DEF Shape, StepCall, RowCall, r, x, Locked
<1> QED  BY <1>11, <1>12, <1>13

\* A decision holds each peer that it will skip.
LEMMA ShapePeers ==
    ASSUME TypeOK, Locals, NEW t \in Txn, Shape(t), NEW j \in StepId,
           LockPeer(t, j)
    PROVE  Shape(t)'
<1> DEFINE r == call[t]
           x == StepLock(call[t].ch, j)
<1>1. /\ pc[t] = "peers" /\ j \in peers[t] /\ Take(t, x)
      /\ peers'[t] = peers[t] \ {j}
      /\ skip'[t] \subseteq skip[t] \cup {j}
      /\ pc'[t] = IF peers[t] = {j} THEN "write" ELSE "peers"
      /\ UNCHANGED <<chain, call>>
  BY DEF LockPeer, GoTo, Locals
<1>2. /\ r \in Call /\ r.kind = "decide" /\ r.ch \in Chain
      /\ r.verdict = "approved"
  BY <1>1, CallShapes DEF Shape, StepCall
<1>3. ~ForShare(t)
  BY <1>1 DEF ForShare
<1>4. excl'[t] = excl[t] \cup {x} /\ share'[t] = share[t]
  BY <1>1, <1>3, TakeEffect
<1>5. /\ AuditLock # x
      /\ \A c \in Contract : ContractLock(c) # x
      /\ \A ch \in Chain : ChainLock(ch) # x
  BY <1>2, LockNames
<1>6. \A i \in skip'[t] : StepLock(r.ch, i) \in excl'[t]
  BY <1>1, <1>2, <1>4 DEF Shape
<1>7. call'[t] = r /\ pc'[t] \in {"peers", "write"}
      /\ (pc'[t] = "write" => peers'[t] = {})
  BY <1>1
<1>8. AuditLock \in excl[t] /\ AuditLock \notin share[t]
  BY <1>1 DEF Shape
<1>9. pc[t] = "peers" /\ UNCHANGED chain
  BY <1>1
<1>10. Claims(t)' <=> Claims(t)
  BY DEF LockPeer, Claims, Unassigned
<1> HIDE DEF x, r
<1> QED  BY <1>2, <1>4, <1>5, <1>6, <1>7, <1>8, <1>9, <1>10
         DEF Shape, StepCall, RowCall, r, Locked

\* A session that ended holds nothing.
LEMMA ShapeEnd ==
    ASSUME Locals, NEW t \in Txn, Release(t)
    PROVE  Shape(t)' /\ Checked(t)'
<1>1. /\ excl'[t] = {} /\ share'[t] = {} /\ call'[t] = NoCall
      /\ peers'[t] = {} /\ skip'[t] = {} /\ pc'[t] = "idle"
  BY ReleaseEffect
<1>2. call'[t].kind \notin StepCall /\ call'[t].kind \notin RowCall
  BY <1>1 DEF NoCall, StepCall, RowCall
<1>3. call'[t].kind \notin {"decide", "reassign", "escalate", "route", "update"}
  BY <1>2 DEF StepCall, RowCall
<1>4. Shape(t)'
  BY <1>1, <1>2, <1>3 DEF Shape, Claims
<1>5. Checked(t)'
  BY <1>1, <1>2, <1>3 DEF Checked
<1> QED  BY <1>4, <1>5

\* The other sessions: their contract stays the contract of their chain.
LEMMA ShapeSame ==
    ASSUME NEW u \in Txn, Shape(u), Same(u),
           call[u].kind = "decide" /\ pc[u] # "idle" =>
              chain'[call[u].ch].contract = chain[call[u].ch].contract
    PROVE  Shape(u)'
BY DEF Shape, Same, Claims, Unassigned

\* A session that nobody disturbs keeps what it checked.
LEMMA CheckedSame ==
    ASSUME NEW u \in Txn, Checked(u), Same(u), UNCHANGED vars
    PROVE  Checked(u)'
<1>1. UNCHANGED <<status, live, chain, steps>>
  BY DEF vars
<1>2. /\ call'[u] = call[u] /\ pc'[u] = pc[u] /\ seen'[u] = seen[u]
      /\ peers'[u] = peers[u] /\ skip'[u] = skip[u]
  BY DEF Same
<1> QED  BY <1>1, <1>2 DEF Checked, StepChecks, Exists, SkippedPeers,
            CarriesGroup, Peers, Pending

\* A session past its step keeps what it has read.
LEMMA CheckedMove ==
    ASSUME NEW t \in Txn, Checked(t), UNCHANGED vars,
           call'[t] = call[t], seen'[t] = seen[t],
           call[t].kind \in StepCall => pc[t] \notin {"idle", "step"},
           call[t].kind = "decide" /\ pc'[t] \in Locked =>
              seen[t].status = "pending",
           pc'[t] \in {"peers", "write"} /\ call[t].kind = "decide"
              /\ call[t].verdict = "approved" =>
              skip'[t] \cup peers'[t] = SkippedPeers(call[t].ch, call[t].k),
           pc'[t] = "chain" /\ call[t].kind = "route" =>
              status[call[t].c] \in {"draft", "resubmission_requested"}
    PROVE  Checked(t)'
<1>1. UNCHANGED <<status, live, chain, steps>>
  BY DEF vars
<1> QED  BY <1>1 DEF Checked, StepChecks, Exists, SkippedPeers,
            CarriesGroup, Peers, Pending

\* A session that moves on has checked its step, or keeps what it checked.
LEMMA CheckedMoves ==
    ASSUME TypeOK, Locals, NEW t \in Txn, Shape(t), Checked(t), Moves(t)
    PROVE  Checked(t)'
<1>0. UNCHANGED vars /\ UNCHANGED <<status, live, chain, steps>>
  BY MovesEffect DEF vars
<1>1. ASSUME NEW r \in Call, Begin(t, r)
      PROVE  Checked(t)'
  <2>1. /\ call'[t] = r /\ Answerable(r)
        /\ pc'[t] = IF r.kind \in {"route", "update"} THEN "contract" ELSE "step"
    BY <1>1 DEF Begin, GoTo, Locals
  <2>2. r.kind \in StepCall \cup RowCall
    BY CallShapes
  <2> QED  BY <1>0, <2>1, <2>2
           DEF Checked, Answerable, StepCall, RowCall, Exists, Locked
<1>2. CASE LockStep(t)
  <2>1. /\ pc[t] = "step" /\ pc'[t] = AfterStep(t) /\ call' = call
        /\ seen'[t] = steps[call[t].ch][call[t].k]
        /\ StepChecks(t)
    BY <1>2 DEF LockStep, GoTo, Locals
  <2>2. call[t].kind \in StepCall
    BY <2>1 DEF Shape
  <2>3. AfterStep(t) \in {"peer", "chain", "audit"}
    BY <2>2, AfterStepAt DEF StepCall
  <2>4. StepChecks(t)'
    BY <1>0, <2>1 DEF StepChecks
  <2>5. call[t].kind = "decide" /\ AfterStep(t) \in Locked =>
           seen'[t].status = "pending"
    BY <2>1, AfterStepAt DEF StepChecks, Locked
  <2> QED  BY <1>0, <2>1, <2>2, <2>3, <2>4, <2>5
           DEF Checked, StepCall, Exists
<1>3. CASE LockChain(t)
  <2>1. /\ pc[t] = "chain" /\ pc'[t] \in {"contract", "audit"}
        /\ UNCHANGED <<call, seen>>
    BY <1>3 DEF LockChain, GoTo, Locals
  <2>2. call[t].kind = "decide" => seen[t].status = "pending"
    BY <2>1 DEF Checked, Locked
  <2> QED  BY <1>0, <2>1, <2>2, CheckedMove
<1>4. CASE LockContract(t)
  <2>1. /\ pc[t] = "contract" /\ call[t].kind # "route"
        /\ UNCHANGED <<call, seen, skip>>
        /\ Claims(t) => /\ pc'[t] \in {"peers", "write"}
                        /\ peers'[t] = ToSkip(t)
        /\ ~Claims(t) => pc'[t] = IF call[t].kind \in {"decide", "update"}
                                  THEN "audit" ELSE "write"
    BY <1>4 DEF LockContract, LookForPeers, GoTo, Locals
  <2>2. call[t].kind = "decide" => seen[t].status = "pending"
    BY <2>1 DEF Checked, Locked
  <2>3. skip[t] = {}
    BY <2>1 DEF Shape
  <2>4. call[t].kind = "decide" /\ call[t].verdict = "approved"
           /\ pc'[t] \in {"peers", "write"} =>
           skip'[t] \cup peers'[t] = SkippedPeers(call[t].ch, call[t].k)
    BY <2>1, <2>3 DEF ToSkip
  <2>5. pc'[t] # "chain"
    BY <2>1
  <2> QED  BY <1>0, <2>1, <2>2, <2>4, <2>5, CheckedMove
<1>5. CASE LockContractRoute(t)
  <2>1. /\ pc[t] = "contract" /\ call[t].kind = "route"
        /\ pc'[t] = IF /\ status[call[t].c] \in {"draft", "resubmission_requested"}
                       /\ InProgress(call[t].c) # {}
                    THEN "chain" ELSE "audit"
        /\ UNCHANGED <<call, seen>>
    BY <1>5 DEF LockContractRoute, GoTo, Locals
  <2> QED  BY <1>0, <2>1, CheckedMove DEF StepCall
<1>6. CASE LockAudit(t)
  <2>1. /\ pc[t] = "audit" /\ UNCHANGED <<call, seen, skip>>
        /\ Claims(t) => seen[t].status = "pending" /\ pc'[t] = "chain"
        /\ call[t].kind = "decide" /\ ~Claims(t) => peers'[t] = ToSkip(t)
        /\ pc'[t] = "chain" => call[t].kind # "route"
    BY <1>6, AfterAudit DEF Locals, Locked, Claims, RowCall
  <2>2. call[t].kind = "decide" => seen[t].status = "pending"
    BY <2>1 DEF Checked, StepChecks, Claims, StepCall
  <2>3. skip[t] = {}
    BY <2>1 DEF Shape
  <2>4. call[t].kind = "decide" /\ call[t].verdict = "approved"
           /\ pc'[t] \in {"peers", "write"} =>
           skip'[t] \cup peers'[t] = SkippedPeers(call[t].ch, call[t].k)
    BY <2>1, <2>3 DEF ToSkip
  <2> QED  BY <1>0, <2>1, <2>2, <2>4, CheckedMove
<1>7. ASSUME NEW j \in StepId, LockPeer(t, j)
      PROVE  Checked(t)'
  <2>1. /\ pc[t] = "peers" /\ j \in peers[t] /\ peers'[t] = peers[t] \ {j}
        /\ skip'[t] = IF Pending(call[t].ch, j) THEN skip[t] \cup {j} ELSE skip[t]
        /\ pc'[t] \in {"peers", "write"}
        /\ UNCHANGED <<call, seen>>
    BY <1>7 DEF LockPeer, GoTo, Locals
  <2>2. call[t].kind = "decide" /\ call[t].verdict = "approved"
    BY <2>1 DEF Shape
  <2>3. skip[t] \cup peers[t] = SkippedPeers(call[t].ch, call[t].k)
    BY <2>1, <2>2 DEF Checked
  <2>4. Pending(call[t].ch, j)
    BY <2>1, <2>3 DEF SkippedPeers
  <2>5. skip'[t] \cup peers'[t] = SkippedPeers(call[t].ch, call[t].k)
    BY <2>1, <2>3, <2>4
  <2>6. seen[t].status = "pending"
    BY <2>1, <2>2 DEF Checked, Locked
  <2> QED  BY <1>0, <2>1, <2>5, <2>6, CheckedMove
<1> QED  BY <1>1, <1>2, <1>3, <1>4, <1>5, <1>6, <1>7 DEF Moves

\* A session that moves on holds the locks of its new point.
LEMMA ShapeMoves ==
    ASSUME TypeOK, Locals, NEW t \in Txn, Shape(t), Moves(t)
    PROVE  Shape(t)'
BY ShapeBegin, ShapeStep, ShapeChain, ShapeContract, ShapeRoute, ShapeAudit,
   ShapePeers DEF Moves

\* A lock is taken only when no other session's hold on it conflicts.
LEMMA ExclusiveMoves ==
    ASSUME TypeOK, Locals, Exclusive, NEW t \in Txn, Shape(t), Moves(t)
    PROVE  Exclusive'
<1>1. ASSUME NEW r, Take(t, r)
      PROVE  Exclusive'
  <2>1. CASE ForShare(t)
    <3>1. /\ \A u \in Txn \ {t} : excl'[u] = excl[u] /\ share'[u] = share[u]
          /\ share'[t] = share[t] \cup {r} /\ excl'[t] = excl[t]
          /\ \A u \in Txn \ {t} : r \notin excl[u]
      BY <1>1, <2>1, TakeEffect
    <3> QED  BY <3>1 DEF Exclusive
  <2>2. CASE ~ForShare(t)
    <3>1. /\ \A u \in Txn \ {t} : excl'[u] = excl[u] /\ share'[u] = share[u]
          /\ share'[t] = share[t] /\ excl'[t] = excl[t] \cup {r}
          /\ \A u \in Txn \ {t} : r \notin excl[u] /\ r \notin share[u]
      BY <1>1, <2>2, TakeEffect
    <3> QED  BY <3>1 DEF Exclusive
  <2> QED  BY <2>1, <2>2
<1>2. ASSUME NEW r \in Call, Begin(t, r)
      PROVE  Exclusive'
  BY <1>2 DEF Begin, Exclusive
<1>3. \/ \E r \in Call : Begin(t, r)
      \/ \E r : Take(t, r)
  BY DEF Moves, LockStep, LockChain, LockContract, LockContractRoute, LockAudit,
         LockPeer
<1> QED  BY <1>1, <1>2, <1>3

\* Locks stay exclusive when a transaction ends.
LEMMA ExclusiveEnd ==
    ASSUME Locals, Exclusive, NEW t \in Txn, Release(t)
    PROVE  Exclusive'
<1>1. /\ excl'[t] = {} /\ share'[t] = {}
      /\ \A u \in Txn \ {t} : excl'[u] = excl[u] /\ share'[u] = share[u]
  BY ReleaseEffect DEF Same
<1> QED  BY <1>1 DEF Exclusive

-----------------------------------------------------------------------------
(* The transactions: commits. *)

\* A decision commits what ApprovalChain says of the step as it is.
LEMMA DecisionIsAtomic ==
    ASSUME NEW t \in Txn, TypeOK, Shape(t), Checked(t), Commit(t),
           call[t].kind = "decide"
    PROVE  /\ call[t].ch \in Chain /\ call[t].k \in StepId /\ call[t].u \in User
           /\ Decide(call[t].ch, call[t].k, call[t].u)
<1> PICK ch : ch = call[t].ch
  OBVIOUS
<1> PICK k : k = call[t].k
  OBVIOUS
<1> PICK v : v = call[t].verdict
  OBVIOUS
<1> PICK u : u = call[t].u
  OBVIOUS
<1> DEFINE carries == /\ seen[t].required
                      /\ \E j \in Peers(ch, k) : ~steps[ch][j].required
           advances == carries \/ \A j \in Peers(ch, k) :
                                     Required(ch, j) => ~Pending(ch, j)
           next == /\ \E j \in Later(ch, k) :
                         /\ \A i \in Later(ch, k) :
                               steps[ch][j].order <= steps[ch][i].order
                         /\ chain' = [chain EXCEPT ![ch].current =
                                                       steps[ch][j].order]
                   /\ UNCHANGED status
           final == /\ chain' = [chain EXCEPT ![ch].status = "approved",
                                              ![ch].current = seen[t].order]
                    /\ StatusUpdateInternal(chain[ch].contract, "approved")
           branches ==
             CASE v = "rejected" /\ ~seen[t].required
                    -> UNCHANGED <<status, chain>>
               [] v = "approved" /\ ~advances
                    -> UNCHANGED <<status, chain>>
               [] v = "approved" /\ advances /\ Later(ch, k) # {} -> next
               [] v = "approved" /\ advances /\ Later(ch, k) = {} -> final
               [] OTHER -> EndChain(ch, v)
<1>1. /\ pc[t] = "write"
      /\ steps' = [steps EXCEPT ![ch] = [j \in StepId |->
                    IF j = k THEN DecidedRow(seen[t], u, v)
                    ELSE IF j \in skip[t]
                         THEN [steps[ch][j] EXCEPT !.status = "skipped"]
                         ELSE steps[ch][j]]]
      /\ UNCHANGED live
      /\ branches
  BY Zenon DEF Commit, Write, WriteDecision
<1>2. /\ call[t] \in Call /\ peers[t] = {}
      /\ (v # "approved" => skip[t] = {})
  BY <1>1 DEF Shape
<1>3. /\ ch \in Chain /\ k \in StepId /\ u \in User
      /\ v \in {"approved", "rejected", "resubmission_requested"}
  BY <1>2, CallShapes DEF StepCall
<1>4. /\ seen[t] = steps[ch][k]
      /\ Pending(ch, k) /\ MayDecide(u, steps[ch][k])
  BY <1>1 DEF Checked, StepCall, StepChecks, Pending, Locked
<1>5. v = "approved" => skip[t] = SkippedPeers(ch, k)
  BY <1>1, <1>2 DEF Checked
<1>6. advances <=> Advances(ch, k)
  BY <1>4 DEF Advances, CarriesGroup
<1>7. /\ v = "rejected" => v # "approved"
      /\ v = "resubmission_requested" => v # "approved" /\ v # "rejected"
      /\ v = "approved" => v # "rejected"
  OBVIOUS
<1> HIDE DEF advances, next, final
<1>8. /\ v = "rejected" /\ ~seen[t].required => UNCHANGED <<status, chain>>
      /\ v = "approved" /\ ~advances => UNCHANGED <<status, chain>>
      /\ v = "approved" /\ advances /\ Later(ch, k) # {} => next
      /\ v = "approved" /\ advances /\ Later(ch, k) = {} => final
      /\ v = "rejected" /\ seen[t].required => EndChain(ch, v)
      /\ v = "resubmission_requested" => EndChain(ch, v)
  <2>1. v = "rejected" /\ ~seen[t].required => UNCHANGED <<status, chain>>
    BY <1>1, Zenon
  <2>2. v = "approved" /\ ~advances => UNCHANGED <<status, chain>>
    BY <1>1, <1>7, Zenon
  <2>3. v = "approved" /\ advances /\ Later(ch, k) # {} => next
    BY <1>1, <1>7, Zenon
  <2>4. v = "approved" /\ advances /\ Later(ch, k) = {} => final
    BY <1>1, <1>7, Zenon
  <2>5. v = "rejected" /\ seen[t].required => EndChain(ch, v)
    BY <1>1, <1>7, Zenon
  <2>6. v = "resubmission_requested" => EndChain(ch, v)
    BY <1>1, <1>7, Zenon
  <2> QED  BY <2>1, <2>2, <2>3, <2>4, <2>5, <2>6
<1> HIDE DEF branches
<1>9. DecideStep(ch, k, u, v, skip[t])
  BY <1>1, <1>4 DEF DecideStep
<1>10. CASE v = "rejected" /\ seen[t].required
  BY <1>2, <1>3, <1>4, <1>8, <1>9, <1>10 DEF Decide, RejectRequired
<1>11. CASE v = "rejected" /\ ~seen[t].required
  BY <1>2, <1>3, <1>4, <1>8, <1>9, <1>11 DEF Decide, RejectOptional
<1>12. CASE v = "resubmission_requested"
  BY <1>2, <1>3, <1>8, <1>9, <1>12 DEF Decide, RequestResubmission
<1>13. CASE v = "approved" /\ ~advances
  BY <1>3, <1>5, <1>6, <1>8, <1>9, <1>13 DEF Decide, ApproveWait
<1>14. CASE v = "approved" /\ advances /\ Later(ch, k) # {}
  BY <1>3, <1>5, <1>6, <1>8, <1>9, <1>14 DEF Decide, ApproveAdvance, next
<1>15. CASE v = "approved" /\ advances /\ Later(ch, k) = {}
  BY <1>3, <1>4, <1>5, <1>6, <1>8, <1>9, <1>15 DEF Decide, ApproveFinal, final
<1> QED  BY <1>3, <1>10, <1>11, <1>12, <1>13, <1>14, <1>15

\* The branches of WriteOther.
LEMMA OtherParts ==
    ASSUME NEW t \in Txn, WriteOther(t)
    PROVE  /\ call[t].kind = "reassign" =>
                 /\ steps' = [steps EXCEPT ![call[t].ch][call[t].k] =
                       [seen[t] EXCEPT !.approver = call[t].to,
                                       !.reassigned = call[t].to]]
                 /\ UNCHANGED <<status, live, chain>>
           /\ call[t].kind = "escalate" =>
                 /\ \E new \in StepId :
                       /\ ~Exists(call[t].ch, new)
                       /\ \A j \in StepId : ~Exists(call[t].ch, j) => new <= j
                       /\ steps' = [steps EXCEPT
                             ![call[t].ch][call[t].k] =
                                [seen[t] EXCEPT !.grouped = TRUE],
                             ![call[t].ch][new] =
                                [status |-> "pending", order |-> seen[t].order,
                                 required |-> seen[t].required,
                                 grouped |-> TRUE, role |-> seen[t].escRole,
                                 escRole |-> NoRole, approver |-> NoUser,
                                 delegated |-> NoUser, reassigned |-> NoUser]]
                 /\ UNCHANGED <<status, live, chain>>
           /\ call[t].kind = "route" =>
                 \E ch \in Chain : RouteInit(call[t].c, ch, call[t].m)
           /\ call[t].kind = "update" => StatusUpdateUser(call[t].c, call[t].new)
<1>1. call[t].kind = "escalate" => call[t].kind # "reassign"
  OBVIOUS
<1>2. call[t].kind = "route" => call[t].kind # "reassign" /\ call[t].kind # "escalate"
  OBVIOUS
<1>3. call[t].kind = "update" => /\ call[t].kind # "reassign"
                                 /\ call[t].kind # "escalate"
                                 /\ call[t].kind # "route"
  OBVIOUS
<1> QED  BY <1>1, <1>2, <1>3, Zenon DEF WriteOther

\* The other calls commit what ApprovalChain says of the rows as they are; the
\* escalation does but for its search for a peer, which was made before.
LEMMA ReassignIsAtomic ==
    ASSUME NEW t \in Txn, TypeOK, Shape(t), Checked(t), Commit(t),
           call[t].kind = "reassign"
    PROVE  /\ call[t].ch \in Chain /\ call[t].k \in StepId
           /\ call[t].u \in User /\ call[t].to \in User
           /\ Reassign(call[t].ch, call[t].k, call[t].u, call[t].to)
<1> PICK ch : ch = call[t].ch
  OBVIOUS
<1> PICK k : k = call[t].k
  OBVIOUS
<1> PICK to : to = call[t].to
  OBVIOUS
<1>1. pc[t] = "write" /\ WriteOther(t)
  BY DEF Commit, Write
<1>2. call[t] \in Call
  BY <1>1 DEF Shape
<1>3. /\ ch \in Chain /\ k \in StepId
      /\ call[t].u \in Reassigner /\ call[t].u \in User /\ to \in User
  BY <1>2, CallShapes, RoleAssumption DEF StepCall
<1>4. /\ seen[t] = steps[ch][k] /\ Pending(ch, k)
      /\ RoleOf[to] \in Overseer \cup {steps[ch][k].role}
  BY <1>1 DEF Checked, StepCall, StepChecks, Pending
<1>5. /\ steps' = [steps EXCEPT ![ch][k] =
             [seen[t] EXCEPT !.approver = to, !.reassigned = to]]
      /\ UNCHANGED <<status, live, chain>>
  BY <1>1, OtherParts, Zenon
<1>6. steps' = [steps EXCEPT ![ch][k].approver = to, ![ch][k].reassigned = to]
  BY <1>3, <1>4, <1>5 DEF TypeOK
<1> QED  BY <1>3, <1>4, <1>5, <1>6 DEF Reassign

\* An escalation commits what ApprovalChain says of its step, but for the search
\* for a peer.
LEMMA EscalateIsAtomic ==
    ASSUME NEW t \in Txn, TypeOK, Shape(t), Checked(t), Commit(t),
           call[t].kind = "escalate"
    PROVE  /\ call[t].ch \in Chain /\ call[t].k \in StepId
           /\ \E new \in StepId : LateEscalate(call[t].ch, call[t].k, new)
<1> PICK ch : ch = call[t].ch
  OBVIOUS
<1> PICK k : k = call[t].k
  OBVIOUS
<1>1. pc[t] = "write" /\ WriteOther(t)
  BY DEF Commit, Write
<1>2. call[t] \in Call
  BY <1>1 DEF Shape
<1>3. ch \in Chain /\ k \in StepId
  BY <1>2, CallShapes DEF StepCall
<1>4. /\ seen[t] = steps[ch][k] /\ Pending(ch, k)
      /\ steps[ch][k].escRole # NoRole
  BY <1>1 DEF Checked, StepCall, StepChecks, Pending
<1> DEFINE Row(s) == [status |-> "pending", order |-> s.order,
                      required |-> s.required, grouped |-> TRUE,
                      role |-> s.escRole, escRole |-> NoRole,
                      approver |-> NoUser, delegated |-> NoUser,
                      reassigned |-> NoUser]
           row == Row(steps[ch][k])
<1>5. /\ \E new \in StepId :
            /\ ~Exists(ch, new)
            /\ \A j \in StepId : ~Exists(ch, j) => new <= j
            /\ steps' = [steps EXCEPT ![ch][k] = [seen[t] EXCEPT
                                                     !.grouped = TRUE],
                                      ![ch][new] = Row(seen[t])]
      /\ UNCHANGED <<status, live, chain>>
  BY <1>1, OtherParts, Zenon
<1>6. PICK new \in StepId :
         /\ ~Exists(ch, new)
         /\ \A j \in StepId : ~Exists(ch, j) => new <= j
         /\ steps' = [steps EXCEPT ![ch][k] = [steps[ch][k] EXCEPT
                                                  !.grouped = TRUE],
                                   ![ch][new] = row]
  <2> HIDE DEF Row
  <2> QED  BY <1>4, <1>5
<1>7. steps' = [steps EXCEPT ![ch][k].grouped = TRUE, ![ch][new] = row]
  <2> HIDE DEF Row, row
  <2> QED  BY <1>3, <1>6 DEF TypeOK
<1> QED  BY <1>3, <1>4, <1>5, <1>6, <1>7 DEF LateEscalate

\* Routing and the user's status update commit what ApprovalChain says.
LEMMA RowIsAtomic ==
    ASSUME NEW t \in Txn, TypeOK, Shape(t), Commit(t), call[t].kind \in RowCall
    PROVE  /\ call[t].c \in Contract
           /\ \/ /\ call[t].kind = "route" /\ call[t].m \in Matrix
                 /\ \E ch \in Chain : RouteInit(call[t].c, ch, call[t].m)
              \/ /\ call[t].kind = "update" /\ call[t].new \in ContractState
                 /\ StatusUpdateUser(call[t].c, call[t].new)
<1>1. pc[t] = "write" /\ WriteOther(t)
  BY DEF Commit, Write, RowCall
<1>2. call[t] \in Call
  BY <1>1 DEF Shape
<1>3. /\ call[t].c \in Contract
      /\ call[t].kind = "route" => call[t].m \in Matrix
      /\ call[t].kind = "update" => call[t].new \in ContractState
  BY <1>2, CallShapes
<1>4. /\ call[t].kind = "route" =>
            \E ch \in Chain : RouteInit(call[t].c, ch, call[t].m)
      /\ call[t].kind = "update" => StatusUpdateUser(call[t].c, call[t].new)
  BY <1>1, OtherParts, Zenon
<1> QED  BY <1>3, <1>4 DEF RowCall

\* What a commit writes: a call of ApprovalChain, or a late escalation.
LEMMA CommitIsAtomic ==
    ASSUME NEW t \in Txn, TypeOK, Shape(t), Checked(t), Commit(t)
    PROVE  LateNext
<1>1. call[t].kind \in StepCall \cup RowCall
  BY CallShapes DEF Commit, Shape
<1>2. CASE call[t].kind = "decide"
  BY <1>2, DecisionIsAtomic DEF LateNext
<1>3. CASE call[t].kind = "reassign"
  BY <1>3, ReassignIsAtomic DEF LateNext
<1>4. CASE call[t].kind = "escalate"
  BY <1>4, EscalateIsAtomic DEF LateNext
<1>5. CASE call[t].kind \in RowCall
  BY <1>5, RowIsAtomic DEF LateNext
<1> QED  BY <1>1, <1>2, <1>3, <1>4, <1>5 DEF StepCall

\* What a commit leaves alone: rows and contracts that its session has not
\* locked; and it removes neither rows nor chains.
Undisturbed(t) ==
    /\ \A a \in Chain, j \in StepId : Exists(a, j) =>
          /\ Exists(a, j)'
          /\ StepLock(a, j) \notin excl[t] => steps'[a][j] = steps[a][j]
    /\ \A a \in Chain : chain[a].status # "none" =>
          chain'[a].status # "none" /\ chain'[a].contract = chain[a].contract
    /\ \A c \in Contract : ContractLock(c) \notin excl[t] =>
          status'[c] = status[c]

\* A decision writes no row that another session has locked.
LEMMA DecisionKeeps ==
    ASSUME NEW t \in Txn, TypeOK, Rooted, Shape(t), Checked(t), Commit(t),
           call[t].kind = "decide"
    PROVE  Undisturbed(t) /\ Rooted'
<1> PICK ch : ch = call[t].ch
  OBVIOUS
<1> PICK k : k = call[t].k
  OBVIOUS
<1> PICK u : u = call[t].u
  OBVIOUS
<1> PICK v : v = call[t].verdict
  OBVIOUS
<1>1. /\ ch \in Chain /\ k \in StepId /\ u \in User /\ Decide(ch, k, u)
  BY DecisionIsAtomic
<1>2. /\ pc[t] = "write" /\ WriteDecision(t)
  BY DEF Commit, Write
<1>3. /\ call[t] \in Call
      /\ \A j \in skip[t] : StepLock(ch, j) \in excl[t]
      /\ StepLock(ch, k) \in excl[t]
      /\ ContractLock(chain[ch].contract) \in excl[t]
  <2>1. pc[t] = "write"
    BY <1>2
  <2>2. call[t] \in Call /\ \A j \in skip[t] : StepLock(ch, j) \in excl[t]
    BY <2>1 DEF Shape
  <2>3. StepLock(ch, k) \in excl[t]
    BY <2>1 DEF Shape, StepCall
  <2>4. ContractLock(chain[ch].contract) \in excl[t]
    BY <2>1 DEF Shape
  <2> QED  BY <2>2, <2>3, <2>4
<1>4. v \in {"approved", "rejected", "resubmission_requested"}
  BY <1>3, CallShapes
<1>5. seen[t] = steps[ch][k] /\ Pending(ch, k)
  BY <1>2 DEF Checked, StepCall, StepChecks, Pending, Locked
<1>6. steps' = [steps EXCEPT ![ch] = [j \in StepId |->
                    IF j = k THEN DecidedRow(seen[t], u, v)
                    ELSE IF j \in skip[t]
                         THEN [steps[ch][j] EXCEPT !.status = "skipped"]
                         ELSE steps[ch][j]]]
  BY <1>2, Zenon DEF WriteDecision
<1>7. /\ \A a \in Chain \ {ch} : steps'[a] = steps[a]
      /\ \A j \in StepId :
            steps'[ch][j] = IF j = k THEN DecidedRow(seen[t], u, v)
                            ELSE IF j \in skip[t]
                            THEN [steps[ch][j] EXCEPT !.status = "skipped"]
                            ELSE steps[ch][j]
  BY <1>1, <1>6 DEF TypeOK
<1>8. DecidedRow(seen[t], u, v).status = v
  BY <1>1, <1>5 DEF DecidedRow, TypeOK, StepRow
<1>9. \A j \in StepId : [steps[ch][j] EXCEPT !.status = "skipped"].status
                           = "skipped"
  BY <1>1 DEF TypeOK, StepRow
<1>10. \A a \in Chain, j \in StepId : Exists(a, j) =>
          /\ steps'[a][j].status # "none"
          /\ StepLock(a, j) \notin excl[t] => steps'[a][j] = steps[a][j]
  <2> SUFFICES ASSUME NEW a \in Chain, NEW j \in StepId, Exists(a, j)
               PROVE  /\ steps'[a][j].status # "none"
                      /\ StepLock(a, j) \notin excl[t]
                            => steps'[a][j] = steps[a][j]
    OBVIOUS
  <2>1. CASE a # ch
    BY <1>7, <2>1 DEF Exists
  <2>2. CASE a = ch /\ j = k
    BY <1>3, <1>4, <1>7, <1>8, <2>2
  <2>3. CASE a = ch /\ j # k /\ j \in skip[t]
    BY <1>3, <1>7, <1>9, <2>3
  <2>4. CASE a = ch /\ j # k /\ j \notin skip[t]
    BY <1>7, <2>4 DEF Exists
  <2> QED  BY <2>1, <2>2, <2>3, <2>4
<1>11. chain[ch].status # "none" /\ chain[ch].contract \in Contract
  BY <1>1, <1>5 DEF Rooted, Pending, Exists, TypeOK, ChainRow
<1>12. \A a \in Chain :
          /\ chain'[a].contract = chain[a].contract
          /\ chain'[a].status # "none" <=> chain[a].status # "none"
          /\ a # ch => chain'[a] = chain[a]
  <2>1. \A a \in Chain : /\ chain'[a].contract = chain[a].contract
                         /\ a # ch => chain'[a] = chain[a]
    BY <1>1, DecideOpens
  <2>2. chain'[ch].status = chain[ch].status
        \/ chain'[ch].status \in {"approved", "rejected",
                                  "resubmission_requested"}
    <3>1. CASE RejectRequired(ch, k, u) \/ RequestResubmission(ch, k, u)
      BY <1>1, <3>1
      DEF RejectRequired, RequestResubmission, EndChain, TypeOK, ChainRow
    <3>2. CASE RejectOptional(ch, k, u) \/ ApproveWait(ch, k, u)
      BY <3>2 DEF RejectOptional, ApproveWait
    <3>3. CASE ApproveAdvance(ch, k, u)
      BY <1>1, <3>3 DEF ApproveAdvance, TypeOK, ChainRow
    <3>4. CASE ApproveFinal(ch, k, u)
      BY <1>1, <3>4 DEF ApproveFinal, TypeOK, ChainRow
    <3> QED  BY <1>1, <3>1, <3>2, <3>3, <3>4 DEF Decide
  <2> QED  BY <1>11, <2>1, <2>2
<1>13. \A c \in Contract \ {chain[ch].contract} : status'[c] = status[c]
  BY <1>1, <1>11
  DEF Decide, RejectRequired, RejectOptional, RequestResubmission, ApproveWait,
      ApproveAdvance, ApproveFinal, EndChain, StatusUpdateInternal, TypeOK
<1>14. Undisturbed(t)
  BY <1>3, <1>10, <1>12, <1>13 DEF Undisturbed, Exists
<1>15. Rooted'
  <2> SUFFICES ASSUME NEW a \in Chain, chain'[a].status = "none",
                      NEW j \in StepId
               PROVE  steps'[a][j].status = "none"
    BY DEF Rooted, Exists
  <2>1. chain[a].status = "none" /\ a # ch
    BY <1>11, <1>12
  <2> QED  BY <1>7, <2>1 DEF Rooted, Exists
<1> QED  BY <1>14, <1>15

\* A reassignment writes no row that another session has locked.
LEMMA ReassignKeeps ==
    ASSUME NEW t \in Txn, TypeOK, Rooted, Shape(t), Checked(t), Commit(t),
           call[t].kind = "reassign"
    PROVE  Undisturbed(t) /\ Rooted'
<1> PICK ch : ch = call[t].ch
  OBVIOUS
<1> PICK k : k = call[t].k
  OBVIOUS
<1> PICK to : to = call[t].to
  OBVIOUS
<1>1. /\ ch \in Chain /\ k \in StepId
      /\ Reassign(ch, k, call[t].u, to)
  BY ReassignIsAtomic
<1>2. StepLock(ch, k) \in excl[t]
  BY DEF Commit, Shape, StepCall
<1>3. /\ UNCHANGED <<status, chain>>
      /\ steps' = [steps EXCEPT ![ch][k] =
             [steps[ch][k] EXCEPT !.approver = to, !.reassigned = to]]
  BY <1>1 DEF Reassign, TypeOK
<1>4. \A a \in Chain, j \in StepId :
         steps'[a][j] = IF a = ch /\ j = k
                        THEN [steps[ch][k] EXCEPT !.approver = to,
                                                  !.reassigned = to]
                        ELSE steps[a][j]
  BY <1>1, <1>3 DEF TypeOK
<1>5. [steps[ch][k] EXCEPT !.approver = to, !.reassigned = to].status
         = steps[ch][k].status
  BY <1>1 DEF TypeOK, StepRow
<1>6. \A a \in Chain, j \in StepId :
         /\ steps'[a][j].status = steps[a][j].status
         /\ StepLock(a, j) \notin excl[t] => steps'[a][j] = steps[a][j]
  BY <1>2, <1>4, <1>5
<1> QED  BY <1>3, <1>6 DEF Undisturbed, Rooted, Exists

\* An escalation writes no row that another session has locked.
LEMMA EscalateKeeps ==
    ASSUME NEW t \in Txn, TypeOK, Rooted, Shape(t), Checked(t), Commit(t),
           call[t].kind = "escalate"
    PROVE  Undisturbed(t) /\ Rooted'
<1> PICK ch : ch = call[t].ch
  OBVIOUS
<1> PICK k : k = call[t].k
  OBVIOUS
<1>1. PICK new \in StepId : /\ ch \in Chain /\ k \in StepId
                            /\ LateEscalate(ch, k, new)
  BY EscalateIsAtomic
<1>2. StepLock(ch, k) \in excl[t]
  BY DEF Commit, Shape, StepCall
<1>3. /\ UNCHANGED <<status, chain>>
      /\ Pending(ch, k) /\ ~Exists(ch, new) /\ new # k
  BY <1>1 DEF LateEscalate, Pending, Exists
<1> DEFINE row == [status |-> "pending", order |-> steps[ch][k].order,
                   required |-> steps[ch][k].required, grouped |-> TRUE,
                   role |-> steps[ch][k].escRole, escRole |-> NoRole,
                   approver |-> NoUser, delegated |-> NoUser,
                   reassigned |-> NoUser]
<1>4. /\ steps' = [steps EXCEPT ![ch][k].grouped = TRUE, ![ch][new] = row]
      /\ row.status = "pending"
  BY <1>1 DEF LateEscalate
<1> HIDE DEF row
<1>5. \A a \in Chain, j \in StepId :
         steps'[a][j] = IF a = ch /\ j = new THEN row
                        ELSE IF a = ch /\ j = k
                        THEN [steps[ch][k] EXCEPT !.grouped = TRUE]
                        ELSE steps[a][j]
  BY <1>1, <1>3, <1>4 DEF TypeOK
<1>6. [steps[ch][k] EXCEPT !.grouped = TRUE].status = steps[ch][k].status
  BY <1>1 DEF TypeOK, StepRow
<1>7. \A a \in Chain, j \in StepId : Exists(a, j) =>
         /\ steps'[a][j].status # "none"
         /\ StepLock(a, j) \notin excl[t] => steps'[a][j] = steps[a][j]
  BY <1>2, <1>3, <1>5, <1>6 DEF Exists
<1>8. chain[ch].status # "none"
  BY <1>1, <1>3 DEF Rooted, Pending, Exists
<1>9. \A a \in Chain \ {ch}, j \in StepId : steps'[a][j] = steps[a][j]
  BY <1>5
<1> QED  BY <1>3, <1>7, <1>8, <1>9 DEF Undisturbed, Rooted, Exists

\* Routing and status updates write no row that another session has locked.
LEMMA RowKeeps ==
    ASSUME NEW t \in Txn, TypeOK, Rooted, Shape(t), Commit(t),
           call[t].kind \in RowCall
    PROVE  Undisturbed(t) /\ Rooted'
<1> PICK c : c = call[t].c
  OBVIOUS
<1>1. c \in Contract /\ ContractLock(c) \in excl[t]
  BY RowIsAtomic DEF Commit, Shape
<1>2. ASSUME NEW ch \in Chain, RouteInit(c, ch, call[t].m)
      PROVE  Undisturbed(t) /\ Rooted'
  <2>1. /\ chain[ch].status = "none"
        /\ \A a \in Chain \ {ch} : chain'[a] = chain[a] /\ steps'[a] = steps[a]
        /\ chain'[ch].status = "in_progress"
        /\ \A d \in Contract \ {c} : status'[d] = status[d]
    BY <1>1, <1>2 DEF RouteInit, TypeOK
  <2>2. \A j \in StepId : ~Exists(ch, j)
    BY <2>1 DEF Rooted
  <2>3. \A a \in Chain : chain[a].status # "none" =>
           chain'[a].status # "none" /\ chain'[a].contract = chain[a].contract
    BY <2>1
  <2>4. \A a \in Chain, j \in StepId : Exists(a, j) =>
           Exists(a, j)' /\ steps'[a][j] = steps[a][j]
    BY <2>1, <2>2 DEF Exists
  <2>5. Rooted'
    BY <2>1 DEF Rooted, Exists
  <2> QED  BY <1>1, <2>1, <2>3, <2>4, <2>5 DEF Undisturbed
<1>3. ASSUME StatusUpdateUser(c, call[t].new)
      PROVE  Undisturbed(t) /\ Rooted'
  BY <1>1, <1>3 DEF StatusUpdateUser, Undisturbed, Rooted, Exists, TypeOK
<1> QED  BY <1>2, <1>3, RowIsAtomic

\* No commit writes a row that another session has locked.
LEMMA CommitKeeps ==
    ASSUME NEW t \in Txn, TypeOK, Rooted, Shape(t), Checked(t), Commit(t)
    PROVE  Undisturbed(t) /\ Rooted'
<1>1. call[t].kind \in StepCall \cup RowCall
  BY CallShapes DEF Commit, Shape
<1> QED  BY <1>1, DecisionKeeps, ReassignKeeps, EscalateKeeps, RowKeeps
         DEF StepCall

\* A commit disturbs nothing that another session has read under its locks.
LEMMA CommitOthers ==
    ASSUME NEW t \in Txn, NEW u \in Txn \ {t}, TypeOK, Rooted, Exclusive,
           Shape(t), Checked(t), Shape(u), Checked(u), Commit(t), Undisturbed(t),
           Same(u)
    PROVE  Shape(u)' /\ Checked(u)'
<1> PICK r : r = call[u]
  OBVIOUS
<1>1. AuditLock \in excl[t] /\ excl[u] \cap excl[t] = {}
  BY DEF Commit, Shape, Exclusive
<1>2. pc[u] \notin {"peers", "write"}
  BY <1>1 DEF Shape
<1>3. /\ call'[u] = r /\ pc'[u] = pc[u] /\ seen'[u] = seen[u]
      /\ peers'[u] = peers[u] /\ skip'[u] = skip[u]
  BY DEF Same
<1>4. r.kind \in StepCall => /\ pc[u] # "idle" => r.ch \in Chain /\ r.k \in StepId
                             /\ Exists(r.ch, r.k)
  BY CallShapes DEF Shape, Checked
<1>5. r.kind \in StepCall /\ pc[u] # "idle" =>
         /\ Exists(r.ch, r.k)'
         /\ chain'[r.ch].contract = chain[r.ch].contract
  BY <1>4 DEF Undisturbed, Rooted
<1>6. Shape(u)'
  BY <1>3, <1>5, ShapeSame DEF StepCall
<1>7. r.kind \in StepCall /\ pc[u] \notin {"idle", "step"} =>
         /\ steps'[r.ch][r.k] = steps[r.ch][r.k]
         /\ seen[u] = steps[r.ch][r.k] /\ StepChecks(u)
  <2>1. r.kind \in StepCall /\ pc[u] \notin {"idle", "step"} =>
           StepLock(r.ch, r.k) \notin excl[t]
    BY <1>1 DEF Shape
  <2> QED  BY <1>4, <2>1 DEF Undisturbed, Checked
<1>8. pc[u] = "chain" /\ r.kind = "route" =>
         status'[r.c] \in {"draft", "resubmission_requested"}
  <2>1. pc[u] = "chain" /\ r.kind = "route" =>
           r.c \in Contract /\ ContractLock(r.c) \notin excl[t]
    BY <1>1, CallShapes DEF Shape, RowCall
  <2> QED  BY <2>1 DEF Undisturbed, Checked
<1>9. pc[u] = "idle" => r.kind \notin StepCall
  BY DEF Shape, NoCall, StepCall
<1> QED  BY <1>2, <1>3, <1>5, <1>6, <1>7, <1>8, <1>9 DEF Checked, StepChecks

\* The sessions start idle, without locks.
LEMMA AInvInit == LocksInit => AInv
<1> SUFFICES ASSUME LocksInit PROVE AInv
  OBVIOUS
<1>1. TypeOK
  BY TypeInit DEF LocksInit
<1>2. \A ch \in Chain, k \in StepId :
         steps[ch][k] = [status |-> "none", order |-> 0, required |-> FALSE,
                         grouped |-> FALSE, role |-> NoRole, escRole |-> NoRole,
                         approver |-> NoUser, delegated |-> NoUser,
                         reassigned |-> NoUser]
  BY DEF LocksInit, Init
<1>3. Rooted
  BY <1>2 DEF Rooted, Exists
<1>4. /\ call = [t \in Txn |-> NoCall] /\ pc = [t \in Txn |-> "idle"]
      /\ excl = Free /\ share = Free /\ peers = Free /\ skip = Free
      /\ calls = 0
  BY DEF LocksInit
<1>5. seen \in [Txn -> StepRow]
  <2>1. \A ch \in Chain, k \in StepId : steps[ch][k] \in StepRow
    BY <1>1 DEF TypeOK
  <2> QED  BY <2>1 DEF LocksInit
<1>6. Locals
  BY <1>4, <1>5, CallsAssumption DEF Locals, Points, Free
<1>7. Exclusive
  BY <1>4 DEF Exclusive, Free
<1>8. \A t \in Txn : Shape(t) /\ Checked(t)
  BY <1>4 DEF Shape, Checked, Free, NoCall, StepCall, RowCall, Claims, Locked
<1> QED  BY <1>1, <1>3, <1>6, <1>7, <1>8, TypedParts DEF AInv

\* The invariant is inductive, and under it every step is a step of the engine
\* or changes none of its state.
LEMMA AInvStep == AInv /\ [LocksNext]_lvars => AInv' /\ [LateNext]_vars
<1> SUFFICES ASSUME AInv, [LocksNext]_lvars PROVE AInv' /\ [LateNext]_vars
  OBVIOUS
<1>0. /\ TypeOK /\ Locals /\ Rooted /\ Exclusive
      /\ \A t \in Txn : Shape(t) /\ Checked(t)
  BY TypedParts DEF AInv
<1>1. ASSUME NEW t \in Txn, Moves(t)
      PROVE  AInv' /\ [LateNext]_vars
  <2>1. UNCHANGED vars /\ UNCHANGED <<status, live, chain, steps>>
    BY <1>1, MovesEffect DEF vars
  <2>2. Locals' /\ \A u \in Txn \ {t} : Same(u)
    BY <1>0, <1>1, MovesLocal
  <2>3. TypeOK'
    BY <1>0, <2>1 DEF TypeOK
  <2>4. Rooted'
    BY <1>0, <2>1 DEF Rooted, Exists
  <2>5. Exclusive'
    BY <1>0, <1>1, ExclusiveMoves
  <2>6. Shape(t)' /\ Checked(t)'
    BY <1>0, <1>1, ShapeMoves, CheckedMoves
  <2>7. \A u \in Txn \ {t} : Shape(u)' /\ Checked(u)'
    BY <1>0, <2>1, <2>2, ShapeSame, CheckedSame
  <2>8. Typed'
    BY <2>2, <2>3 DEF Typed, LocksTypeOK, Locals, Points
  <2> QED  BY <2>1, <2>4, <2>5, <2>6, <2>7, <2>8 DEF AInv
<1>2. ASSUME NEW t \in Txn, Ends(t)
      PROVE  AInv' /\ [LateNext]_vars
  <2>1. /\ UNCHANGED vars /\ UNCHANGED <<status, live, chain, steps>>
        /\ Release(t)
    BY <1>2, EndsEffect DEF vars
  <2>2. Locals' /\ \A u \in Txn \ {t} : Same(u)
    BY <1>0, <2>1, ReleaseEffect
  <2>3. TypeOK'
    BY <1>0, <2>1 DEF TypeOK
  <2>4. Rooted'
    BY <1>0, <2>1 DEF Rooted, Exists
  <2>5. Exclusive'
    BY <1>0, <2>1, ExclusiveEnd
  <2>6. Shape(t)' /\ Checked(t)'
    BY <1>0, <2>1, ShapeEnd
  <2>7. \A u \in Txn \ {t} : Shape(u)' /\ Checked(u)'
    BY <1>0, <2>1, <2>2, ShapeSame, CheckedSame
  <2>8. Typed'
    BY <2>2, <2>3 DEF Typed, LocksTypeOK, Locals, Points
  <2> QED  BY <2>1, <2>4, <2>5, <2>6, <2>7, <2>8 DEF AInv
<1>3. ASSUME NEW t \in Txn, Commit(t)
      PROVE  AInv' /\ [LateNext]_vars
  <2>1. LateNext /\ Release(t)
    BY <1>0, <1>3, CommitIsAtomic DEF Commit
  <2>2. Locals' /\ \A u \in Txn \ {t} : Same(u)
    BY <1>0, <2>1, ReleaseEffect
  <2>3. TypeOK'
    BY <1>0, <2>1, TypeNext
  <2>4. Undisturbed(t) /\ Rooted'
    BY <1>0, <1>3, CommitKeeps
  <2>5. Exclusive'
    BY <1>0, <2>1, ExclusiveEnd
  <2>6. Shape(t)' /\ Checked(t)'
    BY <1>0, <2>1, ShapeEnd
  <2>7. \A u \in Txn \ {t} : Shape(u)' /\ Checked(u)'
    BY <1>0, <1>3, <2>2, <2>4, CommitOthers
  <2>8. Typed'
    BY <2>2, <2>3 DEF Typed, LocksTypeOK, Locals, Points
  <2> QED  BY <2>1, <2>4, <2>5, <2>6, <2>7, <2>8 DEF AInv
<1>4. CASE UNCHANGED lvars
  <2>1. /\ UNCHANGED vars /\ UNCHANGED <<status, live, chain, steps>>
        /\ UNCHANGED <<call, pc, excl, share, seen, peers, skip, calls>>
    BY <1>4 DEF lvars, vars
  <2>2. Locals' /\ \A u \in Txn : Same(u)
    BY <1>0, <2>1 DEF Locals, Same
  <2>3. TypeOK' /\ Rooted' /\ Exclusive'
    BY <1>0, <2>1 DEF TypeOK, Rooted, Exists, Exclusive
  <2>4. \A u \in Txn : Shape(u)' /\ Checked(u)'
    BY <1>0, <2>1, <2>2, ShapeSame, CheckedSame
  <2>5. Typed'
    BY <2>2, <2>3 DEF Typed, LocksTypeOK, Locals, Points
  <2> QED  BY <2>1, <2>3, <2>4, <2>5 DEF AInv
<1> QED  BY <1>1, <1>2, <1>3, <1>4, StepKinds

\* The invariant holds always.
LEMMA AInvAlways == LocksSpec => []AInv
BY AInvInit, AInvStep, PTL DEF LocksSpec

\* Every commit of the interleaved transactions is one whole call of
\* ApprovalChain on the state it commits to, but for the escalation, whose
\* search for a peer may be out of date by then.
THEOREM CommitsAreCalls == LocksSpec => [][LateNext]_vars
BY AInvAlways, AInvStep, PTL DEF LocksSpec

-----------------------------------------------------------------------------
(* The transactions: deadlocks. *)

\* Who waits for whom, among sessions that have not written.
LEMMA NoCircle ==
    ASSUME AInv, NEW D \in SUBSET Txn, Deadlock(D),
           \A t \in D : ~WroteEarly(t) /\ ~FoundOpen(t)
    PROVE  \A t \in D : pc[t] = "peer"
<1>0. \A t \in Txn : Shape(t) /\ Checked(t) /\ pc[t] \in Points
  BY DEF AInv, Typed, LocksTypeOK, Points
<1>10. \A t \in D : \E r \in Asked(t), u \in D \ {t} :
                      r \in excl[u] \/ r \in share[u]
  <2> TAKE t \in D
  <2>1. WaitsFor(t) \cap D # {}
    BY DEF Deadlock, Cyclic
  <2>2. PICK u \in D : u \in WaitsFor(t)
    BY <2>1
  <2>3. WaitsFor(t) = {} \/ WaitsFor(t) = UNION {Blockers(t, r) : r \in Asked(t)}
    BY DEF WaitsFor
  <2>4. PICK r \in Asked(t) : u \in Blockers(t, r)
    BY <2>2, <2>3
  <2> QED  BY <2>4 DEF Blockers, HoldersX, HoldersS
<1>1. \A t \in D : pc[t] \notin {"peers", "write"} /\ AuditLock \notin excl[t]
  <2> SUFFICES ASSUME NEW t \in D
               PROVE  pc[t] \notin {"peers", "write"} /\ AuditLock \notin excl[t]
    OBVIOUS
  <2>1. pc[t] # "peers"
    BY <1>0 DEF Shape, WroteEarly
  <2>2. pc[t] # "write"
    BY <1>10, AskedAt
  <2> QED  BY <1>0, <2>1, <2>2 DEF Shape, WroteEarly
<1>2. \A t \in D : pc[t] = "chain" => call[t].kind \in {"decide", "escalate"}
  BY <1>0 DEF Shape, Checked, FoundOpen
<1>4. \A t \in D : pc[t] # "idle"
  BY <1>10, AskedAt
<1>5. \A t \in D : pc[t] # "audit"
  <2> SUFFICES ASSUME NEW t \in D, pc[t] = "audit" PROVE FALSE
    OBVIOUS
  <2>1. PICK u \in D : AuditLock \in excl[u] \/ AuditLock \in share[u]
    BY <1>10, AskedAt
  <2> QED  BY <1>0, <1>1, <2>1 DEF Shape
<1>6. \A t \in D : pc[t] # "contract"
  <2> SUFFICES ASSUME NEW t \in D, pc[t] = "contract" PROVE FALSE
    OBVIOUS
  <2>1. /\ call[t] \in Call
        /\ call[t].kind \in {"decide"} \cup RowCall
    BY <1>0, <1>1, CallShapes DEF Shape, StepCall
  <2>2. PICK c \in Contract : Asked(t) = {ContractLock(c)}
    <3>1. CASE call[t].kind \in RowCall
      BY <2>1, <3>1, CallShapes, AskedAt
    <3>2. CASE call[t].kind = "decide"
      <4>1. chain[call[t].ch].contract \in Contract
        BY <2>1, <3>2, CallShapes DEF StepCall, AInv, Typed, LocksTypeOK, TypeOK,
                                      ChainRow
      <4> QED  BY <3>2, <4>1, AskedAt DEF RowCall
    <3> QED  BY <2>1, <3>1, <3>2
  <2>3. PICK u \in D : ContractLock(c) \in excl[u] \cup share[u]
    BY <1>10, <2>2
  <2>4. \/ pc[u] \in {"audit", "peers", "write"}
        \/ pc[u] = "chain" /\ call[u].kind = "route"
    BY <1>0, <2>3 DEF Shape
  <2> QED  BY <1>1, <1>2, <1>5, <2>4
<1>7. \A t \in D : pc[t] # "chain"
  <2> SUFFICES ASSUME NEW t \in D, pc[t] = "chain" PROVE FALSE
    OBVIOUS
  <2>1. call[t] \in Call /\ call[t].kind \in {"decide", "escalate"}
    BY <1>0, <1>2 DEF Shape
  <2>2. PICK ch \in Chain : Asked(t) = {ChainLock(ch)}
    BY <2>1, CallShapes, AskedAt DEF StepCall
  <2>3. PICK u \in D : ChainLock(ch) \in excl[u] \cup share[u]
    BY <1>10, <2>2
  <2>4. pc[u] \in {"contract", "audit", "peers", "write"}
    BY <1>0, <2>3 DEF Shape
  <2> QED  BY <1>1, <1>5, <1>6, <2>4
<1>8. \A t \in D : pc[t] # "step"
  <2> SUFFICES ASSUME NEW t \in D, pc[t] = "step" PROVE FALSE
    OBVIOUS
  <2>1. excl[t] = {} /\ share[t] = {}
    BY <1>0 DEF Shape
  <2> DEFINE E == D \ {t}
  <2>2. \A u \in D : t \notin WaitsFor(u)
    BY <2>1 DEF WaitsFor, Blockers, HoldersX, HoldersS
  <2>3. \A u \in D : WaitsFor(u) \cap D # {}
    BY DEF Deadlock, Cyclic
  <2>4. E # {} /\ \A u \in E : WaitsFor(u) \cap E # {}
    BY <2>2, <2>3
  <2>5. E \in SUBSET D /\ Cyclic(E)
    BY <2>4 DEF Cyclic
  <2>6. E = D
    BY <2>5 DEF Deadlock
  <2> QED  BY <2>6
<1> QED  BY <1>0, <1>1, <1>2, <1>4, <1>5, <1>6, <1>7, <1>8 DEF Points

\* A deadlock of the approval engine's calls has a call in it that has already
\* written, or a routing that found an open chain on a draft, or it is made of
\* escalations alone.
THEOREM CallsDoNotDeadlock == LocksSpec => []LockOrderKept
<1>1. AInv => LockOrderKept
  BY NoCircle DEF LockOrderKept
<1> QED  BY <1>1, AInvAlways, PTL

\* The engine's invariants survive the interleaving of its transactions,
\* late escalations included: a contract in approval has exactly one open chain,
\* open chains can finish, waiting steps have somebody who can decide them, a
\* chain is approved only when its last order was signed off, and rejected and
\* cancelled contracts stay so.
THEOREM InterleavedCallsKeepTheEngine ==
    LocksSpec => /\ []OneOpenChain /\ []InApprovalHasOpenChain
                 /\ []PointerAtUndecided /\ []LastOrderOutstanding
                 /\ []GroupsSettled /\ []AssignmentKept
                 /\ LastOrderSignedOff /\ TerminalStays
<1>1. LocksInit => /\ OneOpenChain /\ InApprovalHasOpenChain
                   /\ PointerAtUndecided /\ LastOrderOutstanding
                   /\ GroupsSettled /\ AssignmentKept
  BY DEF LocksInit, Init, OneOpenChain, InApprovalHasOpenChain, InProgress,
         GroupsSettled, PointerAtUndecided, LastOrderOutstanding, Settled,
         PointerValid, LastOpen, AssignmentKept, Pending
<1>2. AInv => TypeOK
  BY DEF AInv, Typed, LocksTypeOK
<1>3. LocksSpec => []TypeOK
  BY <1>2, AInvAlways, PTL
<1>4. TypeOK /\ GroupsSettled /\ LastOrderOutstanding /\ [LateNext]_vars
        => [LastOrderStep]_vars
  BY NextSignsOff DEF LastOrderStep, SignedOff
<1>5. TypeOK /\ [LateNext]_vars =>
         [\A c \in Contract :
            status[c] \in {"rejected", "cancelled"} => status'[c] = status[c]]_vars
  BY TerminalNext
<1>6. LocksSpec => []OneOpenChain /\ []InApprovalHasOpenChain
  BY <1>1, <1>3, OpenNext, CommitsAreCalls, PTL DEF LocksSpec
<1>7. LocksSpec => []GroupsSettled /\ []PointerAtUndecided /\ []LastOrderOutstanding
  BY <1>1, <1>3, ProgressNext, CommitsAreCalls, PTL DEF LocksSpec
<1>8. LocksSpec => []AssignmentKept
  BY <1>1, <1>3, KeptNext, CommitsAreCalls, PTL DEF LocksSpec
<1>9. LocksSpec => LastOrderSignedOff
  BY <1>3, <1>4, <1>7, CommitsAreCalls, PTL DEF LastOrderSignedOff, LastOrderStep
<1>10. LocksSpec => TerminalStays
  BY <1>3, <1>5, CommitsAreCalls, PTL DEF TerminalStays
<1> QED  BY <1>6, <1>7, <1>8, <1>9, <1>10, PTL

-----------------------------------------------------------------------------
(* The transactions: the search for an escalation peer.                      *)

\* The rule sets in which no two rules of one order escalate to one role, and a
\* rule for the role that another one of its order escalates to is grouped.  The
\* seeded rules meet it (migration 527: none escalates); fn_approval_matrix_set
\* does not ask for it of the rules that an administrator enters.
EscalationsDistinct ==
    \A m \in Matrix : \A i, j \in StepId :
        /\ i # j /\ m[i].status = "pending" /\ m[j].status = "pending"
        /\ m[i].order = m[j].order
        /\ m[i].escRole # NoRole /\ m[j].escRole # NoRole
        => /\ m[i].escRole # m[j].escRole
           /\ m[j].role = m[i].escRole => m[j].grouped

\* The same of the steps of a chain, whatever escalated.
DistinctIn(ch) ==
    \A i, j \in StepId :
        /\ i # j /\ Exists(ch, i) /\ Exists(ch, j)
        /\ steps[ch][i].order = steps[ch][j].order
        /\ steps[ch][i].escRole # NoRole /\ steps[ch][j].escRole # NoRole
        => /\ steps[ch][i].escRole # steps[ch][j].escRole
           /\ steps[ch][j].role = steps[ch][i].escRole => steps[ch][j].grouped
Distinct == \A ch \in Chain : DistinctIn(ch)

\* An escalation that found no peer would still find none.
StillAlone(t) ==
    call[t].kind = "escalate" /\ pc[t] \in {"chain", "audit", "contract", "write"}
        => ~AlreadyEscalated(call[t].ch, call[t].k)

\* Calls other than the escalation keep what identifies a step.
SameSteps(ch) ==
    \A j \in StepId :
        /\ Exists(ch, j)' <=> Exists(ch, j)
        /\ steps'[ch][j].order = steps[ch][j].order
        /\ steps'[ch][j].grouped = steps[ch][j].grouped
        /\ steps'[ch][j].role = steps[ch][j].role
        /\ steps'[ch][j].escRole = steps[ch][j].escRole

\* Rows that stay as they were for an escalation keep their escalations apart.
LEMMA SameStepsKeep ==
    ASSUME NEW ch \in Chain, SameSteps(ch)
    PROVE  /\ DistinctIn(ch) => DistinctIn(ch)'
           /\ \A k \in StepId : AlreadyEscalated(ch, k)' <=> AlreadyEscalated(ch, k)
BY DEF SameSteps, DistinctIn, AlreadyEscalated

\* A chain whose rows do not change is the same for an escalation.
LEMMA UnchangedSteps ==
    ASSUME NEW ch \in Chain, steps'[ch] = steps[ch]
    PROVE  SameSteps(ch)
BY DEF SameSteps, Exists

\* A decision changes nothing that an escalation looks for.
LEMMA DecisionSteps ==
    ASSUME NEW t \in Txn, TypeOK, Shape(t), Checked(t), Commit(t),
           call[t].kind = "decide", NEW a \in Chain
    PROVE  SameSteps(a)
<1> PICK ch : ch = call[t].ch
  OBVIOUS
<1> PICK k : k = call[t].k
  OBVIOUS
<1> PICK u : u = call[t].u
  OBVIOUS
<1> PICK v : v = call[t].verdict
  OBVIOUS
<1>1. /\ ch \in Chain /\ k \in StepId /\ Decide(ch, k, u)
  BY DecisionIsAtomic
<1>2. PICK w \in {"approved", "rejected", "resubmission_requested"},
           others \in {{}, SkippedPeers(ch, k)} : DecideStep(ch, k, u, w, others)
  BY <1>1 DEF Decide, RejectRequired, RejectOptional, RequestResubmission,
              ApproveWait, ApproveAdvance, ApproveFinal
<1>3. /\ Pending(ch, k)
      /\ \A j \in others : Exists(ch, j)
      /\ steps' = [steps EXCEPT ![ch] = [j \in StepId |->
                    IF j = k THEN DecidedRow(steps[ch][k], u, w)
                    ELSE IF j \in others
                         THEN [steps[ch][j] EXCEPT !.status = "skipped"]
                         ELSE steps[ch][j]]]
  BY <1>2 DEF DecideStep, SkippedPeers, Peers
<1>4. /\ \A b \in Chain \ {ch} : steps'[b] = steps[b]
      /\ \A j \in StepId :
            steps'[ch][j] = IF j = k THEN DecidedRow(steps[ch][k], u, w)
                            ELSE IF j \in others
                            THEN [steps[ch][j] EXCEPT !.status = "skipped"]
                            ELSE steps[ch][j]
  BY <1>1, <1>3 DEF TypeOK
<1>5. CASE a # ch
  BY <1>4, <1>5, UnchangedSteps
<1>6. CASE a = ch
  <2> SUFFICES ASSUME NEW j \in StepId
               PROVE  /\ steps'[ch][j].status # "none" <=> Exists(ch, j)
                      /\ steps'[ch][j].order = steps[ch][j].order
                      /\ steps'[ch][j].grouped = steps[ch][j].grouped
                      /\ steps'[ch][j].role = steps[ch][j].role
                      /\ steps'[ch][j].escRole = steps[ch][j].escRole
    BY <1>6 DEF SameSteps, Exists
  <2>1. steps[ch][j] \in StepRow
    BY <1>1 DEF TypeOK
  <2>2. CASE j = k
    <3>1. LET r == DecidedRow(steps[ch][k], u, w) IN
          /\ r.status = w /\ r.order = steps[ch][k].order
          /\ r.grouped = steps[ch][k].grouped /\ r.role = steps[ch][k].role
          /\ r.escRole = steps[ch][k].escRole
      BY <2>1, <2>2 DEF DecidedRow, StepRow
    <3>2. w # "none" /\ Exists(ch, k)
      BY <1>3 DEF Exists, Pending
    <3> QED  BY <1>4, <2>2, <3>1, <3>2
  <2>3. CASE j # k /\ j \in others
    BY <1>3, <1>4, <2>1, <2>3 DEF StepRow, Exists
  <2>4. CASE j # k /\ j \notin others
    BY <1>4, <2>4 DEF Exists
  <2> QED  BY <2>2, <2>3, <2>4
<1> QED  BY <1>5, <1>6

\* A reassignment changes nothing that an escalation looks for.
LEMMA ReassignSteps ==
    ASSUME NEW t \in Txn, TypeOK, Shape(t), Checked(t), Commit(t),
           call[t].kind = "reassign", NEW a \in Chain
    PROVE  SameSteps(a)
<1> PICK ch : ch = call[t].ch
  OBVIOUS
<1> PICK k : k = call[t].k
  OBVIOUS
<1> PICK to : to = call[t].to
  OBVIOUS
<1>1. /\ ch \in Chain /\ k \in StepId
      /\ Reassign(ch, k, call[t].u, to)
  BY ReassignIsAtomic
<1>2. steps' = [steps EXCEPT ![ch][k] =
             [steps[ch][k] EXCEPT !.approver = to, !.reassigned = to]]
  BY <1>1 DEF Reassign, TypeOK
<1>3. \A j \in StepId :
         steps'[a][j] = IF a = ch /\ j = k
                        THEN [steps[ch][k] EXCEPT !.approver = to,
                                                  !.reassigned = to]
                        ELSE steps[a][j]
  BY <1>1, <1>2 DEF TypeOK
<1>4. LET r == [steps[ch][k] EXCEPT !.approver = to, !.reassigned = to] IN
      /\ r.status = steps[ch][k].status /\ r.order = steps[ch][k].order
      /\ r.grouped = steps[ch][k].grouped /\ r.role = steps[ch][k].role
      /\ r.escRole = steps[ch][k].escRole
  BY <1>1 DEF TypeOK, StepRow
<1> QED  BY <1>3, <1>4 DEF SameSteps, Exists

\* A chain just routed has the escalation roles of its rule set.
LEMMA RouteDistinct ==
    ASSUME EscalationsDistinct, TypeOK, NEW c \in Contract, NEW ch \in Chain,
           NEW m \in Matrix, RouteInit(c, ch, m)
    PROVE  DistinctIn(ch)'
<1>1. steps'[ch] = m
  BY DEF RouteInit, TypeOK
<1>2. \A k \in StepId : m[k].status # "none" => m[k].status = "pending"
  BY MatrixAssumption
<1> QED  BY <1>1, <1>2 DEF EscalationsDistinct, DistinctIn, Exists

\* The rows after an escalation.
LEMMA EscalateRows ==
    ASSUME TypeOK, NEW ch \in Chain, NEW k \in StepId, NEW new \in StepId,
           LateEscalate(ch, k, new)
    PROVE  /\ Exists(ch, k) /\ ~Exists(ch, new) /\ new # k
           /\ \A a \in Chain \ {ch} : steps'[a] = steps[a]
           /\ \A j \in StepId \ {k, new} : steps'[ch][j] = steps[ch][j]
           /\ steps'[ch][k].status = "pending" /\ steps'[ch][k].grouped
           /\ steps'[ch][k].order = steps[ch][k].order
           /\ steps'[ch][k].role = steps[ch][k].role
           /\ steps'[ch][k].escRole = steps[ch][k].escRole
           /\ steps'[ch][new].order = steps[ch][k].order
           /\ steps'[ch][new].role = steps[ch][k].escRole
           /\ steps'[ch][new].escRole = NoRole
<1> DEFINE row == [status |-> "pending", order |-> steps[ch][k].order,
                   required |-> steps[ch][k].required, grouped |-> TRUE,
                   role |-> steps[ch][k].escRole, escRole |-> NoRole,
                   approver |-> NoUser, delegated |-> NoUser,
                   reassigned |-> NoUser]
           old == [steps[ch][k] EXCEPT !.grouped = TRUE]
<1>1. /\ Pending(ch, k) /\ ~Exists(ch, new) /\ new # k
      /\ steps' = [steps EXCEPT ![ch][k].grouped = TRUE, ![ch][new] = row]
  BY DEF LateEscalate, Pending, Exists
<1>2. /\ row.order = steps[ch][k].order /\ row.role = steps[ch][k].escRole
      /\ row.escRole = NoRole
  OBVIOUS
<1>3. /\ old.status = steps[ch][k].status /\ old.grouped
      /\ old.order = steps[ch][k].order /\ old.role = steps[ch][k].role
      /\ old.escRole = steps[ch][k].escRole
  BY DEF TypeOK, StepRow
<1> HIDE DEF row
<1>4. /\ \A a \in Chain \ {ch} : steps'[a] = steps[a]
      /\ \A j \in StepId \ {k, new} : steps'[ch][j] = steps[ch][j]
      /\ steps'[ch][k] = old /\ steps'[ch][new] = row
  BY <1>1 DEF TypeOK
<1> HIDE DEF old
<1> QED  BY <1>1, <1>2, <1>3, <1>4 DEF Pending, Exists

\* An escalation peer escalates no further, so that the escalations stay apart.
LEMMA EscalateDistinct ==
    ASSUME TypeOK, NEW ch \in Chain, NEW k \in StepId, NEW new \in StepId,
           LateEscalate(ch, k, new), Distinct
    PROVE  Distinct'
<1> SUFFICES ASSUME NEW a \in Chain PROVE DistinctIn(a)'
  BY DEF Distinct
<1>1. CASE a # ch
  BY <1>1, EscalateRows, UnchangedSteps, SameStepsKeep DEF Distinct
<1>2. CASE a = ch
  <2> SUFFICES ASSUME NEW i \in StepId, NEW j \in StepId, i # j,
                      Exists(ch, i)', Exists(ch, j)',
                      steps'[ch][i].order = steps'[ch][j].order,
                      steps'[ch][i].escRole # NoRole,
                      steps'[ch][j].escRole # NoRole
               PROVE  /\ steps'[ch][i].escRole # steps'[ch][j].escRole
                      /\ steps'[ch][j].role = steps'[ch][i].escRole
                            => steps'[ch][j].grouped
    BY <1>2 DEF DistinctIn
  <2>1. i # new /\ j # new
    BY EscalateRows
  <2>2. \A x \in {i, j} : /\ Exists(ch, x)
                          /\ steps'[ch][x].order = steps[ch][x].order
                          /\ steps'[ch][x].role = steps[ch][x].role
                          /\ steps'[ch][x].escRole = steps[ch][x].escRole
                          /\ steps[ch][x].grouped => steps'[ch][x].grouped
    <3> TAKE x \in {i, j}
    <3>1. CASE x = k
      BY <3>1, EscalateRows
    <3>2. CASE x # k
      BY <2>1, <3>2, EscalateRows DEF Exists
    <3> QED  BY <3>1, <3>2
  <2>3. DistinctIn(ch)
    BY DEF Distinct
  <2> QED  BY <2>2, <2>3 DEF DistinctIn
<1> QED  BY <1>1, <1>2

\* The escalation of one step does not become the peer of another.
LEMMA EscalateAlone ==
    ASSUME TypeOK, NEW ch \in Chain, NEW k \in StepId, NEW new \in StepId,
           LateEscalate(ch, k, new), Distinct, NEW a \in Chain, NEW i \in StepId,
           Exists(a, i), steps[a][i].escRole # NoRole, a = ch => i # k,
           ~AlreadyEscalated(a, i)
    PROVE  ~AlreadyEscalated(a, i)'
<1>1. CASE a # ch
  BY <1>1, EscalateRows, UnchangedSteps, SameStepsKeep
<1>2. CASE a = ch
  <2>1. i # k /\ i # new
    BY <1>2, EscalateRows
  <2>2. steps'[ch][i] = steps[ch][i]
    BY <2>1, EscalateRows
  <2>3. Exists(ch, k) /\ steps[ch][k].escRole # NoRole
    BY EscalateRows DEF LateEscalate
  <2>4. steps[ch][k].order = steps[ch][i].order =>
           /\ steps[ch][i].escRole # steps[ch][k].escRole
           /\ steps[ch][k].role = steps[ch][i].escRole => steps[ch][k].grouped
    BY <1>2, <2>1, <2>3 DEF Distinct, DistinctIn
  <2> SUFFICES ASSUME NEW j \in StepId, Exists(ch, j)',
                      steps'[ch][j].order = steps[ch][i].order,
                      steps'[ch][j].grouped,
                      steps'[ch][j].role = steps[ch][i].escRole
               PROVE  FALSE
    BY <1>2, <2>2 DEF AlreadyEscalated
  <2>5. CASE j = new
    BY <2>4, <2>5, EscalateRows
  <2>6. CASE j = k
    BY <1>2, <2>3, <2>4, <2>6, EscalateRows DEF AlreadyEscalated
  <2>7. CASE j # k /\ j # new
    BY <1>2, <2>7, EscalateRows DEF AlreadyEscalated, Exists
  <2> QED  BY <2>5, <2>6, <2>7
<1> QED  BY <1>1, <1>2

\* A session that nobody disturbs still finds no escalation peer.
LEMMA AloneSame ==
    ASSUME NEW u \in Txn, StillAlone(u), Same(u), UNCHANGED steps
    PROVE  StillAlone(u)'
BY DEF StillAlone, Same, AlreadyEscalated, Exists

\* A session that moves on to its writes found no escalation peer.
LEMMA AloneMoves ==
    ASSUME TypeOK, Locals, NEW t \in Txn, Shape(t), StillAlone(t), Moves(t)
    PROVE  StillAlone(t)'
<1>0. UNCHANGED <<status, live, chain, steps>>
  BY MovesEffect DEF vars
<1>1. ASSUME NEW r \in Call, Begin(t, r)
      PROVE  StillAlone(t)'
  <2>1. /\ call'[t] = r
        /\ pc'[t] = IF r.kind \in {"route", "update"} THEN "contract" ELSE "step"
    BY <1>1 DEF Begin, GoTo, Locals
  <2> QED  BY <2>1 DEF StillAlone
<1>2. CASE LockStep(t)
  <2>1. pc'[t] = AfterStep(t) /\ call' = call
    BY <1>2 DEF LockStep, GoTo, Locals
  <2>2. call[t].kind = "escalate" /\ AfterStep(t) # "peer" =>
           EscalationPeers(call[t].ch, call[t].k) = {}
    BY AfterStepAt
  <2>3. call[t].kind = "escalate" /\ AfterStep(t) # "peer" =>
           ~AlreadyEscalated(call[t].ch, call[t].k)
    BY <2>2 DEF EscalationPeers, AlreadyEscalated
  <2> QED  BY <1>0, <2>1, <2>3 DEF StillAlone, AlreadyEscalated, Exists
<1>3. ASSUME LockChain(t) \/ LockContract(t) \/ LockContractRoute(t) \/ LockAudit(t)
      PROVE  StillAlone(t)'
  <2>1. call' = call /\ pc[t] \in {"chain", "contract", "audit"}
    BY <1>3 DEF LockChain, LockContract, LockContractRoute, LockAudit
  <2> QED  BY <1>0, <2>1 DEF StillAlone, AlreadyEscalated, Exists
<1>4. ASSUME NEW j \in StepId, LockPeer(t, j)
      PROVE  StillAlone(t)'
  <2>1. call' = call /\ call[t].kind = "decide"
    BY <1>4 DEF LockPeer, Shape
  <2> QED  BY <2>1 DEF StillAlone
<1> QED  BY <1>1, <1>2, <1>3, <1>4 DEF Moves

\* A commit leaves the other escalations alone, and the rows distinct.
LEMMA CommitAlone ==
    ASSUME EscalationsDistinct, AInv, Distinct,
           NEW t \in Txn, Commit(t), StillAlone(t)
    PROVE  /\ Next /\ Distinct'
           /\ \A u \in Txn \ {t} : StillAlone(u) /\ Same(u) => StillAlone(u)'
<1>0. /\ TypeOK /\ Rooted
      /\ \A u \in Txn : Shape(u) /\ Checked(u)
  BY DEF AInv, Typed, LocksTypeOK
<1>1. call[t].kind \in StepCall \cup RowCall
  BY <1>0, CallShapes DEF Commit, Shape
<1>2. ASSUME NEW u \in Txn \ {t}, call[u].kind = "escalate",
             pc[u] \in {"chain", "audit", "contract", "write"}
      PROVE  /\ call[u].ch \in Chain /\ call[u].k \in StepId
             /\ Exists(call[u].ch, call[u].k)
             /\ steps[call[u].ch][call[u].k].escRole # NoRole
             /\ StepLock(call[u].ch, call[u].k) \in excl[u]
  <2>1. Shape(u) /\ Checked(u)
    BY <1>0
  <2>2. call[u] \in Call
    BY <1>2, <2>1 DEF Shape
  <2>3. StepChecks(u)
    BY <1>2, <2>1 DEF Checked, StepCall
  <2> QED  BY <1>2, <2>1, <2>2, <2>3, CallShapes
           DEF Shape, StepCall, Checked, StepChecks
<1>3. ASSUME \A a \in Chain : SameSteps(a)
      PROVE  /\ Distinct'
             /\ \A u \in Txn \ {t} : StillAlone(u) /\ Same(u) => StillAlone(u)'
  <2>1. Distinct'
    BY <1>3, SameStepsKeep DEF Distinct
  <2>2. ASSUME NEW u \in Txn \ {t}, StillAlone(u), Same(u)
        PROVE  StillAlone(u)'
    BY <1>2, <1>3, <2>2, SameStepsKeep DEF StillAlone, Same
  <2> QED  BY <2>1, <2>2
<1>4. CASE call[t].kind = "decide"
  <2>1. Next
    BY <1>0, <1>4, DecisionIsAtomic DEF Next
  <2> QED  BY <1>0, <1>3, <1>4, <2>1, DecisionSteps
<1>5. CASE call[t].kind = "reassign"
  <2>1. Next
    BY <1>0, <1>5, ReassignIsAtomic DEF Next
  <2> QED  BY <1>0, <1>3, <1>5, <2>1, ReassignSteps
<1>6. CASE call[t].kind = "escalate"
  <2>1. PICK new \in StepId : /\ call[t].ch \in Chain /\ call[t].k \in StepId
                              /\ LateEscalate(call[t].ch, call[t].k, new)
    BY <1>0, <1>6, EscalateIsAtomic
  <2>2. ~AlreadyEscalated(call[t].ch, call[t].k)
    BY <1>6 DEF StillAlone, Commit
  <2>3. Next
    BY <2>1, <2>2 DEF Next, Escalate, LateEscalate
  <2>4. Distinct'
    BY <1>0, <2>1, EscalateDistinct
  <2>5. StepLock(call[t].ch, call[t].k) \in excl[t]
    BY <1>0, <1>6 DEF Commit, Shape, StepCall
  <2>6. ASSUME NEW u \in Txn \ {t}, StillAlone(u), Same(u),
               call[u].kind = "escalate",
               pc[u] \in {"chain", "audit", "contract", "write"}
        PROVE  ~AlreadyEscalated(call[u].ch, call[u].k)'
    <3>1. excl[u] \cap excl[t] = {}
      BY DEF AInv, Exclusive
    <3>2. call[u].ch = call[t].ch => call[u].k # call[t].k
      BY <1>2, <2>5, <2>6, <3>1
    <3>3. ~AlreadyEscalated(call[u].ch, call[u].k)
      BY <2>6 DEF StillAlone
    <3>4. PICK a \in Chain, i \in StepId : a = call[u].ch /\ i = call[u].k
      BY <1>2, <2>6
    <3>5. ~AlreadyEscalated(a, i)'
      BY <1>0, <1>2, <2>1, <2>6, <3>2, <3>3, <3>4, EscalateAlone
    <3>6. call'[u] = call[u]
      BY <2>6 DEF Same
    <3> QED  BY <3>4, <3>5, <3>6 DEF AlreadyEscalated, Exists
  <2>7. ASSUME NEW u \in Txn \ {t}, StillAlone(u), Same(u)
        PROVE  StillAlone(u)'
    BY <2>6, <2>7 DEF StillAlone, Same
  <2> QED  BY <2>3, <2>4, <2>7
<1>7. CASE call[t].kind \in RowCall
  <2>1. \/ \E c \in Contract, ch \in Chain, m \in Matrix : RouteInit(c, ch, m)
        \/ \E c \in Contract, new \in ContractState : StatusUpdateUser(c, new)
    BY <1>0, <1>7, RowIsAtomic
  <2>2. Next
    BY <2>1 DEF Next
  <2>3. ASSUME NEW c \in Contract, NEW new \in ContractState,
               StatusUpdateUser(c, new)
        PROVE  \A a \in Chain : SameSteps(a)
    BY <2>3, UnchangedSteps DEF StatusUpdateUser
  <2>4. ASSUME NEW c \in Contract, NEW ch \in Chain, NEW m \in Matrix,
               RouteInit(c, ch, m)
        PROVE  /\ Distinct'
               /\ \A u \in Txn \ {t} :
                     StillAlone(u) /\ Same(u) => StillAlone(u)'
    <3>1. \A a \in Chain \ {ch} : SameSteps(a)
      BY <1>0, <2>4, UnchangedSteps DEF RouteInit, TypeOK
    <3>2. DistinctIn(ch)'
      BY <1>0, <2>4, RouteDistinct
    <3>3. Distinct'
      BY <3>1, <3>2, SameStepsKeep DEF Distinct
    <3>4. \A k \in StepId : ~Exists(ch, k)
      BY <1>0, <2>4 DEF Rooted, RouteInit
    <3>5. ASSUME NEW u \in Txn \ {t}, StillAlone(u), Same(u)
          PROVE  StillAlone(u)'
      BY <1>2, <3>1, <3>4, <3>5, SameStepsKeep DEF StillAlone, Same
    <3> QED  BY <3>3, <3>5
  <2> QED  BY <1>3, <2>1, <2>2, <2>3, <2>4
<1> QED  BY <1>1, <1>4, <1>5, <1>6, <1>7 DEF StepCall

EInv == Distinct /\ \A t \in Txn : StillAlone(t)

\* The chains start without steps.
LEMMA EInvInit == LocksInit => EInv
BY DEF LocksInit, Init, EInv, Distinct, DistinctIn, StillAlone, Exists

\* The invariant of escalations is inductive, and under it every commit is one
\* operation of the engine.
LEMMA EInvStep ==
    ASSUME EscalationsDistinct, AInv, EInv, [LocksNext]_lvars
    PROVE  EInv' /\ [Next]_vars
<1>0. /\ TypeOK /\ Locals /\ \A t \in Txn : Shape(t) /\ StillAlone(t)
      /\ Distinct
  BY TypedParts DEF AInv, EInv
<1>1. ASSUME UNCHANGED steps PROVE Distinct'
  BY <1>0, <1>1 DEF Distinct, DistinctIn, Exists
<1>2. ASSUME NEW t \in Txn, Moves(t)
      PROVE  EInv' /\ [Next]_vars
  <2>1. UNCHANGED vars /\ UNCHANGED steps
    BY <1>2, MovesEffect DEF vars
  <2>2. \A u \in Txn \ {t} : Same(u)
    BY <1>0, <1>2, MovesLocal
  <2>3. \A u \in Txn \ {t} : StillAlone(u)'
    BY <1>0, <2>1, <2>2, AloneSame
  <2>4. StillAlone(t)'
    BY <1>0, <1>2, AloneMoves
  <2> QED  BY <1>1, <2>1, <2>3, <2>4 DEF EInv
<1>3. ASSUME NEW t \in Txn, Release(t)
      PROVE  StillAlone(t)' /\ \A u \in Txn \ {t} : Same(u)
  BY <1>0, <1>3, ReleaseEffect DEF StillAlone, NoCall
<1>4. ASSUME NEW t \in Txn, Ends(t)
      PROVE  EInv' /\ [Next]_vars
  <2>1. UNCHANGED vars /\ UNCHANGED steps /\ Release(t)
    BY <1>4, EndsEffect DEF vars
  <2>2. \A u \in Txn \ {t} : StillAlone(u)'
    BY <1>0, <1>3, <2>1, AloneSame
  <2> QED  BY <1>1, <1>3, <2>1, <2>2 DEF EInv
<1>5. ASSUME NEW t \in Txn, Commit(t)
      PROVE  EInv' /\ [Next]_vars
  <2>1. Release(t)
    BY <1>5 DEF Commit
  <2>2. /\ Next /\ Distinct'
        /\ \A u \in Txn \ {t} : StillAlone(u)'
    BY <1>0, <1>3, <1>5, <2>1, CommitAlone
  <2> QED  BY <1>3, <2>1, <2>2 DEF EInv
<1>6. CASE UNCHANGED lvars
  <2>1. UNCHANGED vars /\ UNCHANGED steps /\ \A u \in Txn : Same(u)
    BY <1>6 DEF lvars, vars, Same
  <2> QED  BY <1>0, <1>1, <2>1, AloneSame DEF EInv
<1> QED  BY <1>2, <1>4, <1>5, <1>6, StepKinds

\* Where no two rules of one order escalate to one role, every commit of the
\* interleaved transactions is one whole call of ApprovalChain on the state it
\* commits to: nothing read before a lock wait is stale when it is used.
THEOREM CommitsAreAtomic ==
    ASSUME EscalationsDistinct
    PROVE  LocksSpec => EveryCommitIsAtomic
<1>1. AInv /\ EInv /\ [LocksNext]_lvars => EInv' /\ [Next]_vars
  BY EInvStep
<1>2. [Next]_vars => [UNCHANGED vars \/ Next]_vars
  OBVIOUS
<1> QED  BY <1>1, <1>2, EInvInit, AInvAlways, PTL DEF LocksSpec, EveryCommitIsAtomic

\* So that the interleaved transactions implement ApprovalChain.
THEOREM LocksImplementTheEngine ==
    ASSUME EscalationsDistinct
    PROVE  LocksSpec => Spec
<1>1. LocksInit => Init
  BY DEF LocksInit
<1>2. [UNCHANGED vars \/ Next]_vars => [Next]_vars
  OBVIOUS
<1> QED  BY <1>1, <1>2, CommitsAreAtomic, PTL DEF LocksSpec, Spec, EveryCommitIsAtomic
=============================================================================
