---------------------------- MODULE ApprovalChain ----------------------------
(***************************************************************************)
(* The approval engine: a contract in draft is routed, which snapshots the *)
(* rules of the approval matrix into the steps of a new chain; approvers   *)
(* decide the steps; the chain's verdict moves the contract.               *)
(*                                                                         *)
(* Every operation is one PL/pgSQL function run in a transaction of its    *)
(* own.  Here a transaction is one action; ApprovalLocks splits the ones   *)
(* that matter at their row locks.  A RAISE rolls the transaction back:    *)
(* where the code raises, the action is disabled.                          *)
(***************************************************************************)
EXTENDS Naturals, ContractStatus

CONSTANTS
    Contract,     \* contracts
    Chain,        \* ids the approval_chain rows may take
    StepId,       \* ids the approval_step rows of one chain may take
    User,         \* users
    Role,         \* roles
    RoleOf,       \* the role of each user
    Reassigner,   \* users who hold the permission approval.reassign
    Delegable,    \* roles fn_approval_delegate accepts for its target
    Overseer,     \* roles fn_approval_reassign accepts for any step
    Matrix,       \* rule sets the approval matrix may hold for a contract
    NoUser,       \* SQL NULL in a user column
    NoRole        \* SQL NULL in a role column

ChainStatus == {"in_progress", "approved", "rejected",
                "resubmission_requested"}
StepStatus  == {"pending", "approved", "rejected",
                "resubmission_requested", "skipped"}

\* A row of approval_step; status "none" is an id not yet inserted.
\* grouped says that parallel_group is set (a CHECK makes it step_order then).
StepRow ==
    [status : StepStatus \cup {"none"}, order : Nat, required : BOOLEAN,
     grouped : BOOLEAN, role : Role \cup {NoRole},
     escRole : Role \cup {NoRole}, approver : User \cup {NoUser},
     delegated : User \cup {NoUser}, reassigned : User \cup {NoUser}]

\* A row of approval_chain; status "none" is an id not yet inserted.
ChainRow == [contract : Contract, status : ChainStatus \cup {"none"},
             current : Nat]

ASSUME ContractAssumption == Contract # {}
ASSUME IdAssumption == Chain \subseteq Nat /\ StepId \subseteq Nat
ASSUME RoleAssumption ==
    /\ RoleOf \in [User -> Role]
    /\ NoUser \notin User /\ NoRole \notin Role
    /\ Reassigner \subseteq User
    /\ Delegable \subseteq Role /\ Overseer \subseteq Role
\* fn_approval_matrix_set accepts only orders 1..N without gaps, and
\* fn_approval_route_init inserts the rows pending and unassigned.
ASSUME MatrixAssumption ==
    \A m \in Matrix :
        /\ m \in [StepId -> StepRow]
        /\ \E k \in StepId : m[k].status = "pending" /\ m[k].order = 1
        /\ \A k \in StepId :
              /\ m[k].status \in {"none", "pending"}
              /\ m[k].status = "pending" =>
                    /\ m[k].role \in Role
                    /\ m[k].approver = NoUser
                    /\ m[k].delegated = NoUser
                    /\ m[k].reassigned = NoUser

VARIABLES
    status,       \* contract.status
    live,         \* contract.is_active: the contracts not soft-deleted
    chain,        \* table approval_chain
    steps         \* table approval_step, by chain

vars == <<status, live, chain, steps>>

TypeOK ==
    /\ status \in [Contract -> ContractState]
    /\ live \subseteq Contract
    /\ chain \in [Chain -> ChainRow]
    /\ steps \in [Chain -> [StepId -> StepRow]]

Init ==
    /\ status = [c \in Contract |-> "draft"]
    /\ live = Contract
    /\ \E c \in Contract :
          chain = [ch \in Chain |->
                     [contract |-> c, status |-> "none", current |-> 0]]
    /\ steps = [ch \in Chain |-> [k \in StepId |->
                  [status |-> "none", order |-> 0, required |-> FALSE,
                   grouped |-> FALSE, role |-> NoRole, escRole |-> NoRole,
                   approver |-> NoUser, delegated |-> NoUser,
                   reassigned |-> NoUser]]]

-----------------------------------------------------------------------------
(* Reads of the tables. *)

InProgress(c) ==
    {ch \in Chain : chain[ch].status = "in_progress" /\ chain[ch].contract = c}

Exists(ch, k)   == steps[ch][k].status # "none"
Pending(ch, k)  == steps[ch][k].status = "pending"
Required(ch, k) == Exists(ch, k) /\ steps[ch][k].required

Peers(ch, k) ==
    {j \in StepId \ {k} :
        Exists(ch, j) /\ steps[ch][j].order = steps[ch][k].order}

\* Mutant: only the very next order is looked at.
LaterNextOnly(ch, k) ==
    {j \in StepId :
        Pending(ch, j) /\ steps[ch][j].order = steps[ch][k].order + 1}

\* Pending steps that come after step k.
Later(ch, k) ==
    {j \in StepId :
        Pending(ch, j) /\ steps[ch][j].order > steps[ch][k].order}

Unassigned(row) ==
    row.approver = NoUser /\ row.delegated = NoUser /\ row.reassigned = NoUser

\* Who fn_approval_decide lets decide a step.
MayDecide(u, row) ==
    \/ u \in {row.approver, row.delegated, row.reassigned}
    \/ Unassigned(row) /\ RoleOf[u] = row.role

-----------------------------------------------------------------------------
(* Writes. *)

\* Mutant: the whitelist of transitions is not consulted.
StatusUpdateAny(c, new) ==
    c \in live /\ status' = [status EXCEPT ![c] = new]

\* fn_contract_status_update_internal, called inside other transactions.
StatusUpdateInternal(c, new) ==
    /\ c \in live
    /\ <<status[c], new>> \in InternalTransitions
    /\ status' = [status EXCEPT ![c] = new]

\* The step row after user u decided it: an unassigned step is claimed first.
DecidedRow(row, u, s) ==
    [row EXCEPT !.status = s,
                !.approver = IF Unassigned(row) THEN u ELSE row.approver]

\* fn_approval_route_init: rules of matrix m become the steps of a new chain.
RouteInit(c, ch, m) ==
    /\ c \in live
    /\ status[c] \in {"draft", "resubmission_requested"}
    /\ InProgress(c) = {}
    /\ chain[ch].status = "none"
    /\ \A ch2 \in Chain : chain[ch2].status = "none" => ch <= ch2
    /\ chain' = [chain EXCEPT ![ch] = [contract |-> c, status |-> "in_progress",
                                       current |-> 1]]
    /\ steps' = [steps EXCEPT ![ch] = m]
    /\ status' = [status EXCEPT ![c] = "in_approval"]
    /\ UNCHANGED live

\* What every branch of fn_approval_decide checks first, and the step's update.
\* Neither the chain's status nor its current order is among the checks.
DecideStep(ch, k, u, verdict, others) ==
    /\ Pending(ch, k)
    /\ MayDecide(u, steps[ch][k])
    /\ steps' = [steps EXCEPT ![ch] = [j \in StepId |->
                    IF j = k THEN DecidedRow(steps[ch][k], u, verdict)
                    ELSE IF j \in others
                         THEN [steps[ch][j] EXCEPT !.status = "skipped"]
                         ELSE steps[ch][j]]]
    /\ UNCHANGED live

\* Mutant: the contract is not told of the chain's end.
EndChainOnly(ch, s) ==
    chain' = [chain EXCEPT ![ch].status = s] /\ UNCHANGED status

EndChain(ch, s) ==
    /\ chain' = [chain EXCEPT ![ch].status = s]
    /\ StatusUpdateInternal(chain[ch].contract,
                            IF s = "resubmission_requested" THEN "draft" ELSE s)

\* Mutant: a required rejection is recorded and nothing else.
RejectNoEnd(ch, k, u) ==
    /\ steps[ch][k].required
    /\ DecideStep(ch, k, u, "rejected", {})
    /\ UNCHANGED <<status, chain>>

RejectRequired(ch, k, u) ==
    /\ steps[ch][k].required
    /\ DecideStep(ch, k, u, "rejected", {})
    /\ EndChain(ch, "rejected")

\* The rejection of an optional step has no branch: chain and contract stay.
RejectOptional(ch, k, u) ==
    /\ ~steps[ch][k].required
    /\ DecideStep(ch, k, u, "rejected", {})
    /\ UNCHANGED <<status, chain>>

RequestResubmission(ch, k, u) ==
    /\ DecideStep(ch, k, u, "resubmission_requested", {})
    /\ EndChain(ch, "resubmission_requested")

\* Mutant: any step beside an optional peer carries its group.
CarriesGroupAnyStep(ch, k) == \E j \in Peers(ch, k) : ~steps[ch][j].required

\* Any-of: a required step with an optional peer carries its whole group.
CarriesGroup(ch, k) ==
    steps[ch][k].required /\ \E j \in Peers(ch, k) : ~steps[ch][j].required

SkippedPeers(ch, k) ==
    IF CarriesGroup(ch, k) THEN {j \in Peers(ch, k) : Pending(ch, j)} ELSE {}

\* All-of: otherwise the chain moves on when no required peer is pending.
Advances(ch, k) ==
    \/ CarriesGroup(ch, k)
    \/ \A j \in Peers(ch, k) : Required(ch, j) => ~Pending(ch, j)

ApproveWait(ch, k, u) ==
    /\ ~Advances(ch, k)
    /\ DecideStep(ch, k, u, "approved", SkippedPeers(ch, k))
    /\ UNCHANGED <<status, chain>>

\* Mutants: the pointer is set to the order just decided; the chain is marked
\* in_progress again.
ApproveAdvanceKeepsOrder(ch, k, u) ==
    /\ Advances(ch, k) /\ Later(ch, k) # {}
    /\ DecideStep(ch, k, u, "approved", SkippedPeers(ch, k))
    /\ chain' = [chain EXCEPT ![ch].current = steps[ch][k].order]
    /\ UNCHANGED status
ApproveAdvanceReopens(ch, k, u) ==
    /\ Advances(ch, k)
    /\ DecideStep(ch, k, u, "approved", SkippedPeers(ch, k))
    /\ \E j \in Later(ch, k) :
          /\ \A i \in Later(ch, k) : steps[ch][j].order <= steps[ch][i].order
          /\ chain' = [chain EXCEPT ![ch].current = steps[ch][j].order,
                                   ![ch].status = "in_progress"]
    /\ UNCHANGED status

ApproveAdvance(ch, k, u) ==
    /\ Advances(ch, k)
    /\ DecideStep(ch, k, u, "approved", SkippedPeers(ch, k))
    /\ \E j \in Later(ch, k) :
          /\ \A i \in Later(ch, k) : steps[ch][j].order <= steps[ch][i].order
          /\ chain' = [chain EXCEPT ![ch].current = steps[ch][j].order]
    /\ UNCHANGED status

ApproveFinal(ch, k, u) ==
    /\ Advances(ch, k)
    /\ Later(ch, k) = {}
    /\ DecideStep(ch, k, u, "approved", SkippedPeers(ch, k))
    /\ chain' = [chain EXCEPT ![ch].status = "approved",
                              ![ch].current = steps[ch][k].order]
    /\ StatusUpdateInternal(chain[ch].contract, "approved")

\* fn_approval_decide.
Decide(ch, k, u) ==
    \/ RejectRequired(ch, k, u)
    \/ RejectOptional(ch, k, u)
    \/ RequestResubmission(ch, k, u)
    \/ ApproveWait(ch, k, u)
    \/ ApproveAdvance(ch, k, u)
    \/ ApproveFinal(ch, k, u)

\* fn_approval_delegate: the assigned approver names a second decider.
Delegate(ch, k, u, to) ==
    /\ Pending(ch, k)
    /\ steps[ch][k].approver = u
    /\ to # u
    /\ RoleOf[to] \in Delegable
    /\ steps' = [steps EXCEPT ![ch][k].delegated = to]
    /\ UNCHANGED <<status, live, chain>>

\* Mutant: the approver column is not written.
ReassignNoApprover(ch, k, u, to) ==
    /\ u \in Reassigner
    /\ Pending(ch, k)
    /\ RoleOf[to] \in Overseer \cup {steps[ch][k].role}
    /\ steps' = [steps EXCEPT ![ch][k].reassigned = to]
    /\ UNCHANGED <<status, live, chain>>

\* fn_approval_reassign: an administrator names the approver; an earlier
\* delegation stays in the row.
Reassign(ch, k, u, to) ==
    /\ u \in Reassigner
    /\ Pending(ch, k)
    /\ RoleOf[to] \in Overseer \cup {steps[ch][k].role}
    /\ steps' = [steps EXCEPT ![ch][k].approver = to,
                              ![ch][k].reassigned = to]
    /\ UNCHANGED <<status, live, chain>>

AlreadyEscalated(ch, k) ==
    \E j \in StepId :
        /\ Exists(ch, j)
        /\ steps[ch][j].order = steps[ch][k].order
        /\ steps[ch][j].grouped
        /\ steps[ch][j].role = steps[ch][k].escRole

\* fn_approval_escalate on a step whose hours have run out (any pending step
\* may be overdue): a peer for the escalation role joins the step's order.
Escalate(ch, k, new) ==
    /\ Pending(ch, k)
    /\ steps[ch][k].escRole # NoRole
    /\ ~AlreadyEscalated(ch, k)
    /\ ~Exists(ch, new)
    /\ \A j \in StepId : ~Exists(ch, j) => new <= j
    /\ steps' = [steps EXCEPT
          ![ch][k].grouped = TRUE,
          ![ch][new] = [status |-> "pending", order |-> steps[ch][k].order,
                        required |-> steps[ch][k].required, grouped |-> TRUE,
                        role |-> steps[ch][k].escRole, escRole |-> NoRole,
                        approver |-> NoUser, delegated |-> NoUser,
                        reassigned |-> NoUser]]
    /\ UNCHANGED <<status, live, chain>>

\* fn_contract_status_update_user.
StatusUpdateUser(c, new) ==
    /\ c \in live
    /\ <<status[c], new>> \in UserTransitions
    /\ status' = [status EXCEPT ![c] = new]
    /\ UNCHANGED <<live, chain, steps>>

\* fn_contract_delete: a soft delete in any status.
DeleteContract(c) ==
    /\ c \in live
    /\ live' = live \ {c}
    /\ UNCHANGED <<status, chain, steps>>

Next ==
    \/ \E c \in Contract :
          \/ \E ch \in Chain, m \in Matrix : RouteInit(c, ch, m)
          \/ \E new \in ContractState : StatusUpdateUser(c, new)
          \/ DeleteContract(c)
    \/ \E ch \in Chain, k \in StepId :
          \/ \E u \in User : Decide(ch, k, u)
          \/ \E u, to \in User :
                Delegate(ch, k, u, to) \/ Reassign(ch, k, u, to)
          \/ \E new \in StepId : Escalate(ch, k, new)

Spec == Init /\ [][Next]_vars

-----------------------------------------------------------------------------
(* Properties. *)

\* A contract is never routed through two open chains at once, whatever the
\* order of submissions, verdicts, cancellations and late decisions
\* (approval_chain's comment; the pre-check of fn_approval_route_init).
OneOpenChain ==
    \A c \in Contract : \A a, b \in InProgress(c) : a = b

\* A contract waits in in_approval only while a chain is open that can still
\* give the verdict: late decisions on the steps of an earlier, finished chain
\* never leave it waiting for nothing.
InApprovalHasOpenChain ==
    \A c \in Contract : status[c] = "in_approval" => InProgress(c) # {}

\* The steps of order o of chain ch that must approve and have not decided.
Undecided(ch, o) ==
    {k \in StepId :
        Required(ch, k) /\ Pending(ch, k) /\ steps[ch][k].order = o}

HasRequired(ch, o) ==
    \E k \in StepId : Required(ch, k) /\ steps[ch][k].order = o

IsLast(ch, k) ==
    Exists(ch, k)
    /\ \A j \in StepId : Exists(ch, j) => steps[ch][j].order <= steps[ch][k].order

\* The pointer of an open chain is never left on an order whose required steps
\* have all been decided, although decisions arrive in any order of steps and
\* escalation adds peers meanwhile.
PointerValid(ch) ==
    chain[ch].status = "in_progress" /\ HasRequired(ch, chain[ch].current)
        => Undecided(ch, chain[ch].current) # {}
PointerAtUndecided == \A ch \in Chain : PointerValid(ch)

\* An open chain whose last order has a required step can still finish: the
\* required sign-off of the last order is outstanding.
LastOpen(ch) ==
    chain[ch].status = "in_progress" =>
        \A k \in StepId :
            Required(ch, k) /\ IsLast(ch, k)
                => Undecided(ch, steps[ch][k].order) # {}
LastOrderOutstanding == \A ch \in Chain : LastOpen(ch)

\* In an open chain a required step is pending, approved, or skipped with an
\* approved one beside it, and once a required step is decided no optional
\* peer of it waits (the invariant that carries the two above).
Settled(ch) ==
    chain[ch].status = "in_progress" =>
        \A k \in StepId : Required(ch, k) =>
            /\ steps[ch][k].status \in {"pending", "approved", "skipped"}
            /\ steps[ch][k].status = "skipped" =>
                  \E j \in StepId : /\ Required(ch, j)
                                    /\ steps[ch][j].status = "approved"
                                    /\ steps[ch][j].order = steps[ch][k].order
            /\ ~Pending(ch, k) =>
                  \A j \in Peers(ch, k) : Pending(ch, j) => Required(ch, j)
GroupsSettled == \A ch \in Chain : Settled(ch)

\* Every step that awaits a decision is assigned in a way somebody can use:
\* a delegation or a reassignment never leaves it with no named approver.
AssignmentKept ==
    \A ch \in Chain, k \in StepId :
        Pending(ch, k) /\ ~Unassigned(steps[ch][k])
            => steps[ch][k].approver # NoUser

\* An open chain turns to approved only when the required steps of its last
\* order were signed off (none is pending, and one was approved).
LastOrderSignedOff ==
    [][\A ch \in Chain :
         chain[ch].status = "in_progress" /\ chain'[ch].status = "approved" =>
            \A k \in StepId :
               (steps'[ch][k].status # "none" /\ steps'[ch][k].required
                  /\ \A j \in StepId : steps'[ch][j].status # "none" =>
                        steps'[ch][j].order <= steps'[ch][k].order)
               => /\ steps'[ch][k].status \in {"approved", "skipped"}
                  /\ \E j \in StepId :
                        /\ steps'[ch][j].status = "approved"
                        /\ steps'[ch][j].required
                        /\ steps'[ch][j].order = steps'[ch][k].order]_vars

\* A contract that was rejected or cancelled stays so: no decision on any of
\* its chains, old or new, brings it back.
TerminalStays ==
    [][\A c \in Contract :
         status[c] \in {"rejected", "cancelled"} => status'[c] = status[c]]_vars

=============================================================================
