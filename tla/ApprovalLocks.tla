---------------------------- MODULE ApprovalLocks ----------------------------
(***************************************************************************)
(* The approval engine's transactions, interleaved at their row locks.     *)
(*                                                                         *)
(* Every call runs in a READ COMMITTED transaction of its own              *)
(* (callFunction in src/database/client.ts): it locks rows one by one, it  *)
(* reads what is committed when each statement starts, and its writes      *)
(* appear together at COMMIT.  SELECT ... FOR UPDATE and UPDATE take a row *)
(* exclusively; an INSERT that refers to a row by a foreign key takes it   *)
(* for share (FOR KEY SHARE).  Every table here has an audit trigger, and  *)
(* fn_audit_log_record_v2 takes one advisory lock for the whole database:  *)
(* a transaction waits for it at its first write and keeps it to its end.  *)
(* PostgreSQL ends a deadlock by rolling one of its transactions back;     *)
(* callFunction does not retry.                                            *)
(***************************************************************************)
EXTENDS ApprovalChain

CONSTANTS
    Txn,          \* database sessions
    MaxCalls      \* bound: calls the sessions make in all

ASSUME CallsAssumption == MaxCalls \in Nat

VARIABLES
    call,         \* the call each session runs
    pc,           \* the lock it takes next, "write" when it has them all
    excl, share,  \* the locks each session holds, by mode
    seen,         \* the step row it read when it locked it (v_step)
    peers,        \* peer steps its UPDATE still has to lock
    skip,         \* peer steps it has locked and will skip
    calls         \* calls made so far

local  == <<call, pc, excl, share, seen, peers, skip, calls>>
lvars  == <<status, live, chain, steps, call, pc, excl, share, seen, peers,
            skip, calls>>

\* The advisory lock of the audit chain, and the rows a session can lock.
AuditLock       == <<"audit">>
ContractLock(c) == <<"contract", c>>
ChainLock(ch)   == <<"chain", ch>>
StepLock(ch, k) == <<"step", ch, k>>

NoCall == [kind |-> "none"]

\* The calls that can be made, with the arguments that matter.
Call ==
    [kind : {"decide"}, ch : Chain, k : StepId, u : User,
     verdict : {"approved", "rejected", "resubmission_requested"}]
    \cup [kind : {"reassign"}, ch : Chain, k : StepId, u : Reassigner, to : User]
    \cup [kind : {"escalate"}, ch : Chain, k : StepId]
    \cup [kind : {"route"}, c : Contract, m : Matrix]
    \cup [kind : {"update"}, c : Contract,
          new : {tr[2] : tr \in UserTransitions}]

\* Calls whose step row exists: the others are turned away (P0002).
Answerable(r) ==
    r.kind \in {"decide", "reassign", "escalate"} => Exists(r.ch, r.k)

Free == [t \in Txn |-> {}]

LocksTypeOK ==
    /\ TypeOK
    /\ call \in [Txn -> Call \cup {NoCall}]
    /\ pc \in [Txn -> {"idle", "step", "peer", "chain", "contract", "audit",
                       "peers", "write"}]
    /\ peers \in [Txn -> SUBSET StepId]
    /\ skip \in [Txn -> SUBSET StepId]
    /\ calls \in 0..MaxCalls

LocksInit ==
    /\ Init
    /\ call = [t \in Txn |-> NoCall]
    /\ pc = [t \in Txn |-> "idle"]
    /\ excl = Free /\ share = Free
    /\ \E row \in {steps[ch][k] : ch \in Chain, k \in StepId} :
          seen = [t \in Txn |-> row]
    /\ peers = Free /\ skip = Free
    /\ calls = 0

-----------------------------------------------------------------------------
(* Row locks. *)

\* Sessions that keep t from taking row r.
HoldersX(t, r) == {u \in Txn \ {t} : r \in excl[u] \cup share[u]}
HoldersS(t, r) == {u \in Txn \ {t} : r \in excl[u]}

\* The chain that a call's contract-level checks look at.
OpenChainOf(c) == CHOOSE ch \in Chain : ch \in InProgress(c)

\* The escalation peer that already exists (locked FOR UPDATE by the check).
EscalationPeers(ch, k) ==
    {j \in StepId : /\ Exists(ch, j)
                    /\ steps[ch][j].order = steps[ch][k].order
                    /\ steps[ch][j].grouped
                    /\ steps[ch][j].role = steps[ch][k].escRole}

\* The row session t asks for at its present point, and the mode.
Asked(t) ==
    LET r == call[t] IN
    CASE pc[t] = "step"     -> {StepLock(r.ch, r.k)}
      [] pc[t] = "peer"     -> {StepLock(r.ch, j) : j \in EscalationPeers(r.ch, r.k)}
      [] pc[t] = "chain"    -> {ChainLock(IF r.kind = "route"
                                          THEN OpenChainOf(r.c) ELSE r.ch)}
      [] pc[t] = "contract" -> {ContractLock(IF r.kind \in {"route", "update"}
                                             THEN r.c ELSE chain[r.ch].contract)}
      [] pc[t] = "audit"    -> {AuditLock}
      [] pc[t] = "peers"    -> {StepLock(r.ch, j) : j \in peers[t]}
      [] OTHER              -> {}

\* Foreign keys lock for share: approval_step -> approval_chain on the insert
\* of an escalation peer, contract_activity -> contract on the activity row.
ForShare(t) ==
    \/ pc[t] = "chain" /\ call[t].kind = "escalate"
    \/ pc[t] = "contract" /\ call[t].kind \in {"escalate", "reassign"}

Blockers(t, r) == IF ForShare(t) THEN HoldersS(t, r) ELSE HoldersX(t, r)

Take(t, r) ==
    /\ r \in Asked(t)
    /\ Blockers(t, r) = {}
    /\ IF ForShare(t)
       THEN share' = [share EXCEPT ![t] = @ \cup {r}] /\ UNCHANGED excl
       ELSE excl' = [excl EXCEPT ![t] = @ \cup {r}] /\ UNCHANGED share

GoTo(t, l) == pc' = [pc EXCEPT ![t] = l]

\* Mutant: a session's shared locks outlive its transaction.
ReleaseKeepsShare(t) ==
    /\ excl' = [excl EXCEPT ![t] = {}]
    /\ call' = [call EXCEPT ![t] = NoCall]
    /\ peers' = [peers EXCEPT ![t] = {}] /\ skip' = [skip EXCEPT ![t] = {}]
    /\ GoTo(t, "idle")
    /\ UNCHANGED <<share, seen, calls>>

\* The end of a transaction, by COMMIT or ROLLBACK: the locks go.
Release(t) ==
    /\ excl' = [excl EXCEPT ![t] = {}] /\ share' = [share EXCEPT ![t] = {}]
    /\ call' = [call EXCEPT ![t] = NoCall]
    /\ peers' = [peers EXCEPT ![t] = {}] /\ skip' = [skip EXCEPT ![t] = {}]
    /\ GoTo(t, "idle")
    /\ UNCHANGED <<seen, calls>>

-----------------------------------------------------------------------------
(* The calls, statement by statement. *)

Begin(t, r) ==
    /\ pc[t] = "idle" /\ calls < MaxCalls
    /\ Answerable(r)
    /\ call' = [call EXCEPT ![t] = r]
    /\ GoTo(t, IF r.kind \in {"route", "update"} THEN "contract" ELSE "step")
    /\ calls' = calls + 1
    /\ UNCHANGED <<status, live, chain, steps, excl, share, seen, peers, skip>>

\* The checks made on the locked step before anything is written; a failed one
\* raises.  fn_approval_decide looks at the status of an unassigned step only
\* after it has claimed the step for its caller.
StepChecks(t) ==
    LET r == call[t]  row == steps[r.ch][r.k] IN
    /\ row.status = "pending" \/ (r.kind = "decide" /\ Unassigned(row))
    /\ r.kind = "decide" => MayDecide(r.u, row)
    /\ r.kind = "reassign" => RoleOf[r.to] \in Overseer \cup {row.role}
    /\ r.kind = "escalate" => row.escRole # NoRole

\* A transition that fn_contract_status_update_internal or _user refuses, or
\* a status that fn_approval_route_init refuses: the call raises.
Refused(t) ==
    LET r == call[t] IN
    CASE r.kind = "decide" ->
           LET ch == r.ch  k == r.k IN
           /\ \/ r.verdict = "rejected" /\ seen[t].required
              \/ r.verdict = "resubmission_requested"
              \/ r.verdict = "approved" /\ Advances(ch, k) /\ Later(ch, k) = {}
           /\ \/ chain[ch].contract \notin live
              \/ status[chain[ch].contract] # "in_approval"
      [] r.kind = "route" ->
           \/ r.c \notin live
           \/ status[r.c] \notin {"draft", "resubmission_requested"}
           \/ \A ch \in Chain : chain[ch].status # "none"   \* bound of ids
      [] r.kind = "update" -> r.c \notin live
                              \/ <<status[r.c], r.new>> \notin UserTransitions
      [] r.kind = "escalate" ->
           \A j \in StepId : Exists(r.ch, j)                \* bound of ids
      [] OTHER -> FALSE

\* A decision of a step that it found assigned to nobody: its first write is
\* the claim, before it locks chain and contract.
Claims(t) == call[t].kind = "decide" /\ Unassigned(seen[t])

\* What a call does after its step: fn_approval_reassign writes at once,
\* fn_approval_decide too when it claims the step, and fn_approval_escalate when
\* the step was not in a group yet (its INSERT refers to the chain before the
\* audit trigger runs).
AfterStep(t) ==
    LET r == call[t] IN
    CASE r.kind = "decide"   -> IF Unassigned(steps[r.ch][r.k])
                                THEN "audit" ELSE "chain"
      [] r.kind = "reassign" -> "audit"
      [] OTHER -> IF EscalationPeers(r.ch, r.k) # {} THEN "peer"
                  ELSE IF steps[r.ch][r.k].grouped THEN "chain" ELSE "audit"

\* Mutant: the step is read without FOR UPDATE.
ReadStep(t) ==
    /\ pc[t] = "step"
    /\ StepChecks(t)
    /\ seen' = [seen EXCEPT ![t] = steps[call[t].ch][call[t].k]]
    /\ GoTo(t, AfterStep(t))
    /\ UNCHANGED <<status, live, chain, steps, call, excl, share, peers, skip,
                   calls>>

LockStep(t) ==
    /\ pc[t] = "step"
    /\ \E r \in Asked(t) : Take(t, r)
    /\ StepChecks(t)
    /\ seen' = [seen EXCEPT ![t] = steps[call[t].ch][call[t].k]]
    /\ GoTo(t, AfterStep(t))
    /\ UNCHANGED <<status, live, chain, steps, call, peers, skip, calls>>

\* A failed check, once the row is free: RAISE and ROLLBACK.
StepRaise(t) ==
    /\ pc[t] = "step"
    /\ \E r \in Asked(t) : Blockers(t, r) = {}
    /\ ~StepChecks(t)
    /\ Release(t)
    /\ UNCHANGED <<status, live, chain, steps>>

\* The claim has waited for the audit lock, and then the step is found decided.
ClaimRaise(t) ==
    /\ pc[t] = "audit" /\ Claims(t)
    /\ \E r \in Asked(t) : Blockers(t, r) = {}
    /\ seen[t].status # "pending"
    /\ Release(t)
    /\ UNCHANGED <<status, live, chain, steps>>

\* fn_approval_escalate found a peer: it locks it and commits nothing.
AlreadyDone(t) ==
    /\ pc[t] = "peer"
    /\ \E r \in Asked(t) : Blockers(t, r) = {}
    /\ Release(t)
    /\ UNCHANGED <<status, live, chain, steps>>

LockChain(t) ==
    /\ pc[t] = "chain" /\ call[t].kind \in {"decide", "escalate"}
    /\ \E r \in Asked(t) : Take(t, r)
    /\ GoTo(t, IF call[t].kind = "decide" \/ AuditLock \in excl[t]
               THEN "contract" ELSE "audit")
    /\ UNCHANGED <<status, live, chain, steps, call, seen, peers, skip, calls>>

\* fn_approval_route_init locks the open chain it finds, then raises.
RouteFindsChain(t) ==
    /\ pc[t] = "chain" /\ call[t].kind = "route"
    /\ \E r \in Asked(t) : Blockers(t, r) = {}
    /\ Release(t)
    /\ UNCHANGED <<status, live, chain, steps>>

\* With its step written and the rows above it locked, fn_approval_decide looks
\* for an optional peer; if it must skip, the snapshot of its UPDATE is taken
\* here.
ToSkip(t) ==
    IF call[t].kind = "decide" /\ call[t].verdict = "approved"
    THEN SkippedPeers(call[t].ch, call[t].k) ELSE {}

LookForPeers(t) ==
    /\ peers' = [peers EXCEPT ![t] = ToSkip(t)]
    /\ GoTo(t, IF ToSkip(t) = {} THEN "write" ELSE "peers")

LockContract(t) ==
    /\ pc[t] = "contract" /\ call[t].kind # "route"
    /\ \E r \in Asked(t) : Take(t, r)
    /\ IF Claims(t) THEN LookForPeers(t)
       ELSE /\ GoTo(t, IF call[t].kind \in {"decide", "update"}
                       THEN "audit" ELSE "write")
            /\ UNCHANGED peers
    /\ UNCHANGED <<status, live, chain, steps, call, seen, skip, calls>>

\* Mutant: the open chain is looked for before the status is checked.
LockContractRouteAnyStatus(t) ==
    /\ pc[t] = "contract" /\ call[t].kind = "route"
    /\ \E r \in Asked(t) : Take(t, r)
    /\ GoTo(t, IF InProgress(call[t].c) # {} THEN "chain" ELSE "audit")
    /\ UNCHANGED <<status, live, chain, steps, call, seen, peers, skip, calls>>

LockContractRoute(t) ==
    /\ pc[t] = "contract" /\ call[t].kind = "route"
    /\ \E r \in Asked(t) : Take(t, r)
    /\ GoTo(t, IF /\ status[call[t].c] \in {"draft", "resubmission_requested"}
                  /\ InProgress(call[t].c) # {}
               THEN "chain" ELSE "audit")
    /\ UNCHANGED <<status, live, chain, steps, call, seen, peers, skip, calls>>

\* The first write: of a decision, the claim or the verdict.
LockAudit(t) ==
    /\ pc[t] = "audit"
    /\ call[t].kind \in {"route", "update"} => ~Refused(t)
    /\ Claims(t) => seen[t].status = "pending"
    /\ \E r \in Asked(t) : Take(t, r)
    /\ IF call[t].kind = "decide" /\ ~Claims(t) THEN LookForPeers(t)
       ELSE /\ GoTo(t, CASE call[t].kind = "decide" -> "chain"
                          [] call[t].kind = "reassign" -> "contract"
                          [] call[t].kind = "escalate" ->
                               IF ChainLock(call[t].ch) \in share[t]
                               THEN "contract" ELSE "chain"
                          [] OTHER -> "write")
            /\ UNCHANGED peers
    /\ UNCHANGED <<status, live, chain, steps, call, seen, skip, calls>>

\* The skipping UPDATE locks its rows one by one and re-reads each.
LockPeer(t, j) ==
    /\ pc[t] = "peers" /\ j \in peers[t]
    /\ Take(t, StepLock(call[t].ch, j))
    /\ peers' = [peers EXCEPT ![t] = @ \ {j}]
    /\ skip' = [skip EXCEPT ![t] =
                  IF Pending(call[t].ch, j) THEN @ \cup {j} ELSE @]
    /\ GoTo(t, IF peers[t] = {j} THEN "write" ELSE "peers")
    /\ UNCHANGED <<status, live, chain, steps, call, seen, calls>>

\* What fn_approval_decide writes, from the row it read and the peers it locked.
WriteDecision(t) ==
    LET ch == call[t].ch  k == call[t].k  verdict == call[t].verdict
        carries == seen[t].required
                   /\ \E j \in Peers(ch, k) : ~steps[ch][j].required
        advances == carries \/ \A j \in Peers(ch, k) :
                                  Required(ch, j) => ~Pending(ch, j)
    IN
    /\ steps' = [steps EXCEPT ![ch] = [j \in StepId |->
                    IF j = k THEN DecidedRow(seen[t], call[t].u, verdict)
                    ELSE IF j \in skip[t]
                         THEN [steps[ch][j] EXCEPT !.status = "skipped"]
                         ELSE steps[ch][j]]]
    /\ UNCHANGED live
    /\ CASE verdict = "rejected" /\ ~seen[t].required
              -> UNCHANGED <<status, chain>>
         [] verdict = "approved" /\ ~advances
              -> UNCHANGED <<status, chain>>
         [] verdict = "approved" /\ advances /\ Later(ch, k) # {}
              -> /\ \E j \in Later(ch, k) :
                       /\ \A i \in Later(ch, k) :
                             steps[ch][j].order <= steps[ch][i].order
                       /\ chain' = [chain EXCEPT ![ch].current =
                                                     steps[ch][j].order]
                 /\ UNCHANGED status
         [] verdict = "approved" /\ advances /\ Later(ch, k) = {}
              -> /\ chain' = [chain EXCEPT ![ch].status = "approved",
                                           ![ch].current = seen[t].order]
                 /\ StatusUpdateInternal(chain[ch].contract, "approved")
         [] OTHER -> EndChain(ch, verdict)

\* The writes of the other calls, each on what it has locked.
WriteOther(t) ==
    LET r == call[t] IN
    CASE r.kind = "reassign" ->
           /\ steps' = [steps EXCEPT ![r.ch][r.k] =
                 [seen[t] EXCEPT !.approver = r.to, !.reassigned = r.to]]
           /\ UNCHANGED <<status, live, chain>>
      [] r.kind = "escalate" ->
           /\ \E new \in StepId :
                 /\ ~Exists(r.ch, new)
                 /\ \A j \in StepId : ~Exists(r.ch, j) => new <= j
                 /\ steps' = [steps EXCEPT
                       ![r.ch][r.k] = [seen[t] EXCEPT !.grouped = TRUE],
                       ![r.ch][new] =
                          [status |-> "pending", order |-> seen[t].order,
                           required |-> seen[t].required, grouped |-> TRUE,
                           role |-> seen[t].escRole, escRole |-> NoRole,
                           approver |-> NoUser, delegated |-> NoUser,
                           reassigned |-> NoUser]]
           /\ UNCHANGED <<status, live, chain>>
      [] r.kind = "route" -> \E ch \in Chain : RouteInit(r.c, ch, r.m)
      [] r.kind = "update" -> StatusUpdateUser(r.c, r.new)

Write(t) == IF call[t].kind = "decide" THEN WriteDecision(t) ELSE WriteOther(t)

Commit(t) ==
    /\ pc[t] = "write"
    /\ Write(t)
    /\ Release(t)

\* RAISE and ROLLBACK: before the first write in the functions that check the
\* contract first, after it in the others.
Raise(t) ==
    /\ pc[t] = IF call[t].kind \in {"route", "update"} THEN "audit" ELSE "write"
    /\ Refused(t)
    /\ Release(t)
    /\ UNCHANGED <<status, live, chain, steps>>

-----------------------------------------------------------------------------
(* Deadlocks. *)

WaitsFor(t) ==
    IF \E r \in Asked(t) : Blockers(t, r) = {} THEN {}
    ELSE UNION {Blockers(t, r) : r \in Asked(t)}

Cyclic(D) == D # {} /\ \A t \in D : WaitsFor(t) \cap D # {}

\* A shortest cycle of waiting sessions.
Deadlock(D) == Cyclic(D) /\ \A E \in SUBSET D : Cyclic(E) => E = D

Deadlocked(t) == \E D \in SUBSET Txn : t \in D /\ Deadlock(D)

\* The detector rolls a session of the cycle back (40P01, a 500 to its user).
DeadlockAbort(t) ==
    /\ Deadlocked(t)
    /\ Release(t)
    /\ UNCHANGED <<status, live, chain, steps>>

Advance(t) ==
    \/ LockStep(t) \/ StepRaise(t) \/ ClaimRaise(t) \/ AlreadyDone(t)
    \/ LockChain(t) \/ RouteFindsChain(t)
    \/ LockContract(t) \/ LockContractRoute(t) \/ LockAudit(t)
    \/ \E j \in StepId : LockPeer(t, j)
    \/ Commit(t) \/ Raise(t)

LocksNext ==
    \E t \in Txn :
        \/ \E r \in Call : Begin(t, r)
        \/ Advance(t)
        \/ DeadlockAbort(t)

LocksSpec == LocksInit /\ [][LocksNext]_lvars

\* A session runs on, and the detector looks at every session that waits.
LocksFairSpec ==
    LocksSpec /\ \A t \in Txn : WF_lvars(Advance(t)) /\ WF_lvars(DeadlockAbort(t))

-----------------------------------------------------------------------------
(* Properties. *)

\* Every commit is one transaction of ApprovalChain, computed on the state it
\* commits to: what was read before a lock wait is not stale when it is used.
\* (That a step may write nothing is said first for TLC's sake.)
EveryCommitIsAtomic == [][UNCHANGED vars \/ Next]_vars

\* A call of fn_approval_route_init that found an open chain on a contract it
\* could route: it waits for that chain with the contract locked.
FoundOpen(t) ==
    /\ pc[t] = "chain" /\ call[t].kind = "route"
    /\ status[call[t].c] \in {"draft", "resubmission_requested"}

\* A call that has written, and so keeps every other from writing, and locks
\* rows still: the claim of an unassigned step comes before the locks of chain
\* and contract, and other decisions lock the peers they skip last.
WroteEarly(t) ==
    /\ AuditLock \in excl[t]
    /\ \/ Claims(t) \/ call[t].kind \in {"reassign", "escalate"}
       \/ pc[t] = "peers"

\* The deadlocks the calls can run into.  Calls that have not written yet wait
\* for each other in a circle in two ways only: through a routing that found an
\* open chain on a draft, or as escalations that wait for each other's step as
\* their escalation peer.  Every other deadlock has a call in it that wrote
\* before it had locked all its rows; a routing and a user's update never do.
LockOrderKept ==
    \A D \in SUBSET Txn :
        Deadlock(D) => \/ \E t \in D : WroteEarly(t) \/ FoundOpen(t)
                       \/ \A t \in D : pc[t] = "peer"

\* Every call ends, by commit, by an error or as the victim of a deadlock: no
\* session waits for a row for ever.
EveryCallEnds == \A t \in Txn : pc[t] # "idle" ~> pc[t] = "idle"
=============================================================================
