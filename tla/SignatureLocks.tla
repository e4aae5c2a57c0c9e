---------------------------- MODULE SignatureLocks ----------------------------
(***************************************************************************)
(* The transactions of the signature ceremony, interleaved at their row    *)
(* locks.  Each call is a READ COMMITTED transaction (callFunction in      *)
(* src/database/client.ts) that locks rows one after the other and whose   *)
(* writes appear at COMMIT.  SELECT ... FOR UPDATE takes a row alone; an   *)
(* INSERT that refers to a row by a foreign key shares it with other such  *)
(* inserts (FOR KEY SHARE): every function inserts a signature_event that  *)
(* refers to its contract.  The audit triggers take one advisory lock for  *)
(* the whole database (fn_audit_log_record_v2): a transaction waits for it *)
(* at its first write and keeps it to its end.  A transaction takes the    *)
(* time of its start for now: an invitation runs out before or after a     *)
(* call on it, never during.                                               *)
(***************************************************************************)
EXTENDS SignatureCeremony, Sequences

CONSTANTS
    Txn,          \* database sessions
    Sweeper,      \* sessions of the processes that run the expiration cron
    MaxCalls      \* bound: calls the sessions make in all

ASSUME CallsAssumption == MaxCalls \in Nat /\ Sweeper \subseteq Txn

\* Only a contract with a required party can be sent (CanSend).
ASSUME SentAssumption ==
    \A c \in Contract : \E p \in Signatory : ContractOf[p] = c

VARIABLES
    call,         \* the call each session runs
    held,         \* how many of its locks it has taken
    calls         \* calls made so far

lvars == <<status, live, roster, inv, due, call, held, calls>>

NoCall == [op |-> "none"]

\* Calls on one party's invitation; stale says that the invitation they were
\* given was replaced by a resend meanwhile.
PartyCall ==
    [op : {"sign", "decline", "cancel", "resend", "view"}, party : Party,
     stale : BOOLEAN]

\* A batch of the cron, before it counted what is left of its steps ("expire")
\* and after ("halt", with the contracts it found to halt).
SweepCall ==
    [op : {"expire", "halt"}, batch : SUBSET Party, halts : SUBSET Contract]

\* The drafter cancels a contract (fn_contract_status_update_user).
CloseCall == [op : {"close"}, contract : Contract]

Call == PartyCall \cup SweepCall \cup CloseCall

\* The ceremony when the calls start: the invitations are out.
LocksInit ==
    /\ status = [c \in Contract |-> "awaiting_signature_employer"]
    /\ live = Contract
    /\ roster = Party
    /\ inv = [p \in Party |-> IF FirstStep(ContractOf[p], StepOf[p])
                              THEN "pending" ELSE "none"]
    /\ due = {}
    /\ call = [t \in Txn |-> NoCall]
    /\ held = [t \in Txn |-> 0]
    /\ calls = 0

-----------------------------------------------------------------------------
(* Row locks. *)

Alone(rows)  == [rows |-> rows, alone |-> TRUE]
Shared(rows) == [rows |-> rows, alone |-> FALSE]

\* The advisory lock of the audit chain.
Audit == Alone({<<"audit">>})

\* Mutant: the writes of a batch are not audited.
SweepLocksUnaudited(r) ==
    <<Alone({<<"invitation", p>> : p \in r.batch}),
      Shared({<<"contract", ContractOf[p]>> : p \in r.batch})>>

\* The rows of a batch; then, as it expires them, the audit lock and (by their
\* events) the rows of its contracts.
SweepLocks(r) ==
    <<Alone({<<"invitation", p>> : p \in r.batch}), Audit,
      Shared({<<"contract", ContractOf[p]>> : p \in r.batch})>>

\* Mutants: the invitation is read without a lock that excludes others; a
\* cancellation takes the contract first.
PartyLocksShared(r) ==
    LET contract == {<<"contract", ContractOf[r.party]>>}
        party    == Alone({<<"party", r.party>>})
    IN  CASE r.op \in {"sign", "decline", "cancel"} ->
               <<Shared({<<"invitation", r.party>>}), Alone(contract), party,
                 Audit>>
          [] r.op = "resend" -> <<party, Alone({<<"invitation", r.party>>}), Audit,
                                  Shared(contract)>>
          [] r.op = "view" -> <<Alone({<<"invitation", r.party>>}), Audit,
                                Shared(contract)>>
PartyLocksContractFirst(r) ==
    LET invitation == Alone({<<"invitation", r.party>>})
        contract   == {<<"contract", ContractOf[r.party]>>}
        party      == Alone({<<"party", r.party>>})
    IN  CASE r.op \in {"sign", "decline"} ->
               <<invitation, Alone(contract), party, Audit>>
          [] r.op = "cancel" -> <<Alone(contract), invitation, party, Audit>>
          [] r.op = "resend" -> <<party, invitation, Audit, Shared(contract)>>
          [] r.op = "view"   -> <<invitation, Audit, Shared(contract)>>

\* Signatures, refusals and cancellations lock all their rows before they
\* write; a resend and a view write first, then refer to the contract.
PartyLocks(r) ==
    LET invitation == Alone({<<"invitation", r.party>>})
        contract   == {<<"contract", ContractOf[r.party]>>}
        party      == Alone({<<"party", r.party>>})
    IN  CASE r.op \in {"sign", "decline", "cancel"} ->
               <<invitation, Alone(contract), party, Audit>>
          [] r.op = "resend" -> <<party, invitation, Audit, Shared(contract)>>
          [] r.op = "view"   -> <<invitation, Audit, Shared(contract)>>

\* The locks of a call, in the order its function takes them.
Locks(r) ==
    CASE r.op = "expire" -> SweepLocks(r)
      [] r.op = "halt"   ->
           SweepLocks(r) \o <<Alone({<<"contract", c>> : c \in r.halts})>>
      [] r.op = "close"  -> <<Alone({<<"contract", r.contract>>}), Audit>>
      [] OTHER           -> PartyLocks(r)

Taken(t) == IF call[t] = NoCall THEN {}
            ELSE {Locks(call[t])[i] : i \in 1..held[t]}

\* Sessions that keep t from taking the rows of a lock.
Blockers(t, lock) ==
    {u \in Txn \ {t} : \E l \in Taken(u) :
        l.rows \cap lock.rows # {} /\ (l.alone \/ lock.alone)}

HasNext(t) == call[t] # NoCall /\ held[t] < Len(Locks(call[t]))
NextLock(t) == Locks(call[t])[held[t] + 1]

\* What a function checks once it has the invitation's row, as it stands then.
Admitted(r) ==
    CASE r.op \in {"sign", "decline"} -> ~r.stale /\ Usable(r.party)
      [] r.op = "cancel"              -> ~r.stale /\ Cancellable(r.party)
      [] r.op = "resend"              -> inv[r.party] \in Renewable
      [] OTHER                        -> TRUE

TakesInvitation(t) ==
    \E row \in NextLock(t).rows : row[1] = "invitation"

Release(t) ==
    /\ call' = [call EXCEPT ![t] = NoCall]
    /\ held' = [held EXCEPT ![t] = 0]
    /\ UNCHANGED calls

-----------------------------------------------------------------------------
(* The steps of a session. *)

Begin(t, r) ==
    /\ call[t] = NoCall
    /\ calls < MaxCalls
    /\ calls' = calls + 1
    /\ call' = [call EXCEPT ![t] = r]
    /\ held' = [held EXCEPT ![t] = 0]
    /\ UNCHANGED vars

\* Only a first view is of interest: the later ones count.
BeginParty(t) ==
    \E r \in PartyCall :
        /\ ~r.stale /\ inv[r.party] # "none"
        /\ r.op = "view" => inv[r.party] = "pending" /\ Usable(r.party)
        /\ Begin(t, r)

BeginClose(t) == \E r \in CloseCall : Begin(t, r)

\* The batch takes every due row that no other session holds (SKIP LOCKED).
BeginSweep(t) ==
    LET free == {p \in due : /\ Selected(p)
                             /\ Blockers(t, Alone({<<"invitation", p>>})) = {}}
    IN  /\ t \in Sweeper
        /\ free # {}
        /\ call[t] = NoCall
        /\ calls < MaxCalls
        /\ calls' = calls + 1
        /\ call' = [call EXCEPT ![t] = [op |-> "expire", batch |-> free,
                                        halts |-> {}]]
        /\ held' = [held EXCEPT ![t] = 1]
        /\ UNCHANGED vars

TakeLock(t) ==
    /\ HasNext(t)
    /\ Blockers(t, NextLock(t)) = {}
    /\ TakesInvitation(t) => Admitted(call[t])
    /\ held' = [held EXCEPT ![t] = @ + 1]
    /\ UNCHANGED <<vars, call, calls>>

\* The count reads what is committed, and the rows of the batch as expired.
CountExhausted(t) ==
    /\ call[t].op = "expire" /\ ~HasNext(t)
    /\ call' = [call EXCEPT
          ![t].op    = "halt",
          ![t].halts = {c \in Contract : ExhaustedSteps(c, call[t].batch) # {}}]
    /\ UNCHANGED <<vars, held, calls>>

TurnAway(t) ==
    /\ HasNext(t) /\ TakesInvitation(t)
    /\ Blockers(t, NextLock(t)) = {}
    /\ ~Admitted(call[t])
    /\ Release(t)
    /\ UNCHANGED vars

\* The update of the counters of a view: the status moves only from pending.
RecordView(p) ==
    /\ inv' = IF inv[p] = "pending" THEN [inv EXCEPT ![p] = "viewed"] ELSE inv
    /\ UNCHANGED <<status, live, roster, due>>

RecordExpiry(batch, halts) ==
    /\ \A c \in halts : HaltAllowed(c, batch)
    /\ inv' = [p \in Party |-> IF p \in batch THEN "expired" ELSE inv[p]]
    /\ due' = due \ batch
    /\ status' = [c \in Contract |-> IF c \in halts THEN "expired" ELSE status[c]]
    /\ UNCHANGED <<live, roster>>

\* What a call writes once it holds its locks.
Write(r) ==
    CASE r.op = "sign"    -> RecordSignature(r.party)
      [] r.op = "decline" -> RecordDecline(r.party)
      [] r.op = "cancel"  -> RecordCancel(r.party)
      [] r.op = "resend"  -> Renew(r.party)
      [] r.op = "view"    -> IF r.stale THEN UNCHANGED vars
                             ELSE RecordView(r.party)
      [] r.op = "halt"    -> RecordExpiry(r.batch, r.halts)
      [] r.op = "close"   -> StatusUpdateUser(r.contract, "cancelled")

Ready(t) == call[t].op \notin {"none", "expire"} /\ ~HasNext(t)

\* A resend makes the tokens and ids of the others' calls stale.
Commit(t) ==
    /\ Ready(t)
    /\ Write(call[t])
    /\ call' = [u \in Txn |->
                  IF u = t THEN NoCall
                  ELSE IF /\ call[t].op = "resend"
                          /\ call[u] \in PartyCall
                          /\ call[u].party = call[t].party
                       THEN [call[u] EXCEPT !.stale = TRUE]
                       ELSE call[u]]
    /\ held' = [held EXCEPT ![t] = 0]
    /\ UNCHANGED calls

\* A transition of the contract is refused and the transaction rolled back.
Refuse(t) ==
    /\ Ready(t)
    /\ ~ENABLED Write(call[t])
    /\ Release(t)
    /\ UNCHANGED vars

-----------------------------------------------------------------------------
(* Deadlocks. *)

WaitsFor(t) == IF HasNext(t) THEN Blockers(t, NextLock(t)) ELSE {}

Cyclic(D) == D # {} /\ \A t \in D : WaitsFor(t) \cap D # {}

\* A shortest cycle of waiting sessions.
Deadlock(D) == Cyclic(D) /\ \A E \in SUBSET D : Cyclic(E) => E = D

\* The detector rolls a session of the cycle back (40P01).
DeadlockAbort(t) ==
    /\ \E D \in SUBSET Txn : t \in D /\ Deadlock(D)
    /\ Release(t)
    /\ UNCHANGED vars

Advance(t) ==
    TakeLock(t) \/ TurnAway(t) \/ CountExhausted(t) \/ Commit(t) \/ Refuse(t)

\* An invitation that no call is about runs out.
Tick(p) ==
    /\ RunOut(p)
    /\ \A t \in Txn : call[t] \in PartyCall => call[t].party # p
    /\ UNCHANGED <<call, held, calls>>

LocksNext ==
    \/ \E t \in Txn :
          \/ BeginParty(t) \/ BeginClose(t) \/ BeginSweep(t)
          \/ Advance(t)
          \/ DeadlockAbort(t)
    \/ \E p \in Party : Tick(p)

LocksSpec == LocksInit /\ [][LocksNext]_lvars

-----------------------------------------------------------------------------
(* Properties. *)

\* Every commit of the ceremony is one operation of SignatureCeremony, computed
\* on the state it commits to: what a call read before a wait still holds when
\* it writes.  For the sweep's count of what is left of a step it is the audit
\* lock that makes it so: no row keeps a resend or another sweep out.
\* (That a step may write nothing is said first for TLC's sake.)
EveryCommitIsAtomic == [][UNCHANGED vars \/ Next]_vars

\* Signatures, refusals, cancellations and the drafter's calls never wait for
\* each other in a circle: they lock invitation, contract, party in this order
\* (S2-17) before they write.  Every deadlock has a call in it that writes
\* first: a view, a resend or a sweep.
LockOrderKept ==
    \A D \in SUBSET Txn :
        Deadlock(D) => \E t \in D :
                          call[t].op \in {"view", "resend", "expire", "halt"}

\* A contract that awaits its employers has an employer who still can sign or
\* did: two sweeps that each expire one invitation of a step, or a sweep and a
\* resend, do not leave it waiting for nobody.
ExhaustedIsHalted ==
    \A c \in Contract :
        status[c] = "awaiting_signature_employer" =>
            \E p \in RequiredOf(c) : inv[p] \in {"pending", "viewed", "signed"}
=============================================================================
