--------------------------- MODULE MCApprovalLocks ---------------------------
(* Instances of ApprovalLocks for TLC. *)
EXTENDS ApprovalLocks, TLC

CONSTANTS bob, approver, counsel

Rule(o, req, par, r, esc) ==
    [status |-> "pending", order |-> o, required |-> req, grouped |-> par,
     role |-> r, escRole |-> esc, approver |-> NoUser, delegated |-> NoUser,
     reassigned |-> NoUser]
RuleSet(rules) ==
    [k \in StepId |-> IF k \in DOMAIN rules THEN rules[k]
                      ELSE [Rule(0, FALSE, FALSE, NoRole, NoRole)
                            EXCEPT !.status = "none"]]

MCRoleOf == [u \in User |-> IF u = bob THEN counsel ELSE approver]

\* Sessions are interchangeable (safety runs only).
Sessions == Permutations(Txn)

\* A required step with an optional peer that escalates; or two peers that
\* escalate to each other's role, and a second order after them, which waits.
AnyOf ==
    {RuleSet(<<Rule(1, TRUE, TRUE, approver, NoRole),
               Rule(1, FALSE, TRUE, approver, counsel)>>),
     RuleSet(<<Rule(1, TRUE, TRUE, approver, counsel),
               Rule(1, FALSE, TRUE, counsel, approver),
               Rule(2, TRUE, FALSE, counsel, NoRole)>>)}
\* Two required peers of different roles; the second would escalate to the role
\* of the first, and so finds its escalation peer there already.
RequiredPeers ==
    {RuleSet(<<Rule(1, TRUE, TRUE, approver, NoRole),
               Rule(1, TRUE, TRUE, counsel, approver)>>)}
=============================================================================
