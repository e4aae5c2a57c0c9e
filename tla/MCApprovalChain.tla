--------------------------- MODULE MCApprovalChain ---------------------------
(* Instances of ApprovalChain for TLC. *)
EXTENDS ApprovalChain

CONSTANTS alice, bob, carol, approver, counsel

\* A rule of the matrix, and the absence of one.
Rule(o, req, par, r, esc) ==
    [status |-> "pending", order |-> o, required |-> req, grouped |-> par,
     role |-> r, escRole |-> esc, approver |-> NoUser, delegated |-> NoUser,
     reassigned |-> NoUser]
NoRule ==
    [status |-> "none", order |-> 0, required |-> FALSE, grouped |-> FALSE,
     role |-> NoRole, escRole |-> NoRole, approver |-> NoUser,
     delegated |-> NoUser, reassigned |-> NoUser]

\* The rows of a rule set, in the order fn_approval_route_init inserts them.
RuleSet(rules) ==
    [k \in StepId |-> IF k \in DOMAIN rules THEN rules[k] ELSE NoRule]

MCRoleOf == [u \in User |-> IF u = bob THEN counsel ELSE approver]

\* Steps that escalate: alone in their order, and beside an optional peer.
EscalatingAll ==
    RuleSet(<<Rule(1, TRUE, FALSE, approver, counsel),
              Rule(2, TRUE, FALSE, approver, counsel)>>)
EscalatingMixed ==
    RuleSet(<<Rule(1, FALSE, TRUE, approver, counsel),
              Rule(1, TRUE, TRUE, approver, NoRole),
              Rule(2, TRUE, FALSE, approver, NoRole)>>)

MCEscalateMatrix == {EscalatingAll, EscalatingMixed}
=============================================================================
