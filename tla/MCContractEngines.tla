------------------------- MODULE MCContractEngines -------------------------
(* Instances of ContractEngines for TLC: the rule sets of MCApprovalChain and *)
(* a roster of an employer and a counterparty in two steps.                   *)
EXTENDS ContractEngines

CONSTANTS c1, alice, bob, approver, counsel, emp, other

Rule(o, req, par, r) ==
    [status |-> "pending", order |-> o, required |-> req, grouped |-> par,
     role |-> r, escRole |-> NoRole, approver |-> NoUser, delegated |-> NoUser,
     reassigned |-> NoUser]
RuleSet(rules) ==
    [k \in StepId |-> IF k \in DOMAIN rules THEN rules[k]
                      ELSE [Rule(0, FALSE, FALSE, NoRole) EXCEPT !.status = "none"]]

MCRoleOf == [u \in User |-> IF u = bob THEN counsel ELSE approver]

\* In sequence, any-of, all-of, and three orders, so that the middle one can be
\* decided first.
MCMatrix ==
    {RuleSet(<<Rule(1, TRUE, FALSE, counsel), Rule(2, TRUE, FALSE, approver)>>),
     RuleSet(<<Rule(1, TRUE, TRUE, approver), Rule(1, FALSE, TRUE, counsel),
               Rule(2, TRUE, FALSE, counsel)>>),
     RuleSet(<<Rule(1, TRUE, TRUE, approver), Rule(1, TRUE, TRUE, counsel),
               Rule(2, FALSE, FALSE, approver)>>),
     RuleSet(<<Rule(1, TRUE, FALSE, approver), Rule(2, TRUE, FALSE, counsel),
               Rule(3, TRUE, FALSE, approver)>>)}

MCContractOf == [p \in Party |-> c1]
MCStepOf     == [p \in Party |-> IF p = other THEN 2 ELSE 1]
=============================================================================
