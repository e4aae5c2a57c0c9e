--------------------------- MODULE ContractStatus ---------------------------
(***************************************************************************)
(* The life of contract.status: which transitions each of the two writers  *)
(* of the column lets through.  fn_contract_status_update_user serves the  *)
(* HTTP callers; fn_contract_status_update_internal is called by the       *)
(* approval engine and by the signature ceremony.  Both raise, and so roll *)
(* their whole transaction back, on a pair that is not listed here.        *)
(***************************************************************************)

ContractState ==
    {"draft", "in_review", "in_approval", "approved",
     "awaiting_signature_employer", "awaiting_signature_counterparty",
     "fully_signed", "active", "expiring_soon", "expired", "amended",
     "renewed", "terminated", "rejected", "resubmission_requested",
     "cancelled"}

\* fn_contract_status_update_internal: the approval engine's and the
\* signature ceremony's transitions.
InternalTransitions ==
    ({"in_approval"} \X {"approved", "rejected", "draft"})
    \cup {<<"approved", "awaiting_signature_employer">>}
    \cup ({"awaiting_signature_employer"}
            \X {"awaiting_signature_counterparty", "fully_signed",
                "rejected", "expired", "approved"})
    \cup ({"awaiting_signature_counterparty"}
            \X {"fully_signed", "rejected", "expired", "approved"})

\* Statuses from which only a holder of contract.delete may cancel.
AdminCancellable == {"approved", "active", "fully_signed", "expiring_soon"}

\* Statuses from which the drafter may cancel: whatever the exclusion list of
\* the function leaves over.
DrafterCancellable ==
    ContractState \ (AdminCancellable
        \cup {"expired", "terminated", "cancelled", "rejected", "amended",
              "renewed"})

\* fn_contract_status_update_user.  in_review -> in_approval is not here: it
\* delegates to fn_approval_route_init, which raises in any status but draft and
\* resubmission_requested (RouteInit in ApprovalChain).
UserTransitions ==
    {<<"draft", "in_review">>, <<"in_review", "draft">>,
     <<"approved", "active">>}
    \cup ((DrafterCancellable \cup AdminCancellable) \X {"cancelled"})
=============================================================================
