---------------------------- MODULE VendorClaims ----------------------------
(***************************************************************************)
(* What a comment of the repository says of the files that changes are     *)
(* decided from, and the code does not keep.                               *)
(***************************************************************************)
EXTENDS VendorSync

\* Changes come from files that were accepted.  (_parse_and_store: "What must
\* NOT happen is deciding and pushing from a file we do not trust")
UntrustedNotSent ==
    job.phase = "send" =>
        \A d \in job.batch : d.why = "stock" => status[source[d.sku]] = "parsed"
=============================================================================
