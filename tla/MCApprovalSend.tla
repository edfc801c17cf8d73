--------------------------- MODULE MCApprovalSend ---------------------------
(* ApprovalSend on two decisions, two retries and two recipients.           *)
EXTENDS ApprovalSend, TLC

CONSTANTS d1, d2, r1, r2, ann, bob

MCDeciders   == {d1, d2}
MCRetriers   == {r1, r2}
MCOneDecider == {d1}
MCOneRetrier == {r1}
MCRecipients == {ann, bob}
MCOneRecipient == {ann}

Symmetry == Permutations(MCDeciders) \cup Permutations(MCRetriers)
              \cup Permutations(MCRecipients)
=============================================================================
