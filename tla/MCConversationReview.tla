------------------------- MODULE MCConversationReview -------------------------
(* Small instances of ConversationReview. *)
EXTENDS ConversationReview, TLC

ReviewerSymmetry == Permutations(Reviewer)
=============================================================================
