CONSTANTS
  Delete = {d1, d2}
SYMMETRY Deletions
SPECIFICATION Spec
INVARIANTS
  ConversationConsistent
  DeletionHolds
