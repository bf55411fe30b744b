SPECIFICATION Spec
CONSTANTS
  Reviews = {r1, r2}
  Batches <- UpToTwo
  UndoLimit = 2
  Orphans = {o1, o2}
  Faults = {"late_error", "lost_result", "interrupted", "lost_construction", "interrupted_finalize", "leaked_pending", "foreign_finalizer"}
  MaxReviews = 4
  MaxToken = 2
INVARIANTS
  FramesBelongToSession
  UndoRemovesOneReview
