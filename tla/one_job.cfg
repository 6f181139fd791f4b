SPECIFICATION Spec
CONSTANTS
  Complaints = {c1}
  Orders = {1}
  ComplaintOf <- MCOneComplaint
  Members = {m1, m2}
  Leads = {}
  Slots = {s1, s2}
  NoSlot = NoSlot
  Overlaps <- MCOverlaps
  RaiseSlots <- MCRaiseSlots
  RescheduleSlots = {s1, s2}
  Kinds = {"resident", "facility"}
  Highs = {TRUE}
  Aways <- MCAways
  HandStatuses = {"open"}
  OfferRound = 1
  MayRetire = FALSE
  MaxOvertaken = 0
INVARIANTS TypeOK HolderMatchesJob TimersFollowStatus AwaitingHasDeadline
PROPERTIES FinishedJobsStay EngineRespectsRefusals KeepsTheBoard
SYMMETRY MCSymmetry
CHECK_DEADLOCK FALSE
