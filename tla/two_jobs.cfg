SPECIFICATION Spec
CONSTANTS
  Complaints = {c1}
  Orders = {1, 2}
  ComplaintOf <- MCOneComplaint
  Members = {m1}
  Leads = {}
  Slots = {s1}
  NoSlot = NoSlot
  Overlaps <- MCOverlaps
  RaiseSlots <- MCRaiseSlots
  RescheduleSlots = {s1}
  Kinds = {"resident"}
  Highs = {FALSE}
  Aways <- MCAways
  HandStatuses = {}
  OfferRound = 1
  MayRetire = FALSE
  MaxOvertaken = 1
INVARIANTS OneLiveJob FailedVisitIsSeen
PROPERTIES WorkMovesForward OverIsIdle
CHECK_DEADLOCK FALSE
