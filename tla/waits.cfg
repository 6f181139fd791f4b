SPECIFICATION FairSpec
CONSTANTS
  Complaints = {c1}
  Orders = {1}
  ComplaintOf <- MCOneComplaint
  Members = {m1}
  Leads = {l1}
  Slots = {s1, s2}
  NoSlot = NoSlot
  Overlaps <- MCOverlaps
  RaiseSlots = {s1, s2}
  RescheduleSlots = {}
  Kinds = {"resident", "facility"}
  Highs = {TRUE, FALSE}
  Aways <- MCAways
  HandStatuses = {}
  OfferRound = 1
  MayRetire = FALSE
  MaxOvertaken = 0
INVARIANTS NobodyForgotten
PROPERTIES WaitsEnd
CHECK_DEADLOCK FALSE
