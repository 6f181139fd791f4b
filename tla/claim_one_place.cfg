SPECIFICATION Spec
CONSTANTS
  Complaints = {c1, c2}
  Orders = {1, 2}
  ComplaintOf <- MCTwoComplaints
  Members = {m1}
  Leads = {}
  Slots = {s1, s2}
  NoSlot = NoSlot
  Overlaps <- MCOverlaps
  RaiseSlots <- MCRaiseSlots
  RescheduleSlots = {s1, s2}
  Kinds = {"facility"}
  Highs = {FALSE}
  Aways = {{}}
  HandStatuses = {}
  OfferRound = 1
  MayRetire = FALSE
  MaxOvertaken = 0
INVARIANTS OnePlaceAtATime
CHECK_DEADLOCK FALSE
