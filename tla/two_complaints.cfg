SPECIFICATION Spec
CONSTANTS
  Complaints = {c1, c2}
  Orders = {1, 2}
  ComplaintOf <- MCTwoComplaints
  Members = {m1}
  Leads = {}
  Slots = {s1, s2}
  NoSlot = NoSlot
  Overlaps <- MCOverlaps
  RaiseSlots = {s1, NoSlot}
  RescheduleSlots = {s2}
  Kinds = {"resident", "facility"}
  Highs = {TRUE}
  Aways = {{}}
  HandStatuses = {}
  OfferRound = 1
  MayRetire = TRUE
  MaxOvertaken = 0
INVARIANTS NoDoubleBooking
CONSTRAINTS MCFirstRound MCOneOfEachKind
CHECK_DEADLOCK FALSE
