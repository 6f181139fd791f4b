SPECIFICATION Spec
CONSTANTS
  Complaints = {c1}
  Orders = {1}
  ComplaintOf <- MCOneComplaint
  Members = {m1}
  Leads = {}
  Slots = {s1, s2}
  NoSlot = NoSlot
  Overlaps <- MCOverlaps
  RaiseSlots = {s1, s2}
  RescheduleSlots = {s1, s2}
  Kinds = {"resident"}
  Highs = {FALSE}
  Aways = {{}}
  HandStatuses = {}
  OfferRound = 1
  MayRetire = FALSE
  MaxOvertaken = 0
INVARIANTS NobodyForgotten
CHECK_DEADLOCK FALSE
