---------------------------- MODULE MCWorkOrders ----------------------------
(* Small instances of WorkOrders: which complaint an order id belongs to,  *)
(* and which visit times overlap.                                          *)
EXTENDS WorkOrders, TLC

\* Distinct times are disjoint.
MCOverlaps == {<<s, s>> : s \in Slots}

\* All order ids on one complaint, or one order id for each of two.
MCOneComplaint  == [o \in Orders |-> CHOOSE c \in Complaints : TRUE]
MCTwoComplaints ==
    CHOOSE f \in [Orders -> Complaints] : \A o, p \in Orders : o # p => f[o] # f[p]
MCAways == SUBSET Members
MCRaiseSlots == Slots \union {NoSlot}

\* Bounds of the run with two complaints: nothing follows from a complaint
\* that was taken up, reopened or sent back (the one-complaint runs do that),
\* and the job of one is for the resident, of the other for a common area.
MCFirstRound == \A c \in Complaints :
    ~complaint[c].takenUp /\ ~complaint[c].reopened /\ ~complaint[c].returned
MCOneOfEachKind == \A o \in Orders :
    order[o].status # "none" => (order[o].kind = "resident" <=> o = 1)

\* Members are interchangeable, and so are visit times: nothing orders them.
MCSymmetry == Permutations(Members) \union Permutations(Slots)
=============================================================================
