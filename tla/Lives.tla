-------------------------------- MODULE Lives --------------------------------
(* Every row, and where the two sides are known to differ.                 *)
EXTENDS OfficeLives

Life == [complaint |-> ComplaintLife, visit |-> VisitLife, pass |-> PassLife,
         invoice |-> InvoiceLife, booking |-> BookingLife, feed |-> FeedLife,
         household |-> KeptLife({}), notice |-> NoticeLife,
         duty |-> DutyLife, job |-> JobLife, slot |-> SlotLife, triage |-> TriageLife,
         application |-> ApplicationLife, departure |-> DepartureLife,
         shift |-> ShiftLife, incident |-> IncidentLife, register |-> RegisterLife,
         thread |-> ThreadLife, kept |-> KeptLife({}), settings |-> KeptLife({Office}),
         office |-> OfficeComplaintLife, routing |-> RoutingLife, change |-> ChangeLife,
         department |-> DepartmentLife, invite |-> InviteLife, access |-> AccessLife,
         bill |-> BillLife, ledger |-> LedgerLife, day |-> DayLife, amenity |-> AmenityLife]

\* Offered on an up-to-date row and refused. A complaint that closed by itself
\* still reads "Resolved", and a visit that was called off or went back to its
\* resident still has an assignment in its timeline; nothing on the page says that a complaint
\* is done before a job is created for it, that a complaint has a live job
\* before it is moved, that a department still holds an open complaint, or, for
\* a resident, that somebody has a slot.
OverOffered ==
    ({"CancelWork"} \X {"cancelWork"} \X {"awaiting", "gone", "redraft", "repick"}) \union
    {<<"ComplaintDrawer", "confirm", "closed">>,
     <<"ComplaintWorkOrders", "create", "resolved">>,
     <<"DepartmentComplaintList", "move", "live">>, <<"Departments", "delete", "held">>,
     <<"BookingDialog", "request", "requested">>, <<"BookingDialog", "request", "approved">>}

\* Accepted where the markup would not have offered it. An answer to a visit
\* that was proposed is taken as one to the job that has replaced it meanwhile,
\* which proposes none, and a cancellation as one of an offer made since. A job can be taken up
\* or forced on somebody while it is under way or its resident is choosing a
\* time; it can be completed without having been started; a priority is raised
\* and a bill paid whatever has become of them; a complaint is routed away
\* from the department it has gone to meanwhile, and asked back or moved when
\* it is done. A shift and an incident take any status from any other, and
\* damage is deducted from a deposit that has been paid back. A member is removed
\* while a request is open, and asked out again when one is approved.
UnderOffered ==
    {"ProposedVisit"} \X {"confirm", "decline"} \X {"pick", "repick"}
    \union {<<"CancelWork", "cancelWork", "offer">>}
    \union {"AssignPickerModal"} \X {"force"} \X {"awaiting", "in_progress"}
    \union {"TakeUpModal"} \X {"takeUp"} \X {"awaiting", "in_progress"}
    \union {"SupervisorDashboard"} \X {"raisePriority"} \X {"busy", "resolved"}
    \union {"DepartmentComplaintList"} \X {"ask"} \X {"done", "elsewhere"}
    \union {"DepartmentComplaintList"} \X {"move"} \X {"asked", "done"}
    \union {"Shifts"} \X {"start", "complete"} \X {"completed", "missed", "cancelled"}
    \union {"Roster"} \X {"miss", "cancel"} \X {"completed", "missed", "cancelled"}
    \union {<<"Departures", "remove", "pending">>, <<"EmployeeDetail", "request", "approved">>,
            <<"LeaveSection", "request", "approved">>}
    \union {<<"IncidentPanel", "acknowledge", "resolved">>, <<"AmenityLedger", "damage", "spent">>,
            <<"JobDetailModal", "complete", "mine">>, <<"ComplaintTriage", "allot", "elsewhere">>,
            <<"Maintenance", "record", "paid">>}

\* Writes that a repeated press adds again: nothing in them says they are one.
Unkeyed ==
    {<<"Complaints", "raise">>, <<"ComplaintDrawer", "comment">>,
     <<"Visitors", "create">>,
     <<"ComplaintDetailModal", "note">>, <<"SupervisorDashboard", "raisePriority">>,
     <<"AdminComplaints", "raise">>, <<"AdminComplaints", "comment">>,
     <<"DepartmentDetail", "comment">>, <<"Maintenance", "issue">>, <<"Maintenance", "record">>,
     <<"Messages", "send">>, <<"WorkerMessages", "send">>,
     <<"ThreadView", "send">>, <<"IncidentPanel", "report">>,
     <<"AmenityLedger", "payment">>, <<"AmenityLedger", "charge">>,
     <<"AmenityLedger", "damage">>, <<"AmenitiesManagement", "create">>}

\* The screens that hear of everything others do to their rows: the database
\* publishes a frame for every such change and the portal's maps name the
\* screen's key. The other screens are read again when they are returned to.
Followed ==
    {"AdminComplaints", "DepartmentDetail", "Maintenance", "Admins", "AdminNotices", "AdminHome",
     "PendingRegistrations", "ProposedVisit", "OpenJobs", "WorkerDashboardHome",
     "WorkerCalendar", "JobDetail", "WorkOrderTriage", "ComplaintWorkOrders",
     "AssignPickerModal", "TakeUpModal", "DepartmentComplaintList", "ChangeRequests",
     "NotificationBell", "BookingDues", "Amenities"}
=============================================================================
