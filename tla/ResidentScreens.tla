--------------------------- MODULE ResidentScreens ---------------------------
(* The resident portal's components (pages/ResidentDashboard).             *)
EXTENDS Lives

Anywhere(life) == life.states

\* ProposedVisit: its two writes end in the same settle().
ProposedVisitWrites ==
    LET settle == SetsAnd({RK.schedule, RK.complaint, RK.complaintList})
    IN  [confirm |-> settle, decline |-> settle, pickTime |-> settle]

\* The card: a time to pick, or a proposed time to confirm or decline, while
\* an answer is awaited; nothing otherwise.
ProposedVisitOffers ==
    [pickTime |-> {"pick", "repick"}, confirm |-> {"awaiting"}, decline |-> {"awaiting"}]

ProposedVisit == Screen("ProposedVisit", "resident", RK.schedule, "visit",
                        ProposedVisitWrites, ProposedVisitOffers)

\* ComplaintDrawer: three of its writes answer with the complaint, which is
\* written over the thread; a comment answers with a message.
ComplaintDrawerWrites ==
    LET afterWrite == SetsAnd({RK.complaintList, RK.snapshot})
    IN  [confirm |-> afterWrite, reopen |-> afterWrite,
         comment |-> Tells({RK.complaint, RK.complaintList})]

\* Rating and reopening appear under "Resolved", the word for a closed
\* complaint too; the comment box is always there.
ResolutionOffers == [confirm |-> {"resolved", "closed"}, reopen |-> {"resolved", "closed"}]
ConversationOffers == [comment |-> Anywhere(ComplaintLife)]

ComplaintDrawerOffers == ResolutionOffers @@ ConversationOffers

ComplaintDrawer == Screen("ComplaintDrawer", "resident", RK.complaint, "complaint",
                          ComplaintDrawerWrites, ComplaintDrawerOffers)

\* canCancelUnstartedWork: the timeline names an assignment or a visiting
\* time, and no start or completion since. It does not say that the job has
\* gone back to its resident, or is no more.
CanCancelUnstartedWork ==
    {"offered", "scheduled", "awaiting", "gone", "redraft", "repick"}

\* The box of the drawer that sends the visit away.
CancelWork == Screen("CancelWork", "resident", RK.complaint, "visit",
                     [cancelWork |-> SetsAnd({RK.complaintList, RK.snapshot})],
                     [cancelWork |-> CanCancelUnstartedWork])

\* RaiseComplaintModal
RaiseComplaintModalWrites == [raise |-> Tells({RK.complaintList, RK.snapshot})]

\* Complaints: the list, which marks what is opened as read.
ComplaintsWrites ==
    RaiseComplaintModalWrites
    @@ [read |-> Tells({RK.complaintList, RK.snapshot})]

RaiseComplaintModalOffers == [raise |-> Anywhere(ComplaintLife)]
ComplaintsOffers ==
    RaiseComplaintModalOffers @@ [read |-> Anywhere(ComplaintLife)]

Complaints == Screen("Complaints", "resident", RK.complaintList, "complaint",
                     ComplaintsWrites, ComplaintsOffers)

\* DashboardHome: one snapshot, and the passes waiting for an answer.
DashboardHomeWrites ==
    [approve |-> Tells({RK.snapshot}), reject |-> Tells({RK.snapshot})]

DashboardHomeOffers ==
    [approve |-> {"pending_approval"}, reject |-> {"pending_approval"}]

DashboardHome == Screen("DashboardHome", "resident", RK.snapshot, "pass",
                        DashboardHomeWrites, DashboardHomeOffers)

\* Its cards of complaints and of notices are drawn from the same snapshot.
HomeComplaints == Display("HomeComplaints", "resident", RK.snapshot, "complaint")
HomeNotices    == Display("HomeNotices", "resident", RK.snapshot, "notice")

\* Visitors: one list for each view, one invalidation for both.
VisitorPasses == R("visitor-passes")

VisitorsWrites ==
    LET told == Tells({VisitorPasses})
    IN  [create |-> told, approve |-> told, reject |-> told, cancel |-> told]

\* CANCELLABLE_STATUSES, and the two buttons of "Pending Approval".
VisitorsOffers ==
    [approve |-> {"pending_approval"}, reject |-> {"pending_approval"},
     cancel  |-> {"expected", "pending_approval", "approved"}]

\* "Pre-approve Entry", beside the list.
PreApproveOffers == [create |-> Anywhere(PassLife)]

Visitors == Screen("Visitors", "resident", VisitorPasses \o <<"current">>, "pass",
                   VisitorsWrites, PreApproveOffers @@ VisitorsOffers)

\* Payments: a bill is paid under a key minted when its dialog opens, kept
\* after an error and replaced after a failed outcome.
PaymentsWrites == [pay |-> Tells({R("invoices")})]
Payable == {"issued", "overdue"}
PaymentsOffers == [pay |-> Payable]
Payments == Screen("Payments", "resident", R("invoices"), "invoice",
                   PaymentsWrites, PaymentsOffers)

\* The other column: bookings that are payable.
BookingDuesOffers == [pay |-> {"requested", "approved"}]
BookingDues == Screen("BookingDues", "resident", RK.amenityBookings, "booking",
                      [pay |-> Tells({RK.amenityBookings})], BookingDuesOffers)

\* Amenities: the resident's bookings, and the dialog that cancels days.
CancelDaysWrites == [cancel |-> Tells({RK.amenityBookings})]

\* isCancellableDay
CancellableDay == {"requested", "approved"}
CancelDaysOffers == [cancel |-> CancellableDay]
Amenities == Screen("Amenities", "resident", RK.amenityBookings, "booking",
                    CancelDaysWrites, CancelDaysOffers)

\* The dialog that books: a new revision of the conflicts is asked for with
\* the bookings. A resident's read of the conflicts is not verified, and then
\* every slot is offered, whoever has it.
BookingDialogWrites == [request |-> Tells({RK.amenityBookings, RK.amenityConflicts})]
BookingDialogOffers == [request |-> Anywhere(BookingLife)]
BookingDialog == Screen("BookingDialog", "resident", RK.amenityConflicts, "booking",
                        BookingDialogWrites, BookingDialogOffers)

\* The catalog it is opened from.
AmenityCatalog == Display("AmenityCatalog", "resident", RK.amenitiesAvailable, "amenity")

\* NotificationBell: both writes are optimistic, and an answer carries only
\* the unread count.
NotificationBellWrites == [read |-> Optimistic, readAll |-> Optimistic]
NotificationBellOffers == [read |-> {"unread"}, readAll |-> {"unread"}]
NotificationBell == Screen("NotificationBell", "resident", Notifications, "feed",
                           NotificationBellWrites, NotificationBellOffers)

\* Profile: the answer to a new number is the household.
ProfileWrites == [add |-> SetsAnd({})]
ProfileOffers == [add |-> {"kept", "edited"}]
Profile == Screen("Profile", "resident", R("household"), "household",
                  ProfileWrites, ProfileOffers)

\* Notices
NoticesList == Display("Notices", "resident", R("notices"), "notice")

ResidentPages ==
    {ProposedVisit, ComplaintDrawer, CancelWork, Complaints, DashboardHome,
     HomeComplaints, HomeNotices, Visitors, Payments, BookingDues, Amenities,
     BookingDialog, AmenityCatalog, NotificationBell, Profile, NoticesList}
=============================================================================
