---------------------------- MODULE AdminScreens -----------------------------
(* The admin portal's components (pages/AdminDashboard): those of the      *)
(* store, which holds one snapshot of the community, and those with a      *)
(* query of their own.                                                     *)
EXTENDS Lives

LOCAL Admin(name, key, of, writes, offers) ==
    Screen(name, "admin", key, of, writes, offers)

Departments == <<"departments">>
Unassigned  == <<"unassigned-complaints">>

--------------------------------------------------------------------------------
(* Components of the store.                                                *)

\* updateComplaint and addComplaintComment: on screen at once, and put back by
\* another snapshot.
StoreComplaintWrites ==
    [hold |-> Optimistic, begin |-> Optimistic, resolve |-> Optimistic,
     comment |-> Optimistic]

\* AdminRaiseComplaintModal, and the snapshot its page reads afterwards.
AdminRaiseComplaintModalWrites == [raise |-> Tells({Dashboard, Unassigned})]
AdminRaiseComplaintModalOffers == [raise |-> OfficeComplaintLife.states]

\* Complaints: a form with all three statuses, whatever the row's own.
AdminComplaintsWrites == StoreComplaintWrites @@ AdminRaiseComplaintModalWrites
AdminComplaintsOffers ==
    LET all == OfficeComplaintLife.states
    IN  [hold |-> all, begin |-> all, resolve |-> all, comment |-> all]

AdminComplaints == StoreScreen("AdminComplaints", "office", AdminComplaintsWrites,
                               AdminComplaintsOffers @@ AdminRaiseComplaintModalOffers)

\* DepartmentDetail: a department's complaints with a chat and a status. The
\* department itself is a query.
DepartmentDetailOffers ==
    LET all == OfficeComplaintLife.states
    IN  [hold |-> all, begin |-> all, resolve |-> all, comment |-> all]
DepartmentDetail == StoreScreen("DepartmentDetail", "office",
                                StoreComplaintWrites, DepartmentDetailOffers)

\* The team's half of the page has a query of its own.
DepartmentTeam == Admin("DepartmentTeam", Departments \o <<"id", "roster">>, "invite",
                        <<>>, <<>>)

\* Maintenance: both dialogs end in refreshDashboard(). A payment may be
\* recorded on what still shows as unpaid.
CreateInvoiceModalWrites  == [issue  |-> Tells({Dashboard})]
RecordPaymentModalWrites  == [record |-> Tells({Dashboard})]
CreateInvoiceModalOffers == [issue |-> BillLife.states]
RecordPaymentModalOffers == [record |-> {"issued"}]
Maintenance == StoreScreen("Maintenance", "bill",
                           CreateInvoiceModalWrites @@ RecordPaymentModalWrites,
                           CreateInvoiceModalOffers @@ RecordPaymentModalOffers)

\* Admins: a promotion is followed by another snapshot.
AdminsWrites == [save |-> Tells({Dashboard})]
AdminsOffers == [save |-> {"kept", "edited"}]
Admins == StoreScreen("Admins", "settings", AdminsWrites, AdminsOffers)

\* Notices waits for the frame of what it published; the home page only shows.
AdminNoticesWrites == [save |-> Tells({})]
AdminNoticesOffers == [save |-> {"kept", "edited"}]
AdminNotices == StoreScreen("AdminNotices", "settings", AdminNoticesWrites,
                            AdminNoticesOffers)
AdminHome == StoreScreen("AdminHome", "office", <<>>, <<>>)

--------------------------------------------------------------------------------
(* Components with queries.                                                *)

\* Departments: saving, switching and deleting all end in one invalidation,
\* made whether or not the server agreed.
DepartmentsWrites ==
    LET after == TellsBoth({Departments})
    IN  [create |-> after, edit |-> after, activate |-> after,
         deactivate |-> after, delete |-> after]

\* A card's buttons. Deleting is refused here for open complaints whose
\* category is the department's, which is not how the server counts them.
LOCAL Here == {"active", "inactive", "held"}
DepartmentsOffers == [activate |-> {"inactive"}, deactivate |-> {"active", "held"}]
DeleteDialogOffers == [delete |-> Here]

\* DepartmentForm: one form for a new department and for an old one.
DepartmentFormOffers == [create |-> {"none"}, edit |-> Here]

DepartmentList == Admin("Departments", Departments, "department", DepartmentsWrites,
                        DepartmentsOffers @@ DeleteDialogOffers @@ DepartmentFormOffers)

\* DepartmentDetails, opened from a card, only shows.
DepartmentDetails == Display("DepartmentDetails", "admin", Departments, "department")

\* Inviting a leader is the last part of saving a department; correcting and
\* withdrawing an invitation are PendingInvitations'.
DepartmentFormWrites == [invite |-> TellsBoth({Departments})]
LeaderFieldsOffers == [invite |-> {"none", "revoked"}]
PendingInvitationsWrites ==
    [change |-> Tells({Departments}), revoke |-> Tells({Departments})]
PendingInvitationsOffers == [change |-> {"pending"}, revoke |-> {"pending"}]
PendingInvitations == Admin("PendingInvitations", Departments \o <<"id", "staff-invitations">>,
                            "invite", DepartmentFormWrites @@ PendingInvitationsWrites,
                            LeaderFieldsOffers @@ PendingInvitationsOffers)

\* ComplaintTriage: what no rule could route.
ComplaintTriageWrites == [allot |-> Tells({Unassigned})]
ComplaintTriageOffers == [allot |-> {"unassigned"}]
ComplaintTriage == Admin("ComplaintTriage", Unassigned, "routing",
                         ComplaintTriageWrites, ComplaintTriageOffers)

\* PendingRegistrations: three answers, one invalidation.
PendingRegistrationsWrites ==
    LET invalidate == Tells({<<"admin-access-requests">>})
    IN  [approve |-> invalidate, reject |-> invalidate]
PendingRegistrationsOffers == [approve |-> {"pending"}, reject |-> {"pending"}]
PendingRegistrations == Admin("PendingRegistrations", <<"admin-access-requests", "pending">>,
                              "access", PendingRegistrationsWrites, PendingRegistrationsOffers)

\* Settings: the community's and the billing's, saved together; each answer
\* is written over its own query.
SettingsWrites == [save |-> SetsAnd({})]
SettingsOffers == [save |-> {"kept", "edited"}]
SettingsPage == Admin("Settings", <<"settings">>, "settings", SettingsWrites, SettingsOffers)

AdminPages ==
    {AdminComplaints, DepartmentDetail, DepartmentTeam, Maintenance, Admins,
     AdminNotices, AdminHome, DepartmentList, DepartmentDetails, PendingInvitations,
     ComplaintTriage, PendingRegistrations, SettingsPage}
=============================================================================
