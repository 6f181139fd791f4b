--------------------------- MODULE SecurityScreens ---------------------------
(* What the gate and its manager work with (pages/SecurityDashboard and    *)
(* SecurityManagerDashboard), and the amenity office (features/amenities). *)
(* No map of the event stream follows any of their keys.                   *)
EXTENDS Lives

LOCAL Desk(name, key, of, writes, offers) ==
    Screen(name, "security", key, of, writes, offers)

Movements == <<"security", "movements">>
Tankers   == <<"security", "tankers">>
Shifts    == <<"security", "shifts">>
Incidents == <<"security", "incidents">>
Posts     == <<"security", "posts">>

--------------------------------------------------------------------------------
(* The registers.                                                          *)

\* MovementForm and TankerForm mint the id of their entry when they open, so
\* that a repeated press is the same entry.
MaterialsWrites == [record |-> Tells({Movements}), leave |-> Tells({Movements})]
MovementFormOffers == [record |-> RegisterLife.states]
MaterialsOffers == MovementFormOffers @@ [leave |-> {"inside"}]
Materials == Desk("Materials", Movements, "register", MaterialsWrites, MaterialsOffers)

TankersWrites == [record |-> Tells({Tankers}), leave |-> Tells({Tankers})]
TankerFormOffers == [record |-> RegisterLife.states]
TankersOffers == TankerFormOffers @@ [leave |-> {"inside"}]
TankerLog == Desk("Tankers", Tankers, "register", TankersWrites, TankersOffers)

--------------------------------------------------------------------------------
(* Shifts and incidents.                                                   *)

\* The guard's own page: start what is scheduled, end what is active.
ShiftsWrites == [start |-> Tells({Shifts}), complete |-> Tells({Shifts})]
ShiftCardOffers == [start |-> {"scheduled"}, complete |-> {"active"}]
GuardShifts == Desk("Shifts", Shifts, "shift", ShiftsWrites, ShiftCardOffers)

\* The manager's roster: a shift for a guard who has none then, and the two
\* ways of calling one off.
RosterWrites ==
    LET invalidate == Tells({Shifts})
    IN  [schedule |-> invalidate, miss |-> invalidate, cancel |-> invalidate]
ShiftFormOffers == [schedule |-> {"none", "cancelled"}]
RosterOffers == [miss |-> {"scheduled", "active"}, cancel |-> {"scheduled", "active"}]
RosterShifts == Desk("Roster", Shifts, "shift", RosterWrites, ShiftFormOffers @@ RosterOffers)

\* The posts of the gate, edited in place.
PostsWrites == [save |-> Tells({Posts})]
PostFormOffers == [save |-> {"kept", "edited"}]
RosterPosts == Desk("Posts", Posts, "kept", PostsWrites, PostFormOffers)

\* IncidentPanel: a report, and what follows one. The report form mints no id.
IncidentPanelWrites ==
    LET invalidate == Tells({Incidents})
    IN  [report |-> invalidate, acknowledge |-> invalidate, resolve |-> invalidate]
ReportFormOffers == [report |-> IncidentLife.states]
IncidentPanelOffers == [acknowledge |-> {"open"}, resolve |-> {"open", "acknowledged"}]
IncidentPanel == Desk("IncidentPanel", Incidents, "incident",
                      IncidentPanelWrites, ReportFormOffers @@ IncidentPanelOffers)

\* SecurityManager's Overview only shows.
GateOverview == Display("GateOverview", "security", Shifts, "shift")

--------------------------------------------------------------------------------
(* The amenity office, in the admin portal.                                *)

LOCAL AdminOffice(name, key, of, writes, offers) ==
    Screen(name, "admin", key, of, writes, offers)
Amenity == <<"amenities", "id">>

\* AmenityDashboardPage: one day of an amenity. An occupied time cannot be
\* selected, a free one cannot be cancelled.
AmenityDashboardWrites ==
    LET invalidate == Tells({Amenity})
    IN  [create |-> invalidate, block |-> invalidate, cancel |-> invalidate]
CreateBookingOffers == [create |-> {"free"}]
BlockTimeOffers     == [block |-> {"free"}]
CancelBookingOffers == [cancel |-> {"booked", "blocked"}]
AmenityDashboardOffers == CreateBookingOffers @@ BlockTimeOffers @@ CancelBookingOffers
AmenityDashboard == AdminOffice("AmenityDashboard", Amenity \o <<"bookings">>, "day",
                            AmenityDashboardWrites, AmenityDashboardOffers)

\* AmenityApprovalsPage: the requests waiting for an answer.
AmenityApprovalsWrites == [approve |-> Tells({Amenity}), reject |-> Tells({Amenity})]
RejectBookingOffers == [reject |-> {"requested"}]
AmenityApprovalsOffers == RejectBookingOffers @@ [approve |-> {"requested"}]
AmenityApprovals == AdminOffice("AmenityApprovals", Amenity \o <<"approvals">>, "booking",
                            AmenityApprovalsWrites, AmenityApprovalsOffers)

\* AmenityLedgerPage: every answer is the recomputed transaction.
AmenityLedgerWrites ==
    LET invalidate == Tells({Amenity})
    IN  [refund |-> invalidate, damage |-> invalidate, payment |-> invalidate,
         charge |-> invalidate, forceCancel |-> invalidate]

\* getLedgerMenuActions, the server's available actions included.
LedgerMenuActions ==
    [refund |-> {"refundable"}, damage |-> {"refundable"}, forceCancel |-> {"upcoming"}]

\* The two actions the menu adds itself: what is still owed is not told apart,
\* and no row is ever closed (the ledger has no refunded or cancelled status).
RecordPaymentOffers == [payment |-> LedgerLife.states]
AddChargeOffers     == [charge |-> LedgerLife.states]
AmenityLedger == AdminOffice("AmenityLedger", Amenity \o <<"ledger">>, "ledger",
                         AmenityLedgerWrites,
                         LedgerMenuActions @@ RecordPaymentOffers @@ AddChargeOffers)

\* useAmenitiesStore: a list read when its page opens; every write puts its
\* answer over the row and asks for nothing.
AmenityStoreWrites ==
    LET replaceAmenity == SetsAnd({})
    IN  [create |-> replaceAmenity, edit |-> replaceAmenity,
         activate |-> replaceAmenity, deactivate |-> replaceAmenity]

\* AmenitiesManagementPage and the settings page of one amenity.
AmenityFormOffers == [create |-> AmenityLife.states, edit |-> {"active", "inactive"}]
AmenitiesOfficeOffers == [activate |-> {"inactive"}, deactivate |-> {"active"}]
AmenitiesManagement == AdminOffice("AmenitiesManagement", <<"amenities-store">>, "amenity",
                               AmenityStoreWrites, AmenityFormOffers @@ AmenitiesOfficeOffers)

\* AmenityReportsPage only shows.
AmenityReports == Display("AmenityReports", "admin", <<"amenities", "reports">>, "booking")

--------------------------------------------------------------------------------
(* The dock of direct messages, mounted in every portal.                   *)

\* ThreadView: a line is sent while the thread is not locked.
ThreadViewWrites == [send |-> Tells({<<"dm-thread", "id">>, <<"dm-threads">>})]
ThreadViewOffers == [send |-> {"open"}]
ThreadView == Screen("ThreadView", "resident", <<"dm-thread", "id">>, "thread",
                     ThreadViewWrites, ThreadViewOffers)

\* ChatDock reads the mailbox, which ThreadListView shows.
Mailbox == <<"dm-threads">>
ThreadListView == Display("ThreadListView", "resident", Mailbox, "thread")

SecurityPages ==
    {Materials, TankerLog, GuardShifts, RosterShifts, RosterPosts, IncidentPanel, GateOverview}
AmenityPages ==
    {AmenityDashboard, AmenityApprovals, AmenityLedger, AmenitiesManagement, AmenityReports}
DockPages == {ThreadView, ThreadListView}
=============================================================================
