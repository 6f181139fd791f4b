----------------------------- MODULE OfficeLives -----------------------------
(* The rows that admins and managers write.                                *)
EXTENDS WorkLives

\* A complaint as the admin portal edits it: any status to any of three.
OfficeStates == {"pending", "in_progress", "resolved"}
UpdateComplaint == [hold    |-> From(OfficeStates, "pending"),
                    begin   |-> From(OfficeStates, "in_progress"),
                    resolve |-> From(OfficeStates, "resolved")]
AdminRaiseComplaint == Stay(OfficeStates)
OfficeComplaintLife ==
    LET told == {Office, Notified("complaint", {"resident"})}
    IN  [states |-> OfficeStates, start |-> {"pending"},
         moves |-> UpdateComplaint
                   @@ [comment |-> Stay(OfficeStates), raise |-> AdminRaiseComplaint],
         adds |-> {"comment", "raise"}, frames |-> told,
         others |-> Others({<<"pending", "in_progress">>, <<"in_progress", "resolved">>,
                            <<"resolved", "pending">>}, {Office})]

\* Which department holds a complaint; a live job keeps it there, and at most
\* one request to move it is open. Routing it where it is is no error.
Routed == {"routed", "asked", "live"}
AssignComplaintDepartment ==
    [allot |-> From({"unassigned", "elsewhere"}, "routed") \union Stay(Routed),
     move  |-> From({"unassigned", "routed", "asked", "done"}, "elsewhere")
               \union Stay({"elsewhere"})]
RequestDepartmentChange == From({"routed", "live", "elsewhere", "done"}, "asked")
RoutingLife ==
    [states |-> Routed \union {"unassigned", "elsewhere", "done"},
     start |-> {"unassigned", "routed"},
     moves |-> AssignComplaintDepartment @@ [ask |-> RequestDepartmentChange],
     adds |-> {}, frames |-> {Office},
     others |-> Others({<<"unassigned", "elsewhere">>, <<"asked", "elsewhere">>,
                        <<"elsewhere", "routed">>, <<"routed", "done">>}, {Office})
          \union Others({<<"routed", "live">>, <<"live", "routed">>}, JobMoved)]

\* A request to move a complaint, answered by the department's manager.
ChangeLife ==
    [states |-> {"pending", "accepted", "rejected"}, start |-> {"pending"},
     moves |-> [accept |-> From({"pending"}, "accepted"),
                reject |-> From({"pending"}, "rejected")],
     adds |-> {}, frames |-> {Office},
     others |-> Others(From({"pending"}, "accepted"), {Office})]

\* A department; "held" while a complaint of its own is open, "deleted" or
\* not yet there as "none".
Standing == {"active", "inactive", "held"}
CreateDepartment == From({"none"}, "active")
UpdateDepartment ==
    [edit       |-> Stay(Standing),
     activate   |-> From({"inactive"}, "active") \union Stay({"active", "held"}),
     deactivate |-> From(Standing, "inactive")]
DeleteDepartment == From({"active", "inactive"}, "none")
DepartmentLife ==
    [states |-> Standing \union {"none"}, start |-> {"none", "active", "held"},
     moves |-> UpdateDepartment @@ [create |-> CreateDepartment, delete |-> DeleteDepartment],
     adds |-> {}, frames |-> {Office},
     others |-> Others({<<"active", "held">>, <<"held", "active">>,
                        <<"active", "inactive">>, <<"active", "none">>}, {Office})]

\* An invitation of a manager or a supervisor.
InviteStaffMember      == From({"none", "revoked"}, "pending")
UpdateStaffInvitation  == Stay({"pending"})
RevokeStaffInvitation  == From({"pending", "revoked"}, "revoked")
ClaimStaffInvitations  == {<<"pending", "claimed">>}
InviteLife ==
    [states |-> {"none", "pending", "claimed", "revoked"}, start |-> {"none", "pending"},
     moves |-> [invite |-> InviteStaffMember, change |-> UpdateStaffInvitation,
                revoke |-> RevokeStaffInvitation],
     adds |-> {}, frames |-> {},
     others |-> Others(ClaimStaffInvitations, {Office})
          \union Others({<<"pending", "revoked">>}, {})]

\* A household's request to join. A second answer that repeats the first is
\* no error.
ApproveAccessRequest == From({"pending"}, "approved") \union Stay({"approved"})
RejectAccessRequest  == From({"pending"}, "rejected") \union Stay({"rejected"})
AccessLife ==
    LET told == {Requests("access_request.decided"), Office}
    IN  [states |-> {"pending", "approved", "rejected"}, start |-> {"pending"},
         moves |-> [approve |-> ApproveAccessRequest, reject |-> RejectAccessRequest],
         adds |-> {}, frames |-> told,
         others |-> Others({"pending"} \X {"approved", "rejected"}, told)]

\* A bill as the office keeps it: payments are recorded whatever its status,
\* and told apart by their reference, if they carry one.
IssueInvoice  == From({"none"}, "issued") \union Stay({"issued", "paid"})
RecordPayment == From({"issued", "paid"}, "paid")
BillLife ==
    [states |-> {"none", "issued", "paid"}, start |-> {"none", "issued"},
     moves |-> [issue  |-> IssueInvoice, record |-> RecordPayment],
     adds |-> {"issue", "record"}, frames |-> {Office},
     others |-> Others({<<"issued", "paid">>}, {Office})]

\* One time of one day of an amenity, as the office books and blocks it.
CreateAdminBooking == From({"free"}, "booked")
BlockAmenitySlot   == From({"free"}, "blocked")
CancelDays         == From({"booked", "blocked"}, "free") \union Stay({"free"})
DayLife ==
    LET changed == {Topic("amenity.changed"), Office}
    IN  [states |-> {"free", "booked", "blocked"}, start |-> {"free", "booked"},
         moves |-> [create |-> CreateAdminBooking, block |-> BlockAmenitySlot,
                    cancel |-> CancelDays],
         adds |-> {}, frames |-> changed,
         others |-> Others({<<"free", "booked">>, <<"booked", "free">>}, changed)]

\* A booking's money: held for a booking to come, refundable once the booking
\* is over or called off, or spent. Charges, damages and payments are added
\* to it whatever its state; a refund is what is left, and never more.
Unspent    == {"upcoming", "refundable"}
Ledgers == Unspent \union {"spent"}
RecordAmenityPayment == Stay(Ledgers)
AddAmenityCharge     == Stay(Ledgers) \union From({"refundable"}, "spent")
DeductAmenityDamage  == Stay(Ledgers) \union From({"refundable"}, "spent")
RefundAmenityDeposit == From(Unspent, "spent")
ForceCancelBooking   == From(Unspent, "refundable") \union Stay({"spent"})
LedgerLife ==
    LET changed == {Topic("amenity.changed"), Office}
    IN  [states |-> Ledgers, start |-> Unspent,
         moves |-> [payment |-> RecordAmenityPayment, charge |-> AddAmenityCharge,
                    damage |-> DeductAmenityDamage, refund |-> RefundAmenityDeposit,
                    forceCancel |-> ForceCancelBooking],
         adds |-> {"payment", "charge", "damage"}, frames |-> changed,
         others |-> Others({<<"upcoming", "refundable">>, <<"refundable", "spent">>}, changed)]

\* An amenity, written whole. Two saves are never refused.
AmenityLife ==
    LET here    == {"active", "inactive"}
        changed == {Topic("amenity.changed"), Office}
    IN  [states |-> here \union {"none"}, start |-> {"none", "active"},
         moves |-> [create |-> From({"none"}, "active") \union Stay(here),
                    edit   |-> Stay(here),
                    activate   |-> From(here, "active"),
                    deactivate |-> From(here, "inactive")],
         adds |-> {"create"}, frames |-> changed,
         others |-> Others({<<"active", "inactive">>, <<"inactive", "active">>}, changed)]
=============================================================================
