--------------------------- MODULE ManagerScreens ----------------------------
(* What department leaders work with: jobs, hiring, the people of the      *)
(* department and its complaints. The pages are shared with the admin      *)
(* portal and, in part, with the supervisor's.                             *)
EXTENDS Lives

LOCAL Manager(name, key, of, writes, offers) ==
    Screen(name, "manager", key, of, writes, offers)

Jobs       == <<"work-orders">>
DeptJobs   == Jobs \o <<"dept", "queue">>
Hiring     == <<"hiring", "dept">>
Department == <<"departments", "dept">>
Messages   == <<"conversations">>

--------------------------------------------------------------------------------
(* Jobs.                                                                   *)

\* permittedActions
ClosedToEdit    == {"completed", "cancelled"}
ClosedToBooking == {"completed", "cancelled", "failed"}
PermittedActions ==
    LET states == JobLife.states
    IN  [edit   |-> states \ ClosedToEdit,    cancel     |-> states \ ClosedToEdit,
         assign |-> states \ ClosedToBooking, reschedule |-> states \ ClosedToBooking]

\* JobDetail: its four forms settle by telling the queue and the job.
JobDetailWrites ==
    LET settle == Tells({DeptJobs, Jobs \o <<"job", "id">>, Jobs \o <<"candidates", "id">>})
    IN  [assign |-> settle, reschedule |-> settle, edit |-> settle, cancel |-> settle]
AssignFormOffers     == [assign |-> PermittedActions.assign]
RescheduleFormOffers == [reschedule |-> PermittedActions.reschedule]
EditFormOffers       == [edit |-> PermittedActions.edit]
CancelFormOffers     == [cancel |-> PermittedActions.cancel]
JobDetailOffers ==
    AssignFormOffers @@ RescheduleFormOffers @@ EditFormOffers @@ CancelFormOffers
JobDetail == Manager("JobDetail", Jobs \o <<"job", "id">>, "job",
                     JobDetailWrites, JobDetailOffers)

\* The queue behind it.
WorkOrderTriage == Manager("WorkOrderTriage", DeptJobs, "job",
                           JobDetailWrites, JobDetailOffers)

\* ComplaintWorkOrders: CreateForm appears while no job is live.
CreateFormWrites == [create |-> Tells({Jobs \o <<"complaint", "id">>, DeptJobs})]
CreateFormOffers == [create |-> {"free", "resolved"}]
ComplaintWorkOrders == Manager("ComplaintWorkOrders", Jobs \o <<"complaint", "id">>, "slot",
                               CreateFormWrites, CreateFormOffers)

--------------------------------------------------------------------------------
(* Hiring.                                                                 *)

\* ApplicationCard and RequestCard answer an application; CandidateCard makes
\* an invitation, and withdraws it.
ApplicationCardWrites == [hire |-> Tells({Hiring}), turnDown |-> Tells({Hiring}),
                          retract |-> Tells({Hiring})]
AcceptTermsOffers == [hire |-> {"applied"}]
ApplicationCardOffers ==
    AcceptTermsOffers @@ [turnDown |-> {"applied"}, retract |-> {"invited"}]
CandidateCardWrites == [invite |-> Tells({Hiring})]
CandidateCardOffers == [invite |-> {"none", "rejected", "withdrawn"}]

DepartmentHiring == Manager("DepartmentHiring", Hiring \o <<"applications">>, "application",
                            ApplicationCardWrites @@ CandidateCardWrites,
                            ApplicationCardOffers @@ CandidateCardOffers)

\* JoinRequests: the same answers, on the department's own page.
JoinRequestsWrites == [hire |-> Tells({Hiring}), turnDown |-> Tells({Hiring})]
RequestCardOffers == [hire |-> {"applied"}, turnDown |-> {"applied"}]
JoinRequests == Manager("JoinRequests", Hiring \o <<"applications">>, "application",
                        JoinRequestsWrites, RequestCardOffers)

\* CandidateDetail: one person, with whatever of the two is open.
CandidateDetailWrites ==
    LET invalidate == Tells({Hiring, <<"hiring", "candidate", "id">>})
    IN  [invite |-> invalidate, hire |-> invalidate, turnDown |-> invalidate]
CandidateDetailOffers ==
    [invite |-> {"none", "rejected", "withdrawn"}, hire |-> {"applied"},
     turnDown |-> {"applied"}]
CandidateDetail == Manager("CandidateDetail", Hiring \o <<"applications">>, "application",
                           CandidateDetailWrites, CandidateDetailOffers)

--------------------------------------------------------------------------------
(* Leaving.                                                                *)

\* DepartureCard: items handed over one at a time, and the decision.
DepartureCardWrites ==
    [reassign |-> Tells({Hiring}), approve |-> Tells({Hiring}), reject |-> Tells({Hiring})]
DepartureCardOffers ==
    [reassign |-> {"pending"}, approve |-> {"pending"}, reject |-> {"pending"}]

\* The roster and its RemovalModal: a removal, or the handover that a removal
\* needs, of whoever has no open request; and the bar of a service provider.
RemovalModalWrites ==
    [remove |-> Tells({Hiring}), request |-> Tells({Hiring}), bar |-> Tells({Hiring})]
RosterTabOffers == [remove |-> {"none", "approved"}, request |-> {"none", "approved"},
                    bar |-> {"none", "pending", "approved"}]

Departures == Manager("Departures", Hiring \o <<"departures">>, "departure",
                      DepartureCardWrites @@ RemovalModalWrites,
                      DepartureCardOffers @@ RosterTabOffers)

\* EmployeeDetail: the same on one person's page.
EmployeeDetailWrites ==
    LET invalidate == Tells({Hiring})
    IN  [reassign |-> invalidate, approve |-> invalidate, reject |-> invalidate,
         request |-> invalidate]
ApproveModalOffers == [approve |-> {"pending"}]
CoverageOffers     == [reassign |-> {"pending"}]
EmployeeDetailOffers ==
    ApproveModalOffers @@ CoverageOffers @@ [reject |-> {"pending"}, request |-> {"none"}]
EmployeeDetail == Manager("EmployeeDetail", Hiring \o <<"staff", "id">>, "departure",
                          EmployeeDetailWrites, EmployeeDetailOffers)

\* Their week, under a key of the person's.
EmployeeSchedule == Display("EmployeeSchedule", "manager",
                            Hiring \o <<"staff", "id", "schedule">>, "job")

--------------------------------------------------------------------------------
(* The department's complaints.                                            *)

\* DepartmentComplaintList: a manager moves a complaint, a supervisor asks.
DepartmentComplaintListWrites == [move |-> Tells({Department}), ask |-> Tells({Department})]
DepartmentComplaintListOffers == [move |-> {"routed", "live"}, ask |-> {"routed", "live"}]
DepartmentComplaintList == Manager("DepartmentComplaintList", Department \o <<"complaints">>,
                                   "routing", DepartmentComplaintListWrites,
                                   DepartmentComplaintListOffers)

\* ChangeRequests: the manager's answer.
ChangeRequestsWrites == [accept |-> Tells({Department}), reject |-> Tells({Department})]
ChangeRequestsOffers == [accept |-> {"pending"}, reject |-> {"pending"}]
ChangeRequests == Manager("ChangeRequests", Department \o <<"change-requests">>, "change",
                          ChangeRequestsWrites, ChangeRequestsOffers)

\* SkillPicker: the department's skills.
SkillPickerWrites == [save |-> Tells({<<"departments">>, <<"skills">>})]
SkillPickerOffers == [save |-> {"kept", "edited"}]
SkillPicker == Manager("SkillPicker", Department \o <<"skills">>, "kept",
                       SkillPickerWrites, SkillPickerOffers)

\* Messages: the portal's conversations, list and thread under one key.
MessagesWrites == [send |-> Tells({Messages})]
MessagesOffers == [send |-> {"open"}]
MessagesPage == Manager("Messages", Messages \o <<"id">>, "thread",
                        MessagesWrites, MessagesOffers)

\* Team: a supervisor invited, on top of the list of those invited before.
TeamWrites == [invite |-> Tells({Department})]
TeamOffers == [invite |-> {"none", "revoked"}]
Team == Manager("Team", Department \o <<"staff-invitations">>, "invite", TeamWrites, TeamOffers)

\* Overview and Skills only show; SkillPicker is on the second.
ManagerOverview == Display("ManagerOverview", "manager", Hiring \o <<"roster">>, "departure")
ManagerSkills   == Display("ManagerSkills", "manager", Department \o <<"skills">>, "kept")

ManagerPages ==
    {JobDetail, WorkOrderTriage, ComplaintWorkOrders, DepartmentHiring, JoinRequests,
     CandidateDetail, Departures, EmployeeDetail, EmployeeSchedule,
     DepartmentComplaintList, ChangeRequests, SkillPicker, MessagesPage, Team,
     ManagerOverview, ManagerSkills}
=============================================================================
