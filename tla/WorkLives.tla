------------------------------ MODULE WorkLives ------------------------------
(* The rows that workers, their supervisors and the gate write.            *)
EXTENDS HomeLives

JobMoved == {Topic("work_order.changed"), Office}

\* One job as one worker meets it: posted on the board, offered to them,
\* theirs, started by them, or somebody else's; what they have declined is not
\* posted to them again.
DutyLife ==
    LET open == {"posted", "offered", "mine", "started", "elsewhere"}
        shut == {"completed", "failed", "cancelled"}
    IN  [states |-> open \union shut, start |-> {"posted", "offered", "mine"},
         moves |-> [claim    |-> From({"posted"}, "mine"),
                    accept   |-> From({"offered"}, "mine"),
                    decline  |-> From({"offered"}, "elsewhere"),
                    start    |-> From({"mine"}, "started") \union Stay({"started"}),
                    complete |-> From({"mine", "started"}, "completed"),
                    unable   |-> From({"mine", "started"}, "failed")],
         adds |-> {}, frames |-> JobMoved,
         others |-> Others(open \X {"offered", "mine", "elsewhere", "cancelled"}
                           \union From({"offered", "elsewhere"}, "posted"), JobMoved)]

\* One job as the office and its supervisor meet it. Whoever books it (a claim,
\* an acceptance, a forced booking, the dispatcher) or offers it to somebody
\* may do so from any open status.
OpenJob == {"draft", "awaiting", "offered", "scheduled", "in_progress"}
ReleaseStaffCommitments == From(OpenJob, "offered")
JobLife ==
    LET booked == {"scheduled", "in_progress"}
        moved  == (OpenJob \ booked) \X {"awaiting", "offered"}
    IN  [states |-> OpenJob \union {"completed", "cancelled", "failed"},
         start  |-> {"draft", "scheduled", "failed"},
         moves |-> [takeUp     |-> From(OpenJob, "scheduled"),
                    force      |-> From(OpenJob, "scheduled"),
                    assign     |-> From(OpenJob, "offered"),
                    reschedule |-> moved \union From(booked, "scheduled"),
                    edit       |-> Stay(OpenJob \union {"failed"}),
                    cancel     |-> From(OpenJob \union {"failed"}, "cancelled")],
         adds |-> {}, frames |-> JobMoved,
         others |-> Others(OpenJob \X {"scheduled", "cancelled"}
                           \union ReleaseStaffCommitments \union moved \union {<<"awaiting", "draft">>,
                           <<"scheduled", "in_progress">>, <<"failed", "cancelled">>}
                           \union booked \X {"completed", "failed"}, JobMoved)]

\* Whether a complaint may be given a job: one live job each, and none on a
\* complaint that is done.
SlotLife ==
    [states |-> {"free", "live", "resolved"}, start |-> {"free", "resolved"},
     moves |-> [create |-> From({"free"}, "live")],
     adds |-> {}, frames |-> JobMoved,
     others |-> Others({<<"free", "live">>, <<"live", "free">>, <<"live", "resolved">>},
                       JobMoved)]

\* A complaint in its department's queue: nobody's, this supervisor's,
\* another's, with its job under way, or done. A second take-up of one's own
\* is no error, and one of a finished complaint only stamps it.
TriageStates == {"new", "taken", "theirs", "busy", "resolved"}
TakeUpComplaint == From({"new"}, "taken") \union Stay({"taken", "busy", "resolved"})
SupervisorResolveComplaint == From({"new", "taken", "theirs"}, "resolved")
RaiseComplaintPriority   == Stay(TriageStates)
AddComplaintNoteInternal == Stay(TriageStates)
TriageLife ==
    [states |-> TriageStates, start |-> {"new", "taken"},
     moves |-> [takeUp  |-> TakeUpComplaint, resolve |-> SupervisorResolveComplaint,
                raisePriority |-> RaiseComplaintPriority, note |-> AddComplaintNoteInternal],
     adds |-> {"raisePriority", "note"}, frames |-> {Office},
     others |-> Others({<<"new", "theirs">>, <<"new", "resolved">>,
                        <<"taken", "resolved">>}, {Office})
          \union Others({<<"taken", "busy">>, <<"busy", "taken">>,
                         <<"busy", "resolved">>}, JobMoved)]

\* A service provider's way into a department: applied for by the provider,
\* or invited by the department; only the other side may answer.
Unapplied == {"none", "rejected", "withdrawn"}
ApplyToDepartment     == From(Unapplied, "applied")
InviteServiceProvider == From(Unapplied, "invited")
DecideServiceApplication ==
    [withdraw |-> From({"applied"}, "withdrawn"), retract  |-> From({"invited"}, "withdrawn"),
     accept   |-> From({"invited"}, "accepted"),  decline  |-> From({"invited"}, "rejected"),
     hire     |-> From({"applied"}, "accepted"),  turnDown |-> From({"applied"}, "rejected")]
ApplicationLife ==
    [states |-> Unapplied \union {"applied", "invited", "accepted"},
     start  |-> {"none", "applied", "invited"},
     moves |-> DecideServiceApplication
               @@ [apply |-> ApplyToDepartment, invite |-> InviteServiceProvider],
     adds |-> {}, frames |-> {Office},
     others |-> Others({"none"} \X {"applied", "invited"}
                       \union {"applied", "invited"} \X {"withdrawn", "accepted", "rejected"},
                       {Notified("service_invitation_received", {"worker"})})]

\* Leaving a department: asked for by the member or opened for them, decided by
\* its leadership. One request is open at a time, which does not keep a member
\* whose leave is approved for a later day from being asked out again; turned
\* down or taken back, the approved one stands. A removal or a bar takes an open
\* request with it, and the approved one removes its member when the day comes.
RequestStaffDeparture == From({"none", "approved"}, "pending")
CancelStaffDeparture  == {"pending"} \X {"none", "approved"}
DecideStaffDeparture  == [approve |-> {"pending"} \X {"approved", "left"},
                          reject  |-> {"pending"} \X {"none", "approved"}]
ReassignDepartureItem    == Stay({"pending"})
RemoveDepartmentMember   == From({"none", "pending", "approved"}, "left")
BlacklistServiceProvider == From({"none", "pending", "approved"}, "left")
DispatchDepartureRemoval == {"pending", "approved"} \X {"left"}
DepartureLife ==
    LET told == {Notified("departure", {"worker", "manager"})}
    IN  [states |-> {"none", "pending", "approved", "left"},
         start  |-> {"none", "pending"},
         moves |-> DecideStaffDeparture
                   @@ [request  |-> RequestStaffDeparture, withdraw |-> CancelStaffDeparture,
                       reassign |-> ReassignDepartureItem, remove |-> RemoveDepartmentMember,
                       bar      |-> BlacklistServiceProvider],
         adds |-> {}, frames |-> told,
         others |-> Others(UNION {RequestStaffDeparture, CancelStaffDeparture,
                                  DecideStaffDeparture.approve, BlacklistServiceProvider,
                                  DispatchDepartureRemoval}, told)]

\* A guard's time: no shift in it, or one. A second shift over it is refused;
\* the status of one is set as asked, from any status.
ShiftHeld == {"scheduled", "active", "completed", "missed", "cancelled"}
ScheduleSecurityShift == From({"none", "cancelled"}, "scheduled")
UpdateSecurityShift ==
    [start |-> From(ShiftHeld, "active"), complete |-> From(ShiftHeld, "completed"),
     miss  |-> From(ShiftHeld, "missed"), cancel   |-> From(ShiftHeld, "cancelled")]
ShiftLife ==
    [states |-> ShiftHeld \union {"none"}, start |-> {"none", "scheduled", "active"},
     moves |-> UpdateSecurityShift @@ [schedule |-> ScheduleSecurityShift],
     adds |-> {}, frames |-> {},
     others |-> Others({<<"none", "scheduled">>, <<"scheduled", "active">>,
                        <<"active", "completed">>}
                       \union {"scheduled", "active"} \X {"missed", "cancelled"}, {})]

\* An incident, likewise.
IncidentStates == {"open", "acknowledged", "resolved"}
RecordSecurityIncident == Stay(IncidentStates)
UpdateSecurityIncident == [acknowledge |-> From(IncidentStates, "acknowledged"),
                           resolve     |-> From(IncidentStates, "resolved")]
IncidentLife ==
    [states |-> IncidentStates, start |-> {"open"},
     moves |-> UpdateSecurityIncident @@ [report |-> RecordSecurityIncident],
     adds |-> {"report"}, frames |-> {},
     others |-> Others({<<"open", "acknowledged">>, <<"acknowledged", "resolved">>}, {})]

\* A line of a gate register, goods or a tanker: something that came in and is
\* to go out again.
RegisterStates == {"inside", "gone"}
RecordMaterialMovement == Stay(RegisterStates)
RecordWaterTanker      == Stay(RegisterStates)
MarkMaterialReturned   == From(RegisterStates, "gone")
UpdateWaterTanker      == From(RegisterStates, "gone")
RegisterMoves == [record |-> RecordMaterialMovement \union RecordWaterTanker,
                  leave  |-> MarkMaterialReturned \union UpdateWaterTanker]

\* Mutant of RegisterLife: an entry without an id of its own.
RegisterLifeUnkeyed ==
    [states |-> RegisterStates, start |-> {"inside"}, moves |-> RegisterMoves,
     adds |-> {"record"}, frames |-> {},
     others |-> Others({<<"inside", "gone">>}, {})]

RegisterLife ==
    [states |-> RegisterStates, start |-> {"inside"}, moves |-> RegisterMoves,
     adds |-> {}, frames |-> {},
     others |-> Others({<<"inside", "gone">>}, {})]

\* A conversation about a job, closed with the job.
PostDmMessage        == Stay({"open"})
LockWorkOrderThreads == {<<"open", "locked">>}
ThreadLife ==
    [states |-> {"open", "locked"}, start |-> {"open"},
     moves |-> [send |-> PostDmMessage],
     adds |-> {"send"}, frames |-> {Topic("message.created")},
     others |-> Others({<<"open", "open">>}, {Topic("message.created")})
          \union Others(LockWorkOrderThreads, {Topic("work_order.changed")})]
=============================================================================
