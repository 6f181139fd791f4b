---------------------------- MODULE WorkerScreens ----------------------------
(* The worker portal's components (pages/WorkerDashboard), the             *)
(* supervisor's page among them.                                           *)
EXTENDS Lives

LOCAL Worker(name, key, of, writes, offers) ==
    Screen(name, "worker", key, of, writes, offers)

Snapshot     == <<"worker-snapshot">>
Triage       == <<"supervisor-triage">>
WorkOrders   == <<"work-orders">>
Applications == <<"worker-applications">>
Rosters      == <<"worker-communities">>

--------------------------------------------------------------------------------
(* The supervisor's page.                                                  *)

\* SupervisorDashboard: every write ends in the same invalidate().
SupervisorWrites ==
    LET invalidate == Tells({Triage})
    IN  [takeUp |-> invalidate, resolve |-> invalidate, raisePriority |-> invalidate]

\* What each section of the page offers: taking up a new complaint, resolving
\* one's own. Raising the priority belongs to the requests of one's own.
TriageCardOffers == [raisePriority |-> {"taken"}]
SupervisorOffers == TriageCardOffers @@ [takeUp |-> {"new"}, resolve |-> {"taken"}]

SupervisorDashboard == Worker("SupervisorDashboard", Triage \o <<"dept">>, "triage",
                              SupervisorWrites, SupervisorOffers)

\* The page's sections of jobs. Only "Open job requests", of drafts and offers
\* nobody has accepted, has buttons.
JobSections == [awaitingResident |-> {"awaiting"}, openRequests |-> {"draft", "offered"},
                assigned |-> {"scheduled"}, inProgress |-> {"in_progress"}]
OpenRequest == JobSections.openRequests

\* AssignPickerModal forces a job on a worker and TakeUpModal on oneself; both
\* end in the same two invalidations.
AssignPickerModalWrites == [force |-> Tells({Triage, WorkOrders})]
AssignPickerModal == Worker("AssignPickerModal", Triage \o <<"dept">>, "job",
                            AssignPickerModalWrites, [force |-> OpenRequest])

TakeUpModalWrites == [takeUp |-> Tells({Triage, WorkOrders})]
TakeUpModal == Worker("TakeUpModal", Triage \o <<"dept">>, "job",
                      TakeUpModalWrites, [takeUp |-> OpenRequest])

\* NoteComposer, in a dialog of its own and under the complaint's detail.
NoteComposerWrites == [note |-> Tells({<<"staff-complaint", "id">>, Triage})]

NoteComposerOffers == [note |-> TriageLife.states]

ComplaintDetailModal == Worker("ComplaintDetailModal", <<"staff-complaint", "id">>, "triage",
                               NoteComposerWrites, NoteComposerOffers)

--------------------------------------------------------------------------------
(* The worker's jobs.                                                      *)

\* JobDetailModal: whichever action, everything on the portal is told.
JobDetailModalWrites ==
    LET act == Tells({Snapshot, <<"worker-jobs">>, <<"worker-calendar">>, <<"worker-job">>})
    IN  [accept |-> act, decline |-> act, start |-> act, complete |-> act, unable |-> act]

JobDetailModalOffers ==
    [accept |-> {"offered"}, decline |-> {"offered"}, start |-> {"mine"},
     complete |-> {"started"}, unable |-> {"mine", "started"}]

JobDetailModal == Worker("JobDetailModal", <<"worker-job", "id">>, "duty",
                         JobDetailModalWrites, JobDetailModalOffers)

\* OpenJobs: a refused claim reads the board again, too.
OpenJobsWrites == [claim |-> TellsBoth({<<"worker-open-jobs">>})]
OpenJobsOffers == [claim |-> {"posted"}]
OpenJobs == Worker("OpenJobs", <<"worker-open-jobs">>, "duty",
                   OpenJobsWrites, OpenJobsOffers)

\* The same jobs, shown: the dashboard's offers and visits, the calendar, the
\* supervisor's past complaints.
WorkerDashboardHome == Display("WorkerDashboardHome", "worker", Snapshot, "duty")
WorkerCalendar == Display("WorkerCalendar", "worker", <<"worker-calendar", "range">>, "duty")
CompletedWork  == Display("CompletedWork", "worker",
                          <<"departments", "id", "complaints">>, "triage")

--------------------------------------------------------------------------------
(* Where the worker belongs.                                               *)

\* Find: applying where nothing is open yet.
FindWrites == [apply |-> Tells({Applications, <<"worker-community-search">>})]
FindOffers == [apply |-> {"none", "rejected", "withdrawn"}]

\* Applications: one's own may be withdrawn, an invitation answered.
ApplicationsWrites ==
    [withdraw |-> Tells({Applications}), accept |-> Tells({Applications}),
     decline  |-> Tells({Applications})]
ApplicationsOffers ==
    [withdraw |-> {"applied"}, accept |-> {"invited"}, decline |-> {"invited"}]

WorkerCommunities == Worker("WorkerCommunities", Applications, "application",
                            FindWrites @@ ApplicationsWrites,
                            FindOffers @@ ApplicationsOffers)

\* LeaveSection of the settings, and LeaveControl of the rosters.
LeaveSectionWrites ==
    LET refresh == Tells({Rosters, Snapshot})
    IN  [request |-> refresh, withdraw |-> refresh]
LeaveModalOffers == [request |-> {"none"}]
LeaveSectionOffers == LeaveModalOffers @@ [withdraw |-> {"pending"}]
LeaveSection == Worker("LeaveSection", Rosters, "departure",
                       LeaveSectionWrites, LeaveSectionOffers)

LeaveControlWrites == [withdraw |-> Tells({Rosters})]
LeaveControlOffers == [withdraw |-> {"pending"}]
LeaveControl == Worker("LeaveControl", Rosters, "departure",
                       LeaveControlWrites, LeaveControlOffers)

\* The layout shows the registration screen until the snapshot says the
\* profile is complete or somebody has hired its person.
WorkerLayout == Display("WorkerLayout", "worker", Snapshot, "application")

--------------------------------------------------------------------------------
(* What the worker keeps.                                                  *)

LOCAL Kept == {"kept", "edited"}

\* WorkerSettings saves the skills, which may be refused, before the profile.
WorkerSettingsWrites ==
    [save |-> Tells({<<"worker-profile">>, Snapshot, <<"worker-community-search">>})]
WorkerSettingsOffers == [save |-> Kept]
WorkerSettings == Worker("WorkerSettings", <<"worker-profile">>, "kept",
                         WorkerSettingsWrites, WorkerSettingsOffers)
WorkerProfile  == Display("WorkerProfile", "worker", <<"worker-profile">>, "kept")

\* WorkerAvailability: the weekly rules, and the blocks of time off.
WorkerAvailabilityWrites == [save |-> Tells({<<"worker-rules">>})]
WorkerAvailabilityOffers == [save |-> Kept]
WorkerAvailability == Worker("WorkerAvailability", <<"worker-rules">>, "kept",
                             WorkerAvailabilityWrites, WorkerAvailabilityOffers)

TimeOffWrites ==
    LET both == Tells({<<"worker-unavailability">>, <<"worker-calendar">>})
    IN  [add |-> both, remove |-> both]
TimeOffOffers == [add |-> Kept, remove |-> Kept]
TimeOff == Worker("TimeOff", <<"worker-unavailability">>, "kept",
                  TimeOffWrites, TimeOffOffers)

\* AvailabilityToggle, in the layout's header.
AvailabilityToggleWrites == [save |-> Tells({Snapshot})]
AvailabilityToggle == Worker("AvailabilityToggle", Snapshot, "kept",
                             AvailabilityToggleWrites, [save |-> Kept])

\* RegisterProvider makes the profile the rest of the portal needs.
RegisterProviderWrites == [save |-> Tells({Snapshot, <<"worker-profile">>})]
RegisterProviderOffers == [save |-> Kept]
RegisterProvider == Worker("RegisterProvider", <<"worker-profile">>, "kept",
                           RegisterProviderWrites, RegisterProviderOffers)

\* WorkerMessages: the office's conversations, one of them open.
WorkerMessagesWrites ==
    [send |-> Tells({<<"worker-conversation", "id">>, <<"worker-conversations">>})]
WorkerMessagesOffers == [send |-> {"open"}]
WorkerMessages == Worker("WorkerMessages", <<"worker-conversation", "id">>, "thread",
                         WorkerMessagesWrites, WorkerMessagesOffers)
WorkerThreads  == Display("WorkerThreads", "worker", <<"worker-conversations">>, "thread")

WorkerPages ==
    {SupervisorDashboard, AssignPickerModal, TakeUpModal, ComplaintDetailModal,
     JobDetailModal, OpenJobs, WorkerDashboardHome, WorkerCalendar, CompletedWork,
     WorkerCommunities, LeaveSection, LeaveControl, WorkerSettings,
     WorkerProfile, WorkerAvailability, TimeOff, AvailabilityToggle,
     RegisterProvider, WorkerLayout, WorkerMessages, WorkerThreads}
=============================================================================
