------------------------------- MODULE Frames --------------------------------
(***************************************************************************)
(* Which query keys a frame of the event stream makes stale, by portal.    *)
(* A frame is a topic, the portals whose people are in its audience and,   *)
(* for notification.created, the family of its kind (the part before the   *)
(* first dot).                                                             *)
(***************************************************************************)
EXTENDS Screens

Everyone == {"resident", "worker", "manager", "admin", "security"}
Frame(t, f, to)  == [topic |-> t, family |-> f, to |-> to]
Topic(t)         == Frame(t, "", Everyone)              \* the whole community
Office           == Frame("dashboard.refresh", "", {"admin", "manager"})
Requests(t)      == Frame(t, "", {"admin", "manager"})
Notified(f, to)  == Frame("notification.created", f, to) \* one member
Resync           == Topic("stream.resync")

AllQueries    == <<>>
Notifications == <<"notifications">>

\* residentKeys
R(name) == <<"resident", name>>
RK == [all |-> <<"resident">>, snapshot |-> R("snapshot"),
       complaintList |-> R("complaints"),
       complaint |-> R("complaint") \o <<"id">>,
       scheduleAll |-> R("schedule"), schedule |-> R("schedule") \o <<"id">>,
       amenitiesAvailable |-> R("amenities-available"),
       amenityBookings |-> R("amenity-bookings"),
       amenityConflicts |-> R("amenity-booking-conflicts")]

\* A portal's map: what every frame re-reads, what a resync re-reads, and the
\* extra keys of a topic or of a notification family.
ResidentMap ==
    LET amenity == {RK.amenitiesAvailable, RK.amenityBookings, RK.amenityConflicts}
        visit   == {RK.complaintList, RK.scheduleAll}
    IN  [always |-> {RK.snapshot, Notifications},
         resync |-> {RK.all, Notifications},
         topics |-> ("dashboard.refresh" :> {RK.all, Notifications}
                     @@ "work_order.changed" :> visit
                     @@ "amenity.changed" :> amenity),
         kinds  |-> [complaint |-> {RK.complaintList}, work_order |-> visit,
                     amenity |-> amenity]]

WorkerMap ==
    LET jobs == {<<"worker-open-jobs">>, <<"worker-calendar">>,
                 <<"supervisor-triage">>, <<"work-orders">>}
    IN  [always |-> {<<"worker-snapshot">>}, resync |-> {AllQueries},
         topics |-> ("work_order.changed" :> jobs
                     @@ "dashboard.refresh" :> {<<"supervisor-triage">>}),
         kinds  |-> [complaint |-> {<<"supervisor-triage">>, <<"departments">>},
                     work_order |-> jobs]]

ManagerMap ==
    LET both == {<<"departments">>, <<"work-orders">>}
    IN  [always |-> {<<"departments">>}, resync |-> {AllQueries},
         topics |-> ("dashboard.refresh" :> both \union {<<"hiring">>}
                     @@ "work_order.changed" :> both
                     @@ "access_request.created" :> {<<"hiring">>}
                     @@ "access_request.decided" :> {<<"hiring">>}),
         kinds  |-> [complaint |-> both, work_order |-> both,
                     hiring |-> {<<"hiring">>}]]

\* Mounted wherever there is a bell or a dock: in every portal.
BellMap == [always |-> {}, resync |-> {Notifications},
            topics |-> "notification.created" :> {Notifications},
            kinds  |-> <<>>]
ChatMap ==
    LET threads == {<<"dm-threads">>, <<"dm-thread">>}
    IN  [always |-> {}, resync |-> threads,
         topics |-> "message.created" :> threads,
         kinds  |-> [message |-> threads]]

\* subscribeToDashboard: the admin store asks for another snapshot, and the
\* pending registrations are read again when one has come.
AdminMap ==
    LET snapshot == {Dashboard, <<"admin-access-requests">>}
    IN  [always |-> {}, resync |-> snapshot, kinds |-> <<>>,
         topics |-> [t \in {"dashboard.refresh", "access_request.created",
                            "access_request.decided", "work_order.changed",
                            "amenity.changed", "message"} |-> snapshot]]

\* The gate and the security desk mount no map of their own.
NoMap == [always |-> {}, resync |-> {}, topics |-> <<>>, kinds |-> <<>>]
PortalMap == [resident |-> ResidentMap, worker |-> WorkerMap,
              manager |-> ManagerMap, admin |-> AdminMap, security |-> NoMap]

\* Mutant of QueriesForFrame: a topic nobody named re-reads nothing.
QueriesForNamedFrame(frame, map) ==
    IF frame = Resync THEN map.resync
    ELSE (IF frame.topic \in DOMAIN map.topics THEN map.topics[frame.topic] ELSE {})
         \union
         (IF frame.topic = "notification.created" /\ frame.family \in DOMAIN map.kinds
          THEN map.kinds[frame.family] ELSE {})

\* queriesForFrame
QueriesForFrame(frame, map) ==
    IF frame = Resync THEN map.resync
    ELSE map.always
         \union
         (IF frame.topic \in DOMAIN map.topics THEN map.topics[frame.topic] ELSE {})
         \union
         (IF frame.topic = "notification.created" /\ frame.family \in DOMAIN map.kinds
          THEN map.kinds[frame.family] ELSE {})

\* Everything a frame invalidates in a portal: its own map, the bell's and
\* the dock's.
Invalidated(portal, frame) ==
    UNION {QueriesForFrame(frame, m) : m \in {PortalMap[portal], BellMap, ChatMap}}
=============================================================================
