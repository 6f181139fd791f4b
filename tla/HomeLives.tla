------------------------------ MODULE HomeLives ------------------------------
(***************************************************************************)
(* The server's side of what the browser shows: for each entity, the       *)
(* states of one row, which write is accepted in which state and where it  *)
(* leads (the guards of the database functions), what else moves the row,  *)
(* and the frames each move publishes. Here: what residents see.           *)
(***************************************************************************)
EXTENDS Frames

\* From any of these to that; and a write that leaves the state as it is.
From(S, to) == S \X {to}
Stay(S)     == {<<s, s>> : s \in S}

\* What everybody else does: the pairs, and the frames they publish.
Others(pairs, frames) == {[from |-> p[1], to |-> p[2], frames |-> frames] : p \in pairs}

\* The complaint row as its resident meets it. A take-up and the projection
\* of a job's progress tell the resident nothing; the office's update and the
\* timers notify.
ComplaintStates == {"open", "acknowledged", "in_progress", "resolved", "closed", "cancelled"}
AddComplaintComment == Stay(ComplaintStates)
ComplaintProjected  == From({"open", "acknowledged"}, "in_progress")
                       \union From({"acknowledged", "in_progress"}, "resolved")
ComplaintLife ==
    [states |-> ComplaintStates, start |-> {"open", "resolved", "closed"},
     moves |-> [raise   |-> Stay(ComplaintStates),
                read    |-> Stay(ComplaintStates),
                comment |-> AddComplaintComment,
                confirm |-> From({"resolved"}, "closed"),
                reopen  |-> From({"resolved", "closed"}, "open")],
     adds |-> {"raise", "comment"},
     frames |-> {Office},
     others |-> Others({<<"open", "acknowledged">>}, {Office})
          \union Others(ComplaintProjected, {Office, Topic("work_order.changed")})
          \union Others(From({"resolved"}, "closed"),
                        {Office, Notified("complaint", {"resident"})})]

\* The visit: whichever job of the complaint is live when the server is asked,
\* "none" without one. It is "pick" while its resident is asked for a time and
\* none is proposed. "gone", "redraft", "repick" and "offered" are "none",
\* "draft", "pick" and "offer" on a complaint whose timeline ends in an
\* assignment or a visiting time: whoever cancels a job leaves them there, an
\* offer by the supervisor adds none, and a start or a completion covers them.
Bare    == {"none", "draft", "pick", "offer"}
Told    == [none |-> "gone", draft |-> "redraft", pick |-> "repick", offer |-> "offered"]
Unasked == {"draft", "redraft", "offer", "offered"}
Asked   == {"pick", "repick", "awaiting"}
InHand  == {"scheduled", "in_progress"}
Both(x, y) == {<<x, y>>, <<Told[x], Told[y]>>}

\* A job is raised; an open one is given a time or moved; it is offered to
\* somebody; its resident does not answer in time; it is called off or ends.
VisitRaised == Both("none", "draft") \union Both("none", "pick")
               \union {"none", "gone"} \X {"awaiting", "offered"}
VisitMoved  == (Unasked \union Asked) \X {"awaiting", "offered"}
VisitAssigned == (UNION {Both(x, "offer") : x \in Bare \ {"none"}})
                 \union {<<"in_progress", "offer">>}
                 \union From({"awaiting", "scheduled"}, "offered")
VisitUnanswered == Both("pick", "draft") \union {<<"awaiting", "offered">>}
VisitOver == (UNION {Both(x, "none") : x \in Bare \ {"none"}})
             \union InHand \X {"none"}
             \union From({"awaiting", "scheduled"}, "gone")

\* The resident's answers to the question for a time, and their calling off.
VisitAnswered == [confirm |-> From(Asked, "offered"),
                  decline |-> Both("pick", "draft") \union {<<"awaiting", "redraft">>}]
VisitPicked    == From({"pick", "repick"}, "offered")
VisitCalledOff == Both("offer", "none") \union {<<"scheduled", "gone">>}

VisitLife ==
    LET live    == Unasked \union Asked \union InHand
        changed == {Topic("work_order.changed")}
    IN  [states |-> live \union {"none", "gone"},
         start  |-> {"none", "awaiting", "pick", "scheduled"},
         moves |-> VisitAnswered @@ [pickTime |-> VisitPicked,
                                     cancelWork |-> VisitCalledOff],
         adds |-> {}, frames |-> changed,
         others |-> Others(VisitRaised \union VisitMoved \union VisitAssigned
                           \union VisitUnanswered \union VisitOver
                           \union From(live, "scheduled")
                           \union {<<"scheduled", "in_progress">>},
                           changed)]

\* A visitor pass: decided by its resident, used at the gate, lapsing by time.
PassStates == {"expected", "pending_approval", "approved", "denied",
               "cancelled", "expired", "checked_in", "checked_out"}
CreateVisitorPass == Stay(PassStates)
DecideVisitorPass ==
    [approve |-> From({"pending_approval"}, "approved"),
     reject  |-> From({"pending_approval"}, "denied"),
     cancel  |-> From({"expected", "pending_approval", "approved"}, "cancelled")]
ExpireVisitorPasses == From({"expected", "pending_approval", "approved"}, "expired")
PassLife ==
    [states |-> PassStates, start |-> {"expected", "pending_approval"},
     moves |-> DecideVisitorPass @@ [create |-> CreateVisitorPass],
     adds |-> {"create"}, frames |-> {Office},
     others |-> Others(From({"expected", "approved"}, "checked_in"),
                       {Office, Notified("visitor", {"resident"})})
          \union Others({<<"checked_in", "checked_out">>} \union ExpireVisitorPasses,
                        {Office})]

\* An invoice, and the payment that a repeated key replays.
InvoiceLife ==
    LET states == {"issued", "overdue", "paid", "void"}
    IN  [states |-> states, start |-> {"issued"},
         moves |-> [pay |-> From({"issued", "overdue"}, "paid")
                            \union {<<"paid", "paid">>}],
         adds |-> {}, frames |-> {Office},
         others |-> Others({<<"issued", "overdue">>, <<"issued", "void">>}, {Office})]

\* One day of an amenity as somebody asks for it; live days exclude another of
\* the same time. Approval and rejection leave a day that is no longer
\* requested alone, without an error; so does the resident's cancel. An amenity
\* that needs no approval approves what is asked for at once.
BookingLive == {"requested", "approved"}
BookingOver == {"free", "rejected", "cancelled"}
RequestAmenityBooking    == BookingOver \X BookingLive
SettleBookingPayment     == From(BookingLive, "approved")
CancelAmenityOccurrences == From(BookingLive, "cancelled") \union Stay(BookingOver)
ApproveAmenityBooking    == From({"requested"}, "approved")
                            \union Stay(BookingOver \union {"approved"})
RejectAmenityBooking     == From({"requested"}, "rejected")
                            \union Stay(BookingOver \union {"approved"})
BookingLife ==
    LET changed == {Office, Topic("amenity.changed")}
    IN  [states |-> BookingLive \union BookingOver,
         start |-> {"free", "requested", "approved"},
         moves |-> [request |-> RequestAmenityBooking, pay |-> SettleBookingPayment,
                    cancel  |-> CancelAmenityOccurrences,
                    approve |-> ApproveAmenityBooking, reject |-> RejectAmenityBooking],
         adds |-> {}, frames |-> changed,
         others |-> Others({<<"requested", "approved">>, <<"requested", "rejected">>,
                            <<"approved", "cancelled">>, <<"requested", "cancelled">>}
                           \union {"free"} \X BookingLive,
                           changed)]

\* The person's own notification feed.
FeedLife ==
    [states |-> {"unread", "read"}, start |-> {"unread", "read"},
     moves |-> [read |-> From({"unread", "read"}, "read"),
                readAll |-> From({"unread", "read"}, "read")],
     adds |-> {}, frames |-> {},
     others |-> Others(From({"unread", "read"}, "unread"), {Notified("other", Everyone)})]

\* A row somebody keeps up to date: a profile, a household, a settings form.
\* Every save is accepted and replaces it.
KeptLife(frames) ==
    [states |-> {"kept", "edited"}, start |-> {"kept"},
     moves |-> [save |-> From({"kept", "edited"}, "edited"),
                add  |-> From({"kept", "edited"}, "edited"),
                remove |-> From({"kept", "edited"}, "edited")],
     adds |-> {}, frames |-> frames,
     others |-> Others(From({"kept"}, "edited"), frames)]

NoticeLife ==
    [states |-> {"none", "posted"}, start |-> {"none", "posted"},
     moves |-> <<>>, adds |-> {}, frames |-> {Office},
     others |-> Others({<<"none", "posted">>, <<"posted", "none">>},
                       {Office, Notified("notice", {"resident"})})]
=============================================================================
